--------------------------- MODULE MCFleetRollout ---------------------------
(* A small instance of FleetRollout for TLC.                                *)
EXTENDS FleetRollout, TLC

\* Releases and requests are interchangeable; used for safety only.
Symmetry == Permutations(Releases) \cup Permutations(Rollouts)

=============================================================================
