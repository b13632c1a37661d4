--------------------------- MODULE MCBuildPipeline ---------------------------
(* A small instance of BuildPipeline for TLC.                               *)
EXTENDS BuildPipeline, TLC

CONSTANTS b1, b2, b3, k1, k2

\* b1 and b2 compete for one version, b3 has a version of its own.
MCKeyOf == [b \in Builds |-> IF b = b3 THEN k2 ELSE k1]

\* Goroutines are interchangeable, and so are the two rivals; used in the run
\* that checks safety only.
Symmetry == Permutations({b1, b2}) \cup Permutations(Workers)

=============================================================================
