--------------------------- MODULE MCControlPlane ---------------------------
(***************************************************************************)
(* Accounts, profiles, the Secure Boot key of a profile and the log of a    *)
(* build, for TLC. They share no state (users own rows, but a user that     *)
(* goes leaves them ownerless), so one of them moves, chosen at the start,  *)
(* as in MCDevices.                                                         *)
(***************************************************************************)
EXTENDS Accounts, Profiles, SecureBootMaterial, BuildLogs, TLC

VARIABLE part    \* the component that moves

CONSTANT InitialRows \* bound: how many assignments and builds there are at the start

\* Ids of the two components have the same names, and so fewer permutations.
Symmetry == UNION {Permutations(S) : S \in {Fleets, Profiles, Builds, Handlers}}
ASSUME SameIdsAssumption == People = Fleets /\ Invites = Profiles /\ Builds \subseteq Passkeys

SomeRows ==
  /\ Cardinality(db.released) = 1 /\ db.rollouts = db.released /\ db.devices = {db.builds[b].fleet : b \in db.released}
  /\ Cardinality({a \in ListProfiles \X Fleets : a[2] \in getProfileFleetAssignments(a[1])})
       + Cardinality(ListBuilds) = InitialRows
NoRows == \A p \in Profiles : db.profiles[p] = None

Init ==
  /\ AccountInit /\ ProfileInit /\ BootKeyInit /\ LogInit
  /\ \/ part \in {"accounts", "keys", "logs"} /\ NoRows /\ db.devices = {}
     \/ part = "profiles" /\ SomeRows

Next ==
  \/ part = "accounts" /\ AccountNext /\ UNCHANGED <<part, profileVars, bootKeyVars, logVars>>
  \/ part = "profiles" /\ ProfileNext /\ UNCHANGED <<part, accountVars, bootKeyVars, logVars>>
  \/ part = "keys" /\ BootKeyNext /\ UNCHANGED <<part, accountVars, profileVars, logVars>>
  \/ part = "logs" /\ LogNext /\ UNCHANGED <<part, accountVars, profileVars, bootKeyVars>>

vars == <<part, accountVars, profileVars, bootKeyVars, logVars>>

Spec == Init /\ [][Next]_vars

TypeOK == AccountTypeOK /\ ProfileTypeOK /\ BootKeyTypeOK /\ LogTypeOK

=============================================================================
