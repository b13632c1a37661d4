--------------------------- MODULE BuildLifecycle ---------------------------
(***************************************************************************)
(* What a Fleeti build promises to the rest of the control plane: its row  *)
(* in the builds table, the directory <updates>/artifacts/<build id>, and  *)
(* who may still write there. Releases, rollouts and installer images rely *)
(* on these steps only; how the server performs them, with goroutines,     *)
(* requests, crashes and failing database calls, is the business of        *)
(* BuildPipeline, which implements this module.                            *)
(***************************************************************************)

CONSTANT Builds          \* identifiers (UUIDs) a build row may get

VARIABLES
  status,                \* builds.status; "absent" before INSERT, "deleted" after DELETE
  artifact,              \* the published directory: "none", "partial" or "ready"
  executing              \* builds with an executor that may write there

lifecycleVars == <<status, artifact, executing>>

Statuses == {"absent", "queued", "running", "succeeded", "failed", "deleted"}

Artifacts == {"none", "partial", "ready"}

LifecycleInit ==
  /\ status = [b \in Builds |-> "absent"]
  /\ artifact = [b \in Builds |-> "none"]
  /\ executing = {}

SetStatus(S, s) == status' = [b \in Builds |-> IF b \in S THEN s ELSE status[b]]

\* A row is inserted, always as queued.
Create(b) ==
  /\ status[b] = "absent"
  /\ SetStatus({b}, "queued")
  /\ UNCHANGED <<artifact, executing>>

\* The executor of a queued build marks it running; it gives up at once if the
\* call reports an error.
Start(b) ==
  /\ status[b] = "queued"
  /\ SetStatus({b}, "running")
  /\ executing' \in {executing, executing \cup {b}}
  /\ UNCHANGED artifact

\* Only an executor writes. It is not told of a DELETE, so it may go on
\* writing for a build that no longer has a row.
Write(b) ==
  /\ b \in executing
  /\ \E a \in Artifacts : artifact' = [artifact EXCEPT ![b] = a]
  /\ UNCHANGED <<status, executing>>

\* A build succeeds only with everything published, and nobody left to change it.
Succeed(b) ==
  /\ status[b] = "running"
  /\ b \in executing
  /\ artifact[b] = "ready"
  /\ SetStatus({b}, "succeeded")
  /\ executing' = executing \ {b}
  /\ UNCHANGED artifact

\* An executor fails one running build, a restart fails all of them at once.
Fail(S) ==
  /\ \A b \in S : status[b] = "running"
  /\ SetStatus(S, "failed")
  /\ executing' = executing \ S
  /\ UNCHANGED artifact

\* Executors end without a word: they found no row, the call that was to report
\* the outcome failed, or the server crashed.
Stop(S) ==
  /\ executing' = executing \ S
  /\ UNCHANGED <<status, artifact>>

\* The row may be deleted at any time; the directory stays.
Delete(b) ==
  /\ status[b] \notin {"absent", "deleted"}
  /\ SetStatus({b}, "deleted")
  /\ UNCHANGED <<artifact, executing>>

LifecycleNext ==
  \/ \E b \in Builds : Create(b) \/ Start(b) \/ Write(b) \/ Succeed(b) \/ Delete(b)
  \/ \E S \in SUBSET Builds : Fail(S) \/ Stop(S)

LifecycleSpec == LifecycleInit /\ [][LifecycleNext]_lifecycleVars

=============================================================================
