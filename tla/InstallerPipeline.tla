-------------------------- MODULE InstallerPipeline --------------------------
(***************************************************************************)
(* Installer images: the request that queues one for a succeeded build     *)
(* (CreateBuildInstaller, QueueBuildInstaller), the goroutine that makes   *)
(* and publishes it (executeInstallerBuild, runBuildAndPublishInstaller)   *)
(* and the recovery at startup. The build rows it depends on take the      *)
(* steps of BuildLifecycle, which BuildPipeline implements.                *)
(*                                                                         *)
(* QueueBuildInstaller is a SELECT, a DELETE of old log chunks and an      *)
(* unconditional UPDATE, in no transaction: requests may interleave there. *)
(***************************************************************************)
EXTENDS BuildLifecycle, Naturals

CONSTANTS
  Requests,      \* identifiers of concurrent HTTP requests
  Workers,       \* identifiers of executeInstallerBuild goroutines
  None,          \* no build
  MaxQueued,     \* bound: installer builds queued by requests
  MaxCrashes,    \* bound: crashes of the server
  MaxFaults      \* bound: database calls that report an error

ASSUME NoneAssumption == None \notin Builds
ASSUME BoundAssumption == MaxQueued \in Nat /\ MaxCrashes \in Nat /\ MaxFaults \in Nat

VARIABLES
  installer,     \* builds.installer_status
  iso,           \* the image under <updates>/artifacts/<build id>/installer
  rpc, rjob,     \* where each request is in CreateBuildInstaller, and its build
  pc, job,       \* where each goroutine is in executeInstallerBuild, and its build
  server,        \* phase of the server process
  todo,          \* builds that startup listed and has yet to start a goroutine for
  lost,          \* history: builds for which this server saw a database call fail
  doubled,       \* history: builds whose installer was queued while queued or running
  queued, crashes, faults

requestVars == <<rpc, rjob>>
workerVars == <<pc, job>>
processVars == <<rpc, rjob, pc, job, server, todo>>
counterVars == <<queued, crashes, faults>>
vars == <<lifecycleVars, installer, iso, processVars, lost, doubled, counterVars>>

-----------------------------------------------------------------------------
InstallerStatuses == {"not_requested", "queued", "running", "succeeded", "failed"}

\* "mixed": two goroutines had the file open at once.
Images == {"none", "partial", "mixed", "whole"}

RequestStages == {"idle", "checked", "spawn"}
Stages == {"idle", "begin", "build", "open", "close", "finish", "fail"}
Phases == {"down", "boot", "list", "spawn", "up"}

InFlight(b) == installer[b] \in {"queued", "running"}

Init ==
  /\ LifecycleInit
  /\ installer = [b \in Builds |-> "not_requested"]
  /\ iso = [b \in Builds |-> "none"]
  /\ rpc = [r \in Requests |-> "idle"] /\ rjob = [r \in Requests |-> None]
  /\ pc = [w \in Workers |-> "idle"] /\ job = [w \in Workers |-> None]
  /\ server = "boot" /\ todo = {} /\ lost = {} /\ doubled = {}
  /\ queued = 0 /\ crashes = 0 /\ faults = 0

\* The installer columns belong to the row: they go with it.
Exists(b) == status[b] \notin {"absent", "deleted"}

-----------------------------------------------------------------------------
(* The rows and directories of the builds: any step a build pipeline takes. *)

BuildStep ==
  /\ LifecycleNext
  /\ UNCHANGED <<installer, iso, processVars, lost, doubled, counterVars>>

-----------------------------------------------------------------------------
(* CreateBuildInstaller.                                                   *)

StepRequest(r, stage, b) ==
  /\ rpc' = [rpc EXCEPT ![r] = stage]
  /\ rjob' = [rjob EXCEPT ![r] = b]

\* Mutant: the build's status is not asked for.
CheckInstallerOnly(r, b) ==
  /\ server = "up"
  /\ rpc[r] = "idle"
  /\ Exists(b)
  /\ ~InFlight(b)
  /\ StepRequest(r, "checked", b)
  /\ UNCHANGED <<lifecycleVars, installer, iso, workerVars, server, todo, lost, doubled, counterVars>>

\* The SELECT and its two refusals, and the DELETE of the old log chunks.
CheckInstallerRequest(r, b) ==
  /\ server = "up"
  /\ rpc[r] = "idle"
  /\ status[b] = "succeeded"
  /\ ~InFlight(b)
  /\ StepRequest(r, "checked", b)
  /\ UNCHANGED <<lifecycleVars, installer, iso, workerVars, server, todo, lost, doubled, counterVars>>

\* The UPDATE, which asks only for the row.
QueueBuildInstaller(r) ==
  /\ server = "up"
  /\ rpc[r] = "checked"
  /\ \/ /\ ~Exists(rjob[r])
        /\ StepRequest(r, "idle", None)
        /\ UNCHANGED <<installer, lost, doubled, queued, faults>>
     \/ /\ Exists(rjob[r])
        /\ queued < MaxQueued
        /\ queued' = queued + 1
        /\ doubled' = IF InFlight(rjob[r]) THEN doubled \cup {rjob[r]} ELSE doubled
        /\ installer' = [installer EXCEPT ![rjob[r]] = "queued"]
        /\ \/ StepRequest(r, "spawn", rjob[r]) /\ UNCHANGED <<lost, faults>>
           \/ /\ faults < MaxFaults
              /\ faults' = faults + 1
              /\ lost' = lost \cup {rjob[r]}
              /\ StepRequest(r, "idle", None)
  /\ UNCHANGED <<lifecycleVars, iso, workerVars, server, todo, crashes>>

StartGoroutine(b) ==
  \E w \in Workers :
    /\ pc[w] = "idle"
    /\ pc' = [pc EXCEPT ![w] = "begin"]
    /\ job' = [job EXCEPT ![w] = b]

QueueInstallerBuildExecution(r) ==
  /\ server = "up"
  /\ rpc[r] = "spawn"
  /\ StartGoroutine(rjob[r])
  /\ StepRequest(r, "idle", None)
  /\ UNCHANGED <<lifecycleVars, installer, iso, server, todo, lost, doubled, counterVars>>

-----------------------------------------------------------------------------
(* executeInstallerBuild.                                                  *)

UpdateBuildInstaller(b, s) ==
  /\ Exists(b)
  /\ installer' = [installer EXCEPT ![b] = s]
  /\ UNCHANGED <<lost, faults>>

\* No row, or an error of the call, which may come before or after the commit.
UpdateBuildInstallerError(b, s) ==
  \/ ~Exists(b) /\ UNCHANGED <<installer, lost, faults>>
  \/ /\ Exists(b)
     /\ faults < MaxFaults
     /\ faults' = faults + 1
     /\ lost' = lost \cup {b}
     /\ installer' \in {installer, [installer EXCEPT ![b] = s]}

Goto(w, stage) ==
  /\ pc' = [pc EXCEPT ![w] = stage]
  /\ UNCHANGED job

Return(w) ==
  /\ pc' = [pc EXCEPT ![w] = "idle"]
  /\ job' = [job EXCEPT ![w] = None]

otherVars == <<lifecycleVars, requestVars, server, todo, doubled, queued, crashes>>

BeginInstaller(w) ==
  /\ pc[w] = "begin"
  /\ \/ UpdateBuildInstaller(job[w], "running") /\ Goto(w, "build")
     \/ UpdateBuildInstallerError(job[w], "running") /\ Return(w)
  /\ UNCHANGED <<otherVars, iso>>

\* The build is read again and must have succeeded; then the two nix builds
\* and the signing of the raw image, all in the goroutine's own workspace.
BuildInstaller(w) ==
  /\ pc[w] = "build"
  /\ status[job[w]] = "succeeded"
  /\ Goto(w, "open")
  /\ UNCHANGED <<otherVars, installer, iso, lost, faults>>

\* copyFile opens the published image with O_TRUNC and writes it in place.
Copying(b) == {w \in Workers : pc[w] = "close" /\ job[w] = b}

OpenInstaller(w) ==
  /\ pc[w] = "open"
  /\ iso' = [iso EXCEPT ![job[w]] = IF Copying(job[w]) = {} THEN "partial" ELSE "mixed"]
  /\ Goto(w, "close")
  /\ UNCHANGED <<otherVars, installer, lost, faults>>

\* Which bytes win where two copies overlapped is not determined.
CloseInstaller(w) ==
  /\ pc[w] = "close"
  /\ IF iso[job[w]] = "partial" THEN iso' = [iso EXCEPT ![job[w]] = "whole"]
     ELSE IF Copying(job[w]) = {w} THEN \E c \in {"mixed", "whole"} : iso' = [iso EXCEPT ![job[w]] = c]
     ELSE UNCHANGED iso
  /\ Goto(w, "finish")
  /\ UNCHANGED <<otherVars, installer, lost, faults>>

\* Mutant: an error of the copy is not looked at.
InstallerCopyUnchecked(w) ==
  /\ pc[w] \in {"build", "open", "close"}
  /\ Goto(w, IF pc[w] = "close" THEN "finish" ELSE "fail")
  /\ UNCHANGED <<otherVars, installer, iso, lost, faults>>

InstallerError(w) ==
  /\ pc[w] \in {"build", "open", "close"}
  /\ Goto(w, "fail")
  /\ UNCHANGED <<otherVars, installer, iso, lost, faults>>

EndInstaller(w, stage, s) ==
  /\ pc[w] = stage
  /\ UpdateBuildInstaller(job[w], s) \/ UpdateBuildInstallerError(job[w], s)
  /\ Return(w)
  /\ UNCHANGED <<otherVars, iso>>

\* Mutant: a status that builds.installer_status does not admit.
FinishUnknown(w) == EndInstaller(w, "finish", "published")

\* Mutant: the outcome of a failed installer is only logged.
FailSilently(w) ==
  /\ pc[w] = "fail"
  /\ Return(w)
  /\ UNCHANGED <<otherVars, installer, iso, lost, faults>>

FinishInstaller(w) == EndInstaller(w, "finish", "succeeded")
FailInstaller(w) == EndInstaller(w, "fail", "failed")

-----------------------------------------------------------------------------
(* The server process.                                                     *)

GoDown ==
  /\ server' = "down"
  /\ rpc' = [r \in Requests |-> "idle"] /\ rjob' = [r \in Requests |-> None]
  /\ pc' = [w \in Workers |-> "idle"] /\ job' = [w \in Workers |-> None]
  /\ todo' = {} /\ lost' = {}
  /\ UNCHANGED <<lifecycleVars, installer, iso, doubled, queued>>

Crash ==
  /\ server # "down"
  /\ crashes < MaxCrashes /\ crashes' = crashes + 1
  /\ GoDown
  /\ UNCHANGED faults

StartupError ==
  /\ server \in {"boot", "list", "spawn"}
  /\ faults < MaxFaults /\ faults' = faults + 1
  /\ GoDown
  /\ UNCHANGED crashes

startupRest == <<lifecycleVars, iso, requestVars, lost, doubled, counterVars>>

Restart ==
  /\ server = "down" /\ server' = "boot"
  /\ UNCHANGED <<startupRest, installer, workerVars, todo>>

\* Mutant: startup leaves the running installers to whoever runs them.
KeepRunningInstallers ==
  /\ server = "boot" /\ server' = "list"
  /\ UNCHANGED <<startupRest, installer, workerVars, todo>>

FailRunningBuildInstallers ==
  /\ server = "boot" /\ server' = "list"
  /\ installer' = [b \in Builds |-> IF Exists(b) /\ installer[b] = "running" THEN "failed" ELSE installer[b]]
  /\ UNCHANGED <<startupRest, workerVars, todo>>

ListQueuedBuildInstallers ==
  /\ server = "list" /\ server' = "spawn"
  /\ todo' = {b \in Builds : Exists(b) /\ installer[b] = "queued"}
  /\ UNCHANGED <<startupRest, installer, workerVars>>

RequeueInstallerBuildExecution(b) ==
  /\ server = "spawn"
  /\ b \in todo /\ todo' = todo \ {b}
  /\ StartGoroutine(b)
  /\ UNCHANGED <<startupRest, installer, server>>

Serve ==
  /\ server = "spawn" /\ todo = {} /\ server' = "up"
  /\ UNCHANGED <<startupRest, installer, workerVars, todo>>

-----------------------------------------------------------------------------
Handle(r) ==
  \/ \E b \in Builds : CheckInstallerRequest(r, b)
  \/ QueueBuildInstaller(r) \/ QueueInstallerBuildExecution(r)

Execute(w) ==
  \/ BeginInstaller(w) \/ BuildInstaller(w) \/ OpenInstaller(w) \/ CloseInstaller(w)
  \/ InstallerError(w) \/ FinishInstaller(w) \/ FailInstaller(w)

Startup ==
  \/ Restart \/ FailRunningBuildInstallers \/ ListQueuedBuildInstallers \/ Serve
  \/ \E b \in Builds : RequeueInstallerBuildExecution(b)

Next ==
  \/ BuildStep
  \/ \E r \in Requests : Handle(r)
  \/ \E w \in Workers : Execute(w)
  \/ Startup \/ Crash \/ StartupError

Spec == Init /\ [][Next]_vars

\* As in BuildPipeline: goroutines and startup run on, and a request that
\* queued an installer goes on to start the goroutine.
Fairness ==
  /\ \A w \in Workers : WF_vars(Execute(w))
  /\ \A r \in Requests : WF_vars(QueueInstallerBuildExecution(r))
  /\ WF_vars(Startup)

FairSpec == Spec /\ Fairness

-----------------------------------------------------------------------------
(* Properties.                                                             *)

\* Every variable has its type.
TypeOK ==
  /\ status \in [Builds -> Statuses] /\ artifact \in [Builds -> Artifacts]
  /\ installer \in [Builds -> InstallerStatuses] /\ iso \in [Builds -> Images]
  /\ rpc \in [Requests -> RequestStages] /\ rjob \in [Requests -> Builds \cup {None}]
  /\ pc \in [Workers -> Stages] /\ job \in [Workers -> Builds \cup {None}]
  /\ server \in Phases
  /\ todo \subseteq Builds /\ lost \subseteq Builds /\ doubled \subseteq Builds
  /\ queued \in 0 .. MaxQueued /\ crashes \in 0 .. MaxCrashes /\ faults \in 0 .. MaxFaults

\* QueueBuildInstaller refuses to queue an installer that "is already queued or
\* running" (ErrBuildInstallerAlreadyQueued), so no build has two goroutines at
\* work on its image.
OneInstallerAtATime == \A v, w \in Workers : job[v] = job[w] /\ job[v] # None => v = w

\* Short of a request that slipped between another's SELECT and UPDATE, an
\* installer that is shown as succeeded is one whole image, written by one
\* goroutine, whatever restarts, failed calls and repeated requests led there.
SucceededInstallerIsWhole ==
  \A b \in Builds \ doubled :
    /\ \A v, w \in Workers : job[v] = b /\ job[w] = b => v = w
    /\ Exists(b) /\ installer[b] = "succeeded" => iso[b] = "whole"

\* An installer exists only for a build that succeeded: the check made when it
\* is queued still holds when it is built, because succeeded is final.
InstallerNeedsBuild ==
  \A b \in Builds :
    (InFlight(b) \/ \E w \in Workers : job[w] = b) =>
      status[b] \in {"succeeded", "deleted"} /\ (status[b] = "succeeded" => artifact[b] = "ready")

\* While the server serves, an installer shown as queued or running has a
\* goroutine, or a request about to start one, unless a call for it failed.
NoOrphanedInstaller ==
  server = "up" =>
    \A b \in Builds :
      InFlight(b) /\ Exists(b) =>
        \/ \E w \in Workers : job[w] = b
        \/ \E r \in Requests : rjob[r] = b /\ rpc[r] = "spawn"
        \/ b \in lost

\* Every installer that was queued settles, even when two requests raced.
InstallerSettles ==
  \A b \in Builds :
    InFlight(b) ~> (~InFlight(b) \/ status[b] = "deleted" \/ b \in lost)

=============================================================================
