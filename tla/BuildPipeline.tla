---------------------------- MODULE BuildPipeline ----------------------------
(***************************************************************************)
(* The update build of the Fleeti control plane: the requests that create  *)
(* and delete builds, the goroutine that executes one (executeBuild,       *)
(* runBuildAndPublishUpdate), the published directory it fills, copies,    *)
(* signs and indexes, and the startup that recovers from a crash           *)
(* (FailRunningBuilds, RecoverQueuedBuildExecutions).                      *)
(*                                                                         *)
(* One step is one database statement or one visible change of the         *)
(* published directory. The server is one process: a crash takes all its   *)
(* goroutines and requests and leaves the database and the disk.           *)
(***************************************************************************)
EXTENDS Naturals, FiniteSets

CONSTANTS
  Builds,        \* identifiers a build row may get
  KeyOf,         \* the (profile revision, fleet, version) each of them is for
  Workers,       \* identifiers of executeBuild goroutines
  None,          \* no build
  MaxCrashes,    \* bound: crashes of the server
  MaxFaults      \* bound: database calls that report an error

ASSUME NoneAssumption == None \notin Builds
ASSUME KeyAssumption == DOMAIN KeyOf = Builds
ASSUME BoundAssumption == MaxCrashes \in Nat /\ MaxFaults \in Nat

VARIABLES
  status,        \* builds.status, with "absent" before INSERT and "deleted" after DELETE
  disk,          \* <updates>/artifacts/<build id>
  pc,            \* where each goroutine is in executeBuild
  job,           \* the build it executes
  server,        \* phase of the server process
  accepted,      \* builds inserted by a request that has yet to start their goroutine
  todo,          \* builds that startup listed and has yet to start a goroutine for
  lost,          \* history: builds for which this server saw a database call fail
  crashes, faults

rowVars == <<status, lost, faults>>
vars == <<status, disk, pc, job, server, accepted, todo, lost, crashes, faults>>

-----------------------------------------------------------------------------
Statuses == {"absent", "queued", "running", "succeeded", "failed", "deleted"}

\* The rows that idx_builds_profile_revision_fleet_version_active indexes.
Active == {"queued", "running", "succeeded"}

\* uki, sums and index name the bytes they hold or were computed from.
Bytes == {"none", "unsigned", "signed"}
Directory == [files : {"none", "partial", "complete"}, uki : Bytes, sums : Bytes, index : Bytes]
NoDirectory == [files |-> "none", uki |-> "none", sums |-> "none", index |-> "none"]

\* Everything a device downloads is there and describes the signed image.
Ready(d) == d.files = "complete" /\ d.uki = "signed" /\ d.sums = "signed" /\ d.index = "signed"

Stages == {"idle", "begin", "prepare", "copy", "copying", "sign", "manifest", "index", "finish", "fail"}

Phases == {"down", "boot", "list", "spawn", "up"}

Init ==
  /\ status = [b \in Builds |-> "absent"]
  /\ disk = [b \in Builds |-> NoDirectory]
  /\ pc = [w \in Workers |-> "idle"]
  /\ job = [w \in Workers |-> None]
  /\ server = "boot"
  /\ accepted = {} /\ todo = {} /\ lost = {}
  /\ crashes = 0 /\ faults = 0

-----------------------------------------------------------------------------
(* db.UpdateBuild: an unconditional UPDATE ... WHERE id.                    *)

UpdateBuild(b, s) ==
  /\ status[b] # "deleted"
  /\ status' = [status EXCEPT ![b] = s]
  /\ UNCHANGED <<lost, faults>>

\* No row, or an error of the call, which may come before or after the commit.
UpdateBuildError(b, s) ==
  \/ /\ status[b] = "deleted"
     /\ UNCHANGED rowVars
  \/ /\ status[b] # "deleted"
     /\ faults < MaxFaults
     /\ faults' = faults + 1
     /\ lost' = lost \cup {b}
     /\ status' \in {status, [status EXCEPT ![b] = s]}

-----------------------------------------------------------------------------
(* Requests.                                                               *)

\* The request's context may be cancelled after the INSERT committed: the
\* caller then sees an error and starts no goroutine.
CreateBuild(b) ==
  /\ server = "up"
  /\ status[b] = "absent"
  /\ \A c \in Builds : KeyOf[c] = KeyOf[b] => status[c] \notin Active
  /\ status' = [status EXCEPT ![b] = "queued"]
  /\ \/ accepted' = accepted \cup {b} /\ UNCHANGED <<lost, faults>>
     \/ faults < MaxFaults /\ faults' = faults + 1 /\ lost' = lost \cup {b} /\ UNCHANGED accepted
  /\ UNCHANGED <<disk, pc, job, server, todo, crashes>>

StartGoroutine(b) ==
  \E w \in Workers :
    /\ pc[w] = "idle"
    /\ pc' = [pc EXCEPT ![w] = "begin"]
    /\ job' = [job EXCEPT ![w] = b]

QueueBuildExecution(b) ==
  /\ server = "up"
  /\ b \in accepted
  /\ StartGoroutine(b)
  /\ accepted' = accepted \ {b}
  /\ UNCHANGED <<status, disk, server, todo, lost, crashes, faults>>

DeleteBuild(b) ==
  /\ server = "up"
  /\ status[b] \notin {"absent", "deleted"}
  /\ status' = [status EXCEPT ![b] = "deleted"]
  /\ UNCHANGED <<disk, pc, job, server, accepted, todo, lost, crashes, faults>>

-----------------------------------------------------------------------------
(* executeBuild.                                                           *)

Goto(w, stage) ==
  /\ pc' = [pc EXCEPT ![w] = stage]
  /\ UNCHANGED job

Return(w) ==
  /\ pc' = [pc EXCEPT ![w] = "idle"]
  /\ job' = [job EXCEPT ![w] = None]

\* Mutant: the error of the first UpdateBuild is logged and the build goes on.
BeginBuildAnyway(w) ==
  /\ pc[w] = "begin"
  /\ UpdateBuild(job[w], "running") \/ UpdateBuildError(job[w], "running")
  /\ Goto(w, "prepare")
  /\ UNCHANGED <<disk, server, accepted, todo, crashes>>

BeginBuild(w) ==
  /\ pc[w] = "begin"
  /\ \/ UpdateBuild(job[w], "running") /\ Goto(w, "prepare")
     \/ UpdateBuildError(job[w], "running") /\ Return(w)
  /\ UNCHANGED <<disk, server, accepted, todo, crashes>>

\* Workspace, build metadata (no row, no build), key material and nix build:
\* everything before the first write to the published directory.
PrepareBuild(w) ==
  /\ pc[w] = "prepare"
  /\ status[job[w]] # "deleted"
  /\ Goto(w, "copy")
  /\ UNCHANGED <<status, disk, server, accepted, todo, lost, crashes, faults>>

\* One step on the published directory, after which the goroutine goes on.
Publish(w, from, d, to) ==
  /\ pc[w] = from
  /\ disk' = [disk EXCEPT ![job[w]] = d]
  /\ Goto(w, to)
  /\ UNCHANGED <<status, server, accepted, todo, lost, crashes, faults>>

\* copyFile truncates and rewrites each file where readers can see it.
CopyArtifacts(w) == Publish(w, "copy", [disk[job[w]] EXCEPT !.files = "partial"], "copying")

CopiedArtifacts(w) ==
  Publish(w, "copying",
          [disk[job[w]] EXCEPT !.files = "complete", !.uki = "unsigned", !.sums = "unsigned"],
          "sign")

\* sign_update_package: the images first, the checksum manifest after them.
SignUKI(w) == Publish(w, "sign", [disk[job[w]] EXCEPT !.uki = "signed"], "manifest")

\* Mutant: the manifest that nix built is kept.
KeepManifest(w) == Publish(w, "manifest", disk[job[w]], "index")

RefreshManifest(w) ==
  Publish(w, "manifest", [disk[job[w]] EXCEPT !.sums = disk[job[w]].uki], "index")

GenerateUKIChunkIndexes(w) ==
  Publish(w, "index", [disk[job[w]] EXCEPT !.index = disk[job[w]].uki], "finish")

\* An error or a panic anywhere in runBuildAndPublishUpdate.
PipelineError(w) ==
  /\ pc[w] \in {"prepare", "copy", "copying", "sign", "manifest", "index"}
  /\ Goto(w, "fail")
  /\ UNCHANGED <<status, disk, server, accepted, todo, lost, crashes, faults>>

\* The outcome is written once; an error of that write is only logged.
EndBuild(w, stage, s) ==
  /\ pc[w] = stage
  /\ UpdateBuild(job[w], s) \/ UpdateBuildError(job[w], s)
  /\ Return(w)
  /\ UNCHANGED <<disk, server, accepted, todo, crashes>>

\* Mutant: a status that builds.status does not admit.
FinishUnknown(w) == EndBuild(w, "finish", "published")

\* Mutant: the outcome of a failed build is only logged.
FailSilently(w) ==
  /\ pc[w] = "fail"
  /\ Return(w)
  /\ UNCHANGED <<status, disk, server, accepted, todo, lost, crashes, faults>>

FinishBuild(w) == EndBuild(w, "finish", "succeeded")
FailBuild(w) == EndBuild(w, "fail", "failed")

-----------------------------------------------------------------------------
(* The server process: cmd/web.go.                                         *)

Crash ==
  /\ server # "down"
  /\ crashes < MaxCrashes
  /\ crashes' = crashes + 1
  /\ server' = "down"
  /\ pc' = [w \in Workers |-> "idle"]
  /\ job' = [w \in Workers |-> None]
  /\ accepted' = {} /\ todo' = {} /\ lost' = {}
  /\ UNCHANGED <<status, disk, faults>>

\* Any error of the recovery ends the process, with the goroutines it started.
StartupError ==
  /\ server \in {"boot", "list", "spawn"}
  /\ faults < MaxFaults
  /\ faults' = faults + 1
  /\ server' = "down"
  /\ pc' = [w \in Workers |-> "idle"]
  /\ job' = [w \in Workers |-> None]
  /\ accepted' = {} /\ todo' = {} /\ lost' = {}
  /\ UNCHANGED <<status, disk, crashes>>

Restart ==
  /\ server = "down"
  /\ server' = "boot"
  /\ UNCHANGED <<status, disk, pc, job, accepted, todo, lost, crashes, faults>>

\* Mutant: startup leaves the running builds to whoever runs them.
KeepRunningBuilds ==
  /\ server = "boot"
  /\ server' = "list"
  /\ UNCHANGED <<status, disk, pc, job, accepted, todo, lost, crashes, faults>>

\* Mutant: the UPDATE has lost its WHERE.
FailAllBuilds ==
  /\ server = "boot"
  /\ status' = [b \in Builds |-> IF status[b] \in Active THEN "failed" ELSE status[b]]
  /\ server' = "list"
  /\ UNCHANGED <<disk, pc, job, accepted, todo, lost, crashes, faults>>

FailRunningBuilds ==
  /\ server = "boot"
  /\ status' = [b \in Builds |-> IF status[b] = "running" THEN "failed" ELSE status[b]]
  /\ server' = "list"
  /\ UNCHANGED <<disk, pc, job, accepted, todo, lost, crashes, faults>>

\* Mutant: the recovery runs beside the requests of a server that is up.
ListQueuedBuildsLate ==
  /\ server \in {"list", "up"}
  /\ todo' = {b \in Builds : status[b] = "queued"}
  /\ server' = "spawn"
  /\ UNCHANGED <<status, disk, pc, job, accepted, lost, crashes, faults>>

ListQueuedBuilds ==
  /\ server = "list"
  /\ todo' = {b \in Builds : status[b] = "queued"}
  /\ server' = "spawn"
  /\ UNCHANGED <<status, disk, pc, job, accepted, lost, crashes, faults>>

RequeueBuildExecution(b) ==
  /\ server = "spawn"
  /\ b \in todo
  /\ StartGoroutine(b)
  /\ todo' = todo \ {b}
  /\ UNCHANGED <<status, disk, server, accepted, lost, crashes, faults>>

Serve ==
  /\ server = "spawn"
  /\ todo = {}
  /\ server' = "up"
  /\ UNCHANGED <<status, disk, pc, job, accepted, todo, lost, crashes, faults>>

-----------------------------------------------------------------------------
Request(b) == CreateBuild(b) \/ QueueBuildExecution(b) \/ DeleteBuild(b)

Execute(w) ==
  \/ BeginBuild(w) \/ PrepareBuild(w) \/ CopyArtifacts(w) \/ CopiedArtifacts(w)
  \/ SignUKI(w) \/ RefreshManifest(w) \/ GenerateUKIChunkIndexes(w)
  \/ PipelineError(w) \/ FinishBuild(w) \/ FailBuild(w)

Startup ==
  \/ Restart \/ FailRunningBuilds \/ ListQueuedBuilds \/ Serve
  \/ \E b \in Builds : RequeueBuildExecution(b)

Next ==
  \/ \E b \in Builds : Request(b)
  \/ \E w \in Workers : Execute(w)
  \/ Startup \/ Crash \/ StartupError

Spec == Init /\ [][Next]_vars

\* Goroutines are scheduled and the commands they run end; a request that
\* inserted its row goes on to start the goroutine; a supervisor restarts the
\* server and startup runs to its end. Nobody has to create or delete a build.
Fairness ==
  /\ \A w \in Workers : WF_vars(Execute(w))
  /\ \A b \in Builds : WF_vars(QueueBuildExecution(b))
  /\ WF_vars(Startup)

FairSpec == Spec /\ Fairness

-----------------------------------------------------------------------------
(* Properties.                                                             *)

\* Every variable has its type (the states of builds.status and of the
\* published directory, the stages of executeBuild and of startup).
TypeOK ==
  /\ status \in [Builds -> Statuses]
  /\ disk \in [Builds -> Directory]
  /\ pc \in [Workers -> Stages]
  /\ job \in [Workers -> Builds \cup {None}]
  /\ server \in Phases
  /\ accepted \in SUBSET Builds
  /\ todo \in SUBSET Builds
  /\ lost \in SUBSET Builds
  /\ crashes \in 0 .. MaxCrashes
  /\ faults \in 0 .. MaxFaults

Owned(b) == b \in accepted \/ b \in todo \/ \E w \in Workers : job[w] = b

\* A build never has two executors, whatever mix of requests, restarts and
\* failing database calls led to them: UpdateBuild does not check who runs a
\* build and copyFile truncates in place, so a second goroutine would tear the
\* directory of a build that already succeeded.
SoleExecutor ==
  /\ \A v, w \in Workers : job[v] = job[w] /\ job[v] # None => v = w
  /\ \A w \in Workers : job[w] \notin accepted \cup todo
  /\ accepted \cap todo = {}

\* A row says succeeded only while its directory holds every artifact, and the
\* checksum manifest and the chunk index were computed from the signed image
\* (the order runBuildAndPublishUpdate insists on): releases, rollouts and
\* installers take the row's word for it.
SucceededIsPublished == \A b \in Builds : status[b] = "succeeded" => Ready(disk[b])

\* While the server serves, a build it shows as queued or running has a
\* goroutine (or a request about to start one) that will settle it, unless a
\* database call for it failed since startup: the recovery at startup leaves no
\* orphan behind, and a request never does.
NoOrphanedBuild ==
  server = "up" =>
    \A b \in Builds : status[b] \in {"queued", "running"} => Owned(b) \/ b \in lost

\* A settled build is never taken up again: neither the recovery at startup nor
\* a late goroutine moves it out of succeeded or failed, except by deletion,
\* and nobody touches the directory of a build that succeeded.
TerminalIsFinal ==
  [][\A b \in Builds :
       /\ status[b] = "succeeded" => status'[b] \in {"succeeded", "deleted"} /\ disk'[b] = disk[b]
       /\ status[b] = "failed" => status'[b] \in {"failed", "deleted"}]_vars

\* Every build that was queued settles, through crashes, restarts and deletes,
\* unless the server saw a database call for it fail and has not restarted.
BuildSettles ==
  \A b \in Builds :
    (status[b] \in {"queued", "running"})
      ~> (status[b] \in {"succeeded", "failed", "deleted"} \/ b \in lost)

\* Whatever a failed call left behind, the next restart settles it: a build in
\* flight when the server goes down is not in flight forever.
RestartSettles ==
  \A b \in Builds :
    (server = "down" /\ status[b] = "running") ~> (status[b] \in {"failed", "deleted"})

\* What BuildLifecycle calls the artifact of a build.
ArtifactOf(d) == IF Ready(d) THEN "ready" ELSE IF d.files = "none" THEN "none" ELSE "partial"

\* The builds whose goroutine has marked them running and has not returned.
Executing == {b \in Builds : \E w \in Workers : job[w] = b /\ pc[w] \notin {"idle", "begin"}}

Lifecycle == INSTANCE BuildLifecycle
               WITH artifact <- [b \in Builds |-> ArtifactOf(disk[b])], executing <- Executing

\* The pipeline, with all its goroutines, requests and crashes, offers the
\* build lifecycle that releases, rollouts and installers are written against.
ImplementsLifecycle == Lifecycle!LifecycleSpec

=============================================================================
