---------------------------- MODULE FleetRollout ----------------------------
(***************************************************************************)
(* Releases and rollouts of one fleet: cutting a release from a build,     *)
(* rolling it out (createAndActivateRollout, activateFleetReleaseArtifacts)*)
(* and deleting rollouts, releases and builds, while requests overlap,     *)
(* their clients disconnect, calls fail and the server crashes. The build  *)
(* rows and directories take the steps of BuildLifecycle, which            *)
(* BuildPipeline implements. The fleet has at least one device.            *)
(*                                                                         *)
(* A rollout is a row, a directory <updates>/<fleet id> that devices       *)
(* download from, and devices.desired_release_id, in no common             *)
(* transaction and under no lock.                                          *)
(***************************************************************************)
EXTENDS BuildLifecycle, Naturals

CONSTANTS
  Releases,      \* identifiers a release row may get
  Rollouts,      \* rollout requests, and the rows they insert
  None,          \* no build, release or directory
  MaxCrashes,    \* bound: crashes of the server
  MaxFaults      \* bound: calls that report an error, clients that disconnect

\* The copy a request made of a build's directory: how much of it is there, and
\* whether SHA256SUMS names the files under the names they have in the copy.
Copy == [by : Rollouts, content : {"empty", "partial", "ready"}, sums : {"files", "others"}]

ASSUME NoneAssumption == None \notin Builds \cup Releases \cup Rollouts \cup Copy
ASSUME BoundAssumption == MaxCrashes \in Nat /\ MaxFaults \in Nat

VARIABLES
  release,       \* releases: "absent", "active" or "deleted"
  cut,           \* releases.build_id
  renamed,       \* releases whose version is not the version of their build
  rollout,       \* rollouts.status, with "absent" and "deleted"
  target,        \* rollouts.release_id, from the form of the request
  pc,            \* where each request is in createAndActivateRollout
  staged,        \* the temporary directory .fleet-<fleet id>-* of each request
  clearing,      \* the directory each request's RemoveAll has opened, by who put it there
  served,        \* the directory <updates>/<fleet id>, None when it is missing
  desired,       \* devices.desired_release_id of the fleet
  cancelled,     \* requests whose context is cancelled: their client went away
  early,         \* history: releases cut from a build that had not succeeded
  activated,     \* history: releases whose directory was put in place
  overlapped,    \* history: a request began, or a row was deleted, during a rollout
  interrupted,   \* history: a call failed, a client went away or the server crashed
  crashes, faults

releaseVars == <<release, cut, renamed, early>>
requestVars == <<target, pc, staged, clearing, cancelled>>
fleetVars == <<served, desired, activated>>
boundVars == <<interrupted, crashes, faults>>
vars == <<lifecycleVars, releaseVars, rollout, requestVars, fleetVars, overlapped, boundVars>>

-----------------------------------------------------------------------------
ReleaseStatuses == {"absent", "active", "deleted"}
RolloutStatuses == {"absent", "in_progress", "completed", "failed", "deleted"}
Stages == {"new", "create", "stage", "clear", "unlink", "rmdir", "rename", "desire", "complete",
           "fail", "ended"}

InFlight == {i \in Rollouts : pc[i] \notin {"new", "ended"}}
RowExists(i) == rollout[i] \notin {"absent", "deleted"}

ServedRelease == target[served.by]

\* Nothing is in the way of a directory to be renamed to the fleet's.
Vacant == served # None => served.content = "empty"

Init ==
  /\ LifecycleInit
  /\ release = [r \in Releases |-> "absent"] /\ cut = [r \in Releases |-> None]
  /\ renamed = {} /\ early = {} /\ activated = {} /\ cancelled = {}
  /\ rollout = [i \in Rollouts |-> "absent"] /\ target = [i \in Rollouts |-> None]
  /\ pc = [i \in Rollouts |-> "new"] /\ staged = [i \in Rollouts |-> None]
  /\ clearing = [i \in Rollouts |-> None]
  /\ served = None /\ desired = None
  /\ overlapped = FALSE /\ interrupted = FALSE /\ crashes = 0 /\ faults = 0

-----------------------------------------------------------------------------
(* Builds and releases.                                                    *)

\* releases.build_id is ON DELETE RESTRICT: a released build is not deleted.
BuildStep ==
  /\ LifecycleNext
  /\ \A r \in Releases : release[r] = "active" => status'[cut[r]] # "deleted"
  /\ UNCHANGED <<releaseVars, rollout, requestVars, fleetVars, overlapped, boundVars>>

\* The handler wants the build to exist, not to have succeeded; the version
\* defaults to the build's and may be another.
CreateRelease(r, b) ==
  /\ release[r] = "absent"
  /\ status[b] \notin {"absent", "deleted"}
  /\ release' = [release EXCEPT ![r] = "active"]
  /\ cut' = [cut EXCEPT ![r] = b]
  /\ renamed' \in {renamed, renamed \cup {r}}
  /\ early' = IF status[b] = "succeeded" THEN early ELSE early \cup {r}
  /\ UNCHANGED <<lifecycleVars, rollout, requestVars, fleetVars, overlapped, boundVars>>

\* rollouts.release_id is ON DELETE RESTRICT, devices.desired_release_id is
\* ON DELETE SET NULL; the directory being served is left alone.
DeleteRelease(r) ==
  /\ release[r] = "active"
  /\ \A i \in Rollouts : target[i] = r => ~RowExists(i)
  /\ release' = [release EXCEPT ![r] = "deleted"]
  /\ desired' = IF desired = r THEN None ELSE desired
  /\ overlapped' = (overlapped \/ InFlight # {})
  /\ UNCHANGED <<lifecycleVars, cut, renamed, early, rollout, requestVars, served, activated, boundVars>>

DeleteRollout(i) ==
  /\ RowExists(i)
  /\ rollout' = [rollout EXCEPT ![i] = "deleted"]
  /\ overlapped' = (overlapped \/ InFlight # {})
  /\ UNCHANGED <<lifecycleVars, releaseVars, requestVars, fleetVars, boundVars>>

-----------------------------------------------------------------------------
(* What can go wrong with a call.                                          *)

\* Any call may fail; one on the request's context does once the client is gone.
Fault ==
  /\ faults < MaxFaults /\ faults' = faults + 1
  /\ interrupted' = TRUE
  /\ UNCHANGED crashes

Fails(i) == Fault \/ (i \in cancelled /\ UNCHANGED boundVars)

Disconnect(i) ==
  /\ i \in InFlight \ cancelled
  /\ Fault
  /\ cancelled' = cancelled \cup {i}
  /\ UNCHANGED <<lifecycleVars, releaseVars, rollout, target, pc, staged, clearing, fleetVars, overlapped>>

Goto(i, stage) == pc' = [pc EXCEPT ![i] = stage]

SetRollout(i, s) == rollout' = [rollout EXCEPT ![i] = s]

-----------------------------------------------------------------------------
(* createAndActivateRollout.                                               *)

rest == <<lifecycleVars, releaseVars, overlapped, target, cancelled>>

\* GetReleaseDeploymentInfo.
BeginRollout(i, r) ==
  /\ pc[i] = "new"
  /\ release[r] = "active"
  /\ overlapped' = (overlapped \/ InFlight # {})
  /\ target' = [target EXCEPT ![i] = r]
  /\ Goto(i, "create")
  /\ UNCHANGED <<lifecycleVars, releaseVars, rollout, staged, clearing, cancelled, fleetVars, boundVars>>

\* The release may be gone by the time of the INSERT.
CreateRollout(i) ==
  /\ pc[i] = "create"
  /\ \/ /\ release[target[i]] = "active" /\ i \notin cancelled
        /\ SetRollout(i, "in_progress") /\ Goto(i, "stage")
        /\ UNCHANGED boundVars
     \/ /\ release[target[i]] # "active"
        /\ Goto(i, "ended")
        /\ UNCHANGED <<rollout, boundVars>>
     \/ /\ release[target[i]] = "active" /\ Fails(i)
        /\ SetRollout(i, "in_progress") \/ UNCHANGED rollout
        /\ Goto(i, "ended")
  /\ UNCHANGED <<rest, staged, clearing, fleetVars>>

\* Mutant: the fleet's directory is cleared before there is anything to put there.
StageAfterClear(i) ==
  /\ pc[i] = "stage"
  /\ served' = None
  /\ IF artifact[cut[target[i]]] = "none" THEN Goto(i, "fail") ELSE Goto(i, "clear")
  /\ staged' = [staged EXCEPT ![i] = [by |-> i, content |-> "ready", sums |-> "files"]]
  /\ UNCHANGED <<rest, rollout, clearing, desired, activated, boundVars>>

\* Every published file is copied; SHA256SUMS keeps its name and its contents,
\* the other names get the version of the release.
StageArtifacts(i) ==
  LET found == artifact[cut[target[i]]] IN
  /\ pc[i] = "stage"
  /\ \/ /\ found # "none"
        /\ staged' = [staged EXCEPT ![i] =
             [by |-> i, content |-> found, sums |-> IF target[i] \in renamed THEN "others" ELSE "files"]]
        /\ Goto(i, "clear")
        /\ UNCHANGED boundVars
     \/ /\ found = "none" /\ Goto(i, "fail")
        /\ UNCHANGED <<staged, boundVars>>
     \/ /\ Fault /\ Goto(i, "fail")
        /\ UNCHANGED staged
  /\ UNCHANGED <<rest, rollout, clearing, fleetVars>>

\* Mutant: the files are copied where devices look for them.
CopyInPlace(i) ==
  /\ pc[i] = "clear"
  /\ served' = [staged[i] EXCEPT !.content = "partial"]
  /\ Goto(i, "rename")
  /\ UNCHANGED <<rest, rollout, staged, clearing, desired, activated, boundVars>>

\* os.RemoveAll opens the directory it finds, unlinks its files one by one and
\* then removes the name, which may by now be that of another directory.
ClearFleet(i) ==
  /\ pc[i] = "clear"
  /\ \/ /\ served = None /\ Goto(i, "rename")
        /\ UNCHANGED <<served, clearing>>
     \/ /\ served # None /\ Goto(i, "unlink")
        /\ clearing' = [clearing EXCEPT ![i] = served.by]
        /\ served' = [served EXCEPT !.content = IF @ = "empty" THEN @ ELSE "partial"]
  /\ UNCHANGED <<rest, rollout, staged, desired, activated, boundVars>>

UnlinkFleetFiles(i) ==
  LET open == served # None /\ served.by = clearing[i] IN
  /\ pc[i] = "unlink"
  /\ \/ /\ Goto(i, "rmdir")
        /\ served' = IF open THEN [served EXCEPT !.content = "empty"] ELSE served
        /\ UNCHANGED boundVars
     \/ Fault /\ Goto(i, "fail") /\ UNCHANGED served
  /\ UNCHANGED <<rest, rollout, staged, clearing, desired, activated>>

\* The directory another rollout has renamed into place meanwhile is not empty.
RemoveFleet(i) ==
  /\ pc[i] = "rmdir"
  /\ \/ /\ Vacant
        /\ served' = None /\ Goto(i, "rename")
     \/ /\ ~Vacant /\ Goto(i, "fail")
        /\ UNCHANGED served
  /\ clearing' = [clearing EXCEPT ![i] = None]
  /\ UNCHANGED <<rest, rollout, staged, desired, activated, boundVars>>

\* Mutant: the error of the rename is not looked at.
RenameUnchecked(i) ==
  /\ pc[i] = "rename"
  /\ \/ served = None /\ served' = staged[i] /\ activated' = activated \cup {target[i]}
     \/ served # None /\ UNCHANGED <<served, activated>>
  /\ Goto(i, "desire")
  /\ staged' = [staged EXCEPT ![i] = None]
  /\ UNCHANGED <<rest, rollout, clearing, desired, boundVars>>

\* os.Rename replaces no directory but an empty one.
RenameFleet(i) ==
  /\ pc[i] = "rename"
  /\ \/ /\ Vacant
        /\ served' = staged[i]
        /\ activated' = activated \cup {target[i]}
        /\ Goto(i, "desire")
        /\ UNCHANGED boundVars
     \/ /\ ~Vacant /\ Goto(i, "fail")
        /\ UNCHANGED <<served, activated, boundVars>>
     \/ /\ Fault /\ Goto(i, "fail")
        /\ UNCHANGED <<served, activated>>
  /\ staged' = [staged EXCEPT ![i] = None]
  /\ UNCHANGED <<rest, rollout, clearing, desired>>

\* Mutant: only devices without a desired release are pointed at one.
SetFirstDesiredRelease(i) ==
  /\ pc[i] = "desire"
  /\ release[target[i]] = "active"
  /\ desired' = IF desired = None THEN target[i] ELSE desired
  /\ Goto(i, "complete")
  /\ UNCHANGED <<rest, rollout, staged, clearing, served, activated, boundVars>>

\* The foreign key refuses a release that was deleted meanwhile.
SetFleetDesiredRelease(i) ==
  /\ pc[i] = "desire"
  /\ \/ /\ release[target[i]] = "active" /\ i \notin cancelled
        /\ desired' = target[i] /\ Goto(i, "complete")
        /\ UNCHANGED boundVars
     \/ /\ release[target[i]] # "active" /\ Goto(i, "fail")
        /\ UNCHANGED <<desired, boundVars>>
     \/ /\ release[target[i]] = "active" /\ Fails(i) /\ Goto(i, "fail")
        /\ desired' \in {desired, target[i]}
  /\ UNCHANGED <<rest, rollout, staged, clearing, served, activated>>

\* The last write of a request, UpdateRolloutStatus: its error changes nothing.
EndRollout(i, stage, s) ==
  /\ pc[i] = stage
  /\ Goto(i, "ended")
  /\ \/ RowExists(i) /\ i \notin cancelled /\ SetRollout(i, s) /\ UNCHANGED boundVars
     \/ ~RowExists(i) /\ UNCHANGED <<rollout, boundVars>>
     \/ RowExists(i) /\ Fails(i) /\ (SetRollout(i, s) \/ UNCHANGED rollout)
  /\ staged' = [staged EXCEPT ![i] = None]
  /\ clearing' = [clearing EXCEPT ![i] = None]
  /\ UNCHANGED <<rest, fleetVars>>

\* Mutant: a status that rollouts.status does not admit.
CompleteUnknown(i) == EndRollout(i, "complete", "done")

CompleteRollout(i) == EndRollout(i, "complete", "completed")
MarkRolloutFailed(i) == EndRollout(i, "fail", "failed")

\* The requests die with the server, and no startup step looks at rollouts.
Crash ==
  /\ crashes < MaxCrashes /\ crashes' = crashes + 1
  /\ interrupted' = TRUE
  /\ pc' = [i \in Rollouts |-> IF pc[i] = "new" THEN "new" ELSE "ended"]
  /\ staged' = [i \in Rollouts |-> None]
  /\ clearing' = [i \in Rollouts |-> None]
  /\ cancelled' = {}
  /\ UNCHANGED <<lifecycleVars, releaseVars, overlapped, rollout, target, fleetVars, faults>>

-----------------------------------------------------------------------------
Activate(i) ==
  \/ CreateRollout(i) \/ StageArtifacts(i) \/ ClearFleet(i) \/ UnlinkFleetFiles(i)
  \/ RemoveFleet(i) \/ RenameFleet(i) \/ SetFleetDesiredRelease(i) \/ CompleteRollout(i) \/ MarkRolloutFailed(i)

Next ==
  \/ BuildStep
  \/ \E r \in Releases : DeleteRelease(r) \/ \E b \in Builds : CreateRelease(r, b)
  \/ \E i \in Rollouts :
       \/ \E r \in Releases : BeginRollout(i, r)
       \/ Activate(i) \/ DeleteRollout(i) \/ Disconnect(i)
  \/ Crash

Spec == Init /\ [][Next]_vars

-----------------------------------------------------------------------------
(* Properties.                                                             *)

\* Every variable has its type.
TypeOK ==
  /\ status \in [Builds -> Statuses] /\ artifact \in [Builds -> Artifacts]
  /\ release \in [Releases -> ReleaseStatuses] /\ cut \in [Releases -> Builds \cup {None}]
  /\ rollout \in [Rollouts -> RolloutStatuses] /\ target \in [Rollouts -> Releases \cup {None}]
  /\ pc \in [Rollouts -> Stages] /\ staged \in [Rollouts -> Copy \cup {None}]
  /\ served \in Copy \cup {None} /\ desired \in Releases \cup {None}
  /\ cancelled \subseteq Rollouts /\ clearing \in [Rollouts -> Rollouts \cup {None}]
  /\ renamed \subseteq Releases /\ early \subseteq Releases /\ activated \subseteq Releases
  /\ overlapped \in BOOLEAN /\ interrupted \in BOOLEAN
  /\ crashes \in 0 .. MaxCrashes /\ faults \in 0 .. MaxFaults

\* A request that is over and whose row, unless deleted since, does not say completed.
GaveUp(i) == pc[i] = "ended" /\ rollout[i] \in {"in_progress", "failed", "deleted"}

\* However rollouts overlap, fail and crash, what devices can download is one
\* release's full and signed set of files, unless the release was cut before
\* its build had succeeded, while the RemoveAll of another rollout is taking
\* the files down, or after that rollout gave up there, which its row tells. One
\* rollout's RemoveAll never eats into a directory put in place meanwhile.
ServedIsReady ==
  served # None /\ ServedRelease \notin early =>
    \/ served.content = "ready"
    \/ \E i \in Rollouts \ {served.by} : clearing[i] = served.by \/ GaveUp(i)

\* Devices find no directory only while some rollout is between its RemoveAll
\* and its Rename, or after one gave up there: of two rollouts that clear the
\* directory, one puts its own in place.
GapIsTransient ==
  served = None /\ activated # {} => \E i \in Rollouts : pc[i] \in {"rename", "fail"} \/ GaveUp(i)

\* Devices are never pointed at a release whose files were not put in place,
\* whatever failed on the way.
DesiredWasActivated == desired # None => desired \in activated

Agree == served # None => desired = ServedRelease

\* With no rollout under way, the fleet is pointed at the release it is served,
\* as createAndActivateRollout sets out to do, if rollouts came one at a time
\* and none was cut short. A served release whose row is deleted stays served.
SerialRolloutsAgree ==
  InFlight = {} /\ ~overlapped /\ ~interrupted =>
    Agree \/ (desired = None /\ release[ServedRelease] = "deleted")

\* The same for rollouts that overlap: what the comment of
\* createAndActivateRollout says of every call.
QuietFleetAgrees ==
  InFlight = {} /\ ~interrupted /\ (\A r \in Releases : release[r] # "deleted") /\
  (\A i \in Rollouts : rollout[i] \in {"absent", "completed"}) => Agree

\* The checksum manifest a device downloads names the files next to it
\* ("Rename artifacts to the release version so the SHA256SUMS and the
\* filenames reflect the release").
ManifestNamesFiles == served # None /\ served.content = "ready" => served.sums = "files"

=============================================================================
