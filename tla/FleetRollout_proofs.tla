------------------------- MODULE FleetRollout_proofs -------------------------
(***************************************************************************)
(* Proofs about FleetRollout, for any set of builds, releases and rollout  *)
(* requests, any overlap of requests and any number of crashes and faults. *)
(***************************************************************************)
EXTENDS FleetRollout, TLAPS

-----------------------------------------------------------------------------
(* The inductive invariant.                                                *)

\* A build that is published, and that nobody will write again.
Published(b) == status[b] \in {"succeeded", "deleted"} /\ artifact[b] = "ready" /\ b \notin executing

BuildsKept == \A b \in Builds : status[b] = "succeeded" => artifact[b] = "ready" /\ b \notin executing

\* A release is cut from a build; one that was not cut early, from a published one.
ReleasesCut ==
  \A r \in Releases : release[r] # "absent" => cut[r] \in Builds /\ (r \notin early => Published(cut[r]))

Clearing == {"unlink", "rmdir", "fail"}
Past == {"desire", "complete", "fail", "ended"}

\* What a request has by each stage.
RequestsInStep ==
  \A i \in Rollouts :
    /\ pc[i] # "new" => target[i] \in Releases /\ release[target[i]] # "absent"
    /\ pc[i] \in {"new", "create"} => rollout[i] = "absent"
    /\ pc[i] \notin {"new", "create", "ended"} => rollout[i] \in {"in_progress", "deleted"}
    /\ pc[i] \in {"clear", "unlink", "rmdir", "rename"} =>
         /\ staged[i] # None /\ staged[i].by = i
         /\ target[i] \notin early => staged[i].content = "ready"
    /\ pc[i] \in {"desire", "complete"} => target[i] \in activated

\* A directory is put in place once, and only others clear it. Whoever is about to
\* remove its name has emptied it.
OneDirectoryEach ==
  /\ served # None => pc[served.by] \in Past
  /\ \A i \in Rollouts :
       /\ clearing[i] # None => clearing[i] # i /\ pc[i] \in Clearing /\ pc[clearing[i]] \in Past
       /\ pc[i] = "rmdir" /\ served # None /\ served.by = clearing[i] => served.content = "empty"

\* Rollouts that come one at a time and are not disturbed: where the directory and
\* the desired release are when there is one, and when there is none.
AgreeOrGone == Agree \/ (desired = None /\ release[ServedRelease] = "deleted")
SerialInStep ==
  /\ cancelled # {} => interrupted
  /\ ~overlapped /\ ~interrupted =>
       /\ InFlight = {} => AgreeOrGone
       /\ \A i \in InFlight :
            /\ \A j \in InFlight : j = i
            /\ release[target[i]] = "active"
            /\ pc[i] \in {"create", "stage", "clear", "fail"} => AgreeOrGone
            /\ pc[i] \in {"unlink", "rmdir"} => served # None /\ served.by = clearing[i]
            /\ pc[i] = "rename" => served = None
            /\ pc[i] \in {"desire", "complete"} => served # None /\ served.by = i
            /\ pc[i] = "complete" => desired = target[i]

IInv ==
  /\ TypeOK /\ BuildsKept /\ ReleasesCut /\ RequestsInStep /\ OneDirectoryEach
  /\ ServedIsReady /\ GapIsTransient /\ DesiredWasActivated /\ SerialInStep

-----------------------------------------------------------------------------
(* Each action preserves the invariant.                                    *)

\* What a call that may report an error does to the bounds.
LEMMA FaultBounds ==
  ASSUME TypeOK, Fault \/ UNCHANGED boundVars
  PROVE  interrupted' \in BOOLEAN /\ crashes' \in 0 .. MaxCrashes /\ faults' \in 0 .. MaxFaults
<1>1. interrupted' \in BOOLEAN
  BY DEF TypeOK, Fault, boundVars
<1>2. MaxCrashes \in Nat /\ MaxFaults \in Nat /\ crashes \in 0 .. MaxCrashes
      /\ faults \in 0 .. MaxFaults
  BY BoundAssumption DEF TypeOK
<1>3. crashes' = crashes /\ (faults' = faults \/ (faults < MaxFaults /\ faults' = faults + 1))
  BY DEF Fault, boundVars
<1> QED BY <1>1, <1>2, <1>3

\* A published build is not written again; the row of a released one stays.
LEMMA BuildStepInv == ASSUME IInv, BuildStep PROVE IInv'
<1> USE NoneAssumption, BoundAssumption DEF IInv, TypeOK, BuildStep, LifecycleNext, Create, Start,
      Write, Succeed, Fail, Stop, Delete, SetStatus,
      lifecycleVars, releaseVars, requestVars, fleetVars, boundVars
<1>1. TypeOK'
  BY DEF ReleaseStatuses, RolloutStatuses, Stages, Copy, Statuses, Artifacts
<1>2. BuildsKept'
  BY DEF BuildsKept
<1>3. ReleasesCut'
  BY DEF ReleasesCut, BuildsKept, Published
<1>4. RequestsInStep'
  BY DEF RequestsInStep, ReleasesCut, Published, Copy
<1>5. OneDirectoryEach'
  BY DEF OneDirectoryEach, RequestsInStep, Clearing, Past, Copy
<1>6. ServedIsReady'
  BY DEF ServedIsReady, ServedRelease, GaveUp, OneDirectoryEach, RequestsInStep, Clearing, Past, Copy
<1>7. GapIsTransient'
  BY DEF GapIsTransient, GaveUp, OneDirectoryEach, RequestsInStep, Clearing
<1>8. DesiredWasActivated'
  BY DEF DesiredWasActivated, RequestsInStep
<1>9. SerialInStep'
  BY DEF SerialInStep, InFlight, AgreeOrGone, Agree, ServedRelease, RequestsInStep, OneDirectoryEach,
      Past, Copy
<1> QED BY <1>1, <1>2, <1>3, <1>4, <1>5, <1>6, <1>7, <1>8, <1>9

\* A release cut late is cut from a published build.
LEMMA CreateReleaseInv ==
  ASSUME IInv, NEW r \in Releases, NEW b \in Builds, CreateRelease(r, b)
  PROVE  IInv'
<1> USE NoneAssumption, BoundAssumption DEF IInv, TypeOK, CreateRelease,
      lifecycleVars, releaseVars, requestVars, fleetVars, boundVars
<1>1. TypeOK'
  BY DEF ReleaseStatuses, RolloutStatuses, Stages, Copy, Statuses, Artifacts
<1>2. BuildsKept'
  BY DEF BuildsKept
<1>3. ReleasesCut'
  BY DEF ReleasesCut, BuildsKept, Published
<1>4. RequestsInStep'
  BY DEF RequestsInStep, ReleasesCut, Published, Copy
<1>5. OneDirectoryEach'
  BY DEF OneDirectoryEach, RequestsInStep, Clearing, Past, Copy
<1>6. ServedIsReady'
  BY DEF ServedIsReady, ServedRelease, GaveUp, OneDirectoryEach, RequestsInStep, Clearing, Past, Copy
<1>7. GapIsTransient'
  BY DEF GapIsTransient, GaveUp, OneDirectoryEach, RequestsInStep, Clearing
<1>8. DesiredWasActivated'
  BY DEF DesiredWasActivated, RequestsInStep
<1>9. SerialInStep'
  BY DEF SerialInStep, InFlight, AgreeOrGone, Agree, ServedRelease, RequestsInStep, OneDirectoryEach,
      Past, Copy
<1> QED BY <1>1, <1>2, <1>3, <1>4, <1>5, <1>6, <1>7, <1>8, <1>9

\* Nothing is said of where a deleted release is served.
LEMMA DeleteReleaseInv == ASSUME IInv, NEW r \in Releases, DeleteRelease(r) PROVE IInv'
<1> USE NoneAssumption, BoundAssumption DEF IInv, TypeOK, DeleteRelease,
      lifecycleVars, releaseVars, requestVars, fleetVars, boundVars
<1>1. TypeOK'
  BY DEF ReleaseStatuses, RolloutStatuses, Stages, Copy, Statuses, Artifacts
<1>2. BuildsKept'
  BY DEF BuildsKept
<1>3. ReleasesCut'
  BY DEF ReleasesCut, BuildsKept, Published
<1>4. RequestsInStep'
  BY DEF RequestsInStep, ReleasesCut, Published, Copy
<1>5. OneDirectoryEach'
  BY DEF OneDirectoryEach, RequestsInStep, Clearing, Past, Copy
<1>6. ServedIsReady'
  BY DEF ServedIsReady, ServedRelease, GaveUp, OneDirectoryEach, RequestsInStep, Clearing, Past, Copy
<1>7. GapIsTransient'
  BY DEF GapIsTransient, GaveUp, OneDirectoryEach, RequestsInStep, Clearing
<1>8. DesiredWasActivated'
  BY DEF DesiredWasActivated, RequestsInStep
<1>9. SerialInStep'
  <2>1. ASSUME AgreeOrGone PROVE AgreeOrGone'
    BY <2>1 DEF AgreeOrGone, Agree, ServedRelease, OneDirectoryEach, RequestsInStep, Past, Copy
  <2> QED BY <2>1 DEF SerialInStep, InFlight
<1> QED BY <1>1, <1>2, <1>3, <1>4, <1>5, <1>6, <1>7, <1>8, <1>9

\* A request that gave up is still told from its row.
LEMMA DeleteRolloutInv == ASSUME IInv, NEW i \in Rollouts, DeleteRollout(i) PROVE IInv'
<1> USE NoneAssumption, BoundAssumption DEF IInv, TypeOK, DeleteRollout, RowExists,
      lifecycleVars, releaseVars, requestVars, fleetVars, boundVars
<1>1. TypeOK'
  BY DEF ReleaseStatuses, RolloutStatuses, Stages, Copy, Statuses, Artifacts
<1>2. BuildsKept'
  BY DEF BuildsKept
<1>3. ReleasesCut'
  BY DEF ReleasesCut, BuildsKept, Published
<1>4. RequestsInStep'
  BY DEF RequestsInStep, ReleasesCut, Published, Copy
<1>5. OneDirectoryEach'
  BY DEF OneDirectoryEach, RequestsInStep, Clearing, Past, Copy
<1>6. ServedIsReady'
  BY DEF ServedIsReady, ServedRelease, GaveUp, OneDirectoryEach, RequestsInStep, Clearing, Past, Copy
<1>7. GapIsTransient'
  BY DEF GapIsTransient, GaveUp, OneDirectoryEach, RequestsInStep, Clearing
<1>8. DesiredWasActivated'
  BY DEF DesiredWasActivated, RequestsInStep
<1>9. SerialInStep'
  BY DEF SerialInStep, InFlight, AgreeOrGone, Agree, ServedRelease, RequestsInStep, OneDirectoryEach,
      Past, Copy
<1> QED BY <1>1, <1>2, <1>3, <1>4, <1>5, <1>6, <1>7, <1>8, <1>9

\* A client that leaves is an interruption.
LEMMA DisconnectInv == ASSUME IInv, NEW i \in Rollouts, Disconnect(i) PROVE IInv'
<1> USE NoneAssumption, BoundAssumption DEF IInv, TypeOK, Disconnect, Fault,
      lifecycleVars, releaseVars, requestVars, fleetVars, boundVars
<1>1. TypeOK'
  BY DEF ReleaseStatuses, RolloutStatuses, Stages, Copy, Statuses, Artifacts
<1>2. BuildsKept'
  BY DEF BuildsKept
<1>3. ReleasesCut'
  BY DEF ReleasesCut, BuildsKept, Published
<1>4. RequestsInStep'
  BY DEF RequestsInStep, ReleasesCut, Published, Copy
<1>5. OneDirectoryEach'
  BY DEF OneDirectoryEach, RequestsInStep, Clearing, Past, Copy
<1>6. ServedIsReady'
  BY DEF ServedIsReady, ServedRelease, GaveUp, OneDirectoryEach, RequestsInStep, Clearing, Past, Copy
<1>7. GapIsTransient'
  BY DEF GapIsTransient, GaveUp, OneDirectoryEach, RequestsInStep, Clearing
<1>8. DesiredWasActivated'
  BY DEF DesiredWasActivated, RequestsInStep
<1>9. SerialInStep'
  BY DEF SerialInStep, InFlight, AgreeOrGone, Agree, ServedRelease, RequestsInStep, OneDirectoryEach,
      Past, Copy
<1> QED BY <1>1, <1>2, <1>3, <1>4, <1>5, <1>6, <1>7, <1>8, <1>9

\* A request begins, with a release there is.
LEMMA BeginInv ==
  ASSUME IInv, NEW i \in Rollouts, NEW r \in Releases, BeginRollout(i, r)
  PROVE  IInv'
<1> USE NoneAssumption, BoundAssumption DEF IInv, TypeOK, BeginRollout, Goto,
      lifecycleVars, releaseVars, requestVars, fleetVars, boundVars
<1>1. TypeOK'
  BY DEF ReleaseStatuses, RolloutStatuses, Stages, Copy, Statuses, Artifacts
<1>2. BuildsKept'
  BY DEF BuildsKept
<1>3. ReleasesCut'
  BY DEF ReleasesCut, BuildsKept, Published
<1>4. RequestsInStep'
  BY DEF RequestsInStep, ReleasesCut, Published, Copy
<1>5. OneDirectoryEach'
  BY DEF OneDirectoryEach, RequestsInStep, Clearing, Past, Copy
<1>6. ServedIsReady'
  BY DEF ServedIsReady, ServedRelease, GaveUp, OneDirectoryEach, RequestsInStep, Clearing, Past, Copy
<1>7. GapIsTransient'
  BY DEF GapIsTransient, GaveUp, OneDirectoryEach, RequestsInStep, Clearing
<1>8. DesiredWasActivated'
  BY DEF DesiredWasActivated, RequestsInStep
<1>9. SerialInStep'
  <2>1. CASE overlapped' \/ interrupted'
    BY <2>1 DEF SerialInStep
  <2>2. CASE ~overlapped' /\ ~interrupted'
    <3>1. InFlight = {} /\ AgreeOrGone
      BY <2>2 DEF SerialInStep
    <3>2. InFlight' = {i} /\ pc'[i] = "create" /\ target'[i] = r
      BY <3>1 DEF InFlight, Stages
    <3>3. AgreeOrGone'
      BY <3>1 DEF AgreeOrGone, Agree, ServedRelease, OneDirectoryEach, Past, Copy
    <3> QED BY <2>2, <3>2, <3>3 DEF SerialInStep
  <2> QED BY <2>1, <2>2
<1> QED BY <1>1, <1>2, <1>3, <1>4, <1>5, <1>6, <1>7, <1>8, <1>9

\* The row is inserted, or the request ends before it touched anything.
LEMMA CreateInv == ASSUME IInv, NEW i \in Rollouts, CreateRollout(i) PROVE IInv'
<1> USE NoneAssumption, BoundAssumption DEF IInv, TypeOK, CreateRollout, Goto, SetRollout, Fails,
      Fault, rest,
      lifecycleVars, releaseVars, requestVars, fleetVars, boundVars
<1>1. TypeOK'
  <2>1. interrupted' \in BOOLEAN /\ crashes' \in 0 .. MaxCrashes /\ faults' \in 0 .. MaxFaults
    <3>1. Fault \/ UNCHANGED boundVars
      OBVIOUS
    <3> HIDE DEF Fault, TypeOK
    <3> QED BY <3>1, FaultBounds
  <2>2. pc' \in [Rollouts -> Stages]
    BY DEF ReleaseStatuses, RolloutStatuses, Stages, Copy, Statuses, Artifacts
  <2>3. rollout' \in [Rollouts -> RolloutStatuses]
    BY DEF ReleaseStatuses, RolloutStatuses, Stages, Copy, Statuses, Artifacts
  <2> QED BY <2>1, <2>2, <2>3 DEF ReleaseStatuses, RolloutStatuses, Stages, Copy, Statuses, Artifacts
<1>2. BuildsKept'
  BY DEF BuildsKept
<1>3. ReleasesCut'
  BY DEF ReleasesCut, BuildsKept, Published
<1>4. RequestsInStep'
  BY DEF RequestsInStep, ReleasesCut, Published, Copy
<1>5. OneDirectoryEach'
  BY DEF OneDirectoryEach, RequestsInStep, Clearing, Past, Copy
<1>6. ServedIsReady'
  BY DEF ServedIsReady, ServedRelease, GaveUp, OneDirectoryEach, RequestsInStep, Clearing, Past, Copy
<1>7. GapIsTransient'
  BY DEF GapIsTransient, GaveUp, OneDirectoryEach, RequestsInStep, Clearing
<1>8. DesiredWasActivated'
  BY DEF DesiredWasActivated, RequestsInStep
<1>9. SerialInStep'
  BY DEF SerialInStep, InFlight, AgreeOrGone, Agree, ServedRelease, RequestsInStep, OneDirectoryEach,
      Past, Copy
<1> QED BY <1>1, <1>2, <1>3, <1>4, <1>5, <1>6, <1>7, <1>8, <1>9

\* The copy of a published build is whole.
LEMMA StageInv == ASSUME IInv, NEW i \in Rollouts, StageArtifacts(i) PROVE IInv'
<1> USE NoneAssumption, BoundAssumption DEF IInv, TypeOK, StageArtifacts, Goto, Fault, rest,
      lifecycleVars, releaseVars, requestVars, fleetVars, boundVars
<1>a. target[i] \in Releases /\ cut[target[i]] \in Builds
      /\ (target[i] \notin early => artifact[cut[target[i]]] = "ready")
  BY DEF RequestsInStep, ReleasesCut, Published
<1>b. artifact[cut[target[i]]] \in {"none", "partial", "ready"}
  BY <1>a DEF Artifacts
<1>1. TypeOK'
  <2>1. interrupted' \in BOOLEAN /\ crashes' \in 0 .. MaxCrashes /\ faults' \in 0 .. MaxFaults
    <3>1. Fault \/ UNCHANGED boundVars
      OBVIOUS
    <3> HIDE DEF Fault, TypeOK
    <3> QED BY <3>1, FaultBounds
  <2>2. pc' \in [Rollouts -> Stages]
    BY DEF ReleaseStatuses, RolloutStatuses, Stages, Copy, Statuses, Artifacts
  <2>3. staged' \in [Rollouts -> Copy \cup {None}]
    BY <1>b DEF Copy
  <2> QED BY <2>1, <2>2, <2>3 DEF ReleaseStatuses, RolloutStatuses, Stages, Copy, Statuses, Artifacts
<1>2. BuildsKept'
  BY DEF BuildsKept
<1>3. ReleasesCut'
  BY DEF ReleasesCut, BuildsKept, Published
<1>4. RequestsInStep'
  <2> SUFFICES ASSUME NEW j \in Rollouts PROVE RequestsInStep!(j)'
    BY DEF RequestsInStep
  <2>1. CASE j # i
    BY <2>1 DEF RequestsInStep
  <2>2. CASE j = i
    <3>1. pc[i] = "stage" /\ rollout'[i] \in {"in_progress", "deleted"}
          /\ release'[target'[i]] # "absent"
          /\ target'[i] = target[i] /\ early' = early
      BY DEF RequestsInStep
    <3>2. \/ pc'[i] = "clear" /\ staged'[i].by = i /\ staged'[i].content = artifact[cut[target[i]]]
             /\ staged'[i] \in Copy
          \/ pc'[i] = "fail"
      BY <1>b DEF Copy
    <3> QED BY <1>a, <2>2, <3>1, <3>2 DEF RequestsInStep
  <2> QED BY <2>1, <2>2
<1>5. OneDirectoryEach'
  BY DEF OneDirectoryEach, RequestsInStep, Clearing, Past, Copy
<1>6. ServedIsReady'
  BY DEF ServedIsReady, ServedRelease, GaveUp, OneDirectoryEach, RequestsInStep, Clearing, Past, Copy
<1>7. GapIsTransient'
  BY DEF GapIsTransient, GaveUp, OneDirectoryEach, RequestsInStep, Clearing
<1>8. DesiredWasActivated'
  BY DEF DesiredWasActivated, RequestsInStep
<1>9. SerialInStep'
  BY DEF SerialInStep, InFlight, AgreeOrGone, Agree, ServedRelease, RequestsInStep, OneDirectoryEach,
      Past, Copy
<1> QED BY <1>1, <1>2, <1>3, <1>4, <1>5, <1>6, <1>7, <1>8, <1>9

\* The directory taken down is somebody else's, and this request says so.
LEMMA ClearInv == ASSUME IInv, NEW i \in Rollouts, ClearFleet(i) PROVE IInv'
<1> USE NoneAssumption, BoundAssumption DEF IInv, TypeOK, ClearFleet, Goto, rest,
      lifecycleVars, releaseVars, requestVars, fleetVars, boundVars
<1>1. TypeOK'
  BY DEF ReleaseStatuses, RolloutStatuses, Stages, Copy, Statuses, Artifacts
<1>2. BuildsKept'
  BY DEF BuildsKept
<1>3. ReleasesCut'
  BY DEF ReleasesCut, BuildsKept, Published
<1>4. RequestsInStep'
  BY DEF RequestsInStep, ReleasesCut, Published, Copy
<1>5. OneDirectoryEach'
  BY DEF OneDirectoryEach, RequestsInStep, Clearing, Past, Copy
<1>6. ServedIsReady'
  BY DEF ServedIsReady, ServedRelease, GaveUp, OneDirectoryEach, RequestsInStep, Clearing, Past, Copy
<1>7. GapIsTransient'
  <2>1. served' = None => served = None
    BY <1>1 DEF Copy
  <2> QED BY <2>1 DEF GapIsTransient, GaveUp, RequestsInStep
<1>8. DesiredWasActivated'
  BY DEF DesiredWasActivated, RequestsInStep
<1>9. SerialInStep'
  BY DEF SerialInStep, InFlight, AgreeOrGone, Agree, ServedRelease, RequestsInStep, OneDirectoryEach,
      Past, Copy
<1> QED BY <1>1, <1>2, <1>3, <1>4, <1>5, <1>6, <1>7, <1>8, <1>9

\* Only the directory that was opened is emptied.
LEMMA UnlinkInv == ASSUME IInv, NEW i \in Rollouts, UnlinkFleetFiles(i) PROVE IInv'
<1> USE NoneAssumption, BoundAssumption DEF IInv, TypeOK, UnlinkFleetFiles, Goto, Fault, rest,
      lifecycleVars, releaseVars, requestVars, fleetVars, boundVars
<1>1. TypeOK'
  <2>1. interrupted' \in BOOLEAN /\ crashes' \in 0 .. MaxCrashes /\ faults' \in 0 .. MaxFaults
    <3>1. Fault \/ UNCHANGED boundVars
      OBVIOUS
    <3> HIDE DEF Fault, TypeOK
    <3> QED BY <3>1, FaultBounds
  <2>2. pc' \in [Rollouts -> Stages]
    BY DEF ReleaseStatuses, RolloutStatuses, Stages, Copy, Statuses, Artifacts
  <2>3. served' \in Copy \cup {None}
    BY DEF ReleaseStatuses, RolloutStatuses, Stages, Copy, Statuses, Artifacts
  <2> QED BY <2>1, <2>2, <2>3 DEF ReleaseStatuses, RolloutStatuses, Stages, Copy, Statuses, Artifacts
<1>2. BuildsKept'
  BY DEF BuildsKept
<1>3. ReleasesCut'
  BY DEF ReleasesCut, BuildsKept, Published
<1>4. RequestsInStep'
  BY DEF RequestsInStep, ReleasesCut, Published, Copy
<1>5. OneDirectoryEach'
  BY DEF OneDirectoryEach, RequestsInStep, Clearing, Past, Copy
<1>6. ServedIsReady'
  BY DEF ServedIsReady, ServedRelease, GaveUp, OneDirectoryEach, RequestsInStep, Clearing, Past, Copy
<1>7. GapIsTransient'
  <2>1. served' = None => served = None
    BY <1>1 DEF Copy
  <2> QED BY <2>1 DEF GapIsTransient, GaveUp, RequestsInStep
<1>8. DesiredWasActivated'
  BY DEF DesiredWasActivated, RequestsInStep
<1>9. SerialInStep'
  BY DEF SerialInStep, InFlight, AgreeOrGone, Agree, ServedRelease, RequestsInStep, OneDirectoryEach,
      Past, Copy
<1> QED BY <1>1, <1>2, <1>3, <1>4, <1>5, <1>6, <1>7, <1>8, <1>9

\* What is not empty is another directory, and stays.
LEMMA RemoveInv == ASSUME IInv, NEW i \in Rollouts, RemoveFleet(i) PROVE IInv'
<1> USE NoneAssumption, BoundAssumption DEF IInv, TypeOK, RemoveFleet, Vacant, Goto, rest,
      lifecycleVars, releaseVars, requestVars, fleetVars, boundVars
<1>1. TypeOK'
  BY DEF ReleaseStatuses, RolloutStatuses, Stages, Copy, Statuses, Artifacts
<1>2. BuildsKept'
  BY DEF BuildsKept
<1>3. ReleasesCut'
  BY DEF ReleasesCut, BuildsKept, Published
<1>4. RequestsInStep'
  BY DEF RequestsInStep, ReleasesCut, Published, Copy
<1>5. OneDirectoryEach'
  BY DEF OneDirectoryEach, RequestsInStep, Clearing, Past, Copy
<1>6. ServedIsReady'
  BY DEF ServedIsReady, ServedRelease, GaveUp, OneDirectoryEach, RequestsInStep, Clearing, Past, Copy
<1>7. GapIsTransient'
  BY DEF GapIsTransient, GaveUp, OneDirectoryEach, RequestsInStep, Clearing
<1>8. DesiredWasActivated'
  BY DEF DesiredWasActivated, RequestsInStep
<1>9. SerialInStep'
  BY DEF SerialInStep, InFlight, AgreeOrGone, Agree, ServedRelease, RequestsInStep, OneDirectoryEach,
      Past, Copy
<1> QED BY <1>1, <1>2, <1>3, <1>4, <1>5, <1>6, <1>7, <1>8, <1>9

\* A copy nobody has opened is put in place.
LEMMA RenameInv == ASSUME IInv, NEW i \in Rollouts, RenameFleet(i) PROVE IInv'
<1> USE NoneAssumption, BoundAssumption DEF IInv, TypeOK, RenameFleet, Vacant, Goto, Fault, rest,
      lifecycleVars, releaseVars, requestVars, fleetVars, boundVars
<1>1. TypeOK'
  <2>1. interrupted' \in BOOLEAN /\ crashes' \in 0 .. MaxCrashes /\ faults' \in 0 .. MaxFaults
    <3>1. Fault \/ UNCHANGED boundVars
      OBVIOUS
    <3> HIDE DEF Fault, TypeOK
    <3> QED BY <3>1, FaultBounds
  <2>2. pc' \in [Rollouts -> Stages]
    BY DEF ReleaseStatuses, RolloutStatuses, Stages, Copy, Statuses, Artifacts
  <2>3. served' \in Copy \cup {None}
    BY DEF ReleaseStatuses, RolloutStatuses, Stages, Copy, Statuses, Artifacts
  <2>4. staged' \in [Rollouts -> Copy \cup {None}]
    BY DEF ReleaseStatuses, RolloutStatuses, Stages, Copy, Statuses, Artifacts
  <2>5. activated' \subseteq Releases
    BY DEF RequestsInStep
  <2> QED BY <2>1, <2>2, <2>3, <2>4, <2>5 DEF ReleaseStatuses, RolloutStatuses, Stages, Copy, Statuses,
        Artifacts
<1>2. BuildsKept'
  BY DEF BuildsKept
<1>3. ReleasesCut'
  BY DEF ReleasesCut, BuildsKept, Published
<1>4. RequestsInStep'
  BY DEF RequestsInStep, ReleasesCut, Published, Copy
<1>5. OneDirectoryEach'
  BY DEF OneDirectoryEach, RequestsInStep, Clearing, Past, Copy
<1>6. ServedIsReady'
  BY DEF ServedIsReady, ServedRelease, GaveUp, OneDirectoryEach, RequestsInStep, Clearing, Past, Copy
<1>7. GapIsTransient'
  BY DEF GapIsTransient, GaveUp, OneDirectoryEach, RequestsInStep, Clearing
<1>8. DesiredWasActivated'
  BY DEF DesiredWasActivated, RequestsInStep
<1>9. SerialInStep'
  BY DEF SerialInStep, InFlight, AgreeOrGone, Agree, ServedRelease, RequestsInStep, OneDirectoryEach,
      Past, Copy
<1> QED BY <1>1, <1>2, <1>3, <1>4, <1>5, <1>6, <1>7, <1>8, <1>9

\* Devices are pointed at what was put in place.
LEMMA DesireInv == ASSUME IInv, NEW i \in Rollouts, SetFleetDesiredRelease(i) PROVE IInv'
<1> USE NoneAssumption, BoundAssumption DEF IInv, TypeOK, SetFleetDesiredRelease, Goto, Fails, Fault,
      rest,
      lifecycleVars, releaseVars, requestVars, fleetVars, boundVars
<1>1. TypeOK'
  <2>1. interrupted' \in BOOLEAN /\ crashes' \in 0 .. MaxCrashes /\ faults' \in 0 .. MaxFaults
    <3>1. Fault \/ UNCHANGED boundVars
      OBVIOUS
    <3> HIDE DEF Fault, TypeOK
    <3> QED BY <3>1, FaultBounds
  <2>2. pc' \in [Rollouts -> Stages]
    BY DEF ReleaseStatuses, RolloutStatuses, Stages, Copy, Statuses, Artifacts
  <2>3. desired' \in Releases \cup {None}
    BY DEF ReleaseStatuses, RolloutStatuses, Stages, Copy, Statuses, Artifacts
  <2> QED BY <2>1, <2>2, <2>3 DEF ReleaseStatuses, RolloutStatuses, Stages, Copy, Statuses, Artifacts
<1>2. BuildsKept'
  BY DEF BuildsKept
<1>3. ReleasesCut'
  BY DEF ReleasesCut, BuildsKept, Published
<1>4. RequestsInStep'
  BY DEF RequestsInStep, ReleasesCut, Published, Copy
<1>5. OneDirectoryEach'
  BY DEF OneDirectoryEach, RequestsInStep, Clearing, Past, Copy
<1>6. ServedIsReady'
  BY DEF ServedIsReady, ServedRelease, GaveUp, OneDirectoryEach, RequestsInStep, Clearing, Past, Copy
<1>7. GapIsTransient'
  BY DEF GapIsTransient, GaveUp, OneDirectoryEach, RequestsInStep, Clearing
<1>8. DesiredWasActivated'
  BY DEF DesiredWasActivated, RequestsInStep
<1>9. SerialInStep'
  BY DEF SerialInStep, InFlight, AgreeOrGone, Agree, ServedRelease, RequestsInStep, OneDirectoryEach,
      Past, Copy
<1> QED BY <1>1, <1>2, <1>3, <1>4, <1>5, <1>6, <1>7, <1>8, <1>9

\* A request that completes has opened no directory any more.
LEMMA CompleteInv == ASSUME IInv, NEW i \in Rollouts, CompleteRollout(i) PROVE IInv'
<1> USE NoneAssumption, BoundAssumption DEF IInv, TypeOK, CompleteRollout, EndRollout, RowExists, Goto,
      SetRollout, Fails, Fault, rest,
      lifecycleVars, releaseVars, requestVars, fleetVars, boundVars
<1>1. TypeOK'
  <2>1. interrupted' \in BOOLEAN /\ crashes' \in 0 .. MaxCrashes /\ faults' \in 0 .. MaxFaults
    <3>1. Fault \/ UNCHANGED boundVars
      OBVIOUS
    <3> HIDE DEF Fault, TypeOK
    <3> QED BY <3>1, FaultBounds
  <2>2. pc' \in [Rollouts -> Stages]
    BY DEF ReleaseStatuses, RolloutStatuses, Stages, Copy, Statuses, Artifacts
  <2>3. rollout' \in [Rollouts -> RolloutStatuses]
    BY DEF ReleaseStatuses, RolloutStatuses, Stages, Copy, Statuses, Artifacts
  <2>4. staged' \in [Rollouts -> Copy \cup {None}] /\ clearing' \in [Rollouts -> Rollouts \cup {None}]
    BY DEF ReleaseStatuses, RolloutStatuses, Stages, Copy, Statuses, Artifacts
  <2> QED BY <2>1, <2>2, <2>3, <2>4 DEF ReleaseStatuses, RolloutStatuses, Stages, Copy, Statuses,
        Artifacts
<1>2. BuildsKept'
  BY DEF BuildsKept
<1>3. ReleasesCut'
  BY DEF ReleasesCut, BuildsKept, Published
<1>4. RequestsInStep'
  BY DEF RequestsInStep, ReleasesCut, Published, Copy
<1>5. OneDirectoryEach'
  BY DEF OneDirectoryEach, RequestsInStep, Clearing, Past, Copy
<1>6. ServedIsReady'
  BY DEF ServedIsReady, ServedRelease, GaveUp, OneDirectoryEach, RequestsInStep, Clearing, Past, Copy
<1>7. GapIsTransient'
  BY DEF GapIsTransient, GaveUp, OneDirectoryEach, RequestsInStep, Clearing
<1>8. DesiredWasActivated'
  BY DEF DesiredWasActivated, RequestsInStep
<1>9. SerialInStep'
  BY DEF SerialInStep, InFlight, AgreeOrGone, Agree, ServedRelease, RequestsInStep, OneDirectoryEach,
      Past, Copy
<1> QED BY <1>1, <1>2, <1>3, <1>4, <1>5, <1>6, <1>7, <1>8, <1>9

\* A request that fails while it clears has given up.
LEMMA FailInv == ASSUME IInv, NEW i \in Rollouts, MarkRolloutFailed(i) PROVE IInv'
<1> USE NoneAssumption, BoundAssumption DEF IInv, TypeOK, MarkRolloutFailed, EndRollout, RowExists,
      Goto, SetRollout, Fails, Fault, rest,
      lifecycleVars, releaseVars, requestVars, fleetVars, boundVars
<1>1. TypeOK'
  <2>1. interrupted' \in BOOLEAN /\ crashes' \in 0 .. MaxCrashes /\ faults' \in 0 .. MaxFaults
    <3>1. Fault \/ UNCHANGED boundVars
      OBVIOUS
    <3> HIDE DEF Fault, TypeOK
    <3> QED BY <3>1, FaultBounds
  <2>2. pc' \in [Rollouts -> Stages]
    BY DEF ReleaseStatuses, RolloutStatuses, Stages, Copy, Statuses, Artifacts
  <2>3. rollout' \in [Rollouts -> RolloutStatuses]
    BY DEF ReleaseStatuses, RolloutStatuses, Stages, Copy, Statuses, Artifacts
  <2>4. staged' \in [Rollouts -> Copy \cup {None}] /\ clearing' \in [Rollouts -> Rollouts \cup {None}]
    BY DEF ReleaseStatuses, RolloutStatuses, Stages, Copy, Statuses, Artifacts
  <2> QED BY <2>1, <2>2, <2>3, <2>4 DEF ReleaseStatuses, RolloutStatuses, Stages, Copy, Statuses,
        Artifacts
<1>2. BuildsKept'
  BY DEF BuildsKept
<1>3. ReleasesCut'
  BY DEF ReleasesCut, BuildsKept, Published
<1>4. RequestsInStep'
  BY DEF RequestsInStep, ReleasesCut, Published, Copy
<1>5. OneDirectoryEach'
  BY DEF OneDirectoryEach, RequestsInStep, Clearing, Past, Copy
<1>6. ServedIsReady'
  BY DEF ServedIsReady, ServedRelease, GaveUp, OneDirectoryEach, RequestsInStep, Clearing, Past, Copy
<1>7. GapIsTransient'
  BY DEF GapIsTransient, GaveUp, OneDirectoryEach, RequestsInStep, Clearing
<1>8. DesiredWasActivated'
  BY DEF DesiredWasActivated, RequestsInStep
<1>9. SerialInStep'
  BY DEF SerialInStep, InFlight, AgreeOrGone, Agree, ServedRelease, RequestsInStep, OneDirectoryEach,
      Past, Copy
<1> QED BY <1>1, <1>2, <1>3, <1>4, <1>5, <1>6, <1>7, <1>8, <1>9

\* So has one that dies with the server.
LEMMA CrashInv == ASSUME IInv, Crash PROVE IInv'
<1> USE NoneAssumption, BoundAssumption DEF IInv, TypeOK, Crash,
      lifecycleVars, releaseVars, requestVars, fleetVars, boundVars
<1>1. TypeOK'
  BY DEF ReleaseStatuses, RolloutStatuses, Stages, Copy, Statuses, Artifacts
<1>2. BuildsKept'
  BY DEF BuildsKept
<1>3. ReleasesCut'
  BY DEF ReleasesCut, BuildsKept, Published
<1>4. RequestsInStep'
  BY DEF RequestsInStep, ReleasesCut, Published, Copy
<1>5. OneDirectoryEach'
  BY DEF OneDirectoryEach, RequestsInStep, Clearing, Past, Copy
<1>6. ServedIsReady'
  BY DEF ServedIsReady, ServedRelease, GaveUp, OneDirectoryEach, RequestsInStep, Clearing, Past, Copy
<1>7. GapIsTransient'
  BY DEF GapIsTransient, GaveUp, OneDirectoryEach, RequestsInStep, Clearing
<1>8. DesiredWasActivated'
  BY DEF DesiredWasActivated, RequestsInStep
<1>9. SerialInStep'
  BY DEF SerialInStep, InFlight, AgreeOrGone, Agree, ServedRelease, RequestsInStep, OneDirectoryEach,
      Past, Copy
<1> QED BY <1>1, <1>2, <1>3, <1>4, <1>5, <1>6, <1>7, <1>8, <1>9

-----------------------------------------------------------------------------
(* The theorems.                                                           *)

LEMMA InitInv == Init => IInv
<1> SUFFICES ASSUME Init PROVE IInv
  OBVIOUS
<1> USE NoneAssumption, BoundAssumption DEF Init, LifecycleInit
<1>1. TypeOK
  <2>1. crashes \in 0 .. MaxCrashes /\ faults \in 0 .. MaxFaults
    OBVIOUS
  <2>2. overlapped \in BOOLEAN /\ interrupted \in BOOLEAN
    OBVIOUS
  <2>3. /\ status \in [Builds -> Statuses] /\ artifact \in [Builds -> Artifacts]
        /\ release \in [Releases -> ReleaseStatuses] /\ cut \in [Releases -> Builds \cup {None}]
        /\ rollout \in [Rollouts -> RolloutStatuses] /\ target \in [Rollouts -> Releases \cup {None}]
        /\ pc \in [Rollouts -> Stages] /\ staged \in [Rollouts -> Copy \cup {None}]
        /\ clearing \in [Rollouts -> Rollouts \cup {None}]
    BY DEF ReleaseStatuses, RolloutStatuses, Stages, Statuses, Artifacts
  <2> QED BY <2>1, <2>2, <2>3 DEF TypeOK
<1>2. BuildsKept /\ ReleasesCut /\ RequestsInStep /\ OneDirectoryEach
  BY DEF BuildsKept, ReleasesCut, RequestsInStep, OneDirectoryEach
<1>3. ServedIsReady /\ GapIsTransient /\ DesiredWasActivated
  BY DEF ServedIsReady, GapIsTransient, DesiredWasActivated
<1>4. SerialInStep
  BY DEF SerialInStep, InFlight, AgreeOrGone, Agree
<1> QED BY <1>1, <1>2, <1>3, <1>4 DEF IInv

LEMMA StepInv == IInv /\ [Next]_vars => IInv'
<1> SUFFICES ASSUME IInv, [Next]_vars PROVE IInv'
  OBVIOUS
<1>1. CASE BuildStep \/ Crash
  BY <1>1, BuildStepInv, CrashInv
<1>2. ASSUME NEW r \in Releases, DeleteRelease(r) \/ \E b \in Builds : CreateRelease(r, b) PROVE IInv'
  BY <1>2, DeleteReleaseInv, CreateReleaseInv
<1>3. ASSUME NEW i \in Rollouts, (\E r \in Releases : BeginRollout(i, r)) \/ DeleteRollout(i) \/ Disconnect(i)
      PROVE  IInv'
  BY <1>3, BeginInv, DeleteRolloutInv, DisconnectInv
<1>4. ASSUME NEW i \in Rollouts, Activate(i) PROVE IInv'
  BY <1>4, CreateInv, StageInv, ClearInv, UnlinkInv, RemoveInv, RenameInv, DesireInv, CompleteInv,
        FailInv
     DEF Activate
<1>5. CASE UNCHANGED vars
  BY <1>5 DEF vars, lifecycleVars, releaseVars, requestVars, fleetVars, boundVars, IInv, TypeOK,
        BuildsKept,
       ReleasesCut, Published, RequestsInStep, OneDirectoryEach, ServedIsReady, ServedRelease, GaveUp,
       GapIsTransient, DesiredWasActivated, SerialInStep, InFlight, AgreeOrGone, Agree
<1> QED BY <1>1, <1>2, <1>3, <1>4, <1>5 DEF Next

\* The invariant holds in every reachable state.
LEMMA Invariance == Spec => []IInv
<1> QED BY InitInv, StepInv, PTL DEF Spec

\* Every reachable state is of the declared types.
THEOREM TypeCorrect == Spec => []TypeOK
<1>1. IInv => TypeOK
  BY DEF IInv
<1> QED BY <1>1, Invariance, PTL

\* What devices can download is one release's whole directory, if it was cut from a
\* succeeded build, unless the RemoveAll of another rollout is taking the directory
\* down, or was when that rollout gave up.
THEOREM ServedIsWhole == Spec => []ServedIsReady
<1>1. IInv => ServedIsReady
  BY DEF IInv
<1> QED BY <1>1, Invariance, PTL

\* A fleet that was served once has no directory only on the way to the next one, or
\* after a rollout that gave up.
THEOREM GapsEnd == Spec => []GapIsTransient
<1>1. IInv => GapIsTransient
  BY DEF IInv
<1> QED BY <1>1, Invariance, PTL

\* Devices are never pointed at a release that was not put in place.
THEOREM DesiredWasServed == Spec => []DesiredWasActivated
<1>1. IInv => DesiredWasActivated
  BY DEF IInv
<1> QED BY <1>1, Invariance, PTL

\* Rollouts that come one at a time, uninterrupted, leave the fleet pointed at the
\* release it is served.
THEOREM SerialAgreement == Spec => []SerialRolloutsAgree
<1>1. IInv => SerialRolloutsAgree
  BY DEF IInv, SerialInStep, AgreeOrGone, SerialRolloutsAgree
<1> QED BY <1>1, Invariance, PTL

=============================================================================
