---------------------- MODULE InstallerPipeline_proofs ----------------------
(***************************************************************************)
(* Proofs about InstallerPipeline, for any set of builds, requests and     *)
(* goroutines. Builds take any step of BuildLifecycle; requests may race.  *)
(***************************************************************************)
EXTENDS InstallerPipeline, TLAPS

-----------------------------------------------------------------------------
(* The inductive invariant.                                                *)

Settled(b) == status[b] \in {"succeeded", "deleted"}

Asks(r, b) == rpc[r] = "spawn" /\ rjob[r] = b
Owned(b) == (\E w \in Workers : job[w] = b) \/ (\E r \in Requests : Asks(r, b)) \/ b \in todo

\* Requests and goroutines that are not idle have a build.
Coupled ==
  /\ \A r \in Requests : rpc[r] = "idle" <=> rjob[r] = None
  /\ \A w \in Workers : pc[w] = "idle" <=> job[w] = None

\* A succeeded build is left alone.
BuildsKept == \A b \in Builds : status[b] = "succeeded" => artifact[b] = "ready" /\ b \notin executing

\* An installer is for a build that has succeeded, though it may be gone.
BuildsSettled ==
  /\ \A b \in Builds : installer[b] # "not_requested" \/ b \in todo => Settled(b)
  /\ \A r \in Requests : rjob[r] # None => Settled(rjob[r])
  /\ \A w \in Workers : job[w] # None => Settled(job[w])

\* Who can be about in each phase of the server.
PhaseOrder ==
  /\ server \in {"down", "boot", "list"} => \A w \in Workers : pc[w] = "idle"
  /\ server # "up" => \A r \in Requests : rpc[r] = "idle"
  /\ server # "spawn" => todo = {}
  /\ server = "list" => \A b \in Builds : Exists(b) => installer[b] # "running"

\* Short of a request that raced, an installer has one owner, and is shown as
\* queued or running while it has.
SoleOwner ==
  \A b \in Builds \ doubled :
    /\ \A v, w \in Workers : job[v] = b /\ job[w] = b => v = w
    /\ \A r, s \in Requests : Asks(r, b) /\ Asks(s, b) => r = s
    /\ \A r \in Requests, w \in Workers : Asks(r, b) => job[w] # b
    /\ b \in todo => \A w \in Workers : job[w] # b
    /\ Owned(b) => InFlight(b)

\* What its image is by each stage.
ImageProgress ==
  /\ \A w \in Workers : job[w] \in Builds \ doubled =>
       /\ pc[w] = "close" => iso[job[w]] = "partial"
       /\ pc[w] = "finish" => iso[job[w]] = "whole"
  /\ \A b \in Builds \ doubled : Exists(b) /\ installer[b] = "succeeded" => iso[b] = "whole"

\* NoOrphanedInstaller, from the moment startup has listed the queued ones.
Accounted ==
  server \in {"spawn", "up"} => \A b \in Builds : InFlight(b) /\ Exists(b) => Owned(b) \/ b \in lost

IInv ==
  /\ TypeOK /\ Coupled /\ BuildsKept /\ BuildsSettled /\ PhaseOrder /\ SoleOwner
  /\ ImageProgress /\ Accounted

-----------------------------------------------------------------------------
\* A succeeded build is not written again; its row may go.
LEMMA BuildStepInv == ASSUME IInv, BuildStep PROVE IInv'
<1> USE NoneAssumption, BoundAssumption DEF IInv, TypeOK, BuildStep
<1>1. /\ status' \in [Builds -> Statuses] /\ artifact' \in [Builds -> Artifacts]
      /\ \A b \in Builds : Exists(b)' => Exists(b) \/ status[b] = "absent"
      /\ \A b \in Builds : Settled(b) => Settled(b)'
  BY DEF LifecycleNext, Create, Start, Write, Succeed, Fail, Stop, Delete, SetStatus, Statuses, Artifacts,
         Exists, Settled
<1>2. UNCHANGED <<installer, iso, rpc, rjob, pc, job, server, todo, lost, doubled, queued, crashes, faults>>
  BY DEF processVars, counterVars
<1> HIDE DEF BuildStep
<1>3. TypeOK' /\ Coupled'
  BY <1>1, <1>2 DEF Coupled
<1>4. BuildsKept'
  BY DEF BuildsKept, BuildStep, LifecycleNext, Create, Start, Write, Succeed, Fail, Stop, Delete, SetStatus
<1>5. BuildsSettled'
  BY <1>1, <1>2 DEF BuildsSettled
<1>6. \A b \in Builds : Exists(b)' => Exists(b) \/ installer[b] = "not_requested"
  BY <1>1 DEF BuildsSettled, Settled
<1>7. PhaseOrder'
  BY <1>2, <1>6 DEF PhaseOrder
<1>8. SoleOwner' /\ ImageProgress'
  BY <1>2, <1>6 DEF SoleOwner, ImageProgress, Owned, Asks, InFlight
<1>9. Accounted'
  BY <1>2, <1>6 DEF Accounted, Owned, Asks, InFlight
<1> QED BY <1>3, <1>4, <1>5, <1>7, <1>8, <1>9

\* A request that was let through is for a succeeded build.
LEMMA CheckInv == ASSUME IInv, NEW r \in Requests, NEW b \in Builds, CheckInstallerRequest(r, b) PROVE IInv'
<1> USE NoneAssumption, BoundAssumption
    DEF IInv, TypeOK, CheckInstallerRequest, StepRequest,
        lifecycleVars, workerVars, processVars, counterVars
<1>1. TypeOK'
  BY DEF Coupled, InstallerStatuses, Images, RequestStages, Stages, Phases
<1>2. Coupled'
  BY DEF Coupled
<1>3. BuildsKept'
  BY DEF BuildsKept
<1>4. BuildsSettled'
  BY DEF BuildsSettled, Settled, Coupled, Exists, InFlight
<1>5. PhaseOrder'
  BY DEF PhaseOrder, Exists
<1>6. SoleOwner'
  BY DEF SoleOwner, Owned, Asks, InFlight, Exists, Coupled, PhaseOrder
<1>7. ImageProgress'
  BY DEF ImageProgress, SoleOwner, Owned, Asks, InFlight, Exists, Coupled
<1>8. Accounted'
  BY DEF Accounted, Owned, Asks, InFlight, Exists, PhaseOrder
<1> QED BY <1>1, <1>2, <1>3, <1>4, <1>5, <1>6, <1>7, <1>8

\* Queued while one is in flight, the installer counts as doubled; otherwise it had no owner.
LEMMA QueueInv == ASSUME IInv, NEW r \in Requests, QueueBuildInstaller(r) PROVE IInv'
<1> USE NoneAssumption, BoundAssumption
    DEF IInv, TypeOK, QueueBuildInstaller, StepRequest,
        lifecycleVars, workerVars, processVars, counterVars
<1>1. TypeOK'
  BY DEF Coupled, InstallerStatuses, Images, RequestStages, Stages, Phases
<1>2. Coupled'
  BY DEF Coupled
<1>3. BuildsKept'
  BY DEF BuildsKept
<1>4. BuildsSettled'
  BY DEF BuildsSettled, Settled, Coupled, Exists, InFlight
<1>5. PhaseOrder'
  BY DEF PhaseOrder, Exists
<1>6. SoleOwner'
  BY DEF SoleOwner, Owned, Asks, InFlight, Exists, Coupled, PhaseOrder
<1>7. ImageProgress'
  BY DEF ImageProgress, SoleOwner, Owned, Asks, InFlight, Exists, Coupled
<1>8. Accounted'
  BY DEF Accounted, Owned, Asks, InFlight, Exists, PhaseOrder
<1> QED BY <1>1, <1>2, <1>3, <1>4, <1>5, <1>6, <1>7, <1>8

\* The request hands its build over to a goroutine.
LEMMA SpawnInv == ASSUME IInv, NEW r \in Requests, QueueInstallerBuildExecution(r) PROVE IInv'
<1> USE NoneAssumption, BoundAssumption
    DEF IInv, TypeOK, QueueInstallerBuildExecution, StepRequest, StartGoroutine,
        lifecycleVars, workerVars, processVars, counterVars
<1>1. TypeOK'
  BY DEF Coupled, InstallerStatuses, Images, RequestStages, Stages, Phases
<1>2. Coupled'
  BY DEF Coupled
<1>3. BuildsKept'
  BY DEF BuildsKept
<1>4. BuildsSettled'
  BY DEF BuildsSettled, Settled, Coupled, Exists, InFlight
<1>5. PhaseOrder'
  BY DEF PhaseOrder, Exists
<1>6. SoleOwner'
  BY DEF SoleOwner, Owned, Asks, InFlight, Exists, Coupled, PhaseOrder
<1>7. ImageProgress'
  BY DEF ImageProgress, SoleOwner, Owned, Asks, InFlight, Exists, Coupled
<1>8. Accounted'
  <2>1. PICK w \in Workers : pc[w] = "idle" /\ job' = [job EXCEPT ![w] = rjob[r]]
    OBVIOUS
  <2>2. \A c \in Builds : Owned(c) => Owned(c)'
    BY <2>1 DEF Owned, Asks, Coupled
  <2> QED BY <2>2 DEF Accounted, InFlight, Exists, PhaseOrder
<1> QED BY <1>1, <1>2, <1>3, <1>4, <1>5, <1>6, <1>7, <1>8

\* Startup hands a listed build over to a goroutine.
LEMMA RequeueInv == ASSUME IInv, NEW b \in Builds, RequeueInstallerBuildExecution(b) PROVE IInv'
<1> USE NoneAssumption, BoundAssumption
    DEF IInv, TypeOK, RequeueInstallerBuildExecution, StartGoroutine, startupRest, requestVars, counterVars,
        lifecycleVars, workerVars, processVars, counterVars
<1>1. TypeOK'
  BY DEF Coupled, InstallerStatuses, Images, RequestStages, Stages, Phases
<1>2. Coupled'
  BY DEF Coupled
<1>3. BuildsKept'
  BY DEF BuildsKept
<1>4. BuildsSettled'
  BY DEF BuildsSettled, Settled, Coupled, Exists, InFlight
<1>5. PhaseOrder'
  BY DEF PhaseOrder, Exists
<1>6. SoleOwner'
  BY DEF SoleOwner, Owned, Asks, InFlight, Exists, Coupled, PhaseOrder
<1>7. ImageProgress'
  BY DEF ImageProgress, SoleOwner, Owned, Asks, InFlight, Exists, Coupled
<1>8. Accounted'
  <2>1. PICK w \in Workers : pc[w] = "idle" /\ job' = [job EXCEPT ![w] = b]
    OBVIOUS
  <2>2. \A c \in Builds : Owned(c) => Owned(c)'
    BY <2>1 DEF Owned, Asks, Coupled
  <2> QED BY <2>2 DEF Accounted, InFlight, Exists, PhaseOrder
<1> QED BY <1>1, <1>2, <1>3, <1>4, <1>5, <1>6, <1>7, <1>8

\* The first write lands, or the goroutine returns and the build is lost.
LEMMA BeginInv == ASSUME IInv, NEW w \in Workers, BeginInstaller(w) PROVE IInv'
<1> USE NoneAssumption, BoundAssumption
    DEF IInv, TypeOK, BeginInstaller, UpdateBuildInstaller, UpdateBuildInstallerError, Goto, Return, otherVars, requestVars,
        lifecycleVars, workerVars, processVars, counterVars
<1>1. TypeOK'
  BY DEF Coupled, InstallerStatuses, Images, RequestStages, Stages, Phases
<1>2. Coupled'
  BY DEF Coupled
<1>3. BuildsKept'
  BY DEF BuildsKept
<1>4. BuildsSettled'
  BY DEF BuildsSettled, Settled, Coupled, Exists, InFlight
<1>5. PhaseOrder'
  BY DEF PhaseOrder, Exists
<1>6. SoleOwner'
  BY DEF SoleOwner, Owned, Asks, InFlight, Exists, Coupled, PhaseOrder
<1>7. ImageProgress'
  BY DEF ImageProgress, SoleOwner, Owned, Asks, InFlight, Exists, Coupled
<1>8. Accounted'
  BY DEF Accounted, Owned, Asks, InFlight, Exists, PhaseOrder
<1> QED BY <1>1, <1>2, <1>3, <1>4, <1>5, <1>6, <1>7, <1>8

\* Steps that show nothing.
LEMMA WorkInv == ASSUME IInv, NEW w \in Workers, BuildInstaller(w) \/ InstallerError(w) PROVE IInv'
<1> USE NoneAssumption, BoundAssumption
    DEF IInv, TypeOK, BuildInstaller, InstallerError, Goto, otherVars, requestVars,
        lifecycleVars, workerVars, processVars, counterVars
<1>1. TypeOK'
  BY DEF Coupled, InstallerStatuses, Images, RequestStages, Stages, Phases
<1>2. Coupled'
  BY DEF Coupled
<1>3. BuildsKept'
  BY DEF BuildsKept
<1>4. BuildsSettled'
  BY DEF BuildsSettled, Settled, Coupled, Exists, InFlight
<1>5. PhaseOrder'
  BY DEF PhaseOrder, Exists
<1>6. SoleOwner'
  BY DEF SoleOwner, Owned, Asks, InFlight, Exists, Coupled, PhaseOrder
<1>7. ImageProgress'
  BY DEF ImageProgress, SoleOwner, Owned, Asks, InFlight, Exists, Coupled
<1>8. Accounted'
  BY DEF Accounted, Owned, Asks, InFlight, Exists, PhaseOrder
<1> QED BY <1>1, <1>2, <1>3, <1>4, <1>5, <1>6, <1>7, <1>8

\* A sole owner finds nobody else copying.
LEMMA OpenInv == ASSUME IInv, NEW w \in Workers, OpenInstaller(w) PROVE IInv'
<1> USE NoneAssumption, BoundAssumption
    DEF IInv, TypeOK, OpenInstaller, Copying, Goto, otherVars, requestVars,
        lifecycleVars, workerVars, processVars, counterVars
<1>1. TypeOK'
  BY DEF Coupled, InstallerStatuses, Images, RequestStages, Stages, Phases
<1>2. Coupled'
  BY DEF Coupled
<1>3. BuildsKept'
  BY DEF BuildsKept
<1>4. BuildsSettled'
  BY DEF BuildsSettled, Settled, Coupled, Exists, InFlight
<1>5. PhaseOrder'
  BY DEF PhaseOrder, Exists
<1>6. SoleOwner'
  BY DEF SoleOwner, Owned, Asks, InFlight, Exists, Coupled, PhaseOrder
<1>7. ImageProgress'
  BY DEF ImageProgress, SoleOwner, Owned, Asks, InFlight, Exists, Coupled
<1>8. Accounted'
  BY DEF Accounted, Owned, Asks, InFlight, Exists, PhaseOrder
<1> QED BY <1>1, <1>2, <1>3, <1>4, <1>5, <1>6, <1>7, <1>8

\* Its copy is then whole.
LEMMA CloseInv == ASSUME IInv, NEW w \in Workers, CloseInstaller(w) PROVE IInv'
<1> USE NoneAssumption, BoundAssumption
    DEF IInv, TypeOK, CloseInstaller, Copying, Goto, otherVars, requestVars,
        lifecycleVars, workerVars, processVars, counterVars
<1>1. TypeOK'
  BY DEF Coupled, InstallerStatuses, Images, RequestStages, Stages, Phases
<1>2. Coupled'
  BY DEF Coupled
<1>3. BuildsKept'
  BY DEF BuildsKept
<1>4. BuildsSettled'
  BY DEF BuildsSettled, Settled, Coupled, Exists, InFlight
<1>5. PhaseOrder'
  BY DEF PhaseOrder, Exists
<1>6. SoleOwner'
  BY DEF SoleOwner, Owned, Asks, InFlight, Exists, Coupled, PhaseOrder
<1>7. ImageProgress'
  BY DEF ImageProgress, SoleOwner, Owned, Asks, InFlight, Exists, Coupled
<1>8. Accounted'
  BY DEF Accounted, Owned, Asks, InFlight, Exists, PhaseOrder
<1> QED BY <1>1, <1>2, <1>3, <1>4, <1>5, <1>6, <1>7, <1>8

\* The outcome is written, or lost.
LEMMA EndInv == ASSUME IInv, NEW w \in Workers, FinishInstaller(w) \/ FailInstaller(w) PROVE IInv'
<1> USE NoneAssumption, BoundAssumption
    DEF IInv, TypeOK, FinishInstaller, FailInstaller, EndInstaller, UpdateBuildInstaller,
        UpdateBuildInstallerError, Return, otherVars, requestVars,
        lifecycleVars, workerVars, processVars, counterVars
<1>1. TypeOK'
  BY DEF Coupled, InstallerStatuses, Images, RequestStages, Stages, Phases
<1>2. Coupled'
  BY DEF Coupled
<1>3. BuildsKept'
  BY DEF BuildsKept
<1>4. BuildsSettled'
  BY DEF BuildsSettled, Settled, Coupled, Exists, InFlight
<1>5. PhaseOrder'
  BY DEF PhaseOrder, Exists
<1>6. SoleOwner'
  BY DEF SoleOwner, Owned, Asks, InFlight, Exists, Coupled, PhaseOrder
<1>7. ImageProgress'
  BY DEF ImageProgress, SoleOwner, Owned, Asks, InFlight, Exists, Coupled
<1>8. Accounted'
  BY DEF Accounted, Owned, Asks, InFlight, Exists, PhaseOrder
<1> QED BY <1>1, <1>2, <1>3, <1>4, <1>5, <1>6, <1>7, <1>8

\* A server that goes down takes every owner with it.
LEMMA DownInv == ASSUME IInv, Crash \/ StartupError PROVE IInv'
<1> USE NoneAssumption, BoundAssumption
    DEF IInv, TypeOK, Crash, StartupError, GoDown,
        lifecycleVars, workerVars, processVars, counterVars
<1>1. TypeOK'
  BY DEF Coupled, InstallerStatuses, Images, RequestStages, Stages, Phases
<1>2. Coupled'
  BY DEF Coupled
<1>3. BuildsKept'
  BY DEF BuildsKept
<1>4. BuildsSettled'
  BY DEF BuildsSettled, Settled, Coupled, Exists, InFlight
<1>5. PhaseOrder'
  BY DEF PhaseOrder, Exists
<1>6. SoleOwner'
  BY DEF SoleOwner, Owned, Asks, InFlight, Exists, Coupled, PhaseOrder
<1>7. ImageProgress'
  BY DEF ImageProgress, SoleOwner, Owned, Asks, InFlight, Exists, Coupled
<1>8. Accounted'
  BY DEF Accounted, Owned, Asks, InFlight, Exists, PhaseOrder
<1> QED BY <1>1, <1>2, <1>3, <1>4, <1>5, <1>6, <1>7, <1>8

\* Nobody is at work while startup settles what was running.
LEMMA FailRunningInv == ASSUME IInv, FailRunningBuildInstallers PROVE IInv'
<1> USE NoneAssumption, BoundAssumption
    DEF IInv, TypeOK, FailRunningBuildInstallers, startupRest, requestVars, workerVars, counterVars,
        lifecycleVars, workerVars, processVars, counterVars
<1>1. TypeOK'
  BY DEF Coupled, InstallerStatuses, Images, RequestStages, Stages, Phases
<1>2. Coupled'
  BY DEF Coupled
<1>3. BuildsKept'
  BY DEF BuildsKept
<1>4. BuildsSettled'
  BY DEF BuildsSettled, Settled, Coupled, Exists, InFlight
<1>5. PhaseOrder'
  BY DEF PhaseOrder, Exists
<1>6. SoleOwner'
  BY DEF SoleOwner, Owned, Asks, InFlight, Exists, Coupled, PhaseOrder
<1>7. ImageProgress'
  BY DEF ImageProgress, SoleOwner, Owned, Asks, InFlight, Exists, Coupled
<1>8. Accounted'
  BY DEF Accounted, Owned, Asks, InFlight, Exists, PhaseOrder
<1> QED BY <1>1, <1>2, <1>3, <1>4, <1>5, <1>6, <1>7, <1>8

\* The list is taken while nobody else owns an installer.
LEMMA ListInv == ASSUME IInv, ListQueuedBuildInstallers PROVE IInv'
<1> USE NoneAssumption, BoundAssumption
    DEF IInv, TypeOK, ListQueuedBuildInstallers, startupRest, requestVars, workerVars, counterVars,
        lifecycleVars, workerVars, processVars, counterVars
<1>1. TypeOK'
  BY DEF Coupled, InstallerStatuses, Images, RequestStages, Stages, Phases
<1>2. Coupled'
  BY DEF Coupled
<1>3. BuildsKept'
  BY DEF BuildsKept
<1>4. BuildsSettled'
  BY DEF BuildsSettled, Settled, Coupled, Exists, InFlight
<1>5. PhaseOrder'
  BY DEF PhaseOrder, Exists
<1>6. SoleOwner'
  BY DEF SoleOwner, Owned, Asks, InFlight, Exists, Coupled, PhaseOrder
<1>7. ImageProgress'
  BY DEF ImageProgress, SoleOwner, Owned, Asks, InFlight, Exists, Coupled
<1>8. Accounted'
  BY DEF Accounted, Owned, Asks, InFlight, Exists, PhaseOrder
<1> QED BY <1>1, <1>2, <1>3, <1>4, <1>5, <1>6, <1>7, <1>8

\* Phases in which nothing else changes.
LEMMA ServeInv == ASSUME IInv, Restart \/ Serve PROVE IInv'
<1> USE NoneAssumption, BoundAssumption
    DEF IInv, TypeOK, Restart, Serve, startupRest, requestVars, workerVars, counterVars,
        lifecycleVars, workerVars, processVars, counterVars
<1>1. TypeOK'
  BY DEF Coupled, InstallerStatuses, Images, RequestStages, Stages, Phases
<1>2. Coupled'
  BY DEF Coupled
<1>3. BuildsKept'
  BY DEF BuildsKept
<1>4. BuildsSettled'
  BY DEF BuildsSettled, Settled, Coupled, Exists, InFlight
<1>5. PhaseOrder'
  BY DEF PhaseOrder, Exists
<1>6. SoleOwner'
  BY DEF SoleOwner, Owned, Asks, InFlight, Exists, Coupled, PhaseOrder
<1>7. ImageProgress'
  BY DEF ImageProgress, SoleOwner, Owned, Asks, InFlight, Exists, Coupled
<1>8. Accounted'
  BY DEF Accounted, Owned, Asks, InFlight, Exists, PhaseOrder
<1> QED BY <1>1, <1>2, <1>3, <1>4, <1>5, <1>6, <1>7, <1>8

-----------------------------------------------------------------------------
(* The theorems.                                                           *)

\* Nothing is queued and nobody is about when the server first boots.
LEMMA InitInv == Init => IInv
BY NoneAssumption, BoundAssumption
   DEF Init, LifecycleInit, IInv, TypeOK, Coupled, BuildsKept, BuildsSettled, PhaseOrder, SoleOwner,
       ImageProgress, Accounted, Owned, Asks, InFlight, Exists, Statuses, Artifacts, InstallerStatuses,
       Images, RequestStages, Stages, Phases

\* Every step keeps the invariant.
LEMMA StepInv == IInv /\ [Next]_vars => IInv'
<1> SUFFICES ASSUME IInv, [Next]_vars PROVE IInv'
  OBVIOUS
<1>1. ASSUME NEW r \in Requests, Handle(r) PROVE IInv'
  BY <1>1, CheckInv, QueueInv, SpawnInv DEF Handle
<1>2. ASSUME NEW w \in Workers, Execute(w) PROVE IInv'
  BY <1>2, BeginInv, WorkInv, OpenInv, CloseInv, EndInv DEF Execute
<1>3. CASE Startup
  BY <1>3, FailRunningInv, ListInv, RequeueInv, ServeInv DEF Startup
<1>4. CASE UNCHANGED vars
  BY <1>4 DEF vars, lifecycleVars, processVars, counterVars, IInv, TypeOK, Coupled, BuildsKept, BuildsSettled,
       Settled, PhaseOrder, SoleOwner, ImageProgress, Accounted, Owned, Asks, InFlight, Exists
<1> QED BY <1>1, <1>2, <1>3, <1>4, BuildStepInv, DownInv DEF Next

\* The invariant holds in every reachable state.
LEMMA Invariance == Spec => []IInv
<1> QED BY InitInv, StepInv, PTL DEF Spec

\* Every reachable state is of the declared types.
THEOREM TypeCorrect == Spec => []TypeOK
<1>1. IInv => TypeOK
  BY DEF IInv
<1> QED BY <1>1, Invariance, PTL

\* Unless its queueing raced another request's, an installer shown as succeeded
\* is one whole image that one goroutine wrote.
THEOREM InstallerIsWhole == Spec => []SucceededInstallerIsWhole
<1>1. IInv => SucceededInstallerIsWhole
  BY DEF IInv, SucceededInstallerIsWhole, SoleOwner, ImageProgress
<1> QED BY <1>1, Invariance, PTL

\* What is queued, running or worked on as an installer is that of a build that
\* has succeeded, and whose directory is published whole while it has its row.
THEOREM OnlyBuilt == Spec => []InstallerNeedsBuild
<1>1. IInv => InstallerNeedsBuild
  <2> SUFFICES ASSUME IInv, NEW b \in Builds, InFlight(b) \/ \E w \in Workers : job[w] = b
               PROVE  status[b] \in {"succeeded", "deleted"} /\ (status[b] = "succeeded" => artifact[b] = "ready")
    BY DEF InstallerNeedsBuild
  <2> QED BY NoneAssumption DEF IInv, InFlight, BuildsSettled, Settled, BuildsKept
<1> QED BY <1>1, Invariance, PTL

\* A serving server accounts for every installer it shows as queued or running.
THEOREM NoOrphans == Spec => []NoOrphanedInstaller
<1>1. IInv => NoOrphanedInstaller
  BY DEF IInv, Accounted, PhaseOrder, Owned, Asks, NoOrphanedInstaller
<1> QED BY <1>1, Invariance, PTL

-----------------------------------------------------------------------------
(* Requests that come one at a time.                                       *)

Serial == \A r, s \in Requests : r = s

\* What a request was told of its build still holds at its UPDATE.
CheckHolds == doubled = {} /\ \A r \in Requests : rpc[r] = "checked" => ~InFlight(rjob[r])

\* Nobody else queues an installer, and only an owner marks one running.
LEMMA SerialStep == Serial /\ IInv /\ CheckHolds /\ [Next]_vars => CheckHolds'
<1> SUFFICES ASSUME Serial, IInv, CheckHolds, [Next]_vars PROVE CheckHolds'
  OBVIOUS
<1> USE NoneAssumption DEF CheckHolds, IInv, TypeOK
<1>1. ASSUME UNCHANGED <<doubled, rpc, rjob>>, \A b \in Builds : InFlight(b)' => InFlight(b)
      PROVE  CheckHolds'
  <2> SUFFICES ASSUME NEW r \in Requests, rpc[r] = "checked", InFlight(rjob[r])' PROVE FALSE
    BY <1>1
  <2>1. rjob[r] \in Builds
    BY DEF Coupled
  <2> QED BY <1>1, <2>1
<1>2. CASE BuildStep
  BY <1>1, <1>2 DEF BuildStep, processVars, InFlight
<1>3. ASSUME NEW r \in Requests, Handle(r) PROVE CheckHolds'
  BY <1>3 DEF Handle, CheckInstallerRequest, QueueBuildInstaller, QueueInstallerBuildExecution,
       StepRequest, Serial, InFlight, Coupled
<1>4. ASSUME NEW w \in Workers, Execute(w) PROVE CheckHolds'
  <2>1. job[w] \in Builds /\ InFlight(job[w])
    <3>1. job[w] \in Builds
      BY <1>4 DEF Coupled, Execute, BeginInstaller, BuildInstaller, OpenInstaller, CloseInstaller,
           InstallerError, FinishInstaller, FailInstaller, EndInstaller
    <3> QED BY <3>1 DEF SoleOwner, Owned
  <2>2. UNCHANGED <<doubled, rpc, rjob>>
    BY <1>4 DEF Execute, BeginInstaller, BuildInstaller, OpenInstaller, CloseInstaller,
         InstallerError, FinishInstaller, FailInstaller, EndInstaller, otherVars, requestVars
  <2>3. \A b \in Builds \ {job[w]} : installer'[b] = installer[b]
    BY <1>4, <2>1 DEF Execute, BeginInstaller, BuildInstaller, OpenInstaller, CloseInstaller,
         InstallerError, FinishInstaller, FailInstaller, EndInstaller,
         UpdateBuildInstaller, UpdateBuildInstallerError
  <2> QED BY <1>1, <2>1, <2>2, <2>3 DEF InFlight
<1>5. CASE Startup
  BY <1>1, <1>5 DEF Startup, Restart, FailRunningBuildInstallers, ListQueuedBuildInstallers, Serve,
       RequeueInstallerBuildExecution, startupRest, requestVars, InFlight
<1>6. CASE Crash \/ StartupError
  BY <1>6 DEF Crash, StartupError, GoDown
<1>7. CASE UNCHANGED vars
  BY <1>1, <1>7 DEF vars, processVars, InFlight
<1> QED BY <1>2, <1>3, <1>4, <1>5, <1>6, <1>7 DEF Next

\* What QueueBuildInstaller promises it keeps when there is one request at a time,
\* whatever restarts and failing calls come in between: no installer is ever made
\* twice at once. The race of two requests is the only way to break the promise.
THEOREM OneInstallerIfSerial == Serial /\ Spec => []OneInstallerAtATime
<1>1. Init => CheckHolds
  BY DEF Init, CheckHolds
<1>2. IInv /\ CheckHolds => OneInstallerAtATime
  BY DEF IInv, CheckHolds, TypeOK, SoleOwner, OneInstallerAtATime
<1>3. CASE Serial
  BY <1>1, <1>2, <1>3, SerialStep, Invariance, PTL DEF Spec
<1> QED BY <1>3

=============================================================================
