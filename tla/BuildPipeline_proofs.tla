------------------------ MODULE BuildPipeline_proofs ------------------------
(***************************************************************************)
(* Proofs about BuildPipeline, for any set of builds and of goroutines and *)
(* any number of crashes and failing database calls.                       *)
(***************************************************************************)
EXTENDS BuildPipeline, TLAPS

-----------------------------------------------------------------------------
(* The inductive invariant.                                                *)

\* A goroutine that is not idle executes a build.
Coupled == \A w \in Workers : pc[w] = "idle" <=> job[w] = None

\* A goroutine that has not begun finds its build queued, one that has begun
\* finds it running; either may find the row gone.
StageStatus ==
  \A w \in Workers :
    /\ pc[w] = "begin" => status[job[w]] \in {"queued", "deleted"}
    /\ pc[w] \notin {"idle", "begin"} => status[job[w]] \in {"running", "deleted"}

\* What the published directory holds by each stage.
StageProgress ==
  \A w \in Workers :
    LET d == disk[job[w]] IN
    /\ pc[w] \in {"sign", "manifest", "index", "finish"} => d.files = "complete"
    /\ pc[w] \in {"manifest", "index", "finish"} => d.uki = "signed"
    /\ pc[w] \in {"index", "finish"} => d.sums = "signed"
    /\ pc[w] = "finish" => d.index = "signed"

\* A build waiting for its goroutine is still queued, or gone.
QueueStatus == \A b \in accepted \cup todo : status[b] \in {"queued", "deleted"}

\* Who can be about in each phase of the server.
PhaseOrder ==
  /\ server \in {"down", "boot", "list"} => \A w \in Workers : pc[w] = "idle"
  /\ server # "up" => accepted = {}
  /\ server # "spawn" => todo = {}
  /\ server = "list" => \A b \in Builds : status[b] # "running"

\* NoOrphanedBuild, from the moment startup has listed the queued builds.
Accounted ==
  server \in {"spawn", "up"} =>
    \A b \in Builds : status[b] \in {"queued", "running"} => Owned(b) \/ b \in lost

\* The invariants the runs check, and what makes them inductive.
IInv ==
  /\ TypeOK /\ Coupled /\ SoleExecutor /\ StageStatus /\ StageProgress
  /\ QueueStatus /\ PhaseOrder /\ SucceededIsPublished /\ Accounted

-----------------------------------------------------------------------------
\* The invariant holds of an empty database and a server that boots.
LEMMA InitInv == Init => IInv
BY NoneAssumption, BoundAssumption
   DEF Init, IInv, TypeOK, Coupled, SoleExecutor, StageStatus, StageProgress, QueueStatus,
       PhaseOrder, SucceededIsPublished, Accounted, Statuses, Directory, NoDirectory, Bytes,
       Stages, Phases

\* A new row has no executor yet: its goroutine is accepted, or the call was lost.
LEMMA CreateInv == ASSUME IInv, NEW b \in Builds, CreateBuild(b) PROVE IInv'
<1> USE NoneAssumption, BoundAssumption
    DEF IInv, TypeOK, CreateBuild
<1>1. TypeOK'
  BY DEF Statuses, Directory, Bytes, Stages, Phases
<1>2. Coupled' /\ StageProgress'
  BY DEF Coupled, StageProgress
<1>3. SoleExecutor'
  BY DEF SoleExecutor, Coupled, StageStatus, QueueStatus
<1>4. StageStatus'
  BY DEF StageStatus
<1>5. QueueStatus'
  BY DEF QueueStatus
<1>6. PhaseOrder'
  BY DEF PhaseOrder
<1>7. SucceededIsPublished'
  BY DEF SucceededIsPublished
<1>8. Accounted'
  BY DEF Accounted, Owned
<1> QED BY <1>1, <1>2, <1>3, <1>4, <1>5, <1>6, <1>7, <1>8

\* The request hands the build over to a goroutine.
LEMMA QueueInv == ASSUME IInv, NEW b \in Builds, QueueBuildExecution(b) PROVE IInv'
<1> USE NoneAssumption, BoundAssumption
    DEF IInv, TypeOK, QueueBuildExecution, StartGoroutine
<1>1. TypeOK'
  BY DEF Statuses, Directory, Bytes, Stages, Phases
<1>2. SucceededIsPublished'
  BY DEF SucceededIsPublished
<1>3. Coupled'
  BY DEF Coupled
<1>4. SoleExecutor'
  BY DEF SoleExecutor
<1>5. StageStatus'
  BY DEF StageStatus, QueueStatus
<1>6. StageProgress'
  BY DEF StageProgress
<1>7. QueueStatus'
  BY DEF QueueStatus
<1>8. PhaseOrder'
  BY DEF PhaseOrder
<1>9. Accounted'
  BY DEF Accounted, Owned, Coupled
<1> QED BY <1>1, <1>2, <1>3, <1>4, <1>5, <1>6, <1>7, <1>8, <1>9

\* Startup hands a listed build over to a goroutine.
LEMMA RequeueInv == ASSUME IInv, NEW b \in Builds, RequeueBuildExecution(b) PROVE IInv'
<1> USE NoneAssumption, BoundAssumption
    DEF IInv, TypeOK, RequeueBuildExecution, StartGoroutine
<1>1. TypeOK'
  BY DEF Statuses, Directory, Bytes, Stages, Phases
<1>2. SucceededIsPublished'
  BY DEF SucceededIsPublished
<1>3. Coupled'
  BY DEF Coupled
<1>4. SoleExecutor'
  BY DEF SoleExecutor
<1>5. StageStatus'
  BY DEF StageStatus, QueueStatus
<1>6. StageProgress'
  BY DEF StageProgress
<1>7. QueueStatus'
  BY DEF QueueStatus
<1>8. PhaseOrder'
  BY DEF PhaseOrder
<1>9. Accounted'
  BY DEF Accounted, Owned, Coupled
<1> QED BY <1>1, <1>2, <1>3, <1>4, <1>5, <1>6, <1>7, <1>8, <1>9

\* Deleting a row leaves its goroutine to find it gone.
LEMMA DeleteInv == ASSUME IInv, NEW b \in Builds, DeleteBuild(b) PROVE IInv'
<1> USE NoneAssumption, BoundAssumption
    DEF IInv, TypeOK, DeleteBuild
<1>1. TypeOK'
  BY DEF Statuses, Directory, Bytes, Stages, Phases
<1>2. Coupled' /\ SoleExecutor' /\ StageProgress'
  BY DEF Coupled, SoleExecutor, StageProgress
<1>3. StageStatus'
  BY DEF StageStatus
<1>4. QueueStatus'
  BY DEF QueueStatus
<1>5. PhaseOrder'
  BY DEF PhaseOrder
<1>6. SucceededIsPublished'
  BY DEF SucceededIsPublished
<1>7. Accounted'
  BY DEF Accounted, Owned
<1> QED BY <1>1, <1>2, <1>3, <1>4, <1>5, <1>6, <1>7

\* The first UpdateBuild lands, or the goroutine returns and the build is lost.
LEMMA BeginInv == ASSUME IInv, NEW w \in Workers, BeginBuild(w) PROVE IInv'
<1> USE NoneAssumption, BoundAssumption
    DEF IInv, TypeOK, BeginBuild, UpdateBuild, UpdateBuildError, rowVars, Goto, Return
<1>1. TypeOK'
  BY DEF Coupled, Statuses, Directory, Bytes, Stages, Phases
<1>2. Coupled'
  BY DEF Coupled
<1>3. SoleExecutor'
  BY DEF SoleExecutor
<1>4. StageStatus'
  BY DEF StageStatus, Coupled, SoleExecutor
<1>5. StageProgress'
  BY DEF StageProgress
<1>6. QueueStatus'
  BY DEF QueueStatus, SoleExecutor
<1>7. PhaseOrder'
  BY DEF PhaseOrder
<1>8. SucceededIsPublished'
  BY DEF SucceededIsPublished
<1>9. Accounted'
  BY DEF Accounted, Owned
<1> QED BY <1>1, <1>2, <1>3, <1>4, <1>5, <1>6, <1>7, <1>8, <1>9

\* Nothing is written before the build is prepared.
LEMMA PrepareInv == ASSUME IInv, NEW w \in Workers, PrepareBuild(w) PROVE IInv'
<1> USE NoneAssumption, BoundAssumption
    DEF IInv, TypeOK, PrepareBuild, Goto
<1>1. TypeOK'
  BY DEF Statuses, Directory, Bytes, Stages, Phases
<1>2. SoleExecutor' /\ QueueStatus' /\ SucceededIsPublished' /\ Accounted'
  BY DEF SoleExecutor, QueueStatus, SucceededIsPublished, Accounted, Ready, Owned
<1>3. Coupled'
  BY DEF Coupled
<1>4. StageStatus'
  BY DEF StageStatus
<1>5. StageProgress'
  BY DEF StageProgress
<1>6. PhaseOrder'
  BY DEF PhaseOrder
<1> QED BY <1>1, <1>2, <1>3, <1>4, <1>5, <1>6

\* Only a build that is not succeeded has its directory opened for writing.
LEMMA CopyInv == ASSUME IInv, NEW w \in Workers, CopyArtifacts(w) PROVE IInv'
<1> USE NoneAssumption, BoundAssumption
    DEF IInv, TypeOK, CopyArtifacts, Publish, Goto
<1>1. TypeOK'
  BY DEF Statuses, Directory, Bytes, Stages, Phases
<1>2. SoleExecutor' /\ QueueStatus' /\ Accounted'
  BY DEF SoleExecutor, QueueStatus, Accounted, Owned
<1>3. Coupled'
  BY DEF Coupled
<1>4. StageStatus'
  BY DEF StageStatus
<1>5. StageProgress'
  BY DEF StageProgress, SoleExecutor
<1>6. PhaseOrder'
  BY DEF PhaseOrder
<1>7. SucceededIsPublished'
  BY DEF SucceededIsPublished, StageStatus
<1> QED BY <1>1, <1>2, <1>3, <1>4, <1>5, <1>6, <1>7

\* The copies are whole and unsigned.
LEMMA CopiedInv == ASSUME IInv, NEW w \in Workers, CopiedArtifacts(w) PROVE IInv'
<1> USE NoneAssumption, BoundAssumption
    DEF IInv, TypeOK, CopiedArtifacts, Publish, Goto
<1>1. TypeOK'
  BY DEF Statuses, Directory, Bytes, Stages, Phases
<1>2. SoleExecutor' /\ QueueStatus' /\ Accounted'
  BY DEF SoleExecutor, QueueStatus, Accounted, Owned
<1>3. Coupled'
  BY DEF Coupled
<1>4. StageStatus'
  BY DEF StageStatus
<1>5. StageProgress'
  BY DEF StageProgress, Coupled, SoleExecutor
<1>6. PhaseOrder'
  BY DEF PhaseOrder
<1>7. SucceededIsPublished'
  BY DEF SucceededIsPublished, StageStatus
<1> QED BY <1>1, <1>2, <1>3, <1>4, <1>5, <1>6, <1>7

\* The image is signed before the manifest is computed.
LEMMA SignInv == ASSUME IInv, NEW w \in Workers, SignUKI(w) PROVE IInv'
<1> USE NoneAssumption, BoundAssumption
    DEF IInv, TypeOK, SignUKI, Publish, Goto
<1>1. TypeOK'
  BY DEF Statuses, Directory, Bytes, Stages, Phases
<1>2. SoleExecutor' /\ QueueStatus' /\ Accounted'
  BY DEF SoleExecutor, QueueStatus, Accounted, Owned
<1>3. Coupled'
  BY DEF Coupled
<1>4. StageStatus'
  BY DEF StageStatus
<1>5. StageProgress'
  BY DEF StageProgress, Coupled
<1>6. PhaseOrder'
  BY DEF PhaseOrder
<1>7. SucceededIsPublished'
  BY DEF SucceededIsPublished, StageStatus
<1> QED BY <1>1, <1>2, <1>3, <1>4, <1>5, <1>6, <1>7

\* The manifest is computed from the signed image.
LEMMA ManifestInv == ASSUME IInv, NEW w \in Workers, RefreshManifest(w) PROVE IInv'
<1> USE NoneAssumption, BoundAssumption
    DEF IInv, TypeOK, RefreshManifest, Publish, Goto
<1>1. TypeOK'
  BY DEF Statuses, Directory, Bytes, Stages, Phases
<1>2. SoleExecutor' /\ QueueStatus' /\ Accounted'
  BY DEF SoleExecutor, QueueStatus, Accounted, Owned
<1>3. Coupled'
  BY DEF Coupled
<1>4. StageStatus'
  BY DEF StageStatus
<1>5. StageProgress'
  BY DEF StageProgress, Coupled
<1>6. PhaseOrder'
  BY DEF PhaseOrder
<1>7. SucceededIsPublished'
  BY DEF SucceededIsPublished, StageStatus
<1> QED BY <1>1, <1>2, <1>3, <1>4, <1>5, <1>6, <1>7

\* The chunk index is computed from the signed image.
LEMMA IndexInv == ASSUME IInv, NEW w \in Workers, GenerateUKIChunkIndexes(w) PROVE IInv'
<1> USE NoneAssumption, BoundAssumption
    DEF IInv, TypeOK, GenerateUKIChunkIndexes, Publish, Goto
<1>1. TypeOK'
  BY DEF Statuses, Directory, Bytes, Stages, Phases
<1>2. SoleExecutor' /\ QueueStatus' /\ Accounted'
  BY DEF SoleExecutor, QueueStatus, Accounted, Owned
<1>3. Coupled'
  BY DEF Coupled
<1>4. StageStatus'
  BY DEF StageStatus
<1>5. StageProgress'
  BY DEF StageProgress, Coupled
<1>6. PhaseOrder'
  BY DEF PhaseOrder
<1>7. SucceededIsPublished'
  BY DEF SucceededIsPublished, StageStatus
<1> QED BY <1>1, <1>2, <1>3, <1>4, <1>5, <1>6, <1>7

\* An error on the way leaves the directory as it is.
LEMMA ErrorInv == ASSUME IInv, NEW w \in Workers, PipelineError(w) PROVE IInv'
<1> USE NoneAssumption, BoundAssumption
    DEF IInv, TypeOK, PipelineError, Goto
<1>1. TypeOK'
  BY DEF Statuses, Directory, Bytes, Stages, Phases
<1>2. SoleExecutor' /\ QueueStatus' /\ SucceededIsPublished' /\ Accounted'
  BY DEF SoleExecutor, QueueStatus, SucceededIsPublished, Accounted, Ready, Owned
<1>3. Coupled'
  BY DEF Coupled
<1>4. StageStatus'
  BY DEF StageStatus
<1>5. StageProgress'
  BY DEF StageProgress
<1>6. PhaseOrder'
  BY DEF PhaseOrder
<1> QED BY <1>1, <1>2, <1>3, <1>4, <1>5, <1>6

\* The success write comes when the directory is ready, or is lost.
LEMMA FinishInv == ASSUME IInv, NEW w \in Workers, FinishBuild(w) PROVE IInv'
<1> USE NoneAssumption, BoundAssumption
    DEF IInv, TypeOK, FinishBuild, EndBuild, UpdateBuild, UpdateBuildError, rowVars, Return
<1>1. TypeOK'
  BY DEF Coupled, Statuses, Directory, Bytes, Stages, Phases
<1>2. Coupled'
  BY DEF Coupled
<1>3. SoleExecutor'
  BY DEF SoleExecutor
<1>4. StageStatus'
  BY DEF StageStatus, Coupled, SoleExecutor
<1>5. StageProgress'
  BY DEF StageProgress
<1>6. QueueStatus'
  BY DEF QueueStatus, StageStatus
<1>7. PhaseOrder'
  BY DEF PhaseOrder
<1>8. SucceededIsPublished'
  BY DEF SucceededIsPublished, StageProgress, Ready
<1>9. Accounted'
  BY DEF Accounted, Owned
<1> QED BY <1>1, <1>2, <1>3, <1>4, <1>5, <1>6, <1>7, <1>8, <1>9

\* The failure write settles the build, or is lost.
LEMMA FailInv == ASSUME IInv, NEW w \in Workers, FailBuild(w) PROVE IInv'
<1> USE NoneAssumption, BoundAssumption
    DEF IInv, TypeOK, FailBuild, EndBuild, UpdateBuild, UpdateBuildError, rowVars, Return
<1>1. TypeOK'
  BY DEF Coupled, Statuses, Directory, Bytes, Stages, Phases
<1>2. Coupled'
  BY DEF Coupled
<1>3. SoleExecutor'
  BY DEF SoleExecutor
<1>4. StageStatus'
  BY DEF StageStatus, Coupled, SoleExecutor
<1>5. StageProgress'
  BY DEF StageProgress
<1>6. QueueStatus'
  BY DEF QueueStatus, StageStatus
<1>7. PhaseOrder'
  BY DEF PhaseOrder
<1>8. SucceededIsPublished'
  BY DEF SucceededIsPublished
<1>9. Accounted'
  BY DEF Accounted, Owned
<1> QED BY <1>1, <1>2, <1>3, <1>4, <1>5, <1>6, <1>7, <1>8, <1>9

\* A server that goes down takes every owner of a build with it.
LEMMA DownInv == ASSUME IInv, Crash \/ StartupError PROVE IInv'
<1> USE NoneAssumption, BoundAssumption
    DEF IInv, TypeOK, Crash, StartupError
<1>1. TypeOK'
  BY DEF Statuses, Directory, Bytes, Stages, Phases
<1>2. SucceededIsPublished'
  BY DEF SucceededIsPublished
<1>3. Coupled'
  BY DEF Coupled
<1>4. SoleExecutor'
  BY DEF SoleExecutor
<1>5. StageStatus'
  BY DEF StageStatus
<1>6. StageProgress'
  BY DEF StageProgress
<1>7. QueueStatus'
  BY DEF QueueStatus
<1>8. PhaseOrder'
  BY DEF PhaseOrder
<1>9. Accounted'
  BY DEF Accounted
<1> QED BY <1>1, <1>2, <1>3, <1>4, <1>5, <1>6, <1>7, <1>8, <1>9

\* A restarted server has no goroutine.
LEMMA RestartInv == ASSUME IInv, Restart PROVE IInv'
<1> USE NoneAssumption, BoundAssumption
    DEF IInv, TypeOK, Restart
<1>1. TypeOK'
  BY DEF Statuses, Directory, Bytes, Stages, Phases
<1>2. Coupled' /\ SoleExecutor' /\ StageStatus' /\ StageProgress' /\ QueueStatus' /\
      SucceededIsPublished'
  BY DEF Coupled, SoleExecutor, StageStatus, StageProgress, QueueStatus,
       SucceededIsPublished, Ready
<1>3. PhaseOrder'
  BY DEF PhaseOrder
<1>4. Accounted'
  BY DEF Accounted
<1> QED BY <1>1, <1>2, <1>3, <1>4

\* No goroutine runs while FailRunningBuilds settles what was running.
LEMMA FailRunningInv == ASSUME IInv, FailRunningBuilds PROVE IInv'
<1> USE NoneAssumption, BoundAssumption
    DEF IInv, TypeOK, FailRunningBuilds
<1>1. TypeOK'
  BY DEF Statuses, Directory, Bytes, Stages, Phases
<1>2. Coupled' /\ SoleExecutor' /\ StageProgress'
  BY DEF Coupled, SoleExecutor, StageProgress
<1>3. StageStatus'
  BY DEF StageStatus, PhaseOrder
<1>4. QueueStatus'
  BY DEF QueueStatus
<1>5. PhaseOrder'
  BY DEF PhaseOrder
<1>6. SucceededIsPublished'
  BY DEF SucceededIsPublished
<1>7. Accounted'
  BY DEF Accounted
<1> QED BY <1>1, <1>2, <1>3, <1>4, <1>5, <1>6, <1>7

\* The list of queued builds is taken while nobody else owns one.
LEMMA ListInv == ASSUME IInv, ListQueuedBuilds PROVE IInv'
<1> USE NoneAssumption, BoundAssumption
    DEF IInv, TypeOK, ListQueuedBuilds
<1>1. TypeOK'
  BY DEF Statuses, Directory, Bytes, Stages, Phases
<1>2. Coupled' /\ StageStatus' /\ StageProgress' /\ SucceededIsPublished'
  BY DEF Coupled, StageStatus, StageProgress, SucceededIsPublished, Ready
<1>3. SoleExecutor'
  BY DEF SoleExecutor, Coupled, PhaseOrder
<1>4. QueueStatus'
  BY DEF QueueStatus
<1>5. PhaseOrder'
  BY DEF PhaseOrder
<1>6. Accounted'
  BY DEF Accounted, Owned, PhaseOrder
<1> QED BY <1>1, <1>2, <1>3, <1>4, <1>5, <1>6

\* The server serves once every listed build has its goroutine.
LEMMA ServeInv == ASSUME IInv, Serve PROVE IInv'
<1> USE NoneAssumption, BoundAssumption
    DEF IInv, TypeOK, Serve
<1>1. TypeOK'
  BY DEF Statuses, Directory, Bytes, Stages, Phases
<1>2. Coupled' /\ SoleExecutor' /\ StageStatus' /\ StageProgress' /\ QueueStatus' /\
      SucceededIsPublished'
  BY DEF Coupled, SoleExecutor, StageStatus, StageProgress, QueueStatus,
       SucceededIsPublished, Ready
<1>3. PhaseOrder'
  BY DEF PhaseOrder
<1>4. Accounted'
  BY DEF Accounted, Owned
<1> QED BY <1>1, <1>2, <1>3, <1>4

-----------------------------------------------------------------------------
(* BuildPipeline implements BuildLifecycle.                                *)

\* The initial states of the pipeline are those of the lifecycle.
LEMMA InitRefines == Init => Lifecycle!LifecycleInit
BY NoneAssumption DEF Init, Lifecycle!LifecycleInit, NoDirectory, ArtifactOf, Ready, Executing

\* CreateBuild is the lifecycle's Create, whether or not the caller learns of it.
LEMMA CreateRefines ==
  ASSUME IInv, NEW b \in Builds, CreateBuild(b) PROVE Lifecycle!Create(b)
BY DEF IInv, TypeOK, CreateBuild, Lifecycle!Create, Lifecycle!SetStatus, Executing

\* deleteBuildCascade is the lifecycle's Delete.
LEMMA DeleteRefines ==
  ASSUME IInv, NEW b \in Builds, DeleteBuild(b) PROVE Lifecycle!Delete(b)
BY DEF IInv, TypeOK, DeleteBuild, Lifecycle!Delete, Lifecycle!SetStatus, Executing

\* Starting a goroutine is invisible to the readers of a build.
LEMMA SpawnRefines ==
  ASSUME IInv, NEW b \in Builds, QueueBuildExecution(b) \/ RequeueBuildExecution(b)
  PROVE  UNCHANGED Lifecycle!lifecycleVars
BY DEF IInv, TypeOK, QueueBuildExecution, RequeueBuildExecution, StartGoroutine,
       Lifecycle!lifecycleVars, Executing

\* A build starts executing when its goroutine sees its first UpdateBuild succeed.
LEMMA BeginRefines ==
  ASSUME IInv, NEW w \in Workers, BeginBuild(w)
  PROVE  Lifecycle!Start(job[w]) \/ UNCHANGED Lifecycle!lifecycleVars
<1> USE NoneAssumption DEF IInv, TypeOK, Coupled, StageStatus, BeginBuild, Executing
<1>1. job[w] \in Builds
  OBVIOUS
<1>2. CASE UpdateBuild(job[w], "running") /\ Goto(w, "prepare")
  <2>1. Executing' = Executing \cup {job[w]}
    BY <1>1, <1>2 DEF Goto
  <2>2. status[job[w]] = "queued"
    BY <1>2 DEF UpdateBuild
  <2> QED BY <1>1, <1>2, <2>1, <2>2 DEF UpdateBuild, Lifecycle!Start, Lifecycle!SetStatus
<1>3. CASE UpdateBuildError(job[w], "running") /\ Return(w)
  <2>1. Executing' = Executing
    BY <1>1, <1>3 DEF Return
  <2>2. CASE status' = status
    BY <2>1, <2>2 DEF Lifecycle!lifecycleVars
  <2>3. CASE status' # status
    <3>1. status[job[w]] = "queued" /\ status' = [status EXCEPT ![job[w]] = "running"]
      BY <1>3, <2>3 DEF UpdateBuildError, rowVars
    <3> QED BY <1>1, <2>1, <3>1 DEF Lifecycle!Start, Lifecycle!SetStatus
  <2> QED BY <2>2, <2>3
<1> QED BY <1>2, <1>3

\* A step on the directory of one build, by its executor.
LEMMA WriteRefines ==
  ASSUME IInv, NEW w \in Workers, NEW from \in Stages \ {"idle", "begin"},
         NEW d \in Directory, NEW to \in Stages \ {"idle", "begin"}, Publish(w, from, d, to)
  PROVE  Lifecycle!Write(job[w])
<1> USE NoneAssumption DEF IInv, TypeOK, Coupled, Publish, Goto
<1>1. job[w] \in Executing
  BY DEF Executing
<1>2. Executing' = Executing
  BY DEF Executing
<1>3. ArtifactOf(d) \in Lifecycle!Artifacts
  BY DEF ArtifactOf, Lifecycle!Artifacts
<1>4. \A b \in Builds : disk'[b] = IF b = job[w] THEN d ELSE disk[b]
  BY <1>1 DEF Executing
<1>5. [b \in Builds |-> ArtifactOf(disk'[b])]
        = [[b \in Builds |-> ArtifactOf(disk[b])] EXCEPT ![job[w]] = ArtifactOf(d)]
  BY <1>1, <1>4
<1> QED BY <1>1, <1>2, <1>3, <1>5 DEF Lifecycle!Write

\* The goroutine returns, with or without the outcome in the row.
LEMMA ReturnRefines ==
  ASSUME IInv, NEW w \in Workers, FinishBuild(w) \/ FailBuild(w)
  PROVE  \/ Lifecycle!Succeed(job[w]) \/ Lifecycle!Fail({job[w]}) \/ Lifecycle!Stop({job[w]})
<1> USE NoneAssumption
    DEF IInv, TypeOK, Coupled, StageStatus, SoleExecutor, FinishBuild, FailBuild, EndBuild
<1>1. job[w] \in Executing
  BY DEF Executing
<1>2. Executing' = Executing \ {job[w]} /\ disk' = disk
  BY <1>1 DEF Return, Executing
<1>3. CASE status' = status
  BY <1>2, <1>3 DEF Lifecycle!Stop
<1>4. CASE status' # status
  <2>1. status[job[w]] = "running"
    BY <1>4 DEF UpdateBuild, UpdateBuildError, rowVars
  <2>2. CASE FinishBuild(w)
    <3>1. status' = [status EXCEPT ![job[w]] = "succeeded"]
      BY <1>4, <2>2 DEF UpdateBuild, UpdateBuildError, rowVars
    <3>2. Ready(disk[job[w]])
      BY <2>2 DEF StageProgress, Ready
    <3> QED BY <1>1, <1>2, <2>1, <3>1, <3>2
           DEF Lifecycle!Succeed, Lifecycle!SetStatus, ArtifactOf, Executing
  <2>3. CASE FailBuild(w)
    <3>1. status' = [status EXCEPT ![job[w]] = "failed"]
      BY <1>4, <2>3 DEF UpdateBuild, UpdateBuildError, rowVars
    <3> QED BY <1>1, <1>2, <2>1, <3>1 DEF Lifecycle!Fail, Lifecycle!SetStatus, Executing
  <2> QED BY <2>2, <2>3
<1> QED BY <1>3, <1>4

\* Every step of executeBuild is a step of the lifecycle, or none.
LEMMA ExecuteRefines ==
  ASSUME IInv, NEW w \in Workers, Execute(w)
  PROVE  [Lifecycle!LifecycleNext]_(Lifecycle!lifecycleVars)
<1> USE NoneAssumption DEF IInv, TypeOK
<1>1. pc[w] # "idle" => job[w] \in Builds /\ disk[job[w]] \in Directory
  BY DEF Coupled
<1>2. CASE BeginBuild(w)
  BY <1>1, <1>2, BeginRefines DEF BeginBuild, Lifecycle!LifecycleNext
<1>3. CASE PrepareBuild(w) \/ PipelineError(w)
  BY <1>1, <1>3 DEF PrepareBuild, PipelineError, Goto, Lifecycle!lifecycleVars, Executing
<1>4. ASSUME NEW from \in Stages \ {"idle", "begin"}, NEW d \in Directory,
             NEW to \in Stages \ {"idle", "begin"}, Publish(w, from, d, to)
      PROVE  Lifecycle!LifecycleNext
  <2>1. job[w] \in Builds
    BY <1>1, <1>4 DEF Publish
  <2> QED BY <1>4, <2>1, WriteRefines DEF Lifecycle!LifecycleNext
<1>5. CASE CopyArtifacts(w)
  BY <1>1, <1>4, <1>5 DEF CopyArtifacts, Publish, Directory, Stages
<1>6. CASE CopiedArtifacts(w)
  BY <1>1, <1>4, <1>6 DEF CopiedArtifacts, Publish, Directory, Bytes, Stages
<1>7. CASE SignUKI(w)
  BY <1>1, <1>4, <1>7 DEF SignUKI, Publish, Directory, Bytes, Stages
<1>8. CASE RefreshManifest(w)
  BY <1>1, <1>4, <1>8 DEF RefreshManifest, Publish, Directory, Stages
<1>9. CASE GenerateUKIChunkIndexes(w)
  BY <1>1, <1>4, <1>9 DEF GenerateUKIChunkIndexes, Publish, Directory, Stages
<1>10. CASE FinishBuild(w) \/ FailBuild(w)
  BY <1>1, <1>10, ReturnRefines DEF FinishBuild, FailBuild, EndBuild, Lifecycle!LifecycleNext
<1> QED BY <1>2, <1>3, <1>5, <1>6, <1>7, <1>8, <1>9, <1>10 DEF Execute

\* A crash stops every executor; the restart fails what they left running.
LEMMA ServerRefines ==
  ASSUME IInv, Startup \/ Crash \/ StartupError
  PROVE  [Lifecycle!LifecycleNext]_(Lifecycle!lifecycleVars)
<1> USE NoneAssumption DEF IInv, TypeOK
<1>1. CASE Crash \/ StartupError
  <2>1. Executing' = {} /\ status' = status /\ disk' = disk
    BY <1>1 DEF Crash, StartupError, Executing
  <2>2. Lifecycle!Stop(Builds)
    BY <2>1 DEF Lifecycle!Stop, Executing
  <2> QED BY <2>2 DEF Lifecycle!LifecycleNext
<1>2. CASE FailRunningBuilds
  <2> DEFINE R == {b \in Builds : status[b] = "running"}
  <2>1. Executing = {} /\ Executing' = {}
    BY <1>2 DEF FailRunningBuilds, PhaseOrder, Executing
  <2>2. Lifecycle!Fail(R)
    BY <1>2, <2>1 DEF FailRunningBuilds, Lifecycle!Fail, Lifecycle!SetStatus
  <2> QED BY <2>2 DEF Lifecycle!LifecycleNext
<1>3. CASE Restart \/ ListQueuedBuilds \/ Serve
  BY <1>3 DEF Restart, ListQueuedBuilds, Serve, Lifecycle!lifecycleVars, Executing
<1>4. CASE \E b \in Builds : RequeueBuildExecution(b)
  BY <1>4, SpawnRefines
<1> QED BY <1>1, <1>2, <1>3, <1>4 DEF Startup

-----------------------------------------------------------------------------
(* The theorems.                                                           *)

\* Every step of the pipeline keeps the invariant.
LEMMA StepInv == IInv /\ [Next]_vars => IInv'
<1> SUFFICES ASSUME IInv, [Next]_vars PROVE IInv'
  OBVIOUS
<1>1. ASSUME NEW b \in Builds, Request(b) PROVE IInv'
  BY <1>1, CreateInv, QueueInv, DeleteInv DEF Request
<1>2. ASSUME NEW w \in Workers, Execute(w) PROVE IInv'
  BY <1>2, BeginInv, PrepareInv, CopyInv, CopiedInv, SignInv, ManifestInv, IndexInv,
     ErrorInv, FinishInv, FailInv DEF Execute
<1>3. CASE Startup
  BY <1>3, RestartInv, FailRunningInv, ListInv, ServeInv, RequeueInv DEF Startup
<1>4. CASE Crash \/ StartupError
  BY <1>4, DownInv
<1>5. CASE UNCHANGED vars
  BY <1>5 DEF vars, IInv, TypeOK, Coupled, SoleExecutor, StageStatus, StageProgress, QueueStatus,
              PhaseOrder, SucceededIsPublished, Accounted, Ready, Owned
<1> QED BY <1>1, <1>2, <1>3, <1>4, <1>5 DEF Next

\* The invariant holds in every reachable state.
LEMMA Invariance == Spec => []IInv
<1> QED BY InitInv, StepInv, PTL DEF Spec

\* Every reachable state is of the declared types.
THEOREM TypeCorrect == Spec => []TypeOK
<1>1. IInv => TypeOK
  BY DEF IInv
<1> QED BY <1>1, Invariance, PTL

\* No build ever has two executors: CreateBuild's own goroutine and the one
\* RecoverQueuedBuildExecutions starts never meet, in any run of the server.
THEOREM OneExecutor == Spec => []SoleExecutor
<1>1. IInv => SoleExecutor
  BY DEF IInv
<1> QED BY <1>1, Invariance, PTL

\* A build that says succeeded is published whole, signed and indexed.
THEOREM Published == Spec => []SucceededIsPublished
<1>1. IInv => SucceededIsPublished
  BY DEF IInv
<1> QED BY <1>1, Invariance, PTL

\* A serving server accounts for every build it shows as queued or running.
THEOREM NoOrphans == Spec => []NoOrphanedBuild
<1>1. IInv => NoOrphanedBuild
  BY DEF IInv, Accounted, NoOrphanedBuild
<1> QED BY <1>1, Invariance, PTL

\* Every step of the pipeline is a step of the build lifecycle, or none.
LEMMA StepRefines ==
  IInv /\ [Next]_vars => [Lifecycle!LifecycleNext]_(Lifecycle!lifecycleVars)
<1> SUFFICES ASSUME IInv, [Next]_vars
             PROVE  [Lifecycle!LifecycleNext]_(Lifecycle!lifecycleVars)
  OBVIOUS
<1>1. ASSUME NEW b \in Builds, Request(b)
      PROVE  [Lifecycle!LifecycleNext]_(Lifecycle!lifecycleVars)
  BY <1>1, CreateRefines, DeleteRefines, SpawnRefines DEF Request, Lifecycle!LifecycleNext
<1>2. CASE UNCHANGED vars
  BY <1>2 DEF vars, Lifecycle!lifecycleVars, Executing
<1> QED BY <1>1, <1>2, ExecuteRefines, ServerRefines DEF Next

\* The pipeline implements the lifecycle that the modules of releases, rollouts
\* and installers take the steps of.
THEOREM Implementation == Spec => ImplementsLifecycle
<1> QED BY InitRefines, StepRefines, Invariance, PTL
    DEF Spec, ImplementsLifecycle, Lifecycle!LifecycleSpec

\* Nothing that settled is taken up again: a step of the pipeline neither moves
\* a succeeded or failed build to anything but deleted, nor touches the
\* directory of a succeeded one.
THEOREM SettledIsFinal == Spec => TerminalIsFinal
<1> DEFINE Final == \A b \in Builds :
      /\ status[b] = "succeeded" => status'[b] \in {"succeeded", "deleted"} /\ disk'[b] = disk[b]
      /\ status[b] = "failed" => status'[b] \in {"failed", "deleted"}
<1>1. ASSUME IInv, Next PROVE Final
  <2> USE <1>1, NoneAssumption DEF IInv, TypeOK
  <2>1. CASE \E b \in Builds : Request(b)
    BY <2>1 DEF Request, CreateBuild, QueueBuildExecution, DeleteBuild
  <2>2. ASSUME NEW w \in Workers, Execute(w) PROVE Final
    <3>1. job[w] \in Builds /\ status[job[w]] \in {"queued", "running", "deleted"}
      BY <2>2 DEF Coupled, StageStatus, Execute, BeginBuild, PrepareBuild, CopyArtifacts,
           CopiedArtifacts, SignUKI, RefreshManifest, GenerateUKIChunkIndexes, Publish,
           PipelineError, FinishBuild, FailBuild, EndBuild, Stages
    <3>2. \A b \in Builds \ {job[w]} : status'[b] = status[b] /\ disk'[b] = disk[b]
      <4>1. status' = status \/ \E s \in Statuses : status' = [status EXCEPT ![job[w]] = s]
        BY <2>2 DEF Execute, BeginBuild, PrepareBuild, CopyArtifacts, CopiedArtifacts, SignUKI,
             RefreshManifest, GenerateUKIChunkIndexes, Publish, PipelineError, FinishBuild,
             FailBuild, EndBuild, UpdateBuild, UpdateBuildError, rowVars, Statuses
      <4>2. disk' = disk \/ \E d : disk' = [disk EXCEPT ![job[w]] = d]
        BY <2>2 DEF Execute, BeginBuild, PrepareBuild, CopyArtifacts, CopiedArtifacts, SignUKI,
             RefreshManifest, GenerateUKIChunkIndexes, Publish, PipelineError, FinishBuild,
             FailBuild, EndBuild
      <4> QED BY <3>1, <4>1, <4>2
    <3> QED BY <3>1, <3>2
  <2>3. CASE Startup \/ Crash \/ StartupError
    BY <2>3 DEF Startup, Restart, FailRunningBuilds, ListQueuedBuilds, Serve,
         RequeueBuildExecution, Crash, StartupError
  <2> QED BY <2>1, <2>2, <2>3 DEF Next
<1>2. ASSUME IInv, [Next]_vars PROVE [Final]_vars
  BY <1>1, <1>2
<1> QED BY <1>2, Invariance, PTL DEF Spec, TerminalIsFinal

=============================================================================
