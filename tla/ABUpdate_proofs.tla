--------------------------- MODULE ABUpdate_proofs ---------------------------
(***************************************************************************)
(* Proofs about ABUpdate, for any number of versions and power losses.     *)
(***************************************************************************)
EXTENDS ABUpdate, TLAPS

-----------------------------------------------------------------------------
(* The inductive invariant.                                                *)

\* What MCDevices says of the update, less the fairness.
UpdateSpec == UpdateInit /\ [][UpdateNext]_updateVars

\* What an update has by each step: the partition it writes is not the running
\* one's, and before it adds an entry there is only that of the running version.
UpdateInStep ==
  /\ update.step = "idle" => ~update.staged
  /\ update.step # "idle" => running # 0 /\ update.target \in ImageVersions
  /\ update.step = "store" => update.slot \in Slots /\ label[update.slot] # running
  /\ update.step = "relabel" => update.slot \in Slots /\ label[update.slot] = 0
  /\ update.step = "install" => label[update.slot] = update.target /\ image[update.slot] = update.target
  /\ update.step \in {"relabel", "install"} => update.slot \in Slots
  /\ update.step \in {"acquire", "relabel", "install"} => entries = {running}

\* There are one or two entries.
TwoEntries == \E a, b \in ImageVersions : entries = {a, b}

\* Until an update overtakes a newer version, the version it begins on is the newest.
NewestInStep ==
  ~overtook => Whole(Newest(entries)) /\ (update.step # "idle" => Newest(entries) = running)

UpdateIInv == UpdateTypeOK /\ UpdateInStep /\ TwoEntries /\ RunningCanBoot /\ NewestInStep

\* Of at most two versions one is the newest.
LEMMA NewestOfTwo ==
  ASSUME NEW a \in Nat, NEW b \in Nat
  PROVE  Newest({a, b}) = IF a <= b THEN b ELSE a
<1> DEFINE m == IF a <= b THEN b ELSE a
           P(v) == \A w \in {a, b} : w <= v
<1>1. m \in {a, b} /\ P(m)
  OBVIOUS
<1>2. Newest({a, b}) \in {a, b} /\ P(Newest({a, b}))
  BY <1>1 DEF Newest
<1> QED BY <1>2

\* So it is of the entries.
LEMMA NewestEntry ==
  ASSUME TwoEntries
  PROVE  Newest(entries) \in entries /\ \A w \in entries : w <= Newest(entries)
<1>1. PICK a, b \in ImageVersions : entries = {a, b}
  BY DEF TwoEntries
<1> QED BY <1>1, NewestOfTwo DEF ImageVersions

-----------------------------------------------------------------------------
(* Each action preserves the invariant.                                    *)

\* An update that overtakes nothing begins on the newest version.
LEMMA StartUpdateInv ==
  ASSUME UpdateIInv, NEW v \in ImageVersions, RunDeltaUpdate(v) \/ RunFullUpdate(v)
  PROVE  UpdateIInv'
<1> USE MaxVersionAssumption, MaxPowerLossAssumption
    DEF UpdateIInv, UpdateTypeOK, RunDeltaUpdate, RunFullUpdate, InactivePartition, UpdateAt, UpdateStep, Disk, Bounds
<1>1. UpdateTypeOK'
  <2>1. update' \in Update
    <3>1. CASE RunDeltaUpdate(v)
      BY <3>1 DEF Update, Slots, ImageVersions
    <3>2. CASE RunFullUpdate(v)
      BY <3>2 DEF Update, Slots, ImageVersions
    <3> QED BY <3>1, <3>2
  <2>2. losses' \in 0..MaxPowerLoss /\ overtook' \in BOOLEAN
    OBVIOUS
  <2>3. label' \in [Slots -> 0..MaxVersion] /\ image' \in [Slots -> 0..MaxVersion]
    BY DEF UpdateInStep, Update, Slots, ImageVersions
  <2>4. entries' \subseteq ImageVersions /\ running' \in 0..MaxVersion
    BY DEF UpdateInStep, Update, ImageVersions
  <2> QED BY <2>1, <2>2, <2>3, <2>4
<1>2. UpdateInStep'
  <2>1. CASE RunDeltaUpdate(v)
    <3>1. PICK s \in Slots : label[s] # running
          /\ update' = [step |-> "store", target |-> v, slot |-> s, staged |-> FALSE]
      BY <2>1
    <3>2. running # 0 /\ running' = running /\ label' = label
      BY <2>1
    <3> QED BY <3>1, <3>2 DEF UpdateInStep
  <2>2. CASE RunFullUpdate(v)
    BY <2>2 DEF UpdateInStep
  <2> QED BY <2>1, <2>2
<1>3. RunningCanBoot'
  BY DEF RunningCanBoot, Whole, UpdateInStep, Slots
<1>4. NewestInStep'
  <2>1. entries' = entries /\ label' = label /\ image' = image /\ running' = running
    OBVIOUS
  <2>2. Newest(entries)' = Newest(entries) /\ Whole(Newest(entries))' = Whole(Newest(entries))
    BY <2>1 DEF Newest, Whole
  <2>3. ~overtook' => ~overtook /\ ~(Newest(entries) > running)
    OBVIOUS
  <2>4. running \in entries /\ running \in Nat
    BY DEF RunningCanBoot
  <2>5. Newest(entries) \in ImageVersions /\ running <= Newest(entries)
    BY <2>4, NewestEntry
  <2>6. ~overtook' => Newest(entries) = running
    BY <2>3, <2>4, <2>5 DEF ImageVersions
  <2> QED BY <2>1, <2>2, <2>3, <2>6 DEF NewestInStep
<1>5. TwoEntries'
  BY DEF TwoEntries
<1> QED BY <1>1, <1>2, <1>3, <1>4, <1>5

\* The partition that is written is not the one that runs.
LEMMA ReconstructInv == ASSUME UpdateIInv, ReconstructNixStore \/ CompressNixStore PROVE UpdateIInv'
<1> USE MaxVersionAssumption, MaxPowerLossAssumption
    DEF UpdateIInv, UpdateTypeOK, ReconstructNixStore, CompressNixStore, UpdateAt, UpdateStep, Disk, Bounds
<1>1. UpdateTypeOK'
  <2>1. update' \in Update
    BY DEF Update, Slots, ImageVersions
  <2>2. losses' \in 0..MaxPowerLoss /\ overtook' \in BOOLEAN
    OBVIOUS
  <2>3. label' \in [Slots -> 0..MaxVersion] /\ image' \in [Slots -> 0..MaxVersion]
    BY DEF UpdateInStep, Update, Slots, ImageVersions
  <2>4. entries' \subseteq ImageVersions /\ running' \in 0..MaxVersion
    BY DEF UpdateInStep, Update, ImageVersions
  <2> QED BY <2>1, <2>2, <2>3, <2>4
<1>2. UpdateInStep'
  BY DEF UpdateInStep, Update, Slots, ImageVersions
<1>3. RunningCanBoot'
  BY DEF RunningCanBoot, Whole, UpdateInStep, Slots
<1>4. NewestInStep'
  BY NewestEntry DEF NewestInStep, TwoEntries, UpdateInStep, RunningCanBoot, Whole, Slots,
      ImageVersions, Update
<1>5. TwoEntries'
  BY DEF TwoEntries
<1> QED BY <1>1, <1>2, <1>3, <1>4, <1>5

\* No disk is written.
LEMMA StageInv == ASSUME UpdateIInv, ReconstructUKI \/ FallBack PROVE UpdateIInv'
<1> USE MaxVersionAssumption, MaxPowerLossAssumption
    DEF UpdateIInv, UpdateTypeOK, ReconstructUKI, FallBack, UpdateAt, UpdateStep, Disk, Bounds
<1>1. UpdateTypeOK'
  <2>1. update' \in Update
    BY DEF Update, Slots, ImageVersions
  <2>2. losses' \in 0..MaxPowerLoss /\ overtook' \in BOOLEAN
    OBVIOUS
  <2>3. label' \in [Slots -> 0..MaxVersion] /\ image' \in [Slots -> 0..MaxVersion]
    BY DEF UpdateInStep, Update, Slots, ImageVersions
  <2>4. entries' \subseteq ImageVersions /\ running' \in 0..MaxVersion
    BY DEF UpdateInStep, Update, ImageVersions
  <2> QED BY <2>1, <2>2, <2>3, <2>4
<1>2. UpdateInStep'
  BY DEF UpdateInStep, Update, Slots, ImageVersions
<1>3. RunningCanBoot'
  BY DEF RunningCanBoot, Whole, UpdateInStep, Slots
<1>4. NewestInStep'
  BY NewestEntry DEF NewestInStep, TwoEntries, UpdateInStep, RunningCanBoot, Whole, Slots,
      ImageVersions, Update
<1>5. TwoEntries'
  BY DEF TwoEntries
<1> QED BY <1>1, <1>2, <1>3, <1>4, <1>5

\* The running version keeps its label.
LEMMA VacuumInv == ASSUME UpdateIInv, AlreadyInstalled \/ VacuumPartition PROVE UpdateIInv'
<1> USE MaxVersionAssumption, MaxPowerLossAssumption
    DEF UpdateIInv, UpdateTypeOK, AlreadyInstalled, VacuumPartition, Finish, NoUpdate, UpdateAt, UpdateStep, Disk, Bounds
<1>1. UpdateTypeOK'
  <2>1. update' \in Update
    <3>1. CASE AlreadyInstalled
      BY <3>1 DEF Update, Slots
    <3>2. CASE VacuumPartition
      BY <3>2 DEF Update
    <3> QED BY <3>1, <3>2
  <2>2. losses' \in 0..MaxPowerLoss /\ overtook' \in BOOLEAN
    OBVIOUS
  <2>3. label' \in [Slots -> 0..MaxVersion] /\ image' \in [Slots -> 0..MaxVersion]
    BY DEF UpdateInStep, Update, Slots, ImageVersions
  <2>4. entries' \subseteq ImageVersions /\ running' \in 0..MaxVersion
    BY DEF UpdateInStep, Update, ImageVersions
  <2> QED BY <2>1, <2>2, <2>3, <2>4
<1>2. UpdateInStep'
  BY DEF UpdateInStep, Update, Slots, ImageVersions
<1>3. RunningCanBoot'
  BY DEF RunningCanBoot, Whole, UpdateInStep, Slots
<1>4. NewestInStep'
  BY NewestEntry DEF NewestInStep, TwoEntries, UpdateInStep, RunningCanBoot, Whole, Slots,
      ImageVersions, Update
<1>5. TwoEntries'
  BY DEF TwoEntries
<1> QED BY <1>1, <1>2, <1>3, <1>4, <1>5

\* The running version keeps its entry, and no other does.
LEMMA VacuumEntryInv == ASSUME UpdateIInv, VacuumEntry PROVE UpdateIInv'
<1> USE MaxVersionAssumption, MaxPowerLossAssumption
    DEF UpdateIInv, UpdateTypeOK, VacuumEntry, UpdateAt, UpdateStep, Disk, Bounds
<1>0. running \in entries /\ entries' = {running}
  BY DEF UpdateInStep, RunningCanBoot
<1>1. UpdateTypeOK'
  <2>1. update' \in Update
    BY DEF Update, Slots, ImageVersions
  <2>2. losses' \in 0..MaxPowerLoss /\ overtook' \in BOOLEAN
    OBVIOUS
  <2>3. label' \in [Slots -> 0..MaxVersion] /\ image' \in [Slots -> 0..MaxVersion]
    BY DEF UpdateInStep, Update, Slots, ImageVersions
  <2>4. entries' \subseteq ImageVersions /\ running' \in 0..MaxVersion
    BY DEF UpdateInStep, Update, ImageVersions
  <2> QED BY <2>1, <2>2, <2>3, <2>4
<1>2. UpdateInStep'
  BY <1>0 DEF UpdateInStep, Update, Slots, ImageVersions
<1>3. RunningCanBoot'
  BY DEF RunningCanBoot, Whole, UpdateInStep, Slots
<1>4. NewestInStep'
  <2>1. Newest(entries') = running
    BY <1>0, NewestOfTwo, entries' = {running, running}
  <2>2. Whole(running)'
    BY DEF Whole, RunningCanBoot, UpdateInStep
  <2> QED BY <2>1, <2>2 DEF NewestInStep, Newest, Whole
<1>5. TwoEntries'
  <2>1. entries' = {running, running} /\ running \in ImageVersions
    BY <1>0
  <2> QED BY <2>1 DEF TwoEntries
<1> QED BY <1>1, <1>2, <1>3, <1>4, <1>5

\* An empty partition is not the one that runs.
LEMMA AcquireInv == ASSUME UpdateIInv, StartAcquire PROVE UpdateIInv'
<1> USE MaxVersionAssumption, MaxPowerLossAssumption
    DEF UpdateIInv, UpdateTypeOK, StartAcquire, UpdateAt, UpdateStep, Disk, Bounds
<1>1. UpdateTypeOK'
  <2>1. update' \in Update
    BY DEF Update, Slots, ImageVersions
  <2>2. losses' \in 0..MaxPowerLoss /\ overtook' \in BOOLEAN
    OBVIOUS
  <2>3. label' \in [Slots -> 0..MaxVersion] /\ image' \in [Slots -> 0..MaxVersion]
    BY DEF UpdateInStep, Update, Slots, ImageVersions
  <2>4. entries' \subseteq ImageVersions /\ running' \in 0..MaxVersion
    BY DEF UpdateInStep, Update, ImageVersions
  <2> QED BY <2>1, <2>2, <2>3, <2>4
<1>2. UpdateInStep'
  BY DEF UpdateInStep, Update, Slots, ImageVersions
<1>3. RunningCanBoot'
  BY DEF RunningCanBoot, Whole, UpdateInStep, Slots
<1>4. NewestInStep'
  BY NewestEntry DEF NewestInStep, TwoEntries, UpdateInStep, RunningCanBoot, Whole, Slots,
      ImageVersions, Update
<1>5. TwoEntries'
  BY DEF TwoEntries
<1> QED BY <1>1, <1>2, <1>3, <1>4, <1>5

\* The new version is whole before it has an entry.
LEMMA InstallPartitionInv == ASSUME UpdateIInv, InstallPartition PROVE UpdateIInv'
<1> USE MaxVersionAssumption, MaxPowerLossAssumption
    DEF UpdateIInv, UpdateTypeOK, InstallPartition, UpdateAt, UpdateStep, Disk, Bounds
<1>1. UpdateTypeOK'
  <2>1. update' \in Update
    BY DEF Update, Slots, ImageVersions
  <2>2. losses' \in 0..MaxPowerLoss /\ overtook' \in BOOLEAN
    OBVIOUS
  <2>3. label' \in [Slots -> 0..MaxVersion] /\ image' \in [Slots -> 0..MaxVersion]
    BY DEF UpdateInStep, Update, Slots, ImageVersions
  <2>4. entries' \subseteq ImageVersions /\ running' \in 0..MaxVersion
    BY DEF UpdateInStep, Update, ImageVersions
  <2> QED BY <2>1, <2>2, <2>3, <2>4
<1>2. UpdateInStep'
  BY DEF UpdateInStep, Update, Slots, ImageVersions
<1>3. RunningCanBoot'
  BY DEF RunningCanBoot, Whole, UpdateInStep, Slots
<1>4. NewestInStep'
  BY NewestEntry DEF NewestInStep, TwoEntries, UpdateInStep, RunningCanBoot, Whole, Slots,
      ImageVersions, Update
<1>5. TwoEntries'
  BY DEF TwoEntries
<1> QED BY <1>1, <1>2, <1>3, <1>4, <1>5

\* The newest of two entries is whole, whichever it is.
LEMMA InstallEntryInv == ASSUME UpdateIInv, InstallEntry PROVE UpdateIInv'
<1> USE MaxVersionAssumption, MaxPowerLossAssumption
    DEF UpdateIInv, UpdateTypeOK, InstallEntry, Finish, NoUpdate, UpdateAt, UpdateStep, Disk, Bounds
<1>0. entries = {running} /\ entries' = {running, update.target} /\ running \in ImageVersions
      /\ update.target \in ImageVersions
  BY DEF UpdateInStep
<1>1. UpdateTypeOK'
  <2>1. update' \in Update
    BY DEF Update, Slots, ImageVersions
  <2>2. losses' \in 0..MaxPowerLoss /\ overtook' \in BOOLEAN
    OBVIOUS
  <2>3. label' \in [Slots -> 0..MaxVersion] /\ image' \in [Slots -> 0..MaxVersion]
    BY DEF UpdateInStep, Update, Slots, ImageVersions
  <2>4. entries' \subseteq ImageVersions /\ running' \in 0..MaxVersion
    BY DEF UpdateInStep, Update, ImageVersions
  <2> QED BY <2>1, <2>2, <2>3, <2>4
<1>2. UpdateInStep'
  BY DEF UpdateInStep, Update, Slots, ImageVersions
<1>3. RunningCanBoot'
  BY DEF RunningCanBoot, Whole, UpdateInStep, Slots
<1>4. NewestInStep'
  <2>1. Newest(entries') \in {running, update.target}
    BY <1>0, NewestOfTwo DEF ImageVersions
  <2>2. Whole(running) /\ Whole(update.target)
    BY DEF Whole, RunningCanBoot, UpdateInStep
  <2>3. Whole(Newest(entries))'
    BY <2>1, <2>2 DEF Whole
  <2> QED BY <2>3 DEF NewestInStep, NoUpdate, Finish
<1>5. TwoEntries'
  BY <1>0 DEF TwoEntries
<1> QED BY <1>1, <1>2, <1>3, <1>4, <1>5

\* What is there stays.
LEMMA SysupdateFailsInv == ASSUME UpdateIInv, SysupdateFails PROVE UpdateIInv'
<1> USE MaxVersionAssumption, MaxPowerLossAssumption
    DEF UpdateIInv, UpdateTypeOK, SysupdateFails, Finish, NoUpdate, UpdateAt, UpdateStep, Disk, Bounds
<1>1. UpdateTypeOK'
  <2>1. update' \in Update
    BY DEF Update, Slots, ImageVersions
  <2>2. losses' \in 0..MaxPowerLoss /\ overtook' \in BOOLEAN
    OBVIOUS
  <2>3. label' \in [Slots -> 0..MaxVersion] /\ image' \in [Slots -> 0..MaxVersion]
    BY DEF UpdateInStep, Update, Slots, ImageVersions
  <2>4. entries' \subseteq ImageVersions /\ running' \in 0..MaxVersion
    BY DEF UpdateInStep, Update, ImageVersions
  <2> QED BY <2>1, <2>2, <2>3, <2>4
<1>2. UpdateInStep'
  BY DEF UpdateInStep, Update, Slots, ImageVersions
<1>3. RunningCanBoot'
  BY DEF RunningCanBoot, Whole, UpdateInStep, Slots
<1>4. NewestInStep'
  BY NewestEntry DEF NewestInStep, TwoEntries, UpdateInStep, RunningCanBoot, Whole, Slots,
      ImageVersions, Update
<1>5. TwoEntries'
  BY DEF TwoEntries
<1> QED BY <1>1, <1>2, <1>3, <1>4, <1>5

\* A machine that goes down takes its update with it, and boots what is whole.
LEMMA MachineInv == ASSUME UpdateIInv, RebootIntoImage \/ PowerLoss \/ Boot PROVE UpdateIInv'
<1> USE MaxVersionAssumption, MaxPowerLossAssumption
    DEF UpdateIInv, UpdateTypeOK, RebootIntoImage, PowerLoss, Boot, NoUpdate, UpdateAt, UpdateStep, Disk, Bounds
<1>1. UpdateTypeOK'
  <2>1. update' \in Update
    <3>1. CASE PowerLoss
      BY <3>1 DEF Update, Slots
    <3>2. CASE RebootIntoImage \/ Boot
      BY <3>2
    <3> QED BY <3>1, <3>2
  <2>2. losses' \in 0..MaxPowerLoss /\ overtook' \in BOOLEAN
    OBVIOUS
  <2>3. label' \in [Slots -> 0..MaxVersion] /\ image' \in [Slots -> 0..MaxVersion]
    BY DEF UpdateInStep, Update, Slots, ImageVersions
  <2>4. entries' \subseteq ImageVersions /\ running' \in 0..MaxVersion
    <3>1. CASE Boot
      BY <3>1 DEF ImageVersions
    <3>2. CASE PowerLoss \/ RebootIntoImage
      <4>1. running' = 0 /\ entries' = entries
        BY <3>2
      <4> QED BY <4>1
    <3> QED BY <3>1, <3>2
  <2> QED BY <2>1, <2>2, <2>3, <2>4
<1>2. UpdateInStep'
  BY DEF UpdateInStep, Update, Slots, ImageVersions
<1>3. RunningCanBoot'
  BY DEF RunningCanBoot, Whole, UpdateInStep, Slots
<1>4. NewestInStep'
  BY NewestEntry DEF NewestInStep, TwoEntries, UpdateInStep, RunningCanBoot, Whole, Slots,
      ImageVersions, Update
<1>5. TwoEntries'
  BY DEF TwoEntries
<1> QED BY <1>1, <1>2, <1>3, <1>4, <1>5

-----------------------------------------------------------------------------
(* The theorems.                                                           *)

\* The device was installed with one version.
LEMMA UpdateInitInv == UpdateInit => UpdateIInv
<1> SUFFICES ASSUME UpdateInit PROVE UpdateIInv
  OBVIOUS
<1> USE MaxVersionAssumption, MaxPowerLossAssumption DEF UpdateInit, NoUpdate
<1>1. UpdateTypeOK
  <2>1. update \in Update /\ losses \in 0..MaxPowerLoss
    BY DEF Update, Slots
  <2>2. label \in [Slots -> 0..MaxVersion] /\ image = label
    OBVIOUS
  <2>3. entries \subseteq ImageVersions /\ running \in 0..MaxVersion
    BY DEF ImageVersions
  <2> QED BY <2>1, <2>2, <2>3 DEF UpdateTypeOK
<1>2. entries = {1, 1} /\ 1 \in ImageVersions
  BY DEF ImageVersions
<1>3. UpdateInStep
  BY DEF UpdateInStep
<1>4. Whole(1)
  BY DEF Whole, Slots
<1>5. Newest(entries) = 1
  BY <1>2, NewestOfTwo
<1> QED BY <1>1, <1>2, <1>3, <1>4, <1>5 DEF UpdateIInv, TwoEntries, RunningCanBoot, NewestInStep

LEMMA UpdateStepInv == UpdateIInv /\ [UpdateNext]_updateVars => UpdateIInv'
<1> SUFFICES ASSUME UpdateIInv, [UpdateNext]_updateVars PROVE UpdateIInv'
  OBVIOUS
<1>1. ASSUME NEW v \in ImageVersions, RunDeltaUpdate(v) \/ RunFullUpdate(v) PROVE UpdateIInv'
  BY <1>1, StartUpdateInv
<1>2. CASE Sysupdate
  BY <1>2, VacuumInv, VacuumEntryInv, AcquireInv, InstallPartitionInv, InstallEntryInv,
        SysupdateFailsInv
     DEF Sysupdate
<1>3. CASE UNCHANGED updateVars
  BY <1>3 DEF updateVars, UpdateIInv, UpdateTypeOK, UpdateInStep, TwoEntries, RunningCanBoot,
        NewestInStep, Whole
<1> QED BY <1>1, <1>2, <1>3, ReconstructInv, StageInv, MachineInv DEF UpdateNext

\* The invariant holds in every reachable state.
LEMMA UpdateInvariance == UpdateSpec => []UpdateIInv
<1> QED BY UpdateInitInv, UpdateStepInv, PTL DEF UpdateSpec

\* Every reachable state is of the declared types.
THEOREM UpdateTyped == UpdateSpec => []UpdateTypeOK
<1>1. UpdateIInv => UpdateTypeOK
  BY DEF UpdateIInv
<1> QED BY <1>1, UpdateInvariance, PTL

\* Wherever an update stops, what runs can be booted again.
THEOREM BootableAgain == UpdateSpec => []RunningCanBoot
<1>1. UpdateIInv => RunningCanBoot
  BY DEF UpdateIInv
<1> QED BY <1>1, UpdateInvariance, PTL

\* The entry the boot loader takes by itself is whole at every moment, unless an
\* update began while a newer version than the running one was installed.
THEOREM NewestIsWhole == UpdateSpec => []NewestEntryIsWhole
<1>1. UpdateIInv => NewestEntryIsWhole
  BY DEF UpdateIInv, NewestInStep, NewestEntryIsWhole
<1> QED BY <1>1, UpdateInvariance, PTL

=============================================================================
