------------------------------ MODULE ABUpdate ------------------------------
(***************************************************************************)
(* A device installs a version: the delta updater reconstructs the image   *)
(* in the nix-store partition that does not run, stages it, and has        *)
(* systemd-sysupdate install it from there; when that fails, sysupdate     *)
(* downloads it whole. systemd-sysupdate and the boot loader are external. *)
(* Power may fail between any two steps.                                   *)
(***************************************************************************)
EXTENDS FiniteSets, Naturals

CONSTANTS
  MaxVersion,       \* bound: versions are 1..MaxVersion
  MaxPowerLoss      \* bound: how often power fails

ASSUME MaxVersionAssumption == MaxVersion \in Nat \ {0}
ASSUME MaxPowerLossAssumption == MaxPowerLoss \in Nat

VARIABLES
  label,      \* of each of the two partitions: a version, 0 for "_empty"
  image,      \* what each holds: a version, 0 for anything else
  entries,    \* the versions whose UKI is in /boot/EFI/Linux
  running,    \* IMAGE_VERSION of what runs, 0 while the machine is down
  update,     \* the update the worker runs
  losses,     \* how often power failed
  overtook    \* history: an update began while a newer version than the running one was installed

updateVars == <<label, image, entries, running, update, losses, overtook>>

ImageVersions == 1..MaxVersion
Slots == {"A", "B"}

\* staged: what the staging directory holds for sysupdate, if anything.
Update == [step : {"idle", "store", "uki", "vacuum", "vacuumEntry", "acquire", "relabel", "install"},
           target : 0..MaxVersion, slot : Slots \cup {"none"}, staged : BOOLEAN]
NoUpdate == [step |-> "idle", target |-> 0, slot |-> "none", staged |-> FALSE]

\* The device was installed with the first version.
UpdateInit ==
  /\ label = [s \in Slots |-> IF s = "A" THEN 1 ELSE 0]
  /\ image = label
  /\ entries = {1} /\ running = 1
  /\ update = NoUpdate /\ losses = 0 /\ overtook = FALSE

Disk == <<label, image, entries>>
Bounds == <<losses, overtook>>

Newest(S) == CHOOSE v \in S : \A w \in S : w <= v
Whole(v) == \E s \in Slots : label[s] = v /\ image[s] = v

UpdateStep(to) == update' = [update EXCEPT !.step = to]
UpdateAt(step) == running # 0 /\ update.step = step

-----------------------------------------------------------------------------
(* fleeti-update.                                                          *)

\* Mutant: the first partition is the one to write to.
FirstPartition == {s \in Slots : s = "A"}

\* Every partition but the one labelled for the running version; there must be one.
InactivePartition == {s \in Slots : label[s] # running}

\* A target other than what runs. The staging directory is cleaned, the index of
\* the image is downloaded, and the active partition found, to seed from.
RunDeltaUpdate(v) ==
  /\ UpdateAt("idle") /\ v # running
  /\ \E s \in InactivePartition :
       /\ Cardinality(InactivePartition) = 1 /\ \E a \in Slots : label[a] = running
       /\ update' = [step |-> "store", target |-> v, slot |-> s, staged |-> FALSE]
  /\ overtook' = (overtook \/ Newest(entries) > running)
  /\ UNCHANGED <<Disk, running, losses>>

\* desync extract begins to write the partition, under whatever label it has.
ReconstructNixStore ==
  /\ UpdateAt("store") /\ image[update.slot] # 0
  /\ image' = [image EXCEPT ![update.slot] = 0]
  /\ UNCHANGED <<label, entries, running, update, Bounds>>

\* It has written the image, which is compressed into the staging directory.
CompressNixStore ==
  /\ UpdateAt("store") /\ image[update.slot] = 0
  /\ image' = [image EXCEPT ![update.slot] = update.target]
  /\ UpdateStep("uki")
  /\ UNCHANGED <<label, entries, running, Bounds>>

\* The UKI, seeded from that of the running version; then the manifest.
ReconstructUKI ==
  /\ UpdateAt("uki") /\ running \in entries
  /\ update' = [update EXCEPT !.step = "vacuum", !.staged = TRUE]
  /\ UNCHANGED <<Disk, running, Bounds>>

\* A step of the delta update fails, or it takes too long: the worker goes on
\* with run_full_update.
FallBack ==
  /\ running # 0 /\ (update.step \in {"store", "uki"} \/ update.staged)
  /\ update' = [update EXCEPT !.step = "vacuum", !.staged = FALSE]
  /\ UNCHANGED <<Disk, running, Bounds>>

\* The full update of a device without fleeti-update, or one with two partitions
\* to choose from.
RunFullUpdate(v) ==
  /\ UpdateAt("idle") /\ v # running
  /\ update' = [step |-> "vacuum", target |-> v, slot |-> "none", staged |-> FALSE]
  /\ overtook' = (overtook \/ Newest(entries) > running)
  /\ UNCHANGED <<Disk, running, losses>>

-----------------------------------------------------------------------------
(* External: systemd-sysupdate with the transfers 10-nix-store and           *)
(* 20-boot-image, InstancesMax=2 and ProtectVersion=%A.                      *)

Installed == {v \in ImageVersions : (\E s \in Slots : label[s] = v) /\ v \in entries}
Finish == update' = NoUpdate

\* A version that is installed already is left as it is.
AlreadyInstalled ==
  /\ UpdateAt("vacuum") /\ update.target \in Installed
  /\ Finish /\ UNCHANGED <<Disk, running, Bounds>>

\* Of two labelled partitions the one of the older version that is not protected
\* becomes _empty,
VacuumPartition ==
  /\ UpdateAt("vacuum") /\ update.target \notin Installed
  /\ label' = [s \in Slots |-> IF label[s] = running THEN running ELSE 0]
  /\ UpdateStep("vacuumEntry")
  /\ UNCHANGED <<image, entries, running, Bounds>>

\* and its UKI goes.
VacuumEntry ==
  /\ UpdateAt("vacuumEntry")
  /\ entries' = entries \cap {running}
  /\ UpdateStep("acquire")
  /\ UNCHANGED <<label, image, running, Bounds>>

\* An empty partition is written,
StartAcquire ==
  /\ UpdateAt("acquire")
  /\ \E s \in Slots :
       /\ label[s] = 0
       /\ image' = [image EXCEPT ![s] = 0]
       /\ update' = [update EXCEPT !.step = "relabel", !.slot = s]
  /\ UNCHANGED <<label, entries, running, Bounds>>

\* Mutant: the boot image is the first transfer.
InstallEntryFirst ==
  /\ UpdateAt("relabel")
  /\ entries' = entries \cup {update.target}
  /\ UpdateStep("install")
  /\ UNCHANGED <<label, image, running, Bounds>>

\* and when both transfers are complete it gets its label,
InstallPartition ==
  /\ UpdateAt("relabel")
  /\ image' = [image EXCEPT ![update.slot] = update.target]
  /\ label' = [label EXCEPT ![update.slot] = update.target]
  /\ UpdateStep("install")
  /\ UNCHANGED <<entries, running, Bounds>>

\* and the UKI its name.
InstallEntry ==
  /\ UpdateAt("install")
  /\ entries' = entries \cup {update.target}
  /\ Finish /\ UNCHANGED <<label, image, running, Bounds>>

\* sysupdate fails: the full update has no other way.
SysupdateFails ==
  /\ running # 0 /\ update.step \in {"vacuum", "vacuumEntry", "acquire", "relabel", "install"}
  /\ ~update.staged
  /\ Finish /\ UNCHANGED <<Disk, running, Bounds>>

-----------------------------------------------------------------------------
(* The machine.                                                            *)

RebootIntoImage == UpdateAt("idle") /\ running' = 0 /\ UNCHANGED <<Disk, update, Bounds>>

PowerLoss ==
  /\ running # 0 /\ losses < MaxPowerLoss
  /\ running' = 0 /\ update' = NoUpdate
  /\ losses' = losses + 1 /\ UNCHANGED <<Disk, overtook>>

\* The boot loader takes the newest entry; somebody at the machine may take another.
Boot ==
  /\ running = 0
  /\ \E v \in entries : Whole(v) /\ running' = v
  /\ UNCHANGED <<Disk, update, Bounds>>

Sysupdate ==
  \/ AlreadyInstalled \/ VacuumPartition \/ VacuumEntry \/ StartAcquire
  \/ InstallPartition \/ InstallEntry \/ SysupdateFails
UpdateNext ==
  \/ \E v \in ImageVersions : RunDeltaUpdate(v) \/ RunFullUpdate(v)
  \/ ReconstructNixStore \/ CompressNixStore \/ ReconstructUKI \/ FallBack
  \/ Sysupdate
  \/ RebootIntoImage \/ PowerLoss \/ Boot

-----------------------------------------------------------------------------
\* Types of the state above.
UpdateTypeOK ==
  /\ label \in [Slots -> 0..MaxVersion] /\ image \in [Slots -> 0..MaxVersion]
  /\ entries \subseteq ImageVersions /\ running \in 0..MaxVersion
  /\ update \in Update /\ losses \in 0..MaxPowerLoss /\ overtook \in BOOLEAN

\* What runs can be booted again: its partition is whole and its UKI is there,
\* wherever the update that runs stops. About inactive_partition and
\* ProtectVersion=%A.
RunningCanBoot == running # 0 => running \in entries /\ Whole(running)

\* The entry the boot loader takes by itself is whole at every moment, so that a
\* power loss does not leave the device down, unless an update began while a newer
\* version than the running one waited for its reboot: reconstruct_nix_store then
\* writes the partition of the newest entry under that entry. About the order of
\* reconstruct_nix_store, apply and the two transfers.
NewestEntryIsWhole == ~overtook => Whole(Newest(entries))

=============================================================================
