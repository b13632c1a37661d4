# A formal model of Fleeti

Fleeti builds NixOS images for fleets of laptops, publishes them as releases,
rolls the releases out and talks to an agent on every device. This directory
holds TLA+ modules of its control plane, the TLC configurations that check them
on small instances, and TLAPS proofs about the core. Paths below are relative to
the repository.

## 1. Inventory

| Part | State | Operations | What makes it correct |
|---|---|---|---|
| Update builds: `routes/build_pipeline.go`, `db/models.go`, `nixos/sign-secure-boot.sh`, `cmd/web.go` | `builds.status`, `updates/artifacts/<build id>`, one goroutine per build | `CreateBuild`, `executeBuild`, `deleteBuildCascade`, `FailRunningBuilds`, `RecoverQueuedBuildExecutions` | one executor per build; *succeeded* means published, signed and indexed; every build settles |
| Installer images: same files | `builds.installer_status`, one image per build, one goroutine per installer | `QueueBuildInstaller`, `executeInstallerBuild`, recovery at startup | one writer per image; *succeeded* means whole; only for a succeeded build |
| Releases and rollouts: `routes/build_pipeline.go`, `routes/dashboard.go` | `releases`, `rollouts`, `updates/<fleet id>`, `devices.desired_release_id` | `CreateProfileRelease`, `createAndActivateRollout`, the cascades of deletes | devices are served one release's whole file set, the one they are pointed at |
| Update artifact server: `routes/update_artifacts.go` | none of its own | serves the fleet's directory and its `SHA256SUMS` | the manifest describes the files beside it |
| Build logs: `routes/build_logs.go` | chunks in the database, a buffer in the writer, a cursor in each page | append, page, poll | a page that is told the build ended has shown every chunk, once and in order |
| Profiles, fleets, revisions: `db/models.go`, `routes/dashboard.go`, `routes/api_profiles.go`, `routes/profile_wizard.go` | profiles and their revisions, fleets, builds, releases, rollouts, devices; the wizard's draft in the session | read the whole profile, change a part, write the whole back; delete through the tables | an edit does not touch parts it is not about, but for those saved since it was read; a deletion that nobody disturbs gets through the foreign keys |
| Resource permissions: `db/resource_permissions.go` | who owns or may see a resource | check, then mutate | access that changes in between does no harm to rows |
| Enrolment and tokens: `db/devices.go`, `routes/api_devices.go` | pairing codes, devices, tokens | start, claim, poll, authenticate | the agent's token is the device's only one; a lost reply can be repeated; a code on the screen can be claimed |
| Device commands: `db/devices.go`, `fleeti-admind.py` | a status per command, the agent's loop and update thread | queue, poll, acknowledge, execute, report | every command is taken up; what is shown as succeeded was done; results do not change |
| Attestation: `routes/attestation.go`, `db/attestation.go` | attestation key, nonce, pending quote, golden values, trust | register, telemetry, trust, reset | *attested* follows a quote that matches what an administrator trusted; an honest device comes to be attested |
| Accounts: `db/auth.go`, `db/user_invites.go`, `routes/users.go`, `routes/security.go`, `routes/webauthn.go`, `db/session.go` | users, invites, passkeys, sessions | bootstrap, invite, recover, sign in, delete | exactly one administrator; an invite serves once and its user; always a passkey |
| Secure Boot material: `routes/secureboot.go` | key, certificate and GUID files per profile | generate once, read | the three files belong together, and do so for every build |
| Rate limiter: `routes/api_devices.go` | one window per client under a lock | allow | how many calls an interval may see |
| Device update: `fleeti-update.py` | A/B slots, boot entries, a staging directory | rebuild, stage, apply, fall back | what runs can be booted again; the newest entry is whole |
| Molthouse services: `molthoused.py`, `molthouse-manager.py`, `openclaw-mountd.py` | virtual machines and their shares behind one daemon | share, mount, start, stop | configuration on disk agrees with what is mounted |
| Nix translation, package search, templates, migrations, installer script | caches | forms and text generation | sequential; no property of interleaving |

How the parts interact: an HTTP request inserts a build row and then starts a
goroutine; the two have the row in common and nothing else. The goroutine calls
`nix`, `sign-secure-boot.sh` and `desync`, and changes the row with unconditional
`UPDATE ... WHERE id` statements. Releases and installers look at the row;
rollouts copy the published directory to the fleet's. Devices download from there
and poll the device API. Nothing but the database, a directory and the order of
statements coordinates these: the server has no job queue, and the build pipeline
and the rollouts take no lock.

Elsewhere the pattern is the same: a handler checks in one statement and acts in
another, with no transaction around the two (deletions, passkeys, attestation), or
reads a row whole and writes it back whole (profiles, sessions). Transactions are
short: a claim, a poll, a registration, a save. The agent on a device talks to the
server with single requests whose replies it may lose, keeps a small state file,
and is started again by systemd whenever it dies.

What is hard: two actors on one row between a SELECT and an UPDATE; the crash or
the cancelled request between two statements; a call that commits and still
reports an error; files replaced while they are read; who is left responsible for
a row after each of these. `PROJECT.json` lists them at their lines.

## 2. Modules

    BuildLifecycle        what a build promises to the rest        (abstract)
      ^  implemented by (checked by TLC, proved)
    BuildPipeline         requests, goroutines, signing, recovery  (detailed)
      BuildPipeline_proofs, MCBuildPipeline
    InstallerPipeline     EXTENDS BuildLifecycle as its environment
      InstallerPipeline_proofs, MCInstallerPipeline
    FleetRollout          EXTENDS BuildLifecycle as its environment
      FleetRollout_proofs, MCFleetRollout

    DeviceCommands  DeviceEnrollment  Attestation  RateLimiter  ABUpdate      -> MCDevices
      Devices_proofs (commands and pairing), Attestation_proofs, ABUpdate_proofs
    Accounts  Profiles  SecureBootMaterial  BuildLogs                         -> MCControlPlane
      Accounts_proofs, ControlPlane_proofs (the other three)

`BuildLifecycle` is the interface: the status of a build, the state of its
directory (none, partial, ready) and the set of builds with an executor that may
still write. `InstallerPipeline` and `FleetRollout` let the builds take any step
of it (`BuildStep`), so what they show holds for every implementation of
`BuildLifecycle`, and `BuildPipeline` is proved to be one.

### BuildPipeline

One step is one database statement or one visible change of the published
directory.

| Model | Code |
|---|---|
| `status[b]` | `builds.status`, *absent* before the INSERT, *deleted* after the DELETE; a row is never inserted twice (UUIDs) |
| `CreateBuild` | `db.CreateBuild`; its guard is the partial unique index over revision, fleet and version of builds that are queued, running or succeeded (`KeyOf`); the request may be told of an error after the commit |
| `accepted`, `QueueBuildExecution` | the request between the INSERT and `go executeBuild` |
| `pc[w]`, `job[w]` | the goroutine's place in `executeBuild` and `runBuildAndPublishUpdate`, and its build |
| `UpdateBuild`, `UpdateBuildError` | `db.UpdateBuild`: by id only, whatever the old status; an error is either *no row* or a failed call, which may have committed |
| `disk[b]` | `updates/artifacts/<build id>`: which files are there, whether the boot image is signed, and which image the manifest and the chunk index were computed from |
| `CopyArtifacts` ... `GenerateUKIChunkIndexes` | `publishBuildArtifacts` (truncate and copy in place), `sign_update_package` (images, then manifest), `generateUKIChunkIndexes` |
| `PipelineError` | every error return of `runBuildAndPublishUpdate`, and the `recover` of `executeBuild` |
| `server`, `Restart` ... `Serve` | `start` in `cmd/web.go`: fail running builds, list the queued ones, start one goroutine each, listen; any error ends the process |
| `Crash` | the end of the process: goroutines and requests are gone, rows and files stay |

The workspace, the evaluation of the profile and the `nix build` come before the
first visible write and are one step that may fail; what they compute is not
modelled. The `installer` columns are in `InstallerPipeline`.

### InstallerPipeline

`QueueBuildInstaller` is a SELECT, a DELETE of old log chunks and an UPDATE in no
transaction, so it is two actions (`CheckInstallerRequest`,
`QueueBuildInstaller`) of a request `r`, and two requests interleave between
them. `iso[b]` says whether the published image is missing, being written, mixed
from two writers, or whole. The history variable `doubled` holds the builds whose
installer was queued while one was in flight: the safety properties hold for all
the others, and `OneInstallerAtATime` shows that the set does not stay empty.

### FleetRollout

One fleet with at least one device. A rollout is one request: read the release,
insert the row, stage a copy in a temporary directory, `os.RemoveAll`,
`os.Rename`, set the desired release, mark the row completed, or failed after
any error. `os.RemoveAll` is three steps (open, unlink, rmdir), since another
rollout may rename its directory into place between them; `clearing[i]` is the
directory that was opened. `Disconnect` cancels the request's context: every
later database call of that request fails, among them the one that would mark
the rollout failed, while file operations go on. Rows are deleted under the
foreign keys of the schema (RESTRICT for rollouts of a release and releases of a
build, SET NULL for the desired release); a cascade is a sequence of such deletes
and may stop anywhere.

### The components at a device's side

`MCDevices` and `MCControlPlane` each put several components beside each other.
These share no state: the tables a component writes are read by no other of the
same module (where they touch, the other's writes are actions of the module, such
as `RevokeToken` and `DeleteDevice` in `DeviceCommands`, which are what a claim and
a deletion of `DeviceEnrollment` do to commands). Every invariant is about one
component, so a variable `part`, chosen at the start, lets one of them move in a
behaviour and the checker explores the sum of their state spaces in place of the
product; a step of the others would change nothing the invariant speaks of.

**DeviceCommands.** `command[c]` is the row's status; `loop`, `hand` are the main
loop of the agent and `worker`, `job` its update thread, `request` the file a local
administrator's request leaves. What `post_json` catches decides the shape: a
request that was not sent is an error its callers log, a reply that does not come
raises an exception nobody catches, which ends the thread, and in the main loop the
process, while the request may still be processed (`late`). `MarkDeviceCommandResult`
puts any status over any other. History variables say which commands had a report
that was not processed (`unheard`) or a thread that died with them (`dropped`).

**DeviceEnrollment.** One machine. Requests (`call`) and replies travel apart from
the agent that sent them: one it gave up on may still be processed, in any order
with its retry. `PollEnrollment` locks the row of the code and commits with the token it issues;
its two actions are the reading of the count and the rest, between which the use of
a token (a statement of another request, not under the lock) may fall.
`StoredTokenIsSole` excepts behaviours in which a poll the agent gave up on issued a
token (`stray`): such a poll deletes the unused token that its retry has delivered,
and the machine must be paired again.

**Attestation.** One device, two requests at a time, one statement of a handler a
step: `handleTelemetryAttestation` checks the quote against a nonce it has read,
consults trust, the pending quote and the golden values, and writes its verdict and
the next nonce. Nonces are drawn from a finite set; `boot` is what the firmware has
measured since the last boot. `overtaken` says a reset fell between the checks and
the writes of a request or an approval.

**RateLimiter.** The clock, the map, callers that have read the clock but not
yet taken the lock, and when each client's calls were allowed. A window starts at the
reading of the call that makes it, which is up to `MaxWait` old when the call has the
lock. So the most calls that an interval can see is promised of intervals that are
shorter than a window by `MaxWait`: in a whole window there can be more than two
windows' worth (with windows of 4, a wait of up to 3 and a limit of 2, five calls may be
allowed from 7 to 10, when one call waits with an old reading).

**ABUpdate.** `label` and `image` are the two partitions, `entries` the UKIs in the
ESP, `update` the one update that runs. `systemd-sysupdate` and the boot loader are
external, modelled from the transfers in `nixos/modules/update.nix`
(`InstancesMax=2`, `ProtectVersion=%A`).

### The components of the control plane

**Accounts.** A handler of several statements is a `tab`: it holds the copy of the
session it began with, and writes that copy back at its end over what other tabs
have written. `Setup...` are the pages and ceremonies of `/setup`, `Finalize` its
three transactions. A session keeps `user_is_admin` from the moment it signed in.

**Profiles.** A request reads the profile, holds a copy (`original`, `copy`), and
`UpdateProfileRow` writes all parts, the name among them. A part is a value of two,
which is enough to tell *kept* from *changed*. `stale` are the parts that others saved
in between: `UpdateProfile` has no version check, so such an edit is lost, and
`EditSurvives` is about everything else. Which names and versions are taken is not
modelled: a save that gives a row another name than it has, a new profile, and a build
beside one of the same profile and fleet may each meet the unique key (`Refuse`), as
`uniqueViolation` reports it. A request that brings the name or the version itself is
*refused*; for any other, such as a deletion or an edit of one part that writes an old
name back, it is a failure. Deletions are lists of calls that are left (`calls`), for
each loop over a list that was read before. `quiet` says that nobody wrote to the
tables since the request began. A user of the requests has the fleets and profiles
in `access`; others' grants and revocations interleave.

**SecureBootMaterial** has one step per file and a crash between any two;
**BuildLogs** one step per statement of the writer and of the page's two reads.

## 3. Runs

| Run | Shows | Bounds |
|---|---|---|
| `build_pipeline` | `SoleExecutor`, `SucceededIsPublished`, `NoOrphanedBuild`, `TerminalIsFinal`, and that every step is one of `BuildLifecycle` | 3 builds, two of one key; 3 goroutines; 1 crash; 1 failing call |
| `build_live` | `BuildSettles`, `RestartSettles` under `FairSpec` | 2 builds, 2 goroutines, 1 crash, 1 failing call, no symmetry |
| `installer` | `SucceededInstallerIsWhole`, `InstallerNeedsBuild`, `NoOrphanedInstaller`, and `InstallerSettles` under `FairSpec` | 1 build, 2 requests, 2 goroutines, 3 queued installers |
| `installer_double` | `OneInstallerAtATime` is **violated** | as above |
| `rollout` | `ServedIsReady`, `GapIsTransient`, `DesiredWasActivated`, `SerialRolloutsAgree` | 1 build, 2 releases, 2 rollouts, 1 crash, 1 fault or disconnect |
| `rollout_race` | `QuietFleetAgrees` is **violated** with no failure at all | 2 releases, 2 rollouts |
| `rollout_manifest` | `ManifestNamesFiles` is **violated** by one rollout | 2 releases, 1 rollout |

| `devices` | ten invariants and five temporal properties of the five device components, with the fairness below | 2 commands, 1 fault; 2 codes, 3 tokens, 2 requests, 2 faults; 2 measurements, 5 nonces, 1 fault; 2 clients, 2 callers, 5 ticks; 3 versions, 2 power losses |
| `control_plane` | `OneAdmin`, `InviteServesItsUser`, `NoQuietFailure`, `EditSurvives`, `OneKeyPerProfile`, `LogIsWhole` | 2 users, 2 invites, 3 passkeys, one browser with one handler in several steps; 2 fleets, 2 profiles, 2 builds, 2 requests; 2 goroutines, 3 key generations; 4 log lines in batches of 1 |
| `command_twice` | `PickedUpOnce` is **violated** by one acknowledgement that is not delivered | 2 commands, 1 fault |
| `attest_reset` | `ResetRegistersAgain` is **violated**, under fairness | 1 fault, which is the reset |
| `passkeys` | `KeepsOnePasskey` is **violated** by two requests | 2 handlers |

Why the bounds are enough: builds share only the unique index (two builds of one
key and one of another) and, in the pipeline, the recovery (one crash lets a
build be queued, running or settled at the restart). A second executor would need
one build and two owners, a request's and the recovery's. Two rollouts are the
least that race; a third would need the second to be under way and adds nothing
that two do not show of the two last steps. One fault is enough to break each
statement in turn. There are as many goroutine identifiers as builds in
`build_pipeline`: the code starts a goroutine per build without a limit, and a
model with fewer would make a request wait where the code does not.
`MaxCrashes`, `MaxFaults` and `MaxQueued` cap counters that would make the state
space infinite.

On the device's side a fault (a reply that is lost, a statement that fails, a
revocation, a reset) hits each statement in turn; two requests are the one the agent
waits for and the one it gave up on, which is why two is what its retries can race
with; three tokens let a token be issued, replaced and issued again. Five nonces are
one for each place a nonce can be held at once, so that none is drawn while it is in
use. Three versions let a third be installed over two. In the control plane, one
handler of several steps runs against handlers of one step, and for `Profiles` two
of several steps against each other; the initial tables are every legal one with
three rows of assignments (of a profile to a fleet) and of builds, one build released
and rolled out, among them builds of a fleet the profile has since left. Symmetry is used in the configurations
without temporal properties only. The ids of `Accounts` and `Profiles` have common
names there: the two never move in one behaviour, and so the permutations are of
one set each and TLC has fewer of them.

Deadlock checking is off: a server with all builds settled and
the bounds used up stops.

Each run also checks its module's `TypeOK`, the one type invariant.

### What the violations say

* `installer_double`: two requests both pass the check before either updates the
  row; two goroutines build the installer and truncate the same image.
* `rollout_race`: rollout A renames its directory, B clears and renames its own
  and sets the desired release, then A sets the desired release. Both rows say
  completed; the fleet is served B and pointed at A.
* `rollout_manifest`: a release with a version of its own has its files renamed,
  but `SHA256SUMS`, which `sign_update_package` always writes, is copied as it is
  (`renameArtifactToReleaseVersion` leaves it alone) and `DynamicSHA256SUMS`
  serves the static file when there is one.

* `command_twice`: the acknowledgement fails to be sent, `report_command` logs it,
  `execute_command` goes on, and the next poll returns the command again.
* `attest_reset`: the server forgets the key and the nonce; the agent keeps its own
  nonce, so it never calls `register_attestation`; its next telemetry only brings it
  another nonce. It registers again when the machine is paired again.
* `passkeys`: both requests count two passkeys, then each deletes another one. That is
  the only way: `OnlyTwoDeletionsTakeTheLast` proves that without it every user keeps
  one, through recoveries, additions and deletions of users in between.

Two observations that no violated run records, since the code or a property says
so openly: an update that starts while a newer installed version waits for its
reboot writes the partition of the newest boot entry (the `overtook` of
`NewestEntryIsWhole`; `RunningCanBoot` still holds); and a registration of the
attestation key that fails after telemetry brought a nonce is never repeated
(`QuoteHasKey` names it).

### Fairness

`FairSpec` assumes that goroutines are scheduled and that the commands they run
end (`exec.Command` without a timeout: the code does not guarantee it, and a
hanging `nix build` is listed as a hazard); that a request which inserted its row
goes on to its `go` statement; that somebody restarts the server (a service
manager) and that startup, once begun, reaches its end, which finitely many
crashes and failing calls (the bounds) allow. Nobody is assumed to create, delete
or roll out anything. Liveness excepts the builds in `lost`: a call that failed
leaves the row as it is until the next restart, and `RestartSettles` is what the
restart gives. `FleetRollout` states no liveness: nothing in the code ever ends a
rollout that a crash or a disconnect left in progress.

`MCDevices` assumes that the agent's main loop and its update thread run, that
systemd starts an agent that died, that a machine told to reboot goes down and comes
up, that the server's goroutines run, and that somebody at the machine pairs it again
when it shows a code (`PairAgain`, in `DeviceCommands` only: a command for a device
that is never paired again stays pending). Requests that the agent gave up on need
not be processed, administrators need not act, and faults are bounded, so that the
network is eventually good for long enough. In `DeviceEnrollment` nobody is assumed
to type a code in.

## 4. Proofs

| Module | Theorems, and the run's property each one states | Assumptions on the constants |
|---|---|---|
| `BuildPipeline_proofs` | `TypeCorrect` (`TypeOK`), `OneExecutor` (`SoleExecutor`), `Published` (`SucceededIsPublished`), `NoOrphans` (`NoOrphanedBuild`), `SettledIsFinal` (`TerminalIsFinal`, an action property), `Implementation` (`ImplementsLifecycle`, the refinement) | `None` is no build, every build has a key, the bounds are naturals |
| `InstallerPipeline_proofs` | `TypeCorrect` (`TypeOK`), `InstallerIsWhole` (`SucceededInstallerIsWhole`), `OnlyBuilt` (`InstallerNeedsBuild`), `NoOrphans` (`NoOrphanedInstaller`), `OneInstallerIfSerial` | `None` is no build, the bounds are naturals |
| `FleetRollout_proofs` | `TypeCorrect` (`TypeOK`), `ServedIsWhole` (`ServedIsReady`), `GapsEnd` (`GapIsTransient`), `DesiredWasServed` (`DesiredWasActivated`), `SerialAgreement` (`SerialRolloutsAgree`) | `None` is no build, release, rollout or copy, the bounds are naturals |
| `Devices_proofs` | `CommandsTyped`, `SuccessIsTrue` (`SucceededIsDone`), `AcknowledgementIsTrue` (`AcknowledgedIsHeld`), `ResultsStay` (`ResultIsFinal`, an action property); `EnrollmentTyped`, `SoleToken` (`StoredTokenIsSole`); `AtMostTwoWindows` (`NoIntervalExceedsTwoWindows`); of the composition `ComponentsImplemented`, `DevicesTyped` (`TypeOK`), `DevicesSafe` | `Nobody` is no command, `Nothing` no code, token or call, the bounds are naturals; a limit is at least 1, a wait shorter than a window |
| `Attestation_proofs` | `AttestTyped`, `OnlyTrusted` (`AttestedIsTrusted`), `OnlyGolden` (`AttestedIsGolden`), `QuotesHaveKey` (`QuoteHasKey`) | `Unset` is none of the data, the bound is a natural |
| `ABUpdate_proofs` | `UpdateTyped`, `BootableAgain` (`RunningCanBoot`), `NewestIsWhole` (`NewestEntryIsWhole`) | there is a version, the bound is a natural |
| `Accounts_proofs` | `AccountsTyped`, `OneAdministrator` (`OneAdmin`), `InvitesServe` (`InviteServesItsUser`), `OnlyTwoDeletionsTakeTheLast` (`KeepsOnePasskey`, when no user has two deletions between count and delete) | `Nil` is none of the data |
| `ControlPlane_proofs` | `BootKeyTyped`, `SoleKey` (`OneKeyPerProfile`); `LogsTyped`, `LogShownWhole` (`LogIsWhole`); `ProfilesTyped`, `EditsSurvive` (`EditSurvives`), `QuietRequestsSucceed` (`NoQuietFailure`); of the composition `ComponentsImplemented`, `ControlPlaneTyped` (`TypeOK`), `ControlPlaneSafe` | `None` and `Nobody` are none of the data, a batch holds a line, the bounds are naturals |

All hold for any sets of builds, requests, goroutines, releases, rollouts, commands,
codes, tokens, users, rows, pages and so on, and any number of the crashes, faults and
power losses that the bounds count. The sets need not be finite: a device has no
bound on its commands, and where something new is drawn (a token, a nonce, a row) the
guard is that there is one to draw. The components of `MCDevices` and
`MCControlPlane` are proved about one by one, as the specifications that the proof
modules define (`CommandSpec`, `EnrollSpec`, `AttestSpec`, `RateSpec`, `UpdateSpec`,
`AccountSpec`, `BootKeySpec`, `LogSpec`, `ProfileSpec`): the component's `Init` and
`Next` without fairness, which safety does not need. `ComponentsImplemented` then
says that the composition implements each of these specifications, so that all their
theorems hold of it: `DevicesTyped` and `ControlPlaneTyped` state the `TypeOK` that the
runs check, `DevicesSafe` and `ControlPlaneSafe` all the other properties of safety.
The assumptions of `MCDevices` and `MCControlPlane` that give the sets of two
components the same names are for TLC's symmetry; no proof cites them.

Every proof has the same shape. The property is not inductive; a conjunction `IInv`
(`CommandIInv`, `ProfileIInv`, ...) of named parts is, and was checked with TLC on
the instances of the runs before it was proved. One lemma per action, or per group of
actions that do the same, proves that the action preserves it, with one step per part
that the action can disturb; `StepInv` (or its like) takes the disjuncts of `Next`
together, and the theorem adds `PTL`. What each invariant needs beyond the property:

**Builds.** That no build gets a
second executor at the restart depends on nobody being at work in the phases
before (`PhaseOrder`) and on owners finding their build *queued* or gone
(`QueueStatus`, `StageStatus`); that *succeeded* is written only over a complete
directory depends on what each stage has established (`StageProgress`) and on
nobody else writing there (`SoleExecutor`); and the account of queued and running
builds starts when startup has listed them (`Accounted`), with nothing running
any more when it does. `UpdateBuild` itself guards nothing, so all of this rests
on who owns a build. The refinement has one lemma per kind of step, and uses `IInv`
for the moments the abstract guards speak of (a build is *running* and its directory
*ready* when it succeeds).

**Installers.** Builds take any step of `BuildLifecycle`, so the proof needs what it
promises of a settled build (`BuildsKept`) and that requests, goroutines and the
list of the recovery only ever hold settled builds (`BuildsSettled`): the check of
`QueueBuildInstaller` is not repeated, and stays right because *succeeded* is final.
Outside `doubled`, the owner of an installer is one of a request, a goroutine or the
recovery's list (`SoleOwner`), and only it changes the image (`ImageProgress`).
`OneInstallerIfSerial` (`Serial /\ Spec => []OneInstallerAtATime`, where `Serial`
says there is one request) states that the race of two requests, which the run
`installer_double` finds, is the only way to two goroutines on one image: neither a
restart nor a failing call makes a second one.

**Rollouts.** `ServedIsReady` excepts the moments at which another rollout's
`RemoveAll` is taking the directory down. That these are the only moments rests on
who can be clearing what (`OneDirectoryEach`): a directory that is put in place is
its request's own staged copy, put there once, only *other* requests ever open it to
clear it, and one that is about to remove the name has emptied it. A staged copy is
whole (`RequestsInStep`) because the release was cut from a succeeded build, whose
directory nobody writes again (`ReleasesCut`, `BuildsKept`); releases that were cut
earlier than that are in `early`, which the property excepts. `SerialRolloutsAgree` needs to be said for each stage of the one
rollout that is under way (`SerialInStep`).

**Commands.** The server puts any status over any other, so a result is true only
because of who can still report: while every report on a command was processed,
one thread of the agent holds it, the row says what that thread said last, and it
was not executed before that thread did (`StatusInStep`); a report that comes late is
of a thread that has ended, and of a command in `unheard` (`LateReports`).

**Pairing.** `PollEnrollment` issues a token only after it counted none. The count is
read in one statement and used in the next, so the invariant says what the awaited
poll has read (`OneTokenAtMost`) and that, short of a `stray` poll, nothing else
issues one. Codes that are polled have rows (`CodesInStep`).

**Attestation.** The verdict is written some statements after the checks:
`EvidenceInStep` says what each request and approval still has of the checks it
passed (a golden value, once recorded, is never replaced), `TrustInStep` that a
request past the check of the trust is for a trusted device unless a reset overtook
it, and `RegistrationInStep` that the agent has sent telemetry only after a
registration was answered.

**A/B update.** An update writes only the partition that is not the running one's and
adds an entry only when the running one's is the only other (`UpdateInStep`,
`TwoEntries`), so the running version keeps its partition and entry; the newest entry
is whole because, until an update overtakes a newer version, the version an update
starts from is the newest (`NewestInStep`).

**Rate limiter.** The calls of a client fall into those of the window in force, at the
end of its history, and earlier ones (`EarlierCalls`). The window in force has at most
`Limit`. Of the earlier calls, those that still count with a call allowed now, or
later, are at most `Limit` as well (`OneWindowBefore`): when a call makes a new window,
its reading is past the end of the old one, and is not older than `MaxWait`
(`ReadingsAreRecent`), so what was allowed before the old window has fallen out
(`WindowsFollow`). That a dropped window is over is why dropping it gives a client no
more. The counts are of sets of positions in the history, for which the library's
theorems on cardinalities are enough; nothing is proved by induction.

**Accounts.** The run `control_plane` has one browser and one tab; races between
several are what the proofs add. A session
keeps the rights it was given, so its rights are right only if administrators stay:
they do, since the target of a deletion was looked up while there was one
administrator (`AdminOK`), and the count in `DeleteUser` refuses the last; between
the lookup and the deletion nobody becomes one, for the only statement that makes
administrators needs an empty table (`TabOK`, `Kept`). An invite serves the right
user because `FinalizeSetupRegistration` checks no user id and need not: a session
with an invite and no recovery user remembers an invite that is for nobody, or was
deleted since (`SessionOK`), and an id that a session still refers to is not drawn
again. `StepKeeps` is the common lemma: what a step must keep (`Kept`) for
everything that sessions and handlers remember to stay so.
`OnlyTwoDeletionsTakeTheLast` has a hypothesis of its own, `OneDeletionPerUser`: of a
user's passkeys no two are counted and about to be deleted at once. The user then has
another passkey than the one about to go (`PasskeysRemain`), and keeps it: additions
and recoveries make a passkey that no handler can have looked up.

**Key material.** The writer has the lock (`WriterHasLock`), the key is written last,
so that with a key all three files are of one generation (`KeyIsLast`), and every
signature is by the files that are there (`SignedByFiles`).

**Logs.** What a page has shown is a prefix of the log, and a page that knows the
build has ended knows it from before its last read (`PageInStep`). The lemma
`NextBatch` says what a page of chunks is; the chunks are sequences of any length.

**Profiles.** What a request or the wizard's draft has read of a profile may be stale
only in the parts it knows of (`CopiesAgree`), so a handler that writes a whole
profile back changes only what it means to, what it keeps, and what is in `stale`.
`ForeignKeys` says that the cascades, which delete one row at a time beside
requests that insert, never leave a row whose parent is gone; it is part of
`ProfileTypeOK`. A row is deleted
only by a statement that checks its children.

**Deletions that nobody disturbs.** `NoQuietFailure` says of a deletion of any length,
through any rows, that it does not fail on its way unless somebody else wrote in
between; a save that keeps its profile's name, a new profile and a build do not fail
either, except that a name or a version they bring may be refused. The invariant (`QuietIInv`, which has `ProfileIInv` in it) says what such a
request relies on (`Undisturbed`); for a deletion, that the calls it has left can be
made in the tables as they are (`Passable`). Each call has the rows it will deal with
(`RowsOf`: what its list holds now, or held when it was read, or its own row), and the
tables have an order (`Rank`). A stack of calls can be made if the rows of its calls are
there; if the calls come in the order of the tables, a list before anything that would
change what it returns, and no row twice (`Before`); and if all rows that refer to one
that is to go are rows of some call (`RefersTo`), which is then an earlier one. The steps
of a deletion take a call off the stack and put others on it: `Pop` and `Push` say
what that does to the stack, `Paid` that nothing is missing once a row is gone, and one
lemma for each table (`FewerRollouts`, ...) which rows a deletion leaves to the lists and
references of the rest. A profile in several fleets is the one case in which a row
stays: it is saved without the fleet, so the calls that take a profile out of a fleet are
of the fleet that goes at the end of the stack (`OutOf`). For other requests it is
enough that what they were checked against is still there, and that a save which
brings no name writes the one its profile has (`KeepsName`). The order of
`deleteFleetCascade`, builds before profiles, is what `FleetCascade` needs.

Two guards and two assumptions were made exact for the proofs: a token and a nonce
are drawn only while there is one left to draw (`FreshTokens`, `FreshNonces`; the
bounds of the runs always leave one), and `None` is assumed to be no copy of a directory
(`FleetRollout`) and no row (`Profiles`).

Only model-checked is liveness under fairness (`BuildSettles`, `RestartSettles`,
`InstallerSettles`, `PendingIsTakenUp`, `UnpairedShowsCode`, `ClaimIsDelivered`,
`HonestIsAttested`), which the prover does not reach. Every invariant and every other
action property that a passing run checks is the statement of a theorem.

## 5. Not modelled, and what is left

The components of section 1 without a module are listed in `PROJECT.json` with
the reason. External programs that outlive a crash of the server are not
modelled: they write in a temporary directory the new server does not know.
Temporary directories left behind by a crash are not modelled either.

Within the modelled components these are left out: the telemetry a device reports
about itself (`RecordDeviceTelemetry` writes columns nothing decides on); the login
challenge of a passkey, a library's; API keys, rows of one statement each; renames of
fleets; which names of profiles and versions of builds are the same (that one is taken
is a choice of the model); the numbers of revisions (`UpdateProfile` locks the row of the
profile before it takes the next one); the text of a configuration, its translation to
Nix and the calls of `nix` that check it; two executors of one installer writing one
log. The assistant calls one tool per message and an API request gives one field
beside the configuration: more of them are more requests to the same effect. A profile
is read in one step where the code uses three statements.

Molthouse (`molthoused.py` and its companions) is a program of its own on a device,
serialised by one lock, and shares no state with the control plane. The wizard's
conversation and the pages hold no state that is written elsewhere.

No module that is proved about declares a RECURSIVE operator.
