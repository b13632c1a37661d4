--------------------------- MODULE DeviceCommands ---------------------------
(***************************************************************************)
(* Commands that an administrator queues for one device and that its agent *)
(* (fleeti-admind) fetches, acknowledges, executes and reports. The server *)
(* keeps rows of device_commands; the agent has a main loop and at most    *)
(* one thread that runs an update.                                         *)
(*                                                                         *)
(* post_json and get_json let their callers catch URLError, which is all   *)
(* that a request that was not sent raises. A reply that does not come     *)
(* raises another exception, which nobody catches: it ends the thread, and *)
(* in the main loop the process, which systemd starts again, while the     *)
(* request may still be processed.                                         *)
(***************************************************************************)
EXTENDS Naturals

CONSTANTS
  Commands,          \* commands an administrator may queue
  Nobody,            \* the administrator at the machine, who asks without a command
  MaxCommandFaults   \* bound: calls that fail, losses of power, revocations

ASSUME NobodyAssumption == Nobody \notin Commands
ASSUME CommandBoundAssumption == MaxCommandFaults \in Nat

VARIABLES
  command,       \* device_commands.status, with "absent" and "deleted"
  kind,          \* device_commands.kind
  late,          \* reports whose sender gave up: the server may yet process them
  authorized,    \* the server holds the token that the agent stores
  paired,        \* state["paired"] of the agent
  loop,          \* where the main loop is; "dead" while the process is down
  hand,          \* the command the main loop has in hand
  worker,        \* where update_thread is
  job,           \* the command the update is for, Nobody for a local request
  request,       \* request.json exists
  shutdown,      \* systemctl reboot was called, the machine is going down
  installed,     \* history: commands whose update ended well
  ordered,       \* history: commands whose reboot was called
  executed,      \* history: commands the agent began to execute
  repeated,      \* history: commands it began to execute again
  unheard,       \* history: commands with a report the server did not process
  dropped,       \* history: commands in the hands of a thread that died
  commandFaults

serverVars == <<command, kind, late, authorized>>
agentVars == <<paired, loop, hand, worker, job, request, shutdown>>
pastVars == <<installed, ordered, executed, repeated>>
lossVars == <<unheard, dropped, commandFaults>>
commandVars == <<serverVars, agentVars, pastVars, lossVars>>

-----------------------------------------------------------------------------
CommandStatuses == {"absent", "pending", "acknowledged", "succeeded", "failed", "deleted"}
Reports == [of : Commands, status : {"acknowledged", "succeeded", "failed"}]
LoopStages == {"idle", "poll", "acknowledge", "execute", "refuse", "confirm", "reboot", "dead"}
Holding == {"acknowledge", "execute", "refuse", "confirm", "reboot"}
WorkerStages == {"none", "running", "succeeded", "failed", "reboot"}

\* The command a thread has taken up and not let go of.
InHand(c) == (loop \in Holding /\ hand = c) \/ (worker # "none" /\ job = c)

\* update_active: update_thread.is_alive().
UpdateActive == worker # "none"

CommandInit ==
  /\ command = [c \in Commands |-> "absent"] /\ kind = [c \in Commands |-> "update"]
  /\ late = {} /\ authorized = TRUE /\ paired = TRUE
  /\ loop = "idle" /\ hand = Nobody /\ worker = "none" /\ job = Nobody
  /\ request = FALSE /\ shutdown = FALSE
  /\ installed = {} /\ ordered = {} /\ executed = {} /\ repeated = {}
  /\ unheard = {} /\ dropped = {} /\ commandFaults = 0

CommandFault == commandFaults < MaxCommandFaults /\ commandFaults' = commandFaults + 1

-----------------------------------------------------------------------------
(* The server.                                                             *)

\* One pending command per device, by a partial unique index.
CreateDeviceCommand(c, k) ==
  /\ command[c] = "absent"
  /\ \A d \in Commands : command[d] # "pending"
  /\ command' = [command EXCEPT ![c] = "pending"]
  /\ kind' = [kind EXCEPT ![c] = k]
  /\ UNCHANGED <<late, authorized, agentVars, pastVars, lossVars>>

DeviceForceUpdate(c) == CreateDeviceCommand(c, "update")
DeviceReboot(c) == CreateDeviceCommand(c, "reboot")

\* Mutant: a status of its own for a report of success.
MarkUnknown(r) == command' = [command EXCEPT ![r.of] = IF r.status = "succeeded" THEN "done" ELSE r.status]

\* Any status over any other.
MarkDeviceCommandResult(r) ==
  command' = IF command[r.of] \in {"absent", "deleted"} THEN command
             ELSE [command EXCEPT ![r.of] = r.status]

ProcessLateReport ==
  /\ \E r \in late : MarkDeviceCommandResult(r) /\ late' = late \ {r}
  /\ UNCHANGED <<kind, authorized, agentVars, pastVars, lossVars>>

\* Another machine claims the identity, which deletes the tokens.
RevokeToken ==
  /\ authorized /\ CommandFault
  /\ authorized' = FALSE
  /\ UNCHANGED <<command, kind, late, agentVars, pastVars, unheard, dropped>>

\* The device goes with its tokens and its commands.
DeleteDevice ==
  /\ CommandFault
  /\ authorized' = FALSE
  /\ command' = [c \in Commands |-> IF command[c] = "absent" THEN "absent" ELSE "deleted"]
  /\ UNCHANGED <<kind, late, agentVars, pastVars, unheard, dropped>>

-----------------------------------------------------------------------------
(* The calls of the agent, as the calling thread meets them.               *)

\* report_command returns whatever the server answers.
Heard(r) ==
  /\ authorized
  /\ MarkDeviceCommandResult(r)
  /\ UNCHANGED <<late, lossVars>>

\* The server refuses it, or the request cannot be sent.
Unheard(r) ==
  /\ \/ ~authorized /\ UNCHANGED commandFaults
     \/ CommandFault
  /\ unheard' = unheard \cup {r.of}
  /\ UNCHANGED <<command, late, dropped>>

\* The reply does not come in time. The report may be processed, later or never.
Unanswered(r) ==
  /\ CommandFault
  /\ late' \in {late, late \cup {r}}
  /\ unheard' = unheard \cup {r.of}
  /\ UNCHANGED command

\* The thread ends.
EndUpdate == worker' = "none" /\ job' = Nobody

LetGo == loop' = "idle" /\ hand' = Nobody

\* The process ends and takes the update with it.
Die ==
  /\ loop' = "dead" /\ hand' = Nobody
  /\ EndUpdate
  /\ dropped' = dropped \cup {c \in Commands : InHand(c)}

MainReports(status, next) ==
  LET r == [of |-> hand, status |-> status]
  IN \/ /\ Heard(r) \/ Unheard(r)
        /\ IF next = "idle" THEN LetGo ELSE loop' = next /\ UNCHANGED hand
        /\ UNCHANGED <<worker, job>>
     \/ Unanswered(r) /\ Die

WorkerReports(status, next) ==
  LET r == [of |-> job, status |-> status]
  IN \/ /\ Heard(r) \/ Unheard(r)
        /\ IF next = "none" THEN EndUpdate ELSE worker' = next /\ UNCHANGED job
     \/ /\ Unanswered(r)
        /\ EndUpdate /\ dropped' = dropped \cup {job}

-----------------------------------------------------------------------------
(* The main loop: do_paired_cycle, or the loop of do_enrollment.           *)

StartUpdate(c) ==
  /\ worker' = "running"
  /\ job' = c

CheckLocalRequest ==
  /\ loop = "idle"
  /\ request' = FALSE
  /\ IF request /\ ~UpdateActive THEN StartUpdate(Nobody) ELSE UNCHANGED <<worker, job>>
  /\ loop' = IF paired THEN "poll" ELSE "idle"
  /\ UNCHANGED <<serverVars, paired, hand, shutdown, pastVars, lossVars>>

\* What DeviceEnrollment shows to be possible at any time.
PairAgain ==
  /\ loop = "idle" /\ ~paired
  /\ paired' = TRUE /\ authorized' = TRUE
  /\ UNCHANGED <<command, kind, late, loop, hand, worker, job, request, shutdown, pastVars, lossVars>>

\* Mutant: the agent keeps a token that is refused.
KeepRejectedToken ==
  /\ loop = "poll" /\ ~authorized
  /\ loop' = "idle"
  /\ UNCHANGED <<serverVars, paired, hand, worker, job, request, shutdown, pastVars, lossVars>>

\* send_telemetry and get_commands unpair the agent when they are refused.
TokenRejected ==
  /\ loop = "poll" /\ ~authorized
  /\ paired' = FALSE /\ loop' = "idle"
  /\ UNCHANGED <<serverVars, hand, worker, job, request, shutdown, pastVars, lossVars>>

\* Mutant: whatever is not finished is fetched.
GetUnfinishedCommands ==
  /\ loop = "poll" /\ authorized
  /\ \/ \E c \in Commands : command[c] \in {"pending", "acknowledged"} /\ hand' = c /\ loop' = "acknowledge"
     \/ LetGo
  /\ UNCHANGED <<serverVars, paired, worker, job, request, shutdown, pastVars, lossVars>>

\* At most one command is pending, so the list has at most one entry.
ListPendingDeviceCommands == {c \in Commands : command[c] = "pending"}

GetCommands ==
  /\ loop = "poll" /\ authorized
  /\ \/ hand' \in ListPendingDeviceCommands /\ loop' = "acknowledge"
     \/ ListPendingDeviceCommands = {} /\ loop' = "idle" /\ UNCHANGED hand
  /\ UNCHANGED <<serverVars, paired, worker, job, request, shutdown, pastVars, lossVars>>

GetCommandsFails ==
  /\ loop = "poll" /\ CommandFault
  /\ \/ LetGo /\ UNCHANGED <<worker, job, dropped>>
     \/ Die
  /\ UNCHANGED <<serverVars, paired, request, shutdown, pastVars, unheard>>

Acknowledge ==
  /\ loop = "acknowledge"
  /\ MainReports("acknowledged", "execute")
  /\ UNCHANGED <<kind, authorized, paired, request, shutdown, pastVars>>

ExecuteCommand ==
  /\ loop = "execute"
  /\ executed' = executed \cup {hand}
  /\ repeated' = repeated \cup (executed \cap {hand})
  /\ \/ /\ kind[hand] = "reboot"
        /\ loop' = "confirm" /\ UNCHANGED <<hand, worker, job>>
     \/ /\ kind[hand] = "update" /\ ~UpdateActive
        /\ LetGo /\ StartUpdate(hand)
     \/ /\ kind[hand] = "update" /\ UpdateActive
        /\ loop' = "refuse" /\ UNCHANGED <<hand, worker, job>>
  /\ UNCHANGED <<serverVars, paired, request, shutdown, installed, ordered, lossVars>>

\* Mutant: the second update is dropped without a report.
RefuseSilently ==
  /\ loop = "refuse" /\ LetGo
  /\ UNCHANGED <<serverVars, paired, worker, job, request, shutdown, pastVars, lossVars>>

\* "another update is already in progress".
RefuseUpdate ==
  /\ loop = "refuse"
  /\ MainReports("failed", "idle")
  /\ UNCHANGED <<kind, authorized, paired, request, shutdown, pastVars>>

ConfirmReboot ==
  /\ loop = "confirm"
  /\ MainReports("succeeded", "reboot")
  /\ UNCHANGED <<kind, authorized, paired, request, shutdown, pastVars>>

RebootForCommand ==
  /\ loop = "reboot"
  /\ LetGo /\ shutdown' = TRUE
  /\ ordered' = ordered \cup {hand}
  /\ UNCHANGED <<serverVars, paired, worker, job, request, installed, executed, repeated, lossVars>>

-----------------------------------------------------------------------------
(* The update thread.                                                      *)

\* Mutant: the exit status of the update is not looked at.
RunUpdateUnchecked ==
  /\ worker = "running" /\ worker' = "succeeded"
  /\ installed' \in {installed, installed \cup ({job} \cap Commands)}
  /\ UNCHANGED <<serverVars, paired, loop, hand, job, request, shutdown, ordered, executed, repeated, lossVars>>

\* run_update: the delta, and the whole image when that fails; both have a
\* timeout. It ends well when the version is installed or nothing is newer.
RunUpdate ==
  /\ worker = "running"
  /\ \/ worker' = "succeeded" /\ installed' = installed \cup ({job} \cap Commands)
     \/ worker' = "failed" /\ UNCHANGED installed
  /\ UNCHANGED <<serverVars, paired, loop, hand, job, request, shutdown, ordered, executed, repeated, lossVars>>

ReportUpdate ==
  /\ worker \in {"succeeded", "failed"}
  /\ IF job = Nobody
     THEN EndUpdate /\ UNCHANGED <<command, late, lossVars>>
     ELSE WorkerReports(worker, IF worker = "succeeded" THEN "reboot" ELSE "none")
  /\ UNCHANGED <<kind, authorized, paired, loop, hand, request, shutdown, pastVars>>

RebootAfterUpdate ==
  /\ worker = "reboot"
  /\ EndUpdate /\ shutdown' = TRUE
  /\ ordered' = ordered \cup {job}
  /\ UNCHANGED <<serverVars, paired, loop, hand, request, installed, executed, repeated, lossVars>>

-----------------------------------------------------------------------------
(* The machine.                                                            *)

\* The administrator at the machine: request-update writes request.json.
WriteUpdateRequest ==
  /\ ~request /\ request' = TRUE
  /\ UNCHANGED <<serverVars, paired, loop, hand, worker, job, shutdown, pastVars, lossVars>>

\* state.json survives, request.json is in /run.
GoDown ==
  /\ Die
  /\ request' = FALSE /\ shutdown' = FALSE
  /\ UNCHANGED <<serverVars, paired, pastVars, unheard>>

Shutdown == shutdown /\ GoDown /\ UNCHANGED commandFaults

LosePower == CommandFault /\ GoDown

StartAgent ==
  /\ loop = "dead" /\ loop' = "idle"
  /\ UNCHANGED <<serverVars, paired, hand, worker, job, request, shutdown, pastVars, lossVars>>

-----------------------------------------------------------------------------
MainStep ==
  \/ CheckLocalRequest \/ TokenRejected \/ GetCommands \/ GetCommandsFails \/ Acknowledge
  \/ ExecuteCommand \/ RefuseUpdate \/ ConfirmReboot \/ RebootForCommand

WorkerStep == RunUpdate \/ ReportUpdate \/ RebootAfterUpdate

CommandNext ==
  \/ \E c \in Commands : DeviceForceUpdate(c) \/ DeviceReboot(c)
  \/ ProcessLateReport \/ RevokeToken \/ DeleteDevice
  \/ MainStep \/ PairAgain \/ WorkerStep
  \/ WriteUpdateRequest \/ Shutdown \/ LosePower \/ StartAgent

-----------------------------------------------------------------------------
\* Types of the state above.
CommandTypeOK ==
  /\ command \in [Commands -> CommandStatuses] /\ kind \in [Commands -> {"update", "reboot"}]
  /\ late \subseteq Reports
  /\ {authorized, paired, request, shutdown} \subseteq BOOLEAN
  /\ loop \in LoopStages /\ hand \in Commands \cup {Nobody}
  /\ worker \in WorkerStages /\ job \in Commands \cup {Nobody}
  /\ \A s \in {installed, ordered, executed, repeated, unheard, dropped} : s \subseteq Commands
  /\ commandFaults \in 0 .. MaxCommandFaults

\* A command shown as succeeded was carried out: its update ended well, and
\* the reboot that it or a reboot command ends in was called or is about to be,
\* unless the thread that was to call it has died. About the worker's and
\* execute_command's order of reporting and rebooting.
SucceededIsDone ==
  \A c \in Commands : command[c] = "succeeded" =>
    /\ kind[c] = "update" => c \in installed
    /\ \/ c \in ordered \cup dropped
       \/ loop = "reboot" /\ hand = c
       \/ worker = "reboot" /\ job = c

\* A command shown as acknowledged is one that a thread of the agent has in
\* hand, or there is a thread that died or a report that was lost: none is
\* forgotten by an agent that works. About execute_command.
AcknowledgedIsHeld ==
  \A c \in Commands : command[c] = "acknowledged" => InHand(c) \/ c \in dropped \cup unheard

\* Only a command with a report that was lost is executed a second time or has
\* a result that changes once it is recorded. About MarkDeviceCommandResult,
\* which puts any status over any other, and the polling that repeats.
ResultIsFinal ==
  [][\A c \in Commands \ unheard' :
       /\ c \notin repeated'
       /\ command[c] \in {"succeeded", "failed"} => command'[c] \in {command[c], "deleted"}]_commandVars

\* Every queued command is taken up, whatever else is lost on the way there.
PendingIsTakenUp == \A c \in Commands : command[c] = "pending" ~> command[c] # "pending"

\* What execute_command says of its first line: "Acknowledge first so the
\* command leaves the pending state and is not picked up again on the next poll."
PickedUpOnce == repeated = {}

=============================================================================
