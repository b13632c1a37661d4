--------------------------- MODULE Devices_proofs ---------------------------
(***************************************************************************)
(* Proofs about the commands of one device, its pairing and the rate       *)
(* limiter, for any number of commands, codes, tokens, clients and calls   *)
(* and any number of faults, and about the composition of the components   *)
(* at the devices' side.                                                   *)
(***************************************************************************)
EXTENDS MCDevices, Attestation_proofs, ABUpdate_proofs, FiniteSetTheorems, TLAPS

-----------------------------------------------------------------------------
(* DeviceCommands: the inductive invariant.                                *)

\* What MCDevices says of the commands, less the fairness, which safety does not need.
CommandSpec == CommandInit /\ [][CommandNext]_commandVars

\* Whose the two threads of the agent are.
ThreadsInStep ==
  /\ loop \in Holding <=> hand # Nobody
  /\ worker = "none" => job = Nobody
  /\ worker = "reboot" => job # Nobody
  /\ loop \in Holding => command[hand] # "absent"
  /\ loop \in {"confirm", "reboot"} => kind[hand] = "reboot"
  /\ job # Nobody => command[job] # "absent" /\ kind[job] = "update"
  /\ worker \in {"succeeded", "reboot"} /\ job # Nobody => job \in installed

\* A report that may come late is of a thread that has ended.
LateReports ==
  \A r \in late :
    /\ r.of \in unheard /\ command[r.of] # "absent"
    /\ r.status = "succeeded" => r.of \in dropped /\ (kind[r.of] = "update" => r.of \in installed)

\* As long as the server has processed every report on a command, one thread has
\* it, its status is the one that thread reported last, and it is executed once.
StatusInStep ==
  /\ repeated \subseteq unheard
  /\ \A c \in Commands \ unheard :
       /\ c \in executed => command[c] \notin {"absent", "pending"}
       /\ loop \in Holding /\ hand = c =>
            /\ job # c
            /\ loop = "acknowledge" => command[c] \in {"pending", "deleted"}
            /\ loop \in {"acknowledge", "execute"} => c \notin executed
            /\ loop \in {"execute", "refuse", "confirm"} => command[c] \in {"acknowledged", "deleted"}
            /\ loop = "reboot" => command[c] \in {"succeeded", "deleted"}
       /\ job = c =>
            /\ c \in executed
            /\ worker = "reboot" => command[c] \in {"succeeded", "deleted"}
            /\ worker # "reboot" => command[c] \in {"acknowledged", "deleted"}

CommandIInv ==
  /\ CommandTypeOK /\ ThreadsInStep /\ LateReports /\ StatusInStep
  /\ SucceededIsDone /\ AcknowledgedIsHeld

-----------------------------------------------------------------------------
(* DeviceCommands: each action preserves the invariant.                    *)

\* Nobody has a command that is new.
LEMMA CreateCommandInv ==
  ASSUME CommandIInv, NEW c \in Commands, NEW k \in {"update", "reboot"}, CreateDeviceCommand(c, k)
  PROVE  CommandIInv'
<1> USE NobodyAssumption, CommandBoundAssumption DEF CommandIInv, CommandTypeOK, CreateDeviceCommand,
      serverVars, agentVars, pastVars, lossVars
<1>1. CommandTypeOK'
  BY DEF CommandStatuses, Reports, LoopStages, WorkerStages, Holding, InHand
<1>2. ThreadsInStep'
  BY DEF ThreadsInStep, Holding, Reports, LoopStages
<1>3. LateReports'
  BY DEF LateReports, ThreadsInStep, Holding, Reports, InHand
<1>4. StatusInStep'
  BY DEF StatusInStep, ThreadsInStep, LateReports, Holding, Reports
<1>5. SucceededIsDone'
  BY DEF SucceededIsDone, ThreadsInStep, LateReports, Holding, Reports, InHand
<1>6. AcknowledgedIsHeld'
  BY DEF AcknowledgedIsHeld, StatusInStep, ThreadsInStep, LateReports, Holding, Reports, InHand
<1> QED BY <1>1, <1>2, <1>3, <1>4, <1>5, <1>6

\* What comes late is of a command with a report that was lost.
LEMMA LateReportInv == ASSUME CommandIInv, ProcessLateReport PROVE CommandIInv'
<1> USE NobodyAssumption, CommandBoundAssumption DEF CommandIInv, CommandTypeOK, ProcessLateReport,
      MarkDeviceCommandResult,
      serverVars, agentVars, pastVars, lossVars
<1>1. CommandTypeOK'
  BY DEF CommandStatuses, Reports, LoopStages, WorkerStages, Holding, InHand
<1>2. ThreadsInStep'
  BY DEF ThreadsInStep, Holding, Reports, LoopStages
<1>3. LateReports'
  BY DEF LateReports, ThreadsInStep, Holding, Reports, InHand
<1>4. StatusInStep'
  BY DEF StatusInStep, ThreadsInStep, LateReports, Holding, Reports
<1>5. SucceededIsDone'
  BY DEF SucceededIsDone, ThreadsInStep, LateReports, Holding, Reports, InHand
<1>6. AcknowledgedIsHeld'
  BY DEF AcknowledgedIsHeld, StatusInStep, ThreadsInStep, LateReports, Holding, Reports, InHand
<1> QED BY <1>1, <1>2, <1>3, <1>4, <1>5, <1>6

\* A command that is deleted is shown as nothing.
LEMMA RevokeInv == ASSUME CommandIInv, RevokeToken \/ DeleteDevice PROVE CommandIInv'
<1> USE NobodyAssumption, CommandBoundAssumption DEF CommandIInv, CommandTypeOK, RevokeToken,
      DeleteDevice, CommandFault,
      serverVars, agentVars, pastVars, lossVars
<1>1. CommandTypeOK'
  <2>1. commandFaults' \in 0 .. MaxCommandFaults
    OBVIOUS
  <2>2. dropped' \subseteq Commands
    OBVIOUS
  <2> QED BY <2>1, <2>2 DEF CommandStatuses, LoopStages, WorkerStages
<1>2. ThreadsInStep'
  BY DEF ThreadsInStep, Holding, Reports, LoopStages
<1>3. LateReports'
  BY DEF LateReports, ThreadsInStep, Holding, Reports, InHand
<1>4. StatusInStep'
  BY DEF StatusInStep, ThreadsInStep, LateReports, Holding, Reports
<1>5. SucceededIsDone'
  BY DEF SucceededIsDone, ThreadsInStep, LateReports, Holding, Reports, InHand
<1>6. AcknowledgedIsHeld'
  BY DEF AcknowledgedIsHeld, StatusInStep, ThreadsInStep, LateReports, Holding, Reports, InHand
<1> QED BY <1>1, <1>2, <1>3, <1>4, <1>5, <1>6

\* Steps with no command in hand.
LEMMA PollInv ==
  ASSUME CommandIInv,
         CheckLocalRequest \/ PairAgain \/ TokenRejected \/ WriteUpdateRequest \/ StartAgent
  PROVE  CommandIInv'
<1> USE NobodyAssumption, CommandBoundAssumption DEF CommandIInv, CommandTypeOK, CheckLocalRequest,
      PairAgain, TokenRejected, WriteUpdateRequest, StartAgent, StartUpdate, UpdateActive,
      serverVars, agentVars, pastVars, lossVars
<1>1. CommandTypeOK'
  BY DEF CommandStatuses, Reports, LoopStages, WorkerStages, Holding, InHand
<1>2. ThreadsInStep'
  BY DEF ThreadsInStep, Holding, Reports, LoopStages
<1>3. LateReports'
  BY DEF LateReports, ThreadsInStep, Holding, Reports, InHand
<1>4. StatusInStep'
  BY DEF StatusInStep, ThreadsInStep, LateReports, Holding, Reports
<1>5. SucceededIsDone'
  BY DEF SucceededIsDone, ThreadsInStep, LateReports, Holding, Reports, InHand
<1>6. AcknowledgedIsHeld'
  BY DEF AcknowledgedIsHeld, StatusInStep, ThreadsInStep, LateReports, Holding, Reports, InHand
<1> QED BY <1>1, <1>2, <1>3, <1>4, <1>5, <1>6

\* A pending command is not executed yet, unless a report was lost.
LEMMA GetCommandsInv == ASSUME CommandIInv, GetCommands \/ GetCommandsFails PROVE CommandIInv'
<1> USE NobodyAssumption, CommandBoundAssumption DEF CommandIInv, CommandTypeOK, GetCommands,
      GetCommandsFails, ListPendingDeviceCommands, LetGo, Die, EndUpdate, CommandFault,
      serverVars, agentVars, pastVars, lossVars
<1>1. CommandTypeOK'
  BY DEF CommandStatuses, Reports, LoopStages, WorkerStages, Holding, InHand
<1>2. ThreadsInStep'
  BY DEF ThreadsInStep, Holding, Reports, LoopStages
<1>3. LateReports'
  BY DEF LateReports, ThreadsInStep, Holding, Reports, InHand
<1>4. StatusInStep'
  BY DEF StatusInStep, ThreadsInStep, LateReports, Holding, Reports
<1>5. SucceededIsDone'
  BY DEF SucceededIsDone, ThreadsInStep, LateReports, Holding, Reports, InHand
<1>6. AcknowledgedIsHeld'
  BY DEF AcknowledgedIsHeld, StatusInStep, ThreadsInStep, LateReports, Holding, Reports, InHand
<1> QED BY <1>1, <1>2, <1>3, <1>4, <1>5, <1>6

\* Acknowledged, and in hand.
LEMMA AcknowledgeInv == ASSUME CommandIInv, Acknowledge PROVE CommandIInv'
<1> USE NobodyAssumption, CommandBoundAssumption DEF CommandIInv, CommandTypeOK, Acknowledge,
      MainReports, Heard, Unheard, Unanswered, Die, LetGo, EndUpdate, MarkDeviceCommandResult,
      CommandFault,
      serverVars, agentVars, pastVars, lossVars
<1>1. CommandTypeOK'
  BY DEF CommandStatuses, Reports, LoopStages, WorkerStages, Holding, InHand, ThreadsInStep
<1>2. ThreadsInStep'
  BY DEF ThreadsInStep, Holding, Reports, LoopStages
<1>3. LateReports'
  BY DEF LateReports, ThreadsInStep, Holding, Reports, InHand
<1>4. StatusInStep'
  BY DEF StatusInStep, ThreadsInStep, LateReports, Holding, Reports
<1>5. SucceededIsDone'
  BY DEF SucceededIsDone, ThreadsInStep, LateReports, Holding, Reports, InHand
<1>6. AcknowledgedIsHeld'
  BY DEF AcknowledgedIsHeld, StatusInStep, ThreadsInStep, LateReports, Holding, Reports, InHand
<1> QED BY <1>1, <1>2, <1>3, <1>4, <1>5, <1>6

\* The update takes the command over from the main loop.
LEMMA ExecuteInv == ASSUME CommandIInv, ExecuteCommand PROVE CommandIInv'
<1> USE NobodyAssumption, CommandBoundAssumption DEF CommandIInv, CommandTypeOK, ExecuteCommand,
      StartUpdate, UpdateActive, LetGo,
      serverVars, agentVars, pastVars, lossVars
<1>1. CommandTypeOK'
  BY DEF CommandStatuses, Reports, LoopStages, WorkerStages, Holding, InHand, ThreadsInStep
<1>2. ThreadsInStep'
  BY DEF ThreadsInStep, Holding, Reports, LoopStages
<1>3. LateReports'
  BY DEF LateReports, ThreadsInStep, Holding, Reports, InHand
<1>4. StatusInStep'
  BY DEF StatusInStep, ThreadsInStep, LateReports, Holding, Reports
<1>5. SucceededIsDone'
  BY DEF SucceededIsDone, ThreadsInStep, LateReports, Holding, Reports, InHand
<1>6. AcknowledgedIsHeld'
  BY DEF AcknowledgedIsHeld, StatusInStep, ThreadsInStep, LateReports, Holding, Reports, InHand
<1> QED BY <1>1, <1>2, <1>3, <1>4, <1>5, <1>6

\* Refused and let go of.
LEMMA RefuseInv == ASSUME CommandIInv, RefuseUpdate PROVE CommandIInv'
<1> USE NobodyAssumption, CommandBoundAssumption DEF CommandIInv, CommandTypeOK, RefuseUpdate,
      MainReports, Heard, Unheard, Unanswered, Die, LetGo, EndUpdate, MarkDeviceCommandResult,
      CommandFault,
      serverVars, agentVars, pastVars, lossVars
<1>1. CommandTypeOK'
  BY DEF CommandStatuses, Reports, LoopStages, WorkerStages, Holding, InHand, ThreadsInStep
<1>2. ThreadsInStep'
  BY DEF ThreadsInStep, Holding, Reports, LoopStages
<1>3. LateReports'
  BY DEF LateReports, ThreadsInStep, Holding, Reports, InHand
<1>4. StatusInStep'
  BY DEF StatusInStep, ThreadsInStep, LateReports, Holding, Reports
<1>5. SucceededIsDone'
  BY DEF SucceededIsDone, ThreadsInStep, LateReports, Holding, Reports, InHand
<1>6. AcknowledgedIsHeld'
  BY DEF AcknowledgedIsHeld, StatusInStep, ThreadsInStep, LateReports, Holding, Reports, InHand
<1> QED BY <1>1, <1>2, <1>3, <1>4, <1>5, <1>6

\* Shown as succeeded and about to reboot.
LEMMA ConfirmInv == ASSUME CommandIInv, ConfirmReboot PROVE CommandIInv'
<1> USE NobodyAssumption, CommandBoundAssumption DEF CommandIInv, CommandTypeOK, ConfirmReboot,
      MainReports, Heard, Unheard, Unanswered, Die, LetGo, EndUpdate, MarkDeviceCommandResult,
      CommandFault,
      serverVars, agentVars, pastVars, lossVars
<1>1. CommandTypeOK'
  BY DEF CommandStatuses, Reports, LoopStages, WorkerStages, Holding, InHand, ThreadsInStep
<1>2. ThreadsInStep'
  BY DEF ThreadsInStep, Holding, Reports, LoopStages
<1>3. LateReports'
  BY DEF LateReports, ThreadsInStep, Holding, Reports, InHand
<1>4. StatusInStep'
  BY DEF StatusInStep, ThreadsInStep, LateReports, Holding, Reports
<1>5. SucceededIsDone'
  BY DEF SucceededIsDone, ThreadsInStep, LateReports, Holding, Reports, InHand
<1>6. AcknowledgedIsHeld'
  BY DEF AcknowledgedIsHeld, StatusInStep, ThreadsInStep, LateReports, Holding, Reports, InHand
<1> QED BY <1>1, <1>2, <1>3, <1>4, <1>5, <1>6

\* The reboot is called.
LEMMA RebootInv == ASSUME CommandIInv, RebootForCommand \/ RebootAfterUpdate PROVE CommandIInv'
<1> USE NobodyAssumption, CommandBoundAssumption DEF CommandIInv, CommandTypeOK, RebootForCommand,
      RebootAfterUpdate, EndUpdate, LetGo,
      serverVars, agentVars, pastVars, lossVars
<1>1. CommandTypeOK'
  BY DEF CommandStatuses, Reports, LoopStages, WorkerStages, Holding, InHand, ThreadsInStep
<1>2. ThreadsInStep'
  BY DEF ThreadsInStep, Holding, Reports, LoopStages
<1>3. LateReports'
  BY DEF LateReports, ThreadsInStep, Holding, Reports, InHand
<1>4. StatusInStep'
  BY DEF StatusInStep, ThreadsInStep, LateReports, Holding, Reports
<1>5. SucceededIsDone'
  BY DEF SucceededIsDone, ThreadsInStep, LateReports, Holding, Reports, InHand
<1>6. AcknowledgedIsHeld'
  BY DEF AcknowledgedIsHeld, StatusInStep, ThreadsInStep, LateReports, Holding, Reports, InHand
<1> QED BY <1>1, <1>2, <1>3, <1>4, <1>5, <1>6

\* An update that ends well is installed.
LEMMA RunUpdateInv == ASSUME CommandIInv, RunUpdate PROVE CommandIInv'
<1> USE NobodyAssumption, CommandBoundAssumption DEF CommandIInv, CommandTypeOK, RunUpdate,
      serverVars, agentVars, pastVars, lossVars
<1>1. CommandTypeOK'
  BY DEF CommandStatuses, Reports, LoopStages, WorkerStages, Holding, InHand
<1>2. ThreadsInStep'
  BY DEF ThreadsInStep, Holding, Reports, LoopStages
<1>3. LateReports'
  BY DEF LateReports, ThreadsInStep, Holding, Reports, InHand
<1>4. StatusInStep'
  BY DEF StatusInStep, ThreadsInStep, LateReports, Holding, Reports
<1>5. SucceededIsDone'
  BY DEF SucceededIsDone, ThreadsInStep, LateReports, Holding, Reports, InHand
<1>6. AcknowledgedIsHeld'
  BY DEF AcknowledgedIsHeld, StatusInStep, ThreadsInStep, LateReports, Holding, Reports, InHand
<1> QED BY <1>1, <1>2, <1>3, <1>4, <1>5, <1>6

\* Shown as succeeded only when installed, and about to reboot.
LEMMA ReportUpdateInv == ASSUME CommandIInv, ReportUpdate PROVE CommandIInv'
<1> USE NobodyAssumption, CommandBoundAssumption DEF CommandIInv, CommandTypeOK, ReportUpdate,
      WorkerReports, Heard, Unheard, Unanswered, EndUpdate, MarkDeviceCommandResult, CommandFault,
      serverVars, agentVars, pastVars, lossVars
<1>1. CommandTypeOK'
  BY DEF CommandStatuses, Reports, LoopStages, WorkerStages, Holding, InHand
<1>2. ThreadsInStep'
  BY DEF ThreadsInStep, Holding, Reports, LoopStages
<1>3. LateReports'
  BY DEF LateReports, ThreadsInStep, Holding, Reports, InHand
<1>4. StatusInStep'
  BY DEF StatusInStep, ThreadsInStep, LateReports, Holding, Reports
<1>5. SucceededIsDone'
  BY DEF SucceededIsDone, ThreadsInStep, LateReports, Holding, Reports, InHand
<1>6. AcknowledgedIsHeld'
  BY DEF AcknowledgedIsHeld, StatusInStep, ThreadsInStep, LateReports, Holding, Reports, InHand
<1> QED BY <1>1, <1>2, <1>3, <1>4, <1>5, <1>6

\* What was in hand is dropped.
LEMMA DownInv == ASSUME CommandIInv, Shutdown \/ LosePower PROVE CommandIInv'
<1> USE NobodyAssumption, CommandBoundAssumption DEF CommandIInv, CommandTypeOK, Shutdown, LosePower,
      GoDown, Die, EndUpdate, CommandFault,
      serverVars, agentVars, pastVars, lossVars
<1>1. CommandTypeOK'
  <2>1. commandFaults' \in 0 .. MaxCommandFaults
    OBVIOUS
  <2>2. dropped' \subseteq Commands
    OBVIOUS
  <2> QED BY <2>1, <2>2 DEF CommandStatuses, LoopStages, WorkerStages
<1>2. ThreadsInStep'
  BY DEF ThreadsInStep, Holding, Reports, LoopStages
<1>3. LateReports'
  BY DEF LateReports, ThreadsInStep, Holding, Reports, InHand
<1>4. StatusInStep'
  BY DEF StatusInStep, ThreadsInStep, LateReports, Holding, Reports
<1>5. SucceededIsDone'
  BY DEF SucceededIsDone, ThreadsInStep, LateReports, Holding, Reports, InHand
<1>6. AcknowledgedIsHeld'
  BY DEF AcknowledgedIsHeld, StatusInStep, ThreadsInStep, LateReports, Holding, Reports, InHand
<1> QED BY <1>1, <1>2, <1>3, <1>4, <1>5, <1>6
\* Nobody has done anything yet.
LEMMA CommandInitInv == CommandInit => CommandIInv
<1> SUFFICES ASSUME CommandInit PROVE CommandIInv
  OBVIOUS
<1> USE NobodyAssumption, CommandBoundAssumption DEF CommandInit
<1>1. CommandTypeOK
  <2>1. commandFaults \in 0 .. MaxCommandFaults
    OBVIOUS
  <2> QED BY <2>1 DEF CommandTypeOK, CommandStatuses, Reports, LoopStages, WorkerStages
<1> QED BY <1>1 DEF CommandIInv, ThreadsInStep, LateReports, StatusInStep, SucceededIsDone,
      AcknowledgedIsHeld, Holding

LEMMA CommandStepInv == CommandIInv /\ [CommandNext]_commandVars => CommandIInv'
<1> SUFFICES ASSUME CommandIInv, [CommandNext]_commandVars PROVE CommandIInv'
  OBVIOUS
<1>1. ASSUME NEW c \in Commands, DeviceForceUpdate(c) \/ DeviceReboot(c) PROVE CommandIInv'
  BY <1>1, CreateCommandInv DEF DeviceForceUpdate, DeviceReboot
<1>2. CASE MainStep
  BY <1>2, PollInv, GetCommandsInv, AcknowledgeInv, ExecuteInv, RefuseInv, ConfirmInv,
        RebootInv DEF MainStep
<1>3. CASE WorkerStep
  BY <1>3, RunUpdateInv, ReportUpdateInv, RebootInv DEF WorkerStep
<1>4. CASE UNCHANGED commandVars
  BY <1>4 DEF commandVars, serverVars, agentVars, pastVars, lossVars, CommandIInv, CommandTypeOK,
        ThreadsInStep,
       LateReports, StatusInStep, SucceededIsDone, AcknowledgedIsHeld, InHand
<1> QED BY <1>1, <1>2, <1>3, <1>4, LateReportInv, RevokeInv, PollInv, DownInv DEF CommandNext

LEMMA CommandInvariance == CommandSpec => []CommandIInv
<1> QED BY CommandInitInv, CommandStepInv, PTL DEF CommandSpec

\* A command that a thread reports on, or a late report is of, has no result yet or
\* a report that was lost.
LEMMA ResultStaysFinal ==
  ASSUME CommandIInv, [CommandNext]_commandVars, NEW c \in Commands \ unheard', command[c] \in {"succeeded", "failed"}
  PROVE  command'[c] \in {command[c], "deleted"}
<1> USE DEF CommandIInv, CommandTypeOK
<1>1. unheard \subseteq unheard'
  BY DEF CommandNext, DeviceForceUpdate, DeviceReboot, CreateDeviceCommand, ProcessLateReport,
      RevokeToken,
       DeleteDevice, MainStep, WorkerStep, CheckLocalRequest, PairAgain, TokenRejected, GetCommands, GetCommandsFails,
       Acknowledge, ExecuteCommand, RefuseUpdate, ConfirmReboot, RebootForCommand, RunUpdate, ReportUpdate,
       RebootAfterUpdate, WriteUpdateRequest, Shutdown, LosePower, GoDown, StartAgent, MainReports, WorkerReports,
       Heard, Unheard, Unanswered, commandVars, lossVars
<1>2. ASSUME NEW d \in Commands, DeviceForceUpdate(d) \/ DeviceReboot(d) PROVE command'[c] = command[c]
  BY <1>2 DEF DeviceForceUpdate, DeviceReboot, CreateDeviceCommand
<1>3. CASE ProcessLateReport
  BY <1>1, <1>3 DEF ProcessLateReport, MarkDeviceCommandResult, LateReports, Reports
<1>4. CASE DeleteDevice
  BY <1>4 DEF DeleteDevice
<1>5. CASE Acknowledge \/ RefuseUpdate \/ ConfirmReboot
  <2>1. hand # c
    BY <1>1, <1>5 DEF Acknowledge, RefuseUpdate, ConfirmReboot, StatusInStep, Holding
  <2> QED BY <1>5, <2>1 DEF Acknowledge, RefuseUpdate, ConfirmReboot, MainReports, Heard, Unheard,
        Unanswered,
       MarkDeviceCommandResult
<1>6. CASE ReportUpdate
  <2>1. job # c
    BY <1>1, <1>6 DEF ReportUpdate, StatusInStep
  <2> QED BY <1>6, <2>1 DEF ReportUpdate, WorkerReports, Heard, Unheard, Unanswered,
        MarkDeviceCommandResult
<1>7. CASE \/ CheckLocalRequest \/ PairAgain \/ TokenRejected \/ GetCommands \/ GetCommandsFails \/ ExecuteCommand
           \/ RebootForCommand \/ RunUpdate \/ RebootAfterUpdate \/ WriteUpdateRequest \/ Shutdown \/ LosePower
           \/ StartAgent \/ RevokeToken \/ UNCHANGED commandVars
  BY <1>7 DEF CheckLocalRequest, PairAgain, TokenRejected, GetCommands, GetCommandsFails,
        ExecuteCommand,
       RebootForCommand, RunUpdate, RebootAfterUpdate, WriteUpdateRequest, Shutdown, LosePower, GoDown, StartAgent,
       RevokeToken, commandVars, serverVars
<1> QED BY <1>2, <1>3, <1>4, <1>5, <1>6, <1>7 DEF CommandNext, MainStep, WorkerStep

-----------------------------------------------------------------------------
(* DeviceCommands: the theorems.                                           *)

\* Every reachable state of the commands is of the declared types.
THEOREM CommandsTyped == CommandSpec => []CommandTypeOK
<1>1. CommandIInv => CommandTypeOK
  BY DEF CommandIInv
<1> QED BY <1>1, CommandInvariance, PTL

\* A command shown as succeeded was carried out, whatever calls failed, reports came
\* late and power was lost.
THEOREM SuccessIsTrue == CommandSpec => []SucceededIsDone
<1>1. CommandIInv => SucceededIsDone
  BY DEF CommandIInv
<1> QED BY <1>1, CommandInvariance, PTL

\* A command shown as acknowledged is in a thread's hands, unless that thread died
\* or a report on the command was lost.
THEOREM AcknowledgementIsTrue == CommandSpec => []AcknowledgedIsHeld
<1>1. CommandIInv => AcknowledgedIsHeld
  BY DEF CommandIInv
<1> QED BY <1>1, CommandInvariance, PTL

\* As long as no report on it was lost, a command is executed once and its result
\* stays what it is, though the server puts any status over any other.
THEOREM ResultsStay == CommandSpec => ResultIsFinal
<1>1. ASSUME CommandIInv, CommandIInv', [CommandNext]_commandVars
      PROVE  [\A c \in Commands \ unheard' :
                /\ c \notin repeated'
                /\ command[c] \in {"succeeded", "failed"} => command'[c] \in {command[c], "deleted"}]_commandVars
  BY <1>1, ResultStaysFinal DEF CommandIInv, StatusInStep
<1> QED BY <1>1, CommandInvariance, PTL DEF CommandSpec, ResultIsFinal

-----------------------------------------------------------------------------
(* DeviceEnrollment: the inductive invariant.                              *)

\* What MCDevices says of the pairing, less the fairness.
EnrollSpec == EnrollInit /\ [][EnrollNext]_enrollVars

\* The agent waits for a call that the server has or has had, and only one without
\* a token polls.
AwaitedInStep ==
  awaited # Nothing => call[awaited].stage # "free" /\ (call[awaited].op = "poll" => token = Nothing)

\* A start that is answered well brings a code that has a row, and the agent polls
\* no other.
Issued(c) == c \in Codes /\ enrollment[c] # "absent"
CodesInStep ==
  /\ code # Nothing => Issued(code)
  /\ \A k \in Calls :
       \/ call[k].op = "start" /\ call[k].reply = "ok"
       \/ call[k].op = "poll" /\ call[k].stage \in {"sent", "read"}
       => Issued(call[k].code)

\* As long as no other poll issues a token, there is one at most, the count that the
\* awaited poll has read is right when it says there is none, and the token the agent
\* holds, or is about to, is that one or was deleted by an administrator.
OneTokenAtMost ==
  ~stray =>
    /\ \A s, t \in live : s = t
    /\ token # Nothing => token \in live \cup revoked
    /\ awaited # Nothing /\ call[awaited].op = "poll" =>
         /\ call[awaited].stage = "read" /\ ~call[awaited].total => live = {}
         /\ call[awaited].stage = "replied" /\ call[awaited].reply = "claimed" /\ call[awaited].token # Nothing =>
              call[awaited].token \in live \cup revoked

EnrollIInv == EnrollTypeOK /\ AwaitedInStep /\ CodesInStep /\ OneTokenAtMost

-----------------------------------------------------------------------------
(* DeviceEnrollment: each action preserves the invariant.                  *)

\* What a reply does to the calls.
LEMMA ReplyType ==
  ASSUME call \in [Calls -> CallRecord], NEW k \in Calls, NEW reply \in Replies,
         NEW c \in Codes \cup {Nothing}, NEW t \in Tokens \cup {Nothing}, Reply(k, reply, c, t)
  PROVE  /\ call' \in [Calls -> CallRecord]
         /\ call'[k].stage = "replied" /\ call'[k].reply = reply /\ call'[k].op = call[k].op /\ call'[k].token = t
         /\ call'[k].code = c
         /\ \A j \in Calls \ {k} : call'[j] = call[j]
<1>1. /\ call[k] \in CallRecord
      /\ call' = [call EXCEPT ![k] = [call[k] EXCEPT !.stage = "replied", !.reply = reply, !.code = c, !.token = t]]
  BY DEF Reply
<1>2. [call[k] EXCEPT !.stage = "replied", !.reply = reply, !.code = c, !.token = t] \in CallRecord
  BY <1>1 DEF CallRecord
<1> QED BY <1>1, <1>2 DEF CallRecord

\* The agent begins to wait.
LEMMA SendInv ==
  ASSUME EnrollIInv, NEW k \in Calls, NEW op \in {"start", "poll", "auth"},
         op = "poll" => token = Nothing /\ code # Nothing, Send(k, op)
  PROVE  EnrollIInv'
<1> USE NothingAssumption, EnrollBoundAssumption DEF EnrollIInv, EnrollTypeOK, Send, Idle,
      rowVars, tokenVars, enrollAgentVars
<1>1. EnrollTypeOK'
  BY DEF EnrollmentStatuses, CallRecord, Replies
<1>2. AwaitedInStep'
  BY DEF AwaitedInStep, CallRecord
<1>3. OneTokenAtMost'
  BY DEF OneTokenAtMost, AwaitedInStep, CallRecord
<1>4. CodesInStep'
  BY DEF CodesInStep, Issued, CallRecord
<1> QED BY <1>1, <1>2, <1>3, <1>4

\* The agent waits no more, and the call goes on.
LEMMA GiveUpInv == ASSUME EnrollIInv, GiveUp PROVE EnrollIInv'
<1> USE NothingAssumption, EnrollBoundAssumption DEF EnrollIInv, EnrollTypeOK, GiveUp, EnrollFault,
      rowVars, tokenVars, enrollAgentVars
<1>1. EnrollTypeOK'
  BY DEF EnrollmentStatuses, CallRecord, Replies
<1>2. AwaitedInStep'
  BY DEF AwaitedInStep, CallRecord
<1>3. OneTokenAtMost'
  BY DEF OneTokenAtMost, AwaitedInStep, CallRecord
<1>4. CodesInStep'
  BY DEF CodesInStep, Issued, CallRecord
<1> QED BY <1>1, <1>2, <1>3, <1>4

\* The agent adopts the token it is given, and has no other.
LEMMA ReceiveInv == ASSUME EnrollIInv, Receive PROVE EnrollIInv'
<1> USE NothingAssumption, EnrollBoundAssumption DEF EnrollIInv, EnrollTypeOK
<1> DEFINE r == call[awaited]
<1>0. code = Nothing \/ (code \in Codes /\ enrollment[code] # "absent")
  BY DEF CodesInStep, Issued
<1>1. /\ awaited \in Calls /\ r \in CallRecord /\ r.stage = "replied"
      /\ call' = [call EXCEPT ![awaited] = Idle] /\ awaited' = Nothing
      /\ UNCHANGED <<rowVars, tokenVars, enrollFaults>>
  BY DEF Receive
<1>2. (code' = Nothing \/ (code' \in Codes /\ enrollment[code'] # "absent")) /\ shown' \subseteq Codes
      /\ token' \in {token, Nothing} \cup (IF r.op = "poll" /\ r.reply = "claimed" THEN {r.token} ELSE {})
  <2>1. CASE r.op = "start" /\ r.reply = "ok"
    BY <1>1, <2>1 DEF Receive, CodesInStep, Issued
  <2>2. CASE r.op = "poll" /\ r.reply = "claimed"
    <3>1. code' = Nothing /\ token' = r.token /\ shown' = shown
      BY <1>1, <2>2 DEF Receive
    <3> QED BY <1>0, <2>2, <3>1
  <2>3. CASE r.op = "poll" /\ r.reply = "expired"
    <3>1. code' = Nothing /\ token' = token /\ shown' = shown
      BY <1>1, <2>3 DEF Receive
    <3> QED BY <1>0, <2>3, <3>1
  <2>4. CASE r.op = "auth" /\ r.reply = "unauthorized"
    <3>1. code' = code /\ token' = Nothing /\ shown' = shown
      BY <1>1, <2>4 DEF Receive
    <3> QED BY <1>0, <2>4, <3>1
  <2>5. CASE /\ ~(r.op = "start" /\ r.reply = "ok") /\ ~(r.op = "poll" /\ r.reply = "claimed")
             /\ ~(r.op = "poll" /\ r.reply = "expired") /\ ~(r.op = "auth" /\ r.reply = "unauthorized")
    <3>1. code' = code /\ token' = token /\ shown' = shown
      BY <1>1, <2>5 DEF Receive, enrollAgentVars
    <3> QED BY <1>0, <2>5, <3>1
  <2> QED BY <2>1, <2>2, <2>3, <2>4, <2>5
<1>3. call' \in [Calls -> CallRecord] /\ token' \in Tokens \cup {Nothing}
  BY <1>1, <1>2 DEF CallRecord, Idle, Replies
<1>4. EnrollTypeOK'
  BY <1>1, <1>2, <1>3 DEF rowVars, tokenVars
<1>5. AwaitedInStep' /\ CodesInStep'
  BY <1>1, <1>2 DEF AwaitedInStep, CodesInStep, Issued, Idle, rowVars
<1>6. OneTokenAtMost'
  BY <1>1, <1>2 DEF OneTokenAtMost, tokenVars
<1> QED BY <1>4, <1>5, <1>6

\* Nobody waits for it.
LEMMA ForgetInv == ASSUME EnrollIInv, NEW k \in Calls, Forget(k) PROVE EnrollIInv'
<1> USE NothingAssumption, EnrollBoundAssumption DEF EnrollIInv, EnrollTypeOK, Forget, Idle,
      rowVars, tokenVars, enrollAgentVars
<1>1. EnrollTypeOK'
  BY DEF EnrollmentStatuses, CallRecord, Replies
<1>2. AwaitedInStep'
  BY DEF AwaitedInStep, CallRecord
<1>3. OneTokenAtMost'
  BY DEF OneTokenAtMost, AwaitedInStep, CallRecord
<1>4. CodesInStep'
  BY DEF CodesInStep, Issued, CallRecord
<1> QED BY <1>1, <1>2, <1>3, <1>4

\* An error brings no token.
LEMMA CallFailsInv == ASSUME EnrollIInv, NEW k \in Calls, CallFails(k) PROVE EnrollIInv'
<1> USE NothingAssumption, EnrollBoundAssumption DEF EnrollIInv, EnrollTypeOK
<1>1. /\ call' \in [Calls -> CallRecord]
      /\ call'[k].stage = "replied" /\ call'[k].reply = "error" /\ call'[k].op = call[k].op /\ call'[k].token = Nothing
      /\ \A j \in Calls \ {k} : call'[j] = call[j]
  BY ReplyType, "error" \in Replies DEF CallFails, Replies
<1>2. call[k].stage # "free" /\ UNCHANGED <<rowVars, tokenVars, enrollAgentVars, awaited>>
  BY DEF CallFails
<1>3. enrollFaults' \in 0 .. MaxEnrollFaults
  BY DEF CallFails, EnrollFault
<1>4. EnrollTypeOK'
  BY <1>1, <1>2, <1>3 DEF rowVars, tokenVars, enrollAgentVars
<1>5. AwaitedInStep' /\ CodesInStep'
  BY <1>1, <1>2 DEF AwaitedInStep, CodesInStep, Issued, rowVars, enrollAgentVars
<1>6. OneTokenAtMost'
  BY <1>1, <1>2 DEF OneTokenAtMost, rowVars, tokenVars, enrollAgentVars
<1> QED BY <1>4, <1>5, <1>6

\* A code is no token.
LEMMA EnrollStartInv == ASSUME EnrollIInv, NEW k \in Calls, AgentEnrollStart(k) PROVE EnrollIInv'
<1> USE NothingAssumption, EnrollBoundAssumption DEF EnrollIInv, EnrollTypeOK
<1>1. PICK c \in Codes : StartEnrollment(c) /\ Reply(k, "ok", c, Nothing)
  BY DEF AgentEnrollStart
<1>2. /\ call' \in [Calls -> CallRecord]
      /\ call'[k].stage = "replied" /\ call'[k].op = "start" /\ call'[k].code = c
      /\ \A j \in Calls \ {k} : call'[j] = call[j]
  BY <1>1, ReplyType DEF AgentEnrollStart, Replies
<1>3. UNCHANGED <<device, tokenVars, code, token, awaited, enrollFaults>>
  BY DEF AgentEnrollStart
<1>4. EnrollTypeOK'
  BY <1>1, <1>2, <1>3 DEF StartEnrollment, EnrollmentStatuses, tokenVars
<1>5. AwaitedInStep' /\ CodesInStep'
  BY <1>1, <1>2, <1>3 DEF AwaitedInStep, CodesInStep, Issued, StartEnrollment
<1>6. OneTokenAtMost'
  BY <1>2, <1>3 DEF OneTokenAtMost, tokenVars
<1> QED BY <1>4, <1>5, <1>6

\* The count of tokens is right when it is read.
LEMMA EnrollPollInv == ASSUME EnrollIInv, NEW k \in Calls, PollEnrollment(k) PROVE EnrollIInv'
<1> USE NothingAssumption, EnrollBoundAssumption DEF EnrollIInv, EnrollTypeOK
<1> DEFINE c == call[k].code
<1>1. UNCHANGED <<aged, linked, device, tokenVars, enrollAgentVars, awaited, enrollFaults>>
  BY DEF PollEnrollment
<1>2. call[k].stage = "sent" /\ call[k].op = "poll" /\ call[k] \in CallRecord /\ Issued(c)
  BY DEF PollEnrollment, CodesInStep, Issued, CallRecord
<1>3. enrollment' \in [Codes -> EnrollmentStatuses] /\ \A d \in Codes : Issued(d) => Issued(d)'
  BY <1>2 DEF PollEnrollment, EnrollmentStatuses, Issued
<1>4. CASE call' = [call EXCEPT ![k].stage = "read", ![k].total = (live # {})]
  <2>1. call' \in [Calls -> CallRecord]
    BY <1>2, <1>4 DEF CallRecord
  <2>2. call'[k].stage = "read" /\ call'[k].op = "poll" /\ call'[k].total = (live # {})
        /\ call'[k].code = c
        /\ \A j \in Calls \ {k} : call'[j] = call[j]
    BY <1>2, <1>4 DEF CallRecord
  <2>3. EnrollTypeOK'
    BY <1>1, <1>3, <2>1 DEF tokenVars, enrollAgentVars
  <2>4. AwaitedInStep' /\ CodesInStep'
    BY <1>1, <1>2, <1>3, <2>2 DEF AwaitedInStep, CodesInStep, Issued, rowVars, enrollAgentVars
  <2>5. OneTokenAtMost'
    BY <1>1, <2>2 DEF OneTokenAtMost, tokenVars, enrollAgentVars
  <2> QED BY <2>3, <2>4, <2>5
<1>5. CASE Reply(k, enrollment'[c], c, Nothing)
  <2>1. enrollment'[c] \in Replies
    BY <1>2, <1>3 DEF EnrollmentStatuses, Replies, Issued
  <2>2. /\ call' \in [Calls -> CallRecord]
        /\ call'[k].stage = "replied" /\ call'[k].op = "poll" /\ call'[k].token = Nothing
        /\ \A j \in Calls \ {k} : call'[j] = call[j]
    BY <1>2, <1>5, <2>1, ReplyType DEF Issued
  <2>3. EnrollTypeOK'
    BY <1>1, <1>3, <2>2 DEF tokenVars, enrollAgentVars
  <2>4. AwaitedInStep' /\ CodesInStep'
    BY <1>1, <1>2, <1>3, <2>2 DEF AwaitedInStep, CodesInStep, Issued, rowVars, enrollAgentVars
  <2>5. OneTokenAtMost'
    BY <1>1, <2>2 DEF OneTokenAtMost, tokenVars, enrollAgentVars
  <2> QED BY <2>3, <2>4, <2>5
<1> QED BY <1>4, <1>5 DEF PollEnrollment

\* The awaited poll leaves the token it issues and no other; another poll is a stray one.
LEMMA IssueInv == ASSUME EnrollIInv, NEW k \in Calls, IssueDeviceToken(k) PROVE EnrollIInv'
<1> USE NothingAssumption, EnrollBoundAssumption DEF EnrollIInv, EnrollTypeOK
<1>1. call[k].stage = "read" /\ call[k].op = "poll" /\ call[k].code \in Codes \cup {Nothing}
      /\ UNCHANGED <<rowVars, enrollAgentVars, awaited, enrollFaults>>
  BY DEF IssueDeviceToken, CallRecord
<1>2. CASE call[k].code \in linked
  <2>1. NewToken \in Tokens
    BY <1>2 DEF IssueDeviceToken, NewToken, FreshTokens
  <2>2. /\ live' = (IF call[k].total THEN {} ELSE live) \cup {NewToken}
        /\ used' = IF call[k].total THEN {} ELSE used
        /\ revoked' = revoked \ {NewToken}
        /\ stray' = (stray \/ awaited # k)
        /\ Reply(k, "claimed", call[k].code, NewToken)
    BY <1>2 DEF IssueDeviceToken
  <2> HIDE DEF EnrollIInv, EnrollTypeOK
  <2>3. /\ call' \in [Calls -> CallRecord]
        /\ call'[k].stage = "replied" /\ call'[k].op = "poll" /\ call'[k].token = NewToken
        /\ \A j \in Calls \ {k} : call'[j] = call[j]
    BY <1>1, <2>1, <2>2, ReplyType DEF EnrollIInv, EnrollTypeOK, Replies
  <2> USE DEF EnrollIInv, EnrollTypeOK
  <2>4. EnrollTypeOK'
    BY <1>1, <2>1, <2>2, <2>3 DEF rowVars, enrollAgentVars
  <2>5. AwaitedInStep' /\ CodesInStep'
    BY <1>1, <2>3 DEF AwaitedInStep, CodesInStep, Issued, rowVars, enrollAgentVars
  <2>6. OneTokenAtMost'
    <3>1. CASE stray'
      BY <3>1 DEF OneTokenAtMost
    <3>2. CASE ~stray'
      <4>1. awaited = k /\ ~stray
        BY <2>2, <3>2
      <4>2. live' = {NewToken}
        BY <1>1, <2>2, <4>1 DEF OneTokenAtMost, CallRecord
      <4>3. token = Nothing
        BY <1>1, <4>1 DEF AwaitedInStep, CodesInStep, Issued
      <4> QED BY <1>1, <2>3, <4>1, <4>2, <4>3 DEF OneTokenAtMost, enrollAgentVars
    <3> QED BY <3>1, <3>2
  <2> QED BY <2>4, <2>5, <2>6
<1>3. CASE call[k].code \notin linked
  <2>1. Reply(k, "error", Nothing, Nothing) /\ UNCHANGED tokenVars
    BY <1>3 DEF IssueDeviceToken
  <2>2. /\ call' \in [Calls -> CallRecord]
        /\ call'[k].stage = "replied" /\ call'[k].op = "poll" /\ call'[k].token = Nothing
        /\ \A j \in Calls \ {k} : call'[j] = call[j]
    BY <1>1, <2>1, ReplyType DEF Replies
  <2>3. EnrollTypeOK'
    BY <1>1, <2>1, <2>2 DEF rowVars, tokenVars, enrollAgentVars
  <2>4. AwaitedInStep' /\ CodesInStep'
    BY <1>1, <2>2 DEF AwaitedInStep, CodesInStep, Issued, rowVars, enrollAgentVars
  <2>5. OneTokenAtMost'
    BY <1>1, <2>1, <2>2 DEF OneTokenAtMost, tokenVars, enrollAgentVars
  <2> QED BY <2>3, <2>4, <2>5
<1> QED BY <1>2, <1>3

\* No token comes or goes.
LEMMA AuthenticateInv ==
  ASSUME EnrollIInv, NEW k \in Calls, AuthenticateDeviceToken(k) \/ RecordTokenUse(k)
  PROVE  EnrollIInv'
<1> USE NothingAssumption, EnrollBoundAssumption DEF EnrollIInv, EnrollTypeOK
<1>1. call[k] \in CallRecord /\ call[k].op = "auth" /\ call[k].token \in Tokens \cup {Nothing}
      /\ UNCHANGED <<rowVars, live, revoked, stray, enrollAgentVars, awaited, enrollFaults>>
  BY DEF AuthenticateDeviceToken, RecordTokenUse, CallRecord, tokenVars
<1>2. /\ call' \in [Calls -> CallRecord]
      /\ call'[k].stage # "free" /\ call'[k].op = "auth"
      /\ \A j \in Calls \ {k} : call'[j] = call[j]
  <2>1. CASE call' = [call EXCEPT ![k].stage = "read"]
    BY <1>1, <2>1 DEF CallRecord
  <2>2. ASSUME NEW reply \in {"ok", "unauthorized"}, Reply(k, reply, Nothing, call[k].token) PROVE <1>2!:
    BY <1>1, <2>2, ReplyType DEF Replies
  <2> QED BY <2>1, <2>2 DEF AuthenticateDeviceToken, RecordTokenUse
<1>3. used' \subseteq live'
  BY <1>1 DEF AuthenticateDeviceToken, RecordTokenUse, tokenVars
<1>4. EnrollTypeOK'
  BY <1>1, <1>2, <1>3 DEF rowVars, enrollAgentVars
<1>5. AwaitedInStep' /\ CodesInStep'
  BY <1>1, <1>2 DEF AwaitedInStep, CodesInStep, Issued, rowVars, enrollAgentVars
<1>6. OneTokenAtMost'
  BY <1>1, <1>2 DEF OneTokenAtMost, enrollAgentVars
<1> QED BY <1>4, <1>5, <1>6

\* An administrator's action deletes every token, and says so.
LEMMA ClaimInv == ASSUME EnrollIInv, NEW c \in Codes, ClaimEnrollmentCode(c) PROVE EnrollIInv'
<1> USE NothingAssumption, EnrollBoundAssumption DEF EnrollIInv, EnrollTypeOK, ClaimEnrollmentCode,
      Delete,
      rowVars, tokenVars, enrollAgentVars
<1>1. EnrollTypeOK'
  BY DEF EnrollmentStatuses, CallRecord, Replies
<1>2. AwaitedInStep'
  BY DEF AwaitedInStep, CallRecord
<1>3. OneTokenAtMost'
  BY DEF OneTokenAtMost, AwaitedInStep, CallRecord
<1>4. CodesInStep'
  BY DEF CodesInStep, Issued, CallRecord
<1> QED BY <1>1, <1>2, <1>3, <1>4

\* So does this one.
LEMMA DeleteEnrolledInv == ASSUME EnrollIInv, DeleteEnrolledDevice PROVE EnrollIInv'
<1> USE NothingAssumption, EnrollBoundAssumption DEF EnrollIInv, EnrollTypeOK, DeleteEnrolledDevice,
      Delete, EnrollFault,
      rowVars, tokenVars, enrollAgentVars
<1>1. EnrollTypeOK'
  <2>1. enrollFaults' \in 0 .. MaxEnrollFaults
    OBVIOUS
  <2>2. used' \subseteq live'
    OBVIOUS
  <2> QED BY <2>1, <2>2
<1>2. AwaitedInStep'
  BY DEF AwaitedInStep, CallRecord
<1>3. OneTokenAtMost'
  BY DEF OneTokenAtMost, AwaitedInStep, CallRecord
<1>4. CodesInStep'
  BY DEF CodesInStep, Issued, CallRecord
<1> QED BY <1>1, <1>2, <1>3, <1>4

\* Time passes.
LEMMA AgeInv == ASSUME EnrollIInv, NEW c \in Codes, Age(c) PROVE EnrollIInv'
<1> USE NothingAssumption, EnrollBoundAssumption DEF EnrollIInv, EnrollTypeOK, Age, EnrollFault,
      rowVars, tokenVars, enrollAgentVars
<1>1. EnrollTypeOK'
  BY DEF EnrollmentStatuses, CallRecord, Replies
<1>2. AwaitedInStep'
  BY DEF AwaitedInStep, CallRecord
<1>3. OneTokenAtMost'
  BY DEF OneTokenAtMost, AwaitedInStep, CallRecord
<1>4. CodesInStep'
  BY DEF CodesInStep, Issued, CallRecord
<1> QED BY <1>1, <1>2, <1>3, <1>4

\* Nobody has a token yet.
LEMMA EnrollInitInv == EnrollInit => EnrollIInv
<1> SUFFICES ASSUME EnrollInit PROVE EnrollIInv
  OBVIOUS
<1> USE NothingAssumption, EnrollBoundAssumption DEF EnrollInit
<1>1. EnrollTypeOK
  <2>1. enrollFaults \in 0 .. MaxEnrollFaults
    OBVIOUS
  <2>2. Idle \in CallRecord
    BY DEF CallRecord, Idle, Replies
  <2> QED BY <2>1, <2>2 DEF EnrollTypeOK, EnrollmentStatuses
<1> QED BY <1>1 DEF EnrollIInv, Idle, AwaitedInStep, CodesInStep, Issued, OneTokenAtMost

LEMMA EnrollStepInv == EnrollIInv /\ [EnrollNext]_enrollVars => EnrollIInv'
<1> SUFFICES ASSUME EnrollIInv, [EnrollNext]_enrollVars PROVE EnrollIInv'
  OBVIOUS
<1>1. ASSUME NEW k \in Calls, SendStart(k) \/ SendPoll(k) \/ SendAuthenticated(k) PROVE EnrollIInv'
  BY <1>1, SendInv DEF SendStart, SendPoll, SendAuthenticated
<1>2. ASSUME NEW k \in Calls, EnrollServerStep(k) \/ CallFails(k) PROVE EnrollIInv'
  BY <1>2, ForgetInv, CallFailsInv, EnrollStartInv, EnrollPollInv, IssueInv, AuthenticateInv
     DEF EnrollServerStep, AgentEnrollPoll, RequireDeviceAuth
<1>3. CASE PairDevice
  BY <1>3, ClaimInv DEF PairDevice, EnrollIInv, EnrollTypeOK
<1>4. ASSUME NEW c \in Codes, Age(c) PROVE EnrollIInv'
  BY <1>4, AgeInv
<1>5. CASE UNCHANGED enrollVars
  BY <1>5 DEF enrollVars, rowVars, tokenVars, enrollAgentVars, EnrollIInv, EnrollTypeOK, AwaitedInStep,
        CodesInStep, Issued, OneTokenAtMost
<1> QED BY <1>1, <1>2, <1>3, <1>4, <1>5, ReceiveInv, GiveUpInv, DeleteEnrolledInv DEF EnrollNext,
      EnrollAgentStep

LEMMA EnrollInvariance == EnrollSpec => []EnrollIInv
<1> QED BY EnrollInitInv, EnrollStepInv, PTL DEF EnrollSpec

\* A set whose elements are all one has one element at most.
LEMMA AtMostOne == ASSUME NEW S, \A x, y \in S : x = y PROVE Cardinality(S) <= 1
<1>1. CASE S = {}
  BY <1>1, FS_EmptySet
<1>2. ASSUME NEW x \in S PROVE Cardinality(S) <= 1
  <2>1. S = {x}
    OBVIOUS
  <2> QED BY <2>1, FS_Singleton
<1> QED BY <1>1, <1>2

-----------------------------------------------------------------------------
(* DeviceEnrollment: the theorems.                                         *)

\* Every reachable state of the pairing is of the declared types.
THEOREM EnrollmentTyped == EnrollSpec => []EnrollTypeOK
<1>1. EnrollIInv => EnrollTypeOK
  BY DEF EnrollIInv
<1> QED BY <1>1, EnrollInvariance, PTL

\* The token the agent stores is its device's only one, until an administrator
\* deletes it, as long as no poll that the agent gave up on has issued one.
THEOREM SoleToken == EnrollSpec => []StoredTokenIsSole
<1>1. EnrollIInv => StoredTokenIsSole
  BY AtMostOne DEF EnrollIInv, OneTokenAtMost, StoredTokenIsSole
<1> QED BY <1>1, EnrollInvariance, PTL

-----------------------------------------------------------------------------
(* RateLimiter: the inductive invariant.                                   *)

\* What MCDevices says of the limiter.
RateSpec == RateInit /\ [][RateNext]_rateVars

\* The calls of k allowed before its window was made, and late enough to count
\* with those of the window in some interval.
EarlierCalls(k) ==
  {i \in 1 .. Len(granted[k]) - hits[k].count : clock + MaxWait <= granted[k][i] + Window}

\* The window in force has at least the call that made it, all of its calls are
\* at the end of the history, and nothing is allowed in the future.
WindowsCount ==
  \A k \in Clients :
    /\ hits[k] # NoWindow => hits[k].count >= 1
    /\ hits[k].count <= Len(granted[k])
    /\ \A i \in 1 .. Len(granted[k]) : granted[k][i] <= clock

\* Who waits has read the clock, and not too long ago.
ReadingsAreRecent ==
  \A g \in Callers : now[g].waiting => now[g].at <= clock /\ clock <= now[g].at + MaxWait

\* What was allowed before the window in force was so while a call that waited
\* for the lock may have had the reading the window starts from.
WindowsFollow ==
  \A k \in Clients : hits[k] # NoWindow =>
    \A i \in 1 .. Len(granted[k]) - hits[k].count : granted[k][i] + Window <= hits[k].resetAt + MaxWait

\* Only one window before the one in force has calls that still count.
OneWindowBefore == \A k \in Clients : Cardinality(EarlierCalls(k)) <= Limit

RateInv ==
  /\ RateTypeOK /\ WindowsCount /\ ReadingsAreRecent
  /\ WindowsFollow /\ OneWindowBefore /\ NoIntervalExceedsTwoWindows

\* A set of positions of a sequence is finite, and one within another is no larger.
LEMMA PositionsWithin ==
  ASSUME NEW n \in Nat, NEW T \in SUBSET (1 .. n), NEW S \in SUBSET T
  PROVE  /\ IsFiniteSet(T) /\ Cardinality(T) \in Nat
         /\ IsFiniteSet(S) /\ Cardinality(S) \in Nat
         /\ Cardinality(S) <= Cardinality(T)
<1>1. IsFiniteSet(1 .. n) BY FS_Interval
<1>2. IsFiniteSet(T) BY <1>1, FS_Subset
<1>3. IsFiniteSet(S) /\ Cardinality(S) <= Cardinality(T) BY <1>2, FS_Subset
<1> QED BY <1>2, <1>3, FS_CardinalityType

\* The last c positions of n.
LEMMA LastPositions ==
  ASSUME NEW n \in Nat, NEW c \in Nat, c <= n, NEW S \in SUBSET (n - c + 1 .. n)
  PROVE  IsFiniteSet(S) /\ Cardinality(S) <= c /\ Cardinality(S) \in Nat
<1>1. IsFiniteSet(n - c + 1 .. n) /\ Cardinality(n - c + 1 .. n) = c
  <2>1. n - c + 1 \in Int /\ n \in Int OBVIOUS
  <2>2. IsFiniteSet(n - c + 1 .. n)
        /\ Cardinality(n - c + 1 .. n) = IF n - c + 1 > n THEN 0 ELSE n - (n - c + 1) + 1
    BY <2>1, FS_Interval
  <2> QED BY <2>2
<1> QED BY <1>1, FS_Subset, FS_CardinalityType

\* Positions that are in one of two sets are at most as many as both have.
LEMMA AtMostBoth ==
  ASSUME NEW S, NEW T, IsFiniteSet(S), IsFiniteSet(T), NEW U \in SUBSET (S \cup T)
  PROVE  Cardinality(U) <= Cardinality(S) + Cardinality(T)
<1>1. IsFiniteSet(S \cup T)
      /\ Cardinality(S \cup T) = Cardinality(S) + Cardinality(T) - Cardinality(S \cap T)
  BY FS_Union
<1>2. IsFiniteSet(S \cap T) BY FS_Intersection
<1>3. Cardinality(S) \in Nat /\ Cardinality(T) \in Nat /\ Cardinality(S \cap T) \in Nat
      /\ Cardinality(S \cup T) \in Nat
  BY <1>1, <1>2, FS_CardinalityType
<1>4. Cardinality(U) <= Cardinality(S \cup T) /\ Cardinality(U) \in Nat
  BY <1>1, FS_Subset, FS_CardinalityType
<1> QED BY <1>1, <1>3, <1>4

\* What the bounds are.
LEMMA BoundsAreNat ==
  /\ Limit \in Nat /\ Window \in Nat /\ MapLimit \in Nat /\ MaxWait \in Nat /\ MaxTime \in Nat
  /\ Limit >= 1
BY LimiterAssumption DEF LimiterAssumption

\* Times are numbers.
LEMMA TimesAreNat == \A t \in Times : t \in Nat
BY BoundsAreNat DEF Times

\* There being no window is a value that the map may have.
LEMMA NoWindowIsAWindow == LimiterAssumption => NoWindow \in [count : 0 .. Limit, resetAt : 0 .. MaxTime + Window]
BY DEF LimiterAssumption, NoWindow

\* A goroutine that does nothing.
LEMMA NoCallerIsACaller == NoCaller \in [waiting : BOOLEAN, client : Clients, at : Times] /\ ~NoCaller.waiting
<1>1. (CHOOSE k \in Clients : TRUE) \in Clients BY LimiterAssumption DEF LimiterAssumption
<1> QED BY <1>1, LimiterAssumption DEF LimiterAssumption, NoCaller, Times

\* Nothing is allowed at the start.
LEMMA RateInitially == RateInit => RateInv
<1> SUFFICES ASSUME RateInit PROVE RateInv OBVIOUS
<1> USE LimiterAssumption DEF LimiterAssumption, RateInit
<1>1. RateTypeOK
  BY NoWindowIsAWindow, NoCallerIsACaller DEF RateTypeOK, Times
<1>2. WindowsCount /\ WindowsFollow BY DEF WindowsCount, WindowsFollow, NoWindow
<1>3. ReadingsAreRecent BY NoCallerIsACaller DEF ReadingsAreRecent
<1>4. OneWindowBefore
  <2> SUFFICES ASSUME NEW k \in Clients PROVE Cardinality(EarlierCalls(k)) <= Limit BY DEF OneWindowBefore
  <2>1. EarlierCalls(k) = {} BY DEF EarlierCalls, NoWindow
  <2> QED BY <2>1, FS_EmptySet
<1>5. NoIntervalExceedsTwoWindows
  <2> SUFFICES ASSUME NEW k \in Clients, NEW t \in Times
               PROVE  Cardinality(GrantedFrom(k, t)) <= 2 * Limit
    BY DEF NoIntervalExceedsTwoWindows
  <2>1. GrantedFrom(k, t) = {} BY DEF GrantedFrom
  <2> QED BY <2>1, FS_EmptySet
<1> QED BY <1>1, <1>2, <1>3, <1>4, <1>5 DEF RateInv

\* As the clock goes on, fewer of the earlier calls still count.
LEMMA TickKeeps == ASSUME RateInv, Tick PROVE RateInv'
<1> USE LimiterAssumption DEF LimiterAssumption, RateInv, Tick
<1>1. RateTypeOK' BY DEF RateTypeOK, Times
<1>2. WindowsCount'
  <2>1. clock \in Nat /\ clock' = clock + 1 BY TimesAreNat DEF RateTypeOK
  <2>2. ASSUME NEW k \in Clients, NEW i \in 1 .. Len(granted[k]) PROVE granted[k][i] <= clock'
    <3> HIDE DEF LimiterAssumption, RateInv, Tick
    <3>1. granted[k] \in Seq(Times) BY DEF RateInv, RateTypeOK
    <3>2. granted[k][i] \in Nat BY <3>1, TimesAreNat
    <3>3. granted[k][i] <= clock BY DEF RateInv, WindowsCount
    <3> QED BY <2>1, <3>2, <3>3
  <2> QED BY <2>2 DEF WindowsCount
<1>3. ReadingsAreRecent' BY DEF ReadingsAreRecent, RateTypeOK, Times
<1>4. WindowsFollow' BY DEF WindowsFollow
<1>5. OneWindowBefore'
  <2> SUFFICES ASSUME NEW k \in Clients PROVE Cardinality(EarlierCalls(k)') <= Limit BY DEF OneWindowBefore
  <2> DEFINE n == Len(granted[k])
  <2>1. n \in Nat /\ hits[k].count \in Nat BY DEF RateTypeOK
  <2>2. EarlierCalls(k) \in SUBSET (1 .. n) BY <2>1 DEF EarlierCalls
  <2>3. EarlierCalls(k)' \in SUBSET EarlierCalls(k)
    <3> SUFFICES ASSUME NEW i \in EarlierCalls(k)' PROVE i \in EarlierCalls(k) OBVIOUS
    <3>1. i \in 1 .. n - hits[k].count /\ clock + 1 + MaxWait <= granted[k][i] + Window
      BY DEF EarlierCalls
    <3>2. clock \in Nat /\ granted[k][i] \in Nat
      <4>1. granted[k] \in Seq(Times) /\ clock \in Times BY DEF RateTypeOK
      <4>2. i \in 1 .. Len(granted[k]) BY <3>1, <2>1
      <4> QED BY <4>1, <4>2, TimesAreNat
    <3>3. clock + MaxWait <= granted[k][i] + Window BY <3>1, <3>2, BoundsAreNat
    <3> QED BY <3>1, <3>3 DEF EarlierCalls
  <2>4. Cardinality(EarlierCalls(k)) \in Nat /\ Cardinality(EarlierCalls(k)') \in Nat
        /\ Cardinality(EarlierCalls(k)') <= Cardinality(EarlierCalls(k))
    <3> HIDE DEF n
    <3> QED BY <2>1, <2>2, <2>3, PositionsWithin
  <2> QED BY <2>4 DEF OneWindowBefore
<1>6. NoIntervalExceedsTwoWindows' BY DEF NoIntervalExceedsTwoWindows, GrantedFrom
<1> QED BY <1>1, <1>2, <1>3, <1>4, <1>5, <1>6

\* A call reads the clock, and waits.
LEMMA ArriveKeeps ==
  ASSUME RateInv, NEW g \in Callers, NEW k \in Clients, Arrive(g, k) PROVE RateInv'
<1> USE LimiterAssumption DEF LimiterAssumption, RateInv, Arrive
<1>1. RateTypeOK' BY DEF RateTypeOK, Times
<1>2. WindowsCount' /\ WindowsFollow' BY DEF WindowsCount, WindowsFollow
<1>3. ReadingsAreRecent'
  <2> SUFFICES ASSUME NEW h \in Callers, now'[h].waiting
               PROVE  now'[h].at <= clock /\ clock <= now'[h].at + MaxWait
    BY DEF ReadingsAreRecent
  <2>1. CASE h = g
    <3>1. now'[h].at = clock BY <2>1 DEF RateTypeOK
    <3> QED BY <3>1, BoundsAreNat DEF RateTypeOK, Times
  <2>2. CASE h # g
    <3>1. now'[h] = now[h] BY <2>2 DEF RateTypeOK
    <3> QED BY <3>1 DEF ReadingsAreRecent
  <2> QED BY <2>1, <2>2
<1>4. OneWindowBefore' BY DEF OneWindowBefore, EarlierCalls
<1>5. NoIntervalExceedsTwoWindows' BY DEF NoIntervalExceedsTwoWindows, GrantedFrom
<1> QED BY <1>1, <1>2, <1>3, <1>4, <1>5

\* The interval bound follows for a client whose history grew by a call made now.
LEMMA GrantIsBounded ==
  ASSUME RateInv, NEW k \in Clients, NEW t \in Times,
         hits'[k].count \in 0 .. Limit, hits'[k].count >= 1,
         UNCHANGED clock, granted'[k] = Append(granted[k], clock),
         hits'[k].count <= Len(granted'[k]),
         Cardinality(EarlierCalls(k)') <= Limit
  PROVE  Cardinality(GrantedFrom(k, t)') <= 2 * Limit
<1> DEFINE n == Len(granted[k])
<1>1. n \in Nat /\ granted[k] \in Seq(Times) /\ clock \in Times /\ Limit \in Nat
  BY LimiterAssumption DEF LimiterAssumption, RateInv, RateTypeOK
<1>2. Len(granted'[k]) = n + 1 /\ granted'[k][n + 1] = clock
      /\ \A i \in 1 .. n : granted'[k][i] = granted[k][i]
  BY <1>1
<1>3. CASE t <= clock /\ clock + MaxWait <= t + Window
  <2> DEFINE c == hits'[k].count
             L == (n + 1) - c + 1 .. n + 1
  <2>1. c \in Nat /\ c <= n + 1 /\ c <= Limit BY <1>1, <1>2, LimiterAssumption DEF LimiterAssumption
  <2>2. EarlierCalls(k)' \in SUBSET (1 .. n + 1)
    BY <1>1, <1>2, <2>1 DEF EarlierCalls
  <2>3. IsFiniteSet(EarlierCalls(k)') /\ Cardinality(EarlierCalls(k)') \in Nat
    <3>1. n + 1 \in Nat BY <1>1
    <3>2. EarlierCalls(k)' \in SUBSET EarlierCalls(k)' OBVIOUS
    <3> HIDE DEF n
    <3> QED BY <2>2, <3>1, <3>2, PositionsWithin
  <2>4. IsFiniteSet(L) /\ Cardinality(L) <= c /\ Cardinality(L) \in Nat
    <3>1. n + 1 \in Nat /\ L \in SUBSET ((n + 1) - c + 1 .. n + 1) BY <1>1
    <3> HIDE DEF n, c, L
    <3> QED BY <2>1, <3>1, LastPositions
  <2>5. GrantedFrom(k, t)' \in SUBSET (EarlierCalls(k)' \cup L)
    <3> SUFFICES ASSUME NEW i \in GrantedFrom(k, t)', i \notin L PROVE i \in EarlierCalls(k)'
      OBVIOUS
    <3>1. i \in 1 .. n + 1 /\ t <= granted'[k][i] BY <1>2 DEF GrantedFrom
    <3>2. i \in 1 .. (n + 1) - c BY <3>1, <2>1, <1>1
    <3>3. granted'[k][i] \in Times BY <3>1, <1>1, <1>2
    <3>4. clock' + MaxWait <= granted'[k][i] + Window
      <4>1. clock \in Nat /\ t \in Nat /\ granted'[k][i] \in Nat BY <1>1, <3>3, TimesAreNat
      <4> QED BY <4>1, <1>3, <3>1, BoundsAreNat
    <3> QED BY <3>2, <3>4, <1>2 DEF EarlierCalls
  <2>6. Cardinality(GrantedFrom(k, t)') <= Cardinality(EarlierCalls(k)') + Cardinality(L)
        /\ Cardinality(GrantedFrom(k, t)') \in Nat
    <3> HIDE DEF L
    <3>1. IsFiniteSet(EarlierCalls(k)' \cup L) BY <2>3, <2>4, FS_Union
    <3> QED BY <2>3, <2>4, <2>5, <3>1, AtMostBoth, FS_Subset, FS_CardinalityType
  <2> HIDE DEF L, c
  <2> QED BY <2>1, <2>3, <2>4, <2>6, <1>1
<1>4. CASE ~(t <= clock /\ clock + MaxWait <= t + Window)
  <2>1. GrantedFrom(k, t)' = GrantedFrom(k, t) BY <1>1, <1>2, <1>4 DEF GrantedFrom
  <2> QED BY <2>1 DEF RateInv, NoIntervalExceedsTwoWindows
<1> QED BY <1>3, <1>4

\* A window that is dropped is over by the reading of the call that drops it.
LEMMA EvictDropsOver ==
  ASSUME RateInv, NEW t \in Times, NEW k \in Clients
  PROVE  Evict(t)[k] = hits[k] \/ (Evict(t)[k] = NoWindow /\ Over(hits[k], t))
BY DEF RateInv, RateTypeOK, Evict

\* Without the windows that have expired, the map is one.
LEMMA EvictIsTyped ==
  ASSUME RateInv, NEW t \in Times
  PROVE  Evict(t) \in [Clients -> [count : 0 .. Limit, resetAt : 0 .. MaxTime + Window]]
BY NoWindowIsAWindow, LimiterAssumption DEF RateInv, RateTypeOK, Evict

\* What counts of the calls before the window of k, once the window is over: only
\* calls of that window.
LEMMA OverLeavesOneWindow ==
  ASSUME RateInv, NEW k \in Clients, NEW t \in Times, t <= clock, Over(hits[k], t),
         NEW S \in SUBSET (1 .. Len(granted[k])),
         \A i \in S : clock + MaxWait <= granted[k][i] + Window
  PROVE  Cardinality(S) <= Limit
<1> DEFINE n == Len(granted[k])
           c == hits[k].count
<1>1. /\ n \in Nat /\ c \in Nat /\ c <= Limit /\ c <= n
      /\ clock \in Nat /\ t \in Nat /\ hits[k].resetAt \in Nat
      /\ \A i \in 1 .. n : granted[k][i] \in Nat
  <2>1. granted[k] \in Seq(Times) /\ clock \in Times BY DEF RateInv, RateTypeOK
  <2>2. hits[k].count \in 0 .. Limit /\ hits[k].resetAt \in 0 .. MaxTime + Window
    BY DEF RateInv, RateTypeOK
  <2> QED BY <2>1, <2>2, TimesAreNat, BoundsAreNat DEF RateInv, WindowsCount
<1>2. CASE hits[k] = NoWindow
  <2>1. S \in SUBSET EarlierCalls(k) BY <1>2, <1>1 DEF EarlierCalls, NoWindow
  <2>2. EarlierCalls(k) \in SUBSET (1 .. n) BY <1>1 DEF EarlierCalls
  <2>3. Cardinality(S) <= Cardinality(EarlierCalls(k)) /\ Cardinality(S) \in Nat
        /\ Cardinality(EarlierCalls(k)) \in Nat
    <3> HIDE DEF n
    <3> QED BY <1>1, <2>1, <2>2, PositionsWithin
  <2> QED BY <2>3, BoundsAreNat DEF RateInv, OneWindowBefore
<1>3. CASE hits[k] # NoWindow
  <2>1. \A i \in 1 .. n - c : granted[k][i] + Window <= hits[k].resetAt + MaxWait
    BY <1>3 DEF RateInv, WindowsFollow
  <2>2. S \in SUBSET (n - c + 1 .. n)
    <3> SUFFICES ASSUME NEW i \in S, i \notin n - c + 1 .. n PROVE FALSE OBVIOUS
    <3>1. i \in 1 .. n - c BY <1>1
    <3>2. granted[k][i] \in Nat BY <1>1
    <3>3. granted[k][i] + Window <= hits[k].resetAt + MaxWait BY <2>1, <3>1
    <3>4. hits[k].resetAt < clock BY <1>1 DEF Over
    <3>5. clock + MaxWait <= granted[k][i] + Window OBVIOUS
    <3> DEFINE a == granted[k][i]
               r == hits[k].resetAt
    <3>6. a \in Nat /\ r \in Nat /\ clock \in Nat /\ Window \in Nat /\ MaxWait \in Nat
      BY <1>1, <3>2, BoundsAreNat
    <3>7. a + Window <= r + MaxWait /\ r < clock /\ clock + MaxWait <= a + Window
      BY <3>3, <3>4, <3>5
    <3> HIDE DEF a, r
    <3> QED BY <3>6, <3>7
  <2>3. Cardinality(S) <= c /\ Cardinality(S) \in Nat
    <3> HIDE DEF n, c
    <3> QED BY <1>1, <2>2, LastPositions
  <2> QED BY <1>1, <2>3, BoundsAreNat
<1> QED BY <1>2, <1>3

\* A call that makes a window of its client, counts in the one there is, or is refused.
LEMMA AllowKeeps == ASSUME RateInv, NEW g \in Callers, Allow(g) PROVE RateInv'
<1> DEFINE k == now[g].client
           t == now[g].at
           kept == Evict(t)
           w == kept[k]
           fresh == w = NoWindow \/ Over(w, t)
           next == IF fresh THEN [count |-> 1, resetAt |-> t + Window] ELSE [w EXCEPT !.count = @ + 1]
           grants == fresh \/ w.count < Limit
           Windows == [count : 0 .. Limit, resetAt : 0 .. MaxTime + Window]
<1>1. /\ k \in Clients /\ t \in Times /\ t \in Nat /\ clock \in Times /\ clock \in Nat
      /\ t <= clock /\ clock <= t + MaxWait
      /\ kept \in [Clients -> Windows]
      /\ UNCHANGED clock /\ now' = [now EXCEPT ![g] = NoCaller]
  <2>1. k \in Clients /\ t \in Times /\ clock \in Times BY DEF RateInv, RateTypeOK
  <2>2. t <= clock /\ clock <= t + MaxWait BY DEF Allow, RateInv, ReadingsAreRecent
  <2> QED BY <2>1, <2>2, EvictIsTyped, TimesAreNat DEF Allow
<1>2. /\ granted' = IF grants THEN [granted EXCEPT ![k] = Append(@, clock)] ELSE granted
      /\ hits' = IF grants THEN [kept EXCEPT ![k] = next] ELSE kept
  <2>1. hits' = IF ~grants THEN kept ELSE [kept EXCEPT ![k] = next] BY DEF Allow
  <2>2. granted' = IF grants THEN [granted EXCEPT ![k] = Append(@, clock)] ELSE granted BY DEF Allow
  <2> HIDE DEF grants, next, kept
  <2> QED BY <2>1, <2>2
<1>3. /\ w \in Windows
      /\ ~fresh => w = hits[k] /\ w # NoWindow
      /\ fresh => hits[k] = NoWindow \/ Over(hits[k], t)
  BY <1>1, EvictDropsOver
<1>4. /\ fresh => next = [count |-> 1, resetAt |-> t + Window]
      /\ ~fresh /\ grants => next = [count |-> w.count + 1, resetAt |-> w.resetAt] /\ w.count < Limit
      /\ fresh => grants
  BY <1>3
<1> HIDE DEF fresh, next, grants, w, kept, k, t
<1>5. next \in Windows \/ ~grants
  <2>1. CASE fresh
    <3>1. t + Window \in 0 .. MaxTime + Window /\ 1 \in 0 .. Limit
      BY <1>1, BoundsAreNat DEF Times
    <3> QED BY <2>1, <3>1, <1>4
  <2>2. CASE ~fresh /\ grants
    <3>1. w.count + 1 \in 0 .. Limit BY <1>3, <1>4, <2>2, BoundsAreNat
    <3> QED BY <1>3, <1>4, <2>2, <3>1
  <2> QED BY <2>1, <2>2
<1>6. RateTypeOK'
  <2>1. hits' \in [Clients -> Windows] BY <1>1, <1>2, <1>5
  <2>2. now' \in [Callers -> [waiting : BOOLEAN, client : Clients, at : Times]]
    BY <1>1, NoCallerIsACaller DEF RateInv, RateTypeOK
  <2>3. granted' \in [Clients -> Seq(Times)]
    <3>1. granted[k] \in Seq(Times) /\ granted \in [Clients -> Seq(Times)]
      BY <1>1 DEF RateInv, RateTypeOK
    <3>2. Append(granted[k], clock) \in Seq(Times) BY <3>1, <1>1
    <3> QED BY <1>2, <3>1, <3>2
  <2> QED BY <1>1, <2>1, <2>2, <2>3 DEF RateTypeOK
<1>7. ReadingsAreRecent'
  <2> SUFFICES ASSUME NEW h \in Callers, now'[h].waiting
               PROVE  now'[h].at <= clock /\ clock <= now'[h].at + MaxWait
    BY <1>1 DEF ReadingsAreRecent
  <2>1. h # g BY <1>1, NoCallerIsACaller DEF RateInv, RateTypeOK
  <2>2. now'[h] = now[h] BY <2>1, <1>1 DEF RateInv, RateTypeOK
  <2> QED BY <2>2 DEF RateInv, ReadingsAreRecent
<1>8. \A j \in Clients :
        /\ j # k \/ ~grants => hits'[j] = kept[j] /\ granted'[j] = granted[j]
        /\ j = k /\ grants => hits'[j] = next /\ granted'[j] = Append(granted[k], clock)
  BY <1>1, <1>2 DEF RateInv, RateTypeOK
<1>9. ASSUME NEW j \in Clients
      PROVE  /\ WindowsCount!(j)' /\ WindowsFollow!(j)'
             /\ Cardinality(EarlierCalls(j)') <= Limit
  <2> DEFINE n == Len(granted[j])
             c == hits[j].count
  <2>1. /\ granted[j] \in Seq(Times) /\ n \in Nat /\ hits[j] \in Windows
        /\ \A i \in 1 .. n : granted[j][i] \in Nat /\ granted[j][i] <= clock
        /\ hits[j].count \in Nat /\ hits[j].resetAt \in Nat
    <3>1. granted[j] \in Seq(Times) /\ hits[j] \in Windows BY DEF RateInv, RateTypeOK
    <3>2. hits[j].count \in Nat /\ hits[j].resetAt \in Nat BY <3>1, BoundsAreNat
    <3> QED BY <3>1, <3>2, TimesAreNat DEF RateInv, WindowsCount
  <2>2. CASE hits'[j] = hits[j] /\ granted'[j] = granted[j]
    <3>1. EarlierCalls(j)' = EarlierCalls(j) BY <2>2, <1>1 DEF EarlierCalls
    <3> QED BY <3>1, <2>2, <1>1 DEF RateInv, WindowsCount, WindowsFollow, OneWindowBefore
  <2>3. CASE hits'[j] = NoWindow /\ Over(hits[j], t) /\ granted'[j] = granted[j]
    <3>1. EarlierCalls(j)' \in SUBSET (1 .. n)
          /\ \A i \in EarlierCalls(j)' : clock + MaxWait <= granted[j][i] + Window
      BY <2>1, <2>3, <1>1 DEF EarlierCalls, NoWindow
    <3>2. Cardinality(EarlierCalls(j)') <= Limit BY <3>1, <2>3, <1>1, OverLeavesOneWindow
    <3> QED BY <3>2, <2>1, <2>3, <1>1 DEF WindowsCount, WindowsFollow, NoWindow
  <2>4. CASE j = k /\ fresh
    <3>1. /\ hits'[j] = [count |-> 1, resetAt |-> t + Window]
          /\ granted'[j] = Append(granted[j], clock) /\ grants
      BY <2>4, <1>4, <1>8
    <3>2. /\ Len(granted'[j]) = n + 1 /\ granted'[j][n + 1] = clock
          /\ \A i \in 1 .. n : granted'[j][i] = granted[j][i]
      BY <3>1, <2>1
    <3>3. EarlierCalls(j)' \in SUBSET (1 .. n)
          /\ \A i \in EarlierCalls(j)' : clock + MaxWait <= granted[j][i] + Window
      BY <3>1, <3>2, <2>1, <1>1 DEF EarlierCalls
    <3>4. Cardinality(EarlierCalls(j)') <= Limit
      <4>1. CASE Over(hits[j], t) BY <4>1, <3>3, <1>1, OverLeavesOneWindow
      <4>2. CASE hits[j] = NoWindow
        <5>1. EarlierCalls(j)' = EarlierCalls(j)
          BY <4>2, <3>1, <3>2, <2>1, <1>1 DEF EarlierCalls, NoWindow
        <5> QED BY <5>1 DEF RateInv, OneWindowBefore
      <4> QED BY <4>1, <4>2, <2>4, <1>3
    <3>5. \A i \in 1 .. n : granted'[j][i] + Window <= t + Window + MaxWait
      <4> SUFFICES ASSUME NEW i \in 1 .. n PROVE granted'[j][i] + Window <= t + Window + MaxWait
        OBVIOUS
      <4> DEFINE a == granted[j][i]
      <4>1. granted'[j][i] = a /\ a \in Nat /\ a <= clock BY <3>2, <2>1
      <4> HIDE DEF a
      <4> QED BY <4>1, <1>1, BoundsAreNat
    <3> QED BY <3>1, <3>2, <3>4, <3>5, <2>1, <1>1 DEF WindowsCount, WindowsFollow
  <2>5. CASE j = k /\ ~fresh /\ grants
    <3>1. /\ hits'[j] = [count |-> hits[j].count + 1, resetAt |-> hits[j].resetAt]
          /\ granted'[j] = Append(granted[j], clock) /\ hits[j] # NoWindow
      BY <2>5, <1>3, <1>4, <1>8
    <3>2. /\ Len(granted'[j]) = n + 1 /\ granted'[j][n + 1] = clock
          /\ \A i \in 1 .. n : granted'[j][i] = granted[j][i]
      BY <3>1, <2>1
    <3>3. (n + 1) - (c + 1) = n - c /\ c \in Nat
      <4>1. n \in Nat /\ c \in Nat BY <2>1
      <4> HIDE DEF n, c
      <4> QED BY <4>1
    <3>4. /\ hits[j].count >= 1 /\ hits[j].count <= n
          /\ \A i \in 1 .. n - hits[j].count : granted[j][i] + Window <= hits[j].resetAt + MaxWait
      BY <3>1 DEF RateInv, WindowsCount, WindowsFollow
    <3>5. hits'[j].count = c + 1 /\ hits'[j].resetAt = hits[j].resetAt /\ hits'[j].count >= 1
      BY <3>1, <3>3
    <3>6. 1 .. Len(granted'[j]) - hits'[j].count = 1 .. n - c BY <3>2, <3>3, <3>5
    <3>7. \A i \in 1 .. n - c : i \in 1 .. n /\ granted'[j][i] = granted[j][i]
      <4>1. n \in Nat /\ c \in Nat BY <2>1
      <4>2. \A i \in 1 .. n - c : i \in 1 .. n
        <5> HIDE DEF n, c
        <5> QED BY <4>1
      <4> QED BY <3>2, <4>2
    <3>8. EarlierCalls(j)' = EarlierCalls(j) BY <3>6, <3>7, <1>1 DEF EarlierCalls
    <3>9. WindowsFollow!(j)' BY <3>4, <3>5, <3>6, <3>7 DEF WindowsFollow
    <3>10. hits'[j].count <= Len(granted'[j])
      <4>1. n \in Nat /\ c \in Nat /\ c <= n BY <2>1, <3>4
      <4>2. c + 1 <= n + 1
        <5> HIDE DEF n, c
        <5> QED BY <4>1
      <4> QED BY <4>2, <3>2, <3>5
    <3>11. ASSUME NEW i \in 1 .. Len(granted'[j]) PROVE granted'[j][i] <= clock
      <4>1. n \in Nat /\ i \in 1 .. n + 1 BY <3>2, <2>1
      <4>2. i \in 1 .. n \/ i = n + 1
        <5> HIDE DEF n
        <5> QED BY <4>1
      <4>3. clock \in Nat BY <1>1
      <4> QED BY <4>2, <4>3, <3>2, <2>1
    <3> QED BY <3>5, <3>8, <3>9, <3>10, <3>11, <1>1 DEF RateInv, OneWindowBefore
  <2>6. CASE j # k \/ ~grants
    <3>1. /\ hits'[j] = hits[j] \/ (hits'[j] = NoWindow /\ Over(hits[j], t))
          /\ granted'[j] = granted[j]
      BY <2>6, <1>1, <1>8, EvictDropsOver DEF kept
    <3> QED BY <3>1, <2>2, <2>3
  <2> QED BY <2>4, <2>5, <2>6, <1>4
<1>10. NoIntervalExceedsTwoWindows'
  <2> SUFFICES ASSUME NEW j \in Clients, NEW u \in Times
               PROVE  Cardinality(GrantedFrom(j, u)') <= 2 * Limit
    BY DEF NoIntervalExceedsTwoWindows
  <2>1. CASE j # k \/ ~grants
    <3>1. GrantedFrom(j, u)' = GrantedFrom(j, u) BY <2>1, <1>8 DEF GrantedFrom
    <3> QED BY <3>1 DEF RateInv, NoIntervalExceedsTwoWindows
  <2>2. CASE j = k /\ grants
    <3>1. hits'[j].count \in 0 .. Limit BY <1>6 DEF RateTypeOK
    <3>2. hits'[j].count <= Len(granted'[j]) /\ Cardinality(EarlierCalls(j)') <= Limit
      BY <1>9
    <3>3. hits'[j].count >= 1
      <4>1. CASE fresh BY <4>1, <2>2, <1>4, <1>8
      <4>2. CASE ~fresh
        <5>1. hits'[j].count = w.count + 1 BY <4>2, <2>2, <1>4, <1>8
        <5> QED BY <5>1, <1>3, BoundsAreNat
      <4> QED BY <4>1, <4>2
    <3>4. granted'[j] = Append(granted[j], clock) BY <2>2, <1>8
    <3> QED BY <3>1, <3>2, <3>3, <3>4, <1>1, GrantIsBounded
  <2> QED BY <2>1, <2>2
<1> QED BY <1>6, <1>7, <1>9, <1>10 DEF RateInv, WindowsCount, WindowsFollow, OneWindowBefore

\* Every step of the limiter keeps the invariant.
LEMMA RateInductive == RateInv /\ [RateNext]_rateVars => RateInv'
<1> SUFFICES ASSUME RateInv, [RateNext]_rateVars PROVE RateInv' OBVIOUS
<1>1. CASE Tick BY <1>1, TickKeeps
<1>2. ASSUME NEW g \in Callers, NEW k \in Clients, Arrive(g, k) PROVE RateInv'
  BY <1>2, ArriveKeeps
<1>3. ASSUME NEW g \in Callers, Allow(g) PROVE RateInv' BY <1>3, AllowKeeps
<1>4. CASE UNCHANGED rateVars
  BY <1>4 DEF rateVars, RateInv, RateTypeOK, WindowsCount, ReadingsAreRecent, WindowsFollow,
    OneWindowBefore, EarlierCalls, NoIntervalExceedsTwoWindows, GrantedFrom
<1> QED BY <1>1, <1>2, <1>3, <1>4 DEF RateNext

\* A client gets no more than two windows' worth of calls in any interval shorter
\* than a window by the longest wait for the lock, however its calls and the
\* dropping of windows come in turn. About allow.
THEOREM AtMostTwoWindows == RateSpec => [](RateTypeOK /\ NoIntervalExceedsTwoWindows)
<1>1. RateInv => RateTypeOK /\ NoIntervalExceedsTwoWindows BY DEF RateInv
<1> QED BY <1>1, RateInitially, RateInductive, PTL DEF RateSpec

-----------------------------------------------------------------------------
(* The components together, as MCDevices composes them.                    *)

\* Whichever component moves, each of them does what its specification says or
\* nothing: what is proved of one holds of the whole.
THEOREM ComponentsImplemented == Spec => CommandSpec /\ EnrollSpec /\ AttestSpec /\ RateSpec /\ UpdateSpec
<1>1. Init => CommandInit /\ EnrollInit /\ AttestInit /\ RateInit /\ UpdateInit
  BY DEF Init
<1>2. [Next]_vars => /\ [CommandNext]_commandVars /\ [EnrollNext]_enrollVars /\ [AttestNext]_attestVars
                     /\ [RateNext]_rateVars /\ [UpdateNext]_updateVars
  BY DEF Next, vars, Commanding, Enrolling, Attesting, Limiting, Updating
<1> QED BY <1>1, <1>2, PTL DEF Spec, CommandSpec, EnrollSpec, AttestSpec, RateSpec, UpdateSpec

\* Every reachable state at the devices' side is of the declared types.
THEOREM DevicesTyped == Spec => []TypeOK
<1>1. CommandTypeOK /\ EnrollTypeOK /\ AttestTypeOK /\ RateTypeOK /\ UpdateTypeOK => TypeOK
  BY DEF TypeOK
<1> QED BY <1>1, ComponentsImplemented, CommandsTyped, EnrollmentTyped, AttestTyped, AtMostTwoWindows,
        UpdateTyped, PTL

\* Whichever component moves, what is promised of each of them holds.
THEOREM DevicesSafe ==
  Spec => /\ [](/\ SucceededIsDone /\ AcknowledgedIsHeld /\ StoredTokenIsSole
                /\ AttestedIsTrusted /\ AttestedIsGolden /\ QuoteHasKey
                /\ NoIntervalExceedsTwoWindows /\ RunningCanBoot /\ NewestEntryIsWhole)
          /\ ResultIsFinal
BY ComponentsImplemented, SuccessIsTrue, AcknowledgementIsTrue, ResultsStay, SoleToken, OnlyTrusted, OnlyGolden,
   QuotesHaveKey, AtMostTwoWindows, BootableAgain, NewestIsWhole, PTL

=============================================================================
