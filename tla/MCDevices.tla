----------------------------- MODULE MCDevices -----------------------------
(***************************************************************************)
(* The five components at a device's side of the server, for TLC. They     *)
(* share no state, so a step of one changes nothing of another, and to let *)
(* one of them move, chosen at the start, shows what letting all of them   *)
(* move shows.                                                             *)
(***************************************************************************)
EXTENDS DeviceCommands, DeviceEnrollment, Attestation, RateLimiter, ABUpdate

VARIABLE part    \* the component that moves

Init ==
  /\ part \in {"commands", "enrollment", "attestation", "limiter", "updater"}
  /\ CommandInit /\ EnrollInit /\ RateInit /\ UpdateInit
  /\ AttestInit /\ boot = CHOOSE m \in Measured : m.pcr7 = Unset

Commanding(A) == part = "commands" /\ A /\ UNCHANGED <<part, enrollVars, attestVars, rateVars, updateVars>>
Enrolling(A) == part = "enrollment" /\ A /\ UNCHANGED <<part, commandVars, attestVars, rateVars, updateVars>>
Attesting(A) == part = "attestation" /\ A /\ UNCHANGED <<part, commandVars, enrollVars, rateVars, updateVars>>
Limiting(A) == part = "limiter" /\ A /\ UNCHANGED <<part, commandVars, enrollVars, attestVars, updateVars>>
Updating(A) == part = "updater" /\ A /\ UNCHANGED <<part, commandVars, enrollVars, attestVars, rateVars>>

Next ==
  \/ Commanding(CommandNext) \/ Enrolling(EnrollNext) \/ Attesting(AttestNext)
  \/ Limiting(RateNext) \/ Updating(UpdateNext)

vars == <<part, commandVars, enrollVars, attestVars, rateVars, updateVars>>

\* The requests of the two components are numbered alike.
ASSUME SameRequestsAssumption == Requests = Calls

\* The agent's main loop, its update thread, the service manager and the
\* server's goroutines run; a machine that is told to go down goes down. As one
\* component moves, fairness to a disjunction over components is fairness to each.
Agent == Commanding(MainStep) \/ Enrolling(EnrollAgentStep) \/ Attesting(AttestAgentStep)
Server(k) == Enrolling(EnrollServerStep(k)) \/ Attesting(AttestServerStep(k))

Fairness ==
  /\ WF_vars(Agent)
  /\ WF_vars(Commanding(WorkerStep))
  /\ WF_vars(Commanding(PairAgain \/ StartAgent \/ Shutdown))
  /\ \A k \in Calls : WF_vars(Server(k))

Spec == Init /\ [][Next]_vars /\ Fairness

TypeOK == CommandTypeOK /\ EnrollTypeOK /\ AttestTypeOK /\ RateTypeOK /\ UpdateTypeOK

=============================================================================
