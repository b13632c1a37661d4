---------------------------- MODULE Attestation ----------------------------
(***************************************************************************)
(* The attestation of one paired device. With each telemetry the agent     *)
(* sends a TPM quote over the nonce it was last given; the server verifies *)
(* it against the registered key, the trust an administrator gave and the  *)
(* golden measurements, records the verdict and hands out the next nonce.  *)
(* Each line of the server's work is a statement of its own, in no         *)
(* transaction, so that requests, approvals and resets interleave.         *)
(***************************************************************************)
EXTENDS Naturals

CONSTANTS
  Measurements,     \* values of PCR 11
  SecureStates,     \* values of PCR 7 under Secure Boot
  Versions,         \* software versions
  Nonces,           \* challenges; those nobody remembers are reused
  Requests,         \* requests of the agent that the server may be processing
  Unset,            \* NULL: no nonce, quote, golden value or request
  MaxAttestFaults   \* bound: calls given up or failed, resets, reboots, approvals elsewhere

ASSUME UnsetAssumption ==
  Unset \notin Measurements \cup SecureStates \cup Versions \cup Nonces \cup Requests
ASSUME AttestBoundAssumption == MaxAttestFaults \in Nat

VARIABLES
  ak,            \* the device has a row in device_attestation_keys
  nonce,         \* devices.attest_nonce
  attested,      \* devices.attested
  trusted,       \* devices.attest_trusted
  pendingQuote,  \* devices.pending_pcr11, pending_pcr7, pending_version
  golden7,       \* devices.golden_pcr7
  baseline,      \* attestation_baselines
  approval,      \* the pending quote an administrator is promoting
  boot,          \* what the device measured when it booted
  held,          \* state["attest_nonce"] of the agent
  asking,        \* the request the agent waits for
  cycle,         \* whether this cycle of the agent has tried to register its key
  telemetry,     \* what the server has done of each request
  accepted,      \* history: the measurements last found to be in order
  unheardKey,    \* history: a registration failed or had no answer
  reset,         \* history: the attestation was reset
  overtaken,     \* history: a reset came between the check and the verdict
  attestFaults

trustVars == <<ak, attested, trusted, pendingQuote, golden7, baseline, accepted>>
attestAgentVars == <<boot, held, asking, cycle>>
attestVars == <<trustVars, nonce, approval, attestAgentVars, telemetry, unheardKey, reset, overtaken, attestFaults>>

-----------------------------------------------------------------------------
Measured == [pcr11 : Measurements, pcr7 : SecureStates \cup {Unset}, version : Versions]
Steps == {"free", "register", "seed", "challenge", "key", "trust", "pend", "baseline", "golden",
          "capture", "attest", "rotate", "replied"}
RequestRecord == [step : Steps, op : {"register", "telemetry"}, quoted : Nonces \cup {Unset},
                  of : Measured \cup {Unset}, expected : Nonces \cup {Unset}, ok : BOOLEAN]
NoRequest == [step |-> "free", op |-> "telemetry", quoted |-> Unset, of |-> Unset,
              expected |-> Unset, ok |-> FALSE]

AttestInit ==
  /\ ak = FALSE /\ nonce = Unset /\ attested = FALSE /\ trusted = FALSE
  /\ pendingQuote = Unset /\ golden7 = Unset /\ baseline = [v \in Versions |-> Unset]
  /\ approval = [step |-> "none", of |-> Unset]
  /\ boot \in Measured
  /\ held = Unset /\ asking = Unset /\ cycle = "register"
  /\ telemetry = [r \in Requests |-> NoRequest]
  /\ accepted = Unset /\ unheardKey = FALSE /\ reset = FALSE /\ overtaken = FALSE /\ attestFaults = 0

AttestFault == attestFaults < MaxAttestFaults /\ attestFaults' = attestFaults + 1

\* Which of the nonces that nobody remembers newAttestNonce draws tells nothing.
FreshNonces ==
  {n \in Nonces \ {nonce, held} : \A r \in Requests : n \notin {telemetry[r].quoted, telemetry[r].expected}}
NewAttestNonce == CHOOSE n \in FreshNonces : TRUE

\* The measurements are those an administrator approved, as far as they can be.
InOrder(m) == baseline[m.version] = m.pcr11 /\ (m.pcr7 # Unset => golden7 \in {m.pcr7, Unset})

-----------------------------------------------------------------------------
(* The agent: send_telemetry, once per cycle.                              *)

Ask(r, request) ==
  /\ asking = Unset /\ telemetry[r].step = "free"
  /\ asking' = r
  /\ telemetry' = [telemetry EXCEPT ![r] = request]
  /\ UNCHANGED <<trustVars, nonce, approval, boot, held, unheardKey, reset, overtaken, attestFaults>>

\* Only an agent that has no nonce registers its key.
RegisterAttestation(r) ==
  /\ cycle = "register" /\ held = Unset
  /\ cycle' = "send"
  /\ Ask(r, [NoRequest EXCEPT !.step = "register", !.op = "register"])

\* The TPM signs what it has measured since boot, over the nonce.
Quote(n) == IF n = Unset THEN Unset ELSE boot
BuildAttestation == [NoRequest EXCEPT !.step = "challenge", !.quoted = held, !.of = Quote(held)]

\* Mutant: telemetry does not wait for the registration.
SendTelemetryFirst(r) ==
  /\ cycle' = "register"
  /\ Ask(r, BuildAttestation)

SendTelemetry(r) ==
  /\ cycle = "send" \/ held # Unset
  /\ cycle' = "register"
  /\ Ask(r, BuildAttestation)

\* Mutant: the agent keeps the nonce it has.
KeepNonce ==
  /\ asking # Unset /\ telemetry[asking].step = "replied"
  /\ held' = IF held = Unset THEN telemetry[asking].expected ELSE held
  /\ telemetry' = [telemetry EXCEPT ![asking] = NoRequest]
  /\ asking' = Unset
  /\ UNCHANGED <<trustVars, nonce, approval, boot, cycle, unheardKey, reset, overtaken, attestFaults>>

\* The agent adopts whatever nonce it is given.
TakeReply ==
  /\ asking # Unset /\ telemetry[asking].step = "replied"
  /\ held' = IF telemetry[asking].expected = Unset THEN held ELSE telemetry[asking].expected
  /\ unheardKey' = (unheardKey \/ (telemetry[asking].op = "register" /\ telemetry[asking].expected = Unset))
  /\ telemetry' = [telemetry EXCEPT ![asking] = NoRequest]
  /\ asking' = Unset
  /\ UNCHANGED <<trustVars, nonce, approval, boot, cycle, reset, overtaken, attestFaults>>

\* A lost connection, a timeout or the end of the agent.
GiveUpTelemetry ==
  /\ asking # Unset /\ AttestFault
  /\ unheardKey' = (unheardKey \/ telemetry[asking].op = "register")
  /\ asking' = Unset
  /\ UNCHANGED <<trustVars, nonce, approval, boot, held, cycle, telemetry, reset, overtaken>>

\* The device starts another version, changed firmware settings or a changed image.
Reboot ==
  /\ AttestFault
  /\ boot' \in Measured
  /\ UNCHANGED <<trustVars, nonce, approval, held, asking, cycle, telemetry, unheardKey, reset, overtaken>>

-----------------------------------------------------------------------------
(* The server, statement by statement.                                     *)

At(r, step) == telemetry[r].step = step
Continue(r, step) == telemetry' = [telemetry EXCEPT ![r].step = step]
Verdict(r, ok) == telemetry' = [telemetry EXCEPT ![r].step = "attest", ![r].ok = ok]

serverRest == <<approval, attestAgentVars, unheardKey, reset, overtaken, attestFaults>>

\* A statement fails, at the latest once the client is gone: the reply, if
\* anybody waits for it, carries no nonce.
StatementFails(r) ==
  /\ telemetry[r].step \notin {"free", "replied"}
  /\ AttestFault \/ (asking # r /\ UNCHANGED attestFaults)
  /\ telemetry' = [telemetry EXCEPT ![r].step = "replied", ![r].expected = Unset]
  /\ UNCHANGED <<trustVars, nonce, approval, attestAgentVars, unheardKey, reset, overtaken>>

DropReply(r) ==
  /\ At(r, "replied") /\ asking # r
  /\ telemetry' = [telemetry EXCEPT ![r] = NoRequest]
  /\ UNCHANGED <<trustVars, nonce, serverRest>>

RegisterDeviceAttestationKey(r) ==
  /\ At(r, "register")
  /\ ak' = TRUE
  /\ Continue(r, "seed")
  /\ UNCHANGED <<attested, trusted, pendingQuote, golden7, baseline, accepted, nonce, serverRest>>

AfterChallenge(r) == IF telemetry[r].quoted = Unset THEN "replied" ELSE "key"

\* ensureDeviceNonce reads the nonce.
GetDeviceAttestNonce(r) ==
  /\ At(r, "challenge")
  /\ telemetry' = [telemetry EXCEPT ![r].expected = nonce,
                                    ![r].step = IF nonce = Unset THEN "seed" ELSE AfterChallenge(r)]
  /\ UNCHANGED <<trustVars, nonce, serverRest>>

\* The bound: Nonces.
SetDeviceAttestNonce(r) ==
  /\ telemetry[r].step \in {"seed", "rotate"} /\ FreshNonces # {}
  /\ nonce' = NewAttestNonce
  /\ telemetry' = [telemetry EXCEPT ![r].expected = NewAttestNonce,
            ![r].step = IF At(r, "seed") THEN AfterChallenge(r) ELSE "replied"]
  /\ UNCHANGED <<trustVars, serverRest>>

\* The key is there, and signed a quote over the nonce that was read.
VerifyQuote(r) ==
  /\ At(r, "key")
  /\ IF ak /\ telemetry[r].quoted = telemetry[r].expected THEN Continue(r, "trust") ELSE Verdict(r, FALSE)
  /\ UNCHANGED <<trustVars, nonce, serverRest>>

\* Mutant: a genuine quote is enough.
IsQuoteGenuine(r) ==
  /\ At(r, "trust")
  /\ Continue(r, "baseline")
  /\ UNCHANGED <<trustVars, nonce, serverRest>>

IsDeviceTrusted(r) ==
  /\ At(r, "trust")
  /\ Continue(r, IF trusted THEN "baseline" ELSE "pend")
  /\ UNCHANGED <<trustVars, nonce, serverRest>>

SetDevicePendingQuote(r) ==
  /\ At(r, "pend")
  /\ pendingQuote' = telemetry[r].of
  /\ Verdict(r, FALSE)
  /\ UNCHANGED <<ak, attested, trusted, golden7, baseline, accepted, nonce, serverRest>>

GetAttestationBaseline(r) ==
  LET m == telemetry[r].of
  IN /\ At(r, "baseline")
     /\ IF baseline[m.version] = m.pcr11 /\ m.pcr7 # Unset
        THEN Continue(r, "golden") ELSE Verdict(r, baseline[m.version] = m.pcr11)
     /\ UNCHANGED <<trustVars, nonce, serverRest>>

GetDeviceGoldenPCR7(r) ==
  /\ At(r, "golden")
  /\ IF golden7 = Unset THEN Continue(r, "capture") ELSE Verdict(r, golden7 = telemetry[r].of.pcr7)
  /\ UNCHANGED <<trustVars, nonce, serverRest>>

SetDeviceGoldenPCR7(r) ==
  /\ At(r, "capture")
  /\ golden7' = telemetry[r].of.pcr7
  /\ Verdict(r, TRUE)
  /\ UNCHANGED <<ak, attested, trusted, pendingQuote, baseline, accepted, nonce, serverRest>>

SetDeviceAttested(r) ==
  /\ At(r, "attest")
  /\ attested' = telemetry[r].ok
  /\ accepted' = IF telemetry[r].ok THEN telemetry[r].of ELSE accepted
  /\ Continue(r, "rotate")
  /\ UNCHANGED <<ak, trusted, pendingQuote, golden7, baseline, nonce, serverRest>>

-----------------------------------------------------------------------------
(* The administrators.                                                     *)

\* TrustDeviceAttestation reads the pending quote, sets or reads the golden
\* value of its version, and trusts the device.
BeginTrust ==
  /\ approval.step = "none" /\ pendingQuote # Unset
  /\ approval' = [step |-> "baseline", of |-> pendingQuote]
  /\ UNCHANGED <<trustVars, nonce, attestAgentVars, telemetry, unheardKey, reset, overtaken, attestFaults>>

\* Mutant: ON CONFLICT ... SET pcr11 = excluded.pcr11.
OverwriteBaseline(m) == baseline' = [baseline EXCEPT ![m.version] = m.pcr11]

\* The first value recorded for a version stays.
EnsureAttestationBaseline(m) ==
  baseline' = [baseline EXCEPT ![m.version] = IF @ = Unset THEN m.pcr11 ELSE @]

RecordBaseline ==
  /\ approval.step = "baseline"
  /\ EnsureAttestationBaseline(approval.of)
  /\ approval' = IF baseline'[approval.of.version] = approval.of.pcr11
                 THEN [approval EXCEPT !.step = "trust"] ELSE [step |-> "none", of |-> Unset]
  /\ UNCHANGED <<ak, attested, trusted, pendingQuote, golden7, accepted, nonce, attestAgentVars,
                 telemetry, unheardKey, reset, overtaken, attestFaults>>

TrustDevice ==
  /\ approval.step = "trust"
  /\ trusted' = TRUE /\ attested' = TRUE /\ pendingQuote' = Unset
  /\ golden7' = IF approval.of.pcr7 = Unset THEN golden7 ELSE approval.of.pcr7
  /\ accepted' = approval.of
  /\ approval' = [step |-> "none", of |-> Unset]
  /\ UNCHANGED <<ak, baseline, nonce, attestAgentVars, telemetry, unheardKey, reset, overtaken, attestFaults>>

\* The same baselines serve the other devices.
TrustAnotherDevice(m) ==
  /\ AttestFault
  /\ EnsureAttestationBaseline(m)
  /\ UNCHANGED <<ak, attested, trusted, pendingQuote, golden7, accepted, nonce, approval,
                 attestAgentVars, telemetry, unheardKey, reset, overtaken>>

Deciding(r) == telemetry[r].step \in {"baseline", "golden", "capture"} \/ (At(r, "attest") /\ telemetry[r].ok)

ResetDeviceAttestation ==
  /\ AttestFault
  /\ ak' = FALSE /\ attested' = FALSE /\ golden7' = Unset /\ nonce' = Unset
  /\ trusted' = FALSE /\ pendingQuote' = Unset
  /\ reset' = TRUE
  /\ overtaken' = (overtaken \/ approval.step # "none" \/ \E r \in Requests : Deciding(r))
  /\ UNCHANGED <<baseline, accepted, approval, attestAgentVars, telemetry, unheardKey>>

-----------------------------------------------------------------------------
AttestAgentStep == TakeReply \/ \E r \in Requests : RegisterAttestation(r) \/ SendTelemetry(r)

\* The handlers, and the functions they call.
EnsureDeviceNonce(r) == GetDeviceAttestNonce(r) \/ SetDeviceAttestNonce(r)
VerifyDeviceAttestation(r) ==
  \/ VerifyQuote(r) \/ IsDeviceTrusted(r) \/ SetDevicePendingQuote(r) \/ GetAttestationBaseline(r)
  \/ GetDeviceGoldenPCR7(r) \/ SetDeviceGoldenPCR7(r)
HandleTelemetryAttestation(r) == EnsureDeviceNonce(r) \/ VerifyDeviceAttestation(r) \/ SetDeviceAttested(r)
AgentTelemetry(r) == HandleTelemetryAttestation(r) \/ DropReply(r)
AgentAttestRegister(r) == RegisterDeviceAttestationKey(r)
AttestServerStep(r) == AgentTelemetry(r) \/ AgentAttestRegister(r)
TrustDeviceFromPendingQuote == RecordBaseline \/ TrustDevice
TrustDeviceAttestation == BeginTrust \/ TrustDeviceFromPendingQuote

AttestNext ==
  \/ AttestAgentStep \/ GiveUpTelemetry \/ Reboot
  \/ \E r \in Requests : AttestServerStep(r) \/ StatementFails(r)
  \/ TrustDeviceAttestation \/ ResetDeviceAttestation
  \/ \E m \in Measured : TrustAnotherDevice(m)

-----------------------------------------------------------------------------
\* Types of the state above.
AttestTypeOK ==
  /\ {ak, attested, trusted, unheardKey, reset, overtaken} \subseteq BOOLEAN
  /\ {nonce, held} \subseteq Nonces \cup {Unset}
  /\ {boot} \subseteq Measured /\ {pendingQuote, accepted} \subseteq Measured \cup {Unset}
  /\ golden7 \in SecureStates \cup {Unset} /\ baseline \in [Versions -> Measurements \cup {Unset}]
  /\ approval \in [step : {"none", "baseline", "trust"}, of : Measured \cup {Unset}]
  /\ asking \in Requests \cup {Unset} /\ cycle \in {"register", "send"}
  /\ telemetry \in [Requests -> RequestRecord]
  /\ attestFaults \in 0 .. MaxAttestFaults

\* A device shown as attested is one an administrator trusts, unless a reset
\* overtook a request or an approval that was past its checks. What the comment
\* on verifyDeviceAttestation says, as far as separate statements keep it.
AttestedIsTrusted == attested /\ ~overtaken => trusted

\* The verdict on a device stands on the golden measurement of its version,
\* whatever other devices and approvals have recorded since. About
\* EnsureAttestationBaselinePCR11.
AttestedIsGolden == attested => baseline[accepted.version] = accepted.pcr11

\* An agent that quotes has a registered key, unless a registration failed or an
\* administrator reset it: only then is a device that never attests possible.
\* About send_telemetry, which registers only while it has no nonce.
QuoteHasKey == held # Unset => ak \/ unheardKey \/ reset

\* A device that keeps a registered key, trust and the approved measurements
\* comes to be attested, however its nonce and the server's have drifted apart.
\* About the nonce that every reply hands out.
HonestIsAttested == <>[](ak /\ trusted /\ InOrder(boot)) => <>[]attested

\* What an administrator who resets a device is told: "The device will
\* re-register its attestation key on its next check-in."
ResetRegistersAgain == reset /\ ~ak ~> ak

=============================================================================
