------------------------- MODULE Attestation_proofs -------------------------
(***************************************************************************)
(* Proofs about Attestation, for any number of measurements, versions and  *)
(* requests, and any number of faults, resets and approvals.               *)
(***************************************************************************)
EXTENDS Attestation, TLAPS

-----------------------------------------------------------------------------
(* The inductive invariant.                                                *)

\* What MCDevices says of the attestation, less the fairness and whatever the device
\* has measured when it starts.
AttestSpec == AttestInit /\ [][AttestNext]_attestVars

\* A measurement that stands on the baseline of its version, which stays.
Based(m) == m \in Measured /\ baseline[m.version] = m.pcr11

\* What each request and approval carries past the checks it has gone through.
EvidenceInStep ==
  /\ \A r \in Requests :
       /\ telemetry[r].quoted # Unset => telemetry[r].of \in Measured
       /\ telemetry[r].step \in {"key", "trust", "pend", "baseline", "golden", "capture", "attest"} =>
            telemetry[r].quoted # Unset
       /\ telemetry[r].step \in {"golden", "capture"} \/ (At(r, "attest") /\ telemetry[r].ok) =>
            Based(telemetry[r].of)
  /\ approval.step # "none" => approval.of \in Measured
  /\ approval.step = "trust" => Based(approval.of)
  /\ attested => Based(accepted)

\* A request that is past the check of the trust is for a trusted device.
TrustInStep == ~overtaken => (attested => trusted) /\ \A r \in Requests : Deciding(r) => trusted

\* The agent sends telemetry once its registration was answered well, or was not
\* and that is known.
Registered == ak \/ unheardKey \/ reset
RegistrationInStep ==
  /\ held # Unset => Registered
  /\ cycle = "send" /\ asking = Unset => Registered
  /\ asking # Unset /\ telemetry[asking].op = "telemetry" => Registered
  /\ \A r \in Requests :
       telemetry[r].op = "register" =>
         /\ telemetry[r].quoted = Unset
         /\ telemetry[r].step = "seed" \/ telemetry[r].expected # Unset => ak \/ reset

AttestIInv == AttestTypeOK /\ EvidenceInStep /\ TrustInStep /\ RegistrationInStep

-----------------------------------------------------------------------------
(* Each action preserves the invariant.                                    *)

\* The agent asks; it quotes only when it holds a nonce.
LEMMA AskInv ==
  ASSUME AttestIInv, NEW r \in Requests, RegisterAttestation(r) \/ SendTelemetry(r)
  PROVE  AttestIInv'
<1> USE UnsetAssumption, AttestBoundAssumption DEF AttestIInv, AttestTypeOK
<1>1. PICK request \in RequestRecord :
        /\ Ask(r, request) /\ request.expected = Unset
        /\ \/ /\ request.op = "register" /\ request.step = "register" /\ request.quoted = Unset
              /\ cycle' = "send"
           \/ /\ request.op = "telemetry" /\ request.step = "challenge" /\ Registered /\ cycle' = "register"
              /\ request.quoted # Unset => request.of \in Measured
  <2>1. CASE RegisterAttestation(r)
    <3>1. [NoRequest EXCEPT !.step = "register", !.op = "register"] \in RequestRecord
      BY DEF NoRequest, RequestRecord, Steps
    <3> QED BY <2>1, <3>1 DEF RegisterAttestation, NoRequest
  <2>2. CASE SendTelemetry(r)
    <3>1. BuildAttestation \in RequestRecord
      BY DEF BuildAttestation, Quote, NoRequest, RequestRecord, Steps
    <3>2. Registered
      BY <2>2 DEF SendTelemetry, Ask, RegistrationInStep
    <3> QED BY <2>2, <3>1, <3>2 DEF SendTelemetry, BuildAttestation, Quote, NoRequest
  <2> QED BY <2>1, <2>2
<1>2. /\ asking = Unset /\ asking' = r /\ telemetry[r].step = "free"
      /\ telemetry' = [telemetry EXCEPT ![r] = request]
      /\ UNCHANGED <<trustVars, nonce, approval, boot, held, unheardKey, reset, overtaken, attestFaults>>
  BY <1>1 DEF Ask
<1>3. AttestTypeOK'
  BY <1>1, <1>2 DEF trustVars
<1>4. EvidenceInStep'
  BY <1>1, <1>2 DEF EvidenceInStep, Based, At, trustVars
<1>5. TrustInStep'
  BY <1>1, <1>2 DEF TrustInStep, Deciding, At, trustVars
<1>6. RegistrationInStep'
  BY <1>1, <1>2 DEF RegistrationInStep, Registered, trustVars
<1> QED BY <1>3, <1>4, <1>5, <1>6

\* A nonce comes with a registration, or after one.
LEMMA TakeReplyInv == ASSUME AttestIInv, TakeReply PROVE AttestIInv'
<1> USE UnsetAssumption, AttestBoundAssumption DEF AttestIInv, AttestTypeOK, TakeReply, NoRequest,
      trustVars, serverRest, At
<1>1. AttestTypeOK'
  BY DEF RequestRecord, Steps
<1>2. EvidenceInStep'
  BY DEF EvidenceInStep, Based, RequestRecord, Measured
<1>3. TrustInStep'
  BY DEF TrustInStep, Deciding, RequestRecord
<1>4. RegistrationInStep'
  BY DEF RegistrationInStep, Registered, EvidenceInStep, RequestRecord
<1> QED BY <1>1, <1>2, <1>3, <1>4

\* A registration that is given up is known to be.
LEMMA RequestGiveUpInv == ASSUME AttestIInv, GiveUpTelemetry PROVE AttestIInv'
<1> USE UnsetAssumption, AttestBoundAssumption DEF AttestIInv, AttestTypeOK, GiveUpTelemetry,
      AttestFault, trustVars, serverRest, At
<1>1. AttestTypeOK'
  BY DEF RequestRecord, Steps
<1>2. EvidenceInStep'
  BY DEF EvidenceInStep, Based, RequestRecord, Measured
<1>3. TrustInStep'
  BY DEF TrustInStep, Deciding, RequestRecord
<1>4. RegistrationInStep'
  BY DEF RegistrationInStep, Registered, EvidenceInStep, RequestRecord
<1> QED BY <1>1, <1>2, <1>3, <1>4

\* What the device boots next tells nothing of what was quoted.
LEMMA DeviceRebootInv == ASSUME AttestIInv, Reboot PROVE AttestIInv'
<1> USE UnsetAssumption, AttestBoundAssumption DEF AttestIInv, AttestTypeOK, Reboot, AttestFault,
      trustVars, serverRest, At
<1>1. AttestTypeOK'
  BY DEF RequestRecord, Steps
<1>2. EvidenceInStep'
  BY DEF EvidenceInStep, Based, RequestRecord, Measured
<1>3. TrustInStep'
  BY DEF TrustInStep, Deciding, RequestRecord
<1>4. RegistrationInStep'
  BY DEF RegistrationInStep, Registered, EvidenceInStep, RequestRecord
<1> QED BY <1>1, <1>2, <1>3, <1>4

\* A reply without a nonce.
LEMMA StatementFailsInv == ASSUME AttestIInv, NEW r \in Requests, StatementFails(r) PROVE AttestIInv'
<1> USE UnsetAssumption, AttestBoundAssumption DEF AttestIInv, AttestTypeOK, StatementFails,
      AttestFault, trustVars, attestAgentVars, serverRest, At
<1>1. AttestTypeOK'
  <2>1. {ak, attested, trusted, unheardKey, reset, overtaken}' \subseteq BOOLEAN
    BY DEF RequestRecord, Steps
  <2>2. {nonce, held}' \subseteq Nonces \cup {Unset}
    BY DEF RequestRecord, Steps
  <2>3. {boot}' \subseteq Measured /\ {pendingQuote, accepted}' \subseteq Measured \cup {Unset}
    BY DEF RequestRecord, Steps
  <2>4. golden7' \in SecureStates \cup {Unset}
    BY DEF RequestRecord, Steps
  <2>5. baseline' \in [Versions -> Measurements \cup {Unset}]
    BY DEF RequestRecord, Steps
  <2>6. approval' \in [step : {"none", "baseline", "trust"}, of : Measured \cup {Unset}]
    BY DEF RequestRecord, Steps
  <2>7. asking' \in Requests \cup {Unset} /\ cycle' \in {"register", "send"}
    BY DEF RequestRecord, Steps
  <2>8. telemetry' \in [Requests -> RequestRecord]
    <3>1. telemetry[r] \in RequestRecord
      OBVIOUS
    <3>2. ASSUME NEW q \in RequestRecord PROVE [q EXCEPT !.step = "replied", !.expected = Unset] \in RequestRecord
      BY DEF RequestRecord, Steps
    <3> QED BY <3>1, <3>2
  <2>9. attestFaults' \in 0 .. MaxAttestFaults
    BY DEF RequestRecord, Steps
  <2> QED BY <2>1, <2>2, <2>3, <2>4, <2>5, <2>6, <2>7, <2>8, <2>9
<1>2. EvidenceInStep'
  BY DEF EvidenceInStep, Based, RequestRecord, Measured
<1>3. TrustInStep'
  BY DEF TrustInStep, Deciding, RequestRecord
<1>4. RegistrationInStep'
  BY DEF RegistrationInStep, Registered, EvidenceInStep, RequestRecord
<1> QED BY <1>1, <1>2, <1>3, <1>4

\* Nobody waits for it.
LEMMA DropReplyInv == ASSUME AttestIInv, NEW r \in Requests, DropReply(r) PROVE AttestIInv'
<1> USE UnsetAssumption, AttestBoundAssumption DEF AttestIInv, AttestTypeOK, DropReply, NoRequest,
      trustVars, attestAgentVars, serverRest, At
<1>1. AttestTypeOK'
  BY DEF RequestRecord, Steps
<1>2. EvidenceInStep'
  BY DEF EvidenceInStep, Based, RequestRecord, Measured
<1>3. TrustInStep'
  BY DEF TrustInStep, Deciding, RequestRecord
<1>4. RegistrationInStep'
  BY DEF RegistrationInStep, Registered, EvidenceInStep, RequestRecord
<1> QED BY <1>1, <1>2, <1>3, <1>4

\* The key is there before the nonce.
LEMMA RegisterKeyInv ==
  ASSUME AttestIInv, NEW r \in Requests, RegisterDeviceAttestationKey(r)
  PROVE  AttestIInv'
<1> USE UnsetAssumption, AttestBoundAssumption DEF AttestIInv, AttestTypeOK,
      RegisterDeviceAttestationKey, Continue, attestAgentVars, serverRest, At
<1>1. AttestTypeOK'
  BY DEF RequestRecord, Steps
<1>2. EvidenceInStep'
  BY DEF EvidenceInStep, Based, RequestRecord, Measured
<1>3. TrustInStep'
  BY DEF TrustInStep, Deciding, RequestRecord
<1>4. RegistrationInStep'
  BY DEF RegistrationInStep, Registered, EvidenceInStep, RequestRecord
<1> QED BY <1>1, <1>2, <1>3, <1>4

\* Only a quote is verified.
LEMMA GetNonceInv == ASSUME AttestIInv, NEW r \in Requests, GetDeviceAttestNonce(r) PROVE AttestIInv'
<1> USE UnsetAssumption, AttestBoundAssumption DEF AttestIInv, AttestTypeOK, GetDeviceAttestNonce,
      AfterChallenge, trustVars, attestAgentVars, serverRest, At
<1>1. AttestTypeOK'
  BY DEF RequestRecord, Steps
<1>2. EvidenceInStep'
  BY DEF EvidenceInStep, Based, RequestRecord, Measured
<1>3. TrustInStep'
  BY DEF TrustInStep, Deciding, RequestRecord
<1>4. RegistrationInStep'
  BY DEF RegistrationInStep, Registered, EvidenceInStep, RequestRecord
<1> QED BY <1>1, <1>2, <1>3, <1>4

\* Only a registered agent is given a nonce.
LEMMA SetNonceInv == ASSUME AttestIInv, NEW r \in Requests, SetDeviceAttestNonce(r) PROVE AttestIInv'
<1> USE UnsetAssumption, AttestBoundAssumption DEF AttestIInv, AttestTypeOK, SetDeviceAttestNonce,
      AfterChallenge, trustVars, attestAgentVars, serverRest, At
<1>1. AttestTypeOK'
  BY DEF RequestRecord, Steps
<1>2. EvidenceInStep'
  BY DEF EvidenceInStep, Based, RequestRecord, Measured
<1>3. TrustInStep'
  BY DEF TrustInStep, Deciding, RequestRecord
<1>4. RegistrationInStep'
  BY DEF RegistrationInStep, Registered, EvidenceInStep, RequestRecord
<1> QED BY <1>1, <1>2, <1>3, <1>4

\* A quote that is not genuine, or not trusted, gets no good verdict.
LEMMA VerifyInv ==
  ASSUME AttestIInv, NEW r \in Requests, VerifyQuote(r) \/ SetDevicePendingQuote(r)
  PROVE  AttestIInv'
<1> USE UnsetAssumption, AttestBoundAssumption DEF AttestIInv, AttestTypeOK, VerifyQuote,
      SetDevicePendingQuote, Continue, Verdict, trustVars, attestAgentVars, serverRest, At
<1>1. AttestTypeOK'
  BY DEF RequestRecord, Steps
<1>2. EvidenceInStep'
  BY DEF EvidenceInStep, Based, RequestRecord, Measured
<1>3. TrustInStep'
  BY DEF TrustInStep, Deciding, RequestRecord
<1>4. RegistrationInStep'
  BY DEF RegistrationInStep, Registered, EvidenceInStep, RequestRecord
<1> QED BY <1>1, <1>2, <1>3, <1>4

\* Past this check the device is trusted.
LEMMA TrustCheckInv == ASSUME AttestIInv, NEW r \in Requests, IsDeviceTrusted(r) PROVE AttestIInv'
<1> USE UnsetAssumption, AttestBoundAssumption DEF AttestIInv, AttestTypeOK, IsDeviceTrusted, Continue,
      trustVars, attestAgentVars, serverRest, At
<1>1. AttestTypeOK'
  BY DEF RequestRecord, Steps
<1>2. EvidenceInStep'
  BY DEF EvidenceInStep, Based, RequestRecord, Measured
<1>3. TrustInStep'
  BY DEF TrustInStep, Deciding, RequestRecord
<1>4. RegistrationInStep'
  BY DEF RegistrationInStep, Registered, EvidenceInStep, RequestRecord
<1> QED BY <1>1, <1>2, <1>3, <1>4

\* Past this one, and with a good verdict, the quote stands on the baseline.
LEMMA BaselineCheckInv ==
  ASSUME AttestIInv, NEW r \in Requests, GetAttestationBaseline(r)
  PROVE  AttestIInv'
<1> USE UnsetAssumption, AttestBoundAssumption DEF AttestIInv, AttestTypeOK, GetAttestationBaseline,
      Continue, Verdict, trustVars, attestAgentVars, serverRest, At
<1>1. AttestTypeOK'
  BY DEF RequestRecord, Steps
<1>2. EvidenceInStep'
  BY DEF EvidenceInStep, Based, RequestRecord, Measured
<1>3. TrustInStep'
  BY DEF TrustInStep, Deciding, RequestRecord
<1>4. RegistrationInStep'
  BY DEF RegistrationInStep, Registered, EvidenceInStep, RequestRecord
<1> QED BY <1>1, <1>2, <1>3, <1>4

\* It still does.
LEMMA GoldenInv ==
  ASSUME AttestIInv, NEW r \in Requests, GetDeviceGoldenPCR7(r) \/ SetDeviceGoldenPCR7(r)
  PROVE  AttestIInv'
<1> USE UnsetAssumption, AttestBoundAssumption DEF AttestIInv, AttestTypeOK, GetDeviceGoldenPCR7,
      SetDeviceGoldenPCR7, Continue, Verdict, trustVars, attestAgentVars, serverRest, At
<1>1. AttestTypeOK'
  BY DEF RequestRecord, Steps, EvidenceInStep, Measured
<1>2. EvidenceInStep'
  BY DEF EvidenceInStep, Based, RequestRecord, Measured
<1>3. TrustInStep'
  BY DEF TrustInStep, Deciding, RequestRecord
<1>4. RegistrationInStep'
  BY DEF RegistrationInStep, Registered, EvidenceInStep, RequestRecord
<1> QED BY <1>1, <1>2, <1>3, <1>4

\* The verdict is recorded.
LEMMA VerdictInv == ASSUME AttestIInv, NEW r \in Requests, SetDeviceAttested(r) PROVE AttestIInv'
<1> USE UnsetAssumption, AttestBoundAssumption DEF AttestIInv, AttestTypeOK, SetDeviceAttested,
      Continue, attestAgentVars, serverRest, At
<1>1. AttestTypeOK'
  BY DEF RequestRecord, Steps
<1>2. EvidenceInStep'
  BY DEF EvidenceInStep, Based, RequestRecord, Measured
<1>3. TrustInStep'
  BY DEF TrustInStep, Deciding, RequestRecord
<1>4. RegistrationInStep'
  BY DEF RegistrationInStep, Registered, EvidenceInStep, RequestRecord
<1> QED BY <1>1, <1>2, <1>3, <1>4

\* An approval is of a quote.
LEMMA BeginTrustInv == ASSUME AttestIInv, BeginTrust PROVE AttestIInv'
<1> USE UnsetAssumption, AttestBoundAssumption DEF AttestIInv, AttestTypeOK, BeginTrust, trustVars,
      attestAgentVars, serverRest, At
<1>1. AttestTypeOK'
  BY DEF RequestRecord, Steps
<1>2. EvidenceInStep'
  BY DEF EvidenceInStep, Based, RequestRecord, Measured
<1>3. TrustInStep'
  BY DEF TrustInStep, Deciding, RequestRecord
<1>4. RegistrationInStep'
  BY DEF RegistrationInStep, Registered, EvidenceInStep, RequestRecord
<1> QED BY <1>1, <1>2, <1>3, <1>4

\* It stands on the baseline that it sets or finds.
LEMMA RecordBaselineInv == ASSUME AttestIInv, RecordBaseline PROVE AttestIInv'
<1> USE UnsetAssumption, AttestBoundAssumption DEF AttestIInv, AttestTypeOK, RecordBaseline,
      EnsureAttestationBaseline, attestAgentVars, serverRest, At
<1>1. AttestTypeOK'
  BY DEF RequestRecord, Steps, EvidenceInStep, Measured
<1>2. EvidenceInStep'
  BY DEF EvidenceInStep, Based, RequestRecord, Measured
<1>3. TrustInStep'
  BY DEF TrustInStep, Deciding, RequestRecord
<1>4. RegistrationInStep'
  BY DEF RegistrationInStep, Registered, EvidenceInStep, RequestRecord
<1> QED BY <1>1, <1>2, <1>3, <1>4

\* An approved device is attested and trusted at once.
LEMMA TrustInv == ASSUME AttestIInv, TrustDevice PROVE AttestIInv'
<1> USE UnsetAssumption, AttestBoundAssumption DEF AttestIInv, AttestTypeOK, TrustDevice,
      attestAgentVars, serverRest, At
<1>1. AttestTypeOK'
  BY DEF RequestRecord, Steps, EvidenceInStep, Measured
<1>2. EvidenceInStep'
  BY DEF EvidenceInStep, Based, RequestRecord, Measured
<1>3. TrustInStep'
  BY DEF TrustInStep, Deciding, RequestRecord
<1>4. RegistrationInStep'
  BY DEF RegistrationInStep, Registered, EvidenceInStep, RequestRecord
<1> QED BY <1>1, <1>2, <1>3, <1>4

\* A baseline that is there stays.
LEMMA OtherDeviceInv == ASSUME AttestIInv, NEW m \in Measured, TrustAnotherDevice(m) PROVE AttestIInv'
<1> USE UnsetAssumption, AttestBoundAssumption DEF AttestIInv, AttestTypeOK, TrustAnotherDevice,
      EnsureAttestationBaseline, AttestFault, attestAgentVars, serverRest, At
<1>1. AttestTypeOK'
  BY DEF RequestRecord, Steps, Measured
<1>2. EvidenceInStep'
  BY DEF EvidenceInStep, Based, RequestRecord, Measured
<1>3. TrustInStep'
  BY DEF TrustInStep, Deciding, RequestRecord
<1>4. RegistrationInStep'
  BY DEF RegistrationInStep, Registered, EvidenceInStep, RequestRecord
<1> QED BY <1>1, <1>2, <1>3, <1>4

\* A reset takes attestation and trust, and notes what it overtakes.
LEMMA ResetInv == ASSUME AttestIInv, ResetDeviceAttestation PROVE AttestIInv'
<1> USE UnsetAssumption, AttestBoundAssumption DEF AttestIInv, AttestTypeOK, ResetDeviceAttestation,
      AttestFault, attestAgentVars, serverRest, At
<1>1. AttestTypeOK'
  <2>1. {ak, attested, trusted, unheardKey, reset, overtaken}' \subseteq BOOLEAN
    BY DEF RequestRecord, Steps
  <2>2. {nonce, held}' \subseteq Nonces \cup {Unset}
    BY DEF RequestRecord, Steps
  <2>3. {boot}' \subseteq Measured /\ {pendingQuote, accepted}' \subseteq Measured \cup {Unset}
    BY DEF RequestRecord, Steps
  <2>4. golden7' \in SecureStates \cup {Unset}
    BY DEF RequestRecord, Steps
  <2>5. baseline' \in [Versions -> Measurements \cup {Unset}]
    BY DEF RequestRecord, Steps
  <2>6. approval' \in [step : {"none", "baseline", "trust"}, of : Measured \cup {Unset}]
    BY DEF RequestRecord, Steps
  <2>7. asking' \in Requests \cup {Unset} /\ cycle' \in {"register", "send"}
    BY DEF RequestRecord, Steps
  <2>8. telemetry' \in [Requests -> RequestRecord]
    BY DEF RequestRecord, Steps
  <2>9. attestFaults' \in 0 .. MaxAttestFaults
    BY DEF RequestRecord, Steps
  <2> QED BY <2>1, <2>2, <2>3, <2>4, <2>5, <2>6, <2>7, <2>8, <2>9
<1>2. EvidenceInStep'
  BY DEF EvidenceInStep, Based, RequestRecord, Measured
<1>3. TrustInStep'
  BY DEF TrustInStep, Deciding, RequestRecord
<1>4. RegistrationInStep'
  BY DEF RegistrationInStep, Registered, EvidenceInStep, RequestRecord
<1> QED BY <1>1, <1>2, <1>3, <1>4

-----------------------------------------------------------------------------
(* The theorems.                                                           *)

\* Nothing is attested, asked or approved yet.
LEMMA AttestInitInv == AttestInit => AttestIInv
<1> SUFFICES ASSUME AttestInit PROVE AttestIInv
  OBVIOUS
<1> USE UnsetAssumption, AttestBoundAssumption DEF AttestInit
<1>1. NoRequest \in RequestRecord
  BY DEF NoRequest, RequestRecord, Steps
<1>2. AttestTypeOK
  <2>1. attestFaults \in 0 .. MaxAttestFaults
    OBVIOUS
  <2> QED BY <1>1, <2>1 DEF AttestTypeOK
<1>3. EvidenceInStep /\ TrustInStep /\ RegistrationInStep
  BY DEF EvidenceInStep, TrustInStep, RegistrationInStep, Deciding, At, NoRequest
<1> QED BY <1>2, <1>3 DEF AttestIInv

LEMMA AttestStepInv == AttestIInv /\ [AttestNext]_attestVars => AttestIInv'
<1> SUFFICES ASSUME AttestIInv, [AttestNext]_attestVars PROVE AttestIInv'
  OBVIOUS
<1>1. ASSUME NEW r \in Requests, RegisterAttestation(r) \/ SendTelemetry(r) PROVE AttestIInv'
  BY <1>1, AskInv
<1>2. ASSUME NEW r \in Requests, AttestServerStep(r) \/ StatementFails(r) PROVE AttestIInv'
  BY <1>2, StatementFailsInv, DropReplyInv, RegisterKeyInv, GetNonceInv, SetNonceInv, VerifyInv,
        TrustCheckInv,
     BaselineCheckInv, GoldenInv, VerdictInv
     DEF AttestServerStep, AgentTelemetry, AgentAttestRegister, HandleTelemetryAttestation, EnsureDeviceNonce,
         VerifyDeviceAttestation
<1>3. CASE TrustDeviceAttestation
  BY <1>3, BeginTrustInv, RecordBaselineInv, TrustInv DEF TrustDeviceAttestation,
        TrustDeviceFromPendingQuote
<1>4. ASSUME NEW m \in Measured, TrustAnotherDevice(m) PROVE AttestIInv'
  BY <1>4, OtherDeviceInv
<1>5. CASE UNCHANGED attestVars
  BY <1>5 DEF attestVars, trustVars, attestAgentVars, AttestIInv, AttestTypeOK, EvidenceInStep, Based,
        At, TrustInStep,
       Deciding, RegistrationInStep, Registered
<1> QED BY <1>1, <1>2, <1>3, <1>4, <1>5, TakeReplyInv, RequestGiveUpInv, DeviceRebootInv, ResetInv DEF AttestNext,
      AttestAgentStep

\* The invariant holds in every reachable state.
LEMMA AttestInvariance == AttestSpec => []AttestIInv
<1> QED BY AttestInitInv, AttestStepInv, PTL DEF AttestSpec

\* Every reachable state is of the declared types.
THEOREM AttestTyped == AttestSpec => []AttestTypeOK
<1>1. AttestIInv => AttestTypeOK
  BY DEF AttestIInv
<1> QED BY <1>1, AttestInvariance, PTL

\* A device is shown as attested only while it is trusted, for any number of requests
\* and approvals that overlap, unless a reset came between the check of the trust and
\* the verdict: a reset that overtakes one past its checks leaves it attested.
THEOREM OnlyTrusted == AttestSpec => []AttestedIsTrusted
<1>1. AttestIInv => AttestedIsTrusted
  BY DEF AttestIInv, TrustInStep, AttestedIsTrusted
<1> QED BY <1>1, AttestInvariance, PTL

\* What a device was attested for is the golden measurement of its version, which
\* nobody overwrites.
THEOREM OnlyGolden == AttestSpec => []AttestedIsGolden
<1>1. AttestIInv => AttestedIsGolden
  BY DEF AttestIInv, EvidenceInStep, Based, AttestedIsGolden
<1> QED BY <1>1, AttestInvariance, PTL

\* An agent quotes only with a registered key, unless a registration failed or an
\* administrator reset it.
THEOREM QuotesHaveKey == AttestSpec => []QuoteHasKey
<1>1. AttestIInv => QuoteHasKey
  BY DEF AttestIInv, RegistrationInStep, Registered, QuoteHasKey
<1> QED BY <1>1, AttestInvariance, PTL

=============================================================================
