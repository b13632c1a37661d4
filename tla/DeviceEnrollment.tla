-------------------------- MODULE DeviceEnrollment --------------------------
(***************************************************************************)
(* The pairing of one machine with one fleet: the agent asks for a code    *)
(* and polls it, an administrator claims it, and a poll delivers the       *)
(* device's token, which the agent then presents. The agent waits for one  *)
(* call at a time, but one it gave up on, or that it left behind when it   *)
(* died, goes on at the server and may be processed late.                  *)
(*                                                                         *)
(* A transaction holds the row of its code, so that polls and claims of    *)
(* one code follow each other; those of two codes of one device do not.    *)
(***************************************************************************)
EXTENDS Naturals, FiniteSets

CONSTANTS
  Codes,            \* rows of device_enrollments; those nobody can ask for again are reused
  Tokens,           \* device tokens; those nobody holds are reused
  Calls,            \* requests the server may be processing
  Nothing,          \* no code, token or call
  MaxEnrollFaults   \* bound: calls given up or failed, codes that age, devices deleted

ASSUME NothingAssumption == Nothing \notin Codes \cup Tokens \cup Calls
ASSUME EnrollBoundAssumption == MaxEnrollFaults \in Nat

VARIABLES
  enrollment,    \* device_enrollments.status, with "absent"
  aged,          \* codes with expires_at in the past
  linked,        \* claimed codes whose device_id is not NULL
  device,        \* the machine has a row in devices
  live,          \* rows of device_tokens
  used,          \* those with last_used_at
  code,          \* state["code"] of the agent
  token,         \* state["device_token"] of the agent
  awaited,       \* the call the agent waits for
  call,          \* what the server has done of each call
  shown,         \* history: codes the agent has displayed
  revoked,       \* history: tokens that an administrator's action deleted
  stray,         \* history: a poll nobody waits for has issued a token
  enrollFaults

rowVars == <<enrollment, aged, linked, device>>
tokenVars == <<live, used, revoked, stray>>
enrollAgentVars == <<code, token, shown>>
enrollVars == <<rowVars, tokenVars, enrollAgentVars, awaited, call, enrollFaults>>

-----------------------------------------------------------------------------
EnrollmentStatuses == {"absent", "pending", "claimed", "expired"}
Replies == {"none", "pending", "claimed", "expired", "ok", "unauthorized", "error"}
CallRecord == [stage : {"free", "sent", "read", "replied"}, op : {"start", "poll", "auth"},
               code : Codes \cup {Nothing}, token : Tokens \cup {Nothing},
               total : BOOLEAN, reply : Replies]

Idle == [stage |-> "free", op |-> "start", code |-> Nothing, token |-> Nothing, total |-> FALSE, reply |-> "none"]

EnrollInit ==
  /\ enrollment = [c \in Codes |-> "absent"] /\ aged = {} /\ linked = {} /\ device = FALSE
  /\ live = {} /\ used = {} /\ revoked = {} /\ stray = FALSE
  /\ code = Nothing /\ token = Nothing /\ shown = {}
  /\ awaited = Nothing /\ call = [k \in Calls |-> Idle] /\ enrollFaults = 0

EnrollFault == enrollFaults < MaxEnrollFaults /\ enrollFaults' = enrollFaults + 1

\* FOR UPDATE on the row of the code.
Unlocked(c) == \A k \in Calls : ~(call[k].stage = "read" /\ call[k].op = "poll" /\ call[k].code = c)

\* uniqueEnrollmentCode and generateDeviceToken: which of those nobody knows
\* they draw tells nothing.
NewCode ==
  CHOOSE c \in Codes : enrollment[c] # "pending" /\ code # c /\ \A k \in Calls : call[k].code # c
FreshTokens == {t \in Tokens \ live : token # t /\ \A k \in Calls : call[k].token # t}
NewToken == CHOOSE t \in FreshTokens : TRUE

-----------------------------------------------------------------------------
(* The agent.                                                              *)

Send(k, op) ==
  /\ awaited = Nothing /\ call[k].stage = "free"
  /\ awaited' = k
  /\ call' = [call EXCEPT ![k] = [Idle EXCEPT !.stage = "sent", !.op = op,
                !.code = IF op = "poll" THEN code ELSE Nothing,
                !.token = IF op = "auth" THEN token ELSE Nothing]]
  /\ UNCHANGED <<rowVars, tokenVars, enrollAgentVars, enrollFaults>>

SendStart(k) == token = Nothing /\ code = Nothing /\ Send(k, "start")
SendPoll(k) == token = Nothing /\ code # Nothing /\ Send(k, "poll")
SendAuthenticated(k) == token # Nothing /\ Send(k, "auth")

\* A timeout, a connection that breaks, or the end of the process, whose state
\* is in state.json.
GiveUp ==
  /\ awaited # Nothing /\ EnrollFault
  /\ awaited' = Nothing
  /\ UNCHANGED <<rowVars, tokenVars, enrollAgentVars, call>>

\* Mutant: a code that expired is polled on.
ReceiveKeepingCode ==
  /\ awaited # Nothing /\ call[awaited].stage = "replied"
  /\ LET r == call[awaited]
     IN CASE r.op = "start" /\ r.reply = "ok" ->
               code' = r.code /\ shown' = shown \cup {r.code} /\ UNCHANGED token
          [] r.op = "poll" /\ r.reply = "claimed" ->
               code' = Nothing /\ token' = r.token /\ UNCHANGED shown
          [] r.op = "auth" /\ r.reply = "unauthorized" ->
               token' = Nothing /\ UNCHANGED <<code, shown>>
          [] OTHER -> UNCHANGED enrollAgentVars
  /\ call' = [call EXCEPT ![awaited] = Idle] /\ awaited' = Nothing
  /\ UNCHANGED <<rowVars, tokenVars, enrollFaults>>

\* do_enrollment, and the 401 of send_telemetry and get_commands.
Receive ==
  /\ awaited # Nothing
  /\ LET r == call[awaited]
     IN /\ r.stage = "replied"
        /\ CASE r.op = "start" /\ r.reply = "ok" ->
                  code' = r.code /\ shown' = shown \cup {r.code} /\ UNCHANGED token
             [] r.op = "poll" /\ r.reply = "claimed" ->
                  code' = Nothing /\ token' = r.token /\ UNCHANGED shown
             [] r.op = "poll" /\ r.reply = "expired" ->
                  code' = Nothing /\ UNCHANGED <<token, shown>>
             [] r.op = "auth" /\ r.reply = "unauthorized" ->
                  token' = Nothing /\ UNCHANGED <<code, shown>>
             [] OTHER -> UNCHANGED enrollAgentVars
  /\ call' = [call EXCEPT ![awaited] = Idle]
  /\ awaited' = Nothing
  /\ UNCHANGED <<rowVars, tokenVars, enrollFaults>>

Forget(k) ==
  /\ call[k].stage = "replied" /\ awaited # k
  /\ call' = [call EXCEPT ![k] = Idle]
  /\ UNCHANGED <<rowVars, tokenVars, enrollAgentVars, awaited, enrollFaults>>

-----------------------------------------------------------------------------
(* The server.                                                             *)

Reply(k, reply, c, t) ==
  call' = [call EXCEPT ![k] = [@ EXCEPT !.stage = "replied", !.reply = reply, !.code = c, !.token = t]]

\* A rate limit, a database that fails, or a request whose context is cancelled
\* because its client went away: the transaction is rolled back.
CallFails(k) ==
  /\ call[k].stage \in {"sent", "read"}
  /\ EnrollFault \/ (awaited # k /\ UNCHANGED enrollFaults)
  /\ Reply(k, "error", Nothing, Nothing)
  /\ UNCHANGED <<rowVars, tokenVars, enrollAgentVars, awaited>>

\* The pending code of the machine, with a new expiry, or a new code.
StartEnrollment(c) ==
  LET pending == {p \in Codes : enrollment[p] = "pending"}
  IN /\ IF pending # {} THEN c \in pending ELSE c = NewCode
     /\ Unlocked(c)
     /\ enrollment' = [enrollment EXCEPT ![c] = "pending"]
     /\ aged' = aged \ {c} /\ linked' = linked \ {c}
     /\ shown' = IF c \in pending THEN shown ELSE shown \ {c}

AgentEnrollStart(k) ==
  /\ call[k].stage = "sent" /\ call[k].op = "start"
  /\ \E c \in Codes : StartEnrollment(c) /\ Reply(k, "ok", c, Nothing)
  /\ UNCHANGED <<device, tokenVars, code, token, awaited, enrollFaults>>

\* Mutant: a token is issued once, delivered or not.
PollIssuesOnce(k) ==
  LET c == call[k].code
  IN /\ call[k].stage = "sent" /\ call[k].op = "poll" /\ Unlocked(c)
     /\ enrollment' = IF enrollment[c] = "pending" /\ c \in aged
                      THEN [enrollment EXCEPT ![c] = "expired"] ELSE enrollment
     /\ IF enrollment[c] = "claimed" /\ c \in linked /\ live = {}
        THEN call' = [call EXCEPT ![k].stage = "read", ![k].total = FALSE]
        ELSE Reply(k, enrollment'[c], c, Nothing)
     /\ UNCHANGED <<aged, linked, device, tokenVars, enrollAgentVars, awaited, enrollFaults>>

\* PollEnrollment up to the count of the device's tokens.
PollEnrollment(k) ==
  LET c == call[k].code
  IN /\ call[k].stage = "sent" /\ call[k].op = "poll"
     /\ Unlocked(c)
     /\ enrollment' = IF enrollment[c] = "pending" /\ c \in aged
                      THEN [enrollment EXCEPT ![c] = "expired"] ELSE enrollment
     /\ IF enrollment[c] = "claimed" /\ c \in linked /\ used = {}
        THEN call' = [call EXCEPT ![k].stage = "read", ![k].total = (live # {})]
        ELSE Reply(k, enrollment'[c], c, Nothing)
     /\ UNCHANGED <<aged, linked, device, tokenVars, enrollAgentVars, awaited, enrollFaults>>

Delete(tokens) == live' = live \ tokens /\ used' = used \ tokens

\* Mutant: the token that was not used stays.
IssueAnotherToken(k) ==
  /\ call[k].stage = "read" /\ call[k].op = "poll"
  /\ IF call[k].code \in linked
     THEN /\ live' = live \cup {NewToken} /\ revoked' = revoked \ {NewToken}
          /\ stray' = (stray \/ awaited # k)
          /\ Reply(k, "claimed", call[k].code, NewToken)
     ELSE Reply(k, "error", Nothing, Nothing) /\ UNCHANGED <<live, revoked, stray>>
  /\ UNCHANGED <<rowVars, used, enrollAgentVars, awaited, enrollFaults>>

\* ensureDeviceTokenForPoll after it found no token that was used. The bound: Tokens.
IssueDeviceToken(k) ==
  /\ call[k].stage = "read" /\ call[k].op = "poll"
  /\ IF call[k].code \in linked
     THEN /\ FreshTokens # {}
          /\ live' = (IF call[k].total THEN {} ELSE live) \cup {NewToken}
          /\ used' = IF call[k].total THEN {} ELSE used
          /\ revoked' = revoked \ {NewToken}
          /\ stray' = (stray \/ awaited # k)
          /\ Reply(k, "claimed", call[k].code, NewToken)
     ELSE Reply(k, "error", Nothing, Nothing) /\ UNCHANGED tokenVars
  /\ UNCHANGED <<rowVars, enrollAgentVars, awaited, enrollFaults>>

\* AuthenticateDeviceToken: a SELECT, then an UPDATE of last_used_at whose
\* count of rows is not looked at.
AuthenticateDeviceToken(k) ==
  /\ call[k].stage = "sent" /\ call[k].op = "auth"
  /\ IF call[k].token \in live
     THEN call' = [call EXCEPT ![k].stage = "read"]
     ELSE Reply(k, "unauthorized", Nothing, call[k].token)
  /\ UNCHANGED <<rowVars, tokenVars, enrollAgentVars, awaited, enrollFaults>>

RecordTokenUse(k) ==
  /\ call[k].stage = "read" /\ call[k].op = "auth"
  /\ used' = used \cup (live \cap {call[k].token})
  /\ Reply(k, "ok", Nothing, call[k].token)
  /\ UNCHANGED <<rowVars, live, revoked, stray, enrollAgentVars, awaited, enrollFaults>>

-----------------------------------------------------------------------------
(* Administrators and the clock.                                           *)

\* A machine that has a device is paired again with it, and its tokens are deleted.
ClaimEnrollmentCode(c) ==
  /\ enrollment[c] = "pending" /\ Unlocked(c)
  /\ IF c \in aged
     THEN /\ enrollment' = [enrollment EXCEPT ![c] = "expired"]
          /\ UNCHANGED <<linked, device, live, used, revoked>>
     ELSE /\ enrollment' = [enrollment EXCEPT ![c] = "claimed"]
          /\ linked' = linked \cup {c} /\ device' = TRUE
          /\ Delete(live) /\ revoked' = revoked \cup live
  /\ UNCHANGED <<aged, stray, enrollAgentVars, awaited, call, enrollFaults>>

\* Somebody reads the code off the machine and types it in.
PairDevice == \E c \in shown : ClaimEnrollmentCode(c)

\* Its tokens are deleted with it, its enrolments lose their device_id.
DeleteEnrolledDevice ==
  /\ device /\ EnrollFault
  /\ device' = FALSE /\ linked' = {}
  /\ Delete(live) /\ revoked' = revoked \cup live
  /\ UNCHANGED <<enrollment, aged, stray, enrollAgentVars, awaited, call>>

Age(c) ==
  /\ enrollment[c] = "pending" /\ c \notin aged /\ EnrollFault
  /\ aged' = aged \cup {c}
  /\ UNCHANGED <<enrollment, linked, device, tokenVars, enrollAgentVars, awaited, call>>

-----------------------------------------------------------------------------
EnrollAgentStep == Receive \/ \E k \in Calls : SendStart(k) \/ SendPoll(k) \/ SendAuthenticated(k)

AgentEnrollPoll(k) == PollEnrollment(k) \/ IssueDeviceToken(k)
RequireDeviceAuth(k) == AuthenticateDeviceToken(k) \/ RecordTokenUse(k)
EnrollServerStep(k) == AgentEnrollStart(k) \/ AgentEnrollPoll(k) \/ RequireDeviceAuth(k) \/ Forget(k)

EnrollNext ==
  \/ EnrollAgentStep \/ GiveUp
  \/ \E k \in Calls : EnrollServerStep(k) \/ CallFails(k)
  \/ \E c \in Codes : Age(c)
  \/ PairDevice \/ DeleteEnrolledDevice

-----------------------------------------------------------------------------
\* Types of the state above.
EnrollTypeOK ==
  /\ enrollment \in [Codes -> EnrollmentStatuses]
  /\ aged \subseteq Codes /\ linked \subseteq Codes /\ shown \subseteq Codes
  /\ device \in BOOLEAN /\ stray \in BOOLEAN
  /\ live \subseteq Tokens /\ used \subseteq live /\ revoked \subseteq Tokens
  /\ code \in Codes \cup {Nothing} /\ token \in Tokens \cup {Nothing}
  /\ awaited \in Calls \cup {Nothing} /\ call \in [Calls -> CallRecord]
  /\ enrollFaults \in 0 .. MaxEnrollFaults

\* As long as no poll that the agent gave up on has issued a token, the token
\* the agent stores is the only one of its device, until an administrator pairs
\* the machine again or deletes the device. About ensureDeviceTokenForPoll,
\* which deletes and issues tokens from a count it made before.
StoredTokenIsSole ==
  ~stray =>
    /\ Cardinality(live) <= 1
    /\ token # Nothing => token \in live \cup revoked

\* An agent that asks without a token comes to show a code that can be claimed,
\* or is paired, whatever codes age or calls are lost. About do_enrollment.
UnpairedShowsCode ==
  token = Nothing /\ awaited # Nothing ~>
    token # Nothing \/ (code # Nothing /\ enrollment[code] = "pending" /\ code \notin aged)

\* A claimed code the agent still polls brings it the device's token, however
\* many replies are lost, unless the device is deleted. About PollEnrollment,
\* which must be able to issue a token again.
ClaimIsDelivered ==
  \A c \in Codes :
    code = c /\ enrollment[c] = "claimed" /\ c \in linked ~> token # Nothing \/ c \notin linked

=============================================================================
