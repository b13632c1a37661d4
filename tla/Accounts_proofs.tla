--------------------------- MODULE Accounts_proofs ---------------------------
(***************************************************************************)
(* Proofs about Accounts, for any number of users, invites, passkeys,      *)
(* browsers and handlers. Administrators are never removed, and what a     *)
(* session or a handler remembers of an invite and of its rights stays     *)
(* true; the parts of IInv say so. Nothing but two deletions at once takes *)
(* the last passkey of a user.                                             *)
(***************************************************************************)
EXTENDS Accounts, FiniteSetTheorems, TLAPS

AccountSpec == AccountInit /\ [][AccountNext]_accountVars

-----------------------------------------------------------------------------
\* One administrator as soon as there is a user.
AdminOK == (users = {} /\ admins = {}) \/ \E a \in users : admins = {a}

\* What a session, or a handler's copy of one, remembers is still so.
SessionOK(d) ==
  /\ d \in SessionData
  /\ d.setup # Nil => d.setup.user \in People
  /\ d.user # Nil /\ d.admin => d.user \in admins
  /\ d.invite # Nil /\ d.recovery = Nil => invites[d.invite].state = "absent" \/ invites[d.invite].for = Nil

TabOK(t) ==
  /\ SessionOK(tab[t].data)
  /\ tab[t].step = "finish" => tab[t].data.setup # Nil
  /\ tab[t].step = "user" => users # {} /\ tab[t].target \notin admins

InviteOK(i) ==
  /\ invites[i].state # "absent" => users # {}
  /\ invites[i].state # "used" => served[i] = {}
  /\ invites[i].state = "used" =>
       \E u \in People : served[i] = {[user |-> u, kind |-> IF invites[i].for = Nil THEN "new" ELSE "recovery"]}
                         /\ invites[i].for \in {u, Nil}

SessionsOK == \A b \in Browsers : SessionOK(browser[b])
TabsOK == \A t \in Tabs : TabOK(t)
InvitesOK == \A i \in Invites : InviteOK(i)

IInv == AccountTypeOK /\ AdminOK /\ SessionsOK /\ TabsOK /\ InvitesOK

\* The part of it that is about the tables,
StoredOK ==
  /\ users \subseteq People /\ admins \subseteq users
  /\ owner \in [Passkeys -> users \cup {Nil}]
  /\ invites \in [Invites -> InviteData]
  /\ served \in [Invites -> SUBSET [user : People, kind : {"new", "recovery"}]]
  /\ AdminOK /\ InvitesOK

\* and what a step keeps of what sessions remember.
Kept ==
  /\ admins \subseteq admins'
  /\ users # {} => users' # {} /\ admins' = admins
  /\ \A i \in Invites : invites[i].state # "absent" =>
       invites'[i].state = "absent" \/ invites'[i].for = invites[i].for
  /\ \A i \in Invites : invites[i].state = "absent" /\ invites'[i].state # "absent" => i \in NewInvites

-----------------------------------------------------------------------------
\* The initial state: there is nobody, and nobody remembers anything.
LEMMA InitInv == AccountInit => IInv
  <1> SUFFICES ASSUME AccountInit PROVE IInv
    OBVIOUS
  <1> USE DEF AccountInit
  <1>1. NoSession \in SessionData /\ NoSession.setup = Nil /\ NoSession.user = Nil /\ NoSession.invite = Nil
    BY DEF NoSession, SessionData, Person
  <1>2. SessionOK(NoSession)
    BY <1>1 DEF SessionOK
  <1>3. AccountTypeOK
    BY <1>1 DEF AccountTypeOK, InviteData, NoInvite, Person, Idle, TabData
  <1>4. SessionsOK
    BY <1>2 DEF SessionsOK
  <1>5. TabsOK
    BY <1>2 DEF TabsOK, TabOK, Idle
  <1>6. InvitesOK
    BY DEF InvitesOK, InviteOK, NoInvite
  <1> QED
    BY <1>3, <1>4, <1>5, <1>6 DEF IInv, AdminOK

-----------------------------------------------------------------------------
(* Steps of one kind.                                                      *)

\* A session stays right when administrators stay and its invite goes or keeps
\* the user it is for.
LEMMA SessionKept ==
  ASSUME NEW d, SessionOK(d), admins \subseteq admins',
         d.invite # Nil => invites'[d.invite].state = "absent"
                           \/ (invites[d.invite].state # "absent" /\ invites'[d.invite].for = invites[d.invite].for)
  PROVE  SessionOK(d)'
  BY DEF SessionOK

\* Handlers that change a session and nothing else.
LEMMA RememberKeeps ==
  ASSUME IInv, NEW b \in Browsers, NEW data, SessionOK(data), Remember(b, data)
  PROVE  IInv'
  <1> USE DEF IInv, Remember, Stored
  <1>1. data \in SessionData
    BY DEF SessionOK
  <1>2. AccountTypeOK'
    BY <1>1 DEF AccountTypeOK
  <1>3. AdminOK' /\ InvitesOK'
    BY DEF AdminOK, InvitesOK, InviteOK
  <1>4. ASSUME NEW d, SessionOK(d) PROVE SessionOK(d)'
    BY <1>4 DEF SessionOK
  <1>5. SessionsOK'
    BY <1>4 DEF SessionsOK, AccountTypeOK
  <1>6. TabsOK'
    BY <1>4 DEF TabsOK, TabOK
  <1> QED
    BY <1>2, <1>3, <1>5, <1>6

\* The first of two steps.
LEMMA BeginKeeps ==
  ASSUME IInv, NEW t \in Tabs, NEW b \in Browsers, NEW data, SessionOK(data),
         NEW step \in {"finish", "user", "passkey"}, NEW target \in People \cup Passkeys \cup {Nil},
         step = "finish" => data.setup # Nil,
         step = "user" => users # {} /\ target \notin admins,
         Begin(t, step, b, data, target)
  PROVE  IInv'
  <1> USE DEF IInv, Begin, Stored
  <1>1. data \in SessionData
    BY DEF SessionOK
  <1>2. AccountTypeOK'
    BY <1>1 DEF AccountTypeOK, TabData
  <1>3. AdminOK' /\ InvitesOK'
    BY DEF AdminOK, InvitesOK, InviteOK
  <1>4. ASSUME NEW d, SessionOK(d) PROVE SessionOK(d)'
    BY <1>4 DEF SessionOK
  <1>5. SessionsOK'
    BY <1>4 DEF SessionsOK
  <1>6. TabsOK'
    BY <1>4 DEF TabsOK, TabOK, AccountTypeOK
  <1> QED
    BY <1>2, <1>3, <1>5, <1>6

\* A step that may change everything: it is enough that the tables stay right, that
\* administrators stay, that invites stay or go or keep whom they are for, and that
\* the sessions and handlers it changes are right afterwards.
LEMMA StepKeeps ==
  ASSUME IInv, StoredOK', Kept,
         browser' \in [Browsers -> SessionData], tab' \in [Tabs -> TabData],
         \A b \in Browsers : browser'[b] = browser[b] \/ SessionOK(browser[b])',
         \A t \in Tabs : tab'[t] = tab[t] \/ tab'[t] = Idle
  PROVE  IInv'
  <1> USE DEF IInv, Kept
  <1>1. ASSUME NEW d, d \in Sessions, SessionOK(d) PROVE SessionOK(d)'
    <2>1. d.invite \in Invites \cup {Nil}
      BY <1>1 DEF SessionOK, SessionData
    <2>2. d.invite \notin NewInvites
      BY <1>1 DEF NewInvites
    <2> QED
      BY <1>1, <2>1, <2>2, SessionKept
  <1>2. SessionsOK'
    <2> SUFFICES ASSUME NEW b \in Browsers PROVE SessionOK(browser[b])'
      BY DEF SessionsOK
    <2>1. SessionOK(browser[b]) /\ browser[b] \in Sessions
      BY DEF SessionsOK, Sessions
    <2> QED
      BY <1>1, <2>1
  <1>3. SessionOK(NoSession)'
    BY DEF NoSession, SessionOK, SessionData, Person
  <1>4. TabsOK'
    <2> SUFFICES ASSUME NEW t \in Tabs PROVE TabOK(t)'
      BY DEF TabsOK
    <2>1. CASE tab'[t] = Idle
      BY <1>3, <2>1 DEF TabOK, Idle
    <2>2. CASE tab'[t] = tab[t]
      <3>1. TabOK(t) /\ tab[t].data \in Sessions
        BY DEF TabsOK, Sessions
      <3>2. SessionOK(tab[t].data)'
        BY <1>1, <2>2, <3>1 DEF TabOK
      <3> QED
        BY <2>2, <3>1, <3>2 DEF TabOK
    <2> QED
      BY <2>1, <2>2
  <1> QED
    BY <1>2, <1>4 DEF StoredOK, AccountTypeOK

-----------------------------------------------------------------------------
(* Setup.                                                                  *)

\* The pages of /setup and its first half keep in the session what is so.
LEMMA SetupKeeps ==
  ASSUME IInv, NEW b \in Browsers,
         \/ SetupFormBootstrap(b) \/ SetupFormInvalid(b) \/ SetupStartRecovery(b)
         \/ \E u \in People : SetupStartBootstrap(b, u) \/ SetupStartInvite(b, u)
         \/ \E i \in Invites : SetupFormInvite(b, i)
  PROVE  IInv'
  <1> USE DEF IInv
  <1>1. SessionOK(browser[b]) /\ browser[b] \in SessionData
    BY DEF SessionsOK, SessionOK
  <1>2. CASE SetupFormBootstrap(b)
    <2>1. PICK right \in BOOLEAN : Remember(b, [browser[b] EXCEPT !.invite = Nil, !.bootstrap = right])
      BY <1>2 DEF SetupFormBootstrap
    <2>2. SessionOK([browser[b] EXCEPT !.invite = Nil, !.bootstrap = right])
      BY <1>1 DEF SessionOK, SessionData
    <2> QED
      BY <2>1, <2>2, RememberKeeps
  <1>3. CASE SetupFormInvalid(b)
    <2>1. PICK recovery \in {browser[b].recovery, Nil} :
            Remember(b, [browser[b] EXCEPT !.bootstrap = FALSE, !.invite = Nil, !.recovery = recovery])
      BY <1>3 DEF SetupFormInvalid
    <2>2. SessionOK([browser[b] EXCEPT !.bootstrap = FALSE, !.invite = Nil, !.recovery = recovery])
      BY <1>1 DEF SessionOK, SessionData, Person
    <2> QED
      BY <2>1, <2>2, RememberKeeps
  <1>4. CASE SetupStartRecovery(b)
    <2> DEFINE i == browser[b].invite
               u == invites[i].for
    <2>1. i \in Invites /\ u # Nil /\ u \in People
      BY <1>1, <1>4 DEF SetupStartRecovery, SessionData, AccountTypeOK, InviteData, Person
    <2>2. PICK isAdmin \in BOOLEAN :
            Remember(b, [browser[b] EXCEPT !.setup = [user |-> u, admin |-> isAdmin], !.recovery = u])
      <3>1. Remember(b, [browser[b] EXCEPT !.setup = [user |-> u, admin |-> u \in admins], !.recovery = u])
        BY <1>4 DEF SetupStartRecovery
      <3>2. (u \in admins) \in BOOLEAN
        OBVIOUS
      <3> QED
        BY <3>1, <3>2, Zenon
    <2> HIDE DEF u
    <2>3. SessionOK([browser[b] EXCEPT !.setup = [user |-> u, admin |-> isAdmin], !.recovery = u])
      BY <1>1, <2>1 DEF SessionOK, SessionData, Setup, Person
    <2> QED
      BY <2>2, <2>3, RememberKeeps
  <1>5. CASE \E u \in People : SetupStartBootstrap(b, u) \/ SetupStartInvite(b, u)
    <2>1. PICK u \in People, isAdmin \in BOOLEAN :
            Remember(b, [browser[b] EXCEPT !.setup = [user |-> u, admin |-> isAdmin]])
      BY <1>5 DEF SetupStartBootstrap, SetupStartInvite
    <2>2. SessionOK([browser[b] EXCEPT !.setup = [user |-> u, admin |-> isAdmin]])
      BY <1>1 DEF SessionOK, SessionData, Setup, Person
    <2> QED
      BY <2>1, <2>2, RememberKeeps
  <1>6. CASE \E i \in Invites : SetupFormInvite(b, i)
    <2>1. PICK i \in Invites : SetupFormInvite(b, i)
      BY <1>6
    <2> DEFINE data == [browser[b] EXCEPT !.bootstrap = FALSE, !.invite = i, !.recovery = invites[i].for]
    <2>2. invites[i].for \in Person
      BY DEF AccountTypeOK, InviteData
    <2>3. data \in SessionData /\ data.setup = browser[b].setup /\ data.user = browser[b].user
          /\ data.admin = browser[b].admin /\ data.invite = i /\ data.recovery = invites[i].for
      BY <1>1, <2>2 DEF SessionData
    <2> HIDE DEF data
    <2>4. SessionOK(data)
      BY <1>1, <2>3 DEF SessionOK
    <2> QED
      BY <2>1, <2>4, RememberKeeps DEF SetupFormInvite, data
  <1> QED
    BY <1>2, <1>3, <1>4, <1>5, <1>6

\* The second half begins only with what the first one kept.
LEMMA SetupFinishKeeps ==
  ASSUME IInv, NEW t \in Tabs, NEW b \in Browsers, SetupFinish(t, b)
  PROVE  IInv'
  <1>1. SessionOK(browser[b])
    BY DEF IInv, SessionsOK
  <1> QED
    BY <1>1, BeginKeeps DEF SetupFinish

\* The three transactions.
LEMMA TransactionKeeps ==
  ASSUME IInv, NEW d, SessionOK(d), NEW u \in People, NEW k \in Passkeys,
         \/ d.invite # Nil /\ FinalizeRecoveryRegistration(u, d.invite, k)
         \/ FinalizeBootstrap(u, k)
         \/ d.recovery = Nil /\ d.invite # Nil /\ FinalizeSetupRegistration(u, d.invite, k)
  PROVE  StoredOK' /\ Kept /\ u \in users'
  <1> USE DEF IInv, StoredOK, Kept
  <1>1. d.invite \in Invites \cup {Nil}
    BY DEF SessionOK, SessionData
  <1>2. CASE FinalizeBootstrap(u, k)
    <2>1. users = {} /\ admins = {} /\ users' = {u} /\ admins' = {u} /\ UNCHANGED <<invites, served>>
      BY <1>2 DEF FinalizeBootstrap, AdminOK
    <2>2. AdminOK' /\ InvitesOK'
      BY <2>1 DEF AdminOK, InvitesOK, InviteOK
    <2>3. owner' \in [Passkeys -> users' \cup {Nil}]
      BY <1>2, <2>1 DEF FinalizeBootstrap, AccountTypeOK
    <2> QED
      BY <2>1, <2>2, <2>3 DEF AccountTypeOK
  <1>3. ASSUME NEW i \in Invites, NEW kind \in {"new", "recovery"}, Consume(i, u, kind),
               invites[i].state = "fresh", users' # {},
               kind = (IF invites[i].for = Nil THEN "new" ELSE "recovery"), invites[i].for \in {u, Nil}
        PROVE  /\ InvitesOK'
               /\ invites' \in [Invites -> InviteData]
               /\ served' \in [Invites -> SUBSET [user : People, kind : {"new", "recovery"}]]
               /\ \A j \in Invites : invites'[j].for = invites[j].for
               /\ \A j \in Invites : invites'[j].state = "absent" <=> invites[j].state = "absent"
    <2>1. invites' \in [Invites -> InviteData] /\ served' \in [Invites -> SUBSET [user : People, kind : {"new", "recovery"}]]
      BY <1>3 DEF Consume, AccountTypeOK, InviteData
    <2>2. invites'[i].state = "used" /\ invites'[i].for = invites[i].for
      BY <1>3 DEF Consume, AccountTypeOK, InviteData
    <2>3. \A j \in Invites \ {i} : invites'[j] = invites[j] /\ served'[j] = served[j]
      BY <1>3 DEF Consume, AccountTypeOK
    <2>4. served'[i] = {[user |-> u, kind |-> kind]}
      BY <1>3 DEF Consume, AccountTypeOK, InvitesOK, InviteOK
    <2>5. InvitesOK'
      BY <1>3, <2>2, <2>3, <2>4 DEF InvitesOK, InviteOK
    <2> QED
      BY <1>3, <2>1, <2>2, <2>3, <2>5
  <1>4. CASE d.invite # Nil /\ FinalizeRecoveryRegistration(u, d.invite, k)
    <2> USE <1>4 DEF FinalizeRecoveryRegistration
    <2>1. d.invite \in Invites /\ u # Nil /\ u \in users /\ UNCHANGED <<users, admins>>
      BY <1>1, NilAssumption
    <2>2. owner' \in [Passkeys -> users' \cup {Nil}]
      BY <2>1 DEF AccountTypeOK
    <2>3. AdminOK'
      BY <2>1 DEF AdminOK
    <2> QED
      BY <1>3, <2>1, <2>2, <2>3 DEF AccountTypeOK
  <1>5. CASE d.recovery = Nil /\ d.invite # Nil /\ FinalizeSetupRegistration(u, d.invite, k)
    <2> USE <1>5 DEF FinalizeSetupRegistration
    <2>1. d.invite \in Invites /\ invites[d.invite].for = Nil /\ invites[d.invite].state = "fresh"
      BY <1>1 DEF SessionOK
    <2>2. users # {} /\ users' = users \cup {u} /\ admins' = admins
      BY <2>1 DEF InvitesOK, InviteOK
    <2>3. owner' \in [Passkeys -> users' \cup {Nil}]
      BY <2>2 DEF AccountTypeOK
    <2>4. AdminOK'
      BY <2>2 DEF AdminOK
    <2> QED
      BY <1>3, <2>1, <2>2, <2>3, <2>4 DEF AccountTypeOK
  <1> QED
    BY <1>2, <1>4, <1>5

\* The end of a registration, with the session as the handler leaves it.
LEMMA FinalizeKeeps ==
  ASSUME IInv, NEW t \in Tabs, NEW k \in Passkeys, Finalize(t, k)
  PROVE  IInv'
  <1> DEFINE data == tab[t].data
             u == data.setup.user
             left == ClearSetupSession(SetAuthenticatedSession(data, u, u \in admins'))
  <1>1. SessionOK(data) /\ data.setup # Nil /\ u \in People
    BY DEF Finalize, IInv, TabsOK, TabOK, SessionOK
  <1>2. StoredOK' /\ Kept /\ u \in users'
    BY <1>1, TransactionKeeps DEF Finalize
  <1>3. tab' = [tab EXCEPT ![t] = Idle] /\ browser' \in {browser, [browser EXCEPT ![tab[t].of] = left]}
    BY DEF Finalize, Done
  <1>4. left \in SessionData /\ left.setup = Nil /\ left.invite = Nil
        /\ (left.user # Nil /\ left.admin => left.user \in admins')
    <2>1. data \in SessionData
      BY <1>1 DEF SessionOK
    <2>2. ASSUME NEW isAdmin \in BOOLEAN, isAdmin => u \in admins'
          PROVE  LET d == ClearSetupSession(SetAuthenticatedSession(data, u, isAdmin))
                 IN  d \in SessionData /\ d.setup = Nil /\ d.invite = Nil
                     /\ (d.user # Nil /\ d.admin => d.user \in admins')
      BY <1>1, <2>1, <2>2 DEF ClearSetupSession, SetAuthenticatedSession, SessionData, Person
    <2>3. (u \in admins') \in BOOLEAN
      OBVIOUS
    <2> QED
      BY <2>2, <2>3, Zenon
  <1> HIDE DEF left
  <1>5. PICK after \in SessionData : after = left
    BY <1>4
  <1>6. SessionOK(after)'
    BY <1>4, <1>5 DEF SessionOK
  <1>7. Idle \in TabData
    BY DEF Idle, NoSession, TabData, SessionData, Person
  <1>8. browser' \in [Browsers -> SessionData] /\ tab' \in [Tabs -> TabData]
    BY <1>3, <1>5, <1>7 DEF IInv, AccountTypeOK
  <1>9. \A b \in Browsers : browser'[b] = browser[b] \/ SessionOK(browser[b])'
    BY <1>3, <1>5, <1>6 DEF IInv, AccountTypeOK
  <1>10. \A s \in Tabs : tab'[s] = tab[s] \/ tab'[s] = Idle
    BY <1>3 DEF IInv, AccountTypeOK
  <1> QED
    BY <1>2, <1>8, <1>9, <1>10, StepKeeps

-----------------------------------------------------------------------------
(* Sessions and passkeys.                                                  *)

\* Whoever signs in gets the rights the table gives, and keeps them rightly, for
\* they are never taken away.
LEMMA SignInKeeps ==
  ASSUME IInv, NEW b \in Browsers,
         Logout(b) \/ PasskeyRegistrationStart(b) \/ \E k \in Passkeys : PasskeyLoginFinish(b, k)
  PROVE  IInv'
  <1>1. SessionOK(browser[b]) /\ browser[b] \in SessionData
    BY DEF IInv, SessionsOK, SessionOK
  <1>2. CASE Logout(b)
    <2>1. SessionOK(ClearAuthenticatedSession(browser[b]))
      BY <1>1 DEF ClearAuthenticatedSession, SessionOK, SessionData, Person
    <2> QED
      BY <1>2, <2>1, RememberKeeps DEF Logout
  <1>3. CASE PasskeyRegistrationStart(b)
    <2>1. SessionOK([browser[b] EXCEPT !.adding = browser[b].user])
      BY <1>1 DEF SessionOK, SessionData
    <2> QED
      BY <1>3, <2>1, RememberKeeps DEF PasskeyRegistrationStart
  <1>4. CASE \E k \in Passkeys : PasskeyLoginFinish(b, k)
    <2>1. PICK k \in Passkeys : PasskeyLoginFinish(b, k)
      BY <1>4
    <2>2. owner[k] \in People
      BY <2>1 DEF PasskeyLoginFinish, IInv, AccountTypeOK
    <2>3. ASSUME NEW isAdmin \in BOOLEAN, isAdmin => owner[k] \in admins
          PROVE  SessionOK(SetAuthenticatedSession(browser[b], owner[k], isAdmin))
      BY <1>1, <2>2, <2>3 DEF SetAuthenticatedSession, SessionOK, SessionData, Person
    <2>4. (owner[k] \in admins) \in BOOLEAN
      OBVIOUS
    <2>5. SessionOK(SetAuthenticatedSession(browser[b], owner[k], owner[k] \in admins))
      BY <2>3, <2>4, Zenon
    <2> QED
      BY <2>1, <2>5, RememberKeeps DEF PasskeyLoginFinish
  <1> QED
    BY <1>2, <1>3, <1>4

\* The tables as far as users and invites are concerned are left alone.
LEMMA TablesKept ==
  ASSUME IInv, UNCHANGED <<users, admins, invites, served>>, owner' \in [Passkeys -> users \cup {Nil}]
  PROVE  StoredOK' /\ Kept
  BY DEF IInv, AccountTypeOK, StoredOK, Kept, AdminOK, InvitesOK, InviteOK

\* Passkeys that are added or deleted.
LEMMA PasskeyKeeps ==
  ASSUME IInv,
         \/ \E b \in Browsers, k \in Passkeys : PasskeyRegistrationFinish(b, k)
         \/ \E t \in Tabs : DeleteUserPasskey(t)
  PROVE  IInv'
  <1>1. CASE \E b \in Browsers, k \in Passkeys : PasskeyRegistrationFinish(b, k)
    <2>1. PICK b \in Browsers, k \in Passkeys : PasskeyRegistrationFinish(b, k)
      BY <1>1
    <2>2. StoredOK' /\ Kept
      BY <2>1, TablesKept DEF PasskeyRegistrationFinish, IInv, AccountTypeOK
    <2>3. SessionOK(browser[b]) /\ browser[b] \in SessionData
      BY DEF IInv, SessionsOK, SessionOK
    <2>4. PICK after \in SessionData : after = [browser[b] EXCEPT !.adding = Nil]
      BY <2>3 DEF SessionData, Person
    <2>5. browser' = [browser EXCEPT ![b] = after] /\ UNCHANGED <<admins, invites, tab>>
      BY <2>1, <2>4 DEF PasskeyRegistrationFinish
    <2>6. SessionOK(after)'
      BY <2>3, <2>4, <2>5 DEF SessionOK, SessionData
    <2>7. browser' \in [Browsers -> SessionData] /\ tab' \in [Tabs -> TabData]
      BY <2>5 DEF IInv, AccountTypeOK
    <2>8. \A c \in Browsers : browser'[c] = browser[c] \/ SessionOK(browser[c])'
      BY <2>5, <2>6 DEF IInv, AccountTypeOK
    <2> QED
      BY <2>2, <2>5, <2>7, <2>8, StepKeeps
  <1>2. CASE \E t \in Tabs : DeleteUserPasskey(t)
    <2>1. PICK t \in Tabs : DeleteUserPasskey(t)
      BY <1>2
    <2>2. StoredOK' /\ Kept
      BY <2>1, TablesKept DEF DeleteUserPasskey, IInv, AccountTypeOK
    <2>3. tab' = [tab EXCEPT ![t] = Idle] /\ UNCHANGED browser
      BY <2>1 DEF DeleteUserPasskey, Done
    <2>4. Idle \in TabData
      BY DEF Idle, NoSession, TabData, SessionData, Person
    <2> QED
      BY <2>2, <2>3, <2>4, StepKeeps DEF IInv, AccountTypeOK
  <1> QED
    BY <1>1, <1>2

\* Whoever asks for a deletion is held with the target: never the administrator, as
\* there is one only.
LEMMA DeletionKeeps ==
  ASSUME IInv, NEW t \in Tabs, NEW b \in Browsers,
         \/ \E u \in People : DeleteUser(t, b, u)
         \/ \E k \in Passkeys : DeletePasskey(t, b, k)
  PROVE  IInv'
  <1>1. SessionOK(NoSession)
    BY DEF NoSession, SessionOK, SessionData, Person
  <1>2. CASE \E k \in Passkeys : DeletePasskey(t, b, k)
    BY <1>1, <1>2, BeginKeeps DEF DeletePasskey
  <1>3. CASE \E u \in People : DeleteUser(t, b, u)
    <2>1. PICK u \in People : DeleteUser(t, b, u)
      BY <1>3
    <2>2. u \in users /\ (u \in admins => Cardinality(admins) > 1) /\ Begin(t, "user", b, NoSession, u)
      BY <2>1 DEF DeleteUser
    <2>3. PICK a \in users : admins = {a}
      BY <2>2 DEF IInv, AdminOK
    <2>4. Cardinality(admins) = 1
      BY <2>3, FS_Singleton
    <2>5. u \notin admins
      BY <2>2, <2>4
    <2> QED
      BY <1>1, <2>2, <2>5, BeginKeeps
  <1> QED
    BY <1>2, <1>3

\* A handler that leaves changed nothing.
LEMMA LeaveKeeps ==
  ASSUME IInv, NEW t \in Tabs, Leave(t)
  PROVE  IInv'
  <1>1. tab' = [tab EXCEPT ![t] = Idle] /\ UNCHANGED <<users, admins, owner, invites, served, browser>>
    BY DEF Leave, Done, Stored
  <1>2. StoredOK' /\ Kept
    BY <1>1, TablesKept DEF IInv, AccountTypeOK
  <1>3. Idle \in TabData
    BY DEF Idle, NoSession, TabData, SessionData, Person
  <1> QED
    BY <1>1, <1>2, <1>3, StepKeeps DEF IInv, AccountTypeOK

-----------------------------------------------------------------------------
(* What administrators do.                                                 *)

\* Steps on invites alone.
LEMMA InvitesKeep ==
  ASSUME IInv, UNCHANGED <<users, admins, owner, browser, tab>>,
         invites' \in [Invites -> InviteData],
         served' \in [Invites -> SUBSET [user : People, kind : {"new", "recovery"}]],
         NEW i \in Invites, InviteOK(i)',
         \A j \in Invites \ {i} : invites'[j] = invites[j] /\ served'[j] = served[j],
         IF invites[i].state = "absent"
         THEN invites'[i].state # "absent" => i \in NewInvites
         ELSE invites'[i].state = "absent" \/ invites'[i].for = invites[i].for
  PROVE  IInv'
  <1>1. InvitesOK'
    <2> SUFFICES ASSUME NEW j \in Invites PROVE InviteOK(j)'
      BY DEF InvitesOK
    <2> QED
      BY DEF IInv, InvitesOK, InviteOK
  <1>2. StoredOK'
    BY <1>1 DEF StoredOK, IInv, AccountTypeOK, AdminOK
  <1>3. Kept
    BY DEF Kept
  <1> QED
    BY <1>2, <1>3, StepKeeps DEF IInv, AccountTypeOK

\* A new link is for a user there is, or for none.
LEMMA InviteKeeps ==
  ASSUME IInv, NEW b \in Browsers, NEW u \in Person, Invite(b, u)
  PROVE  IInv'
  <1>1. PICK i \in NewInvites :
          /\ browser[b].user \in users
          /\ invites' = [invites EXCEPT ![i] = [state |-> "fresh", for |-> u]]
          /\ UNCHANGED <<users, admins, owner, served, browser, tab>>
    BY DEF Invite
  <1>2. i \in Invites /\ invites[i].state = "absent"
    BY DEF NewInvites
  <1>3. invites' \in [Invites -> InviteData]
    BY <1>1, <1>2 DEF IInv, AccountTypeOK, InviteData
  <1>4. InviteOK(i)'
    BY <1>1, <1>2 DEF IInv, AccountTypeOK, InvitesOK, InviteOK
  <1> QED
    BY <1>1, <1>2, <1>3, <1>4, InvitesKeep DEF IInv, AccountTypeOK

\* Links that are renewed, deleted or that expire.
LEMMA OldInviteKeeps ==
  ASSUME IInv, NEW i \in Invites,
         \/ \E b \in Browsers : RegenerateUserInvite(b, i) \/ DeleteUserInvite(b, i)
         \/ InviteExpires(i)
  PROVE  IInv'
  <1> USE DEF IInv, AccountTypeOK
  <1>1. CASE \E b \in Browsers : DeleteUserInvite(b, i)
    <2>1. /\ invites[i].state # "absent"
          /\ invites' = [invites EXCEPT ![i] = NoInvite] /\ served' = [served EXCEPT ![i] = {}]
          /\ UNCHANGED <<users, admins, owner, browser, tab>>
      BY <1>1 DEF DeleteUserInvite
    <2>2. invites' \in [Invites -> InviteData]
          /\ served' \in [Invites -> SUBSET [user : People, kind : {"new", "recovery"}]]
      BY <2>1 DEF InviteData, NoInvite, Person
    <2>3. InviteOK(i)'
      BY <2>1 DEF InviteOK, NoInvite
    <2> QED
      BY <2>1, <2>2, <2>3, InvitesKeep DEF NoInvite
  <1>2. CASE InviteExpires(i) \/ \E b \in Browsers : RegenerateUserInvite(b, i)
    <2>1. PICK after \in {"fresh", "expired"} :
            /\ invites[i].state \in {"fresh", "expired"}
            /\ invites' = [invites EXCEPT ![i].state = after]
            /\ UNCHANGED <<users, admins, owner, browser, tab, served>>
      BY <1>2 DEF InviteExpires, RegenerateUserInvite
    <2>2. invites' \in [Invites -> InviteData]
      BY <2>1 DEF InviteData
    <2>3. InviteOK(i)' /\ invites'[i].for = invites[i].for
      BY <2>1 DEF InviteOK, InvitesOK, InviteData
    <2> QED
      BY <2>1, <2>2, <2>3, InvitesKeep
  <1> QED
    BY <1>1, <1>2

\* The row of a user who is not an administrator goes, with the links for them.
LEMMA DeleteRowKeeps ==
  ASSUME IInv, NEW t \in Tabs, DeleteUserRow(t)
  PROVE  IInv'
  <1> DEFINE u == tab[t].target
  <1> USE DEF IInv, AccountTypeOK
  <1>1. u \notin admins /\ users # {}
    BY DEF DeleteUserRow, TabsOK, TabOK
  <1>2. /\ users' = users \ {u} /\ admins' = admins \ {u}
        /\ owner' = [k \in Passkeys |-> IF owner[k] = u THEN Nil ELSE owner[k]]
        /\ invites' = [i \in Invites |-> IF invites[i].for = u THEN NoInvite ELSE invites[i]]
        /\ served' = [i \in Invites |-> IF invites[i].for = u THEN {} ELSE served[i]]
        /\ tab' = [tab EXCEPT ![t] = Idle] /\ UNCHANGED browser
    BY DEF DeleteUserRow, Done
  <1> HIDE DEF u
  <1>3. PICK a \in users : admins = {a}
    BY <1>1 DEF AdminOK
  <1>4. admins' = admins /\ a \in users'
    BY <1>1, <1>2, <1>3
  <1>5. NoInvite \in InviteData /\ NoInvite.state = "absent"
    BY DEF NoInvite, InviteData, Person
  <1>6. InvitesOK'
    BY <1>2, <1>4, <1>5 DEF InvitesOK, InviteOK
  <1>7. invites' \in [Invites -> InviteData]
        /\ served' \in [Invites -> SUBSET [user : People, kind : {"new", "recovery"}]]
    BY <1>2, <1>5
  <1>8. owner' \in [Passkeys -> users' \cup {Nil}]
    BY <1>2
  <1>9. StoredOK'
    BY <1>2, <1>3, <1>4, <1>6, <1>7, <1>8 DEF StoredOK, AdminOK
  <1>10. Kept
    BY <1>2, <1>4, <1>5 DEF Kept
  <1>11. Idle \in TabData
    BY DEF Idle, NoSession, TabData, SessionData, Person
  <1> QED
    BY <1>2, <1>9, <1>10, <1>11, StepKeeps

-----------------------------------------------------------------------------
\* Every step keeps the invariant.
LEMMA StepInv == IInv /\ [AccountNext]_accountVars => IInv'
  <1> SUFFICES ASSUME IInv, [AccountNext]_accountVars PROVE IInv'
    OBVIOUS
  <1>1. ASSUME NEW b \in Browsers,
               \/ SetupFormBootstrap(b) \/ SetupFormInvalid(b) \/ SetupStartRecovery(b)
               \/ \E u \in People : SetupStartBootstrap(b, u) \/ SetupStartInvite(b, u)
               \/ \E i \in Invites : SetupFormInvite(b, i)
        PROVE  IInv'
    BY <1>1, SetupKeeps
  <1>2. ASSUME NEW b \in Browsers,
               Logout(b) \/ PasskeyRegistrationStart(b) \/ \E k \in Passkeys : PasskeyLoginFinish(b, k)
        PROVE  IInv'
    BY <1>2, SignInKeeps
  <1>3. ASSUME NEW b \in Browsers, CreateUserInvite(b) \/ \E u \in People : CreateUserResetLink(b, u)
        PROVE  IInv'
    BY <1>3, InviteKeeps DEF CreateUserInvite, CreateUserResetLink, Person
  <1>4. ASSUME NEW i \in Invites,
               InviteExpires(i) \/ \E b \in Browsers : RegenerateUserInvite(b, i) \/ DeleteUserInvite(b, i)
        PROVE  IInv'
    BY <1>4, OldInviteKeeps
  <1>5. ASSUME \/ \E b \in Browsers, k \in Passkeys : PasskeyRegistrationFinish(b, k)
               \/ \E t \in Tabs : DeleteUserPasskey(t)
        PROVE  IInv'
    BY <1>5, PasskeyKeeps
  <1>6. ASSUME NEW t \in Tabs, NEW b \in Browsers,
               \/ SetupFinish(t, b)
               \/ \E u \in People : DeleteUser(t, b, u)
               \/ \E k \in Passkeys : DeletePasskey(t, b, k)
        PROVE  IInv'
    BY <1>6, SetupFinishKeeps, DeletionKeeps
  <1>7. ASSUME NEW t \in Tabs, DeleteUserRow(t) \/ Leave(t) \/ \E k \in Passkeys : Finalize(t, k)
        PROVE  IInv'
    BY <1>7, DeleteRowKeeps, LeaveKeeps, FinalizeKeeps
  <1>8. CASE UNCHANGED accountVars
    BY <1>8 DEF accountVars, IInv, AccountTypeOK, AdminOK, SessionsOK, SessionOK, TabsOK, TabOK,
                InvitesOK, InviteOK
  <1> QED
    BY <1>1, <1>2, <1>3, <1>4, <1>5, <1>6, <1>7, <1>8 DEF AccountNext

\* IInv is an invariant.
LEMMA Invariance == AccountSpec => []IInv
  <1> QED
    BY InitInv, StepInv, PTL DEF AccountSpec

-----------------------------------------------------------------------------
\* Users, passkeys, invites, sessions and handlers have their types: in particular
\* each stored passkey is that of a user there is.
THEOREM AccountsTyped == AccountSpec => []AccountTypeOK
  <1>1. IInv => AccountTypeOK
    BY DEF IInv
  <1> QED
    BY <1>1, Invariance, PTL

\* However many browsers and handlers race for the first account, and whoever is
\* deleted, there is one administrator as soon as there are users, and a session
\* has the rights of one only if it is theirs.
THEOREM OneAdministrator == AccountSpec => []OneAdmin
  <1>1. ASSUME IInv PROVE OneAdmin
    <2>1. users # {} => Cardinality(admins) = 1
      BY <1>1, FS_Singleton DEF IInv, AdminOK
    <2>2. \A b \in Browsers : SessionIsAdmin(b) => browser[b].user \in admins
      BY <1>1 DEF IInv, SessionsOK, SessionOK, SessionIsAdmin, SignedIn
    <2> QED
      BY <2>1, <2>2 DEF OneAdmin
  <1> QED
    BY <1>1, Invariance, PTL

\* An invite serves once, a recovery link the user it was made for and any other a
\* user that did not exist, whatever other links the same browser has opened.
THEOREM InvitesServe == AccountSpec => []InviteServesItsUser
  <1>1. ASSUME IInv PROVE InviteServesItsUser
    <2> SUFFICES ASSUME NEW i \in Invites
                 PROVE  /\ invites[i].state \in {"fresh", "expired"} => served[i] = {}
                        /\ invites[i].state = "used" =>
                             \E u \in People : served[i] = {[user |-> u, kind |-> IF invites[i].for = Nil THEN "new" ELSE "recovery"]}
                                               /\ invites[i].for \in {u, Nil}
      BY DEF InviteServesItsUser
    <2> QED
      BY <1>1 DEF IInv, InvitesOK, InviteOK
  <1> QED
    BY <1>1, Invariance, PTL

-----------------------------------------------------------------------------
(* Passkeys: only two deletions of one user at once take the last.         *)

\* The handlers that have counted the passkeys of one user are all about to delete
\* the same one.
OneDeletionPerUser ==
  \A t, v \in Tabs :
    /\ tab[t].step = "passkey" /\ tab[v].step = "passkey"
    /\ owner[tab[t].target] # Nil /\ owner[tab[t].target] = owner[tab[v].target]
    => tab[t].target = tab[v].target

\* A handler that has counted the passkeys.
AboutToDelete(t) == tab[t].step = "passkey"

\* Each user has a passkey, and another than any that is about to be deleted.
PasskeysRemain ==
  /\ KeepsOnePasskey
  /\ \A t \in Tabs : AboutToDelete(t) => tab[t].target \in Passkeys
  /\ \A t \in Tabs, u \in users :
       AboutToDelete(t) /\ owner[tab[t].target] = u => OwnPasskeys(u) \ {tab[t].target} # {}

\* Steps that touch neither users nor passkeys, and count none.
LEMMA UntouchedRemain ==
  ASSUME PasskeysRemain, UNCHANGED <<users, owner>>,
         \A t \in Tabs : AboutToDelete(t)' => UNCHANGED tab[t]
  PROVE  PasskeysRemain'
  BY DEF PasskeysRemain, KeepsOnePasskey, OwnPasskeys, AboutToDelete

\* A handler goes on only with a user who has two, and deletes one of them.
LEMMA CountedRemain ==
  ASSUME IInv, PasskeysRemain, NEW t \in Tabs, NEW b \in Browsers, NEW k \in Passkeys, DeletePasskey(t, b, k)
  PROVE  PasskeysRemain'
  <1> DEFINE u == browser[b].user
  <1>1. /\ tab' = [tab EXCEPT ![t] = [step |-> "passkey", of |-> b, data |-> NoSession, target |-> k]]
        /\ UNCHANGED <<users, owner>> /\ owner[k] = u /\ Cardinality(OwnPasskeys(u)) > 1
    BY DEF DeletePasskey, Begin, Stored
  <1>2. OwnPasskeys(u) \ {k} # {}
    <2>1. Cardinality({k}) = 1
      BY FS_Singleton
    <2>2. k \in OwnPasskeys(u)
      BY <1>1 DEF OwnPasskeys
    <2>3. OwnPasskeys(u) # {k}
      BY <1>1, <2>1
    <2> QED
      BY <2>2, <2>3
  <1> HIDE DEF u
  <1>3. ASSUME NEW v \in Tabs, AboutToDelete(v)', NEW w \in users, owner[tab'[v].target] = w
        PROVE  OwnPasskeys(w) \ {tab'[v].target} # {}
    <2>1. CASE v = t
      BY <1>1, <1>2, <1>3, <2>1 DEF IInv, AccountTypeOK
    <2>2. CASE v # t
      BY <1>1, <1>3, <2>2 DEF IInv, AccountTypeOK, PasskeysRemain, AboutToDelete
    <2> QED
      BY <2>1, <2>2
  <1>4. \A v \in Tabs : AboutToDelete(v)' => tab'[v].target \in Passkeys
    BY <1>1 DEF IInv, AccountTypeOK, PasskeysRemain, AboutToDelete
  <1> QED
    BY <1>1, <1>3, <1>4 DEF PasskeysRemain, KeepsOnePasskey, OwnPasskeys

\* The deletion leaves the user another, and another deletion of the user's
\* passkeys is one of the same.
LEMMA DeletedRemain ==
  ASSUME IInv, PasskeysRemain, OneDeletionPerUser, NEW t \in Tabs, DeleteUserPasskey(t)
  PROVE  PasskeysRemain'
  <1> DEFINE k == tab[t].target
  <1>1. /\ tab' = [tab EXCEPT ![t] = Idle] /\ AboutToDelete(t) /\ k \in Passkeys
        /\ owner' = [owner EXCEPT ![k] = Nil] /\ UNCHANGED users
    BY DEF DeleteUserPasskey, Done, AboutToDelete, PasskeysRemain
  <1>2. ASSUME NEW w \in users PROVE w # Nil
    BY NilAssumption DEF IInv, AccountTypeOK
  <1>3. ASSUME NEW w \in users PROVE OwnPasskeys(w)' = OwnPasskeys(w) \ {k}
    BY <1>1, <1>2 DEF OwnPasskeys, IInv, AccountTypeOK
  <1>4. ASSUME NEW v \in Tabs, AboutToDelete(v)' PROVE v # t /\ AboutToDelete(v) /\ UNCHANGED tab[v]
    BY <1>1, <1>4 DEF AboutToDelete, Idle, IInv, AccountTypeOK
  <1>5. ASSUME NEW w \in users PROVE OwnPasskeys(w) \ {k} # {}
    BY <1>1 DEF PasskeysRemain, KeepsOnePasskey, OwnPasskeys
  <1>6. ASSUME NEW v \in Tabs, AboutToDelete(v)', NEW w \in users, owner'[tab[v].target] = w
        PROVE  (OwnPasskeys(w) \ {k}) \ {tab[v].target} # {}
    <2> DEFINE l == tab[v].target
    <2>1. AboutToDelete(v) /\ l \in Passkeys
      BY <1>4, <1>6 DEF PasskeysRemain
    <2>2. l # k /\ owner[l] = w
      BY <1>1, <1>2, <1>6, <2>1 DEF IInv, AccountTypeOK
    <2>3. owner[k] # w
      BY <1>1, <1>2, <2>1, <2>2 DEF OneDeletionPerUser, AboutToDelete
    <2>4. OwnPasskeys(w) \ {l} # {}
      BY <2>1, <2>2 DEF PasskeysRemain
    <2> QED
      BY <2>3, <2>4 DEF OwnPasskeys
  <1> HIDE DEF k
  <1> QED
    BY <1>1, <1>3, <1>4, <1>5, <1>6 DEF PasskeysRemain, KeepsOnePasskey

\* A new passkey is none that is about to be deleted.
LEMMA AddedRemain ==
  ASSUME IInv, PasskeysRemain, NEW b \in Browsers, NEW k \in Passkeys, PasskeyRegistrationFinish(b, k)
  PROVE  PasskeysRemain'
  <1>1. /\ UNCHANGED <<users, tab>> /\ owner' = [owner EXCEPT ![k] = browser[b].adding]
        /\ owner[k] = Nil /\ \A t \in Tabs : tab[t].target # k
    BY DEF PasskeyRegistrationFinish, NewPasskeys
  <1>2. ASSUME NEW w \in users PROVE OwnPasskeys(w) \subseteq OwnPasskeys(w)'
    BY <1>1, NilAssumption DEF OwnPasskeys, IInv, AccountTypeOK
  <1>3. \A t \in Tabs : AboutToDelete(t) => owner'[tab[t].target] = owner[tab[t].target]
    BY <1>1 DEF IInv, AccountTypeOK, PasskeysRemain
  <1>4. KeepsOnePasskey'
    BY <1>1, <1>2 DEF PasskeysRemain, KeepsOnePasskey
  <1>5. ASSUME NEW t \in Tabs, AboutToDelete(t), NEW w \in users, owner[tab[t].target] = w
        PROVE  OwnPasskeys(w)' \ {tab[t].target} # {}
    BY <1>2, <1>5 DEF PasskeysRemain
  <1> QED
    BY <1>1, <1>3, <1>4, <1>5 DEF PasskeysRemain, AboutToDelete

\* A setup leaves its user the passkey it made, and the others theirs.
LEMMA FinalizedRemain ==
  ASSUME IInv, PasskeysRemain, NEW t \in Tabs, NEW k \in Passkeys, Finalize(t, k)
  PROVE  PasskeysRemain'
  <1>1. /\ k \in Passkeys /\ owner[k] = Nil /\ \A v \in Tabs : tab[v].target # k
        /\ tab' = [tab EXCEPT ![t] = Idle]
    BY DEF Finalize, NewPasskeys, Done
  <1>2. PICK u \in People : u = tab[t].data.setup.user /\ u # Nil
    BY NilAssumption DEF Finalize, IInv, TabsOK, TabOK, SessionOK
  <1>3. \A w \in users : w # Nil
    BY NilAssumption DEF IInv, AccountTypeOK
  <1>4. \/ /\ users' = users /\ u \in users
           /\ owner' = [p \in Passkeys |-> IF p = k THEN u ELSE IF owner[p] = u THEN Nil ELSE owner[p]]
        \/ users' = users \cup {u} /\ u \notin users /\ owner' = [owner EXCEPT ![k] = u]
    BY <1>2 DEF Finalize, FinalizeBootstrap, FinalizeSetupRegistration, FinalizeRecoveryRegistration
  <1>5. ASSUME NEW v \in Tabs, AboutToDelete(v)'
        PROVE  AboutToDelete(v) /\ UNCHANGED tab[v] /\ tab[v].target \in Passkeys \ {k}
    BY <1>1, <1>5 DEF AboutToDelete, Idle, IInv, AccountTypeOK, PasskeysRemain
  <1>6. OwnPasskeys(u)' = {k} /\ users' \ {u} \subseteq users
    BY <1>1, <1>2, <1>4 DEF OwnPasskeys, IInv, AccountTypeOK
  <1>7. ASSUME NEW w \in users' \ {u} PROVE OwnPasskeys(w)' = OwnPasskeys(w) /\ w # Nil
    BY <1>1, <1>3, <1>4, <1>6 DEF OwnPasskeys, IInv, AccountTypeOK
  <1>8. ASSUME NEW p \in Passkeys \ {k}, owner'[p] # Nil PROVE owner'[p] = owner[p] /\ owner'[p] # u
    BY <1>4, <1>8 DEF IInv, AccountTypeOK
  <1>9. KeepsOnePasskey'
    BY <1>6, <1>7 DEF PasskeysRemain, KeepsOnePasskey
  <1>10. ASSUME NEW v \in Tabs, AboutToDelete(v)', NEW w \in users', owner'[tab'[v].target] = w
         PROVE  OwnPasskeys(w)' \ {tab'[v].target} # {}
    <2>1. AboutToDelete(v) /\ UNCHANGED tab[v] /\ tab[v].target \in Passkeys \ {k}
      BY <1>5, <1>10
    <2>2. CASE w = u
      BY <2>1, <2>2, <1>6
    <2>3. CASE w # u
      BY <2>1, <2>3, <1>6, <1>7, <1>8, <1>10 DEF PasskeysRemain
    <2> QED
      BY <2>2, <2>3
  <1> QED
    BY <1>5, <1>9, <1>10 DEF PasskeysRemain

\* A user goes with their passkeys, the others keep theirs.
LEMMA RowDeletedRemain ==
  ASSUME IInv, PasskeysRemain, NEW t \in Tabs, DeleteUserRow(t)
  PROVE  PasskeysRemain'
  <1> DEFINE u == tab[t].target
  <1>1. /\ users' = users \ {u} /\ tab' = [tab EXCEPT ![t] = Idle]
        /\ owner' = [k \in Passkeys |-> IF owner[k] = u THEN Nil ELSE owner[k]]
    BY DEF DeleteUserRow, Done
  <1> HIDE DEF u
  <1>2. ASSUME NEW w \in users' PROVE w \in users /\ w # Nil /\ OwnPasskeys(w)' = OwnPasskeys(w)
    BY <1>1, NilAssumption DEF OwnPasskeys, IInv, AccountTypeOK
  <1>3. ASSUME NEW v \in Tabs, AboutToDelete(v)' PROVE AboutToDelete(v) /\ UNCHANGED tab[v]
    BY <1>1, <1>3 DEF AboutToDelete, Idle, IInv, AccountTypeOK
  <1>4. ASSUME NEW v \in Tabs, AboutToDelete(v)', NEW w \in users', owner'[tab[v].target] = w
        PROVE  owner[tab[v].target] = w
    BY <1>1, <1>2, <1>3, <1>4 DEF PasskeysRemain
  <1> QED
    BY <1>2, <1>3, <1>4 DEF PasskeysRemain, KeepsOnePasskey

\* No step but a second deletion takes the last passkey of a user.
LEMMA StepRemains ==
  ASSUME IInv, PasskeysRemain, OneDeletionPerUser, [AccountNext]_accountVars
  PROVE  PasskeysRemain'
  <1>1. CASE UNCHANGED <<users, owner, tab>>
    BY <1>1, UntouchedRemain
  <1>2. ASSUME NEW b \in Browsers,
               \/ SetupFormBootstrap(b) \/ SetupFormInvalid(b) \/ SetupStartRecovery(b)
               \/ \E u \in People : SetupStartBootstrap(b, u) \/ SetupStartInvite(b, u) \/ CreateUserResetLink(b, u)
               \/ \E i \in Invites : SetupFormInvite(b, i) \/ RegenerateUserInvite(b, i) \/ DeleteUserInvite(b, i)
               \/ \E k \in Passkeys : PasskeyLoginFinish(b, k)
               \/ Logout(b) \/ PasskeyRegistrationStart(b) \/ CreateUserInvite(b)
        PROVE  UNCHANGED <<users, owner, tab>>
    BY <1>2 DEF SetupFormBootstrap, SetupFormInvalid, SetupStartRecovery, SetupStartBootstrap,
         SetupStartInvite, CreateUserResetLink, SetupFormInvite, RegenerateUserInvite, DeleteUserInvite,
         PasskeyLoginFinish, Logout, PasskeyRegistrationStart, CreateUserInvite, Invite, Remember, Stored
  <1>3. ASSUME NEW i \in Invites, InviteExpires(i) PROVE UNCHANGED <<users, owner, tab>>
    BY <1>3 DEF InviteExpires
  <1>4. CASE UNCHANGED accountVars
    BY <1>4, <1>1 DEF accountVars
  <1>5. ASSUME NEW t \in Tabs, NEW b \in Browsers,
               SetupFinish(t, b) \/ \E u \in People : DeleteUser(t, b, u)
        PROVE  PasskeysRemain'
    <2>1. /\ UNCHANGED <<users, owner>>
          /\ \E new : new.step # "passkey" /\ tab' = [tab EXCEPT ![t] = new]
      BY <1>5 DEF SetupFinish, DeleteUser, Begin, Stored
    <2>2. \A v \in Tabs : AboutToDelete(v)' => UNCHANGED tab[v]
      BY <2>1 DEF AboutToDelete, IInv, AccountTypeOK
    <2> QED
      BY <2>1, <2>2, UntouchedRemain
  <1>6. ASSUME NEW t \in Tabs, Leave(t) PROVE PasskeysRemain'
    <2>1. /\ UNCHANGED <<users, owner>> /\ tab' = [tab EXCEPT ![t] = Idle]
      BY <1>6 DEF Leave, Done, Stored
    <2>2. \A v \in Tabs : AboutToDelete(v)' => UNCHANGED tab[v]
      BY <2>1 DEF AboutToDelete, Idle, IInv, AccountTypeOK
    <2> QED
      BY <2>1, <2>2, UntouchedRemain
  <1> QED
    BY <1>1, <1>2, <1>3, <1>4, <1>5, <1>6, CountedRemain, DeletedRemain, AddedRemain,
       FinalizedRemain, RowDeletedRemain DEF AccountNext

\* As long as no user has two different passkeys of theirs about to be deleted at
\* once, every user keeps one, whoever signs in, recovers, adds passkeys or is
\* deleted meanwhile: nothing else gets in between the count and the deletion.
\* About DeletePasskey, FinalizeSetupRegistration and DeleteUser.
THEOREM OnlyTwoDeletionsTakeTheLast == AccountSpec /\ []OneDeletionPerUser => []KeepsOnePasskey
  <1>1. AccountInit => PasskeysRemain
    BY DEF AccountInit, PasskeysRemain, KeepsOnePasskey, AboutToDelete, Idle
  <1>2. IInv /\ PasskeysRemain /\ OneDeletionPerUser /\ [AccountNext]_accountVars => PasskeysRemain'
    BY StepRemains
  <1>3. PasskeysRemain => KeepsOnePasskey
    BY DEF PasskeysRemain
  <1> QED
    BY <1>1, <1>2, <1>3, Invariance, PTL DEF AccountSpec

=============================================================================
