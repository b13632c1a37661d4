------------------------------ MODULE Accounts ------------------------------
(***************************************************************************)
(* The accounts of the control plane: the first administrator, the links   *)
(* that invite a new user or let one recover, passkeys and browser         *)
(* sessions. A handler that changes accounts in more than one step holds   *)
(* the copy of the session it began with while requests of other tabs and  *)
(* browsers run; one that only reads, or only writes its session, is one   *)
(* step.                                                                   *)
(***************************************************************************)
EXTENDS FiniteSets, Naturals

CONSTANTS
  People,           \* user ids; an id that nothing refers to is drawn again
  Invites,          \* invite ids, drawn again likewise
  Passkeys,         \* credentials of authenticators
  Browsers,         \* session cookies
  Tabs,             \* requests that the server may be processing
  Nil               \* NULL, a key missing from a session, no account

ASSUME NilAssumption == Nil \notin People \cup Invites \cup Passkeys \cup Browsers \cup Tabs

VARIABLES
  users,         \* table users
  admins,        \* users.is_admin
  owner,         \* user_passkeys: the user of each stored credential
  invites,       \* user_invites
  browser,       \* table flamego_sessions
  tab,           \* the handlers that are between two steps
  served         \* history: what each invite there is was used for

accountVars == <<users, admins, owner, invites, browser, tab, served>>

-----------------------------------------------------------------------------
Person == People \cup {Nil}

\* user: user_id; admin: user_is_admin; bootstrap, invite, recovery: the keys
\* SetupForm sets; setup: what SetupStart keeps for SetupFinish; adding: whose
\* further passkey is being registered.
Setup == [user : People, admin : BOOLEAN]
SessionData == [user : Person, admin : BOOLEAN, bootstrap : BOOLEAN, invite : Invites \cup {Nil},
                recovery : Person, setup : Setup \cup {Nil}, adding : Person]
NoSession == [user |-> Nil, admin |-> FALSE, bootstrap |-> FALSE, invite |-> Nil,
              recovery |-> Nil, setup |-> Nil, adding |-> Nil]

\* state "expired": unused for 24 hours. for: user_id, NULL unless it is for recovery.
InviteData == [state : {"absent", "fresh", "expired", "used"}, for : Person]
NoInvite == [state |-> "absent", for |-> Nil]

TabData == [step : {"idle", "finish", "user", "passkey"}, of : Browsers \cup {Nil},
            data : SessionData, target : People \cup Passkeys \cup {Nil}]
Idle == [step |-> "idle", of |-> Nil, data |-> NoSession, target |-> Nil]

AccountInit ==
  /\ users = {} /\ admins = {}
  /\ owner = [k \in Passkeys |-> Nil]
  /\ invites = [i \in Invites |-> NoInvite]
  /\ browser = [b \in Browsers |-> NoSession]
  /\ tab = [t \in Tabs |-> Idle]
  /\ served = [i \in Invites |-> {}]

\* Everything a session may still refer to.
Sessions == {browser[b] : b \in Browsers} \cup {tab[t].data : t \in Tabs}
SessionPeople(d) == {d.user, d.recovery, d.adding} \cup (IF d.setup = Nil THEN {} ELSE {d.setup.user})
Fresh == People \ (users \cup UNION {SessionPeople(d) : d \in Sessions})
NewPasskeys == {k \in Passkeys : owner[k] = Nil /\ \A t \in Tabs : tab[t].target # k}
NewInvites == {i \in Invites : invites[i].state = "absent" /\ \A d \in Sessions : d.invite # i}

Stored == <<users, admins, owner, invites, served>>

\* A handler of one step that changes its session and nothing else.
Remember(b, data) == browser' = [browser EXCEPT ![b] = data] /\ UNCHANGED <<Stored, tab>>

\* The first of two steps.
Begin(t, step, b, data, target) ==
  /\ tab[t].step = "idle"
  /\ tab' = [tab EXCEPT ![t] = [step |-> step, of |-> b, data |-> data, target |-> target]]
  /\ UNCHANGED <<Stored, browser>>

Done(t) == tab' = [tab EXCEPT ![t] = Idle]

Visitor(b) == browser[b].user = Nil
SignedIn(b) == browser[b].user # Nil

\* resolveSessionIsAdmin believes the session.
SessionIsAdmin(b) == SignedIn(b) /\ browser[b].admin

SetAuthenticatedSession(data, u, isAdmin) == [data EXCEPT !.user = u, !.admin = isAdmin]
ClearAuthenticatedSession(data) == [data EXCEPT !.user = Nil, !.admin = FALSE]
ClearSetupSession(data) == [data EXCEPT !.setup = Nil, !.bootstrap = FALSE, !.invite = Nil, !.recovery = Nil]

\* GetUserInviteByToken and GetUserInviteByID: neither used nor expired.
Usable(i) == invites[i].state = "fresh"

-----------------------------------------------------------------------------
(* Setup: the first administrator, invited users and recovery.             *)

\* The page of the bootstrap link; with any other token the key goes.
SetupFormBootstrap(b) ==
  /\ Visitor(b) /\ users = {}
  /\ \E right \in BOOLEAN : Remember(b, [browser[b] EXCEPT !.invite = Nil, !.bootstrap = right])

\* The page of the link of a fresh invite.
SetupFormInvite(b, i) ==
  /\ Visitor(b) /\ users # {} /\ Usable(i)
  /\ Remember(b, [browser[b] EXCEPT !.bootstrap = FALSE, !.invite = i, !.recovery = invites[i].for])

\* The page without a token, or with one of no fresh invite.
SetupFormInvalid(b) ==
  /\ Visitor(b) /\ users # {}
  /\ \E recovery \in {browser[b].recovery, Nil} :
       Remember(b, [browser[b] EXCEPT !.bootstrap = FALSE, !.invite = Nil, !.recovery = recovery])

SetupStartBootstrap(b, u) ==
  /\ Visitor(b) /\ browser[b].bootstrap /\ users = {} /\ u \in Fresh
  /\ Remember(b, [browser[b] EXCEPT !.setup = [user |-> u, admin |-> TRUE]])

SetupStartInvite(b, u) ==
  LET i == browser[b].invite
  IN /\ Visitor(b) /\ ~browser[b].bootstrap /\ u \in Fresh
     /\ i # Nil /\ Usable(i) /\ invites[i].for = Nil
     /\ Remember(b, [browser[b] EXCEPT !.setup = [user |-> u, admin |-> FALSE]])

SetupStartRecovery(b) ==
  LET i == browser[b].invite
      u == invites[i].for
  IN /\ Visitor(b) /\ ~browser[b].bootstrap
     /\ i # Nil /\ Usable(i) /\ u # Nil
     /\ Remember(b, [browser[b] EXCEPT !.setup = [user |-> u, admin |-> u \in admins], !.recovery = u])

\* Mutant: that the table was empty when the setup started is enough.
FinalizeSetup(u, k) ==
  /\ u \notin users
  /\ users' = users \cup {u} /\ admins' = admins \cup {u}
  /\ owner' = [owner EXCEPT ![k] = u]
  /\ UNCHANGED <<invites, served>>

\* The transaction of FinalizeSetupRegistration that makes the first
\* administrator: the table is locked, and must be empty.
FinalizeBootstrap(u, k) ==
  /\ users = {}
  /\ users' = {u} /\ admins' = {u}
  /\ owner' = [owner EXCEPT ![k] = u]
  /\ UNCHANGED <<invites, served>>

Consume(i, u, kind) ==
  /\ invites' = [invites EXCEPT ![i].state = "used"]
  /\ served' = [served EXCEPT ![i] = @ \cup {[user |-> u, kind |-> kind]}]

\* The one that makes an invited user: it does not look at user_id.
FinalizeSetupRegistration(u, i, k) ==
  /\ invites[i].state = "fresh" /\ u \notin users
  /\ Consume(i, u, "new")
  /\ users' = users \cup {u} /\ UNCHANGED admins
  /\ owner' = [owner EXCEPT ![k] = u]

\* Mutant: without AND user_id = $2.
FinalizeAnyRecovery(u, i, k) ==
  /\ invites[i].state = "fresh" /\ u \in users
  /\ Consume(i, u, "recovery")
  /\ owner' = [p \in Passkeys |-> IF p = k THEN u ELSE IF owner[p] = u THEN Nil ELSE owner[p]]
  /\ UNCHANGED <<users, admins>>

\* The invite goes, the passkeys the user had go, the new one comes.
FinalizeRecoveryRegistration(u, i, k) ==
  /\ invites[i].state = "fresh" /\ invites[i].for = u /\ u \in users
  /\ Consume(i, u, "recovery")
  /\ owner' = [p \in Passkeys |-> IF p = k THEN u ELSE IF owner[p] = u THEN Nil ELSE owner[p]]
  /\ UNCHANGED <<users, admins>>

\* The handler has checked its copy of the session.
SetupFinish(t, b) ==
  /\ Visitor(b) /\ browser[b].setup # Nil /\ (browser[b].bootstrap \/ browser[b].invite # Nil)
  /\ Begin(t, "finish", b, browser[b], Nil)

\* The transaction, and the session as the handler leaves it, which is written
\* over the one other tabs have made, unless the server dies first.
Finalize(t, k) ==
  LET data == tab[t].data
      u == data.setup.user
  IN /\ tab[t].step = "finish" /\ k \in NewPasskeys
     /\ \/ data.recovery # Nil /\ data.invite # Nil /\ FinalizeRecoveryRegistration(u, data.invite, k)
        \/ data.recovery = Nil /\ data.setup.admin /\ FinalizeBootstrap(u, k)
        \/ /\ data.recovery = Nil /\ ~data.setup.admin /\ data.invite # Nil
           /\ FinalizeSetupRegistration(u, data.invite, k)
     /\ browser' \in {browser, 
          [browser EXCEPT ![tab[t].of] = ClearSetupSession(SetAuthenticatedSession(data, u, u \in admins'))]}
     /\ Done(t)

-----------------------------------------------------------------------------
(* Sessions and passkeys.                                                  *)

\* The passkey must still be there when its use is recorded.
PasskeyLoginFinish(b, k) ==
  /\ owner[k] # Nil
  /\ Remember(b, SetAuthenticatedSession(browser[b], owner[k], owner[k] \in admins))

\* The user signs out, or the session is past its expiry.
Logout(b) == SignedIn(b) /\ Remember(b, ClearAuthenticatedSession(browser[b]))

PasskeyRegistrationStart(b) ==
  /\ SignedIn(b) /\ browser[b].user \in users
  /\ Remember(b, [browser[b] EXCEPT !.adding = browser[b].user])

\* The new passkey is that of the user who started.
PasskeyRegistrationFinish(b, k) ==
  /\ SignedIn(b) /\ browser[b].adding \in users /\ k \in NewPasskeys
  /\ owner' = [owner EXCEPT ![k] = browser[b].adding]
  /\ browser' = [browser EXCEPT ![b].adding = Nil]
  /\ UNCHANGED <<users, admins, invites, served, tab>>

OwnPasskeys(u) == {k \in Passkeys : owner[k] = u}

\* The passkeys are counted first,
DeletePasskey(t, b, k) ==
  /\ SignedIn(b) /\ Cardinality(OwnPasskeys(browser[b].user)) > 1 /\ owner[k] = browser[b].user
  /\ Begin(t, "passkey", b, NoSession, k)

\* then one is deleted.
DeleteUserPasskey(t) ==
  /\ tab[t].step = "passkey"
  /\ owner' = [owner EXCEPT ![tab[t].target] = Nil]
  /\ Done(t)
  /\ UNCHANGED <<users, admins, invites, served, browser>>

-----------------------------------------------------------------------------
(* What administrators do.                                                 *)

\* created_by refers to the user of the session.
Invite(b, u) ==
  \E i \in NewInvites :
    /\ SessionIsAdmin(b) /\ browser[b].user \in users
    /\ invites' = [invites EXCEPT ![i] = [state |-> "fresh", for |-> u]]
    /\ UNCHANGED <<users, admins, owner, served, browser, tab>>

CreateUserInvite(b) == Invite(b, Nil)
CreateUserResetLink(b, u) == u \in users /\ Invite(b, u)

RegenerateUserInvite(b, i) ==
  /\ SessionIsAdmin(b) /\ invites[i].state = "expired"
  /\ invites' = [invites EXCEPT ![i].state = "fresh"]
  /\ UNCHANGED <<users, admins, owner, served, browser, tab>>

DeleteUserInvite(b, i) ==
  /\ SessionIsAdmin(b) /\ invites[i].state # "absent"
  /\ invites' = [invites EXCEPT ![i] = NoInvite] /\ served' = [served EXCEPT ![i] = {}]
  /\ UNCHANGED <<users, admins, owner, browser, tab>>

\* The user is looked up and the administrators are counted first,
DeleteUser(t, b, u) ==
  /\ SessionIsAdmin(b) /\ u # browser[b].user /\ u \in users
  /\ u \in admins => Cardinality(admins) > 1
  /\ Begin(t, "user", b, NoSession, u)

\* then the row is deleted, and with it passkeys and recovery links.
DeleteUserRow(t) ==
  LET u == tab[t].target
  IN /\ tab[t].step = "user"
     /\ users' = users \ {u} /\ admins' = admins \ {u}
     /\ owner' = [k \in Passkeys |-> IF owner[k] = u THEN Nil ELSE owner[k]]
     /\ invites' = [i \in Invites |-> IF invites[i].for = u THEN NoInvite ELSE invites[i]]
     /\ served' = [i \in Invites |-> IF invites[i].for = u THEN {} ELSE served[i]]
     /\ Done(t)
     /\ UNCHANGED browser

\* 24 hours pass.
InviteExpires(i) ==
  /\ invites[i].state = "fresh"
  /\ invites' = [invites EXCEPT ![i].state = "expired"]
  /\ UNCHANGED <<users, admins, owner, browser, tab, served>>

\* A refusal or a failure.
Leave(t) == tab[t].step # "idle" /\ Done(t) /\ UNCHANGED <<Stored, browser>>

-----------------------------------------------------------------------------
AccountNext ==
  \/ \E b \in Browsers :
       \/ SetupFormBootstrap(b) \/ SetupFormInvalid(b) \/ SetupStartRecovery(b)
       \/ \E u \in People : SetupStartBootstrap(b, u) \/ SetupStartInvite(b, u) \/ CreateUserResetLink(b, u)
       \/ \E i \in Invites : SetupFormInvite(b, i) \/ RegenerateUserInvite(b, i) \/ DeleteUserInvite(b, i)
       \/ \E k \in Passkeys : PasskeyLoginFinish(b, k) \/ PasskeyRegistrationFinish(b, k)
       \/ Logout(b) \/ PasskeyRegistrationStart(b) \/ CreateUserInvite(b)
  \/ \E t \in Tabs, b \in Browsers :
       \/ SetupFinish(t, b)
       \/ \E u \in People : DeleteUser(t, b, u)
       \/ \E k \in Passkeys : DeletePasskey(t, b, k)
  \/ \E t \in Tabs :
       \/ \E k \in Passkeys : Finalize(t, k)
       \/ DeleteUserPasskey(t) \/ DeleteUserRow(t) \/ Leave(t)
  \/ \E i \in Invites : InviteExpires(i)

-----------------------------------------------------------------------------
\* Types of the state above.
AccountTypeOK ==
  /\ users \subseteq People /\ admins \subseteq users
  /\ owner \in [Passkeys -> users \cup {Nil}]
  /\ invites \in [Invites -> InviteData]
  /\ browser \in [Browsers -> SessionData]
  /\ tab \in [Tabs -> TabData]
  /\ served \in [Invites -> SUBSET [user : People, kind : {"new", "recovery"}]]

\* Once there are users there is exactly one administrator, and no session has
\* the rights of one but theirs, however bootstrap links are opened and finished
\* side by side, whoever is deleted meanwhile, and though a session keeps the
\* rights it was given when it signed in. About the locked count of
\* FinalizeSetupRegistration, DeleteUser and resolveSessionIsAdmin.
OneAdmin ==
  /\ users # {} => Cardinality(admins) = 1
  /\ \A b \in Browsers : SessionIsAdmin(b) => browser[b].user \in admins

\* An invite serves once, and what it was made for: a recovery link its user, any
\* other a user that did not exist, whatever links one browser has open in other
\* tabs. About the session keys and the two transactions that consume invites.
InviteServesItsUser ==
  \A i \in Invites :
    /\ invites[i].state \in {"fresh", "expired"} => served[i] = {}
    /\ invites[i].state = "used" =>
         \E u \in People : served[i] = {[user |-> u, kind |-> IF invites[i].for = Nil THEN "new" ELSE "recovery"]}
                           /\ invites[i].for \in {u, Nil}

\* What DeletePasskey warns of: "You must keep at least one passkey".
KeepsOnePasskey == \A u \in users : OwnPasskeys(u) # {}

=============================================================================
