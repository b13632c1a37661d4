---------------------------- MODULE RateLimiter ----------------------------
(***************************************************************************)
(* The limiter in front of enroll/start: a window per client, made by its  *)
(* first call and ended by the clock. A call reads the clock before it     *)
(* takes the lock, and ended windows are dropped only when the map is      *)
(* large.                                                                  *)
(***************************************************************************)
EXTENDS Naturals, Sequences, FiniteSets

CONSTANTS
  Clients,     \* keys of the map
  Callers,     \* goroutines in allow
  Limit,       \* calls per window
  Window,      \* its length
  MapLimit,    \* the size above which ended windows are dropped, 4096
  MaxWait,     \* bound: ticks between a call's reading of the clock and its lock
  MaxTime      \* bound: the clock

ASSUME LimiterAssumption ==
  /\ {Limit, Window, MapLimit, MaxWait, MaxTime} \subseteq Nat
  /\ Limit >= 1 /\ MaxWait < Window /\ Clients # {}

VARIABLES
  clock,
  hits,        \* rl.hits
  now,         \* what each caller read, with the client it serves
  granted      \* history: when each client's calls were allowed

rateVars == <<clock, hits, now, granted>>

Times == 0 .. MaxTime
NoWindow == [count |-> 0, resetAt |-> 0]
NoCaller == [waiting |-> FALSE, client |-> CHOOSE k \in Clients : TRUE, at |-> 0]

RateInit ==
  /\ clock = 0
  /\ hits = [k \in Clients |-> NoWindow]
  /\ now = [g \in Callers |-> NoCaller]
  /\ granted = [k \in Clients |-> <<>>]

Tick ==
  /\ clock < MaxTime
  /\ \A g \in Callers : now[g].waiting => clock - now[g].at < MaxWait
  /\ clock' = clock + 1
  /\ UNCHANGED <<hits, now, granted>>

Arrive(g, k) ==
  /\ ~now[g].waiting
  /\ now' = [now EXCEPT ![g] = [waiting |-> TRUE, client |-> k, at |-> clock]]
  /\ UNCHANGED <<clock, hits, granted>>

\* now.After(window.resetAt).
Over(w, t) == t > w.resetAt

\* Mutant: a large map is emptied.
EvictAll(t) ==
  IF Cardinality({k \in Clients : hits[k] # NoWindow}) > MapLimit
  THEN [k \in Clients |-> NoWindow] ELSE hits

Evict(t) ==
  IF Cardinality({k \in Clients : hits[k] # NoWindow}) > MapLimit
  THEN [k \in Clients |-> IF Over(hits[k], t) THEN NoWindow ELSE hits[k]]
  ELSE hits

\* The section under the lock.
Allow(g) ==
  LET k == now[g].client
      t == now[g].at
      kept == Evict(t)
      w == kept[k]
      fresh == w = NoWindow \/ Over(w, t)
      grants == fresh \/ w.count < Limit
  IN /\ now[g].waiting
     /\ now' = [now EXCEPT ![g] = NoCaller]
     /\ hits' = IF ~grants THEN kept
                ELSE [kept EXCEPT ![k] = IF fresh THEN [count |-> 1, resetAt |-> t + Window]
                                         ELSE [w EXCEPT !.count = @ + 1]]
     /\ granted' = IF grants THEN [granted EXCEPT ![k] = Append(@, clock)] ELSE granted
     /\ UNCHANGED clock

RateNext == Tick \/ \E g \in Callers : Allow(g) \/ \E k \in Clients : Arrive(g, k)

\* Types of the state above.
RateTypeOK ==
  /\ clock \in Times
  /\ hits \in [Clients -> [count : 0 .. Limit, resetAt : 0 .. MaxTime + Window]]
  /\ now \in [Callers -> [waiting : BOOLEAN, client : Clients, at : Times]]
  /\ granted \in [Clients -> Seq(Times)]

\* The calls of k allowed from t on, in an interval that the longest wait for
\* the lock separates from a whole window.
GrantedFrom(k, t) ==
  {i \in 1 .. Len(granted[k]) : t <= granted[k][i] /\ granted[k][i] + MaxWait <= t + Window}

\* No interval shorter than a window by the longest wait has more than two
\* windows' worth of calls allowed, though calls come to the lock with an old
\* reading of the clock and windows are dropped under other clients' calls. (A
\* window starts at the reading of the call that makes it, so it may be over that
\* much before a window's length has passed.) About allow.
NoIntervalExceedsTwoWindows ==
  \A k \in Clients, t \in Times : Cardinality(GrantedFrom(k, t)) <= 2 * Limit

=============================================================================
