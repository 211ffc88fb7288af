---------------------------- MODULE RateLimiter ----------------------------
(***************************************************************************)
(* The fixed-window rate limiters of package security and their place in   *)
(* main's chain: every request passes the global limiter, a login then     *)
(* passes the limiter of its own.  Each limiter has one mutex and one      *)
(* entry per client address.                                               *)
(*                                                                         *)
(* The clock counts ticks.  A handler reads it before it asks for the      *)
(* mutex, so what it compares with the window may be old; it decides after *)
(* the mutex is released, on copies.  MaxWait bounds how long a handler    *)
(* waits for a mutex that is only ever held for a map access.              *)
(***************************************************************************)
EXTENDS Integers, Sequences, FiniteSets

CONSTANTS
  Requests,        \* HTTP requests
  Clients,         \* client addresses
  GlobalMax,       \* 60 in main
  LoginMax,        \* 10 in main
  Window,          \* ticks of a window (one minute in main)
  TicksPerSecond,  \* resolution of the clock
  MaxWait,         \* longest wait for a mutex, in ticks
  MaxClock,        \* bound of the model on the clock
  None             \* no entry, no client

ASSUME LimitsAssumption == GlobalMax \in Nat /\ LoginMax \in Nat
ASSUME TimeAssumption ==
  Window \in Nat \ {0} /\ TicksPerSecond \in Nat \ {0} /\ MaxWait \in 0..(Window - 1)
ASSUME BoundAssumption == MaxClock \in Nat

VARIABLES
  clock,      \* the time
  pc,         \* pc[r]: "idle", "wait", "refused", "routed" or "done"
  client,     \* client[r]: the address r comes from
  login,      \* login[r]: r goes to /api/v1/auth/login
  limiter,    \* limiter[r]: the limiter r stands in
  now,        \* now[r]: the time r read
  copy,       \* copy[r]: count and windowStart as r saw them under the mutex
  entry,      \* entry[l][c]: the entry of client c in the map of limiter l
  admitted,   \* admitted[l][c]: the admissions of client c by limiter l, in order
  hint        \* hint[r]: the Retry-After of a 429 in seconds, 0 for none

vars == <<clock, pc, client, login, limiter, now, copy, entry, admitted, hint>>

-----------------------------------------------------------------------------
Limiters == {"global", "login"}
Limit(l) == IF l = "global" THEN GlobalMax ELSE LoginMax

Entry == [count : Nat \ {0}, start : 0..MaxClock]
Admission == [at : 0..MaxClock, start : 0..MaxClock]
ASSUME NoneAssumption == None \notin Clients /\ None \notin Entry

Larger(m, n) == IF m > n THEN m ELSE n

\* NewRateLimiter, twice.
Init ==
  /\ clock = 0
  /\ pc = [r \in Requests |-> "idle"]
  /\ client = [r \in Requests |-> None]
  /\ login = [r \in Requests |-> FALSE]
  /\ limiter = [r \in Requests |-> "global"]
  /\ now = [r \in Requests |-> 0]
  /\ copy = [r \in Requests |-> None]
  /\ entry = [l \in Limiters |-> [c \in Clients |-> None]]
  /\ admitted = [l \in Limiters |-> [c \in Clients |-> << >>]]
  /\ hint = [r \in Requests |-> 0]

\* A request enters the global limiter: getClientIP, then time.Now().
Enter(r) ==
  /\ pc[r] = "idle"
  /\ pc' = [pc EXCEPT ![r] = "wait"]
  /\ \E c \in Clients : client' = [client EXCEPT ![r] = c]
  /\ \E b \in BOOLEAN : login' = [login EXCEPT ![r] = b]
  /\ now' = [now EXCEPT ![r] = clock]
  /\ UNCHANGED <<clock, limiter, copy, entry, admitted, hint>>

\* The middleware of the login route reads the time again.
EnterLogin(r) ==
  /\ pc[r] = "routed"
  /\ pc' = [pc EXCEPT ![r] = "wait"]
  /\ now' = [now EXCEPT ![r] = clock]
  /\ UNCHANGED <<clock, client, login, limiter, copy, entry, admitted, hint>>

\* The entry that r leaves in the map, given the one it finds.
Counted(r, found) ==
  IF found = None \/ now[r] - found.start >= Window
    THEN [count |-> 1, start |-> now[r]]
    ELSE [found EXCEPT !.count = @ + 1]

\* The handler of r returns; its variables are gone.
Return(r) ==
  /\ pc' = [pc EXCEPT ![r] = "done"]
  /\ client' = [client EXCEPT ![r] = None]
  /\ login' = [login EXCEPT ![r] = FALSE]
  /\ limiter' = [limiter EXCEPT ![r] = "global"]
  /\ copy' = [copy EXCEPT ![r] = None]

\* next.ServeHTTP: a login goes on to its own limiter; anything else, and a
\* login that passed both, reaches its handler.
ServeNext(r) ==
  IF login[r] /\ limiter[r] = "global"
    THEN /\ pc' = [pc EXCEPT ![r] = "routed"]
         /\ limiter' = [limiter EXCEPT ![r] = "login"]
         /\ UNCHANGED <<client, login, copy>>
    ELSE Return(r)

\* r stores entry e and keeps copies of it; within the limit it is let through.
Store(r, e) ==
  LET l == limiter[r] IN
  /\ pc[r] = "wait"
  /\ entry' = [entry EXCEPT ![l][client[r]] = e]
  /\ now' = [now EXCEPT ![r] = 0]
  /\ \/ /\ e.count > Limit(l)
        /\ pc' = [pc EXCEPT ![r] = "refused"]
        /\ copy' = [copy EXCEPT ![r] = e]
        /\ UNCHANGED <<client, login, limiter, admitted>>
     \/ /\ e.count <= Limit(l)
        /\ admitted' = [admitted EXCEPT ![l][client[r]] =
                          Append(@, [at |-> clock, start |-> e.start])]
        /\ ServeNext(r)
  /\ UNCHANGED <<clock, hint>>

\* Mutant: a time before the window opens a new one.
CountRestartsWindow(r) ==
  LET found == entry[limiter[r]][client[r]] IN
  Store(r, IF found # None /\ now[r] < found.start
             THEN [count |-> 1, start |-> now[r]] ELSE Counted(r, found))

\* Mutant: every request moves the window, as a sliding limiter would.
CountMovesWindow(r) ==
  Store(r, [Counted(r, entry[limiter[r]][client[r]]) EXCEPT !.start = now[r]])

\* The critical section of Middleware.
Count(r) == Store(r, Counted(r, entry[limiter[r]][client[r]]))

\* The answer 429 with Retry-After h.
TooManyRequests(r, h) ==
  /\ pc[r] = "refused"
  /\ Return(r)
  /\ hint' = [hint EXCEPT ![r] = h]
  /\ UNCHANGED <<clock, now, entry, admitted>>

\* Whole seconds, cut off, from now to the end of the window r was counted in.
SecondsLeft(r) == (copy[r].start + Window - clock) \div TicksPerSecond

\* Mutants: without the lower limit of one second; rounded up.
RefuseUnclamped(r) == TooManyRequests(r, SecondsLeft(r))
RefuseRoundedUp(r) ==
  TooManyRequests(r, Larger(1, SecondsLeft(r) + 1))

\* Retry-After comes from the copy and a new look at the clock, and is at least
\* one second.
Refuse(r) == TooManyRequests(r, Larger(1, SecondsLeft(r)))

\* Time passes, but nobody waits for a mutex longer than MaxWait.
Tick ==
  /\ clock < MaxClock
  /\ \A r \in Requests : pc[r] = "wait" => clock - now[r] < MaxWait
  /\ clock' = clock + 1
  /\ UNCHANGED <<pc, client, login, limiter, now, copy, entry, admitted, hint>>

Next ==
  \/ \E r \in Requests : Enter(r) \/ EnterLogin(r) \/ Count(r) \/ Refuse(r)
  \/ Tick

Spec == Init /\ [][Next]_vars

-----------------------------------------------------------------------------
(* Properties.                                                             *)

\* Every variable has its type; no Retry-After is negative, however late the
\* refusal is written.
TypeOK ==
  /\ clock \in 0..MaxClock
  /\ pc \in [Requests -> {"idle", "wait", "refused", "routed", "done"}]
  /\ client \in [Requests -> Clients \cup {None}]
  /\ login \in [Requests -> BOOLEAN]
  /\ limiter \in [Requests -> Limiters]
  /\ now \in [Requests -> 0..MaxClock]
  /\ copy \in [Requests -> Entry \cup {None}]
  /\ entry \in [Limiters -> [Clients -> Entry \cup {None}]]
  /\ admitted \in [Limiters -> [Clients -> Seq(Admission)]]
  /\ hint \in [Requests -> Nat]

\* How many admissions of client c by limiter l satisfy P.
Admissions(l, c, P(_)) ==
  Cardinality({i \in DOMAIN admitted[l][c] : P(admitted[l][c][i])})

\* What the limit comes to: in a span as long as a window, less the time spent
\* waiting for the mutex, a client passes at most twice the limit, wherever the
\* span begins.  Two windows may meet in it; a handler that reads the time and
\* then waits neither reopens a window that is over nor starts a third.
BurstBound ==
  \A l \in Limiters, c \in Clients, t \in 0..MaxClock :
    LET InSpan(a) == a.at \in t..(t + Window - MaxWait) IN
    Admissions(l, c, InSpan) <= 2 * Limit(l)

\* A request is refused only when its client used the whole limit in that very
\* window: not because of another client, of requests that were refused
\* themselves, or of a window that others opened meanwhile.
RefusedOnlyWhenFull ==
  \A r \in Requests :
    pc[r] = "refused" =>
      LET SameWindow(a) == a.start = copy[r].start IN
      Admissions(limiter[r], client[r], SameWindow) = Limit(limiter[r])

\* Retry-After never sends a client past the end of the window that is open
\* when the answer is written, even if it is not the one that r was counted
\* in (but for the least wait of a second), and a client that obeys is less
\* than a second early.
RetryAfterFits ==
  [][\A r \in Requests : hint'[r] # hint[r] =>
       LET wait == hint'[r] * TicksPerSecond
           open == entry[limiter[r]][client[r]]
       IN
       /\ wait <= Larger(TicksPerSecond, open.start + Window - clock)
       /\ wait + TicksPerSecond > copy[r].start + Window - clock]_vars
=============================================================================
