------------------------- MODULE RateLimiter_proofs -------------------------
(***************************************************************************)
(* Proofs about RateLimiter, for every set of requests and clients, any    *)
(* limits, any window and any resolution of the clock.                     *)
(***************************************************************************)
EXTENDS RateLimiter, FiniteSetTheorems, TLAPS

USE LimitsAssumption, TimeAssumption, BoundAssumption, NoneAssumption

-----------------------------------------------------------------------------
(* The inductive invariant.                                                *)

\* The admissions of a client that were counted in the window that began at w.
InWindow(s, w) == {i \in DOMAIN s : s[i].start = w}

\* A request under way has a client; one that waits for the mutex read its time
\* at most MaxWait ago.
Underway ==
  \A r \in Requests :
    /\ pc[r] \in {"wait", "refused", "routed"} => client[r] \in Clients
    /\ pc[r] = "wait" => now[r] <= clock /\ clock - now[r] <= MaxWait

\* The windows of a client begin a whole window apart at least.
Spaced(s) ==
  \A i, j \in DOMAIN s :
    \/ s[i].start = s[j].start
    \/ s[i].start + Window <= s[j].start
    \/ s[j].start + Window <= s[i].start

\* An admission happens in its window, or as late as the wait for the mutex makes it.
Timely(s) ==
  \A i \in DOMAIN s : s[i].start <= s[i].at /\ s[i].at < s[i].start + Window + MaxWait

Limited(l, s) == \A w \in 0..MaxClock : Cardinality(InWindow(s, w)) <= Limit(l)

\* The entry stands for the last window: it counts its admissions, up to the limit.
Current(l, s, e) ==
  /\ e.start <= clock
  /\ \A i \in DOMAIN s : s[i].start = e.start \/ s[i].start + Window <= e.start
  /\ Cardinality(InWindow(s, e.start)) = IF e.count <= Limit(l) THEN e.count ELSE Limit(l)

Books ==
  \A l \in Limiters, c \in Clients :
    /\ Spaced(admitted[l][c]) /\ Timely(admitted[l][c]) /\ Limited(l, admitted[l][c])
    /\ IF entry[l][c] = None THEN admitted[l][c] = << >>
                             ELSE Current(l, admitted[l][c], entry[l][c])

\* A refused request saw a window, not after the present one, that was full.
Full ==
  \A r \in Requests : pc[r] = "refused" =>
    /\ copy[r] \in Entry /\ entry[limiter[r]][client[r]] # None
    /\ copy[r].start <= entry[limiter[r]][client[r]].start
    /\ Cardinality(InWindow(admitted[limiter[r]][client[r]], copy[r].start))
         = Limit(limiter[r])

Inv == TypeOK /\ Underway /\ Books /\ Full

-----------------------------------------------------------------------------
(* Counting the admissions of a window.                                    *)

LEMMA NoMember ==
  ASSUME NEW S, \A y \in S : FALSE
  PROVE  Cardinality(S) = 0
<1>1. S = {}
  OBVIOUS
<1> QED
  BY <1>1, FS_EmptySet

LEMMA NewMember ==
  ASSUME NEW S, IsFiniteSet(S), NEW x, x \notin S, NEW T, T = S \cup {x}
  PROVE  Cardinality(T) = Cardinality(S) + 1
  BY FS_AddElement, Zenon

LEMMA WindowFacts ==
  ASSUME NEW s \in Seq(Admission), NEW w
  PROVE  /\ InWindow(s, w) \subseteq DOMAIN s
         /\ IsFiniteSet(InWindow(s, w)) /\ Cardinality(InWindow(s, w)) \in Nat
<1>1. IsFiniteSet(DOMAIN s)
  <2>1. DOMAIN s = 1..Len(s) /\ Len(s) \in Int
    OBVIOUS
  <2> QED
    BY <2>1, FS_Interval
<1>2. InWindow(s, w) \subseteq DOMAIN s
  BY DEF InWindow
<1>3. IsFiniteSet(InWindow(s, w))
  BY <1>1, <1>2, FS_Subset
<1> QED
  BY <1>2, <1>3, FS_CardinalityType

LEMMA AppendFacts ==
  ASSUME NEW s \in Seq(Admission), NEW a \in Admission
  PROVE  /\ Append(s, a) \in Seq(Admission)
         /\ DOMAIN Append(s, a) = DOMAIN s \cup {Len(s) + 1}
         /\ Len(s) + 1 \notin DOMAIN s
         /\ Append(s, a)[Len(s) + 1] = a
         /\ \A i \in DOMAIN s : Append(s, a)[i] = s[i]
  OBVIOUS

LEMMA AppendWindow ==
  ASSUME NEW s \in Seq(Admission), NEW a \in Admission, NEW w
  PROVE  Cardinality(InWindow(Append(s, a), w))
           = IF a.start = w THEN Cardinality(InWindow(s, w)) + 1
                            ELSE Cardinality(InWindow(s, w))
<1>1. CASE a.start = w
  <2>1. InWindow(Append(s, a), w) = InWindow(s, w) \cup {Len(s) + 1}
    BY <1>1, AppendFacts DEF InWindow
  <2>2. Len(s) + 1 \notin InWindow(s, w)
    BY AppendFacts DEF InWindow
  <2>3. Cardinality(InWindow(Append(s, a), w)) = Cardinality(InWindow(s, w)) + 1
    BY <2>1, <2>2, WindowFacts, NewMember, Zenon
  <2> QED
    BY <1>1, <2>3
<1>2. CASE a.start # w
  <2>1. InWindow(Append(s, a), w) = InWindow(s, w)
    BY <1>2, AppendFacts DEF InWindow
  <2> QED
    BY <1>2, <2>1
<1> QED
  BY <1>1, <1>2

-----------------------------------------------------------------------------
(* Steps.                                                                  *)

LEMMA EntryFacts ==
  ASSUME NEW e \in Entry
  PROVE  /\ e # None /\ e.start \in 0..MaxClock /\ e.start \in Nat
         /\ e.count \in Nat /\ e.count >= 1
  BY DEF Entry

LEMMA TimesFacts ==
  ASSUME NEW s \in Seq(Admission), NEW i \in DOMAIN s
  PROVE  s[i] \in Admission /\ s[i].start \in Nat /\ s[i].at \in Nat
<1>1. s[i] \in Admission
  OBVIOUS
<1> QED
  BY <1>1 DEF Admission

LEMMA LimitFacts == \A l \in Limiters : Limit(l) \in Nat
  BY DEF Limiters, Limit

LEMMA NestedExcept ==
  ASSUME NEW A, NEW B, NEW C, NEW f \in [A -> [B -> C]], NEW a \in A, NEW b \in B, NEW x \in C
  PROVE  [f EXCEPT ![a][b] = x] \in [A -> [B -> C]]
  OBVIOUS

\* The entry that a request finds, the one that it leaves, and what its limiter
\* has admitted of its client before and with it.
Found(r) == entry[limiter[r]][client[r]]
Left(r) == Counted(r, Found(r))
Log(r) == admitted[limiter[r]][client[r]]
Longer(r) == Append(Log(r), [at |-> clock, start |-> Left(r).start])

LEMMA FoundFacts ==
  ASSUME Inv, NEW r \in Requests, pc[r] = "wait"
  PROVE  /\ limiter[r] \in Limiters /\ client[r] \in Clients /\ Limit(limiter[r]) \in Nat
         /\ Found(r) \in Entry \cup {None} /\ Log(r) \in Seq(Admission)
         /\ now[r] \in 0..MaxClock /\ now[r] <= clock /\ clock - now[r] <= MaxWait
         /\ clock \in Nat /\ clock \in 0..MaxClock
         /\ Spaced(Log(r)) /\ Timely(Log(r)) /\ Limited(limiter[r], Log(r))
         /\ Found(r) = None => Log(r) = << >>
         /\ Found(r) # None => Current(limiter[r], Log(r), Found(r))
<1>1. limiter[r] \in Limiters /\ client[r] \in Clients
  BY DEF Inv, TypeOK, Underway
<1>2. /\ Found(r) \in Entry \cup {None} /\ Log(r) \in Seq(Admission)
      /\ now[r] \in 0..MaxClock /\ now[r] <= clock /\ clock - now[r] <= MaxWait
      /\ clock \in Nat /\ clock \in 0..MaxClock
  BY <1>1 DEF Inv, TypeOK, Underway, Found, Log
<1> QED
  BY <1>1, <1>2, LimitFacts DEF Inv, Books, Found, Log

\* What a request does under the mutex: it opens a window at the time it read,
\* or counts on in the one it finds.
LEMMA LeftFacts ==
  ASSUME Inv, NEW r \in Requests, pc[r] = "wait"
  PROVE  /\ Left(r) \in Entry /\ Left(r) # None /\ Left(r).start \in Nat /\ Left(r).count \in Nat
         /\ Left(r).start <= clock /\ clock < Left(r).start + Window + MaxWait
         /\ Found(r) # None =>
              /\ Found(r) \in Entry
              /\ \/ Left(r).start = Found(r).start /\ Left(r).count = Found(r).count + 1
                 \/ Left(r).start >= Found(r).start + Window /\ Left(r).count = 1
         /\ Found(r) = None => Left(r).count = 1
<1>1. CASE Found(r) = None \/ now[r] - Found(r).start >= Window
  <2>1. Left(r) = [count |-> 1, start |-> now[r]]
    BY <1>1 DEF Left, Counted
  <2>2. Left(r) \in Entry /\ Left(r).start = now[r] /\ Left(r).count = 1
    BY <2>1, FoundFacts DEF Entry
  <2>3. Left(r).start <= clock /\ clock < Left(r).start + Window + MaxWait
    BY <2>2, FoundFacts
  <2>4. CASE Found(r) # None
    <3>1. Found(r) \in Entry /\ Left(r).start >= Found(r).start + Window
      BY <1>1, <2>2, <2>4, FoundFacts, EntryFacts
    <3> QED
      BY <2>2, <2>3, <2>4, <3>1, EntryFacts
  <2> QED
    BY <2>2, <2>3, <2>4, EntryFacts
<1>2. CASE ~(Found(r) = None \/ now[r] - Found(r).start >= Window)
  <2>1. Found(r) \in Entry
    BY <1>2, FoundFacts
  <2>2. Left(r) = [Found(r) EXCEPT !.count = @ + 1]
    BY <1>2 DEF Left, Counted
  <2>3. Left(r) \in Entry /\ Left(r).start = Found(r).start /\ Left(r).count = Found(r).count + 1
    BY <2>1, <2>2 DEF Entry
  <2>4. Found(r).start <= clock
    BY <1>2, FoundFacts DEF Current
  <2>5. clock < Left(r).start + Window + MaxWait
    BY <1>2, <2>1, <2>3, FoundFacts, EntryFacts
  <2> QED
    BY <1>2, <2>1, <2>3, <2>4, <2>5, EntryFacts
<1> QED
  BY <1>1, <1>2

\* The admissions that came before it: some in the window it is counted in, as
\* many as that has counted, the others a window earlier or more.
LEMMA PastFacts ==
  ASSUME Inv, NEW r \in Requests, pc[r] = "wait"
  PROVE  /\ \A i \in DOMAIN Log(r) :
              Log(r)[i].start = Left(r).start \/ Log(r)[i].start + Window <= Left(r).start
         /\ Cardinality(InWindow(Log(r), Left(r).start))
              = IF Left(r).count - 1 <= Limit(limiter[r]) THEN Left(r).count - 1
                                                          ELSE Limit(limiter[r])
<1>1. /\ \A i \in DOMAIN Log(r) : Log(r)[i].start \in Nat
      /\ Limit(limiter[r]) \in Nat /\ Left(r).start \in Nat /\ Left(r).count \in Nat
  BY FoundFacts, LeftFacts, TimesFacts
<1>2. ASSUME Left(r).count = 1, \A i \in DOMAIN Log(r) : Log(r)[i].start # Left(r).start
      PROVE  Cardinality(InWindow(Log(r), Left(r).start))
              = IF Left(r).count - 1 <= Limit(limiter[r]) THEN Left(r).count - 1
                                                          ELSE Limit(limiter[r])
  <2>1. Cardinality(InWindow(Log(r), Left(r).start)) = 0
    BY <1>2, NoMember DEF InWindow
  <2> QED
    BY <1>1, <1>2, <2>1
<1>3. CASE Found(r) = None
  <2>1. Log(r) = << >> /\ Left(r).count = 1
    BY <1>3, FoundFacts, LeftFacts
  <2>2. DOMAIN Log(r) = {}
    BY <2>1
  <2> QED
    BY <1>2, <2>1, <2>2
<1>4. CASE Found(r) # None
  <2>1. Found(r).start \in Nat /\ Found(r).count \in Nat /\ Current(limiter[r], Log(r), Found(r))
    BY <1>4, FoundFacts, LeftFacts, EntryFacts
  <2>2. \A i \in DOMAIN Log(r) :
          Log(r)[i].start = Found(r).start \/ Log(r)[i].start + Window <= Found(r).start
    BY <2>1 DEF Current
  <2>3. CASE Left(r).start = Found(r).start /\ Left(r).count = Found(r).count + 1
    <3>1. Cardinality(InWindow(Log(r), Left(r).start))
            = IF Found(r).count <= Limit(limiter[r]) THEN Found(r).count ELSE Limit(limiter[r])
      BY <2>1, <2>3 DEF Current
    <3>2. Left(r).count - 1 = Found(r).count
      BY <2>1, <2>3
    <3> QED
      BY <2>2, <2>3, <3>1, <3>2
  <2>4. CASE Left(r).start >= Found(r).start + Window /\ Left(r).count = 1
    <3>1. \A i \in DOMAIN Log(r) :
            Log(r)[i].start + Window <= Left(r).start /\ Log(r)[i].start # Left(r).start
      BY <1>1, <2>1, <2>2, <2>4
    <3> QED
      BY <1>2, <2>4, <3>1
  <2> QED
    BY <1>4, <2>3, <2>4, LeftFacts
<1> QED
  BY <1>3, <1>4

\* An admission keeps the books of its client and limiter.
LEMMA AdmissionFacts ==
  ASSUME Inv, NEW r \in Requests, pc[r] = "wait", Left(r).count <= Limit(limiter[r])
  PROVE  /\ Longer(r) \in Seq(Admission)
         /\ Spaced(Longer(r)) /\ Timely(Longer(r)) /\ Limited(limiter[r], Longer(r))
         /\ Current(limiter[r], Longer(r), Left(r))
<1> DEFINE s == Log(r)
           t == Longer(r)
           e == Left(r)
           l == limiter[r]
           a == [at |-> clock, start |-> e.start]
<1>1. /\ l \in Limiters /\ s \in Seq(Admission) /\ Limit(l) \in Nat /\ clock \in 0..MaxClock
      /\ e \in Entry /\ e.start <= clock /\ clock < e.start + Window + MaxWait
      /\ e.start \in 0..MaxClock /\ e.count \in Nat /\ e.count <= Limit(l)
  BY FoundFacts, LeftFacts, EntryFacts
<1>2. a \in Admission /\ a.at = clock /\ a.start = e.start
  BY <1>1 DEF Admission
<1>3. \A i \in DOMAIN s : s[i].start \in Nat /\ s[i].at \in Nat
  BY <1>1, TimesFacts
<1>4. Spaced(s) /\ Timely(s) /\ Limited(l, s)
  BY FoundFacts
<1>5. /\ \A i \in DOMAIN s : s[i].start = e.start \/ s[i].start + Window <= e.start
      /\ Cardinality(InWindow(s, e.start)) = IF e.count - 1 <= Limit(l) THEN e.count - 1 ELSE Limit(l)
  BY PastFacts
<1>6. t = Append(s, a)
  BY DEF Longer
<1> HIDE DEF s, t, e, l, a
<1>7. /\ t \in Seq(Admission)
      /\ \A i \in DOMAIN t : (i \in DOMAIN s /\ t[i] = s[i]) \/ t[i] = a
  BY <1>1, <1>2, <1>6, AppendFacts
<1>8. \A w : Cardinality(InWindow(t, w)) = IF e.start = w THEN Cardinality(InWindow(s, w)) + 1
                                           ELSE Cardinality(InWindow(s, w))
  BY <1>1, <1>2, <1>6, AppendWindow
<1>9. Cardinality(InWindow(s, e.start)) + 1 = e.count
  BY <1>1, <1>5
<1>10. Spaced(t)
  <2> SUFFICES ASSUME NEW i \in DOMAIN t, NEW j \in DOMAIN t
               PROVE  \/ t[i].start = t[j].start
                      \/ t[i].start + Window <= t[j].start
                      \/ t[j].start + Window <= t[i].start
    BY DEF Spaced
  <2> QED
    BY <1>2, <1>4, <1>5, <1>7 DEF Spaced
<1>11. Timely(t)
  BY <1>1, <1>2, <1>4, <1>7 DEF Timely
<1>12. Limited(l, t)
  BY <1>1, <1>4, <1>8, <1>9 DEF Limited
<1>13. Current(l, t, e)
  <2>1. \A i \in DOMAIN t : t[i].start = e.start \/ t[i].start + Window <= e.start
    BY <1>2, <1>5, <1>7
  <2> QED
    BY <1>1, <1>8, <1>9, <2>1 DEF Current
<1> QED
  BY <1>7, <1>10, <1>11, <1>12, <1>13 DEF l, t, e

\* A refusal leaves a full window behind.
LEMMA RefusalFacts ==
  ASSUME Inv, NEW r \in Requests, pc[r] = "wait", Left(r).count > Limit(limiter[r])
  PROVE  /\ Current(limiter[r], Log(r), Left(r))
         /\ Cardinality(InWindow(Log(r), Left(r).start)) = Limit(limiter[r])
<1>1. Left(r).start <= clock /\ Left(r).count \in Nat /\ Limit(limiter[r]) \in Nat
  BY FoundFacts, LeftFacts
<1>2. Cardinality(InWindow(Log(r), Left(r).start)) = Limit(limiter[r])
  BY <1>1, PastFacts
<1> QED
  BY <1>1, <1>2, PastFacts DEF Current

\* What a request leaves behind when it gives the mutex back.
LEMMA CountFacts ==
  ASSUME Inv, NEW r \in Requests, Count(r)
  PROVE  /\ pc[r] = "wait" /\ UNCHANGED <<clock, hint>> /\ now' = [now EXCEPT ![r] = 0]
         /\ entry' = [entry EXCEPT ![limiter[r]][client[r]] = Left(r)]
         /\ \/ /\ Left(r).count > Limit(limiter[r])
               /\ pc' = [pc EXCEPT ![r] = "refused"] /\ copy' = [copy EXCEPT ![r] = Left(r)]
               /\ UNCHANGED <<client, login, limiter, admitted>>
            \/ /\ Left(r).count <= Limit(limiter[r])
               /\ admitted' = [admitted EXCEPT ![limiter[r]][client[r]] = Longer(r)]
               /\ \/ /\ pc' = [pc EXCEPT ![r] = "routed"] /\ limiter' = [limiter EXCEPT ![r] = "login"]
                     /\ UNCHANGED <<client, login, copy>>
                  \/ Return(r)
  BY DEF Count, Store, ServeNext, Left, Found, Log, Longer

\* The same, place by place.
LEMMA CountPlaces ==
  ASSUME Inv, NEW r \in Requests, Count(r)
  PROVE  /\ entry'[limiter[r]][client[r]] = Left(r)
         /\ admitted'[limiter[r]][client[r]]
              = IF Left(r).count <= Limit(limiter[r]) THEN Longer(r) ELSE Log(r)
         /\ \A k \in Limiters, d \in Clients : k # limiter[r] \/ d # client[r] =>
              entry'[k][d] = entry[k][d] /\ admitted'[k][d] = admitted[k][d]
         /\ \A p \in Requests : p # r =>
              /\ pc'[p] = pc[p] /\ client'[p] = client[p] /\ limiter'[p] = limiter[p]
              /\ copy'[p] = copy[p] /\ now'[p] = now[p]
         /\ pc'[r] # "wait"
         /\ pc'[r] \in {"refused", "routed"} => client'[r] = client[r]
         /\ pc'[r] = "refused" =>
              /\ Left(r).count > Limit(limiter[r]) /\ copy'[r] = Left(r)
              /\ limiter'[r] = limiter[r]
<1>1. limiter[r] \in Limiters /\ client[r] \in Clients /\ Left(r).count \in Nat /\ Limit(limiter[r]) \in Nat
  BY CountFacts, FoundFacts, LeftFacts
<1>2. /\ entry'[limiter[r]][client[r]] = Left(r)
      /\ \A k \in Limiters, d \in Clients : k # limiter[r] \/ d # client[r] =>
              entry'[k][d] = entry[k][d]
  BY <1>1, CountFacts DEF Inv, TypeOK
<1>3. /\ admitted'[limiter[r]][client[r]]
              = IF Left(r).count <= Limit(limiter[r]) THEN Longer(r) ELSE Log(r)
      /\ \A k \in Limiters, d \in Clients : k # limiter[r] \/ d # client[r] =>
              admitted'[k][d] = admitted[k][d]
  BY <1>1, CountFacts DEF Inv, TypeOK, Log
<1>4. /\ \A p \in Requests : p # r =>
              /\ pc'[p] = pc[p] /\ client'[p] = client[p] /\ limiter'[p] = limiter[p]
              /\ copy'[p] = copy[p] /\ now'[p] = now[p]
      /\ pc'[r] # "wait"
      /\ pc'[r] \in {"refused", "routed"} => client'[r] = client[r]
  <2>1. now' = [now EXCEPT ![r] = 0]
    BY CountFacts
  <2>2. CASE Return(r)
    BY <2>1, <2>2 DEF Inv, TypeOK, Return
  <2>3. CASE UNCHANGED client /\ pc' = [pc EXCEPT ![r] = "refused"]
    <3>1. limiter' = limiter /\ copy' = [copy EXCEPT ![r] = Left(r)]
      BY <2>3, CountFacts DEF Inv, TypeOK, Return
    <3> QED
      BY <2>1, <2>3, <3>1 DEF Inv, TypeOK
  <2>4. CASE UNCHANGED client /\ pc' = [pc EXCEPT ![r] = "routed"]
    <3>1. copy' = copy /\ limiter' = [limiter EXCEPT ![r] = "login"]
      BY <2>4, CountFacts DEF Inv, TypeOK, Return
    <3> QED
      BY <2>1, <2>4, <3>1 DEF Inv, TypeOK
  <2> QED
    BY <2>2, <2>3, <2>4, CountFacts
<1>5. pc'[r] = "refused" =>
              /\ Left(r).count > Limit(limiter[r]) /\ copy'[r] = Left(r)
              /\ limiter'[r] = limiter[r]
  <2>1. CASE Return(r) \/ pc' = [pc EXCEPT ![r] = "routed"]
    BY <2>1 DEF Inv, TypeOK, Return
  <2>2. CASE /\ Left(r).count > Limit(limiter[r])
             /\ copy' = [copy EXCEPT ![r] = Left(r)] /\ UNCHANGED limiter
    BY <2>2 DEF Inv, TypeOK
  <2> QED
    BY <2>1, <2>2, CountFacts
<1> QED
  BY <1>2, <1>3, <1>4, <1>5

-----------------------------------------------------------------------------
(* The conjuncts of the invariant, step by step.                           *)

LEMMA InitInv == Init => Inv
<1> SUFFICES ASSUME Init PROVE Inv
  OBVIOUS
<1>1. TypeOK /\ Underway /\ Full
  BY DEF Init, TypeOK, Underway, Full, Limiters
<1>2. Books
  <2> SUFFICES ASSUME NEW l \in Limiters, NEW c \in Clients
               PROVE  /\ Spaced(<< >>) /\ Timely(<< >>) /\ Limited(l, << >>)
                      /\ entry[l][c] = None /\ admitted[l][c] = << >>
    BY DEF Books
  <2>1. \A w : Cardinality(InWindow(<< >>, w)) = 0
    BY NoMember DEF InWindow
  <2>2. Limited(l, << >>)
    BY <2>1, LimitFacts DEF Limited
  <2> QED
    BY <2>2 DEF Init, Spaced, Timely
<1> QED
  BY <1>1, <1>2 DEF Inv

LEMMA NextTypeOK == Inv /\ [Next]_vars => TypeOK'
<1> SUFFICES ASSUME Inv, [Next]_vars PROVE TypeOK'
  OBVIOUS
<1>0. TypeOK
  BY DEF Inv
<1>1. ASSUME NEW r \in Requests, Enter(r)
      PROVE  TypeOK'
  BY <1>0, <1>1 DEF Enter, TypeOK
<1>2. ASSUME NEW r \in Requests, EnterLogin(r)
      PROVE  TypeOK'
  BY <1>0, <1>2 DEF EnterLogin, TypeOK
<1>3. ASSUME NEW r \in Requests, Count(r)
      PROVE  TypeOK'
  <2>1. pc[r] = "wait" /\ limiter[r] \in Limiters /\ client[r] \in Clients /\ Left(r) \in Entry
    BY <1>3, CountFacts, FoundFacts, LeftFacts
  <2>2. entry' \in [Limiters -> [Clients -> Entry \cup {None}]]
    <3>1. Left(r) \in Entry \cup {None}
      BY <2>1
    <3>2. entry' = [entry EXCEPT ![limiter[r]][client[r]] = Left(r)]
      BY <1>3, CountFacts
    <3> QED
      BY <1>0, <2>1, <3>1, <3>2, NestedExcept, Zenon DEF TypeOK
  <2>3. admitted' \in [Limiters -> [Clients -> Seq(Admission)]]
    <3>1. CASE admitted' = admitted
      BY <1>0, <3>1 DEF TypeOK
    <3>2. CASE /\ Left(r).count <= Limit(limiter[r])
               /\ admitted' = [admitted EXCEPT ![limiter[r]][client[r]] = Longer(r)]
      <4>1. Longer(r) \in Seq(Admission)
        BY <2>1, <3>2, AdmissionFacts
      <4> QED
        BY <1>0, <2>1, <3>2, <4>1, NestedExcept, Zenon DEF TypeOK
    <3> QED
      BY <1>3, <3>1, <3>2, CountFacts
  <2>4. /\ pc' \in [Requests -> {"idle", "wait", "refused", "routed", "done"}]
        /\ client' \in [Requests -> Clients \cup {None}]
        /\ login' \in [Requests -> BOOLEAN]
        /\ limiter' \in [Requests -> Limiters]
        /\ copy' \in [Requests -> Entry \cup {None}]
    <3>1. CASE Return(r)
      BY <1>0, <3>1 DEF Return, TypeOK, Limiters
    <3>2. CASE /\ pc' = [pc EXCEPT ![r] = "refused"] /\ copy' = [copy EXCEPT ![r] = Left(r)]
               /\ UNCHANGED <<client, login, limiter>>
      BY <1>0, <2>1, <3>2 DEF TypeOK
    <3>3. CASE /\ pc' = [pc EXCEPT ![r] = "routed"] /\ limiter' = [limiter EXCEPT ![r] = "login"]
               /\ UNCHANGED <<client, login, copy>>
      BY <1>0, <3>3 DEF TypeOK, Limiters
    <3> QED
      BY <1>3, <3>1, <3>2, <3>3, CountFacts
  <2>6. clock' = clock /\ hint' = hint /\ now' \in [Requests -> 0..MaxClock]
    <3>1. UNCHANGED <<clock, hint>> /\ now' = [now EXCEPT ![r] = 0]
      BY <1>3, CountFacts
    <3> QED
      BY <1>0, <3>1 DEF TypeOK
  <2> QED
    BY <1>0, <2>2, <2>3, <2>4, <2>6 DEF TypeOK
<1>4. ASSUME NEW r \in Requests, Refuse(r)
      PROVE  TypeOK'
  <2>1. SecondsLeft(r) \in Int
    BY <1>0, <1>4 DEF Refuse, TooManyRequests, SecondsLeft, Inv, Full, TypeOK, Entry
  <2>2. Larger(1, SecondsLeft(r)) \in Nat
    BY <2>1 DEF Larger
  <2> QED
    BY <1>0, <1>4, <2>2 DEF Refuse, TooManyRequests, Return, TypeOK, Limiters
<1>5. CASE Tick
  BY <1>0, <1>5 DEF Tick, TypeOK
<1>6. CASE UNCHANGED vars
  BY <1>0, <1>6 DEF vars, TypeOK
<1> QED
  BY <1>1, <1>2, <1>3, <1>4, <1>5, <1>6 DEF Next

LEMMA NextUnderway == Inv /\ [Next]_vars => Underway'
<1> SUFFICES ASSUME Inv, [Next]_vars PROVE Underway'
  OBVIOUS
<1>0. TypeOK /\ Underway
  BY DEF Inv
<1>1. ASSUME NEW r \in Requests, Enter(r)
      PROVE  Underway'
  BY <1>0, <1>1 DEF Enter, Underway, TypeOK
<1>2. ASSUME NEW r \in Requests, EnterLogin(r)
      PROVE  Underway'
  BY <1>0, <1>2 DEF EnterLogin, Underway, TypeOK
<1>3. ASSUME NEW r \in Requests, Count(r)
      PROVE  Underway'
  <2>1. client[r] \in Clients /\ clock' = clock
    BY <1>3, CountFacts, FoundFacts
  <2> QED
    BY <1>0, <1>3, <2>1, CountPlaces DEF Underway
<1>4. ASSUME NEW r \in Requests, Refuse(r)
      PROVE  Underway'
  BY <1>0, <1>4 DEF Refuse, TooManyRequests, Return, Underway, TypeOK
<1>5. CASE Tick
  BY <1>0, <1>5 DEF Tick, Underway, TypeOK
<1>6. CASE UNCHANGED vars
  BY <1>0, <1>6 DEF vars, Underway
<1> QED
  BY <1>1, <1>2, <1>3, <1>4, <1>5, <1>6 DEF Next

LEMMA NextBooks == Inv /\ [Next]_vars => Books'
<1> SUFFICES ASSUME Inv, [Next]_vars PROVE Books'
  OBVIOUS
<1>0. TypeOK /\ Books
  BY DEF Inv
<1>1. CASE UNCHANGED <<entry, admitted>> /\ (clock' = clock \/ clock' = clock + 1)
  <2>1. \A e \in Entry : e.start <= clock => e.start <= clock'
    BY <1>0, <1>1, EntryFacts DEF TypeOK
  <2>2. \A l \in Limiters, c \in Clients : entry[l][c] \in Entry \cup {None}
    BY <1>0 DEF TypeOK
  <2> QED
    BY <1>0, <1>1, <2>1, <2>2 DEF Books, Current
<1>2. ASSUME NEW r \in Requests, Count(r)
      PROVE  Books'
  <2> SUFFICES ASSUME NEW l \in Limiters, NEW c \in Clients
               PROVE  Books!(l, c)'
    BY DEF Books
  <2>0. clock' = clock /\ pc[r] = "wait"
    BY <1>2, CountFacts
  <2>1. CASE l # limiter[r] \/ c # client[r]
    BY <1>0, <1>2, <2>0, <2>1, CountPlaces DEF Books, Current
  <2>2. CASE l = limiter[r] /\ c = client[r] /\ Left(r).count <= Limit(l)
    <3>1. entry'[l][c] = Left(r) /\ Left(r) # None /\ admitted'[l][c] = Longer(r)
      BY <1>2, <2>0, <2>2, CountPlaces, LeftFacts
    <3> QED
      BY <2>0, <2>2, <3>1, AdmissionFacts DEF Current
  <2>3. CASE l = limiter[r] /\ c = client[r] /\ Left(r).count > Limit(l)
    <3>1. entry'[l][c] = Left(r) /\ Left(r) # None /\ admitted'[l][c] = Log(r)
      <4>1. ~(Left(r).count <= Limit(l))
        BY <2>0, <2>3, FoundFacts, LeftFacts
      <4> QED
        BY <1>2, <2>0, <2>3, <4>1, CountPlaces, LeftFacts
    <3> QED
      BY <2>0, <2>3, <3>1, RefusalFacts, FoundFacts DEF Current
  <2> QED
    <3>1. Left(r).count <= Limit(limiter[r]) \/ Left(r).count > Limit(limiter[r])
      BY <2>0, FoundFacts, LeftFacts
    <3> QED
      BY <2>1, <2>2, <2>3, <3>1
<1>3. (UNCHANGED <<entry, admitted>> /\ (clock' = clock \/ clock' = clock + 1))
        \/ \E r \in Requests : Count(r)
  BY DEF Next, vars, Enter, EnterLogin, Refuse, TooManyRequests, Tick
<1> QED
  BY <1>1, <1>2, <1>3

LEMMA NextFull == Inv /\ [Next]_vars => Full'
<1> SUFFICES ASSUME Inv, [Next]_vars, NEW p \in Requests, pc'[p] = "refused"
             PROVE  Full!(p)!2'
  BY DEF Full
<1>0. pc[p] = "refused" =>
        /\ copy[p] \in Entry /\ limiter[p] \in Limiters /\ client[p] \in Clients
        /\ Full!(p)!2
  BY DEF Inv, Full, TypeOK, Underway
<1>1. CASE /\ pc[p] = "refused" /\ UNCHANGED <<entry, admitted>>
           /\ copy'[p] = copy[p] /\ limiter'[p] = limiter[p] /\ client'[p] = client[p]
  BY <1>0, <1>1
<1>2. ASSUME NEW r \in Requests, Count(r)
      PROVE  Full!(p)!2'
  <2>0. /\ pc[r] = "wait" /\ limiter[r] \in Limiters /\ client[r] \in Clients
        /\ Left(r) \in Entry /\ Left(r).start \in Nat
    BY <1>2, CountFacts, FoundFacts, LeftFacts
  <2>1. CASE p = r
    <3>1. /\ Left(r).count > Limit(limiter[r]) /\ copy'[r] = Left(r)
          /\ limiter'[r] = limiter[r] /\ client'[r] = client[r]
      BY <1>2, <2>1, CountPlaces
    <3>2. ~(Left(r).count <= Limit(limiter[r]))
      BY <2>0, <3>1, FoundFacts, EntryFacts
    <3>3. entry'[limiter[r]][client[r]] = Left(r) /\ admitted'[limiter[r]][client[r]] = Log(r)
      BY <1>2, <3>2, CountPlaces
    <3> QED
      BY <2>0, <2>1, <3>1, <3>3, RefusalFacts, EntryFacts
  <2>2. CASE p # r
    <3>1. /\ pc[p] = "refused" /\ copy'[p] = copy[p]
          /\ limiter'[p] = limiter[p] /\ client'[p] = client[p]
      BY <1>2, <2>2, CountPlaces
    <3>2. CASE limiter[p] # limiter[r] \/ client[p] # client[r]
      <4>1. /\ entry'[limiter[p]][client[p]] = entry[limiter[p]][client[p]]
            /\ admitted'[limiter[p]][client[p]] = admitted[limiter[p]][client[p]]
        BY <1>0, <1>2, <3>1, <3>2, CountPlaces
      <4> QED
        BY <1>0, <3>1, <4>1
    <3>3. CASE limiter[p] = limiter[r] /\ client[p] = client[r]
      <4> DEFINE w == copy[p].start
      <4>1. /\ Found(r) # None /\ w <= Found(r).start /\ w \in 0..MaxClock
            /\ Cardinality(InWindow(Log(r), w)) = Limit(limiter[r])
        BY <1>0, <3>1, <3>3, EntryFacts DEF Found, Log
      <4>2. w <= Left(r).start
        <5>1. Found(r).start \in Nat /\ Left(r).start >= Found(r).start
          BY <2>0, <4>1, LeftFacts, EntryFacts
        <5> QED
          BY <2>0, <4>1, <5>1
      <4>3. Cardinality(InWindow(admitted'[limiter[r]][client[r]], w)) = Limit(limiter[r])
        <5>1. CASE Left(r).count <= Limit(limiter[r])
          <6>1. Cardinality(InWindow(Longer(r), w)) <= Limit(limiter[r])
            BY <2>0, <4>1, <5>1, AdmissionFacts DEF Limited
          <6>2. [at |-> clock, start |-> Left(r).start] \in Admission
            BY <2>0, FoundFacts, EntryFacts DEF Admission
          <6>3. Cardinality(InWindow(Longer(r), w)) >= Cardinality(InWindow(Log(r), w))
            <7> DEFINE a == [at |-> clock, start |-> Left(r).start]
            <7>1. Longer(r) = Append(Log(r), a) /\ Log(r) \in Seq(Admission) /\ a \in Admission
              BY <2>0, <6>2, FoundFacts DEF Longer
            <7> HIDE DEF a
            <7> QED
              BY <7>1, AppendWindow, WindowFacts
          <6>4. Cardinality(InWindow(Longer(r), w)) \in Nat /\ Limit(limiter[r]) \in Nat
            BY <2>0, <5>1, AdmissionFacts, WindowFacts, FoundFacts
          <6>5. admitted'[limiter[r]][client[r]] = Longer(r)
            BY <1>2, <5>1, CountPlaces
          <6> QED
            BY <4>1, <6>1, <6>3, <6>4, <6>5
        <5>2. CASE ~(Left(r).count <= Limit(limiter[r]))
          BY <1>2, <4>1, <5>2, CountPlaces
        <5> QED
          BY <5>1, <5>2
      <4>4. entry'[limiter[r]][client[r]] = Left(r) /\ Left(r) # None
        BY <1>2, <2>0, CountPlaces, EntryFacts
      <4> QED
        BY <1>0, <3>1, <3>3, <4>2, <4>3, <4>4
    <3> QED
      BY <3>2, <3>3
  <2> QED
    BY <2>1, <2>2
<1>3. ASSUME NEW r \in Requests, Enter(r) \/ EnterLogin(r) \/ Refuse(r)
      PROVE  /\ pc[p] = "refused" /\ UNCHANGED <<entry, admitted>>
             /\ copy'[p] = copy[p] /\ limiter'[p] = limiter[p] /\ client'[p] = client[p]
  BY <1>3 DEF Enter, EnterLogin, Refuse, TooManyRequests, Return, Inv, TypeOK
<1> QED
  BY <1>1, <1>2, <1>3 DEF Next, vars, Tick

LEMMA NextInv == Inv /\ [Next]_vars => Inv'
  BY NextTypeOK, NextUnderway, NextBooks, NextFull DEF Inv

LEMMA AlwaysInv == Spec => []Inv
  BY InitInv, NextInv, PTL DEF Spec

-----------------------------------------------------------------------------
(* The theorems.                                                           *)

\* TypeOK: every variable has its type; a stored count is never zero and no
\* Retry-After is negative.
THEOREM TypeCorrect == Spec => []TypeOK
<1>1. Inv => TypeOK
  BY DEF Inv
<1> QED
  BY <1>1, AlwaysInv, PTL

\* RefusedOnlyWhenFull: a 429 means that the client used the whole limit in the
\* window that it was counted in, whatever windows opened meanwhile.
THEOREM RefusedOnlyWhenFullHolds == Spec => []RefusedOnlyWhenFull
<1>1. Inv => RefusedOnlyWhenFull
  BY DEF Inv, Full, RefusedOnlyWhenFull, Admissions, InWindow
<1> QED
  BY <1>1, AlwaysInv, PTL

\* The union of two windows of a client, within their limits.
LEMMA TwoWindows ==
  ASSUME NEW s \in Seq(Admission), NEW v, NEW w, NEW l \in Limiters,
         Cardinality(InWindow(s, v)) <= Limit(l), Cardinality(InWindow(s, w)) <= Limit(l),
         NEW S, S \subseteq InWindow(s, v) \cup InWindow(s, w)
  PROVE  Cardinality(S) <= 2 * Limit(l)
<1> DEFINE V == InWindow(s, v)
           W == InWindow(s, w)
<1>1. /\ IsFiniteSet(V) /\ Cardinality(V) \in Nat /\ IsFiniteSet(W) /\ Cardinality(W) \in Nat
      /\ Cardinality(V) <= Limit(l) /\ Cardinality(W) <= Limit(l) /\ Limit(l) \in Nat
      /\ S \subseteq V \cup W
  BY WindowFacts, LimitFacts
<1> HIDE DEF V, W
<1>2. /\ IsFiniteSet(V \cup W)
      /\ Cardinality(V \cup W) = Cardinality(V) + Cardinality(W) - Cardinality(V \cap W)
  BY <1>1, FS_Union
<1>3. IsFiniteSet(V \cap W)
  BY <1>1, FS_Subset
<1>4. IsFiniteSet(S) /\ Cardinality(S) <= Cardinality(V \cup W)
  BY <1>1, <1>2, FS_Subset
<1>5. Cardinality(S) \in Nat /\ Cardinality(V \cup W) \in Nat /\ Cardinality(V \cap W) \in Nat
  BY <1>2, <1>3, <1>4, FS_CardinalityType
<1> QED
  BY <1>1, <1>2, <1>4, <1>5

\* BurstBound: in any span as long as a window, less the wait for the mutex, a
\* client passes at most twice the limit.
THEOREM BurstBoundHolds == Spec => []BurstBound
<1>1. Inv => BurstBound
  <2> SUFFICES ASSUME Inv, NEW l \in Limiters, NEW c \in Clients, NEW t \in 0..MaxClock
               PROVE  Cardinality({i \in DOMAIN admitted[l][c] :
                          admitted[l][c][i].at \in t..(t + Window - MaxWait)}) <= 2 * Limit(l)
    BY DEF BurstBound, Admissions
  <2> DEFINE s == admitted[l][c]
             S == {i \in DOMAIN s : s[i].at \in t..(t + Window - MaxWait)}
  <2>1. s \in Seq(Admission) /\ Limit(l) \in Nat /\ Spaced(s) /\ Timely(s) /\ Limited(l, s)
    BY LimitFacts DEF Inv, TypeOK, Books
  <2> HIDE DEF s
  <2>2. \A i \in DOMAIN s : s[i].start \in 0..MaxClock /\ s[i].start \in Nat /\ s[i].at \in Nat
    <3> SUFFICES ASSUME NEW i \in DOMAIN s
                 PROVE  s[i].start \in 0..MaxClock /\ s[i].start \in Nat /\ s[i].at \in Nat
      OBVIOUS
    <3>1. s[i] \in Admission
      BY <2>1, TimesFacts
    <3> QED
      BY <3>1 DEF Admission
  <2>3. \A i \in DOMAIN s : Cardinality(InWindow(s, s[i].start)) <= Limit(l)
    BY <2>1, <2>2 DEF Limited
  <2>4. CASE \A i \in S : FALSE
    <3>1. Cardinality(S) = 0
      BY <2>4, NoMember
    <3> QED
      BY <2>1, <3>1 DEF s
  <2>5. ASSUME NEW i \in S, NEW j \in S,
               S \subseteq InWindow(s, s[i].start) \cup InWindow(s, s[j].start)
        PROVE  Cardinality(S) <= 2 * Limit(l)
    <3>1. i \in DOMAIN s /\ j \in DOMAIN s
      OBVIOUS
    <3> DEFINE v == s[i].start
               w == s[j].start
    <3>2. /\ Cardinality(InWindow(s, v)) <= Limit(l) /\ Cardinality(InWindow(s, w)) <= Limit(l)
          /\ S \subseteq InWindow(s, v) \cup InWindow(s, w)
      BY <2>3, <2>5, <3>1
    <3> HIDE DEF S, v, w
    <3> QED
      BY <2>1, <3>2, TwoWindows
  <2>6. ASSUME NEW i \in S, NEW j \in S, NEW k \in S, s[i].start # s[j].start
        PROVE  s[k].start = s[i].start \/ s[k].start = s[j].start
    <3>1. ASSUME NEW x \in S, NEW y \in S, s[x].start < s[y].start
          PROVE  s[x].start + Window <= s[y].start
      <4>1. x \in DOMAIN s /\ y \in DOMAIN s
        OBVIOUS
      <4>2. \/ s[x].start = s[y].start
            \/ s[x].start + Window <= s[y].start
            \/ s[y].start + Window <= s[x].start
        BY <2>1, <4>1 DEF Spaced
      <4> QED
        BY <2>2, <3>1, <4>1, <4>2
    <3>2. ASSUME NEW x \in S, NEW y \in S
          PROVE  s[y].start < s[x].start + 2 * Window
      <4>1. /\ x \in DOMAIN s /\ t <= s[x].at /\ s[x].at < s[x].start + Window + MaxWait
            /\ y \in DOMAIN s /\ s[y].at <= t + Window - MaxWait /\ s[y].start <= s[y].at
        BY <2>1, <2>2 DEF Timely
      <4> QED
        BY <2>2, <4>1
    <3> QED
      BY <2>2, <2>6, <3>1, <3>2
  <2>7. ASSUME NEW i \in S
        PROVE  \E j \in S : S \subseteq InWindow(s, s[i].start) \cup InWindow(s, s[j].start)
    <3>1. CASE \A k \in S : s[k].start = s[i].start
      BY <3>1 DEF InWindow
    <3>2. ASSUME NEW j \in S, s[j].start # s[i].start
          PROVE  S \subseteq InWindow(s, s[i].start) \cup InWindow(s, s[j].start)
      BY <2>6, <3>2 DEF InWindow
    <3> QED
      BY <3>1, <3>2
  <2> QED
    BY <2>4, <2>5, <2>7 DEF s
<1> QED
  BY <1>1, AlwaysInv, PTL

\* Whole seconds, multiplied again, are no more than the time and less than a
\* second short of it.
LEMMA SecondsFacts ==
  ASSUME NEW x \in Int
  PROVE  LET n == x \div TicksPerSecond IN
         n \in Int /\ n * TicksPerSecond <= x /\ x < n * TicksPerSecond + TicksPerSecond
  OBVIOUS

\* RetryAfterFits: the Retry-After of a 429 ends no later than the open window,
\* but for the least wait of a second, and less than a second before the window
\* that the request was counted in.
THEOREM RetryAfterFitsHolds == Spec => RetryAfterFits
<1>1. Inv /\ [Next]_vars =>
        \A r \in Requests : hint'[r] # hint[r] =>
          LET wait == hint'[r] * TicksPerSecond
              open == entry[limiter[r]][client[r]]
          IN
          /\ wait <= Larger(TicksPerSecond, open.start + Window - clock)
          /\ wait + TicksPerSecond > copy[r].start + Window - clock
  <2> SUFFICES ASSUME Inv, [Next]_vars, NEW r \in Requests, hint'[r] # hint[r]
               PROVE  /\ hint'[r] * TicksPerSecond
                           <= Larger(TicksPerSecond, Found(r).start + Window - clock)
                      /\ hint'[r] * TicksPerSecond + TicksPerSecond
                           > copy[r].start + Window - clock
    BY DEF Found
  <2>1. Refuse(r) /\ hint'[r] = Larger(1, SecondsLeft(r))
    <3>1. ASSUME NEW p \in Requests, Refuse(p)
          PROVE  p = r /\ hint'[r] = Larger(1, SecondsLeft(r))
      BY <3>1 DEF Refuse, TooManyRequests, Inv, TypeOK
    <3> QED
      BY <3>1 DEF Next, vars, Enter, EnterLogin, Count, Store, Tick
  <2>2. /\ copy[r] \in Entry /\ Found(r) \in Entry /\ copy[r].start <= Found(r).start
        /\ clock \in Nat
    BY <2>1 DEF Refuse, TooManyRequests, Found, Inv, Full, TypeOK, Underway
  <2> DEFINE x == copy[r].start + Window - clock
             y == Found(r).start + Window - clock
             n == SecondsLeft(r)
  <2>3. x \in Int /\ y \in Int /\ x <= y
    BY <2>2, EntryFacts
  <2>4. n \in Int /\ n * TicksPerSecond <= x /\ x < n * TicksPerSecond + TicksPerSecond
    BY <2>3, SecondsFacts DEF SecondsLeft
  <2>5. CASE n >= 1
    <3>1. hint'[r] = n
      BY <2>1, <2>4, <2>5 DEF Larger
    <3> QED
      BY <2>3, <2>4, <3>1 DEF Larger
  <2>6. CASE ~(n >= 1)
    <3>1. hint'[r] = 1
      BY <2>1, <2>4, <2>6 DEF Larger
    <3>2. n * TicksPerSecond <= 0
      BY <2>4, <2>6
    <3>3. TicksPerSecond <= Larger(TicksPerSecond, y)
      BY <2>3 DEF Larger
    <3> QED
      BY <2>3, <2>4, <3>1, <3>2, <3>3
  <2> QED
    BY <2>5, <2>6
<1> QED
  BY <1>1, AlwaysInv, PTL DEF Spec, RetryAfterFits
=============================================================================
