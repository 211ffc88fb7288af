----------------------- MODULE ClickWorkerPool_proofs -----------------------
(***************************************************************************)
(* Proofs about ClickWorkerPool, for every set of redirects, URLs and      *)
(* workers, every capacity of the channel and every number of attempts.    *)
(***************************************************************************)
EXTENDS ClickWorkerPool, FiniteSetTheorems, TLAPS

USE UrlOfAssumption, SizeAssumption, NoneAssumption

-----------------------------------------------------------------------------
(* The inductive invariant.                                                *)

\* The fate of an event is decided when its redirect is answered.
Decided == \A r \in Redirects : fate[r] = "none" <=> req[r] # "done"

\* The channel holds the events that are queued, each once.
Queued ==
  /\ \A i \in 1..Len(queue) : fate[queue[i]] = "queued"
  /\ \A i, j \in 1..Len(queue) : queue[i] = queue[j] => i = j
  /\ \A r \in Redirects : fate[r] = "queued" => \E i \in 1..Len(queue) : queue[i] = r

\* The workers hold the events that are taken, each once.
Taken ==
  /\ \A w \in Workers : worker[w].event # None => fate[worker[w].event] = "taken"
  /\ \A v, w \in Workers :
       worker[v].event = worker[w].event /\ worker[v].event # None => v = w
  /\ \A r \in Redirects : fate[r] = "taken" => \E w \in Workers : worker[w].event = r

\* A statement that may still commit is about an event that a worker had.
LateWasTaken == \A s \in late : fate[s[1]] \notin {"none", "refused", "queued"}

\* A worker that has left its loop saw the channel closed and empty.
ExitsWhenDrained == \A w \in Workers : worker[w] = Exited => Closed /\ queue = <<>>

PoolHasStopped == phase \in {"poolStopped", "redisClosed", "dbClosed", "exited"}

\* main passes wg.Wait after the last worker.
StopsAfterWorkers == PoolHasStopped => \A w \in Workers : worker[w] = Exited

\* When server.Shutdown returned in time no handler runs.
ClosesAfterHandlers ==
  Closed /\ ~ timedOut /\ phase # "crashed" => \A r \in Redirects : ~ InHandler(r)

Inv ==
  /\ TypeOK /\ Decided /\ Queued /\ Taken /\ LateWasTaken /\ CountedOnce
  /\ ExitsWhenDrained /\ StopsAfterWorkers
  /\ ClosesAfterHandlers /\ GracefulShutdownAbortsNothing

-----------------------------------------------------------------------------
(* Operators.                                                              *)

\* A send adds its event at the end of the channel.
LEMMA AppendFacts ==
  ASSUME NEW S, NEW s \in Seq(S), NEW x \in S
  PROVE  /\ Append(s, x) \in Seq(S)
         /\ Len(Append(s, x)) = Len(s) + 1
         /\ \A i \in 1..Len(s) : Append(s, x)[i] = s[i]
         /\ Append(s, x)[Len(s) + 1] = x
  OBVIOUS

\* A receive takes the first event of the channel.
LEMMA TailFacts ==
  ASSUME NEW S, NEW s \in Seq(S), s # <<>>
  PROVE  /\ Head(s) \in S /\ Head(s) = s[1] /\ Len(s) > 0
         /\ Tail(s) \in Seq(S)
         /\ Len(Tail(s)) = Len(s) - 1
         /\ \A i \in 1..Len(Tail(s)) : Tail(s)[i] = s[i + 1]
  OBVIOUS

\* A worker without an event, or with one and an attempt.
LEMMA WorkerFacts ==
  ASSUME TypeOK, NEW w \in Workers
  PROVE  /\ worker[w] \in WorkerStates
         /\ \/ worker[w] = Idle
            \/ worker[w] = Exited
            \/ \E r \in Redirects, n \in 1..MaxRetries : worker[w] = Trying(r, n)
            \/ \E r \in Redirects, n \in 1..(MaxRetries - 1) : worker[w] = Sleeping(r, n)
  BY DEF TypeOK, WorkerStates

LEMMA StateFacts ==
  /\ Idle.state = "idle" /\ Idle.event = None
  /\ Exited.state = "exited" /\ Exited.event = None
  /\ \A r, n : /\ Trying(r, n).state = "trying" /\ Trying(r, n).event = r
               /\ Trying(r, n).attempt = n
  /\ \A r, n : /\ Sleeping(r, n).state = "sleeping" /\ Sleeping(r, n).event = r
               /\ Sleeping(r, n).attempt = n
  /\ Idle \in WorkerStates /\ Exited \in WorkerStates
  /\ \A r \in Redirects, n \in 1..MaxRetries : Trying(r, n) \in WorkerStates
  /\ \A r \in Redirects, n \in 1..(MaxRetries - 1) : Sleeping(r, n) \in WorkerStates
<1>1. /\ Idle.state = "idle" /\ Idle.event = None
      /\ Exited.state = "exited" /\ Exited.event = None
      /\ \A r, n : /\ Trying(r, n).state = "trying" /\ Trying(r, n).event = r
                   /\ Trying(r, n).attempt = n
      /\ \A r, n : /\ Sleeping(r, n).state = "sleeping" /\ Sleeping(r, n).event = r
                   /\ Sleeping(r, n).attempt = n
  BY DEF Idle, Exited, Trying, Sleeping
<1>2. /\ Idle \in WorkerStates /\ Exited \in WorkerStates
      /\ \A r \in Redirects, n \in 1..MaxRetries : Trying(r, n) \in WorkerStates
      /\ \A r \in Redirects, n \in 1..(MaxRetries - 1) : Sleeping(r, n) \in WorkerStates
  BY DEF WorkerStates
<1> QED
  BY <1>1, <1>2

\* A worker at its attempt to store an event.
LEMMA TryingFacts ==
  ASSUME TypeOK, NEW w \in Workers, worker[w].state = "trying"
  PROVE  /\ worker[w].event \in Redirects /\ worker[w].attempt \in 1..MaxRetries
         /\ worker[w] = Trying(worker[w].event, worker[w].attempt)
  BY WorkerFacts, StateFacts

\* A worker that waits for its next attempt.
LEMMA SleepingFacts ==
  ASSUME TypeOK, NEW w \in Workers, worker[w].state = "sleeping"
  PROVE  /\ worker[w].event \in Redirects /\ worker[w].attempt \in 1..(MaxRetries - 1)
         /\ worker[w] = Sleeping(worker[w].event, worker[w].attempt)
  BY WorkerFacts, StateFacts

LEMMA EventFacts ==
  ASSUME TypeOK, NEW w \in Workers, worker[w].event # None
  PROVE  worker[w].event \in Redirects /\ worker[w].state \in {"trying", "sleeping"}
  BY WorkerFacts, StateFacts

-----------------------------------------------------------------------------
(* Type correctness.                                                       *)

LEMMA InitInv == Init => Inv
<1> SUFFICES ASSUME Init PROVE Inv
  OBVIOUS
<1>1. TypeOK
  <2>1. worker \in [Workers -> WorkerStates]
    BY StateFacts DEF Init
  <2>2. queue \in Seq(Redirects) /\ Len(queue) <= QueueSize
    BY DEF Init
  <2> QED
    BY <2>1, <2>2 DEF Init, TypeOK, Answers, Fates, Phases
<1>2. Len(queue) = 0
  BY DEF Init
<1> QED
  BY <1>1, <1>2, StateFacts
     DEF Init, Inv, Decided, Queued, Taken, LateWasTaken, CountedOnce, ExitsWhenDrained,
         StopsAfterWorkers, PoolHasStopped, ClosesAfterHandlers, Closed,
         GracefulShutdownAbortsNothing

\* InsertRow leaves one row, whatever was there.
LEMMA InsertRowFacts ==
  ASSUME TypeOK, NEW r \in Redirects, InsertRow(r)
  PROVE  /\ rows' \in [Redirects -> Nat]
         /\ rows'[r] = IF rows[r] = 0 THEN 1 ELSE rows[r]
         /\ \A s \in Redirects : s # r => rows'[s] = rows[s]
  BY DEF TypeOK, InsertRow

LEMMA HandleTypeOK ==
  ASSUME TypeOK, NEW r \in Redirects, Arrive(r) \/ Handle(r)
  PROVE  TypeOK'
<1>1. CASE EnqueueSend(r)
  <2>1. queue' \in Seq(Redirects) /\ Len(queue') <= QueueSize
    BY <1>1, AppendFacts DEF EnqueueSend, TypeOK
  <2> QED
    BY <1>1, <2>1 DEF EnqueueSend, Respond, TypeOK, Answers, Fates
<1>2. CASE Arrive(r) \/ LookupFound(r)
  BY <1>2 DEF Arrive, LookupFound, TypeOK
<1>3. CASE LookupFailed(r) \/ EnqueueRefused(r) \/ EnqueuePanic(r)
  BY <1>3 DEF LookupFailed, EnqueueRefused, EnqueuePanic, Respond, TypeOK, Answers, Fates
<1> QED
  BY <1>1, <1>2, <1>3 DEF Handle

LEMMA WorkTypeOK ==
  ASSUME TypeOK, NEW w \in Workers, Work(w)
  PROVE  TypeOK'
<1>1. CASE Take(w)
  <2>1. /\ Head(queue) \in Redirects /\ Len(queue') <= QueueSize
        /\ queue' \in Seq(Redirects)
    BY <1>1, TailFacts DEF Take, TypeOK
  <2>2. worker' \in [Workers -> WorkerStates]
    BY <1>1, <2>1, StateFacts DEF Take, TypeOK
  <2> QED
    BY <1>1, <2>1, <2>2 DEF Take, TypeOK, Fates
<1>2. CASE Exit(w)
  BY <1>2, StateFacts DEF Exit, TypeOK
<1>3. CASE Save(w)
  <2>1. rows' \in [Redirects -> Nat]
    BY <1>3, TryingFacts, InsertRowFacts DEF Save
  <2> QED
    BY <1>3, <2>1, TryingFacts, StateFacts DEF Save, TypeOK, Fates
<1>4. CASE Fail(w)
  <2> DEFINE e == worker[w].event
             n == worker[w].attempt
  <2>1. e \in Redirects /\ n \in 1..MaxRetries
    BY <1>4, TryingFacts DEF Fail
  <2>2. n # MaxRetries => Sleeping(e, n) \in WorkerStates
    BY <2>1, StateFacts
  <2>3. /\ late' = late \cup {<<e, n>>}
        /\ \/ worker' = [worker EXCEPT ![w] = Idle] /\ fate' = [fate EXCEPT ![e] = "failed"]
           \/ n # MaxRetries /\ worker' = [worker EXCEPT ![w] = Sleeping(e, n)] /\ fate' = fate
        /\ UNCHANGED <<req, answer, queue, rows, urls, phase, timedOut>>
    BY <1>4 DEF Fail
  <2> HIDE DEF e, n
  <2>4. late' \in SUBSET (Redirects \X (1..MaxRetries))
    BY <2>1, <2>3 DEF TypeOK
  <2>5. worker' \in [Workers -> WorkerStates]
    BY <2>2, <2>3, StateFacts DEF TypeOK
  <2> QED
    BY <2>1, <2>3, <2>4, <2>5 DEF TypeOK, Fates
<1>5. CASE Wake(w)
  <2>1. Trying(worker[w].event, worker[w].attempt + 1) \in WorkerStates
    BY <1>5, SleepingFacts, StateFacts DEF Wake
  <2> QED
    BY <1>5, <2>1 DEF Wake, TypeOK
<1> QED
  BY <1>1, <1>2, <1>3, <1>4, <1>5 DEF Work

LEMMA CrashTypeOK ==
  ASSUME TypeOK, Crash
  PROVE  TypeOK'
<1>1. late' \in SUBSET (Redirects \X (1..MaxRetries))
  BY TryingFacts DEF Crash, TypeOK
<1>2. queue' \in Seq(Redirects) /\ Len(queue') <= QueueSize
  BY DEF Crash
<1>3. worker' \in [Workers -> WorkerStates]
  BY StateFacts DEF Crash
<1>4. fate' \in [Redirects -> Fates]
  BY DEF Crash, TypeOK, Fates
<1> QED
  BY <1>1, <1>2, <1>3, <1>4 DEF Crash, EndHandlers, TypeOK, Answers, Phases

LEMMA NextTypeOK == TypeOK /\ [Next]_vars => TypeOK'
<1> SUFFICES ASSUME TypeOK, [Next]_vars PROVE TypeOK'
  OBVIOUS
<1>1. ASSUME NEW s \in late, LateCommit(s) PROVE TypeOK'
  <2>1. rows' \in [Redirects -> Nat]
    BY <1>1, InsertRowFacts DEF LateCommit, TypeOK
  <2> QED
    BY <1>1, <2>1 DEF LateCommit, TypeOK
<1>2. ASSUME NEW u \in Urls, DeleteURL(u) PROVE TypeOK'
  BY <1>2 DEF DeleteURL, TypeOK
<1>3. CASE Signal \/ ShutDown
  BY <1>3 DEF Signal, ShutDown, Drained, DrainTimeout, PoolStopped, CloseRedis, CloseDB,
              ExitProcess, Goto, KeepHandlers, EndHandlers, TypeOK, Answers, Fates, Phases
<1>4. CASE UNCHANGED vars
  BY <1>4 DEF vars, TypeOK
<1> QED
  BY <1>1, <1>2, <1>3, <1>4, HandleTypeOK, WorkTypeOK, CrashTypeOK DEF Next

-----------------------------------------------------------------------------
(* Fates: what a step may do to an event.                                  *)

\* The event that a receive takes, the event that a worker holds, the redirect
\* that is not answered yet.
LEMMA FateFacts ==
  ASSUME Inv
  PROVE  /\ queue # <<>> => Head(queue) \in Redirects /\ fate[Head(queue)] = "queued"
         /\ \A w \in Workers : worker[w].state \in {"trying", "sleeping"} =>
              /\ worker[w].event \in Redirects /\ worker[w].event # None
              /\ fate[worker[w].event] = "taken"
         /\ \A r \in Redirects : req[r] # "done" => fate[r] = "none"
<1>1. ASSUME queue # <<>>
      PROVE  Head(queue) \in Redirects /\ fate[Head(queue)] = "queued"
  <2>1. Head(queue) \in Redirects /\ Head(queue) = queue[1] /\ 1 \in 1..Len(queue)
    BY <1>1, TailFacts DEF Inv, TypeOK
  <2> QED
    BY <2>1 DEF Inv, Queued
<1>2. ASSUME NEW w \in Workers, worker[w].state \in {"trying", "sleeping"}
      PROVE  /\ worker[w].event \in Redirects /\ worker[w].event # None
             /\ fate[worker[w].event] = "taken"
  BY <1>2, TryingFacts, SleepingFacts DEF Inv, Taken
<1> QED
  BY <1>1, <1>2 DEF Inv, Decided

\* An event goes from its offer to the channel, to a worker, to its end, and
\* nowhere else.
LEMMA FateSteps ==
  ASSUME Inv, [Next]_vars, NEW r \in Redirects, fate'[r] # fate[r]
  PROVE  \/ /\ fate[r] = "none" /\ fate'[r] \in {"refused", "queued"}
            /\ req[r] # "done" /\ req'[r] = "done"
            /\ fate'[r] = "queued" => EnqueueSend(r)
         \/ /\ fate[r] = "queued" /\ fate'[r] = "taken"
            /\ \E w \in Workers : Take(w) /\ worker'[w].event = r
         \/ fate[r] = "taken" /\ fate'[r] = "saved" /\ rows'[r] = 1
         \/ /\ fate[r] = "taken" /\ fate'[r] = "failed"
            /\ \E w \in Workers : worker[w] = Trying(r, MaxRetries)
         \/ fate[r] \in {"queued", "taken"} /\ fate'[r] = "gone" /\ Crash
<1> USE DEF Inv, TypeOK
<1>1. ASSUME NEW q \in Redirects, Handle(q)
      PROVE  /\ fate[r] = "none" /\ fate'[r] \in {"refused", "queued"}
             /\ req[r] # "done" /\ req'[r] = "done"
             /\ fate'[r] = "queued" => EnqueueSend(r)
  <2>1. fate[q] = "none"
    BY <1>1, FateFacts DEF Handle, LookupFound, LookupFailed, EnqueueSend, EnqueueRefused,
                           EnqueuePanic
  <2> QED
    BY <1>1, <2>1 DEF Handle, LookupFound, LookupFailed, EnqueueSend, EnqueueRefused,
                      EnqueuePanic, Respond
<1>2. ASSUME NEW w \in Workers, Take(w)
      PROVE  /\ fate[r] = "queued" /\ fate'[r] = "taken"
             /\ worker'[w].event = r
  BY <1>2, FateFacts, StateFacts DEF Take
<1>3. ASSUME NEW w \in Workers, Save(w)
      PROVE  fate[r] = "taken" /\ fate'[r] = "saved" /\ rows'[r] = 1
  <2>1. r = worker[w].event /\ fate[r] = "taken"
    BY <1>3, FateFacts DEF Save
  <2>2. rows'[r] = 1
    BY <1>3, <2>1, InsertRowFacts DEF Save, CountedOnce
  <2> QED
    BY <1>3, <2>1, <2>2 DEF Save
<1>4. ASSUME NEW w \in Workers, Fail(w)
      PROVE  /\ fate[r] = "taken" /\ fate'[r] = "failed"
             /\ worker[w] = Trying(r, MaxRetries)
  <2>1. r = worker[w].event /\ fate[r] = "taken"
    BY <1>4, FateFacts DEF Fail
  <2> QED
    BY <1>4, <2>1, TryingFacts DEF Fail
<1>5. ASSUME Crash
      PROVE  \/ /\ fate[r] = "none" /\ fate'[r] = "refused"
                /\ req[r] # "done" /\ req'[r] = "done"
             \/ fate[r] \in {"queued", "taken"} /\ fate'[r] = "gone"
  <2>1. \/ InHandler(r) /\ fate'[r] = "refused" /\ req'[r] = "done"
        \/ fate[r] \in {"queued", "taken"} /\ fate'[r] = "gone"
        \/ fate'[r] = fate[r]
    BY <1>5 DEF Crash, EndHandlers
  <2> QED
    BY <1>5, <2>1, FateFacts DEF Crash, InHandler
<1>6. ASSUME ExitProcess
      PROVE  /\ fate[r] = "none" /\ fate'[r] = "refused"
             /\ req[r] # "done" /\ req'[r] = "done"
  BY <1>6, FateFacts DEF ExitProcess, InHandler, EndHandlers
<1>7. ASSUME UNCHANGED fate
      PROVE  FALSE
  BY <1>7
<1> QED
  BY <1>1, <1>2, <1>3, <1>4, <1>5, <1>6, <1>7
     DEF Next, vars, Arrive, Work, Exit, Wake, LateCommit, DeleteURL, Signal, ShutDown,
         Drained, DrainTimeout, PoolStopped, CloseRedis, CloseDB, KeepHandlers

\* An answered redirect stays answered.
LEMMA DoneStays ==
  ASSUME Inv, [Next]_vars, NEW r \in Redirects, req[r] = "done"
  PROVE  req'[r] = "done"
  BY DEF Inv, TypeOK, Next, vars, Arrive, Handle, LookupFound, LookupFailed, EnqueueSend,
         EnqueueRefused, EnqueuePanic, Respond, Work, Take, Exit, Save, Fail, Wake,
         LateCommit, DeleteURL, Signal, ShutDown, Drained, DrainTimeout, PoolStopped,
         CloseRedis, CloseDB, ExitProcess, KeepHandlers, Crash, EndHandlers

LEMMA NextDecided == Inv /\ [Next]_vars => Decided'
<1> SUFFICES ASSUME Inv, [Next]_vars, NEW r \in Redirects
             PROVE  fate'[r] = "none" <=> req'[r] # "done"
  BY DEF Decided
<1>1. CASE fate'[r] # fate[r]
  <2>1. fate[r] = "none" <=> req[r] # "done"
    BY DEF Inv, Decided
  <2> QED
    BY <1>1, <2>1, FateSteps, DoneStays
<1>2. CASE fate'[r] = fate[r]
  <2> USE DEF Inv, TypeOK, Decided
  <2> SUFFICES ASSUME req'[r] # req[r]
               PROVE  req[r] # "done" /\ req'[r] # "done"
    BY <1>2
  <2>1. ASSUME NEW q \in Redirects, Handle(q)
        PROVE  req[r] # "done" /\ req'[r] # "done"
    BY <1>2, <2>1 DEF Handle, LookupFound, LookupFailed, EnqueueSend, EnqueueRefused,
                      EnqueuePanic, Respond
  <2>2. ASSUME NEW q \in Redirects, Arrive(q)
        PROVE  req[r] # "done" /\ req'[r] # "done"
    BY <2>2 DEF Arrive
  <2>3. ASSUME Crash \/ ExitProcess
        PROVE  FALSE
    BY <1>2, <2>3 DEF Crash, ExitProcess, EndHandlers, InHandler
  <2>4. ASSUME UNCHANGED req
        PROVE  FALSE
    BY <2>4
  <2> QED
    BY <2>1, <2>2, <2>3, <2>4
       DEF Next, vars, Work, Take, Exit, Save, Fail, Wake, LateCommit, DeleteURL, Signal,
           ShutDown, Drained, DrainTimeout, PoolStopped, CloseRedis, CloseDB, KeepHandlers
<1> QED
  BY <1>1, <1>2

\* Sends, receives and the end of the process are the steps of the channel.
LEMMA QueueSteps ==
  ASSUME Inv, [Next]_vars, queue' # queue
  PROVE  \/ \E r \in Redirects : EnqueueSend(r)
         \/ \E w \in Workers : Take(w)
         \/ Crash
  BY DEF Next, vars, Arrive, Handle, LookupFound, LookupFailed, EnqueueRefused,
         EnqueuePanic, Work, Exit, Save, Fail, Wake, LateCommit, DeleteURL, Signal,
         ShutDown, Drained, DrainTimeout, PoolStopped, CloseRedis, CloseDB, ExitProcess,
         Goto

LEMMA NextQueued == Inv /\ [Next]_vars => Queued'
<1> SUFFICES ASSUME Inv, [Next]_vars PROVE Queued'
  OBVIOUS
<1>1. ASSUME NEW r \in Redirects, EnqueueSend(r)
      PROVE  Queued'
  <2> USE DEF Inv, TypeOK
  <2>1. fate[r] = "none" /\ \A i \in 1..Len(queue) : queue[i] # r
    BY <1>1, FateFacts DEF EnqueueSend, Queued
  <2>2. /\ Len(queue') = Len(queue) + 1 /\ Len(queue) \in Nat
        /\ \A i \in 1..Len(queue) : queue'[i] = queue[i] /\ queue[i] \in Redirects
        /\ queue'[Len(queue) + 1] = r
    BY <1>1, AppendFacts DEF EnqueueSend
  <2>3. fate' = [fate EXCEPT ![r] = "queued"]
    BY <1>1 DEF EnqueueSend, Respond
  <2>4. \A i \in 1..Len(queue') : i \in 1..Len(queue) \/ i = Len(queue) + 1
    BY <2>2
  <2>5. \A i \in 1..Len(queue') : fate'[queue'[i]] = "queued"
    BY <2>1, <2>2, <2>3, <2>4 DEF Queued
  <2>6. \A i, j \in 1..Len(queue') : queue'[i] = queue'[j] => i = j
    BY <2>1, <2>2, <2>4 DEF Queued
  <2>7. ASSUME NEW q \in Redirects, fate'[q] = "queued"
        PROVE  \E i \in 1..Len(queue') : queue'[i] = q
    <3>1. CASE q = r
      <4>1. Len(queue) + 1 \in 1..Len(queue')
        BY <2>2
      <4> QED
        BY <2>2, <3>1, <4>1
    <3>2. CASE q # r
      <4>1. PICK i \in 1..Len(queue) : queue[i] = q
        BY <2>3, <2>7, <3>2 DEF Queued
      <4> QED
        BY <2>2, <4>1
    <3> QED
      BY <3>1, <3>2
  <2> QED
    BY <2>5, <2>6, <2>7 DEF Queued
<1>2. ASSUME NEW w \in Workers, Take(w)
      PROVE  Queued'
  <2> USE DEF Inv, TypeOK
  <2>1. /\ queue' \in Seq(Redirects) /\ Len(queue') = Len(queue) - 1 /\ Len(queue) \in Nat
        /\ \A i \in 1..Len(queue') : /\ queue'[i] = queue[i + 1]
                                      /\ i + 1 \in 1..Len(queue)
        /\ Head(queue) = queue[1] /\ 1 \in 1..Len(queue)
        /\ \A i \in 1..Len(queue) : queue[i] \in Redirects
    BY <1>2, TailFacts DEF Take
  <2>2. fate' = [fate EXCEPT ![queue[1]] = "taken"]
    BY <1>2, <2>1 DEF Take
  <2>3. ASSUME NEW i \in 1..Len(queue')
        PROVE  fate'[queue'[i]] = "queued"
    <3>1. i + 1 \in 1..Len(queue) /\ queue'[i] = queue[i + 1] /\ i + 1 # 1
      BY <2>1
    <3>2. /\ queue[i + 1] # queue[1] /\ queue[i + 1] \in Redirects
          /\ fate[queue[i + 1]] = "queued"
      BY <2>1, <3>1 DEF Queued
    <3> QED
      BY <2>2, <3>1, <3>2
  <2>4. ASSUME NEW i \in 1..Len(queue'), NEW j \in 1..Len(queue'), queue'[i] = queue'[j]
        PROVE  i = j
    <3>1. /\ i + 1 \in 1..Len(queue) /\ j + 1 \in 1..Len(queue)
          /\ queue[i + 1] = queue[j + 1]
      BY <2>1, <2>4
    <3>2. i + 1 = j + 1
      BY <3>1 DEF Queued
    <3> QED
      BY <2>1, <3>2
  <2>5. ASSUME NEW q \in Redirects, fate'[q] = "queued"
        PROVE  \E i \in 1..Len(queue') : queue'[i] = q
    <3>1. q # queue[1] /\ fate[q] = "queued"
      BY <2>1, <2>2, <2>5
    <3>2. PICK i \in 1..Len(queue) : queue[i] = q
      BY <3>1 DEF Queued
    <3>3. i # 1 /\ i - 1 \in 1..Len(queue') /\ (i - 1) + 1 = i
      BY <2>1, <3>1, <3>2
    <3>4. queue'[i - 1] = queue[(i - 1) + 1]
      BY <2>1, <3>3
    <3> QED
      BY <3>2, <3>3, <3>4
  <2> QED
    BY <2>3, <2>4, <2>5 DEF Queued
<1>3. ASSUME Crash
      PROVE  Queued'
  <2>1. Len(queue') = 0 /\ \A r \in Redirects : fate'[r] # "queued"
    BY <1>3 DEF Crash, Inv, TypeOK
  <2> QED
    BY <2>1 DEF Queued
<1>4. ASSUME UNCHANGED queue, ~(\E r \in Redirects : EnqueueSend(r)),
             ~(\E w \in Workers : Take(w)), ~Crash
      PROVE  Queued'
  <2>1. ASSUME NEW r \in Redirects, fate'[r] # fate[r]
        PROVE  fate[r] # "queued" /\ fate'[r] # "queued"
    BY <1>4, <2>1, FateSteps
  <2>2. \A i \in 1..Len(queue) : queue[i] \in Redirects
    BY DEF Inv, TypeOK
  <2> QED
    BY <1>4, <2>1, <2>2 DEF Inv, Queued
<1> QED
  BY <1>1, <1>2, <1>3, <1>4, QueueSteps

\* A step of a worker changes no other worker.
LEMMA WorkSteps ==
  ASSUME Inv, NEW w \in Workers, Work(w)
  PROVE  \E new \in WorkerStates : worker' = [worker EXCEPT ![w] = new]
<1>1. worker' \in [Workers -> WorkerStates]
  BY WorkTypeOK DEF Inv, TypeOK
<1>2. \E new : worker' = [worker EXCEPT ![w] = new]
  BY DEF Work, Take, Exit, Save, Fail, Wake
<1> QED
  BY <1>1, <1>2 DEF Inv, TypeOK

\* A receive is the only step that gives a worker an event that it did not have.
LEMMA EventSteps ==
  ASSUME Inv, [Next]_vars, NEW w \in Workers,
         worker'[w].event # worker[w].event, worker'[w].event # None
  PROVE  /\ Take(w) /\ queue # <<>>
         /\ worker'[w].event = Head(queue) /\ worker' = [worker EXCEPT ![w] = worker'[w]]
         /\ fate' = [fate EXCEPT ![Head(queue)] = "taken"]
<1>1. ASSUME NEW v \in Workers, Take(v)
      PROVE  /\ v = w /\ worker'[w].event = Head(queue)
             /\ worker' = [worker EXCEPT ![w] = worker'[w]]
  <2>1. PICK new \in WorkerStates : worker' = [worker EXCEPT ![v] = new]
    BY <1>1, WorkSteps DEF Work
  <2>2. v = w
    BY <2>1 DEF Inv, TypeOK
  <2>3. worker'[w] = Trying(Head(queue), 1)
    BY <1>1, <2>2 DEF Take, Inv, TypeOK
  <2> QED
    BY <2>1, <2>2, <2>3, StateFacts DEF Inv, TypeOK
<1>2. ASSUME NEW v \in Workers, Exit(v) \/ Save(v) \/ Fail(v) \/ Wake(v)
      PROVE  FALSE
  <2>1. PICK new \in WorkerStates : worker' = [worker EXCEPT ![v] = new]
    BY <1>2, WorkSteps DEF Work
  <2>2. v = w
    BY <2>1 DEF Inv, TypeOK
  <2>3. worker'[w].event \in {None, worker[w].event}
    BY <1>2, <2>2, StateFacts DEF Exit, Save, Fail, Wake, Inv, TypeOK
  <2> QED
    BY <2>3
<1>3. ASSUME Crash
      PROVE  FALSE
  BY <1>3, StateFacts DEF Crash
<1>4. ASSUME UNCHANGED worker
      PROVE  FALSE
  BY <1>4
<1> QED
  BY <1>1, <1>2, <1>3, <1>4
     DEF Next, vars, Arrive, Handle, LookupFound, LookupFailed, EnqueueSend, EnqueueRefused,
         EnqueuePanic, Respond, Work, Take, LateCommit, DeleteURL, Signal, ShutDown,
         Drained, DrainTimeout, PoolStopped, CloseRedis, CloseDB, ExitProcess, Goto

\* A worker lets go of its event when the fate of the event is settled.
LEMMA ReleaseSteps ==
  ASSUME Inv, [Next]_vars, NEW w \in Workers,
         worker'[w].event # worker[w].event, worker[w].event # None
  PROVE  fate'[worker[w].event] # "taken"
<1>0. worker[w].event \in Redirects /\ fate[worker[w].event] = "taken"
  BY EventFacts DEF Inv, Taken
<1>1. ASSUME NEW v \in Workers, Work(v)
      PROVE  fate'[worker[w].event] # "taken"
  <2>1. v = w
    BY <1>1, WorkSteps DEF Inv, TypeOK
  <2>2. CASE Take(w) \/ Exit(w)
    BY <2>2, StateFacts DEF Take, Exit
  <2>3. CASE Wake(w)
    BY <2>3, StateFacts DEF Wake, Inv, TypeOK
  <2>4. CASE Save(w)
    BY <1>0, <2>4 DEF Save, Inv, TypeOK
  <2>5. CASE Fail(w)
    BY <1>0, <2>5, StateFacts DEF Fail, Inv, TypeOK
  <2> QED
    BY <1>1, <2>1, <2>2, <2>3, <2>4, <2>5 DEF Work
<1>2. ASSUME Crash
      PROVE  fate'[worker[w].event] # "taken"
  BY <1>0, <1>2 DEF Crash
<1>3. ASSUME UNCHANGED worker
      PROVE  FALSE
  BY <1>3
<1> QED
  BY <1>1, <1>2, <1>3
     DEF Next, vars, Arrive, Handle, LookupFound, LookupFailed, EnqueueSend, EnqueueRefused,
         EnqueuePanic, Respond, LateCommit, DeleteURL, Signal, ShutDown, Drained,
         DrainTimeout, PoolStopped, CloseRedis, CloseDB, ExitProcess, Goto

\* When the fate of an event is settled no worker keeps it.
LEMMA SettleSteps ==
  ASSUME Inv, [Next]_vars, NEW r \in Redirects, fate[r] = "taken", fate'[r] # "taken",
         NEW w \in Workers
  PROVE  worker'[w].event # r
<1>0. /\ r # None
      /\ worker'[w].event = r => worker[w].event = r
  <2>1. queue # <<>> => Head(queue) # r
    BY FateFacts
  <2> QED
    BY <2>1, EventSteps
<1> SUFFICES ASSUME worker[w].event = r
             PROVE  worker'[w].event # r
  BY <1>0
<1>1. ASSUME NEW v \in Workers, Save(v) \/ Fail(v)
      PROVE  worker'[w].event # r
  <2>1. worker[v].event = r
    BY <1>1 DEF Save, Fail, Inv, TypeOK
  <2>2. v = w
    BY <1>0, <2>1 DEF Inv, Taken
  <2>3. worker'[w] = Idle
    BY <1>1, <2>1, <2>2 DEF Save, Fail, Inv, TypeOK
  <2> QED
    BY <1>0, <2>3, StateFacts
<1>2. ASSUME Crash
      PROVE  worker'[w].event # r
  BY <1>0, <1>2, StateFacts DEF Crash
<1>3. ASSUME NEW v \in Workers, Take(v)
      PROVE  FALSE
  <2>1. queue # <<>>
    BY <1>3 DEF Take
  <2> QED
    BY <1>3, <2>1, FateFacts DEF Take, Inv, TypeOK
<1>4. ASSUME NEW q \in Redirects, Handle(q)
      PROVE  FALSE
  BY <1>4, FateFacts
     DEF Handle, LookupFound, LookupFailed, EnqueueSend, EnqueueRefused, EnqueuePanic,
         Respond, Inv, TypeOK
<1>5. ASSUME ExitProcess
      PROVE  FALSE
  BY <1>5, FateFacts DEF ExitProcess, InHandler, Inv, TypeOK
<1>6. ASSUME UNCHANGED fate
      PROVE  FALSE
  BY <1>6
<1> QED
  BY <1>1, <1>2, <1>3, <1>4, <1>5, <1>6
     DEF Next, vars, Arrive, Work, Exit, Wake, LateCommit, DeleteURL, Signal, ShutDown,
         Drained, DrainTimeout, PoolStopped, CloseRedis, CloseDB, KeepHandlers

LEMMA NextTaken == Inv /\ [Next]_vars => Taken'
<1> SUFFICES ASSUME Inv, [Next]_vars PROVE Taken'
  OBVIOUS
<1>1. ASSUME NEW w \in Workers, worker'[w].event # None
      PROVE  fate'[worker'[w].event] = "taken"
  <2>1. CASE worker'[w].event = worker[w].event
    <3>1. worker[w].event \in Redirects /\ fate[worker[w].event] = "taken"
      BY <1>1, <2>1, EventFacts DEF Inv, Taken
    <3> QED
      BY <2>1, <3>1, SettleSteps
  <2>2. CASE worker'[w].event # worker[w].event
    BY <1>1, <2>2, EventSteps, FateFacts DEF Inv, TypeOK
  <2> QED
    BY <2>1, <2>2
<1>2. ASSUME NEW v \in Workers, NEW w \in Workers,
             worker'[v].event = worker'[w].event, worker'[v].event # None
      PROVE  v = w
  <2>1. CASE worker'[v].event = worker[v].event /\ worker'[w].event = worker[w].event
    BY <1>2, <2>1 DEF Inv, Taken
  <2>2. ASSUME NEW x \in Workers, NEW y \in Workers, x # y,
               worker'[x].event = worker'[y].event, worker'[x].event # None,
               worker'[x].event # worker[x].event
        PROVE  FALSE
    <3>1. /\ queue # <<>> /\ worker'[x].event = Head(queue)
          /\ worker' = [worker EXCEPT ![x] = worker'[x]]
      BY <2>2, EventSteps
    <3>2. worker[y].event = Head(queue)
      BY <2>2, <3>1 DEF Inv, TypeOK
    <3>3. fate[Head(queue)] = "taken"
      BY <2>2, <3>1, <3>2 DEF Inv, Taken
    <3> QED
      BY <3>1, <3>3, FateFacts
  <2> QED
    BY <1>2, <2>1, <2>2
<1>3. ASSUME NEW r \in Redirects, fate'[r] = "taken"
      PROVE  \E w \in Workers : worker'[w].event = r
  <2>1. CASE fate[r] = "taken"
    <3>1. PICK w \in Workers : worker[w].event = r
      BY <2>1 DEF Inv, Taken
    <3> QED
      BY <1>3, <3>1, ReleaseSteps
  <2>2. CASE fate[r] # "taken"
    BY <1>3, <2>2, FateSteps
  <2> QED
    BY <2>1, <2>2
<1> QED
  BY <1>1, <1>2, <1>3 DEF Taken

\* The statements that a step leaves in flight are those of workers.
LEMMA NextLateWasTaken == Inv /\ [Next]_vars => LateWasTaken'
<1> SUFFICES ASSUME Inv, [Next]_vars, NEW s \in late'
             PROVE  fate'[s[1]] \notin {"none", "refused", "queued"}
  BY DEF LateWasTaken
<1>1. s[1] \in Redirects /\ fate[s[1]] \notin {"none", "refused", "queued"}
  <2>1. CASE s \in late
    BY <2>1 DEF Inv, TypeOK, LateWasTaken
  <2>2. ASSUME NEW w \in Workers, worker[w].state = "trying",
               s = <<worker[w].event, worker[w].attempt>>
        PROVE  s[1] \in Redirects /\ fate[s[1]] = "taken"
    BY <2>2, FateFacts
  <2>3. s \in late \/ \E w \in Workers : /\ worker[w].state = "trying"
                                       /\ s = <<worker[w].event, worker[w].attempt>>
    BY DEF Next, vars, Arrive, Handle, LookupFound, LookupFailed, EnqueueSend,
           EnqueueRefused, EnqueuePanic, Respond, Work, Take, Exit, Save, Fail, Wake,
           LateCommit, DeleteURL, Signal, ShutDown, Drained, DrainTimeout, PoolStopped,
           CloseRedis, CloseDB, ExitProcess, Goto, Crash
  <2> QED
    BY <2>1, <2>2, <2>3
<1> QED
  BY <1>1, FateSteps

LEMMA NextCountedOnce == Inv /\ [Next]_vars => CountedOnce'
<1> SUFFICES ASSUME Inv, [Next]_vars, NEW r \in Redirects
             PROVE  CountedOnce!(r)'
  BY DEF CountedOnce
<1>1. /\ rows[r] \in {0, 1}
      /\ fate[r] = "saved" /\ UrlOf[r] \in urls => rows[r] = 1
      /\ rows[r] > 0 => fate[r] \notin {"none", "refused", "queued"}
  BY DEF Inv, TypeOK, CountedOnce
<1>2. fate[r] \notin {"none", "refused", "queued"} =>
        fate'[r] \notin {"none", "refused", "queued"}
  BY FateSteps
<1>3. CASE rows'[r] = rows[r]
  <2>1. urls' \subseteq urls
    BY DEF Next, vars, Arrive, Handle, LookupFound, LookupFailed, EnqueueSend,
           EnqueueRefused, EnqueuePanic, Respond, Work, Take, Exit, Save, Fail, Wake,
           LateCommit, DeleteURL, Signal, ShutDown, Drained, DrainTimeout, PoolStopped,
           CloseRedis, CloseDB, ExitProcess, Goto, Crash
  <2>2. fate'[r] = "saved" => fate[r] = "saved" \/ rows'[r] = 1
    BY FateSteps
  <2> QED
    BY <1>1, <1>2, <1>3, <2>1, <2>2
<1>4. ASSUME NEW w \in Workers, Save(w), rows'[r] # rows[r]
      PROVE  CountedOnce!(r)'
  <2>1. r = worker[w].event /\ fate[r] = "taken"
    BY <1>4, FateFacts, InsertRowFacts DEF Save, Inv
  <2>2. rows'[r] = 1
    BY <1>1, <1>4, <2>1, InsertRowFacts DEF Save, Inv
  <2> QED
    BY <1>2, <2>1, <2>2
<1>5. ASSUME NEW s \in late, LateCommit(s), rows'[r] # rows[r]
      PROVE  CountedOnce!(r)'
  <2>1. s[1] \in Redirects /\ fate[s[1]] \notin {"none", "refused", "queued"}
    BY DEF Inv, TypeOK, LateWasTaken
  <2>2. InsertRow(s[1])
    BY <1>5 DEF LateCommit
  <2>3. r = s[1]
    BY <1>5, <2>1, <2>2, InsertRowFacts DEF Inv
  <2>4. rows'[r] = 1
    BY <1>1, <1>5, <2>1, <2>2, <2>3, InsertRowFacts DEF Inv
  <2> QED
    BY <1>2, <2>1, <2>3, <2>4
<1>6. ASSUME NEW u \in Urls, DeleteURL(u), rows'[r] # rows[r]
      PROVE  CountedOnce!(r)'
  BY <1>6 DEF DeleteURL
<1>7. ASSUME UNCHANGED rows
      PROVE  rows'[r] = rows[r]
  BY <1>7
<1> QED
  BY <1>3, <1>4, <1>5, <1>6, <1>7
     DEF Next, vars, Arrive, Handle, LookupFound, LookupFailed, EnqueueSend, EnqueueRefused,
         EnqueuePanic, Respond, Work, Take, Exit, Fail, Wake, Signal, ShutDown, Drained,
         DrainTimeout, PoolStopped, CloseRedis, CloseDB, ExitProcess, Goto, Crash

-----------------------------------------------------------------------------
(* The shutdown.                                                           *)

\* The channel is never opened again.
LEMMA ClosedStays ==
  ASSUME [Next]_vars, Closed
  PROVE  Closed'
  BY DEF Closed, Next, vars, Arrive, Handle, LookupFound, LookupFailed, EnqueueSend,
         EnqueueRefused, EnqueuePanic, Respond, Work, Take, Exit, Save, Fail, Wake,
         LateCommit, DeleteURL, Signal, ShutDown, Drained, DrainTimeout, PoolStopped,
         CloseRedis, CloseDB, ExitProcess, Goto, Crash

\* A worker that has left its loop does not come back; it leaves when the channel
\* is drained, or with the process.
LEMMA ExitSteps ==
  ASSUME Inv, [Next]_vars, NEW w \in Workers
  PROVE  /\ worker[w] = Exited => worker'[w] = Exited
         /\ worker'[w] = Exited /\ worker[w] # Exited =>
              \/ Closed /\ queue = <<>> /\ UNCHANGED queue
              \/ Crash
<1>1. ASSUME NEW v \in Workers, Take(v) \/ Save(v) \/ Fail(v) \/ Wake(v)
      PROVE  (worker[w] = Exited <=> worker'[w] = Exited)
  BY <1>1, StateFacts DEF Take, Save, Fail, Wake, Inv, TypeOK
<1>2. ASSUME NEW v \in Workers, Exit(v)
      PROVE  /\ worker[w] = Exited => worker'[w] = Exited
             /\ Closed /\ queue = <<>> /\ UNCHANGED queue
  BY <1>2, StateFacts DEF Exit, Inv, TypeOK
<1>3. ASSUME Crash
      PROVE  worker'[w] = Exited
  BY <1>3 DEF Crash
<1>4. ASSUME UNCHANGED worker
      PROVE  worker'[w] = worker[w]
  BY <1>4
<1> QED
  BY <1>1, <1>2, <1>3, <1>4
     DEF Next, vars, Arrive, Handle, LookupFound, LookupFailed, EnqueueSend, EnqueueRefused,
         EnqueuePanic, Respond, Work, LateCommit, DeleteURL, Signal, ShutDown, Drained,
         DrainTimeout, PoolStopped, CloseRedis, CloseDB, ExitProcess, Goto

LEMMA NextExitsWhenDrained == Inv /\ [Next]_vars => ExitsWhenDrained'
<1> SUFFICES ASSUME Inv, [Next]_vars, NEW w \in Workers, worker'[w] = Exited
             PROVE  Closed' /\ queue' = <<>>
  BY DEF ExitsWhenDrained
<1>1. CASE Crash
  BY <1>1 DEF Crash, Closed
<1>2. CASE ~Crash
  <2>1. Closed /\ queue = <<>>
    BY <1>2, ExitSteps DEF Inv, ExitsWhenDrained
  <2>2. queue' = queue
    BY <1>2, <2>1, QueueSteps DEF EnqueueSend, Take
  <2> QED
    BY <2>1, <2>2, ClosedStays
<1> QED
  BY <1>1, <1>2

LEMMA NextStopsAfterWorkers == Inv /\ [Next]_vars => StopsAfterWorkers'
<1> SUFFICES ASSUME Inv, [Next]_vars, PoolHasStopped', NEW w \in Workers
             PROVE  worker'[w] = Exited
  BY DEF StopsAfterWorkers
<1>1. PoolHasStopped \/ PoolStopped
  BY DEF PoolHasStopped, Next, vars, Arrive, Handle, LookupFound, LookupFailed, EnqueueSend,
         EnqueueRefused, EnqueuePanic, Respond, Work, Take, Exit, Save, Fail, Wake,
         LateCommit, DeleteURL, Signal, ShutDown, Drained, DrainTimeout,
         CloseRedis, CloseDB, ExitProcess, Goto, Crash
<1>2. worker[w] = Exited
  BY <1>1 DEF PoolStopped, Inv, StopsAfterWorkers
<1> QED
  BY <1>2, ExitSteps

LEMMA NextClosesAfterHandlers == Inv /\ [Next]_vars => ClosesAfterHandlers'
<1> SUFFICES ASSUME Inv, [Next]_vars, Closed', ~timedOut', phase' # "crashed",
                    NEW r \in Redirects
             PROVE  ~InHandler(r)'
  BY DEF ClosesAfterHandlers
<1>1. (Closed /\ ~timedOut /\ phase # "crashed") \/ Drained
  BY DEF Closed, Next, vars, Arrive, Handle, LookupFound, LookupFailed, EnqueueSend,
         EnqueueRefused, EnqueuePanic, Respond, Work, Take, Exit, Save, Fail, Wake,
         LateCommit, DeleteURL, Signal, ShutDown, DrainTimeout, PoolStopped,
         CloseRedis, CloseDB, ExitProcess, Goto, Crash
<1>2. \A q \in Redirects : ~InHandler(q)
  BY <1>1 DEF Drained, Inv, ClosesAfterHandlers
<1>3. ASSUME NEW q \in Redirects, Arrive(q)
      PROVE  FALSE
  BY <1>1, <1>3 DEF Arrive, Closed, Drained, Goto
<1>4. ASSUME NEW q \in Redirects, Handle(q)
      PROVE  FALSE
  BY <1>2, <1>4 DEF Handle, LookupFound, LookupFailed, EnqueueSend, EnqueueRefused,
                    EnqueuePanic, InHandler
<1> QED
  BY <1>2, <1>3, <1>4
     DEF InHandler, Next, vars, Work, Take, Exit, Save, Fail, Wake, LateCommit, DeleteURL,
         Signal, ShutDown, Drained, DrainTimeout, PoolStopped, CloseRedis, CloseDB,
         ExitProcess, KeepHandlers, EndHandlers, Crash

LEMMA NextGraceful == Inv /\ [Next]_vars => GracefulShutdownAbortsNothing'
<1> SUFFICES ASSUME Inv, [Next]_vars, ~timedOut', phase' # "crashed", NEW r \in Redirects
             PROVE  answer'[r] \notin {"panic", "lost"}
  BY DEF GracefulShutdownAbortsNothing
<1>1. ~timedOut /\ phase # "crashed"
  BY DEF Next, vars, Arrive, Handle, LookupFound, LookupFailed, EnqueueSend, EnqueueRefused,
         EnqueuePanic, Respond, Work, Take, Exit, Save, Fail, Wake, LateCommit, DeleteURL,
         Signal, ShutDown, Drained, DrainTimeout, PoolStopped, CloseRedis, CloseDB,
         ExitProcess, Goto, Crash
<1>2. answer[r] \notin {"panic", "lost"}
  BY <1>1 DEF Inv, GracefulShutdownAbortsNothing
<1>3. Closed => ~InHandler(r)
  BY <1>1 DEF Inv, ClosesAfterHandlers
<1>4. ASSUME NEW q \in Redirects, Handle(q)
      PROVE  answer'[r] \notin {"panic", "lost"}
  BY <1>2, <1>3, <1>4 DEF Handle, LookupFound, LookupFailed, EnqueueSend, EnqueueRefused,
                    EnqueuePanic, Respond, InHandler, Inv, TypeOK
<1>5. ASSUME ExitProcess
      PROVE  answer'[r] \notin {"panic", "lost"}
  BY <1>2, <1>3, <1>5 DEF ExitProcess, EndHandlers, Goto, Closed
<1>6. ASSUME Crash
      PROVE  FALSE
  BY <1>6 DEF Crash
<1> QED
  BY <1>2, <1>4, <1>5, <1>6
     DEF Next, vars, Arrive, Work, Take, Exit, Save, Fail, Wake, LateCommit, DeleteURL,
         Signal, ShutDown, Drained, DrainTimeout, PoolStopped, CloseRedis, CloseDB,
         KeepHandlers

LEMMA NextInv == Inv /\ [Next]_vars => Inv'
  BY NextTypeOK, NextDecided, NextQueued, NextTaken, NextLateWasTaken, NextCountedOnce,
     NextExitsWhenDrained, NextStopsAfterWorkers, NextClosesAfterHandlers, NextGraceful
     DEF Inv

LEMMA AlwaysInv == Spec => []Inv
  BY InitInv, NextInv, PTL DEF Spec

-----------------------------------------------------------------------------
(* The theorems.                                                           *)

\* TypeOK: every variable has its type, and the channel never holds more than
\* its capacity.
THEOREM TypeCorrect == Spec => []TypeOK
<1>1. Inv => TypeOK
  BY DEF Inv
<1> QED
  BY <1>1, AlwaysInv, PTL

LEMMA OneMember ==
  ASSUME NEW S, NEW x \in S, \A y \in S : y = x
  PROVE  Cardinality(S) = 1
<1>1. S = {x}
  OBVIOUS
<1> QED
  BY <1>1, FS_Singleton

LEMMA NoMember ==
  ASSUME NEW S, \A y \in S : FALSE
  PROVE  Cardinality(S) = 0
<1>1. S = {}
  OBVIOUS
<1> QED
  BY <1>1, FS_EmptySet

\* The slots and the workers that hold an event, counted.
LEMMA InvPlaces == Inv => OnePlaceAtATime
<1> SUFFICES ASSUME Inv, NEW r \in Redirects
             PROVE  /\ Cardinality(Positions(r)) = IF fate[r] = "queued" THEN 1 ELSE 0
                    /\ Cardinality(Holders(r)) = IF fate[r] = "taken" THEN 1 ELSE 0
  BY DEF OnePlaceAtATime
<1>1. ASSUME fate[r] = "queued"
      PROVE  Cardinality(Positions(r)) = 1
  <2>1. PICK i \in 1..Len(queue) : queue[i] = r
    BY <1>1 DEF Inv, Queued
  <2>2. i \in Positions(r) /\ \A j \in Positions(r) : j = i
    BY <2>1 DEF Positions, Inv, Queued
  <2> QED
    BY <2>2, OneMember
<1>2. ASSUME fate[r] # "queued"
      PROVE  Cardinality(Positions(r)) = 0
  <2>1. \A j \in Positions(r) : FALSE
    BY <1>2 DEF Positions, Inv, Queued
  <2> QED
    BY <2>1, NoMember
<1>3. ASSUME fate[r] = "taken"
      PROVE  Cardinality(Holders(r)) = 1
  <2>1. PICK w \in Workers : worker[w].event = r
    BY <1>3 DEF Inv, Taken
  <2>2. w \in Holders(r) /\ \A v \in Holders(r) : v = w
    BY <2>1 DEF Holders, Inv, Taken
  <2> QED
    BY <2>2, OneMember
<1>4. ASSUME fate[r] # "taken"
      PROVE  Cardinality(Holders(r)) = 0
  <2>1. \A v \in Holders(r) : FALSE
    BY <1>4 DEF Holders, Inv, Taken
  <2> QED
    BY <2>1, NoMember
<1> QED
  BY <1>1, <1>2, <1>3, <1>4

\* OnePlaceAtATime: between the send of Enqueue and the end of process an event is
\* in one slot of the channel or with one worker, never in both and never in none.
THEOREM OnePlaceAtATimeHolds == Spec => []OnePlaceAtATime
  BY InvPlaces, AlwaysInv, PTL

\* CountedOnce: retries of process and statements that commit after their
\* timeout leave one row for an event key, and only for an event a worker had.
THEOREM CountedOnceHolds == Spec => []CountedOnce
<1>1. Inv => CountedOnce
  BY DEF Inv
<1> QED
  BY <1>1, AlwaysInv, PTL

\* All workers have left their loops, and one at least saw the channel empty.
LEMMA InvDrained == Inv => DrainedBeforeClose
<1> SUFFICES ASSUME Inv, PoolHasStopped
             PROVE  /\ \A r \in Redirects : fate[r] \notin {"queued", "taken"}
                    /\ \A w \in Workers : worker[w] = Exited
  BY DEF DrainedBeforeClose, PoolHasStopped
<1>1. \A w \in Workers : worker[w] = Exited
  BY DEF Inv, StopsAfterWorkers
<1>2. Len(queue) = 0
  BY <1>1, PoolAssumption DEF Inv, ExitsWhenDrained
<1>3. \A r \in Redirects : fate[r] # "queued"
  BY <1>2 DEF Inv, Queued
<1>4. \A r \in Redirects : fate[r] # "taken"
  BY <1>1, StateFacts DEF Inv, Taken
<1> QED
  BY <1>1, <1>3, <1>4

\* DrainedBeforeClose: when main goes on to close Redis and the database, the
\* channel is empty and every worker has left its loop.
THEOREM DrainedBeforeCloseHolds == Spec => []DrainedBeforeClose
  BY InvDrained, AlwaysInv, PTL

\* GracefulShutdownAbortsNothing: the channel is closed after server.Shutdown has
\* waited for the handlers, so that none sends on the closed channel.
THEOREM GracefulShutdownAbortsNothingHolds == Spec => []GracefulShutdownAbortsNothing
<1>1. Inv => GracefulShutdownAbortsNothing
  BY DEF Inv
<1> QED
  BY <1>1, AlwaysInv, PTL

\* DropsOnlyAfterRetries: process gives an event up only when its row is there or
\* its last attempt failed.
THEOREM DropsOnlyAfterRetriesHolds == Spec => DropsOnlyAfterRetries
<1>1. Inv /\ [Next]_vars =>
        \A r \in Redirects :
          fate[r] = "taken" /\ fate'[r] # "taken" =>
            \/ fate'[r] = "saved" /\ rows'[r] = 1
            \/ fate'[r] = "failed" /\ \E w \in Workers :
                 worker[w] = Trying(r, MaxRetries)
            \/ phase' = "crashed"
  BY FateSteps DEF Crash
<1> QED
  BY <1>1, AlwaysInv, PTL DEF Spec, DropsOnlyAfterRetries

-----------------------------------------------------------------------------
(* The refinement of ClickDelivery.                                        *)

\* How an event appears in the promise, whose variables change one at a time.
LEMMA PromiseFacts ==
  /\ \A r \in Redirects :
       /\ fate[r] = "none" => Offers[r] = "new"
       /\ fate[r] = "refused" => Offers[r] = "refused"
       /\ fate[r] \notin {"none", "refused"} => Offers[r] = "taken"
  /\ \A r \in Redirects :
       /\ UrlOf[r] \notin urls => Stats[r] = "erased"
       /\ UrlOf[r] \in urls /\ rows[r] > 0 => Stats[r] = "counted"
       /\ UrlOf[r] \in urls /\ ~(rows[r] > 0) => Stats[r] = "absent"
  BY DEF Offers, Stats

LEMMA OffersUnchanged ==
  ASSUME Inv, [Next]_vars,
         \A r \in Redirects : fate'[r] # fate[r] => fate[r] # "none"
  PROVE  Offers' = Offers
<1>1. \A r \in Redirects : Offers'[r] = Offers[r]
  <2> SUFFICES ASSUME NEW r \in Redirects, fate'[r] # fate[r]
               PROVE  Offers'[r] = Offers[r]
    BY DEF Offers
  <2>1. /\ fate[r] \notin {"none", "refused"}
        /\ fate'[r] \notin {"none", "refused"}
    BY FateSteps
  <2> QED
    BY <2>1 DEF Offers
<1> QED
  BY <1>1 DEF Offers

LEMMA StatsUnchanged ==
  ASSUME UNCHANGED <<rows, urls>>
  PROVE  Stats' = Stats
  BY DEF Stats

\* An answer offers the event of its redirect.
LEMMA OfferStep ==
  ASSUME Inv, [Next]_vars, NEW q \in Redirects, Handle(q)
  PROVE  [Delivery!Next]_(Delivery!vars)
<1>0. Stats' = Stats
  BY StatsUnchanged
     DEF Handle, LookupFound, LookupFailed, EnqueueSend, EnqueueRefused, EnqueuePanic, Respond
<1>1. CASE fate' = fate
  <2>1. Offers' = Offers
    BY <1>1, OffersUnchanged
  <2> QED
    BY <1>0, <2>1 DEF Delivery!vars
<1>2. CASE fate' # fate
  <2>1. PICK f \in {"queued", "refused"} : fate' = [fate EXCEPT ![q] = f]
    BY <1>2 DEF Handle, LookupFound, LookupFailed, EnqueueSend, EnqueueRefused,
                EnqueuePanic, Respond
  <2>2. fate[q] = "none"
    BY FateFacts
       DEF Handle, LookupFound, LookupFailed, EnqueueSend, EnqueueRefused, EnqueuePanic
  <2>3. Offers' = [Offers EXCEPT ![q] = IF f = "queued" THEN "taken" ELSE "refused"]
    BY <2>1 DEF Offers, Inv, TypeOK
  <2>4. Offers[q] = "new"
    BY <2>2, PromiseFacts
  <2>5. Delivery!Offer(q)
    BY <1>0, <2>3, <2>4 DEF Delivery!Offer
  <2> QED
    BY <2>5 DEF Delivery!Next
<1> QED
  BY <1>1, <1>2

\* A row is inserted, or found: the event is counted, or was.
LEMMA CountStep ==
  ASSUME Inv, [Next]_vars, NEW e \in Redirects, InsertRow(e), UrlOf[e] \in urls,
         fate[e] \notin {"none", "refused"}, UNCHANGED urls,
         \A r \in Redirects : fate'[r] # fate[r] => fate[r] # "none"
  PROVE  [Delivery!Next]_(Delivery!vars)
<1>0. Offers' = Offers /\ Offers[e] = "taken"
  BY OffersUnchanged, PromiseFacts
<1>1. CASE rows[e] = 0
  <2>1. Stats[e] = "absent" /\ Stats' = [Stats EXCEPT ![e] = "counted"]
    <3>1. rows'[e] = 1 /\ \A r \in Redirects : r # e => rows'[r] = rows[r]
      BY <1>1, InsertRowFacts DEF Inv
    <3>2. Stats[e] = "absent" /\ Stats'[e] = "counted"
      BY <1>1, <3>1 DEF Stats
    <3>3. \A r \in Redirects : r # e => Stats'[r] = Stats[r]
      BY <3>1 DEF Stats
    <3> QED
      BY <3>2, <3>3 DEF Stats
  <2>2. Delivery!Count(e)
    BY <1>0, <2>1 DEF Delivery!Count
  <2> QED
    BY <2>2 DEF Delivery!Next
<1>2. CASE rows[e] # 0
  <2>1. rows' = rows
    BY <1>2 DEF InsertRow, Inv, TypeOK
  <2>2. Stats' = Stats
    BY <2>1, StatsUnchanged
  <2> QED
    BY <1>0, <2>2 DEF Delivery!vars
<1> QED
  BY <1>1, <1>2

\* The deletion of a URL erases its clicks.
LEMMA EraseStep ==
  ASSUME Inv, [Next]_vars, NEW u \in Urls, DeleteURL(u)
  PROVE  [Delivery!Next]_(Delivery!vars)
<1> DEFINE gone == {r \in Redirects : UrlOf[r] = u}
<1>1. Offers' = Offers
  BY OffersUnchanged DEF DeleteURL
<1>2. Stats' = [r \in Redirects |-> IF r \in gone THEN "erased" ELSE Stats[r]]
  BY DEF Stats, DeleteURL
<1>3. Delivery!Erase(gone)
  BY <1>1, <1>2 DEF Delivery!Erase
<1> QED
  BY <1>3 DEF Delivery!Next

\* With the process end the offers that were never made.
LEMMA StopStep ==
  ASSUME Inv, [Next]_vars, Crash \/ ExitProcess
  PROVE  [Delivery!Next]_(Delivery!vars)
<1>1. Stats' = Stats
  BY StatsUnchanged DEF Crash, ExitProcess, Goto
<1>2. Offers' \in [Redirects -> {"new", "taken", "refused"}]
  BY DEF Offers
<1>3. ASSUME NEW r \in Redirects, Offers'[r] # Offers[r]
      PROVE  Offers[r] = "new" /\ Offers'[r] = "refused"
  <2>1. fate'[r] # fate[r]
    BY <1>3 DEF Offers
  <2>2. fate'[r] # "queued"
    BY <2>1 DEF Crash, ExitProcess, InHandler, Inv, TypeOK
  <2>3. CASE fate[r] = "none" /\ fate'[r] = "refused"
    BY <2>3 DEF Offers
  <2>4. CASE /\ fate[r] \notin {"none", "refused"}
             /\ fate'[r] \notin {"none", "refused"}
    BY <1>3, <2>4 DEF Offers
  <2> QED
    BY <2>1, <2>2, <2>3, <2>4, FateSteps
<1>4. Delivery!Stop
  BY <1>1, <1>2, <1>3 DEF Delivery!Stop
<1> QED
  BY <1>4 DEF Delivery!Next

LEMMA PromiseStep == Inv /\ [Next]_vars => [Delivery!Next]_(Delivery!vars)
<1> SUFFICES ASSUME Inv, [Next]_vars PROVE [Delivery!Next]_(Delivery!vars)
  OBVIOUS
<1>1. ASSUME NEW w \in Workers, Save(w)
      PROVE  [Delivery!Next]_(Delivery!vars)
  <2>1. worker[w].event \in Redirects /\ fate[worker[w].event] = "taken"
    BY <1>1, FateFacts DEF Save
  <2>2. \A r \in Redirects : fate'[r] # fate[r] => fate[r] # "none"
    BY <1>1, <2>1 DEF Save, Inv, TypeOK
  <2> QED
    BY <1>1, <2>1, <2>2, CountStep DEF Save
<1>2. ASSUME NEW s \in late, LateCommit(s)
      PROVE  [Delivery!Next]_(Delivery!vars)
  <2>1. s[1] \in Redirects /\ fate[s[1]] \notin {"none", "refused"}
    BY DEF Inv, TypeOK, LateWasTaken
  <2>2. UNCHANGED <<fate, urls>>
    BY <1>2 DEF LateCommit
  <2>3. CASE UrlOf[s[1]] \in urls
    BY <1>2, <2>1, <2>2, <2>3, CountStep DEF LateCommit
  <2>4. CASE UrlOf[s[1]] \notin urls
    <3>1. Offers' = Offers /\ Stats' = Stats
      BY <1>2, <2>2, <2>4, OffersUnchanged, StatsUnchanged DEF LateCommit
    <3> QED
      BY <3>1 DEF Delivery!vars
  <2> QED
    BY <2>3, <2>4
<1>3. ASSUME NEW w \in Workers, Take(w) \/ Fail(w)
      PROVE  [Delivery!Next]_(Delivery!vars)
  <2>1. \A r \in Redirects : fate'[r] # fate[r] => fate[r] # "none"
    BY <1>3, FateFacts DEF Take, Fail, Inv, TypeOK
  <2>2. UNCHANGED <<rows, urls>>
    BY <1>3 DEF Take, Fail
  <2>3. Offers' = Offers /\ Stats' = Stats
    BY <2>1, <2>2, OffersUnchanged, StatsUnchanged
  <2> QED
    BY <2>3 DEF Delivery!vars
<1>4. ASSUME UNCHANGED <<fate, rows, urls>>
      PROVE  [Delivery!Next]_(Delivery!vars)
  <2>1. Offers' = Offers /\ Stats' = Stats
    BY <1>4, OffersUnchanged, StatsUnchanged
  <2> QED
    BY <2>1 DEF Delivery!vars
<1> QED
  BY <1>1, <1>2, <1>3, <1>4, OfferStep, EraseStep, StopStep
     DEF Next, vars, Arrive, Work, Exit, Wake, Signal, ShutDown, Drained, DrainTimeout,
         PoolStopped, CloseRedis, CloseDB, Goto, KeepHandlers

\* ImplementsClickDelivery: for any number of redirects, workers and attempts, each
\* step of the handlers, the workers, the database and main keeps the promise.
THEOREM ClickDeliveryRefined == Spec => ImplementsClickDelivery
<1>1. Init => Delivery!Init
  <2> SUFFICES ASSUME Init PROVE Delivery!Init
    OBVIOUS
  <2>1. Offers = [r \in Redirects |-> "new"] /\ Stats = [r \in Redirects |-> "absent"]
    BY DEF Init, Offers, Stats
  <2> QED
    BY <2>1 DEF Delivery!Init
<1> QED
  BY <1>1, PromiseStep, AlwaysInv, PTL DEF Spec, ImplementsClickDelivery, Delivery!Spec
=============================================================================
