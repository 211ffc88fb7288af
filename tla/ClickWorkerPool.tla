-------------------------- MODULE ClickWorkerPool --------------------------
(***************************************************************************)
(* Redirect's click events: URLHandler.Redirect, ClickWorkerPool with its  *)
(* buffered channel and its workers, the click_events table, and the       *)
(* shutdown sequence of main, which stops the HTTP server, closes the      *)
(* channel, waits for the workers and closes Redis and the database.       *)
(*                                                                         *)
(* An event is named by the redirect it records: event_key is unique per   *)
(* request.  A Create that times out may still be committed by the server: *)
(* its statement stays in `late`.                                          *)
(***************************************************************************)
EXTENDS Naturals, Sequences, FiniteSets

CONSTANTS
  Redirects,    \* GET /{short_code} requests, and the events they make
  Urls,         \* the URLs they ask for
  UrlOf,        \* UrlOf[r]: the URL of redirect r
  Workers,      \* worker goroutines (4 in main)
  QueueSize,    \* capacity of the channel (1000 in main)
  MaxRetries,   \* attempts of process (5 in main)
  None          \* a worker without an event

ASSUME UrlOfAssumption == UrlOf \in [Redirects -> Urls]
ASSUME SizeAssumption == QueueSize \in Nat \ {0} /\ MaxRetries \in Nat \ {0}
ASSUME PoolAssumption == Workers # {} /\ IsFiniteSet(Workers)
ASSUME NoneAssumption == None \notin Redirects

VARIABLES
  req,        \* req[r]: "idle", "lookup", "enqueue" or "done"
  answer,     \* answer[r]: what the client of r receives
  queue,      \* the buffered channel
  worker,     \* worker[w]: its state, its event and its attempt
  fate,       \* fate[r]: what became of the event of r
  rows,       \* rows[r]: rows of click_events with the event_key of r
  urls,       \* the URLs that exist in the database
  late,       \* timed out statements <<r, attempt>> that may still commit
  phase,      \* where main stands
  timedOut    \* server.Shutdown gave up on running handlers

vars == <<req, answer, queue, worker, fate, rows, urls, late, phase, timedOut>>

-----------------------------------------------------------------------------
Phases == {"serving", "draining", "waiting", "poolStopped", "redisClosed",
           "dbClosed", "exited", "crashed"}
Answers == {"none", "found", "notFound", "panic", "lost"}
Fates == {"none", "refused", "queued", "taken", "saved", "failed", "gone"}

Idle == [state |-> "idle", event |-> None, attempt |-> 0]
Exited == [state |-> "exited", event |-> None, attempt |-> 0]
Trying(r, n) == [state |-> "trying", event |-> r, attempt |-> n]
Sleeping(r, n) == [state |-> "sleeping", event |-> r, attempt |-> n]

\* close(p.queue) is the first thing clickWorker.Shutdown does.
Closed == phase \notin {"serving", "draining"}
Running == phase \notin {"exited", "crashed"}
InHandler(r) == req[r] \in {"lookup", "enqueue"}
DBOpen == phase \notin {"dbClosed", "exited", "crashed"}

\* Mutant: the event key is not unique.
InsertRowAlways(r) == rows' = [rows EXCEPT ![r] = @ + 1]

\* INSERT ... ON CONFLICT (event_key) DO NOTHING.
InsertRow(r) == rows' = [rows EXCEPT ![r] = IF @ = 0 THEN 1 ELSE @]

-----------------------------------------------------------------------------
Init ==
  /\ req = [r \in Redirects |-> "idle"]
  /\ answer = [r \in Redirects |-> "none"]
  /\ queue = <<>>
  /\ worker = [w \in Workers |-> Idle]
  /\ fate = [r \in Redirects |-> "none"]
  /\ rows = [r \in Redirects |-> 0]
  /\ urls = Urls
  /\ late = {}
  /\ phase = "serving"
  /\ timedOut = FALSE

-----------------------------------------------------------------------------
(* The handler Redirect.                                                   *)

\* Only a server that still listens accepts a request.
Arrive(r) ==
  /\ phase = "serving" /\ req[r] = "idle"
  /\ req' = [req EXCEPT ![r] = "lookup"]
  /\ UNCHANGED <<answer, queue, worker, fate, rows, urls, late, phase, timedOut>>

\* The handler answers; the event of r has the given fate.
Respond(r, a, f) ==
  /\ req' = [req EXCEPT ![r] = "done"]
  /\ answer' = [answer EXCEPT ![r] = a]
  /\ fate' = [fate EXCEPT ![r] = f]
  /\ UNCHANGED <<worker, rows, urls, late, phase, timedOut>>

\* GetOriginalURL finds the URL: in Redis, even when it was deleted since, or
\* in the database.
LookupFound(r) ==
  /\ req[r] = "lookup" /\ Running
  /\ phase \notin {"redisClosed", "dbClosed"} \/ (DBOpen /\ UrlOf[r] \in urls)
  /\ req' = [req EXCEPT ![r] = "enqueue"]
  /\ UNCHANGED <<answer, queue, worker, fate, rows, urls, late, phase, timedOut>>

\* Any error of GetOriginalURL is a 404: no such row, database error or closed.
LookupFailed(r) ==
  /\ req[r] = "lookup" /\ Running
  /\ Respond(r, "notFound", "refused")
  /\ UNCHANGED queue

\* Mutant: the capacity is off by one.
EnqueueSendOneMore(r) ==
  /\ req[r] = "enqueue" /\ ~ Closed
  /\ Len(queue) <= QueueSize
  /\ queue' = Append(queue, r)
  /\ Respond(r, "found", "queued")

\* Mutant: an event that was sent is reported as refused.
EnqueueSendMisreported(r) ==
  /\ req[r] = "enqueue" /\ ~ Closed
  /\ Len(queue) < QueueSize
  /\ queue' = Append(queue, r)
  /\ Respond(r, "found", "refused")

\* The send of Enqueue's select: the event joins the buffer.
EnqueueSend(r) ==
  /\ req[r] = "enqueue" /\ ~ Closed
  /\ Len(queue) < QueueSize
  /\ queue' = Append(queue, r)
  /\ Respond(r, "found", "queued")

\* The other branches: the buffer is full, or the client has gone and the
\* request context is done; and an event key that could not be generated.
\* The redirect is answered all the same.
EnqueueRefused(r) ==
  /\ req[r] = "enqueue" /\ Running
  /\ Respond(r, "found", "refused")
  /\ UNCHANGED queue

\* The send on the closed channel panics; net/http recovers the panic and
\* drops the connection.
EnqueuePanic(r) ==
  /\ req[r] = "enqueue" /\ Closed /\ Running
  /\ Respond(r, "panic", "refused")
  /\ UNCHANGED queue

-----------------------------------------------------------------------------
(* The workers: range over the channel, process with its retries.          *)

\* A receive of the range loop.
Take(w) ==
  /\ worker[w] = Idle /\ queue # <<>> /\ Running
  /\ worker' = [worker EXCEPT ![w] = Trying(Head(queue), 1)]
  /\ fate' = [fate EXCEPT ![Head(queue)] = "taken"]
  /\ queue' = Tail(queue)
  /\ UNCHANGED <<req, answer, rows, urls, late, phase, timedOut>>

\* Mutant: a worker stops as soon as the channel is closed.
ExitOnClose(w) ==
  /\ worker[w] = Idle /\ Closed /\ Running
  /\ worker' = [worker EXCEPT ![w] = Exited]
  /\ UNCHANGED <<req, answer, queue, fate, rows, urls, late, phase, timedOut>>

\* range ends when the channel is closed and drained; wg.Done.
Exit(w) ==
  /\ worker[w] = Idle /\ Closed /\ queue = <<>> /\ Running
  /\ worker' = [worker EXCEPT ![w] = Exited]
  /\ UNCHANGED <<req, answer, queue, fate, rows, urls, late, phase, timedOut>>

\* repository.Create succeeds: the foreign key needs the URL to exist.
Save(w) ==
  LET e == worker[w].event IN
  /\ worker[w].state = "trying" /\ DBOpen /\ UrlOf[e] \in urls
  /\ InsertRow(e)
  /\ fate' = [fate EXCEPT ![e] = "saved"]
  /\ worker' = [worker EXCEPT ![w] = Idle]
  /\ UNCHANGED <<req, answer, queue, urls, late, phase, timedOut>>

\* Mutant: the last attempt is not made.
FailOneShort(w) ==
  LET e == worker[w].event
      n == worker[w].attempt
  IN
  /\ worker[w].state = "trying" /\ Running
  /\ late' = late \cup {<<e, n>>}
  /\ IF n + 1 >= MaxRetries
       THEN /\ worker' = [worker EXCEPT ![w] = Idle]
            /\ fate' = [fate EXCEPT ![e] = "failed"]
       ELSE /\ worker' = [worker EXCEPT ![w] = Sleeping(e, n)]
            /\ fate' = fate
  /\ UNCHANGED <<req, answer, queue, rows, urls, phase, timedOut>>

\* Mutant: an event reported as failed is put back into the channel.
FailRequeues(w) ==
  LET e == worker[w].event
      n == worker[w].attempt
  IN
  /\ worker[w].state = "trying" /\ Running
  /\ late' = late \cup {<<e, n>>}
  /\ IF n = MaxRetries
       THEN /\ worker' = [worker EXCEPT ![w] = Idle]
            /\ fate' = [fate EXCEPT ![e] = "failed"]
            /\ queue' = IF Len(queue) < QueueSize THEN Append(queue, e) ELSE queue
       ELSE /\ worker' = [worker EXCEPT ![w] = Sleeping(e, n)]
            /\ UNCHANGED <<queue, fate>>
  /\ UNCHANGED <<req, answer, rows, urls, phase, timedOut>>

\* Mutant: retries without end.
FailForEver(w) ==
  LET e == worker[w].event
      n == worker[w].attempt
  IN
  /\ worker[w].state = "trying" /\ Running
  /\ late' = late \cup {<<e, n>>}
  /\ worker' = [worker EXCEPT ![w] = Sleeping(e, IF n = MaxRetries THEN n - 1 ELSE n)]
  /\ UNCHANGED <<req, answer, queue, fate, rows, urls, phase, timedOut>>

\* repository.Create fails or exceeds its five seconds; after the last attempt
\* the event is logged and dropped, before it the worker sleeps its backoff.
Fail(w) ==
  LET e == worker[w].event
      n == worker[w].attempt
  IN
  /\ worker[w].state = "trying" /\ Running
  /\ late' = late \cup {<<e, n>>}
  /\ IF n = MaxRetries
       THEN /\ worker' = [worker EXCEPT ![w] = Idle]
            /\ fate' = [fate EXCEPT ![e] = "failed"]
       ELSE /\ worker' = [worker EXCEPT ![w] = Sleeping(e, n)]
            /\ fate' = fate
  /\ UNCHANGED <<req, answer, queue, rows, urls, phase, timedOut>>

Wake(w) ==
  /\ worker[w].state = "sleeping" /\ Running
  /\ worker' = [worker EXCEPT ![w] = Trying(@.event, @.attempt + 1)]
  /\ UNCHANGED <<req, answer, queue, fate, rows, urls, late, phase, timedOut>>

-----------------------------------------------------------------------------
(* The database and DELETE /api/v1/urls/{id}.                              *)

\* The server commits a statement whose worker has stopped waiting.
LateCommit(s) ==
  /\ s \in late
  /\ late' = late \ {s}
  /\ IF UrlOf[s[1]] \in urls THEN InsertRow(s[1]) ELSE rows' = rows
  /\ UNCHANGED <<req, answer, queue, worker, fate, urls, phase, timedOut>>

\* Some instance deletes the row, and its click events by ON DELETE CASCADE.
DeleteURL(u) ==
  /\ u \in urls
  /\ urls' = urls \ {u}
  /\ rows' = [r \in Redirects |-> IF UrlOf[r] = u THEN 0 ELSE rows[r]]
  /\ UNCHANGED <<req, answer, queue, worker, fate, late, phase, timedOut>>

-----------------------------------------------------------------------------
(* main: from the signal to the exit.                                      *)

Goto(from, to) ==
  /\ phase = from /\ phase' = to
  /\ UNCHANGED <<queue, worker, rows, urls, late>>

KeepHandlers == UNCHANGED <<req, answer, fate>>

\* SIGTERM: server.Shutdown closes the listeners and waits for the handlers.
Signal == Goto("serving", "draining") /\ KeepHandlers /\ UNCHANGED timedOut

\* Mutant: main does not wait for the handlers.
DrainedAtOnce ==
  Goto("draining", "waiting") /\ KeepHandlers /\ UNCHANGED timedOut

\* server.Shutdown returns because no handler runs, or because its context of
\* ten seconds is done; main goes on either way, and closes the channel.
Drained ==
  /\ \A r \in Redirects : ~ InHandler(r)
  /\ Goto("draining", "waiting") /\ KeepHandlers /\ UNCHANGED timedOut

DrainTimeout ==
  /\ \E r \in Redirects : InHandler(r)
  /\ Goto("draining", "waiting") /\ KeepHandlers /\ timedOut' = TRUE

\* wg.Wait returns.
PoolStopped ==
  /\ \A w \in Workers : worker[w] = Exited
  /\ Goto("waiting", "poolStopped") /\ KeepHandlers /\ UNCHANGED timedOut

CloseRedis == Goto("poolStopped", "redisClosed") /\ KeepHandlers /\ UNCHANGED timedOut

CloseDB == Goto("redisClosed", "dbClosed") /\ KeepHandlers /\ UNCHANGED timedOut

\* The process ends: running handlers end with it, their clients see the
\* connection drop.
EndHandlers ==
  /\ req' = [r \in Redirects |-> IF InHandler(r) THEN "done" ELSE req[r]]
  /\ answer' = [r \in Redirects |-> IF InHandler(r) THEN "lost" ELSE answer[r]]

\* main returns.
ExitProcess ==
  /\ Goto("dbClosed", "exited") /\ EndHandlers /\ UNCHANGED timedOut
  /\ fate' = [r \in Redirects |-> IF InHandler(r) THEN "refused" ELSE fate[r]]

\* The process is killed: what is in the channel or in a worker is gone, but a
\* statement that was sent may still commit.
Crash ==
  /\ Running
  /\ phase' = "crashed"
  /\ EndHandlers
  /\ queue' = <<>>
  /\ worker' = [w \in Workers |-> Exited]
  /\ late' = late \cup {<<worker[w].event, worker[w].attempt>> :
                          w \in {v \in Workers : worker[v].state = "trying"}}
  /\ fate' = [r \in Redirects |->
                CASE InHandler(r) -> "refused"
                  [] fate[r] \in {"queued", "taken"} -> "gone"
                  [] OTHER -> fate[r]]
  /\ UNCHANGED <<rows, urls, timedOut>>

-----------------------------------------------------------------------------
Handle(r) ==
  \/ LookupFound(r) \/ LookupFailed(r)
  \/ EnqueueSend(r) \/ EnqueueRefused(r) \/ EnqueuePanic(r)

Work(w) == Take(w) \/ Exit(w) \/ Save(w) \/ Fail(w) \/ Wake(w)

ShutDown == Drained \/ DrainTimeout \/ PoolStopped \/ CloseRedis \/ CloseDB \/ ExitProcess

Next ==
  \/ \E r \in Redirects : Arrive(r) \/ Handle(r)
  \/ \E w \in Workers : Work(w)
  \/ \E s \in late : LateCommit(s)
  \/ \E u \in Urls : DeleteURL(u)
  \/ Signal \/ ShutDown \/ Crash

Spec == Init /\ [][Next]_vars

-----------------------------------------------------------------------------
(* Properties.                                                             *)

WorkerStates ==
  {Idle, Exited} \cup {Trying(r, n) : r \in Redirects, n \in 1..MaxRetries}
    \cup {Sleeping(r, n) : r \in Redirects, n \in 1..(MaxRetries - 1)}

\* Every variable has its type, and the channel its capacity.
TypeOK ==
  /\ req \in [Redirects -> {"idle", "lookup", "enqueue", "done"}]
  /\ answer \in [Redirects -> Answers]
  /\ queue \in Seq(Redirects) /\ Len(queue) <= QueueSize
  /\ worker \in [Workers -> WorkerStates]
  /\ fate \in [Redirects -> Fates]
  /\ rows \in [Redirects -> Nat]
  /\ urls \in SUBSET Urls
  /\ late \in SUBSET (Redirects \X (1..MaxRetries))
  /\ phase \in Phases
  /\ timedOut \in BOOLEAN

Holders(r) == {w \in Workers : worker[w].event = r}
Positions(r) == {i \in 1..Len(queue) : queue[i] = r}

\* An event that Enqueue accepted is in one place at a time: once in the
\* channel, or with one worker, or settled.  Nothing is processed twice, and
\* nothing accepted disappears while the process lives.
OnePlaceAtATime ==
  \A r \in Redirects :
    /\ Cardinality(Positions(r)) = IF fate[r] = "queued" THEN 1 ELSE 0
    /\ Cardinality(Holders(r)) = IF fate[r] = "taken" THEN 1 ELSE 0

\* Retries, timeouts and late commits never count a click twice, and a click
\* whose persistence was reported is stored unless its URL was deleted.
CountedOnce ==
  \A r \in Redirects :
    /\ rows[r] <= 1
    /\ fate[r] = "saved" /\ UrlOf[r] \in urls => rows[r] = 1
    /\ rows[r] > 0 => fate[r] \notin {"none", "refused", "queued"}

\* README: shutdown drains queued click work, and closes the database after
\* that.  Once the pool has stopped every accepted event is settled, no worker
\* is left to write, and no redirect can add another one.
DrainedBeforeClose ==
  phase \in {"poolStopped", "redisClosed", "dbClosed", "exited"} =>
    /\ \A r \in Redirects : fate[r] \notin {"queued", "taken"}
    /\ \A w \in Workers : worker[w] = Exited

\* A shutdown in which every handler finished in time aborts no redirect.
GracefulShutdownAbortsNothing ==
  ~ timedOut /\ phase # "crashed" =>
    \A r \in Redirects : answer[r] \notin {"panic", "lost"}

\* An event is dropped by its worker only after the last attempt failed; a
\* worker that finds the event's row from an earlier lost answer reports it
\* saved.
DropsOnlyAfterRetries ==
  [][\A r \in Redirects :
       fate[r] = "taken" /\ fate'[r] # "taken" =>
         \/ fate'[r] = "saved" /\ rows'[r] = 1
         \/ fate'[r] = "failed" /\ \E w \in Workers :
              worker[w] = Trying(r, MaxRetries)
         \/ phase' = "crashed"]_vars

\* A redirect that found its URL is answered 302, unless the process is killed.
RedirectsAnswered ==
  phase # "crashed" => \A r \in Redirects : answer[r] # "panic"

\* Shutdown terminates, even when handlers hang and every Create fails.
ShutdownCompletes == phase = "draining" ~> phase \in {"exited", "crashed"}

\* Every accepted event is eventually stored, dropped after its retries, or
\* lost with the process.
EventsSettle ==
  \A r \in Redirects :
    fate[r] = "queued" ~> fate[r] \in {"saved", "failed", "gone"}

\* The event of each redirect as the statistics see it.
Offers ==
  [r \in Redirects |->
     CASE fate[r] = "none" -> "new"
       [] fate[r] = "refused" -> "refused"
       [] OTHER -> "taken"]

Stats ==
  [r \in Redirects |->
     CASE UrlOf[r] \notin urls -> "erased"
       [] UrlOf[r] \in urls /\ rows[r] > 0 -> "counted"
       [] OTHER -> "absent"]

\* The pipeline implements its promise: a click is offered once, only a taken one
\* is counted, and what a deletion erased is not counted again.
Delivery == INSTANCE ClickDelivery WITH
  Clicks <- Redirects, offer <- Offers, stat <- Stats

ImplementsClickDelivery == Delivery!Spec
=============================================================================
