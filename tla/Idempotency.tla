---------------------------- MODULE Idempotency ----------------------------
(***************************************************************************)
(* POST /api/v1/urls: URLHandler.CreateURL with the in-process lock per    *)
(* user and key, the idempotency_keys table in PostgreSQL and the URL      *)
(* insertion with its retries, on several application instances.           *)
(*                                                                         *)
(* A key of this module is a pair (user, Idempotency-Key): lockKey and the *)
(* UNIQUE (user_id, idempotency_key) constraint both pair them.  One step  *)
(* of a request is one database statement with the local code after it.    *)
(* A statement that reports an error, or whose caller crashes, may still   *)
(* be committed by the server, then or later: it stays in `late`.          *)
(***************************************************************************)
EXTENDS Naturals

CONSTANTS
  Requests,      \* HTTP requests; a client's retry is another request
  Instances,     \* application processes sharing the database
  Keys,          \* (user, Idempotency-Key) pairs
  MaxAttempts,   \* maxGenerationAttempts of CreateShortURL (10 in the code)
  MaxCrashes,    \* bound of the model on process crashes
  None           \* no key, no instance, no lock owner, no body

ASSUME NoneAssumption == None \notin Keys /\ None \notin Requests
ASSUME BoundsAssumption == MaxAttempts \in Nat \ {0} /\ MaxCrashes \in Nat

VARIABLES
  pc,        \* pc[r]: where the handler of request r stands
  inst,      \* inst[r]: the instance that serves r
  key,       \* key[r]: the key r carries, None without the header
  attempt,   \* attempt[r]: the insertion attempt of CreateShortURL
  lock,      \* lock[i][k]: owner of the mutex of key k on instance i
  record,    \* record[k]: the row of idempotency_keys
  urls,      \* the rows inserted in urls on behalf of requests
  late,      \* statements given up by their caller that may still commit
  status,    \* status[r]: the status line the client receives
  body,      \* body[r]: the response body of a 201
  crashes    \* crashes so far

vars == <<pc, inst, key, attempt, lock, record, urls, late, status, body, crashes>>

-----------------------------------------------------------------------------
(* Data: a URL row is named by the request and the attempt that insert it. *)

URLs == Requests \X (1..MaxAttempts)

\* The response body names the row; its bytes are either what json.Marshal
\* produced or what a JSONB column returns for them.
Bodies == [url : URLs, form : {"marshalled", "jsonb"}]

CreateURLResponse(u) == [url |-> u, form |-> "marshalled"]
AsJSONB(b) == [b EXCEPT !.form = "jsonb"]

RowOf(r) == <<r, attempt[r]>>

Absent == [state |-> "absent", body |-> None]
Pending == [state |-> "pending", body |-> None]
Completed(b) == [state |-> "completed", body |-> b]

States == {"absent", "pending", "completed"}
Records == [state : States, body : Bodies \cup {None}]

Places == {"idle", "lock", "get", "reserve", "reget", "create", "complete", "done"}
InHandler == Places \ {"idle", "done"}
Statuses == {"none", "created", "badRequest", "conflict", "serverError",
             "unavailable", "lost"}

Statement == [kind : {"reserve", "insert", "complete"}, url : URLs]

\* The writing statement that request r is about to send or waits for.
InFlight(r) ==
  CASE pc[r] = "reserve"  -> {[kind |-> "reserve", url |-> RowOf(r)]}
    [] pc[r] = "create"   -> {[kind |-> "insert", url |-> RowOf(r)]}
    [] pc[r] = "complete" -> {[kind |-> "complete", url |-> RowOf(r)]}
    [] OTHER              -> {}

-----------------------------------------------------------------------------
Init ==
  /\ pc = [r \in Requests |-> "idle"]
  /\ inst = [r \in Requests |-> None]
  /\ key = [r \in Requests |-> None]
  /\ attempt = [r \in Requests |-> 1]
  /\ lock = [i \in Instances |-> [k \in Keys |-> None]]
  /\ record = [k \in Keys |-> Absent]
  /\ urls = {}
  /\ late = {}
  /\ status = [r \in Requests |-> "none"]
  /\ body = [r \in Requests |-> None]
  /\ crashes = 0

\* Mutant: the deferred Unlock is forgotten.
UnlockForgotten(r) == lock' = lock

\* The deferred Unlock of the mutex, run whichever way the handler returns.
Unlock(r) ==
  lock' = IF key[r] = None THEN lock
          ELSE [lock EXCEPT ![inst[r]][key[r]] = None]

\* The handler writes its response and returns.
Return(r, s, b) ==
  /\ pc' = [pc EXCEPT ![r] = "done"]
  /\ status' = [status EXCEPT ![r] = s]
  /\ body' = [body EXCEPT ![r] = b]
  /\ Unlock(r)
  /\ UNCHANGED <<inst, key, crashes>>

\* The handler goes on to its next statement.
Goto(r, place) ==
  /\ pc' = [pc EXCEPT ![r] = place]
  /\ UNCHANGED <<inst, key, lock, status, body, crashes>>

\* A record found in the table: 409 while it is pending, else its response.
Replay(r, rec) ==
  IF rec.state = "pending"
    THEN Return(r, "conflict", None)
    ELSE Return(r, "created", rec.body)

-----------------------------------------------------------------------------
(* The steps of CreateURL.                                                 *)

\* The request enters CreateURL on some instance; without an Idempotency-Key
\* it goes straight to createURL.  A wrong method, a missing user or too long
\* a key is refused before this point and changes nothing.
Arrive(r) ==
  /\ pc[r] = "idle"
  /\ \E i \in Instances : inst' = [inst EXCEPT ![r] = i]
  /\ \E k \in Keys \cup {None} :
       /\ key' = [key EXCEPT ![r] = k]
       /\ pc' = [pc EXCEPT ![r] = IF k = None THEN "create" ELSE "lock"]
  /\ UNCHANGED <<attempt, lock, record, urls, late, status, body, crashes>>

\* Mutant: no mutex at all.
AcquireWithoutWaiting(r) ==
  /\ pc[r] = "lock"
  /\ lock' = [lock EXCEPT ![inst[r]][key[r]] = r]
  /\ pc' = [pc EXCEPT ![r] = "get"]
  /\ UNCHANGED <<inst, key, attempt, record, urls, late, status, body, crashes>>

\* getIdempotencyLock and lock.Lock().
Acquire(r) ==
  /\ pc[r] = "lock"
  /\ lock[inst[r]][key[r]] = None
  /\ lock' = [lock EXCEPT ![inst[r]][key[r]] = r]
  /\ pc' = [pc EXCEPT ![r] = "get"]
  /\ UNCHANGED <<inst, key, attempt, record, urls, late, status, body, crashes>>

\* The first idempotencyRepo.Get.
Get(r) ==
  /\ pc[r] = "get"
  /\ IF record[key[r]].state = "absent"
       THEN Goto(r, "reserve")
       ELSE Replay(r, record[key[r]])
  /\ UNCHANGED <<attempt, record, urls, late>>

\* Mutant: ON CONFLICT DO UPDATE, which takes any record over.
ReserveUpserts(r) ==
  /\ pc[r] = "reserve"
  /\ record' = [record EXCEPT ![key[r]] = Pending]
  /\ Goto(r, "create")
  /\ UNCHANGED <<attempt, urls, late>>

\* Mutant: the result of Reserve is not looked at.
ReserveUnchecked(r) ==
  /\ pc[r] = "reserve"
  /\ record' = IF record[key[r]].state = "absent"
                 THEN [record EXCEPT ![key[r]] = Pending] ELSE record
  /\ Goto(r, "create")
  /\ UNCHANGED <<attempt, urls, late>>

\* idempotencyRepo.Reserve: INSERT ... ON CONFLICT DO NOTHING RETURNING id.
Reserve(r) ==
  /\ pc[r] = "reserve"
  /\ IF record[key[r]].state = "absent"
       THEN /\ record' = [record EXCEPT ![key[r]] = Pending]
            /\ Goto(r, "create")
       ELSE /\ record' = record
            /\ Goto(r, "reget")
  /\ UNCHANGED <<attempt, urls, late>>

\* The Get of a request whose reservation met a conflict.
Reget(r) ==
  /\ pc[r] = "reget"
  /\ IF record[key[r]].state = "absent"
       THEN Return(r, "unavailable", None)
       ELSE Replay(r, record[key[r]])
  /\ UNCHANGED <<attempt, record, urls, late>>

\* createURLResponse refuses the request before any insertion, or the alias
\* is taken, or no short code can be generated: 400.  The reservation stays.
Refuse(r) ==
  /\ pc[r] = "create"
  /\ Return(r, "badRequest", None)
  /\ UNCHANGED <<attempt, record, urls, late>>

\* Mutant: one attempt too many.
CollideOffByOne(r) ==
  /\ pc[r] = "create"
  /\ IF attempt[r] <= MaxAttempts
       THEN /\ attempt' = [attempt EXCEPT ![r] = @ + 1]
            /\ Goto(r, "create")
       ELSE /\ attempt' = attempt
            /\ Return(r, "badRequest", None)
  /\ UNCHANGED <<record, urls, late>>

\* The insertion meets a unique violation: another code is tried, up to
\* MaxAttempts times.
Collide(r) ==
  /\ pc[r] = "create"
  /\ IF attempt[r] < MaxAttempts
       THEN /\ attempt' = [attempt EXCEPT ![r] = @ + 1]
            /\ Goto(r, "create")
       ELSE /\ attempt' = attempt
            /\ Return(r, "badRequest", None)
  /\ UNCHANGED <<record, urls, late>>

\* The row is inserted; createURL answers, CreateURL goes on to Complete.
Insert(r) ==
  /\ pc[r] = "create"
  /\ urls' = urls \cup {RowOf(r)}
  /\ IF key[r] = None
       THEN Return(r, "created", CreateURLResponse(RowOf(r)))
       ELSE Goto(r, "complete")
  /\ UNCHANGED <<attempt, record, late>>

\* idempotencyRepo.Complete, which must update one pending row; the first
\* response is written from the body that was marshalled.
Complete(r) ==
  /\ pc[r] = "complete"
  /\ IF record[key[r]].state = "pending"
       THEN /\ record' = [record EXCEPT ![key[r]] =
                            Completed(AsJSONB(CreateURLResponse(RowOf(r))))]
            /\ Return(r, "created", CreateURLResponse(RowOf(r)))
       ELSE /\ record' = record
            /\ Return(r, "serverError", None)
  /\ UNCHANGED <<attempt, urls, late>>

\* Mutant: a failed creation gives the reservation back, so that a retry may
\* try again.
FailReleases(r) ==
  /\ pc[r] \in {"get", "reserve", "reget", "create", "complete"}
  /\ late' = late \cup InFlight(r)
  /\ Return(r, IF pc[r] = "create" THEN "badRequest" ELSE "serverError", None)
  /\ record' = IF pc[r] = "create" /\ key[r] # None
                 THEN [record EXCEPT ![key[r]] = Absent] ELSE record
  /\ UNCHANGED <<attempt, urls>>

\* Mutant: an error of Complete is only logged.
FailIgnored(r) ==
  /\ pc[r] \in {"get", "reserve", "reget", "create", "complete"}
  /\ late' = late \cup InFlight(r)
  /\ IF pc[r] = "complete"
       THEN Return(r, "created", CreateURLResponse(RowOf(r)))
       ELSE Return(r, "serverError", None)
  /\ UNCHANGED <<attempt, record, urls>>

\* A statement returns an error (connection lost, request context cancelled,
\* database down).  The handler answers and returns, and releases nothing
\* but the mutex; the statement may have been, or may yet be, committed.
Fail(r) ==
  /\ pc[r] \in {"get", "reserve", "reget", "create", "complete"}
  /\ late' = late \cup InFlight(r)
  /\ Return(r, IF pc[r] = "create" THEN "badRequest" ELSE "serverError", None)
  /\ UNCHANGED <<attempt, record, urls>>

-----------------------------------------------------------------------------
(* The environment: the database and the processes.                        *)

\* The database commits a statement whose caller is no longer there to know.
LateCommit(s) ==
  LET k == key[s.url[1]] IN
  /\ s \in late
  /\ late' = late \ {s}
  /\ urls' = IF s.kind = "insert" THEN urls \cup {s.url} ELSE urls
  /\ record' =
       CASE s.kind = "reserve" /\ record[k].state = "absent" ->
              [record EXCEPT ![k] = Pending]
         [] s.kind = "complete" /\ record[k].state = "pending" ->
              [record EXCEPT ![k] = Completed(AsJSONB(CreateURLResponse(s.url)))]
         [] OTHER -> record
  /\ UNCHANGED <<pc, inst, key, attempt, lock, status, body, crashes>>

\* Instance i dies and is restarted: its handlers are gone, their clients see
\* the connection drop, the map of mutexes is empty again.
Crash(i) ==
  LET killed == {r \in Requests : inst[r] = i /\ pc[r] \in InHandler} IN
  /\ crashes < MaxCrashes
  /\ crashes' = crashes + 1
  /\ late' = late \cup UNION {InFlight(r) : r \in killed}
  /\ pc' = [r \in Requests |-> IF r \in killed THEN "done" ELSE pc[r]]
  /\ status' = [r \in Requests |-> IF r \in killed THEN "lost" ELSE status[r]]
  /\ lock' = [lock EXCEPT ![i] = [k \in Keys |-> None]]
  /\ UNCHANGED <<inst, key, attempt, record, urls, body>>

Step(r) ==
  \/ Get(r) \/ Reserve(r) \/ Reget(r) \/ Refuse(r) \/ Collide(r)
  \/ Insert(r) \/ Complete(r) \/ Fail(r)

Next ==
  \/ \E r \in Requests : Arrive(r) \/ Acquire(r) \/ Step(r)
  \/ \E s \in late : LateCommit(s)
  \/ \E i \in Instances : Crash(i)

Spec == Init /\ [][Next]_vars

\* A handler whose statement is out gets an answer or an error, and sync.Mutex
\* hands itself to a waiter that keeps losing races (its starvation mode).
Fairness == \A r \in Requests : WF_vars(Step(r)) /\ SF_vars(Acquire(r))

FairSpec == Spec /\ Fairness

-----------------------------------------------------------------------------
(* Properties.                                                             *)

\* Every variable has its type.
TypeOK ==
  /\ pc \in [Requests -> Places]
  /\ inst \in [Requests -> Instances \cup {None}]
  /\ key \in [Requests -> Keys \cup {None}]
  /\ attempt \in [Requests -> 1..MaxAttempts]
  /\ lock \in [Instances -> [Keys -> Requests \cup {None}]]
  /\ record \in [Keys -> Records]
  /\ urls \in SUBSET URLs
  /\ late \in SUBSET Statement
  /\ status \in [Requests -> Statuses]
  /\ body \in [Requests -> Bodies \cup {None}]
  /\ crashes \in Nat

\* README: a reservation before the insertion prevents duplicate creation
\* across instances.  No two rows of urls were ever inserted for one key, with
\* retries, duplicates, crashes and late commits in any order.
AtMostOneURLPerKey ==
  \A u, v \in urls :
    key[u[1]] = key[v[1]] /\ key[u[1]] # None => u = v

\* A 201 is never given before it is durable: the key's record is completed
\* with the URL the client was told of, so a crash cannot lose it, and the
\* row it names is there.  Hence two 201 answers for a key always agree.
AnswersAreDurable ==
  \A r \in Requests :
    status[r] = "created" =>
      /\ body[r].url \in urls
      /\ key[r] # None =>
           /\ record[key[r]].state = "completed"
           /\ record[key[r]].body.url = body[r].url

\* The branch "Idempotency record unavailable" is dead: an insertion refused
\* by the unique constraint always leaves a record for the second Get.
RecordIsThere == \A r \in Requests : status[r] # "unavailable"

\* A record only moves from absent to pending to completed, and a completed
\* response never changes: no late statement overwrites what was replayed.
RecordsOnlyAdvance ==
  [][\A k \in Keys :
       record'[k] # record[k] =>
         \/ record[k].state = "absent" /\ record'[k].state = "pending"
         \/ record[k].state = "pending" /\ record'[k].state = "completed"]_vars

\* The owner of a reservation at work on it.
Owns(r, k) == key[r] = k /\ pc[r] \in {"create", "complete"}

\* The mutex makes duplicates on one instance wait: nobody is answered 409
\* because of a request that the same process is still serving.
LocalDuplicatesWait ==
  [][\A r \in Requests :
       status[r] = "none" /\ status'[r] = "conflict" =>
         ~ \E o \in Requests : Owns(o, key[r]) /\ inst[o] = inst[r]]_vars

\* A 409 says the truth: some request with this key is in progress.
ConflictMeansInProgress ==
  [][\A r \in Requests :
       status[r] = "none" /\ status'[r] = "conflict" =>
         \E o \in Requests : Owns(o, key[r])]_vars

\* TestCreateURL_IdempotencyConcurrent: all 201 answers for a key are the
\* same bytes.
ReplaysAreIdentical ==
  \A r, o \in Requests :
    /\ status[r] = "created" /\ status[o] = "created"
    /\ key[r] = key[o] /\ key[r] # None
    => body[r] = body[o]

\* Every request that enters the handler is answered or loses its process:
\* no handler waits for ever on the mutex of its key.
EveryRequestAnswered ==
  \A r \in Requests : pc[r] # "idle" ~> pc[r] = "done"

\* The refinement of the promise: the URLs made for a key are the rows
\* inserted for it, and a 201 is the answer that names one.
Promise == INSTANCE CreateOnce WITH
  keyOf <- key,
  made <- [k \in Keys |-> {u \in urls : key[u[1]] = k}],
  answer <- [r \in Requests |-> IF status[r] = "created" THEN {body[r].url} ELSE {}]

ImplementsCreateOnce == Promise!Spec

-----------------------------------------------------------------------------
(* The inductive invariant.                                                *)

Inserts(r) == {s \in late : s.kind = "insert" /\ s.url[1] = r}
RowsOf(r) == {u \in urls : u[1] = r}

\* Request r has won its key's reservation: it is at work on the URL, or
\* has inserted it, or left a statement that would insert it.
Claims(r) ==
  pc[r] \in {"create", "complete"} \/ RowsOf(r) # {} \/ Inserts(r) # {}

\* Every claim is backed by the key's record, and a key has one claimant.
ClaimsAreReserved ==
  \A r \in Requests : Claims(r) /\ key[r] # None =>
    /\ record[key[r]].state # "absent"
    /\ \A o \in Requests : Claims(o) /\ key[o] = key[r] => o = r

\* A request accounts for one row at most: none before it enters the
\* handler, at most one outstanding insertion, and no other row beside it.
OneRowPerRequest ==
  /\ \A r \in Requests : pc[r] = "idle" => key[r] = None /\ ~ Claims(r)
  /\ \A r \in Requests : pc[r] = "create" => RowsOf(r) = {} /\ Inserts(r) = {}
  /\ \A r \in Requests : Inserts(r) # {} => RowsOf(r) = {}
  /\ \A r \in Requests : \A s, t \in Inserts(r) : s = t
  /\ \A r \in Requests : \A u, v \in RowsOf(r) : u = v

\* Only the row that was inserted is on its way into the record.
CompletionsAreInserted ==
  /\ \A r \in Requests : pc[r] = "complete" => RowOf(r) \in urls
  /\ \A s \in late : s.kind = "complete" => s.url \in urls

\* A completed record carries a URL made for its key.
RecordsAreMade ==
  \A k \in Keys : record[k].state = "completed" =>
    /\ record[k].body \in Bodies
    /\ record[k].body.url \in urls
    /\ key[record[k].body.url[1]] = k

\* An answer is given once; the second Get finds a record.
AnswersAreFinal ==
  /\ \A r \in Requests : pc[r] # "done" => status[r] = "none"
  /\ \A r \in Requests : status[r] = "created" => body[r] \in Bodies
  /\ \A r \in Requests : pc[r] = "reget" => record[key[r]].state # "absent"

\* The inductive invariant behind AtMostOneURLPerKey and AnswersAreDurable.
IInv ==
  /\ ClaimsAreReserved
  /\ OneRowPerRequest
  /\ CompletionsAreInserted
  /\ RecordsAreMade
  /\ AnswersAreFinal
  /\ AnswersAreDurable
  /\ RecordIsThere
=============================================================================
