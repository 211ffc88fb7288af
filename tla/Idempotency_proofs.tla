------------------------- MODULE Idempotency_proofs -------------------------
(***************************************************************************)
(* Proofs about Idempotency, for every set of requests, instances and keys *)
(* and every value of the bounds: type correctness, the inductive          *)
(* invariant, the safety properties and the refinement of CreateOnce.      *)
(***************************************************************************)
EXTENDS Idempotency, TLAPS

USE NoneAssumption, BoundsAssumption

-----------------------------------------------------------------------------
(* Type correctness.  TypeOK is not inductive alone: the record of a request *)
(* exists only because the places past the empty-key test have a key, and    *)
(* so have the late statements on idempotency_keys.                          *)

NeedsKey == {"lock", "get", "reserve", "reget", "complete"}

Keyed ==
  /\ \A r \in Requests : pc[r] \in NeedsKey => key[r] \in Keys
  /\ \A s \in late : s.kind # "insert" => key[s.url[1]] \in Keys
  /\ \A r \in Requests : pc[r] = "idle" => \A s \in late : s.url[1] # r

TypeInv == TypeOK /\ Keyed

\* What a request leaves in flight is a statement about its own row, of the
\* kind that its place in the handler tells.
LEMMA InFlightFacts ==
  ASSUME TypeInv, NEW r \in Requests, NEW s \in InFlight(r)
  PROVE  /\ s \in Statement
         /\ s.url = RowOf(r)
         /\ s.url[1] = r
         /\ \/ s.kind = "reserve" /\ pc[r] = "reserve"
            \/ s.kind = "insert" /\ pc[r] = "create"
            \/ s.kind = "complete" /\ pc[r] = "complete"
<1>1. RowOf(r) \in URLs /\ RowOf(r)[1] = r
  BY DEF RowOf, URLs, TypeInv, TypeOK
<1>2. pc[r] \in {"reserve", "create", "complete"}
  BY DEF InFlight
<1> QED
  BY <1>1, <1>2 DEF InFlight, Statement

\* The body of a response, as marshalled and as the column returns it.
LEMMA BodyFacts ==
  ASSUME NEW u \in URLs
  PROVE  /\ CreateURLResponse(u) \in Bodies
         /\ CreateURLResponse(u).url = u
         /\ AsJSONB(CreateURLResponse(u)) \in Bodies
         /\ AsJSONB(CreateURLResponse(u)).url = u
  BY DEF CreateURLResponse, AsJSONB, Bodies

LEMMA RecordFacts ==
  /\ Absent \in Records /\ Absent.state = "absent"
  /\ Pending \in Records /\ Pending.state = "pending"
  /\ \A b \in Bodies : /\ Completed(b) \in Records
                       /\ Completed(b).state = "completed"
                       /\ Completed(b).body = b
  BY DEF Absent, Pending, Completed, Records, States

LEMMA InitTypeInv == Init => TypeInv
  BY RecordFacts DEF Init, TypeInv, TypeOK, Keyed, Places, NeedsKey, Statuses

LEMMA ReturnTypeOK ==
  ASSUME TypeInv, NEW r \in Requests, NEW s \in Statuses,
         NEW b \in Bodies \cup {None}, Return(r, s, b)
  PROVE  /\ pc' \in [Requests -> Places]
         /\ status' \in [Requests -> Statuses]
         /\ body' \in [Requests -> Bodies \cup {None}]
         /\ lock' \in [Instances -> [Keys -> Requests \cup {None}]]
         /\ inst' \in [Requests -> Instances \cup {None}]
         /\ key' = key
         /\ key' \in [Requests -> Keys \cup {None}]
         /\ crashes' \in Nat
         /\ \A q \in Requests : pc'[q] = IF q = r THEN "done" ELSE pc[q]
<1>1. lock' \in [Instances -> [Keys -> Requests \cup {None}]]
  BY DEF Return, Unlock, TypeInv, TypeOK
<1> QED
  BY <1>1 DEF Return, TypeInv, TypeOK, Places

\* A request that returns and adds to late only what it had in flight.
LEMMA ReturnTypeInv ==
  ASSUME TypeInv, NEW r \in Requests, pc[r] # "idle", NEW s \in Statuses,
         NEW b \in Bodies \cup {None}, Return(r, s, b),
         late' = late \/ late' = late \cup InFlight(r),
         attempt' \in [Requests -> 1..MaxAttempts],
         record' \in [Keys -> Records], urls' \in SUBSET URLs
  PROVE  TypeInv'
<1>1. late' \in SUBSET Statement
  BY InFlightFacts DEF TypeInv, TypeOK
<1>2. TypeOK'
  BY <1>1, ReturnTypeOK DEF TypeOK
<1>3. Keyed'
  BY <1>1, ReturnTypeOK, InFlightFacts DEF TypeInv, TypeOK, Keyed, NeedsKey
<1> QED
  BY <1>2, <1>3 DEF TypeInv

LEMMA ReplayTypeInv ==
  ASSUME TypeInv, NEW r \in Requests, pc[r] # "idle", NEW rec \in Records,
         Replay(r, rec), UNCHANGED <<attempt, record, urls, late>>
  PROVE  TypeInv'
<1>1. rec.body \in Bodies \cup {None}
  BY DEF Records
<1>2. PICK s \in Statuses, b \in Bodies \cup {None} : Return(r, s, b)
  BY <1>1 DEF Replay, Statuses
<1> QED
  BY <1>2, ReturnTypeInv DEF TypeInv, TypeOK

\* A request that goes on to another place of the handler.
LEMMA GotoTypeInv ==
  ASSUME TypeInv, NEW r \in Requests, pc[r] # "idle",
         NEW place \in InHandler, Goto(r, place),
         place \in NeedsKey => key[r] \in Keys,
         late' = late, attempt' \in [Requests -> 1..MaxAttempts],
         record' \in [Keys -> Records], urls' \in SUBSET URLs
  PROVE  TypeInv'
  BY DEF Goto, TypeInv, TypeOK, Keyed, InHandler, Places

LEMMA StepTypeInv ==
  ASSUME TypeInv, NEW r \in Requests, Arrive(r) \/ Acquire(r) \/ Step(r)
  PROVE  TypeInv'
<1>0. /\ RowOf(r) \in URLs
      /\ pc[r] \in NeedsKey => key[r] \in Keys /\ record[key[r]] \in Records
  BY DEF RowOf, URLs, TypeInv, TypeOK, Keyed
<1>1. CASE Arrive(r)
  <2>1. PICK k \in Keys \cup {None} :
          /\ key' = [key EXCEPT ![r] = k]
          /\ pc' = [pc EXCEPT ![r] = IF k = None THEN "create" ELSE "lock"]
    BY <1>1 DEF Arrive
  <2>2. TypeOK'
    BY <1>1, <2>1 DEF Arrive, TypeInv, TypeOK, Places
  <2>3. \A s \in late : key'[s.url[1]] = key[s.url[1]]
    BY <1>1, <2>1 DEF Arrive, TypeInv, TypeOK, Keyed, Statement, URLs
  <2>4. Keyed'
    BY <1>1, <2>1, <2>3 DEF Arrive, TypeInv, TypeOK, Keyed, NeedsKey
  <2> QED
    BY <2>2, <2>4 DEF TypeInv
<1>2. CASE Acquire(r)
  BY <1>0, <1>2 DEF Acquire, TypeInv, TypeOK, Keyed, NeedsKey, Places
<1>3. CASE Get(r)
  BY <1>0, <1>3, ReplayTypeInv, GotoTypeInv
     DEF Get, TypeInv, TypeOK, NeedsKey, InHandler, Places
<1>4. CASE Reserve(r)
  BY <1>0, <1>4, GotoTypeInv, RecordFacts
     DEF Reserve, TypeInv, TypeOK, NeedsKey, InHandler, Places
<1>5. CASE Reget(r)
  BY <1>0, <1>5, ReplayTypeInv, ReturnTypeInv
     DEF Reget, TypeInv, TypeOK, NeedsKey, Statuses
<1>6. CASE Refuse(r)
  BY <1>6, ReturnTypeInv DEF Refuse, TypeInv, TypeOK, Statuses
<1>7. CASE Collide(r)
  <2>1. CASE attempt[r] < MaxAttempts
    <3>1. attempt' \in [Requests -> 1..MaxAttempts]
      BY <1>7, <2>1 DEF Collide, TypeInv, TypeOK
    <3> QED
      BY <1>7, <2>1, <3>1, GotoTypeInv
         DEF Collide, TypeInv, TypeOK, InHandler, Places, NeedsKey
  <2>2. CASE ~ (attempt[r] < MaxAttempts)
    BY <1>7, <2>2, ReturnTypeInv DEF Collide, TypeInv, TypeOK, Statuses
  <2> QED
    BY <2>1, <2>2
<1>8. CASE Insert(r)
  BY <1>0, <1>8, BodyFacts, ReturnTypeInv, GotoTypeInv
     DEF Insert, TypeInv, TypeOK, InHandler, Places, NeedsKey, Statuses
<1>9. CASE Complete(r)
  <2>1. record' \in [Keys -> Records]
    BY <1>0, <1>9, BodyFacts, RecordFacts DEF Complete, TypeInv, TypeOK
  <2> QED
    BY <1>0, <1>9, <2>1, BodyFacts, ReturnTypeInv
       DEF Complete, TypeInv, TypeOK, Statuses
<1>10. CASE Fail(r)
  BY <1>10, ReturnTypeInv DEF Fail, TypeInv, TypeOK, Statuses
<1> QED
  BY <1>1, <1>2, <1>3, <1>4, <1>5, <1>6, <1>7, <1>8, <1>9, <1>10 DEF Step

LEMMA LateCommitTypeInv ==
  ASSUME TypeInv, NEW s \in late, LateCommit(s)
  PROVE  TypeInv'
<1>1. s.url \in URLs
  BY DEF TypeInv, TypeOK, Statement
<1>2. record' \in [Keys -> Records]
  BY <1>1, BodyFacts, RecordFacts DEF LateCommit, TypeInv, TypeOK
<1> QED
  BY <1>1, <1>2 DEF LateCommit, TypeInv, TypeOK, Keyed

LEMMA CrashTypeInv ==
  ASSUME TypeInv, NEW i \in Instances, Crash(i)
  PROVE  TypeInv'
<1>1. late' \in SUBSET Statement
  BY InFlightFacts DEF Crash, TypeInv, TypeOK
<1>2. TypeOK'
  BY <1>1 DEF Crash, TypeInv, TypeOK, Places, Statuses
<1>3. \A s \in late' : s \in late \/ \E r \in Requests : s \in InFlight(r)
  BY DEF Crash
<1>4. Keyed'
  BY <1>1, <1>3, InFlightFacts
     DEF Crash, TypeInv, TypeOK, Keyed, NeedsKey, InHandler, Places
<1> QED
  BY <1>2, <1>4 DEF TypeInv

\* Every step of the system keeps the types.
LEMMA NextTypeInv == TypeInv /\ [Next]_vars => TypeInv'
<1> SUFFICES ASSUME TypeInv, [Next]_vars PROVE TypeInv'
  OBVIOUS
<1>1. CASE UNCHANGED vars
  BY <1>1 DEF vars, TypeInv, TypeOK, Keyed
<1> QED
  BY <1>1, StepTypeInv, LateCommitTypeInv, CrashTypeInv DEF Next

\* Every reachable state is well typed.
THEOREM TypeCorrect == Spec => []TypeOK
<1>1. TypeInv => TypeOK
  BY DEF TypeInv
<1> QED
  BY InitTypeInv, NextTypeInv, <1>1, PTL DEF Spec
-----------------------------------------------------------------------------
(* The inductive invariant.  A step that returns without a 201, a replay,   *)
(* and a move inside the handler that leaves the tables alone each have a    *)
(* lemma; what is left are the three statements that write: a reservation    *)
(* that wins, an insertion, a completion.                                    *)

LEMMA InitIInv == Init => IInv
  BY DEF Init, IInv, ClaimsAreReserved, Claims, RowsOf, Inserts, OneRowPerRequest,
         CompletionsAreInserted, RecordsAreMade, AnswersAreFinal,
         AnswersAreDurable, RecordIsThere, Absent

\* The handler of r returns anything but a 201; its statement may be late.
LEMMA ReturnIInv ==
  ASSUME TypeInv, IInv, NEW r \in Requests, pc[r] # "idle",
         NEW s \in {"badRequest", "conflict", "serverError"},
         Return(r, s, None), late' = late \/ late' = late \cup InFlight(r),
         UNCHANGED <<attempt, record, urls>>
  PROVE  IInv'
<1> USE DEF TypeInv, TypeOK, IInv, Claims, RowsOf, Inserts, Return
<1>1. \A t \in late' : t \in late \/ t \in InFlight(r)
  OBVIOUS
<1>2. \A q \in Requests : pc'[q] = IF q = r THEN "done" ELSE pc[q]
  OBVIOUS
<1>3. \A q \in Requests :
        Inserts(q)' = IF q = r /\ pc[q] = "create" /\ late' # late
                        THEN InFlight(r) ELSE Inserts(q)
  BY <1>1, InFlightFacts DEF OneRowPerRequest, InFlight
<1>4. \A q \in Requests : Claims(q)' => Claims(q)
  BY <1>2, <1>3
<1>5. ClaimsAreReserved'
  BY <1>4 DEF ClaimsAreReserved
<1>6. OneRowPerRequest'
  <2>1. \A q \in Requests : RowsOf(q)' = RowsOf(q) /\ key'[q] = key[q]
    OBVIOUS
  <2>2. pc[r] = "create" => \A t, u \in InFlight(r) : t = u
    BY DEF InFlight
  <2> QED
    BY <1>2, <1>3, <1>4, <2>1, <2>2 DEF OneRowPerRequest
<1>7. CompletionsAreInserted'
  <2>1. \A q \in Requests : RowOf(q)' = RowOf(q)
    BY DEF RowOf
  <2>2. \A t \in InFlight(r) : t.kind = "complete" => t.url \in urls
    BY InFlightFacts DEF CompletionsAreInserted
  <2> QED
    BY <1>1, <1>2, <2>1, <2>2 DEF CompletionsAreInserted
<1>8. RecordsAreMade' /\ AnswersAreFinal' /\ AnswersAreDurable' /\ RecordIsThere'
  BY <1>2 DEF RecordsAreMade, AnswersAreFinal, AnswersAreDurable, RecordIsThere
<1> QED
  BY <1>5, <1>6, <1>7, <1>8

\* A record that was found answers r: 409, or the response it holds.
LEMMA ReplayIInv ==
  ASSUME TypeInv, IInv, NEW r \in Requests, pc[r] # "idle", key[r] \in Keys,
         record[key[r]].state # "absent",
         Replay(r, record[key[r]]), UNCHANGED <<attempt, record, urls, late>>
  PROVE  IInv'
<1>1. CASE record[key[r]].state = "pending"
  BY <1>1, ReturnIInv DEF Replay
<1>2. CASE record[key[r]].state # "pending"
  <2> DEFINE b == record[key[r]].body
  <2>1. record[key[r]].state = "completed"
    BY <1>2 DEF TypeInv, TypeOK, Records, States
  <2>2. b \in Bodies /\ b.url \in urls
    BY <2>1 DEF IInv, RecordsAreMade
  <2>3. Return(r, "created", b)
    BY <1>2 DEF Replay
  <2> HIDE DEF b
  <2>4. \A q \in Requests : pc'[q] = IF q = r THEN "done" ELSE pc[q]
    BY <2>3 DEF Return, TypeInv, TypeOK
  <2>5. \A q \in Requests : Claims(q)' => Claims(q)
    BY <2>3, <2>4 DEF Claims, RowsOf, Inserts
  <2>6. ClaimsAreReserved' /\ OneRowPerRequest'
    BY <2>3, <2>4, <2>5
       DEF Return, IInv, ClaimsAreReserved, OneRowPerRequest, RowsOf, Inserts
  <2>7. CompletionsAreInserted'
    BY <2>4 DEF IInv, CompletionsAreInserted, RowOf
  <2>8. RecordsAreMade' /\ AnswersAreFinal' /\ RecordIsThere'
    BY <2>2, <2>3, <2>4 DEF Return, IInv, RecordsAreMade, AnswersAreFinal,
                            RecordIsThere, TypeInv, TypeOK
  <2>9. AnswersAreDurable'
    BY <2>1, <2>2, <2>3, <2>4
       DEF Return, IInv, AnswersAreDurable, TypeInv, TypeOK, b
  <2> QED
    BY <2>6, <2>7, <2>8, <2>9 DEF IInv
<1> QED
  BY <1>1, <1>2

\* A move inside the handler that writes no table.
LEMMA GotoIInv ==
  ASSUME TypeInv, IInv, NEW r \in Requests, pc[r] \in InHandler,
         NEW place \in InHandler \ {"complete"},
         pc' = [pc EXCEPT ![r] = place],
         place = "create" => pc[r] = "create",
         place = "reget" => record[key[r]].state # "absent",
         \A q \in Requests \ {r} : attempt'[q] = attempt[q],
         UNCHANGED <<key, record, urls, late, status, body>>
  PROVE  IInv'
<1>1. \A q \in Requests : pc'[q] = IF q = r THEN place ELSE pc[q]
  BY DEF TypeInv, TypeOK
<1>2. \A q \in Requests : Claims(q)' => Claims(q)
  BY <1>1 DEF Claims, RowsOf, Inserts
<1>3. ClaimsAreReserved' /\ OneRowPerRequest'
  BY <1>1, <1>2 DEF IInv, ClaimsAreReserved, OneRowPerRequest, RowsOf, Inserts,
                    InHandler
<1>4. CompletionsAreInserted'
  BY <1>1 DEF IInv, CompletionsAreInserted, RowOf
<1>5. AnswersAreFinal' /\ RecordsAreMade' /\ AnswersAreDurable' /\ RecordIsThere'
  BY <1>1 DEF IInv, AnswersAreFinal, RecordsAreMade, AnswersAreDurable,
              RecordIsThere, InHandler, Places
<1> QED
  BY <1>3, <1>4, <1>5 DEF IInv

\* A reservation that finds no record: the key gets its only claimant, for a
\* claim of another request would have left a record behind.
LEMMA ReserveIInv ==
  ASSUME TypeInv, IInv, NEW r \in Requests, Reserve(r),
         record[key[r]].state = "absent"
  PROVE  IInv'
<1> DEFINE k == key[r]
<1>1. k \in Keys /\ pc[r] = "reserve"
  BY DEF Reserve, TypeInv, Keyed, NeedsKey
<1>2. /\ record' = [record EXCEPT ![k] = Pending]
      /\ UNCHANGED <<key, attempt, urls, late, status, body>>
      /\ \A q \in Requests : pc'[q] = IF q = r THEN "create" ELSE pc[q]
  BY DEF Reserve, Goto, TypeInv, TypeOK
<1>3. \A j \in Keys : record'[j] = IF j = k THEN Pending ELSE record[j]
  BY <1>1, <1>2 DEF TypeInv, TypeOK
<1>4. \A q \in Requests : key[q] = k => ~ Claims(q)
  BY <1>1 DEF IInv, ClaimsAreReserved
<1>5. \A q \in Requests : Claims(q)' => q = r \/ Claims(q)
  BY <1>2 DEF Claims, RowsOf, Inserts
<1>6. ClaimsAreReserved'
  BY <1>1, <1>2, <1>3, <1>4, <1>5, RecordFacts
     DEF IInv, ClaimsAreReserved, TypeInv, TypeOK
<1>7. OneRowPerRequest'
  BY <1>2, <1>4, <1>5 DEF IInv, OneRowPerRequest, Claims, RowsOf, Inserts
<1>8. CompletionsAreInserted'
  BY <1>2 DEF IInv, CompletionsAreInserted, RowOf
<1>9. RecordsAreMade'
  BY <1>2, <1>3, RecordFacts DEF IInv, RecordsAreMade
<1>10. \A q \in Requests : status[q] = "created" => key[q] # k
  BY <1>1 DEF IInv, AnswersAreDurable
<1>11. AnswersAreDurable'
  BY <1>2, <1>3, <1>10 DEF IInv, AnswersAreDurable, TypeInv, TypeOK
<1>12. AnswersAreFinal' /\ RecordIsThere'
  BY <1>1, <1>2, <1>3, RecordFacts
     DEF IInv, AnswersAreFinal, RecordIsThere, TypeInv, Keyed, NeedsKey
<1> QED
  BY <1>6, <1>7, <1>8, <1>9, <1>11, <1>12 DEF IInv

\* An insertion by the claimant, which had no row and none on the way.
LEMMA InsertIInv ==
  ASSUME TypeInv, IInv, NEW r \in Requests, Insert(r)
  PROVE  IInv'
<1> DEFINE u == RowOf(r)
<1>1. /\ u \in URLs /\ u[1] = r
      /\ CreateURLResponse(u) \in Bodies /\ CreateURLResponse(u).url = u
      /\ pc[r] = "create"
  BY BodyFacts DEF RowOf, URLs, Insert, TypeInv, TypeOK
<1>2. /\ urls' = urls \cup {u}
      /\ UNCHANGED <<key, attempt, record, late>>
      /\ \A q \in Requests : pc'[q] =
           IF q # r THEN pc[q] ELSE IF key[r] = None THEN "done" ELSE "complete"
      /\ \A q \in Requests \ {r} : status'[q] = status[q] /\ body'[q] = body[q]
      /\ key[r] = None => status'[r] = "created" /\ body'[r] = CreateURLResponse(u)
      /\ key[r] # None => status'[r] = status[r] /\ body'[r] = body[r]
  BY DEF Insert, Goto, Return, TypeInv, TypeOK
<1> HIDE DEF u
<1>3. \A q \in Requests : /\ Inserts(q)' = Inserts(q)
                          /\ RowsOf(q)' = IF q = r THEN {u} ELSE RowsOf(q)
  BY <1>1, <1>2 DEF RowsOf, Inserts, IInv, OneRowPerRequest
<1>4. \A q \in Requests : Claims(q)' => Claims(q)
  BY <1>1, <1>2, <1>3 DEF Claims
<1>5. ClaimsAreReserved'
  BY <1>2, <1>4 DEF IInv, ClaimsAreReserved
<1>6. OneRowPerRequest'
  BY <1>1, <1>2, <1>3, <1>4 DEF IInv, OneRowPerRequest
<1>7. CompletionsAreInserted'
  BY <1>1, <1>2 DEF IInv, CompletionsAreInserted, RowOf, u
<1>8. RecordsAreMade' /\ RecordIsThere'
  BY <1>2 DEF IInv, RecordsAreMade, RecordIsThere
<1>9. AnswersAreFinal'
  BY <1>1, <1>2 DEF IInv, AnswersAreFinal
<1>10. AnswersAreDurable'
  BY <1>1, <1>2 DEF IInv, AnswersAreDurable
<1> QED
  BY <1>5, <1>6, <1>7, <1>8, <1>9, <1>10 DEF IInv

\* A completion: the record takes the row that the claimant inserted.
LEMMA CompleteIInv ==
  ASSUME TypeInv, IInv, NEW r \in Requests, Complete(r),
         record[key[r]].state = "pending"
  PROVE  IInv'
<1> DEFINE k == key[r]
           u == RowOf(r)
           b == AsJSONB(CreateURLResponse(u))
<1>1. /\ u \in URLs /\ u[1] = r /\ u \in urls
      /\ b \in Bodies /\ b.url = u
      /\ CreateURLResponse(u) \in Bodies /\ CreateURLResponse(u).url = u
      /\ k \in Keys /\ pc[r] = "complete"
  BY BodyFacts DEF RowOf, URLs, Complete, TypeInv, TypeOK, Keyed, NeedsKey, IInv,
                   CompletionsAreInserted
<1>2. /\ record' = [record EXCEPT ![k] = Completed(b)]
      /\ UNCHANGED <<key, attempt, urls, late>>
      /\ \A q \in Requests : pc'[q] = IF q = r THEN "done" ELSE pc[q]
      /\ \A q \in Requests \ {r} : status'[q] = status[q] /\ body'[q] = body[q]
      /\ status'[r] = "created" /\ body'[r] = CreateURLResponse(u)
  BY DEF Complete, Return, TypeInv, TypeOK
<1>3. \A j \in Keys : record'[j] = IF j = k THEN Completed(b) ELSE record[j]
  BY <1>1, <1>2 DEF TypeInv, TypeOK
<1>4. Completed(b).state = "completed" /\ Completed(b).body = b
  BY <1>1, RecordFacts
<1>5. key[u[1]] = k
  BY <1>1
<1>6. \A q \in Requests : status[q] = "created" => key[q] # k
  BY <1>1 DEF IInv, AnswersAreDurable
<1> HIDE DEF k, u, b
<1>7. \A q \in Requests : Claims(q)' => Claims(q)
  BY <1>2 DEF Claims, RowsOf, Inserts
<1>8. ClaimsAreReserved'
  BY <1>2, <1>3, <1>4, <1>7 DEF IInv, ClaimsAreReserved, TypeInv, TypeOK
<1>9. OneRowPerRequest'
  BY <1>2, <1>7 DEF IInv, OneRowPerRequest, RowsOf, Inserts
<1>10. CompletionsAreInserted'
  BY <1>2 DEF IInv, CompletionsAreInserted, RowOf
<1>11. RecordsAreMade'
  BY <1>1, <1>2, <1>3, <1>4, <1>5 DEF IInv, RecordsAreMade
<1>12. AnswersAreFinal'
  BY <1>1, <1>2, <1>3, <1>4
     DEF IInv, AnswersAreFinal, TypeInv, TypeOK, Keyed, NeedsKey
<1>13. AnswersAreDurable'
  BY <1>1, <1>2, <1>3, <1>4, <1>6
     DEF IInv, AnswersAreDurable, TypeInv, TypeOK, k
<1>14. RecordIsThere'
  BY <1>2 DEF IInv, RecordIsThere
<1> QED
  BY <1>8, <1>9, <1>10, <1>11, <1>12, <1>13, <1>14 DEF IInv
LEMMA StepIInv ==
  ASSUME TypeInv, IInv, NEW r \in Requests, Arrive(r) \/ Acquire(r) \/ Step(r)
  PROVE  IInv'
<1>0. pc[r] \in NeedsKey => key[r] \in Keys
  BY DEF TypeInv, Keyed
<1>1. CASE Arrive(r)
  <2>1. PICK k \in Keys \cup {None} :
          /\ key' = [key EXCEPT ![r] = k]
          /\ pc' = [pc EXCEPT ![r] = IF k = None THEN "create" ELSE "lock"]
    BY <1>1 DEF Arrive
  <2>2. /\ pc[r] = "idle"
        /\ UNCHANGED <<attempt, record, urls, late, status, body>>
        /\ \A q \in Requests : /\ key'[q] = IF q = r THEN k ELSE key[q]
                               /\ q # r => pc'[q] = pc[q]
        /\ pc'[r] \in {"create", "lock"}
        /\ pc'[r] = "create" => key'[r] = None
    BY <1>1, <2>1 DEF Arrive, TypeInv, TypeOK
  <2>3. RowsOf(r) = {} /\ Inserts(r) = {} /\ status[r] = "none"
    BY <2>2 DEF IInv, OneRowPerRequest, Claims, AnswersAreFinal
  <2>4. \A q \in Requests : Claims(q)' /\ key'[q] # None => q # r /\ Claims(q)
    BY <2>2, <2>3 DEF Claims, RowsOf, Inserts
  <2>5. ClaimsAreReserved'
    BY <2>2, <2>4 DEF IInv, ClaimsAreReserved
  <2>6. OneRowPerRequest'
    BY <2>2, <2>3 DEF IInv, OneRowPerRequest, Claims, RowsOf, Inserts
  <2>7. CompletionsAreInserted'
    BY <2>2 DEF IInv, CompletionsAreInserted, RowOf
  <2>8. RecordsAreMade'
    <3>1. \A u \in urls : u[1] # r /\ key'[u[1]] = key[u[1]]
      BY <2>2, <2>3 DEF RowsOf, TypeInv, TypeOK, URLs
    <3> QED
      BY <2>2, <3>1 DEF IInv, RecordsAreMade
  <2>9. AnswersAreFinal' /\ AnswersAreDurable' /\ RecordIsThere'
    BY <2>2, <2>3 DEF IInv, AnswersAreFinal, AnswersAreDurable, RecordIsThere
  <2> QED
    BY <2>5, <2>6, <2>7, <2>8, <2>9 DEF IInv
<1>2. CASE Acquire(r)
  BY <1>2, GotoIInv DEF Acquire, InHandler, Places
<1>3. CASE Get(r)
  BY <1>0, <1>3, ReplayIInv, GotoIInv DEF Get, Goto, NeedsKey, InHandler, Places
<1>4. CASE Reserve(r)
  <2>1. CASE record[key[r]].state = "absent"
    BY <1>4, <2>1, ReserveIInv
  <2>2. CASE record[key[r]].state # "absent"
    BY <1>4, <2>2, GotoIInv DEF Reserve, Goto, InHandler, Places
  <2> QED
    BY <2>1, <2>2
<1>5. CASE Reget(r)
  <2>1. record[key[r]].state # "absent"
    BY <1>5 DEF Reget, IInv, AnswersAreFinal
  <2> QED
    BY <1>0, <1>5, <2>1, ReplayIInv DEF Reget, NeedsKey
<1>6. CASE Refuse(r)
  BY <1>6, ReturnIInv DEF Refuse
<1>7. CASE Collide(r)
  <2>1. CASE attempt[r] < MaxAttempts
    BY <1>7, <2>1, GotoIInv DEF Collide, Goto, InHandler, Places, TypeInv, TypeOK
  <2>2. CASE ~ (attempt[r] < MaxAttempts)
    BY <1>7, <2>2, ReturnIInv DEF Collide
  <2> QED
    BY <2>1, <2>2
<1>8. CASE Insert(r)
  BY <1>8, InsertIInv
<1>9. CASE Complete(r)
  <2>1. CASE record[key[r]].state = "pending"
    BY <1>9, <2>1, CompleteIInv
  <2>2. CASE record[key[r]].state # "pending"
    BY <1>9, <2>2, ReturnIInv DEF Complete
  <2> QED
    BY <2>1, <2>2
<1>10. CASE Fail(r)
  BY <1>10, ReturnIInv DEF Fail
<1> QED
  BY <1>1, <1>2, <1>3, <1>4, <1>5, <1>6, <1>7, <1>8, <1>9, <1>10 DEF Step

\* A statement committed behind the back of its caller is still the only one
\* that can claim the key.
LEMMA LateCommitIInv ==
  ASSUME TypeInv, IInv, NEW s \in late, LateCommit(s)
  PROVE  IInv'
<1> DEFINE o == s.url[1]
           k == key[o]
           b == AsJSONB(CreateURLResponse(s.url))
<1>1. /\ s \in Statement /\ s.url \in URLs /\ o \in Requests
      /\ b \in Bodies /\ b.url = s.url
      /\ s.kind # "insert" => k \in Keys
  BY BodyFacts DEF TypeInv, TypeOK, Keyed, Statement, URLs
<1>2. /\ late' = late \ {s}
      /\ UNCHANGED <<pc, key, attempt, status, body>>
      /\ s.kind = "insert" => urls' = urls \cup {s.url} /\ record' = record
      /\ s.kind # "insert" => urls' = urls
  BY DEF LateCommit
<1>3. \A j \in Keys :
        \/ record'[j] = record[j]
        \/ /\ s.kind = "reserve" /\ record[j].state = "absent"
           /\ record'[j] = Pending
        \/ /\ s.kind = "complete" /\ record[j].state = "pending" /\ j = k
           /\ record'[j] = Completed(b)
  BY <1>1 DEF LateCommit, TypeInv, TypeOK
<1>4. Pending.state = "pending" /\ Completed(b).state = "completed"
      /\ Completed(b).body = b
  BY <1>1, RecordFacts
<1>5. \A j \in Keys : /\ record[j].state # "absent" => record'[j].state # "absent"
                      /\ record[j].state = "completed" => record'[j] = record[j]
  BY <1>3, <1>4
<1> HIDE DEF b
<1>6. \A q \in Requests :
        /\ Inserts(q)' = Inserts(q) \ {s}
        /\ RowsOf(q)' = IF s.kind = "insert" /\ q = o THEN RowsOf(q) \cup {s.url}
                                                      ELSE RowsOf(q)
        /\ s.kind = "insert" /\ q = o => s \in Inserts(q)
  BY <1>1, <1>2 DEF RowsOf, Inserts
<1>7. \A q \in Requests : Claims(q)' => Claims(q)
  BY <1>2, <1>6 DEF Claims
<1>8. ClaimsAreReserved'
  BY <1>2, <1>5, <1>7 DEF IInv, ClaimsAreReserved, TypeInv, TypeOK
<1>9. OneRowPerRequest'
  BY <1>2, <1>6, <1>7 DEF IInv, OneRowPerRequest
<1>10. CompletionsAreInserted'
  BY <1>2 DEF IInv, CompletionsAreInserted, RowOf
<1>11. RecordsAreMade'
  <2>1. s.kind = "complete" => s.url \in urls
    BY DEF IInv, CompletionsAreInserted
  <2> QED
    BY <1>1, <1>2, <1>3, <1>4, <2>1 DEF IInv, RecordsAreMade
<1>12. AnswersAreFinal'
  <2>1. \A q \in Requests : pc[q] = "reget" => key[q] \in Keys
    BY DEF TypeInv, Keyed, NeedsKey
  <2> QED
    BY <1>2, <1>5, <2>1 DEF IInv, AnswersAreFinal
<1>13. AnswersAreDurable'
  BY <1>2, <1>5 DEF IInv, AnswersAreDurable, TypeInv, TypeOK
<1>14. RecordIsThere'
  BY <1>2 DEF IInv, RecordIsThere
<1> QED
  BY <1>8, <1>9, <1>10, <1>11, <1>12, <1>13, <1>14 DEF IInv

\* A crash turns the claims of the killed handlers into late statements.
LEMMA CrashIInv ==
  ASSUME TypeInv, IInv, NEW i \in Instances, Crash(i)
  PROVE  IInv'
<1> DEFINE killed == {r \in Requests : inst[r] = i /\ pc[r] \in InHandler}
<1>1. /\ UNCHANGED <<key, attempt, record, urls, body>>
      /\ \A q \in Requests : /\ pc'[q] = IF q \in killed THEN "done" ELSE pc[q]
                             /\ status'[q] = IF q \in killed THEN "lost" ELSE status[q]
      /\ \A q \in killed : pc[q] # "idle" /\ pc[q] # "done"
  BY DEF Crash, InHandler, Places
<1>2. /\ \A s \in late' : s \in late \/ \E q \in killed : s \in InFlight(q)
      /\ \A s \in late : s \in late'
  BY DEF Crash
<1> HIDE DEF killed
<1>3. \A q \in Requests : \A s \in Inserts(q)' :
        s \in Inserts(q) \/ (q \in killed /\ pc[q] = "create" /\ s \in InFlight(q))
  BY <1>2, InFlightFacts DEF Inserts, killed
<1>4. \A q \in Requests : RowsOf(q)' = RowsOf(q) /\ (Claims(q)' => Claims(q))
  BY <1>1, <1>3 DEF RowsOf, Claims
<1>5. ClaimsAreReserved'
  BY <1>1, <1>4 DEF IInv, ClaimsAreReserved
<1>6. OneRowPerRequest'
  <2>1. \A q \in Requests : pc[q] = "create" =>
          \A s, t \in InFlight(q) : s = t
    BY DEF InFlight
  <2>2. \A q \in Requests : pc'[q] = "create" => q \notin killed /\ pc[q] = "create"
    BY <1>1
  <2> QED
    BY <1>1, <1>3, <1>4, <2>1, <2>2 DEF IInv, OneRowPerRequest
<1>7. CompletionsAreInserted'
  <2>1. \A q \in Requests : RowOf(q)' = RowOf(q)
    BY <1>1 DEF RowOf
  <2>2. \A q \in Requests : \A s \in InFlight(q) : s.kind = "complete" => s.url \in urls
    BY InFlightFacts DEF IInv, CompletionsAreInserted
  <2> QED
    BY <1>1, <1>2, <2>1, <2>2 DEF IInv, CompletionsAreInserted, killed
<1>8. RecordsAreMade'
  BY <1>1 DEF IInv, RecordsAreMade
<1>9. AnswersAreFinal' /\ AnswersAreDurable' /\ RecordIsThere'
  BY <1>1 DEF IInv, AnswersAreFinal, AnswersAreDurable, RecordIsThere
<1> QED
  BY <1>5, <1>6, <1>7, <1>8, <1>9 DEF IInv

LEMMA NextIInv == TypeInv /\ IInv /\ [Next]_vars => IInv'
<1> SUFFICES ASSUME TypeInv, IInv, [Next]_vars PROVE IInv'
  OBVIOUS
<1>1. CASE UNCHANGED vars
  BY <1>1 DEF vars, IInv, ClaimsAreReserved, Claims, RowsOf, Inserts, RowOf,
       OneRowPerRequest, CompletionsAreInserted, RecordsAreMade, AnswersAreFinal,
       AnswersAreDurable, RecordIsThere
<1> QED
  BY <1>1, StepIInv, LateCommitIInv, CrashIInv DEF Next

\* The inductive invariant holds in every reachable state.
THEOREM Invariance == Spec => [](TypeInv /\ IInv)
  BY InitTypeInv, InitIInv, NextTypeInv, NextIInv, PTL DEF Spec

\* No two URL rows are ever inserted for one key, on any number of instances,
\* with any crashes, lost acknowledgements and late commits.
THEOREM NoDuplicateCreation == Spec => []AtMostOneURLPerKey
<1>1. TypeInv /\ IInv => AtMostOneURLPerKey
  BY DEF TypeInv, TypeOK, IInv, ClaimsAreReserved, OneRowPerRequest, Claims, RowsOf,
         AtMostOneURLPerKey, URLs
<1> QED
  BY Invariance, <1>1, PTL

\* A 201 is durable: the record of its key is completed with the same URL.
THEOREM DurableAnswers == Spec => []AnswersAreDurable
<1>1. TypeInv /\ IInv => AnswersAreDurable
  BY DEF IInv
<1> QED
  BY Invariance, <1>1, PTL

\* The handler's branch for a missing record after a conflict is dead code.
THEOREM RecordFound == Spec => []RecordIsThere
<1>1. TypeInv /\ IInv => RecordIsThere
  BY DEF IInv
<1> QED
  BY Invariance, <1>1, PTL
-----------------------------------------------------------------------------
(* The mutex of a key on an instance.                                       *)

PastLock == {"get", "reserve", "reget", "create", "complete"}

\* A request with a key holds the mutex of its key on its instance from Lock to
\* the deferred Unlock.
HoldsMutex ==
  /\ \A r \in Requests : pc[r] \in InHandler => inst[r] \in Instances
  /\ \A r \in Requests : pc[r] \in PastLock /\ key[r] # None =>
       lock[inst[r]][key[r]] = r

LEMMA ReturnHoldsMutex ==
  ASSUME TypeInv, HoldsMutex, NEW r \in Requests, pc[r] \in PastLock, NEW s, NEW b,
         Return(r, s, b)
  PROVE  HoldsMutex'
<1>1. /\ \A q \in Requests : pc'[q] = IF q = r THEN "done" ELSE pc[q]
      /\ UNCHANGED <<inst, key>>
  BY DEF Return, TypeInv, TypeOK
<1>2. ASSUME NEW q \in Requests, q # r, pc[q] \in PastLock, key[q] # None
      PROVE  lock'[inst[q]][key[q]] = q
  <2>1. /\ inst[q] \in Instances /\ key[q] \in Keys /\ lock[inst[q]][key[q]] = q
        /\ inst[r] \in Instances /\ key[r] # None => key[r] \in Keys
    BY <1>2 DEF HoldsMutex, PastLock, InHandler, Places, TypeInv, TypeOK
  <2>2. CASE key[r] = None
    BY <2>1, <2>2 DEF Return, Unlock
  <2>3. CASE key[r] # None
    <3>1. lock[inst[r]][key[r]] = r
      BY <2>3 DEF HoldsMutex
    <3>2. inst[q] # inst[r] \/ key[q] # key[r]
      BY <1>2, <2>1, <3>1
    <3>3. lock' = [lock EXCEPT ![inst[r]][key[r]] = None]
      BY <2>3 DEF Return, Unlock
    <3> QED
      BY <2>1, <2>3, <3>2, <3>3 DEF TypeInv, TypeOK
  <2> QED
    BY <2>2, <2>3
<1> QED
  BY <1>1, <1>2 DEF HoldsMutex, PastLock, InHandler, Places

LEMMA NextHoldsMutex == TypeInv /\ HoldsMutex /\ [Next]_vars => HoldsMutex'
<1> SUFFICES ASSUME TypeInv, HoldsMutex, [Next]_vars PROVE HoldsMutex'
  OBVIOUS
<1>1. ASSUME NEW r \in Requests, Step(r)
      PROVE  HoldsMutex'
  <2>1. pc[r] \in PastLock
    BY <1>1 DEF Step, Get, Reserve, Reget, Refuse, Collide, Insert, Complete, Fail, PastLock
  <2>2. \/ \E s, b : Return(r, s, b)
        \/ \E place \in PastLock : Goto(r, place)
    BY <1>1 DEF Step, Get, Reserve, Reget, Refuse, Collide, Insert, Complete, Fail, Replay,
                PastLock
  <2>3. ASSUME NEW place \in PastLock, Goto(r, place)
        PROVE  HoldsMutex'
    BY <2>1, <2>3 DEF Goto, HoldsMutex, PastLock, InHandler, Places, TypeInv, TypeOK
  <2> QED
    BY <2>1, <2>2, <2>3, ReturnHoldsMutex
<1>2. ASSUME NEW r \in Requests, Arrive(r)
      PROVE  HoldsMutex'
  <2>1. PICK i \in Instances : inst' = [inst EXCEPT ![r] = i]
    BY <1>2 DEF Arrive
  <2>2. PICK k \in Keys \cup {None} :
          /\ key' = [key EXCEPT ![r] = k]
          /\ pc' = [pc EXCEPT ![r] = IF k = None THEN "create" ELSE "lock"]
    BY <1>2 DEF Arrive
  <2>3. /\ inst'[r] = i /\ key'[r] = k /\ (pc'[r] \in PastLock => k = None)
        /\ \A q \in Requests : q # r =>
             inst'[q] = inst[q] /\ key'[q] = key[q] /\ pc'[q] = pc[q]
        /\ lock' = lock
    BY <1>2, <2>1, <2>2 DEF Arrive, TypeInv, TypeOK, PastLock
  <2> QED
    BY <2>3 DEF HoldsMutex
<1>3. ASSUME NEW r \in Requests, Acquire(r)
      PROVE  HoldsMutex'
  <2>1. inst[r] \in Instances /\ key[r] \in Keys /\ lock[inst[r]][key[r]] = None
    BY <1>3 DEF Acquire, HoldsMutex, InHandler, Places, TypeInv, Keyed, NeedsKey
  <2>2. lock' = [lock EXCEPT ![inst[r]][key[r]] = r] /\ UNCHANGED <<inst, key>>
    BY <1>3 DEF Acquire
  <2>3. lock'[inst[r]][key[r]] = r
    BY <2>1, <2>2 DEF TypeInv, TypeOK
  <2>4. ASSUME NEW q \in Requests, q # r, pc[q] \in PastLock, key[q] # None
        PROVE  lock'[inst[q]][key[q]] = q
    <3>1. /\ inst[q] \in Instances /\ key[q] \in Keys
          /\ lock[inst[q]][key[q]] = q /\ q # None
      BY <2>4 DEF HoldsMutex, PastLock, InHandler, Places, TypeInv, TypeOK
    <3>2. inst[q] # inst[r] \/ key[q] # key[r]
      BY <2>1, <3>1
    <3> QED
      BY <2>1, <2>2, <3>1, <3>2 DEF TypeInv, TypeOK
  <2>5. \A q \in Requests : pc'[q] = IF q = r THEN "get" ELSE pc[q]
    BY <1>3 DEF Acquire, TypeInv, TypeOK
  <2> QED
    BY <2>1, <2>2, <2>3, <2>4, <2>5 DEF HoldsMutex
<1>4. ASSUME NEW i \in Instances, Crash(i)
      PROVE  HoldsMutex'
  <2>1. \A q \in Requests : pc'[q] \in InHandler => pc'[q] = pc[q] /\ inst[q] # i
    BY <1>4 DEF Crash, InHandler
  <2>2. \A j \in Instances : j # i => lock'[j] = lock[j]
    BY <1>4 DEF Crash, TypeInv, TypeOK
  <2>3. UNCHANGED <<inst, key>>
    BY <1>4 DEF Crash
  <2> QED
    BY <2>1, <2>2, <2>3 DEF HoldsMutex, PastLock, InHandler, Places
<1>5. ASSUME NEW s \in late, LateCommit(s)
      PROVE  HoldsMutex'
  BY <1>5 DEF LateCommit, HoldsMutex
<1>6. CASE UNCHANGED vars
  BY <1>6 DEF vars, HoldsMutex
<1> QED
  BY <1>1, <1>2, <1>3, <1>4, <1>5, <1>6 DEF Next

\* LocalDuplicatesWait: the mutex of a key keeps the duplicates on one instance out
\* of CreateURL until their predecessor has its answer, so that only a request on
\* another instance, or what a failed one left behind, makes a 409.
THEOREM LocalDuplicatesWaitHolds == Spec => LocalDuplicatesWait
<1>1. Init => HoldsMutex
  BY DEF Init, HoldsMutex, InHandler, PastLock
<1>2. TypeInv /\ HoldsMutex /\ [Next]_vars =>
        [\A r \in Requests :
           status[r] = "none" /\ status'[r] = "conflict" =>
             ~ \E o \in Requests : Owns(o, key[r]) /\ inst[o] = inst[r]]_vars
  <2> SUFFICES ASSUME TypeInv, HoldsMutex, Next, NEW r \in Requests,
                      status[r] = "none", status'[r] = "conflict",
                      NEW o \in Requests, Owns(o, key[r]), inst[o] = inst[r]
               PROVE  FALSE
    OBVIOUS
  <2>1. pc[r] \in {"get", "reget"}
    <3>1. ASSUME NEW q \in Requests, Step(q)
          PROVE  pc[r] \in {"get", "reget"}
      BY <3>1 DEF Step, Get, Reserve, Reget, Refuse, Collide, Insert, Complete, Fail,
                  Replay, Return, Goto, TypeInv, TypeOK
    <3>2. ASSUME NEW i \in Instances, Crash(i)
          PROVE  FALSE
      BY <3>2 DEF Crash
    <3> QED
      BY <3>1, <3>2 DEF Next, Arrive, Acquire, LateCommit
  <2>2. key[r] \in Keys
    BY <2>1 DEF TypeInv, Keyed, NeedsKey
  <2>3. lock[inst[r]][key[r]] = r /\ lock[inst[o]][key[o]] = o
    BY <2>1, <2>2 DEF HoldsMutex, PastLock, Owns
  <2>4. o = r
    BY <2>3 DEF Owns
  <2> QED
    BY <2>1, <2>4 DEF Owns
<1> QED
  BY <1>1, <1>2, InitTypeInv, NextTypeInv, NextHoldsMutex, PTL DEF Spec, LocalDuplicatesWait
-----------------------------------------------------------------------------
(* Action properties and the refinement of CreateOnce.                      *)

\* No step takes a record back or changes a completed response.
THEOREM AdvancingRecords == Spec => RecordsOnlyAdvance
<1>1. TypeInv /\ [Next]_vars =>
        [\A k \in Keys :
           record'[k] # record[k] =>
             \/ record[k].state = "absent" /\ record'[k].state = "pending"
             \/ record[k].state = "pending" /\ record'[k].state = "completed"]_vars
  <2> SUFFICES ASSUME TypeInv, Next, NEW k \in Keys, record'[k] # record[k]
               PROVE  \/ record[k].state = "absent" /\ record'[k].state = "pending"
                      \/ record[k].state = "pending" /\ record'[k].state = "completed"
    OBVIOUS
  <2> USE DEF TypeInv, TypeOK
  <2>1. ASSUME NEW r \in Requests, Step(r) \/ Arrive(r) \/ Acquire(r)
        PROVE  Reserve(r) \/ Complete(r)
    BY <2>1 DEF Step, Arrive, Acquire, Get, Reget, Refuse, Collide, Insert, Fail
  <2>2. ASSUME NEW r \in Requests, Reserve(r)
        PROVE  record[k].state = "absent" /\ record'[k].state = "pending"
    BY <2>2, RecordFacts DEF Reserve
  <2>3. ASSUME NEW r \in Requests, Complete(r)
        PROVE  record[k].state = "pending" /\ record'[k].state = "completed"
    <3>1. AsJSONB(CreateURLResponse(RowOf(r))) \in Bodies
      BY BodyFacts DEF RowOf, URLs
    <3> QED
      BY <2>3, <3>1, RecordFacts DEF Complete
  <2>4. ASSUME NEW s \in late, LateCommit(s)
        PROVE  \/ record[k].state = "absent" /\ record'[k].state = "pending"
               \/ record[k].state = "pending" /\ record'[k].state = "completed"
    <3>1. AsJSONB(CreateURLResponse(s.url)) \in Bodies
      BY BodyFacts DEF Statement
    <3> QED
      BY <2>4, <3>1, RecordFacts DEF LateCommit
  <2>5. ASSUME NEW i \in Instances, Crash(i) PROVE FALSE
    BY <2>5 DEF Crash
  <2> QED
    BY <2>1, <2>2, <2>3, <2>4, <2>5 DEF Next
<1>2. Spec => [](TypeInv)
  BY InitTypeInv, NextTypeInv, PTL DEF Spec
<1> QED
  BY <1>1, <1>2, PTL DEF Spec, RecordsOnlyAdvance

\* The abstract state of the refinement.
Made == [k \in Keys |-> {u \in urls : key[u[1]] = k}]
Told == [r \in Requests |-> IF status[r] = "created" THEN {body[r].url} ELSE {}]

LEMMA InitRefines == Init => Promise!Init
  BY DEF Init, Promise!Init

\* Nothing a client could notice.
LEMMA Unnoticed ==
  ASSUME UNCHANGED <<key, urls>>,
         \A q \in Requests : status'[q] = "created" <=> status[q] = "created",
         \A q \in Requests : status[q] = "created" => body'[q] = body[q]
  PROVE  UNCHANGED Promise!vars
  BY DEF Promise!vars

\* A 201 that names a URL made for the key is an answer of the promise.
LEMMA TellRefines ==
  ASSUME TypeInv, IInv, NEW r \in Requests, pc[r] \notin {"idle", "done"},
         NEW b \in Bodies, Return(r, "created", b),
         key[r] \in Keys => b.url \in urls /\ key[b.url[1]] = key[r],
         urls' = urls \/ (key[r] = None /\ urls' = urls \cup {RowOf(r)})
  PROVE  [Promise!Next]_(Promise!vars)
<1>1. key' = key /\ status[r] = "none"
  BY DEF Return, IInv, AnswersAreFinal
<1>2. \A q \in Requests : status'[q] = (IF q = r THEN "created" ELSE status[q])
                          /\ body'[q] = (IF q = r THEN b ELSE body[q])
  BY DEF Return, TypeInv, TypeOK
<1>3. Told' = [Told EXCEPT ![r] = {b.url}]
  BY <1>2 DEF Told
<1>4. Made' = Made
  BY <1>1 DEF Made, RowOf
<1>5. Told[r] = {} /\ (key[r] \in Keys => b.url \in Made[key[r]])
  BY <1>1 DEF Told, Made
<1>6. PICK u \in URLs : u = b.url
  BY DEF Bodies
<1>7. Promise!Tell(r, u)
  BY <1>1, <1>3, <1>4, <1>5, <1>6 DEF Promise!Tell, Told, Made
<1> QED
  BY <1>7 DEF Promise!Next

\* A row that joins urls is the URL of its key, or of no key.
LEMMA MakeRefines ==
  ASSUME TypeInv, IInv, NEW r \in Requests, NEW u \in URLs, u[1] = r,
         urls' = urls \cup {u}, UNCHANGED <<key, status, body>>,
         Claims(r), RowsOf(r) = {}
  PROVE  [Promise!Next]_(Promise!vars)
<1>1. Told' = Told
  BY DEF Told
<1>2. CASE key[r] = None
  <2>1. Made' = Made
    BY <1>2 DEF Made
  <2> QED
    BY <1>1, <2>1 DEF Promise!vars, Made, Told
<1>3. CASE key[r] \in Keys
  <2> DEFINE k == key[r]
  <2>1. Made[k] = {}
    <3>1. \A v \in urls : v[1] \in Requests /\ Claims(v[1])
      BY DEF Claims, RowsOf, TypeInv, TypeOK, URLs
    <3>2. \A v \in urls : key[v[1]] # k
      BY <1>3, <3>1 DEF IInv, ClaimsAreReserved, RowsOf
    <3> QED
      BY <1>3, <3>2 DEF Made
  <2>2. Made' = [Made EXCEPT ![k] = {u}]
    BY <1>3, <2>1 DEF Made
  <2> QED
    BY <1>1, <1>3, <2>1, <2>2 DEF Promise!Make, Promise!Next, Made, Told
<1> QED
  BY <1>2, <1>3 DEF TypeInv, TypeOK

LEMMA ReplayRefines ==
  ASSUME TypeInv, IInv, NEW r \in Requests, pc[r] \in {"get", "reget"},
         record[key[r]].state # "absent",
         Replay(r, record[key[r]]), UNCHANGED urls
  PROVE  [Promise!Next]_(Promise!vars)
<1>1. key[r] \in Keys /\ status[r] = "none"
  BY DEF TypeInv, Keyed, NeedsKey, IInv, AnswersAreFinal
<1>2. CASE record[key[r]].state = "pending"
  BY <1>1, <1>2, Unnoticed DEF Replay, Return, TypeInv, TypeOK
<1>3. CASE record[key[r]].state # "pending"
  <2>1. record[key[r]].state = "completed"
    BY <1>1, <1>3 DEF TypeInv, TypeOK, Records, States
  <2> QED
    BY <1>1, <1>3, <2>1, TellRefines DEF Replay, IInv, RecordsAreMade
<1> QED
  BY <1>2, <1>3

LEMMA StepRefines ==
  ASSUME TypeInv, IInv, NEW r \in Requests, Arrive(r) \/ Acquire(r) \/ Step(r)
  PROVE  [Promise!Next]_(Promise!vars)
<1>0. RowOf(r) \in URLs /\ RowOf(r)[1] = r
  BY DEF RowOf, URLs, TypeInv, TypeOK
<1>1. CASE Arrive(r)
  <2>1. PICK k \in Keys \cup {None} : key' = [key EXCEPT ![r] = k]
    BY <1>1 DEF Arrive
  <2>2. \A u \in urls : u[1] \in Requests /\ u[1] # r
    BY <1>1 DEF Arrive, IInv, OneRowPerRequest, Claims, RowsOf, TypeInv, TypeOK, URLs
  <2>3. Made' = Made /\ Told' = Told
    BY <1>1, <2>1, <2>2 DEF Arrive, Made, Told, TypeInv, TypeOK
  <2>4. CASE key[r] = None /\ k \in Keys
    BY <2>1, <2>3, <2>4 DEF Promise!Next, Promise!Ask, Made, Told
  <2>5. CASE key[r] = None /\ k = None
    BY <2>1, <2>3, <2>5 DEF Promise!vars, Made, Told, TypeInv, TypeOK
  <2>6. key[r] = None
    BY <1>1 DEF Arrive, IInv, OneRowPerRequest
  <2> QED
    BY <2>4, <2>5, <2>6
<1>2. CASE Acquire(r)
  BY <1>2, Unnoticed DEF Acquire
<1>3. CASE Get(r)
  BY <1>3, ReplayRefines, Unnoticed DEF Get, Goto
<1>4. CASE Reserve(r)
  BY <1>4, Unnoticed DEF Reserve, Goto
<1>5. CASE Reget(r)
  BY <1>5, ReplayRefines DEF Reget, IInv, AnswersAreFinal
<1>6. ASSUME NEW s \in Statuses \ {"created"}, Return(r, s, None), UNCHANGED urls,
             pc[r] \notin {"idle", "done"}
      PROVE  UNCHANGED Promise!vars
  BY <1>6, Unnoticed DEF Return, IInv, AnswersAreFinal, TypeInv, TypeOK
<1>7. CASE Refuse(r)
  BY <1>6, <1>7 DEF Refuse, Statuses
<1>8. CASE Collide(r)
  <2>1. CASE attempt[r] < MaxAttempts
    BY <1>8, <2>1, Unnoticed DEF Collide, Goto
  <2>2. CASE ~ (attempt[r] < MaxAttempts)
    BY <1>6, <1>8, <2>2 DEF Collide, Statuses
  <2> QED
    BY <2>1, <2>2
<1>9. CASE Insert(r)
  <2>1. CASE key[r] = None
    BY <1>0, <1>9, <2>1, BodyFacts, TellRefines DEF Insert
  <2>2. CASE key[r] # None
    BY <1>0, <1>9, <2>2, MakeRefines DEF Insert, Goto, Claims, IInv, OneRowPerRequest
  <2> QED
    BY <2>1, <2>2
<1>10. CASE Complete(r)
  <2>1. CASE record[key[r]].state = "pending"
    BY <1>0, <1>10, <2>1, BodyFacts, TellRefines
       DEF Complete, IInv, CompletionsAreInserted
  <2>2. CASE record[key[r]].state # "pending"
    BY <1>6, <1>10, <2>2 DEF Complete, Statuses
  <2> QED
    BY <2>1, <2>2
<1>11. CASE Fail(r)
  BY <1>6, <1>11 DEF Fail, Statuses
<1> QED
  BY <1>1, <1>2, <1>3, <1>4, <1>5, <1>7, <1>8, <1>9, <1>10, <1>11 DEF Step

LEMMA EnvironmentRefines ==
  ASSUME TypeInv, IInv,
         (\E s \in late : LateCommit(s)) \/ (\E i \in Instances : Crash(i))
  PROVE  [Promise!Next]_(Promise!vars)
<1>1. ASSUME NEW s \in late, LateCommit(s), s.kind = "insert"
      PROVE  [Promise!Next]_(Promise!vars)
  <2>1. s.url \in URLs /\ s.url[1] \in Requests /\ s \in Inserts(s.url[1])
    BY <1>1 DEF TypeInv, TypeOK, Statement, URLs, Inserts
  <2>2. Claims(s.url[1]) /\ RowsOf(s.url[1]) = {}
    BY <2>1 DEF Claims, IInv, OneRowPerRequest
  <2> QED
    BY <1>1, <2>1, <2>2, MakeRefines DEF LateCommit
<1>2. ASSUME NEW s \in late, LateCommit(s), s.kind # "insert"
      PROVE  [Promise!Next]_(Promise!vars)
  BY <1>2, Unnoticed DEF LateCommit
<1>3. ASSUME NEW i \in Instances, Crash(i)
      PROVE  [Promise!Next]_(Promise!vars)
  BY <1>3, Unnoticed DEF Crash, IInv, AnswersAreFinal, InHandler
<1> QED
  BY <1>1, <1>2, <1>3

\* The handler, the lock and the two tables implement the promise.
THEOREM Refinement == Spec => ImplementsCreateOnce
<1>1. TypeInv /\ IInv /\ [Next]_vars => [Promise!Next]_(Promise!vars)
  <2>1. UNCHANGED vars => UNCHANGED Promise!vars
    BY DEF vars, Promise!vars
  <2> QED
    BY <2>1, StepRefines, EnvironmentRefines DEF Next
<1> QED
  BY Invariance, InitRefines, <1>1, PTL DEF Spec, ImplementsCreateOnce, Promise!Spec
=============================================================================
