--------------------------- MODULE URLCache_proofs ---------------------------
(***************************************************************************)
(* Proofs about URLCache, for every set of requests, codes, users and      *)
(* destinations and every value of the bounds.                             *)
(***************************************************************************)
EXTENDS URLCache, TLAPS

USE NoneAssumption, BoundsAssumption

-----------------------------------------------------------------------------
(* The inductive invariant.                                                *)

\* Places of a PATCH or DELETE that has read its row.
Owning == {"write", "reread", "delete", "invalidate"}

\* Ids are given out once and in order.
Numbered == \A i \in Ids : rows[i] # None => i < nextId

\* What the table shows now is part of what it ever showed.
ActiveWasShown ==
  \A i \in Ids : rows[i] # None /\ rows[i].active => rows[i] \in shown

\* A redirect that is about to fill holds a row that was visible.
FillsVisibleRow ==
  \A q \in Requests : pc[q] = "fill" =>
    loc[q] # None /\ loc[q].code = code[q] /\ loc[q] \in shown

\* A PATCH or DELETE holds a row of its user.  The row in the table may have
\* another destination by then, or be gone, but its code and its owner are
\* those that were read, because nothing changes them and no id is reused.
HoldsOwnRow ==
  \A q \in Requests : pc[q] \in Owning =>
    /\ loc[q] # None /\ loc[q].id < nextId
    /\ rows[loc[q].id] # None =>
         /\ rows[loc[q].id].owner = user[q]
         /\ rows[loc[q].id].code = loc[q].code

Inv == TypeOK /\ Numbered /\ ActiveWasShown /\ FillsVisibleRow /\ HoldsOwnRow

-----------------------------------------------------------------------------
(* Steps.                                                                  *)

\* What q holds where it holds a row.
LEMMA HeldFacts ==
  ASSUME Inv, NEW q \in Requests, pc[q] \in Owning \/ pc[q] = "fill"
  PROVE  loc[q] \in Row /\ loc[q].id \in Ids /\ loc[q].code \in Codes
  BY DEF Inv, TypeOK, FillsVisibleRow, HoldsOwnRow, Row

LEMMA RowFacts ==
  ASSUME Inv, NEW i \in Ids, rows[i] # None
  PROVE  /\ rows[i] \in Row /\ rows[i].id = i /\ i < nextId
         /\ rows[i].code \in Codes /\ rows[i].owner \in Users
  BY DEF Inv, TypeOK, Numbered, Row

LEMMA VisibleFacts ==
  ASSUME Inv, NEW c \in Codes, NEW row \in Visible(c)
  PROVE  row \in Row /\ row # None /\ row.code = c /\ row \in shown
  BY DEF Inv, TypeOK, Visible, ActiveWasShown

\* The history loses nothing and takes up what the new table shows.
LEMMA RememberFacts ==
  ASSUME rows' \in [Ids -> Row \cup {None}], shown \in SUBSET Row, Remember
  PROVE  shown' \in SUBSET Row /\ shown \subseteq shown' /\ ActiveWasShown'
<1>1. \A i \in Ids : rows'[i] # None => rows'[i] \in Row
  OBVIOUS
<1> QED
  BY <1>1 DEF Remember, ActiveWasShown

LEMMA CreateURLInv ==
  ASSUME Inv, NEW q \in Requests, CreateURL(q)
  PROVE  Inv'
<1>1. PICK c \in Codes, u \in Users, d \in Dests :
        /\ rows' = [rows EXCEPT ![nextId] = [id |-> nextId, code |-> c, owner |-> u,
                                             dest |-> d, active |-> TRUE]]
        /\ user' = [user EXCEPT ![q] = u]
  BY DEF CreateURL
<1> DEFINE row == [id |-> nextId, code |-> c, owner |-> u, dest |-> d, active |-> TRUE]
<1>2. /\ nextId \in Ids /\ row \in Row /\ row.id = nextId
      /\ rows' = [rows EXCEPT ![nextId] = row]
  <2>1. nextId \in Ids
    BY DEF CreateURL, Inv, TypeOK, Ids
  <2>2. row \in Row /\ row.id = nextId
    BY <2>1 DEF Row
  <2> QED
    BY <1>1, <2>1, <2>2
<1> HIDE DEF row
<1>3. /\ nextId' = nextId + 1 /\ pc' = [pc EXCEPT ![q] = "done"]
      /\ user' = [user EXCEPT ![q] = u]
      /\ UNCHANGED <<cache, loc, code, faults, suspect>>
  BY <1>1 DEF CreateURL, Goto
<1>4. shown' \in SUBSET Row /\ shown \subseteq shown' /\ ActiveWasShown'
  <2>1. rows' \in [Ids -> Row \cup {None}]
    BY <1>2 DEF Inv, TypeOK
  <2> QED
    BY <2>1, RememberFacts DEF CreateURL, Inv, TypeOK
<1>5. TypeOK'
  BY <1>2, <1>3, <1>4 DEF Inv, TypeOK, Ids, Places
<1>6. Numbered' /\ FillsVisibleRow'
  BY <1>2, <1>3, <1>4 DEF Inv, TypeOK, Numbered, FillsVisibleRow, Ids
<1>7. HoldsOwnRow'
  <2> SUFFICES ASSUME NEW p \in Requests, pc'[p] \in Owning
               PROVE  HoldsOwnRow!(p)'
    BY DEF HoldsOwnRow
  <2>1. p # q /\ pc[p] \in Owning /\ loc'[p] = loc[p] /\ user'[p] = user[p]
    BY <1>1, <1>3 DEF Inv, TypeOK, Owning
  <2>2. loc[p].id \in Ids /\ loc[p].id < nextId
    BY <2>1, HeldFacts DEF Inv, HoldsOwnRow
  <2> QED
    BY <2>1, <2>2, <1>2, <1>3 DEF Inv, TypeOK, HoldsOwnRow, Ids
<1> QED
  BY <1>4, <1>5, <1>6, <1>7 DEF Inv

LEMMA RedirectInv ==
  ASSUME Inv, NEW q \in Requests, Redirect(q)
  PROVE  Inv'
<1>1. CASE RedirectHit(q)
  BY <1>1 DEF RedirectHit, Hold, Goto, Inv, TypeOK, Numbered, ActiveWasShown,
              FillsVisibleRow, HoldsOwnRow, Owning, Places
<1>2. CASE RedirectMiss(q)
  BY <1>2 DEF RedirectMiss, Goto, Fault, NoFault, Inv, TypeOK, Numbered,
              ActiveWasShown, FillsVisibleRow, HoldsOwnRow, Owning, Places
<1>3. CASE RedirectFind(q)
  <2>1. CASE Goto(q, "done") /\ UNCHANGED loc
    BY <1>3, <2>1 DEF RedirectFind, Goto, Inv, TypeOK, Numbered,
              ActiveWasShown, FillsVisibleRow, HoldsOwnRow, Owning, Places
  <2>2. ASSUME NEW row \in Visible(code[q]), Hold(q, row), Goto(q, "fill")
        PROVE  Inv'
    <3>1. row \in Row /\ row # None /\ row.code = code[q] /\ row \in shown
      BY VisibleFacts DEF Inv, TypeOK
    <3> QED
      BY <1>3, <2>2, <3>1 DEF RedirectFind, Hold, Goto, Inv, TypeOK, Numbered,
              ActiveWasShown, FillsVisibleRow, HoldsOwnRow, Owning, Places
  <2> QED
    BY <1>3, <2>1, <2>2 DEF RedirectFind
<1>4. CASE RedirectFill(q)
  <2>1. loc[q] \in Row
    BY <1>4, HeldFacts DEF RedirectFill
  <2> QED
    BY <1>4, <2>1 DEF RedirectFill, Goto, Fault, NoFault, Inv, TypeOK, Numbered,
              ActiveWasShown, FillsVisibleRow, HoldsOwnRow, Owning, Places
<1> QED
  BY <1>1, <1>2, <1>3, <1>4 DEF Redirect

\* The row of q, when it is there, keeps its id, code and owner in UpdateWrite
\* and goes in DeleteRow; no other row is touched.
LEMMA WriteFacts ==
  ASSUME Inv, NEW q \in Requests, UpdateWrite(q) \/ DeleteRow(q)
  PROVE  /\ rows' \in [Ids -> Row \cup {None}]
         /\ \A i \in Ids : rows'[i] # rows[i] => i = loc[q].id /\ rows[i] # None
         /\ \A i \in Ids : rows'[i] # None =>
              /\ rows[i] # None
              /\ rows'[i].id = rows[i].id
              /\ rows'[i].code = rows[i].code
              /\ rows'[i].owner = rows[i].owner
<1>1. /\ loc[q] \in Row /\ loc[q].id \in Ids
      /\ loc[q].dest \in Dests /\ loc[q].active \in BOOLEAN
  BY HeldFacts DEF UpdateWrite, DeleteRow, Owning, Row
<1>2. CASE rows[loc[q].id] = None \/ DeleteRow(q)
  BY <1>1, <1>2 DEF UpdateWrite, DeleteRow, Inv, TypeOK
<1>3. CASE rows[loc[q].id] # None /\ UpdateWrite(q)
  <2> DEFINE i == loc[q].id
             new == [rows[i] EXCEPT !.dest = loc[q].dest, !.active = loc[q].active]
  <2>1. rows[i] \in Row
    BY <1>1, <1>3, RowFacts
  <2>2. /\ new \in Row /\ new.id = rows[i].id
        /\ new.code = rows[i].code /\ new.owner = rows[i].owner
    BY <1>1, <2>1 DEF Row
  <2>3. rows' = [rows EXCEPT ![i] = new]
    BY <1>1, <1>3, <2>1 DEF UpdateWrite, Inv, TypeOK, Row
  <2> HIDE DEF new
  <2> QED
    BY <1>1, <1>3, <2>2, <2>3 DEF Inv, TypeOK
<1> QED
  BY <1>2, <1>3

LEMMA WriteInv ==
  ASSUME Inv, NEW q \in Requests, UpdateWrite(q) \/ DeleteRow(q)
  PROVE  Inv'
<1>1. /\ UNCHANGED <<nextId, cache, user, loc, code>>
      /\ pc[q] \in Owning
      /\ pc' = [pc EXCEPT ![q] = "done"] \/ pc' = [pc EXCEPT ![q] = "invalidate"]
      /\ suspect' = suspect \/ suspect' = suspect \cup {loc[q].code}
      /\ faults' = faults \/ (faults < MaxFaults /\ faults' = faults + 1)
  BY DEF UpdateWrite, DeleteRow, Goto, Fault, NoFault, Owning
<1>2. loc[q].code \in Codes
  BY <1>1, HeldFacts
<1>3. shown' \in SUBSET Row /\ shown \subseteq shown' /\ ActiveWasShown'
  <2>1. CASE UpdateWrite(q)
    BY <2>1, WriteFacts, RememberFacts DEF UpdateWrite, Inv, TypeOK
  <2>2. CASE DeleteRow(q)
    <3>1. shown' = shown /\ \A i \in Ids : rows'[i] = rows[i] \/ rows'[i] = None
      BY <2>2 DEF DeleteRow, Inv, TypeOK
    <3> QED
      BY <3>1 DEF Inv, TypeOK, ActiveWasShown
  <2> QED
    BY <2>1, <2>2
<1>4. TypeOK'
  BY <1>1, <1>2, <1>3, WriteFacts DEF Inv, TypeOK, Places
<1>5. Numbered' /\ FillsVisibleRow'
  BY <1>1, <1>3, WriteFacts DEF Inv, TypeOK, Numbered, FillsVisibleRow
<1>6. HoldsOwnRow'
  <2> SUFFICES ASSUME NEW p \in Requests, pc'[p] \in Owning
               PROVE  HoldsOwnRow!(p)'
    BY DEF HoldsOwnRow
  <2>1. pc[p] \in Owning
    BY <1>1 DEF Inv, TypeOK
  <2> QED
    BY <1>1, <2>1, WriteFacts, HeldFacts DEF Inv, HoldsOwnRow
<1> QED
  BY <1>3, <1>4, <1>5, <1>6 DEF Inv

LEMMA ReadInv ==
  ASSUME Inv, NEW q \in Requests, UpdateRead(q) \/ DeleteRead(q)
  PROVE  Inv'
<1>1. PICK i \in Ids, u \in Users, d \in Dests, a \in BOOLEAN :
        /\ rows[i] # None /\ rows[i].owner = u
        /\ Hold(q, [rows[i] EXCEPT !.dest = d, !.active = a]) \/ Hold(q, rows[i])
        /\ user' = [user EXCEPT ![q] = u]
  <2>1. CASE UpdateRead(q)
    BY <2>1 DEF UpdateRead
  <2>2. CASE DeleteRead(q)
    <3>1. PICK i \in Ids, u \in Users : /\ rows[i] # None /\ rows[i].owner = u
                                        /\ Hold(q, rows[i])
                                        /\ user' = [user EXCEPT ![q] = u]
      BY <2>2 DEF DeleteRead
    <3>2. rows[i].dest \in Dests /\ rows[i].active \in BOOLEAN
      BY <3>1, RowFacts DEF Row
    <3> QED
      BY <3>1, <3>2
  <2> QED
    BY <2>1, <2>2
<1>2. PICK row \in Row : /\ loc' = [loc EXCEPT ![q] = row]
                         /\ row.id = i /\ row.code = rows[i].code
  <2>1. rows[i] \in Row /\ rows[i].id = i
    BY <1>1, RowFacts
  <2>2. [rows[i] EXCEPT !.dest = d, !.active = a] \in Row
    BY <2>1 DEF Row
  <2> QED
    BY <1>1, <2>1, <2>2 DEF Hold, Row
<1>3. /\ UNCHANGED <<rows, nextId, cache, code, faults, suspect, shown>>
      /\ pc' = [pc EXCEPT ![q] = "write"] \/ pc' = [pc EXCEPT ![q] = "reread"]
  BY DEF UpdateRead, DeleteRead, Goto
<1>4. TypeOK'
  BY <1>1, <1>2, <1>3 DEF Inv, TypeOK, Places
<1>5. Numbered' /\ ActiveWasShown' /\ FillsVisibleRow'
  BY <1>1, <1>2, <1>3 DEF Inv, TypeOK, Numbered, ActiveWasShown, FillsVisibleRow
<1>6. HoldsOwnRow'
  BY <1>1, <1>2, <1>3, RowFacts DEF Inv, TypeOK, HoldsOwnRow, Owning
<1> QED
  BY <1>4, <1>5, <1>6 DEF Inv

LEMMA RereadInv ==
  ASSUME Inv, NEW q \in Requests, DeleteReread(q)
  PROVE  Inv'
<1>1. /\ UNCHANGED <<rows, nextId, cache, user, code, faults, suspect, shown>>
      /\ pc[q] = "reread" /\ loc[q].id \in Ids
  BY HeldFacts DEF DeleteReread, Owning
<1>2. CASE rows[loc[q].id] = None
  BY <1>1, <1>2 DEF DeleteReread, Goto, Inv, TypeOK, Numbered, ActiveWasShown, FillsVisibleRow,
                    HoldsOwnRow, Owning, Places
<1>3. CASE rows[loc[q].id] # None
  BY <1>1, <1>3, RowFacts DEF DeleteReread, Goto, Hold, Inv, TypeOK, Numbered,
                    ActiveWasShown, FillsVisibleRow, HoldsOwnRow, Owning, Places
<1> QED
  BY <1>2, <1>3

LEMMA InvalidateInv ==
  ASSUME Inv, NEW q \in Requests, Invalidate(q) \/ Crash(q)
  PROVE  Inv'
<1>1. /\ UNCHANGED <<rows, nextId, user, loc, code, shown>>
      /\ pc' = [pc EXCEPT ![q] = "done"]
      /\ faults' = faults \/ (faults < MaxFaults /\ faults' = faults + 1)
      /\ \/ cache' = cache
         \/ cache' = [cache EXCEPT ![loc[q].code] = None]
  BY DEF Invalidate, Crash, Goto, Fault, NoFault
<1>2. suspect' \in SUBSET Codes
  BY HeldFacts DEF Invalidate, Crash, Inv, TypeOK, Owning
<1> QED
  BY <1>1, <1>2 DEF Inv, TypeOK, Numbered, ActiveWasShown, FillsVisibleRow, HoldsOwnRow,
                    Owning, Places

LEMMA InitInv == Init => Inv
  BY DEF Init, Inv, TypeOK, Numbered, ActiveWasShown, FillsVisibleRow, HoldsOwnRow,
         Owning, Places

LEMMA NextInv == Inv /\ [Next]_vars => Inv'
<1> SUFFICES ASSUME Inv, [Next]_vars PROVE Inv'
  OBVIOUS
<1>1. ASSUME NEW q \in Requests,
             CreateURL(q) \/ Redirect(q) \/ UpdateURL(q) \/ DeleteURL(q)
               \/ Invalidate(q) \/ Crash(q)
      PROVE  Inv'
  BY <1>1, CreateURLInv, RedirectInv, WriteInv, ReadInv, RereadInv, InvalidateInv
     DEF UpdateURL, DeleteURL
<1>2. ASSUME NEW c \in Codes, Expire(c)
      PROVE  Inv'
  BY <1>2 DEF Expire, Inv, TypeOK, Numbered, ActiveWasShown, FillsVisibleRow, HoldsOwnRow
<1>3. CASE UNCHANGED vars
  BY <1>3 DEF vars, Inv, TypeOK, Numbered, ActiveWasShown, FillsVisibleRow, HoldsOwnRow
<1> QED
  BY <1>1, <1>2, <1>3 DEF Next

LEMMA AlwaysInv == Spec => []Inv
  BY InitInv, NextInv, PTL DEF Spec

-----------------------------------------------------------------------------
(* The theorems.                                                           *)

\* TypeOK: every variable has its type and a row is stored under its id.
THEOREM TypeCorrect == Spec => []TypeOK
<1>1. Inv => TypeOK
  BY DEF Inv
<1> QED
  BY <1>1, AlwaysInv, PTL

\* shown is only ever added to.
LEMMA ShownGrows ==
  ASSUME Inv, [Next]_vars
  PROVE  shown \subseteq shown'
<1>1. CASE UNCHANGED shown
  BY <1>1
<1>2. ASSUME NEW q \in Requests, CreateURL(q) \/ UpdateWrite(q)
      PROVE  shown \subseteq shown'
  BY <1>2 DEF CreateURL, UpdateWrite, Remember
<1> QED
  BY <1>1, <1>2
     DEF Next, vars, Redirect, RedirectHit, RedirectMiss, RedirectFind, RedirectFill,
         UpdateURL, UpdateRead, DeleteURL, DeleteRead, DeleteReread, DeleteRow,
         Invalidate, Crash, Expire

\* EntriesWereVisible: whatever a redirect raced with between its lookup and its
\* SetURL, what it stores is a row that the table had committed under the code it
\* was asked for, destination included, and it was active then.
THEOREM EntriesWereVisibleHolds == Spec => []EntriesWereVisible
<1>1. Init => EntriesWereVisible
  BY DEF Init, EntriesWereVisible
<1>2. Inv /\ EntriesWereVisible /\ [Next]_vars => EntriesWereVisible'
  <2> SUFFICES ASSUME Inv, EntriesWereVisible, [Next]_vars, NEW c \in Codes,
                      cache'[c] # None, cache'[c] # cache[c]
               PROVE  cache'[c] \in shown' /\ cache'[c].code = c
    BY ShownGrows DEF EntriesWereVisible
  <2>1. ASSUME NEW q \in Requests, RedirectFill(q)
        PROVE  cache'[c] \in shown' /\ cache'[c].code = c
    BY <2>1, ShownGrows DEF RedirectFill, Inv, TypeOK, FillsVisibleRow
  <2>2. ASSUME NEW q \in Requests, Invalidate(q)
        PROVE  FALSE
    BY <2>2 DEF Invalidate, Inv, TypeOK
  <2>3. ASSUME NEW d \in Codes, Expire(d)
        PROVE  FALSE
    BY <2>3 DEF Expire, Inv, TypeOK
  <2>4. ASSUME UNCHANGED cache
        PROVE  FALSE
    BY <2>4
  <2> QED
    BY <2>1, <2>2, <2>3, <2>4
       DEF Next, vars, CreateURL, Redirect, RedirectHit, RedirectMiss, RedirectFind,
           UpdateURL, UpdateRead, UpdateWrite, DeleteURL, DeleteRead, DeleteReread,
           DeleteRow, Crash
<1> QED
  BY <1>1, <1>2, AlwaysInv, PTL DEF Spec

\* The rows that a code shows change only by an insertion, which needs the code
\* to be free, or by a write that leads to an invalidation or to a suspicion.
LEMMA VisibleSteps ==
  ASSUME Inv, NEW c \in Codes, NEW q \in Requests,
         CreateURL(q) \/ UpdateWrite(q) \/ DeleteRow(q)
  PROVE  \/ Visible(c) \subseteq Visible(c)'
         \/ c \in suspect'
         \/ Invalidating(c)'
<1>1. CASE CreateURL(q)
  <2> SUFFICES ASSUME NEW i \in Ids, rows[i] # None
               PROVE  rows'[i] = rows[i]
    BY DEF Visible
  <2>1. i # nextId
    BY RowFacts DEF Inv, TypeOK, Ids
  <2> QED
    BY <1>1, <2>1 DEF CreateURL, Inv, TypeOK
<1>2. CASE UpdateWrite(q) \/ DeleteRow(q)
  <2>1. pc[q] \in Owning /\ loc' = loc
    BY <1>2 DEF UpdateWrite, DeleteRow, Owning
  <2>2. CASE c # loc[q].code \/ rows[loc[q].id] = None
    <3> SUFFICES ASSUME NEW i \in Ids, rows[i] # None, rows[i].code = c
                 PROVE  rows'[i] = rows[i]
      BY DEF Visible
    <3>1. i # loc[q].id
      BY <2>1, <2>2 DEF Inv, HoldsOwnRow
    <3> QED
      BY <1>2, <3>1, WriteFacts
  <2>3. CASE c = loc[q].code /\ rows[loc[q].id] # None
    <3>1. c \in suspect' \/ pc'[q] = "invalidate"
      BY <1>2, <2>3 DEF UpdateWrite, DeleteRow, Goto, Inv, TypeOK
    <3> QED
      BY <2>1, <2>3, <3>1 DEF Invalidating
  <2> QED
    BY <2>2, <2>3
<1> QED
  BY <1>1, <1>2

\* A write that is still to be invalidated stays so, or is suspected, or takes
\* the entry with it.
LEMMA InvalidatingSteps ==
  ASSUME Inv, NEW c \in Codes, Invalidating(c), Next
  PROVE  Invalidating(c)' \/ c \in suspect' \/ cache'[c] = None
<1>1. PICK p \in Requests : pc[p] = "invalidate" /\ loc[p].code = c
  BY DEF Invalidating
<1>2. CASE Invalidate(p) \/ Crash(p)
  BY <1>1, <1>2 DEF Invalidate, Crash, Inv, TypeOK
<1>3. CASE pc'[p] = pc[p] /\ loc'[p] = loc[p]
  BY <1>1, <1>3 DEF Invalidating
<1>4. ASSUME NEW q \in Requests,
             CreateURL(q) \/ Redirect(q) \/ UpdateURL(q) \/ DeleteURL(q)
               \/ Invalidate(q) \/ Crash(q),
             ~(Invalidate(p) \/ Crash(p))
      PROVE  pc'[p] = pc[p] /\ loc'[p] = loc[p]
  <2>1. p # q
    BY <1>1, <1>4
       DEF CreateURL, Redirect, RedirectHit, RedirectMiss, RedirectFind, RedirectFill,
           UpdateURL, UpdateRead, UpdateWrite, DeleteURL, DeleteRead, DeleteReread,
           DeleteRow
  <2>2. /\ \E place \in Places : pc' = [pc EXCEPT ![q] = place]
        /\ loc' = loc \/ \E row : loc' = [loc EXCEPT ![q] = row]
    BY <1>4
       DEF CreateURL, Redirect, RedirectHit, RedirectMiss, RedirectFind, RedirectFill,
           UpdateURL, UpdateRead, UpdateWrite, DeleteURL, DeleteRead, DeleteReread,
           DeleteRow, Invalidate, Crash, Goto, Hold, Places
  <2> QED
    BY <2>1, <2>2 DEF Inv, TypeOK
<1>5. ASSUME NEW d \in Codes, Expire(d)
      PROVE  pc'[p] = pc[p] /\ loc'[p] = loc[p]
  BY <1>5 DEF Expire
<1> QED
  BY <1>2, <1>3, <1>4, <1>5 DEF Next

\* A suspicion ends when the entry goes or is what the database shows.
LEMMA SuspectSteps ==
  ASSUME Inv, NEW c \in suspect, Next
  PROVE  c \in suspect' \/ cache'[c] = None \/ cache'[c] \in Visible(c)'
<1>0. c \in Codes
  BY DEF Inv, TypeOK
<1>1. ASSUME NEW q \in Requests, RedirectFill(q), c \notin suspect'
      PROVE  cache'[c] \in Visible(c)'
  BY <1>0, <1>1 DEF RedirectFill, Visible, Inv, TypeOK
<1>2. ASSUME NEW q \in Requests, Invalidate(q), c \notin suspect'
      PROVE  cache'[c] = None
  BY <1>0, <1>2 DEF Invalidate, Inv, TypeOK
<1>3. ASSUME NEW d \in Codes, Expire(d), c \notin suspect'
      PROVE  cache'[c] = None
  BY <1>0, <1>3 DEF Expire, Inv, TypeOK
<1>4. ASSUME NEW q \in Requests,
             CreateURL(q) \/ RedirectHit(q) \/ RedirectMiss(q) \/ RedirectFind(q)
               \/ UpdateURL(q) \/ DeleteURL(q) \/ Crash(q)
      PROVE  c \in suspect'
  BY <1>4 DEF CreateURL, RedirectHit, RedirectMiss, RedirectFind, UpdateURL, UpdateRead,
              UpdateWrite, DeleteURL, DeleteRead, DeleteReread, DeleteRow, Crash
<1> QED
  BY <1>1, <1>2, <1>3, <1>4 DEF Next, Redirect

\* StalenessHasACause: a cache fill that was overtaken, an invalidation that
\* failed and one that is still to come are the only reasons for Redis to serve
\* something else than the database does.
THEOREM StalenessHasACauseHolds == Spec => []StalenessHasACause
<1>1. Init => StalenessHasACause
  BY DEF Init, StalenessHasACause, Stale
<1>2. Inv /\ StalenessHasACause /\ Next => StalenessHasACause'
  <2> SUFFICES ASSUME Inv, StalenessHasACause, Next, NEW c \in Codes, Stale(c)'
               PROVE  c \in suspect' \/ Invalidating(c)'
    BY DEF StalenessHasACause
  <2>0. cache'[c] # None /\ cache'[c] \notin Visible(c)'
    BY DEF Stale
  <2>1. ASSUME NEW q \in Requests, RedirectFill(q)
        PROVE  c \in suspect' \/ Invalidating(c)'
    <3>1. CASE cache' = cache \/ c # code[q]
      <4>1. cache'[c] = cache[c] /\ Visible(c)' = Visible(c)
        BY <2>1, <3>1 DEF RedirectFill, Visible, Inv, TypeOK
      <4>2. Stale(c)
        BY <2>0, <4>1 DEF Stale
      <4>3. c \in suspect \/ Invalidating(c)
        BY <4>2 DEF StalenessHasACause
      <4> QED
        BY <2>0, <4>3, SuspectSteps, InvalidatingSteps
    <3>2. CASE cache' # cache /\ c = code[q]
      <4>1. cache'[c] = loc[q] /\ Visible(c)' = Visible(c)
        BY <2>1, <3>2 DEF RedirectFill, Visible, Inv, TypeOK
      <4> QED
        BY <2>0, <2>1, <3>2, <4>1 DEF RedirectFill
    <3> QED
      BY <3>1, <3>2
  <2>2. ASSUME NEW q \in Requests, Invalidate(q)
        PROVE  cache'[c] = cache[c] /\ UNCHANGED rows
    BY <2>0, <2>2 DEF Invalidate, Inv, TypeOK
  <2>3. ASSUME NEW d \in Codes, Expire(d)
        PROVE  cache'[c] = cache[c] /\ UNCHANGED rows
    BY <2>0, <2>3 DEF Expire, Inv, TypeOK
  <2>4. ASSUME NEW q \in Requests,
               RedirectHit(q) \/ RedirectMiss(q) \/ RedirectFind(q)
                 \/ UpdateRead(q) \/ DeleteRead(q) \/ DeleteReread(q) \/ Crash(q)
        PROVE  cache' = cache /\ UNCHANGED rows
    BY <2>4 DEF RedirectHit, RedirectMiss, RedirectFind, UpdateRead, DeleteRead,
                DeleteReread, Crash
  <2>5. ASSUME NEW q \in Requests, CreateURL(q) \/ UpdateWrite(q) \/ DeleteRow(q)
        PROVE  cache' = cache
    BY <2>5 DEF CreateURL, UpdateWrite, DeleteRow
  <2>6. ASSUME cache'[c] = cache[c],
               \/ Visible(c) \subseteq Visible(c)'
               \/ c \in suspect'
               \/ Invalidating(c)'
        PROVE  c \in suspect' \/ Invalidating(c)'
    <3> SUFFICES ASSUME Visible(c) \subseteq Visible(c)'
                 PROVE  c \in suspect' \/ Invalidating(c)'
      BY <2>6
    <3>1. Stale(c)
      BY <2>0, <2>6 DEF Stale
    <3>2. c \in suspect \/ Invalidating(c)
      BY <3>1 DEF StalenessHasACause
    <3> QED
      BY <2>0, <3>2, SuspectSteps, InvalidatingSteps
  <2>7. UNCHANGED rows => Visible(c)' = Visible(c)
    BY DEF Visible
  <2> QED
    BY <2>1, <2>2, <2>3, <2>4, <2>5, <2>6, <2>7, VisibleSteps
       DEF Next, Redirect, UpdateURL, DeleteURL
<1>3. StalenessHasACause /\ UNCHANGED vars => StalenessHasACause'
  BY DEF vars, StalenessHasACause, Stale, Visible, Invalidating
<1> QED
  BY <1>1, <1>2, <1>3, AlwaysInv, PTL DEF Spec

\* The rows that a step may change or take away: that of a PATCH or DELETE
\* whose statement runs, and only while it is there.
LEMMA RowSteps ==
  ASSUME Inv, [Next]_vars, NEW i \in Ids, rows'[i] # rows[i]
  PROVE  \/ rows[i] = None /\ i = nextId
         \/ \E q \in Requests :
              /\ pc[q] \in {"write", "delete"} /\ pc'[q] # pc[q]
              /\ loc[q].id = i /\ rows[i] # None
<1>1. ASSUME NEW q \in Requests, CreateURL(q)
      PROVE  rows[i] = None /\ i = nextId
  <2>1. i = nextId
    BY <1>1 DEF CreateURL, Inv, TypeOK
  <2> QED
    BY <2>1 DEF Inv, TypeOK, Numbered, Ids
<1>2. ASSUME NEW q \in Requests, UpdateWrite(q) \/ DeleteRow(q)
      PROVE  /\ pc[q] \in {"write", "delete"} /\ pc'[q] # pc[q]
             /\ loc[q].id = i /\ rows[i] # None
  <2>1. loc[q].id = i /\ rows[i] # None
    BY <1>2, WriteFacts
  <2> QED
    BY <1>2, <2>1 DEF UpdateWrite, DeleteRow, Goto, Inv, TypeOK
<1>3. ASSUME UNCHANGED rows
      PROVE  FALSE
  BY <1>3
<1> QED
  BY <1>1, <1>2, <1>3
     DEF Next, vars, Redirect, RedirectHit, RedirectMiss, RedirectFind, RedirectFill,
         UpdateURL, UpdateRead, DeleteURL, DeleteRead, DeleteReread, Invalidate, Crash,
         Expire

\* OnlyOwnersWrite: the owner that the handler compared on its read is still the
\* owner of the row that the later statement changes, because the statement names
\* the row by its id and no id is given out twice.
THEOREM OnlyOwnersWriteHolds == Spec => OnlyOwnersWrite
<1>1. Inv /\ [Next]_vars =>
        \A i \in Ids :
          rows[i] # None /\ rows'[i] # rows[i] =>
            \E q \in Requests : /\ pc[q] \in {"write", "delete"} /\ pc'[q] # pc[q]
                                /\ loc[q].id = i /\ user[q] = rows[i].owner
  BY RowSteps DEF Inv, HoldsOwnRow, Owning
<1> QED
  BY <1>1, AlwaysInv, PTL DEF Spec, OnlyOwnersWrite

\* DeletedStaysDeleted: a PATCH that read a row before it was deleted writes
\* nothing, and creation takes a new id.
THEOREM DeletedStaysDeletedHolds == Spec => DeletedStaysDeleted
<1>1. Inv /\ [Next]_vars =>
        \A i \in Ids : i < nextId /\ rows[i] = None => rows'[i] = None
  BY RowSteps DEF Inv, TypeOK
<1> QED
  BY <1>1, AlwaysInv, PTL DEF Spec, DeletedStaysDeleted
=============================================================================
