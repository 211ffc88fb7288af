------------------------ MODULE RefreshTokens_proofs ------------------------
(***************************************************************************)
(* Proofs about RefreshTokens, for every set of requests and users and     *)
(* every number of tokens.                                                 *)
(***************************************************************************)
EXTENDS RefreshTokens, FiniteSetTheorems, TLAPS

USE BoundAssumption

-----------------------------------------------------------------------------
(* The inductive invariant.                                                *)

\* Places of a Refresh that has drawn its tokens, and of one in its transaction.
Rotating == {"signed", "inserting", "committing"}
InTransaction == {"inserting", "committing"}

\* A request presents a token that a client received; what has drawn a token is
\* a Refresh; an answer is the last thing that a request does.
Presents ==
  \A q \in Requests :
    /\ pc[q] # "idle" => arg[q] \in held
    /\ pc[q] \in Rotating => op[q] = "refresh"
    /\ answer[q] # "none" => pc[q] = "done"

\* Tokens are drawn in order.  A token belongs to the session of a login before
\* it, whose own token was stored when it was drawn; a client has only tokens
\* that were stored.
Drawn ==
  /\ \A t \in Tokens : t > drawn => state[t] = "absent" /\ session[t] = 0
  /\ \A t \in Tokens : t <= drawn =>
       /\ session[t] \in 1..t /\ session[session[t]] = session[t]
       /\ session[t] = t => state[t] # "absent"
  /\ \A t \in held : state[t] # "absent"

\* What a Refresh has drawn is not stored, is of the same session, and is its own.
Fresh ==
  /\ \A q \in Requests : pc[q] \in Rotating =>
       /\ fresh[q] \in 1..drawn /\ state[fresh[q]] = "absent"
       /\ session[fresh[q]] = session[arg[q]]
  /\ \A p, q \in Requests :
       pc[p] \in Rotating /\ pc[q] \in Rotating /\ fresh[p] = fresh[q] => p = q

\* The row locks are those of the open transactions, on rows that are active.
Locked ==
  /\ \A t \in Tokens, q \in Requests :
       q \in lock[t] <=> pc[q] \in InTransaction /\ arg[q] = t
  /\ \A q \in Requests : pc[q] \in InTransaction => state[arg[q]] = "active"

\* What was replaced or logged out stays revoked.
Revoked ==
  /\ \A t \in Tokens : parent[t] # 0 => state[parent[t]] = "revoked"
  /\ \A t \in out : state[t] = "revoked"

\* A session has one active token, and none after a logout.
OneLive ==
  /\ \A s, t \in Tokens :
       state[s] = "active" /\ state[t] = "active" /\ session[s] = session[t] => s = t
  /\ \A l \in Tokens : session[l] = l => (Active(l) = {} <=> LoggedOut(l))

\* An active token that no client has is that of a login, or of a rotation whose
\* client was told that it failed.
Undelivered ==
  \A t \in Tokens : state[t] = "active" /\ t \notin held =>
    session[t] = t \/ \E q \in Requests : answer[q] = "unauthorized" /\ fresh[q] = t

\* A logout that answered 204 revoked a token of its session.
Ended ==
  \A q \in Requests : op[q] = "logout" /\ answer[q] = "ok" => LoggedOut(session[arg[q]])

Inv ==
  /\ TypeOK /\ Presents /\ Drawn /\ Fresh /\ Locked /\ Revoked /\ ExchangedOnce
  /\ OneLive /\ Undelivered /\ Ended

-----------------------------------------------------------------------------
(* Type correctness.                                                       *)

LEMMA AnswerFacts ==
  ASSUME TypeOK, NEW q \in Requests, NEW a, Answer(q, a)
  PROVE  /\ pc'[q] = "done" /\ answer'[q] = a
         /\ \A p \in Requests : p # q => pc'[p] = pc[p] /\ answer'[p] = answer[p]
         /\ pc' \in [Requests -> Places]
         /\ a \in {"none", "ok", "unauthorized"} =>
              answer' \in [Requests -> {"none", "ok", "unauthorized"}]
  BY DEF TypeOK, Answer, Places

LEMMA NextDrawn ==
  ASSUME TypeOK, NEW l \in 0..MaxTokens, Generate(l)
  PROVE  /\ drawn + 1 \in Tokens /\ drawn' \in 0..MaxTokens
         /\ stale \in 0..drawn'
         /\ session' \in [Tokens -> 0..MaxTokens]
  BY DEF TypeOK, Generate, Tokens

LEMMA UnlockFacts ==
  ASSUME TypeOK, NEW q \in Requests, Unlock(q)
  PROVE  /\ lock' \in [Tokens -> SUBSET Requests]
         /\ \A t \in Tokens : \A p, r \in lock'[t] : p = r
  BY DEF TypeOK, Unlock

\* The token that a request presents.
LEMMA RequestFacts ==
  ASSUME Inv, NEW q \in Requests, pc[q] # "idle"
  PROVE  /\ arg[q] \in Tokens /\ arg[q] <= drawn /\ arg[q] \in held
         /\ state[arg[q]] \in {"active", "revoked"}
         /\ session[arg[q]] \in Tokens /\ session[arg[q]] <= arg[q]
         /\ session[session[arg[q]]] = session[arg[q]]
<1>1. arg[q] \in held /\ arg[q] \in Tokens /\ state[arg[q]] \in {"active", "revoked"}
  BY DEF Inv, TypeOK, Presents, Drawn
<1>2. arg[q] <= drawn
  BY <1>1 DEF Inv, TypeOK, Drawn, Tokens
<1> QED
  BY <1>1, <1>2 DEF Inv, Drawn, Tokens

\* The tokens of a Refresh.
LEMMA RotatingFacts ==
  ASSUME Inv, NEW q \in Requests, pc[q] \in Rotating
  PROVE  /\ fresh[q] \in Tokens /\ fresh[q] <= drawn /\ fresh[q] # arg[q]
         /\ state[fresh[q]] = "absent" /\ session[fresh[q]] = session[arg[q]]
         /\ session[fresh[q]] # fresh[q]
         /\ op[q] = "refresh" /\ answer[q] = "none"
<1>1. /\ fresh[q] \in Tokens /\ fresh[q] <= drawn /\ state[fresh[q]] = "absent"
      /\ session[fresh[q]] = session[arg[q]]
  BY DEF Inv, TypeOK, Fresh, Tokens
<1>2. fresh[q] # arg[q]
  BY <1>1, RequestFacts DEF Rotating
<1>3. session[fresh[q]] # fresh[q]
  BY <1>1 DEF Inv, Drawn
<1>4. op[q] = "refresh" /\ answer[q] = "none"
  BY DEF Inv, TypeOK, Presents, Rotating
<1> QED
  BY <1>1, <1>2, <1>3, <1>4

LEMMA NextTypeOK == Inv /\ [Next]_vars => TypeOK'
<1> SUFFICES ASSUME Inv, [Next]_vars PROVE TypeOK'
  OBVIOUS
<1>0. TypeOK
  BY DEF Inv
<1>1. ASSUME NEW u \in Users, Register(u)
      PROVE  TypeOK'
  BY <1>0, <1>1 DEF Register, CreateUser, clock, TypeOK
<1>2. ASSUME NEW u \in Users, Login(u)
      PROVE  TypeOK'
  <2>1. drawn + 1 \in Tokens /\ drawn + 1 \in 0..MaxTokens
    BY <1>0, <1>2 DEF Login, Generate, TypeOK, Tokens
  <2>2. /\ drawn' \in 0..MaxTokens /\ stale \in 0..drawn'
        /\ session' \in [Tokens -> 0..MaxTokens]
    BY <1>0, <1>2, <2>1, NextDrawn DEF Login
  <2> QED
    BY <1>0, <1>2, <2>1, <2>2 DEF Login, CreateToken, Deliver, clock, TypeOK
<1>3. ASSUME NEW q \in Requests, FindActiveByHash(q)
      PROVE  TypeOK'
  <2>1. PICK t \in held, o \in {"refresh", "logout"} :
          /\ arg' = [arg EXCEPT ![q] = t] /\ op' = [op EXCEPT ![q] = o]
          /\ \/ pc' = [pc EXCEPT ![q] = "found"] /\ UNCHANGED answer
             \/ Answer(q, "unauthorized")
    BY <1>3 DEF FindActiveByHash
  <2>2. t \in 0..MaxTokens
    BY <1>0 DEF TypeOK, Tokens
  <2>3. pc' \in [Requests -> Places] /\ answer' \in [Requests -> {"none", "ok", "unauthorized"}]
    BY <1>0, <2>1 DEF Answer, TypeOK, Places
  <2> QED
    BY <1>0, <1>3, <2>1, <2>2, <2>3 DEF FindActiveByHash, tables, clock, TypeOK
<1>4. ASSUME NEW q \in Requests, FindByID(q)
      PROVE  TypeOK'
  <2>1. session[arg[q]] \in 0..MaxTokens /\ drawn + 1 \in 0..MaxTokens
    BY <1>0, <1>4, RequestFacts DEF FindByID, Generate, TypeOK, Tokens
  <2>2. /\ drawn' \in 0..MaxTokens /\ stale \in 0..drawn'
        /\ session' \in [Tokens -> 0..MaxTokens]
    BY <1>0, <1>4, <2>1, NextDrawn DEF FindByID
  <2> QED
    BY <1>0, <1>4, <2>1, <2>2 DEF FindByID, tables, clock, TypeOK, Places
<1>5. ASSUME NEW q \in Requests, RotateRevoke(q)
      PROVE  TypeOK'
  BY <1>0, <1>5 DEF RotateRevoke, Answer, rest, clock, TypeOK, Places
<1>6. ASSUME NEW q \in Requests, RotateInsert(q)
      PROVE  TypeOK'
  BY <1>0, <1>6 DEF RotateInsert, rest, clock, TypeOK, Places
<1>7. ASSUME NEW q \in Requests, RotateCommit(q)
      PROVE  TypeOK'
  <2>1. arg[q] \in Tokens /\ fresh[q] \in Tokens
    BY <1>7, RequestFacts, RotatingFacts DEF RotateCommit, Commit, Rotating
  <2>2. /\ state' \in [Tokens -> {"absent", "active", "revoked"}]
        /\ parent' \in [Tokens -> 0..MaxTokens]
        /\ held' \in SUBSET Tokens
    BY <1>0, <1>7, <2>1 DEF RotateCommit, Commit, Deliver, TypeOK, Tokens
  <2>3. pc' \in [Requests -> Places] /\ answer' \in [Requests -> {"none", "ok", "unauthorized"}]
    BY <1>0, <1>7, AnswerFacts DEF RotateCommit
  <2> QED
    BY <1>0, <1>7, <2>2, <2>3, UnlockFacts DEF RotateCommit, Commit, clock, TypeOK
<1>8. ASSUME NEW q \in Requests, Revoke(q)
      PROVE  TypeOK'
  <2>1. arg[q] \in Tokens
    BY <1>8, RequestFacts DEF Revoke
  <2>2. pc' \in [Requests -> Places] /\ answer' \in [Requests -> {"none", "ok", "unauthorized"}]
    BY <1>0, <1>8, AnswerFacts DEF Revoke
  <2> QED
    BY <1>0, <1>8, <2>1, <2>2 DEF Revoke, clock, TypeOK
<1>9. ASSUME NEW q \in Requests, Abort(q)
      PROVE  TypeOK'
  BY <1>0, <1>9, AnswerFacts, UnlockFacts DEF Abort, clock, TypeOK
<1>10. CASE Expire
  BY <1>0, <1>10 DEF Expire, TypeOK
<1>11. CASE UNCHANGED vars
  BY <1>0, <1>11 DEF vars, clock, TypeOK
<1> QED
  BY <1>1, <1>2, <1>3, <1>4, <1>5, <1>6, <1>7, <1>8, <1>9, <1>10, <1>11
     DEF Next, Refresh, Logout

-----------------------------------------------------------------------------
(* Steps.                                                                  *)

\* The steps of a request go forward in its own place.
LEMMA PlaceSteps ==
  ASSUME Inv, NEW q \in Requests,
         FindActiveByHash(q) \/ Refresh(q) \/ Logout(q) \/ Abort(q)
  PROVE  /\ \A p \in Requests : p # q =>
              /\ pc'[p] = pc[p] /\ answer'[p] = answer[p]
              /\ op'[p] = op[p] /\ arg'[p] = arg[p] /\ fresh'[p] = fresh[p]
         /\ pc[q] # "done" /\ pc'[q] # "idle"
         /\ pc[q] # "idle" => op'[q] = op[q] /\ arg'[q] = arg[q]
         /\ pc'[q] \in Rotating =>
              /\ answer'[q] = answer[q]
              /\ \/ pc[q] = "found" /\ FindByID(q)
                 \/ pc[q] \in Rotating /\ fresh'[q] = fresh[q] /\ UNCHANGED <<drawn, session, state>>
  BY DEF Inv, TypeOK, FindActiveByHash, Refresh, Logout, FindByID, RotateRevoke, RotateInsert,
         RotateCommit, Commit, Revoke, Abort, Answer, Rotating, tables, clock, rest

\* Which steps change a token, and how.
LEMMA StateSteps ==
  ASSUME Inv, [Next]_vars, NEW t \in Tokens, state'[t] # state[t]
  PROVE  \/ /\ t = drawn + 1 /\ state'[t] = "active"
            /\ \E u \in Users : Login(u)
         \/ \E q \in Requests :
              /\ RotateCommit(q)
              /\ \/ t = arg[q] /\ state'[t] = "revoked"
                 \/ t = fresh[q] /\ state'[t] = "active"
         \/ /\ \E q \in Requests : Revoke(q) /\ t = arg[q]
            /\ state[t] = "active" /\ state'[t] = "revoked" /\ out' = out \cup {t}
<1>1. ASSUME NEW u \in Users, Login(u)
      PROVE  t = drawn + 1 /\ state'[t] = "active"
  BY <1>1 DEF Login, CreateToken, Inv, TypeOK
<1>2. ASSUME NEW q \in Requests, RotateCommit(q)
      PROVE  \/ t = arg[q] /\ state'[t] = "revoked"
             \/ t = fresh[q] /\ state'[t] = "active"
  BY <1>2 DEF RotateCommit, Commit, Inv, TypeOK
<1>3. ASSUME NEW q \in Requests, Revoke(q)
      PROVE  t = arg[q] /\ state[t] = "active" /\ state'[t] = "revoked" /\ out' = out \cup {t}
  BY <1>3 DEF Revoke, Inv, TypeOK
<1>4. ASSUME UNCHANGED state
      PROVE  FALSE
  BY <1>4
<1> QED
  BY <1>1, <1>2, <1>3, <1>4
     DEF Next, vars, Register, FindActiveByHash, tables, Refresh, FindByID, RotateRevoke,
         RotateInsert, rest, Logout, Abort, Expire

\* The COMMIT of a rotation.
LEMMA CommitFacts ==
  ASSUME Inv, NEW q \in Requests, RotateCommit(q)
  PROVE  /\ arg[q] \in Tokens /\ fresh[q] \in Tokens /\ fresh[q] # arg[q]
         /\ state[arg[q]] = "active" /\ state'[arg[q]] = "revoked"
         /\ state[fresh[q]] = "absent" /\ state'[fresh[q]] = "active"
         /\ \A t \in Tokens : t # arg[q] /\ t # fresh[q] => state'[t] = state[t]
         /\ session[fresh[q]] = session[arg[q]] /\ session[fresh[q]] # fresh[q]
         /\ UNCHANGED <<session, drawn, out, op, arg, fresh>>
         /\ \/ answer'[q] = "ok" /\ held' = held \cup {fresh[q]}
            \/ answer'[q] = "unauthorized" /\ held' = held
<1>1. pc[q] \in Rotating /\ pc[q] \in InTransaction /\ pc[q] # "idle"
  BY DEF RotateCommit, Commit, Rotating, InTransaction
<1>2. state[arg[q]] = "active"
  BY <1>1 DEF Inv, Locked
<1> QED
  BY <1>1, <1>2, RequestFacts, RotatingFacts DEF RotateCommit, Commit, Answer, Deliver, Inv, TypeOK

\* A login stores the next token, as the first of a session of its own.
LEMMA LoginFacts ==
  ASSUME Inv, NEW u \in Users, Login(u)
  PROVE  /\ drawn + 1 \in Tokens /\ drawn' = drawn + 1 /\ drawn \in Nat
         /\ state[drawn + 1] = "absent" /\ state'[drawn + 1] = "active"
         /\ session[drawn + 1] = 0 /\ session'[drawn + 1] = drawn + 1
         /\ \A t \in Tokens : t # drawn + 1 => state'[t] = state[t] /\ session'[t] = session[t]
         /\ held' = held \/ held' = held \cup {drawn + 1}
         /\ UNCHANGED <<pc, op, arg, fresh, answer, lock, parent, out>>
<1>1. drawn + 1 \in Tokens /\ drawn' = drawn + 1 /\ drawn \in Nat
  BY DEF Login, Generate, Inv, TypeOK, Tokens
<1> QED
  BY <1>1 DEF Login, Generate, CreateToken, Deliver, Inv, TypeOK, Drawn

\* A Refresh draws the next token for the session of the one it was given.
LEMMA FindByIDFacts ==
  ASSUME Inv, NEW q \in Requests, FindByID(q)
  PROVE  /\ drawn + 1 \in Tokens /\ drawn' = drawn + 1 /\ drawn \in Nat
         /\ state[drawn + 1] = "absent" /\ session[drawn + 1] = 0
         /\ session'[drawn + 1] = session[arg[q]]
         /\ \A t \in Tokens : t # drawn + 1 => session'[t] = session[t]
         /\ fresh'[q] = drawn + 1 /\ arg[q] # drawn + 1
         /\ pc[q] = "found" /\ pc'[q] = "signed" /\ op[q] = "refresh"
         /\ UNCHANGED <<state, held, op, arg, answer, lock, parent, out>>
<1>1. drawn + 1 \in Tokens /\ drawn' = drawn + 1 /\ drawn \in Nat
  BY DEF FindByID, Generate, Inv, TypeOK, Tokens
<1>2. arg[q] # drawn + 1
  BY <1>1, RequestFacts DEF FindByID, Tokens
<1> QED
  BY <1>1, <1>2 DEF FindByID, Generate, tables, Inv, TypeOK, Drawn

\* Only a Login and a Refresh draw tokens.
LEMMA DrawSteps ==
  ASSUME [Next]_vars, <<drawn, session>>' # <<drawn, session>>
  PROVE  (\E u \in Users : Login(u)) \/ (\E q \in Requests : FindByID(q))
  BY DEF Next, vars, Register, FindActiveByHash, Refresh, RotateRevoke, RotateInsert, rest,
         RotateCommit, Commit, Logout, Revoke, Abort, Expire

\* A client gets a token in the answer to a Login or to a Refresh.
LEMMA HeldSteps ==
  ASSUME [Next]_vars
  PROVE  /\ held \subseteq held'
         /\ \A t \in held' \ held :
              \/ t = drawn + 1 /\ \E u \in Users : Login(u)
              \/ \E q \in Requests : t = fresh[q] /\ RotateCommit(q)
  BY DEF Next, vars, Register, Login, Deliver, FindActiveByHash, Refresh, FindByID,
         RotateRevoke, RotateInsert, rest, RotateCommit, Commit, Logout, Revoke, Abort, Expire

-----------------------------------------------------------------------------
(* The conjuncts of the invariant, step by step.                           *)

LEMMA InitInv == Init => Inv
  BY DEF Init, Inv, TypeOK, Presents, Drawn, Fresh, Locked, Revoked, ExchangedOnce, OneLive,
         Undelivered, Ended, Active, LoggedOut, Places, Rotating, InTransaction, Tokens

LEMMA NextPresents == Inv /\ [Next]_vars => Presents'
<1> SUFFICES ASSUME Inv, [Next]_vars, NEW q \in Requests
             PROVE  Presents!(q)'
  BY DEF Presents
<1>0. Presents!(q) /\ held \subseteq held'
  BY HeldSteps DEF Inv, Presents
<1>1. CASE UNCHANGED <<pc, op, arg, answer>>
  BY <1>0, <1>1
<1>2. ASSUME NEW p \in Requests, FindActiveByHash(p)
      PROVE  Presents!(q)'
  BY <1>0, <1>2 DEF FindActiveByHash, Answer, Inv, TypeOK, Rotating
<1>3. ASSUME NEW p \in Requests, Refresh(p) \/ Logout(p) \/ Abort(p)
      PROVE  Presents!(q)'
  <2>1. CASE p # q
    BY <1>0, <1>3, <2>1, PlaceSteps
  <2>2. CASE p = q
    <3>1. pc[q] # "idle" /\ pc[q] # "done"
      BY <1>3, <2>2 DEF Refresh, Logout, Abort, FindByID, RotateRevoke, RotateInsert,
                        RotateCommit, Commit, Revoke
    <3>2. op'[q] = op[q] /\ arg'[q] = arg[q]
      BY <1>3, <2>2, <3>1, PlaceSteps
    <3>3. pc'[q] \in Rotating => op[q] = "refresh"
      BY <1>0, <1>3, <2>2, PlaceSteps DEF FindByID
    <3>4. answer'[q] # "none" => pc'[q] = "done"
      BY <1>0, <1>3, <2>2, <3>1 DEF Refresh, Logout, Abort, FindByID, RotateRevoke, RotateInsert,
                        RotateCommit, Commit, Revoke, Answer, rest, Inv, TypeOK
    <3> QED
      BY <1>0, <3>1, <3>2, <3>3, <3>4
  <2> QED
    BY <2>1, <2>2
<1> QED
  BY <1>1, <1>2, <1>3 DEF Next, vars, Register, Login, Expire

LEMMA NextDrawnInv == Inv /\ [Next]_vars => Drawn'
<1> SUFFICES ASSUME Inv, [Next]_vars PROVE Drawn'
  OBVIOUS
<1>1. ASSUME NEW t \in Tokens, state[t] # "absent"
      PROVE  state'[t] # "absent"
  BY <1>1, StateSteps
<1>2. \A t \in held' : state'[t] # "absent"
  <2>1. ASSUME NEW t \in held
        PROVE  state'[t] # "absent"
    BY <1>1 DEF Inv, TypeOK, Drawn
  <2>2. ASSUME NEW t \in held' \ held
        PROVE  state'[t] # "absent"
    BY HeldSteps, LoginFacts, CommitFacts
  <2> QED
    BY <2>1, <2>2
<1>3. CASE UNCHANGED <<drawn, session>>
  <2>1. ASSUME NEW t \in Tokens, t > drawn
        PROVE  state'[t] = "absent"
    <3>1. state[t] = "absent"
      BY <2>1 DEF Inv, Drawn
    <3>2. ASSUME NEW u \in Users, Login(u)
          PROVE  FALSE
      BY <1>3, <3>2, LoginFacts
    <3>3. ASSUME NEW q \in Requests, RotateCommit(q)
          PROVE  t # fresh[q] /\ t # arg[q]
      <4>1. pc[q] \in Rotating /\ pc[q] # "idle"
        BY <3>3 DEF RotateCommit, Commit, Rotating
      <4>2. fresh[q] \in Tokens /\ arg[q] \in Tokens /\ fresh[q] <= drawn /\ arg[q] <= drawn
        BY <4>1, RequestFacts, RotatingFacts
      <4> QED
        BY <2>1, <4>2 DEF Inv, TypeOK, Tokens
    <3> QED
      BY <3>1, <3>2, <3>3, StateSteps
  <2> QED
    BY <1>1, <1>2, <1>3, <2>1 DEF Inv, Drawn, TypeOK, Tokens
<1>4. ASSUME NEW u \in Users, Login(u)
      PROVE  Drawn'
  <2>1. \A t \in Tokens : t > drawn + 1 => state'[t] = "absent" /\ session'[t] = 0
    BY <1>4, LoginFacts DEF Inv, Drawn, Tokens
  <2>2. ASSUME NEW t \in Tokens, t <= drawn
        PROVE  /\ session'[t] \in 1..t /\ session'[session'[t]] = session'[t]
               /\ session'[t] = t => state'[t] # "absent"
    <3>1. /\ session[t] \in 1..t /\ session[session[t]] = session[t]
          /\ session[t] = t => state[t] # "absent"
      BY <2>2 DEF Inv, Drawn
    <3>2. session[t] \in Tokens /\ session[t] # drawn + 1 /\ t # drawn + 1
      BY <1>4, <2>2, <3>1, LoginFacts DEF Tokens
    <3> QED
      BY <1>4, <3>1, <3>2, LoginFacts
  <2>3. /\ session'[drawn + 1] \in 1..(drawn + 1)
        /\ session'[session'[drawn + 1]] = session'[drawn + 1]
        /\ state'[drawn + 1] # "absent"
    BY <1>4, LoginFacts
  <2>4. \A t \in Tokens : t <= drawn + 1 => t <= drawn \/ t = drawn + 1
    BY DEF Inv, TypeOK, Tokens
  <2>5. drawn' = drawn + 1
    BY <1>4, LoginFacts
  <2> QED
    BY <1>2, <2>1, <2>2, <2>3, <2>4, <2>5 DEF Drawn
<1>5. ASSUME NEW q \in Requests, FindByID(q)
      PROVE  Drawn'
  <2>1. \A t \in Tokens : t > drawn + 1 => state'[t] = "absent" /\ session'[t] = 0
    BY <1>5, FindByIDFacts DEF Inv, Drawn, Tokens
  <2>2. ASSUME NEW t \in Tokens, t <= drawn
        PROVE  /\ session'[t] \in 1..t /\ session'[session'[t]] = session'[t]
               /\ session'[t] = t => state'[t] # "absent"
    <3>1. /\ session[t] \in 1..t /\ session[session[t]] = session[t]
          /\ session[t] = t => state[t] # "absent"
      BY <2>2 DEF Inv, Drawn
    <3>2. session[t] \in Tokens /\ session[t] # drawn + 1 /\ t # drawn + 1
      BY <1>5, <2>2, <3>1, FindByIDFacts DEF Tokens
    <3> QED
      BY <1>5, <3>1, <3>2, FindByIDFacts
  <2>3. /\ session'[drawn + 1] \in 1..drawn
        /\ session'[session'[drawn + 1]] = session'[drawn + 1]
    <3>1. /\ session[arg[q]] \in Tokens /\ session[arg[q]] <= drawn
          /\ session[session[arg[q]]] = session[arg[q]]
      BY <1>5, FindByIDFacts, RequestFacts DEF Tokens
    <3> QED
      BY <1>5, <3>1, FindByIDFacts DEF Tokens
  <2>4. \A t \in Tokens : t <= drawn + 1 => t <= drawn \/ t = drawn + 1
    BY DEF Inv, TypeOK, Tokens
  <2>5. drawn' = drawn + 1 /\ drawn \in Nat
    BY <1>5, FindByIDFacts
  <2>6. /\ session'[drawn + 1] \in 1..(drawn + 1)
        /\ session'[drawn + 1] # drawn + 1
    BY <2>3, <2>5
  <2> QED
    BY <1>2, <2>1, <2>2, <2>3, <2>4, <2>5, <2>6 DEF Drawn
<1> QED
  BY <1>3, <1>4, <1>5, DrawSteps

LEMMA NextFresh == Inv /\ [Next]_vars => Fresh'
<1> SUFFICES ASSUME Inv, [Next]_vars PROVE Fresh'
  OBVIOUS
<1>1. CASE UNCHANGED <<pc, arg, fresh>>
  <2>1. ASSUME NEW q \in Requests, pc[q] \in Rotating
        PROVE  /\ fresh[q] \in 1..drawn' /\ state'[fresh[q]] = "absent"
               /\ session'[fresh[q]] = session'[arg[q]]
    <3>1. /\ fresh[q] \in Tokens /\ fresh[q] <= drawn /\ state[fresh[q]] = "absent"
          /\ session[fresh[q]] = session[arg[q]]
          /\ arg[q] \in Tokens /\ arg[q] <= drawn
      BY <2>1, RotatingFacts, RequestFacts DEF Rotating
    <3>2. ASSUME NEW u \in Users, Login(u)
          PROVE  /\ fresh[q] \in 1..drawn' /\ state'[fresh[q]] = "absent"
                 /\ session'[fresh[q]] = session'[arg[q]]
      BY <3>1, <3>2, LoginFacts DEF Tokens
    <3>3. CASE UNCHANGED <<drawn, session, state>>
      BY <3>1, <3>3 DEF Inv, TypeOK, Tokens
    <3> QED
      BY <1>1, <3>2, <3>3
         DEF Next, vars, Register, FindActiveByHash, tables, Answer, Refresh, FindByID,
             RotateRevoke, RotateInsert, rest, RotateCommit, Commit, Logout, Revoke, Abort,
             Expire, Inv, TypeOK
  <2> QED
    BY <1>1, <2>1 DEF Inv, Fresh
<1>2. ASSUME NEW p \in Requests,
             FindActiveByHash(p) \/ Refresh(p) \/ Logout(p) \/ Abort(p)
      PROVE  Fresh'
  <2>1. ASSUME NEW q \in Requests, pc[q] \in Rotating, pc'[q] \in Rotating
        PROVE  fresh'[q] = fresh[q] /\ arg'[q] = arg[q] /\ fresh[q] <= drawn
    BY <1>2, <2>1, PlaceSteps, RotatingFacts DEF FindByID, Rotating
  <2>2. ASSUME NEW q \in Requests, pc[q] \notin Rotating, pc'[q] \in Rotating
        PROVE  p = q /\ FindByID(q)
    BY <1>2, <2>2, PlaceSteps
  <2>3. ASSUME NEW q \in Requests, pc'[q] \in Rotating
        PROVE  /\ fresh'[q] \in 1..drawn' /\ state'[fresh'[q]] = "absent"
               /\ session'[fresh'[q]] = session'[arg'[q]]
    <3>1. CASE pc[q] \notin Rotating
      BY <2>2, <2>3, <3>1, FindByIDFacts, RequestFacts
    <3>2. CASE pc[q] \in Rotating
      <4>1. /\ fresh[q] \in Tokens /\ fresh[q] <= drawn /\ state[fresh[q]] = "absent"
            /\ session[fresh[q]] = session[arg[q]]
            /\ arg[q] \in Tokens /\ arg[q] <= drawn
        BY <3>2, RotatingFacts, RequestFacts DEF Rotating
      <4>2. fresh'[q] = fresh[q] /\ arg'[q] = arg[q]
        BY <2>1, <2>3, <3>2
      <4>3. CASE FindByID(p)
        BY <4>1, <4>2, <4>3, FindByIDFacts DEF Tokens
      <4>4. CASE RotateCommit(p)
        <5>1. p # q
          BY <2>3, <4>4 DEF RotateCommit, Answer, Rotating, Inv, TypeOK
        <5>2. fresh[p] # fresh[q]
          BY <3>2, <4>4, <5>1 DEF RotateCommit, Commit, Rotating, Inv, Fresh
        <5>3. state'[fresh[q]] = "absent" /\ UNCHANGED <<drawn, session>>
          BY <4>1, <4>4, <5>2, CommitFacts
        <5> QED
          BY <4>1, <4>2, <5>3 DEF Inv, TypeOK, Tokens
      <4>5. CASE Revoke(p)
        <5>1. state'[fresh[q]] = "absent" /\ UNCHANGED <<drawn, session>>
          BY <4>1, <4>5 DEF Revoke, Inv, TypeOK
        <5> QED
          BY <4>1, <4>2, <5>1 DEF Inv, TypeOK, Tokens
      <4>6. CASE UNCHANGED <<drawn, session, state>>
        BY <4>1, <4>2, <4>6 DEF Inv, TypeOK, Tokens
      <4> QED
        BY <1>2, <4>3, <4>4, <4>5, <4>6
           DEF FindActiveByHash, tables, Refresh, RotateRevoke, RotateInsert, rest, Logout, Abort
    <3> QED
      BY <3>1, <3>2
  <2>4. ASSUME NEW q \in Requests, NEW r \in Requests,
               pc'[q] \in Rotating, pc'[r] \in Rotating, fresh'[q] = fresh'[r]
        PROVE  q = r
    <3>1. ASSUME NEW x \in Requests, NEW y \in Requests, pc[x] \notin Rotating,
                 pc[y] \in Rotating, pc'[x] \in Rotating, pc'[y] \in Rotating
          PROVE  fresh'[x] # fresh'[y]
      <4>1. fresh'[x] = drawn + 1 /\ drawn \in Nat
        BY <2>2, <3>1, FindByIDFacts
      <4>2. fresh'[y] \in Tokens /\ fresh'[y] <= drawn
        BY <2>1, <3>1, RotatingFacts
      <4> QED
        BY <4>1, <4>2 DEF Tokens
    <3>2. CASE pc[q] \in Rotating /\ pc[r] \in Rotating
      BY <2>1, <2>4, <3>2 DEF Inv, Fresh
    <3>3. CASE pc[q] \notin Rotating /\ pc[r] \notin Rotating
      BY <2>2, <2>4, <3>3
    <3> QED
      BY <2>4, <3>1, <3>2, <3>3
  <2> QED
    BY <2>3, <2>4 DEF Fresh
<1> QED
  BY <1>1, <1>2 DEF Next, vars, Register, Login, Expire

\* A row whose lock is free is in no transaction.
LEMMA FreeRow ==
  ASSUME Inv, NEW t \in Tokens, lock[t] = {}, NEW q \in Requests, pc[q] \in InTransaction
  PROVE  arg[q] # t
  BY DEF Inv, Locked

LEMMA NextLocked == Inv /\ [Next]_vars => Locked'
<1> SUFFICES ASSUME Inv, [Next]_vars PROVE Locked'
  OBVIOUS
<1>0. /\ \A t \in Tokens, q \in Requests :
           q \in lock[t] <=> pc[q] \in InTransaction /\ arg[q] = t
      /\ \A q \in Requests : pc[q] \in InTransaction =>
           state[arg[q]] = "active" /\ arg[q] \in Tokens
  BY RequestFacts DEF Inv, Locked, InTransaction
<1>1. CASE UNCHANGED <<pc, arg, lock, state>>
  BY <1>0, <1>1 DEF Locked
<1>2. ASSUME NEW u \in Users, Login(u)
      PROVE  Locked'
  <2>1. \A t \in Tokens : state[t] = "active" => state'[t] = "active"
    BY <1>2, LoginFacts
  <2> QED
    BY <1>0, <1>2, <2>1, LoginFacts DEF Locked
<1>3. ASSUME NEW p \in Requests, FindActiveByHash(p)
      PROVE  Locked'
  <2>1. pc[p] \notin InTransaction /\ pc'[p] \notin InTransaction
    BY <1>3 DEF FindActiveByHash, Answer, InTransaction, Inv, TypeOK
  <2>2. UNCHANGED <<lock, state>>
    BY <1>3 DEF FindActiveByHash, tables
  <2> QED
    BY <1>0, <1>3, <2>1, <2>2, PlaceSteps DEF Locked
<1>4. ASSUME NEW p \in Requests, FindByID(p)
      PROVE  Locked'
  <2>1. pc[p] \notin InTransaction /\ pc'[p] \notin InTransaction
    BY <1>4 DEF FindByID, InTransaction, Inv, TypeOK
  <2> QED
    BY <1>0, <1>4, <2>1, PlaceSteps, FindByIDFacts DEF Locked, Refresh
<1>5. ASSUME NEW p \in Requests, RotateRevoke(p)
      PROVE  Locked'
  <2>1. /\ arg[p] \in Tokens /\ pc[p] \notin InTransaction
        /\ lock[arg[p]] = {} /\ UNCHANGED <<arg, state>>
    BY <1>5, RequestFacts DEF RotateRevoke, rest, InTransaction
  <2>2. CASE state[arg[p]] = "active"
    <3>1. /\ lock' = [lock EXCEPT ![arg[p]] = {p}]
          /\ pc' = [pc EXCEPT ![p] = "inserting"]
      BY <1>5, <2>2 DEF RotateRevoke
    <3>2. \A q \in Requests : pc'[q] \in InTransaction <=> q = p \/ pc[q] \in InTransaction
      BY <3>1 DEF InTransaction, Inv, TypeOK
    <3>3. \A t \in Tokens : lock'[t] = IF t = arg[p] THEN {p} ELSE lock[t]
      BY <2>1, <3>1 DEF Inv, TypeOK
    <3> QED
      BY <1>0, <2>1, <2>2, <3>2, <3>3, FreeRow DEF Locked
  <2>3. CASE state[arg[p]] # "active"
    <3>1. pc' = [pc EXCEPT ![p] = "done"] /\ UNCHANGED lock
      BY <1>5, <2>3 DEF RotateRevoke, Answer
    <3>2. \A q \in Requests : pc'[q] \in InTransaction <=> pc[q] \in InTransaction
      BY <2>1, <3>1 DEF InTransaction, Inv, TypeOK
    <3> QED
      BY <1>0, <2>1, <3>1, <3>2 DEF Locked
  <2> QED
    BY <2>2, <2>3
<1>6. ASSUME NEW p \in Requests, RotateInsert(p)
      PROVE  Locked'
  <2>1. \A q \in Requests : pc'[q] \in InTransaction <=> pc[q] \in InTransaction
    BY <1>6 DEF RotateInsert, InTransaction, Inv, TypeOK
  <2>2. UNCHANGED <<lock, arg, state>>
    BY <1>6 DEF RotateInsert, rest
  <2> QED
    BY <1>0, <2>1, <2>2 DEF Locked
<1>7. ASSUME NEW p \in Requests, Unlock(p), pc' = [pc EXCEPT ![p] = "done"], UNCHANGED arg,
             \A q \in Requests : q # p /\ pc[q] \in InTransaction => state'[arg[q]] = "active"
      PROVE  Locked'
  <2>1. \A q \in Requests : pc'[q] \in InTransaction <=> q # p /\ pc[q] \in InTransaction
    BY <1>7 DEF InTransaction, Inv, TypeOK
  <2>2. \A t \in Tokens : lock'[t] = lock[t] \ {p}
    BY <1>7 DEF Unlock
  <2> QED
    BY <1>0, <1>7, <2>1, <2>2 DEF Locked
<1>8. ASSUME NEW p \in Requests, RotateCommit(p)
      PROVE  Locked'
  <2>1. ASSUME NEW q \in Requests, q # p, pc[q] \in InTransaction
        PROVE  state'[arg[q]] = "active"
    <3>1. p \in lock[arg[p]] /\ q \in lock[arg[q]] /\ arg[p] \in Tokens
      BY <1>0, <1>8, <2>1 DEF RotateCommit, Commit, InTransaction
    <3>2. arg[q] # arg[p]
      BY <2>1, <3>1 DEF Inv, TypeOK
    <3> QED
      BY <1>0, <1>8, <2>1, <3>2, CommitFacts
  <2> QED
    BY <1>7, <1>8, <2>1 DEF RotateCommit, Commit, Answer
<1>9. ASSUME NEW p \in Requests, Revoke(p)
      PROVE  Locked'
  <2>1. /\ arg[p] \in Tokens /\ lock[arg[p]] = {} /\ UNCHANGED <<lock, arg>>
        /\ pc[p] \notin InTransaction /\ pc' = [pc EXCEPT ![p] = "done"]
    BY <1>9, RequestFacts DEF Revoke, Answer, InTransaction
  <2>2. \A q \in Requests : pc'[q] \in InTransaction <=> pc[q] \in InTransaction
    BY <2>1 DEF InTransaction, Inv, TypeOK
  <2>3. \A t \in Tokens : t # arg[p] => state'[t] = state[t]
    BY <1>9 DEF Revoke, Inv, TypeOK
  <2> QED
    BY <1>0, <2>1, <2>2, <2>3, FreeRow DEF Locked
<1>10. ASSUME NEW p \in Requests, Abort(p)
      PROVE  Locked'
  BY <1>0, <1>7, <1>10 DEF Abort, Answer
<1> QED
  BY <1>1, <1>2, <1>3, <1>4, <1>5, <1>6, <1>8, <1>9, <1>10
     DEF Next, vars, Register, Refresh, Logout, Expire

LEMMA NextRevoked == Inv /\ [Next]_vars => Revoked' /\ ExchangedOnce'
<1> SUFFICES ASSUME Inv, [Next]_vars PROVE Revoked' /\ ExchangedOnce'
  OBVIOUS
<1>1. ASSUME NEW t \in Tokens, state[t] = "revoked"
      PROVE  state'[t] = "revoked"
  <2>1. ASSUME NEW q \in Requests, RotateCommit(q)
        PROVE  t # arg[q] /\ t # fresh[q]
    BY <1>1, <2>1, CommitFacts
  <2>2. ASSUME NEW u \in Users, Login(u)
        PROVE  t # drawn + 1
    BY <1>1, <2>2, LoginFacts
  <2> QED
    BY <1>1, <2>1, <2>2, StateSteps
<1>2. \A t \in out' : state'[t] = "revoked"
  <2>1. \A t \in out : state'[t] = "revoked"
    BY <1>1 DEF Inv, TypeOK, Revoked
  <2>2. ASSUME NEW q \in Requests, Revoke(q), out' # out
        PROVE  out' = out \cup {arg[q]} /\ state'[arg[q]] = "revoked"
    BY <2>2, RequestFacts DEF Revoke, Inv, TypeOK
  <2>3. out' = out \/ \E q \in Requests : Revoke(q)
    BY DEF Next, vars, Register, Login, FindActiveByHash, tables, Refresh, FindByID,
           RotateRevoke, RotateInsert, rest, RotateCommit, Commit, Logout, Abort, Expire
  <2> QED
    BY <2>1, <2>2, <2>3
<1>3. CASE UNCHANGED parent
  <2>1. \A t \in Tokens : parent[t] # 0 => state'[parent[t]] = "revoked"
    BY <1>1 DEF Inv, TypeOK, Revoked, Tokens
  <2> QED
    BY <1>2, <1>3, <2>1 DEF Inv, Revoked, ExchangedOnce
<1>4. ASSUME NEW q \in Requests, RotateCommit(q)
      PROVE  Revoked' /\ ExchangedOnce'
  <2>1. \A t \in Tokens : parent'[t] = IF t = fresh[q] THEN arg[q] ELSE parent[t]
    BY <1>4 DEF RotateCommit, Commit, Inv, TypeOK
  <2>2. \A t \in Tokens : parent[t] # 0 => parent[t] \in Tokens /\ state[parent[t]] = "revoked"
    BY DEF Inv, TypeOK, Revoked, Tokens
  <2>3. /\ fresh[q] \in Tokens /\ state[arg[q]] = "active" /\ state'[arg[q]] = "revoked"
    BY <1>4, CommitFacts
  <2>4. \A t \in Tokens : parent'[t] # 0 => state'[parent'[t]] = "revoked"
    BY <1>1, <2>1, <2>2, <2>3
  <2>5. \A s, t \in Tokens : parent'[s] = parent'[t] /\ parent'[s] # 0 => s = t
    BY <2>1, <2>2, <2>3 DEF Inv, ExchangedOnce
  <2> QED
    BY <1>2, <2>4, <2>5 DEF Revoked, ExchangedOnce
<1> QED
  BY <1>3, <1>4
     DEF Next, vars, Register, Login, FindActiveByHash, tables, Refresh, FindByID,
         RotateRevoke, RotateInsert, rest, Logout, Revoke, Abort, Expire

\* A stored token was drawn before.
LEMMA StoredFacts ==
  ASSUME Inv, NEW t \in Tokens, state[t] # "absent"
  PROVE  /\ t <= drawn /\ t # drawn + 1
         /\ session[t] \in Tokens /\ session[t] <= t /\ session[t] # drawn + 1
         /\ session[session[t]] = session[t]
<1>1. t <= drawn /\ drawn \in Nat /\ t \in Nat
  BY DEF Inv, TypeOK, Drawn, Tokens
<1> QED
  BY <1>1 DEF Inv, Drawn, Tokens

\* The two parts of OneLive, as facts about single tokens.
LEMMA LiveFacts ==
  ASSUME Inv
  PROVE  /\ \A s, t \in Tokens :
              state[s] = "active" /\ state[t] = "active" /\ session[s] = session[t] => s = t
         /\ \A t \in Tokens : state[t] = "active" => ~LoggedOut(session[t])
         /\ \A l \in Tokens : session[l] = l /\ ~LoggedOut(l) =>
              \E t \in Tokens : session[t] = l /\ state[t] = "active"
<1>1. ASSUME NEW t \in Tokens, state[t] = "active"
      PROVE  ~LoggedOut(session[t])
  <2>1. session[t] \in Tokens /\ session[session[t]] = session[t]
    BY <1>1, StoredFacts
  <2>2. t \in Active(session[t])
    BY <1>1 DEF Active
  <2> QED
    BY <2>1, <2>2 DEF Inv, OneLive
<1> QED
  BY <1>1 DEF Inv, OneLive, Active

LEMMA NextOneLive == Inv /\ [Next]_vars => OneLive'
<1> SUFFICES ASSUME Inv, [Next]_vars PROVE OneLive'
  OBVIOUS
<1>0. \A t \in out : t \in Tokens /\ state[t] = "revoked"
  BY DEF Inv, TypeOK, Revoked
<1>1. CASE UNCHANGED <<state, session, out>>
  BY <1>1 DEF Inv, OneLive, Active, LoggedOut
<1>2. ASSUME NEW u \in Users, Login(u)
      PROVE  OneLive'
  <2>1. \A t \in Tokens : state[t] # "absent" => session'[t] = session[t] /\ session[t] # drawn + 1
    BY <1>2, LoginFacts, StoredFacts
  <2>2. \A l : LoggedOut(l)' <=> LoggedOut(l)
    BY <1>0, <1>2, <2>1, LoginFacts DEF LoggedOut
  <2>3. \A s, t \in Tokens :
          state'[s] = "active" /\ state'[t] = "active" /\ session'[s] = session'[t] => s = t
    BY <1>2, <2>1, LoginFacts, LiveFacts
  <2>4. ASSUME NEW t \in Tokens, state'[t] = "active"
        PROVE  ~LoggedOut(session[t])'
    <3>1. CASE t = drawn + 1
      <4>1. \A x \in out : session'[x] # drawn + 1
        BY <1>0, <2>1
      <4>2. session'[t] = drawn + 1 /\ out' = out
        BY <1>2, <3>1, LoginFacts
      <4> QED
        BY <4>1, <4>2 DEF LoggedOut
    <3>2. CASE t # drawn + 1
      <4>1. ~LoggedOut(session[t])
        BY <1>2, <2>4, <3>2, LoginFacts, LiveFacts
      <4> QED
        BY <1>2, <2>2, <3>2, <4>1, LoginFacts DEF LoggedOut
    <3> QED
      BY <3>1, <3>2
  <2>5. ASSUME NEW l \in Tokens, session'[l] = l, ~LoggedOut(l)'
        PROVE  \E t \in Tokens : session'[t] = l /\ state'[t] = "active"
    <3>1. CASE l = drawn + 1
      BY <1>2, <3>1, LoginFacts
    <3>2. CASE l # drawn + 1
      <4>1. PICK t \in Tokens : session[t] = l /\ state[t] = "active"
        BY <1>2, <2>2, <2>5, <3>2, LoginFacts, LiveFacts
      <4> QED
        BY <1>2, <2>1, <4>1, LoginFacts
    <3> QED
      BY <3>1, <3>2
  <2> QED
    BY <2>3, <2>4, <2>5 DEF OneLive, Active, LoggedOut
<1>3. ASSUME NEW q \in Requests, FindByID(q)
      PROVE  OneLive'
  <2>1. \A t \in Tokens : state[t] # "absent" => session'[t] = session[t]
    BY <1>3, FindByIDFacts, StoredFacts
  <2>2. session'[drawn + 1] # drawn + 1
    BY <1>3, FindByIDFacts, RequestFacts, StoredFacts
  <2>3. \A l : LoggedOut(l)' <=> LoggedOut(l)
    BY <1>0, <1>3, <2>1, FindByIDFacts DEF LoggedOut
  <2>4. \A l : Active(l)' = Active(l)
    BY <1>3, <2>1, FindByIDFacts DEF Active
  <2>5. \A l \in Tokens : session'[l] = l => session[l] = l
    BY <1>3, <2>2, FindByIDFacts
  <2>6. \A s, t \in Tokens :
          state'[s] = "active" /\ state'[t] = "active" /\ session'[s] = session'[t] => s = t
    BY <1>3, <2>1, FindByIDFacts, LiveFacts
  <2> QED
    BY <2>3, <2>4, <2>5, <2>6 DEF Inv, OneLive
<1>4. ASSUME NEW q \in Requests, RotateCommit(q)
      PROVE  OneLive'
  <2>1. \A t \in Tokens : state'[t] = "active" <=>
          t = fresh[q] \/ (t # arg[q] /\ state[t] = "active")
    BY <1>4, CommitFacts
  <2>2. /\ session' = session /\ out' = out
        /\ session[fresh[q]] = session[arg[q]] /\ state[arg[q]] = "active"
        /\ arg[q] \in Tokens /\ fresh[q] \in Tokens
    BY <1>4, CommitFacts
  <2>3. \A s, t \in Tokens :
          state'[s] = "active" /\ state'[t] = "active" /\ session[s] = session[t] => s = t
    BY <2>1, <2>2, LiveFacts
  <2>4. \A t \in Tokens : state'[t] = "active" => ~LoggedOut(session[t])
    BY <2>1, <2>2, LiveFacts
  <2>5. ASSUME NEW l \in Tokens, session[l] = l, ~LoggedOut(l)
        PROVE  \E t \in Tokens : session[t] = l /\ state'[t] = "active"
    <3>1. PICK t \in Tokens : session[t] = l /\ state[t] = "active"
      BY <2>5, LiveFacts
    <3> QED
      BY <2>1, <2>2, <3>1
  <2> QED
    BY <2>2, <2>3, <2>4, <2>5 DEF OneLive, Active, LoggedOut
<1>5. ASSUME NEW q \in Requests, Revoke(q), state[arg[q]] = "active"
      PROVE  OneLive'
  <2>1. /\ arg[q] \in Tokens /\ session' = session /\ out' = out \cup {arg[q]}
        /\ \A t \in Tokens : state'[t] = "active" <=> t # arg[q] /\ state[t] = "active"
    BY <1>5, RequestFacts DEF Revoke, Inv, TypeOK
  <2>2. \A l : LoggedOut(l)' <=> LoggedOut(l) \/ session[arg[q]] = l
    BY <2>1 DEF LoggedOut
  <2>3. \A t \in Tokens : state'[t] = "active" => session[t] # session[arg[q]]
    BY <1>5, <2>1, LiveFacts
  <2>4. ASSUME NEW l \in Tokens, session[l] = l, l # session[arg[q]], ~LoggedOut(l)
        PROVE  \E t \in Tokens : session[t] = l /\ state'[t] = "active"
    <3>1. PICK t \in Tokens : session[t] = l /\ state[t] = "active"
      BY <2>4, LiveFacts
    <3> QED
      BY <2>1, <2>4, <3>1
  <2>5. \A t \in Tokens : state'[t] = "active" => ~LoggedOut(session[t]) /\ session[t] # session[arg[q]]
    BY <2>1, <2>3, LiveFacts
  <2>6. \A s, t \in Tokens :
          state'[s] = "active" /\ state'[t] = "active" /\ session[s] = session[t] => s = t
    BY <2>1, LiveFacts
  <2> QED
    BY <2>1, <2>2, <2>4, <2>5, <2>6 DEF OneLive, Active
<1>6. ASSUME NEW q \in Requests, Revoke(q), state[arg[q]] # "active"
      PROVE  UNCHANGED <<state, session, out>>
  BY <1>6 DEF Revoke
<1> QED
  BY <1>1, <1>2, <1>3, <1>4, <1>5, <1>6
     DEF Next, vars, Register, FindActiveByHash, tables, Refresh, RotateRevoke, RotateInsert,
         rest, Logout, Abort, Expire

LEMMA NextUndelivered == Inv /\ [Next]_vars => Undelivered'
<1> SUFFICES ASSUME Inv, [Next]_vars, NEW t \in Tokens, state'[t] = "active", t \notin held'
             PROVE  session'[t] = t \/ \E q \in Requests : answer'[q] = "unauthorized" /\ fresh'[q] = t
  BY DEF Undelivered
<1>1. CASE state[t] = "active"
  <2>1. t \notin held
    BY HeldSteps
  <2>2. session[t] = t \/ \E q \in Requests : answer[q] = "unauthorized" /\ fresh[q] = t
    BY <1>1, <2>1 DEF Inv, Undelivered
  <2>3. session'[t] = session[t]
    BY <1>1, StoredFacts, DrawSteps, LoginFacts, FindByIDFacts
  <2>4. ASSUME NEW q \in Requests, answer[q] = "unauthorized"
        PROVE  answer'[q] = "unauthorized" /\ fresh'[q] = fresh[q]
    <3>1. pc[q] = "done"
      BY <2>4 DEF Inv, Presents
    <3>2. ASSUME NEW p \in Requests,
                 FindActiveByHash(p) \/ Refresh(p) \/ Logout(p) \/ Abort(p)
          PROVE  answer'[q] = answer[q] /\ fresh'[q] = fresh[q]
      BY <3>1, <3>2, PlaceSteps
    <3> QED
      BY <2>4, <3>2 DEF Next, vars, Register, Login, Expire
  <2> QED
    BY <2>2, <2>3, <2>4
<1>2. CASE state[t] # "active"
  <2>1. ASSUME NEW u \in Users, Login(u), t = drawn + 1
        PROVE  session'[t] = t
    BY <2>1, LoginFacts
  <2>2. ASSUME NEW q \in Requests, RotateCommit(q), t = fresh[q]
        PROVE  answer'[q] = "unauthorized" /\ fresh'[q] = t
    BY <2>2, CommitFacts
  <2> QED
    BY <1>2, <2>1, <2>2, StateSteps
<1> QED
  BY <1>1, <1>2

\* A request that has been answered changes no more.
LEMMA AnsweredStays ==
  ASSUME Inv, [Next]_vars, NEW q \in Requests, pc[q] = "done"
  PROVE  answer'[q] = answer[q] /\ op'[q] = op[q] /\ arg'[q] = arg[q] /\ fresh'[q] = fresh[q]
<1>1. ASSUME NEW p \in Requests,
             FindActiveByHash(p) \/ Refresh(p) \/ Logout(p) \/ Abort(p)
      PROVE  answer'[q] = answer[q] /\ op'[q] = op[q] /\ arg'[q] = arg[q] /\ fresh'[q] = fresh[q]
  BY <1>1, PlaceSteps
<1> QED
  BY <1>1 DEF Next, vars, Register, Login, Expire

\* A logged out session stays so, and stored tokens keep their session.
LEMMA SessionStays ==
  ASSUME Inv, [Next]_vars
  PROVE  /\ \A t \in Tokens : state[t] # "absent" => session'[t] = session[t]
         /\ \A t \in Tokens : session[t] # 0 => session'[t] = session[t]
         /\ \A t \in out : session'[t] = session[t]
         /\ out \subseteq out'
<1>1. \A t \in Tokens : session[t] # 0 => session'[t] = session[t]
  BY DrawSteps, LoginFacts, FindByIDFacts
<1>2. \A t \in Tokens : state[t] # "absent" => session[t] # 0
  BY StoredFacts DEF Tokens
<1>3. \A t \in out : t \in Tokens /\ state[t] # "absent"
  BY DEF Inv, TypeOK, Revoked
<1>4. out \subseteq out'
  BY DEF Next, vars, Register, Login, FindActiveByHash, tables, Refresh, FindByID,
         RotateRevoke, RotateInsert, rest, RotateCommit, Commit, Logout, Revoke, Abort, Expire
<1> QED
  BY <1>1, <1>2, <1>3, <1>4

LEMMA NextEnded == Inv /\ [Next]_vars => Ended'
<1> SUFFICES ASSUME Inv, [Next]_vars, NEW q \in Requests, op'[q] = "logout", answer'[q] = "ok"
             PROVE  LoggedOut(session[arg[q]])'
  BY DEF Ended
<1>1. CASE answer[q] = "ok"
  <2>1. pc[q] = "done"
    BY <1>1 DEF Inv, Presents
  <2>2. op[q] = "logout" /\ arg'[q] = arg[q]
    BY <2>1, AnsweredStays
  <2>3. session'[arg[q]] = session[arg[q]]
    BY <2>1, RequestFacts, SessionStays
  <2>4. PICK t \in out : session[t] = session[arg[q]]
    BY <1>1, <2>2 DEF Inv, Ended, LoggedOut
  <2> QED
    BY <2>2, <2>3, <2>4, SessionStays DEF LoggedOut
<1>2. CASE answer[q] # "ok"
  <2>1. ASSUME NEW p \in Requests, Revoke(p)
        PROVE  LoggedOut(session[arg[q]])'
    <3>1. p = q
      BY <1>2, <2>1, PlaceSteps DEF Logout
    <3>2. arg[q] \in out' /\ arg'[q] = arg[q]
      BY <1>2, <2>1, <3>1 DEF Revoke, Answer, Inv, TypeOK
    <3> QED
      BY <3>2 DEF LoggedOut
  <2>2. ASSUME NEW p \in Requests, RotateCommit(p)
        PROVE  FALSE
    <3>1. p = q
      BY <1>2, <2>2, PlaceSteps DEF Refresh
    <3> QED
      BY <2>2, <3>1, RotatingFacts DEF RotateCommit, Commit, Rotating
  <2>3. ASSUME NEW p \in Requests, Answer(p, "unauthorized") \/ UNCHANGED answer
        PROVE  FALSE
    BY <1>2, <2>3 DEF Answer, Inv, TypeOK
  <2> QED
    BY <1>2, <2>1, <2>2, <2>3
       DEF Next, vars, Register, Login, FindActiveByHash, Refresh, FindByID, RotateRevoke,
           RotateInsert, rest, Logout, Abort, Expire
<1> QED
  BY <1>1, <1>2

LEMMA NextInv == Inv /\ [Next]_vars => Inv'
  BY NextTypeOK, NextPresents, NextDrawnInv, NextFresh, NextLocked, NextRevoked, NextOneLive,
     NextUndelivered, NextEnded DEF Inv

LEMMA AlwaysInv == Spec => []Inv
  BY InitInv, NextInv, PTL DEF Spec

-----------------------------------------------------------------------------
(* The theorems.                                                           *)

\* TypeOK: every variable has its type, and no two transactions hold the lock of
\* one row.
THEOREM TypeCorrect == Spec => []TypeOK
<1>1. Inv => TypeOK
  BY DEF Inv
<1> QED
  BY <1>1, AlwaysInv, PTL

\* ExchangedOnce: however many refreshes present one token, the UPDATE of Rotate
\* lets one of them replace it.
THEOREM ExchangedOnceHolds == Spec => []ExchangedOnce
<1>1. Inv => ExchangedOnce
  BY DEF Inv
<1> QED
  BY <1>1, AlwaysInv, PTL

LEMMA OneMember ==
  ASSUME NEW S, NEW x \in S, \A y \in S : y = x
  PROVE  Cardinality(S) = 1
<1>1. S = {x}
  OBVIOUS
<1> QED
  BY <1>1, FS_Singleton

\* OneLiveTokenPerSession: a session has one live token until a logout takes
\* effect and none after it, whichever statement of Rotate or Revoke fails.
THEOREM OneLiveTokenPerSessionHolds == Spec => []OneLiveTokenPerSession
<1>1. Inv => OneLiveTokenPerSession
  <2> SUFFICES ASSUME Inv, NEW l \in Tokens, session[l] = l
               PROVE  Cardinality(Active(l)) = IF LoggedOut(l) THEN 0 ELSE 1
    BY DEF OneLiveTokenPerSession
  <2>1. ASSUME LoggedOut(l)
        PROVE  Cardinality(Active(l)) = 0
    <3>1. Active(l) = {}
      BY <2>1 DEF Inv, OneLive
    <3> QED
      BY <3>1, FS_EmptySet
  <2>2. ASSUME ~LoggedOut(l)
        PROVE  Cardinality(Active(l)) = 1
    <3>1. PICK t \in Tokens : session[t] = l /\ state[t] = "active"
      BY <2>2, LiveFacts
    <3>2. t \in Active(l) /\ \A s \in Active(l) : s = t
      BY <3>1, LiveFacts DEF Active
    <3> QED
      BY <3>2, OneMember
  <2> QED
    BY <2>1, <2>2
<1> QED
  BY <1>1, AlwaysInv, PTL

\* LogoutIsEffective: after a logout that answered 204 no token of its session is
\* live, whatever refreshes of it were under way.
THEOREM LogoutIsEffectiveHolds == Spec => []LogoutIsEffective
<1>1. Inv => LogoutIsEffective
  <2> SUFFICES ASSUME Inv, NEW q \in Requests, op[q] = "logout", answer[q] = "ok"
               PROVE  Active(session[arg[q]]) = {}
    BY DEF LogoutIsEffective
  <2>1. pc[q] = "done"
    BY DEF Inv, Presents
  <2>2. session[arg[q]] \in Tokens /\ session[session[arg[q]]] = session[arg[q]]
    BY <2>1, RequestFacts
  <2> QED
    BY <2>2 DEF Inv, Ended, OneLive
<1> QED
  BY <1>1, AlwaysInv, PTL

\* LockoutNeedsALostAnswer: the live token of a session that nobody ended is in
\* the client's hands, unless the answer that carried it was lost.
THEOREM LockoutNeedsALostAnswerHolds == Spec => []LockoutNeedsALostAnswer
<1>1. Inv => LockoutNeedsALostAnswer
  <2> SUFFICES ASSUME Inv, NEW l \in Tokens,
                      session[l] = l, ~LoggedOut(l), Active(l) \cap held = {}
               PROVE  \/ l \notin held
                      \/ \E q \in Requests : answer[q] = "unauthorized" /\ fresh[q] \in Active(l)
    BY DEF LockoutNeedsALostAnswer
  <2>1. PICK t \in Tokens : session[t] = l /\ state[t] = "active"
    BY LiveFacts
  <2>2. t \in Active(l) /\ t \notin held
    BY <2>1 DEF Active
  <2>3. session[t] = t \/ \E q \in Requests : answer[q] = "unauthorized" /\ fresh[q] = t
    BY <2>1, <2>2 DEF Inv, Undelivered
  <2> QED
    BY <2>1, <2>2, <2>3
<1> QED
  BY <1>1, AlwaysInv, PTL

\* NoNewAccessAfterLogout: once a logout took effect, no answer brings the session
\* an access token that RequireAuth accepts and did not accept before.
THEOREM NoNewAccessAfterLogoutHolds == Spec => NoNewAccessAfterLogout
<1>1. Inv /\ [Next]_vars =>
        \A l \in Tokens : LoggedOut(l) =>
          \A t \in Tokens : session[t] = l /\ ~RequireAuth(t) => ~RequireAuth(t)'
  <2> SUFFICES ASSUME Inv, [Next]_vars, NEW l \in Tokens, LoggedOut(l),
                      NEW t \in Tokens, session[t] = l, ~RequireAuth(t)
               PROVE  ~RequireAuth(t)'
    OBVIOUS
  <2>1. CASE t \notin held
    <3>1. ASSUME NEW u \in Users, Login(u)
          PROVE  t # drawn + 1
      BY <3>1, LoginFacts DEF Tokens
    <3>2. ASSUME NEW q \in Requests, RotateCommit(q)
          PROVE  t # fresh[q]
      BY <3>2, CommitFacts, LiveFacts
    <3>3. t \notin held'
      BY <2>1, <3>1, <3>2, HeldSteps
    <3> QED
      BY <3>3 DEF RequireAuth
  <2>2. CASE t \in held
    <3>1. t <= stale /\ t \in Nat /\ stale \in Nat
      BY <2>2 DEF RequireAuth, parseAccessToken, Inv, TypeOK, Tokens
    <3>2. stale' = stale \/ stale' = stale + 1
      BY DEF Next, vars, clock, Register, Login, FindActiveByHash, Refresh, FindByID,
             RotateRevoke, RotateInsert, rest, RotateCommit, Commit, Logout, Revoke, Abort, Expire
    <3>3. ~(t > stale')
      BY <3>1, <3>2
    <3> QED
      BY <3>3 DEF RequireAuth, parseAccessToken
  <2> QED
    BY <2>1, <2>2
<1> QED
  BY <1>1, AlwaysInv, PTL DEF Spec, NoNewAccessAfterLogout

-----------------------------------------------------------------------------
(* The refinement of Session.                                              *)

LEMMA PromiseStep == Inv /\ [Next]_vars => [Promise!Next]_(Promise!vars)
<1> SUFFICES ASSUME Inv, [Next]_vars PROVE [Promise!Next]_(Promise!vars)
  OBVIOUS
<1>1. CASE UNCHANGED state
  BY <1>1 DEF Promise!vars, Live, Used
<1>2. ASSUME NEW u \in Users, Login(u)
      PROVE  [Promise!Next]_(Promise!vars)
  <2>1. /\ Live' = Live \cup {drawn + 1}
        /\ Used' = Used \cup {drawn + 1}
        /\ drawn + 1 \notin Used
    BY <1>2, LoginFacts DEF Live, Used
  <2> QED
    BY <1>2, <2>1, LoginFacts DEF Promise!Next, Promise!Open
<1>3. ASSUME NEW q \in Requests, RotateCommit(q)
      PROVE  [Promise!Next]_(Promise!vars)
  <2>1. /\ Live' = (Live \ {arg[q]}) \cup {fresh[q]}
        /\ Used' = Used \cup {fresh[q]}
        /\ arg[q] \in Live /\ fresh[q] \notin Used
    BY <1>3, CommitFacts DEF Live, Used
  <2> QED
    BY <1>3, <2>1, CommitFacts DEF Promise!Next, Promise!Exchange
<1>4. ASSUME NEW q \in Requests, Revoke(q), state[arg[q]] = "active"
      PROVE  [Promise!Next]_(Promise!vars)
  <2>1. /\ arg[q] \in Tokens
        /\ \A t \in Tokens : state'[t] = IF t = arg[q] THEN "revoked" ELSE state[t]
    BY <1>4, RequestFacts DEF Revoke, Inv, TypeOK
  <2>2. Live' = Live \ {arg[q]} /\ Used' = Used /\ arg[q] \in Live
    BY <1>4, <2>1 DEF Live, Used
  <2> QED
    BY <2>1, <2>2 DEF Promise!Next, Promise!End
<1>5. ASSUME NEW q \in Requests, Revoke(q), state[arg[q]] # "active"
      PROVE  UNCHANGED state
  BY <1>5 DEF Revoke
<1> QED
  BY <1>1, <1>2, <1>3, <1>4, <1>5
     DEF Next, vars, Register, FindActiveByHash, tables, Refresh, FindByID, RotateRevoke,
         RotateInsert, rest, Logout, Abort, Expire

\* ImplementsSession: for any number of requests and tokens, every statement that
\* commits opens a session, exchanges a live token or ends one, in one step.
THEOREM SessionRefined == Spec => ImplementsSession
<1>1. Init => Promise!Init
  BY DEF Init, Promise!Init, Live, Used
<1> QED
  BY <1>1, PromiseStep, AlwaysInv, PTL DEF Spec, ImplementsSession, Promise!Spec
=============================================================================
