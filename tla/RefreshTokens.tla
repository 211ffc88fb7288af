---------------------------- MODULE RefreshTokens ----------------------------
(***************************************************************************)
(* Sessions: AuthService's Register, Login, Refresh and Logout over the    *)
(* users and refresh_tokens tables.  Refresh looks the token up first and  *)
(* then rotates it in a transaction of two statements; Logout looks it up  *)
(* and revokes it in one statement.  Requests interleave at the statements.*)
(*                                                                         *)
(* A token is the random value that generateRefreshToken draws, numbered   *)
(* in the order of the draws; the same number stands for the access token  *)
(* signed just before, which travels in the same answer.  A session is     *)
(* named by the token of its login.  All tokens live equally long, so they *)
(* run out in order; an access token runs out before the refresh token     *)
(* beside it.  An UPDATE locks the row until its transaction ends; a       *)
(* second UPDATE of the row waits and then tests its WHERE clause on what  *)
(* was committed.                                                          *)
(***************************************************************************)
EXTENDS Naturals, FiniteSets

CONSTANTS
  Requests,     \* HTTP requests to /auth/refresh and /auth/logout
  Users,        \* email addresses
  MaxTokens     \* bound of the model on the tokens drawn

ASSUME BoundAssumption == MaxTokens \in Nat

VARIABLES
  users,      \* registered users
  state,      \* state[t]: "absent", "active" or "revoked" (committed)
  parent,     \* parent[t]: the token that t replaced, 0 after a login
  session,    \* session[t]: the login of the session t was drawn for, 0 before
  drawn,      \* how many tokens have been drawn
  stale,      \* access tokens 1..stale are past their exp
  expired,    \* refresh tokens 1..expired are past their expires_at
  held,       \* tokens some client has received
  lock,       \* lock[t]: the transactions that hold the row of t, one at most
  pc,         \* pc[q]: where request q stands
  op,         \* op[q]: "refresh" or "logout"
  arg,        \* arg[q]: the token that q presents
  fresh,      \* fresh[q]: the token that q has drawn
  answer,     \* answer[q]: "none", "ok" or "unauthorized"
  out         \* tokens that a Logout revoked

clock == <<stale, expired>>
vars == <<users, state, parent, session, drawn, clock, held, lock,
          pc, op, arg, fresh, answer, out>>

-----------------------------------------------------------------------------
Tokens == 1..MaxTokens
Places == {"idle", "found", "signed", "inserting", "committing", "done"}

Init ==
  /\ users = {}
  /\ state = [t \in Tokens |-> "absent"]
  /\ parent = [t \in Tokens |-> 0]
  /\ session = [t \in Tokens |-> 0]
  /\ drawn = 0
  /\ stale = 0 /\ expired = 0
  /\ held = {}
  /\ lock = [t \in Tokens |-> {}]
  /\ pc = [q \in Requests |-> "idle"]
  /\ op = [q \in Requests |-> "none"]
  /\ arg = [q \in Requests |-> 0]
  /\ fresh = [q \in Requests |-> 0]
  /\ answer = [q \in Requests |-> "none"]
  /\ out = {}

tables == <<users, state, parent, lock, out>>

Answer(q, a) ==
  /\ pc' = [pc EXCEPT ![q] = "done"]
  /\ answer' = [answer EXCEPT ![q] = a]

Unlock(q) == lock' = [t \in Tokens |-> lock[t] \ {q}]

\* The answer that carries token t and its access token arrives.
Deliver(t) == held' = held \cup {t}

\* generateRefreshToken, for session l; the lifetime begins here.
Generate(l) ==
  /\ drawn < MaxTokens
  /\ drawn' = drawn + 1
  /\ session' = [session EXCEPT ![drawn + 1] = l]

\* users.Create; the unique email refuses a second row.
CreateUser(u) == u \notin users /\ users' = users \cup {u}

\* Register adds the user in one statement; otherwise it answers an error.
Register(u) ==
  /\ CreateUser(u)
  /\ UNCHANGED <<state, parent, session, drawn, clock, held, lock,
                 pc, op, arg, fresh, answer, out>>

FindByEmail(u) == u \in users

\* refreshTokens.Create.
CreateToken(t) == state' = [state EXCEPT ![t] = "active"]

\* Login with the right password stores the first token of a session, in one
\* statement.  When the answer is lost nobody knows the token.
Login(u) ==
  /\ FindByEmail(u)
  /\ Generate(drawn + 1)
  /\ CreateToken(drawn + 1)
  /\ Deliver(drawn + 1) \/ UNCHANGED held
  /\ UNCHANGED <<users, parent, clock, lock, pc, op, arg, fresh, answer, out>>

\* FindActiveByHash, the first step of Refresh and of Logout, for a token the
\* client holds, used or not: it sees only committed rows and waits for none.
FindActiveByHash(q) ==
  /\ pc[q] = "idle"
  /\ \E t \in held, o \in {"refresh", "logout"} :
       /\ arg' = [arg EXCEPT ![q] = t]
       /\ op' = [op EXCEPT ![q] = o]
       /\ IF state[t] = "active" /\ t > expired
            THEN pc' = [pc EXCEPT ![q] = "found"] /\ UNCHANGED answer
            ELSE Answer(q, "unauthorized")
  /\ UNCHANGED <<tables, session, drawn, clock, held, fresh>>

\* Refresh reads the user, signs the next access token and draws the next
\* refresh token, all before the old one is revoked.
FindByID(q) ==
  /\ pc[q] = "found" /\ op[q] = "refresh"
  /\ Generate(session[arg[q]])
  /\ fresh' = [fresh EXCEPT ![q] = drawn + 1]
  /\ pc' = [pc EXCEPT ![q] = "signed"]
  /\ UNCHANGED <<tables, clock, held, op, arg, answer>>

\* What RotateRevoke leaves alone.
rest == <<users, state, parent, session, drawn, clock, op, arg, fresh, out>>

\* Mutant: the row is read but not locked.
RotateRevokeUnlocked(q) ==
  /\ pc[q] = "signed"
  /\ IF state[arg[q]] = "active"
       THEN /\ lock' = [lock EXCEPT ![arg[q]] = @ \cup {q}]
            /\ pc' = [pc EXCEPT ![q] = "inserting"]
            /\ UNCHANGED answer
       ELSE Answer(q, "unauthorized") /\ UNCHANGED lock
  /\ UNCHANGED <<rest, held>>

\* Mutant: when no row is updated the tokens that were drawn are sent anyway.
RotateRevokeUnchecked(q) ==
  /\ pc[q] = "signed"
  /\ lock[arg[q]] = {}
  /\ IF state[arg[q]] = "active"
       THEN /\ lock' = [lock EXCEPT ![arg[q]] = {q}]
            /\ pc' = [pc EXCEPT ![q] = "inserting"]
            /\ UNCHANGED <<answer, held>>
       ELSE Answer(q, "ok") /\ Deliver(fresh[q]) /\ UNCHANGED lock
  /\ UNCHANGED rest

\* The UPDATE of Rotate, once no other transaction holds the row.
RotateRevoke(q) ==
  /\ pc[q] = "signed"
  /\ lock[arg[q]] = {}
  /\ IF state[arg[q]] = "active"
       THEN /\ lock' = [lock EXCEPT ![arg[q]] = {q}]
            /\ pc' = [pc EXCEPT ![q] = "inserting"]
            /\ UNCHANGED answer
       ELSE Answer(q, "unauthorized") /\ UNCHANGED lock
  /\ UNCHANGED <<rest, held>>

\* The INSERT of Rotate.
RotateInsert(q) ==
  /\ pc[q] = "inserting"
  /\ pc' = [pc EXCEPT ![q] = "committing"]
  /\ UNCHANGED <<rest, held, lock, answer>>

\* What COMMIT makes visible: both changes at once, and the row is released.
Commit(q) ==
  /\ pc[q] = "committing"
  /\ state' = [state EXCEPT ![arg[q]] = "revoked", ![fresh[q]] = "active"]
  /\ parent' = [parent EXCEPT ![fresh[q]] = arg[q]]
  /\ Unlock(q)
  /\ UNCHANGED <<users, session, drawn, clock, op, arg, fresh, out>>

\* Mutant: the answer carries another value than the one that was stored.
RotateCommitOtherToken(q) ==
  /\ Commit(q)
  /\ \E a \in {"ok", "unauthorized"} : Answer(q, a)
  /\ UNCHANGED held

\* When the answer to COMMIT is lost the client is told 401 although the old
\* token is gone.
RotateCommit(q) ==
  /\ Commit(q)
  /\ \/ Answer(q, "ok") /\ Deliver(fresh[q])
     \/ Answer(q, "unauthorized") /\ UNCHANGED held

\* Mutant: without a transaction the first statement stays in effect.
AbortWithoutRollback(q) ==
  /\ pc[q] \in {"found", "signed", "inserting", "committing"}
  /\ state' = IF pc[q] \in {"found", "signed"} THEN state
              ELSE [state EXCEPT ![arg[q]] = "revoked"]
  /\ Unlock(q)
  /\ Answer(q, "unauthorized")
  /\ UNCHANGED <<users, parent, session, drawn, clock, held,
                 op, arg, fresh, out>>

\* Mutant: a failed request restores the row it had read.
AbortReactivates(q) ==
  /\ pc[q] \in {"found", "signed", "inserting", "committing"}
  /\ state' = [state EXCEPT ![arg[q]] = "active"]
  /\ Unlock(q)
  /\ Answer(q, "unauthorized")
  /\ UNCHANGED <<users, parent, session, drawn, clock, held,
                 op, arg, fresh, out>>

\* A statement after the lookup fails without effect, the client goes away or
\* the process dies: a transaction that was open is rolled back.
Abort(q) ==
  /\ pc[q] \in {"found", "signed", "inserting", "committing"}
  /\ Unlock(q)
  /\ Answer(q, "unauthorized")
  /\ UNCHANGED <<users, state, parent, session, drawn, clock, held,
                 op, arg, fresh, out>>

\* Mutant: RowsAffected is not looked at.
RevokeUnchecked(q) ==
  /\ pc[q] = "found" /\ op[q] = "logout"
  /\ lock[arg[q]] = {}
  /\ state' = [state EXCEPT ![arg[q]] = "revoked"]
  /\ out' = IF state[arg[q]] = "active" THEN out \cup {arg[q]} ELSE out
  /\ Answer(q, "ok")
  /\ UNCHANGED <<users, parent, session, drawn, clock, held, lock,
                 op, arg, fresh>>

\* The UPDATE of Revoke; no row, or a lost answer, is an error.
Revoke(q) ==
  /\ pc[q] = "found" /\ op[q] = "logout"
  /\ lock[arg[q]] = {}
  /\ IF state[arg[q]] = "active"
       THEN /\ state' = [state EXCEPT ![arg[q]] = "revoked"]
            /\ out' = out \cup {arg[q]}
            /\ \E a \in {"ok", "unauthorized"} : Answer(q, a)
       ELSE Answer(q, "unauthorized") /\ UNCHANGED <<state, out>>
  /\ UNCHANGED <<users, parent, session, drawn, clock, held, lock,
                 op, arg, fresh>>

\* Time passes: the oldest access token that is still good runs out, or the
\* oldest refresh token, whose access token ran out long before.
Expire ==
  /\ \/ stale < drawn /\ stale' = stale + 1 /\ UNCHANGED expired
     \/ expired < stale /\ expired' = expired + 1 /\ UNCHANGED stale
  /\ UNCHANGED <<users, state, parent, session, drawn, held, lock,
                 pc, op, arg, fresh, answer, out>>

Refresh(q) == FindByID(q) \/ RotateRevoke(q) \/ RotateInsert(q) \/ RotateCommit(q)
Logout(q) == Revoke(q)

Next ==
  \/ \E u \in Users : Register(u) \/ Login(u)
  \/ \E q \in Requests : FindActiveByHash(q) \/ Refresh(q) \/ Logout(q) \/ Abort(q)
  \/ Expire

Spec == Init /\ [][Next]_vars

-----------------------------------------------------------------------------
(* Properties.                                                             *)

\* Every variable has its type, and a row has one locker.
TypeOK ==
  /\ users \in SUBSET Users
  /\ state \in [Tokens -> {"absent", "active", "revoked"}]
  /\ parent \in [Tokens -> 0..MaxTokens]
  /\ session \in [Tokens -> 0..MaxTokens]
  /\ drawn \in 0..MaxTokens /\ stale \in 0..drawn /\ expired \in 0..stale
  /\ held \in SUBSET Tokens
  /\ lock \in [Tokens -> SUBSET Requests]
  /\ \A t \in Tokens : \A p, q \in lock[t] : p = q
  /\ pc \in [Requests -> Places]
  /\ op \in [Requests -> {"none", "refresh", "logout"}]
  /\ arg \in [Requests -> 0..MaxTokens]
  /\ fresh \in [Requests -> 0..MaxTokens]
  /\ answer \in [Requests -> {"none", "ok", "unauthorized"}]
  /\ out \in SUBSET Tokens

\* Two refreshes that present the same token, however they interleave, get at
\* most one replacement: the token is exchanged once.
ExchangedOnce ==
  \A s, t \in Tokens : parent[s] = parent[t] /\ parent[s] # 0 => s = t

Active(l) == {t \in Tokens : session[t] = l /\ state[t] = "active"}
LoggedOut(l) == \E t \in out : session[t] = l

\* "Rotate atomically revokes the old refresh token and creates a new refresh
\* token": a session has exactly one live token at every moment, whatever
\* fails in the middle, until a logout takes effect; then it has none, even
\* when a refresh of the same token was under way.
OneLiveTokenPerSession ==
  \A l \in Tokens : session[l] = l =>
    Cardinality(Active(l)) = IF LoggedOut(l) THEN 0 ELSE 1

\* A client is locked out of a session that nobody ended only when an answer
\* was lost on the way: that of the login, or that of the COMMIT of the refresh
\* whose token is now the live one.  A refresh that fails in any other way, or
\* loses a race, leaves a token that works in the client's hands.
LockoutNeedsALostAnswer ==
  \A l \in Tokens : session[l] = l /\ ~LoggedOut(l) /\ Active(l) \cap held = {} =>
    \/ l \notin held
    \/ \E q \in Requests : answer[q] = "unauthorized" /\ fresh[q] \in Active(l)

\* parseAccessToken asks the signature and the clock, not the database.
parseAccessToken(t) == t > stale

\* What RequireAuth lets through: tokens a client received, until they are stale.
RequireAuth(t) == t \in held /\ parseAccessToken(t)

\* A logout does not end the access tokens that are out, but from then on the
\* session receives no other: what RequireAuth accepts only shrinks, even when a
\* refresh had its next access token signed before the logout.
NoNewAccessAfterLogout ==
  [][\A l \in Tokens : LoggedOut(l) =>
       \A t \in Tokens : session[t] = l /\ ~RequireAuth(t) => ~RequireAuth(t)']_vars

\* Each statement that commits is a step of Session: no step creates two
\* tokens, revives one, or loses the one that it exchanges.
Live == {t \in Tokens : state[t] = "active"}
Used == {t \in Tokens : state[t] # "absent"}
Promise == INSTANCE Session WITH live <- Live, used <- Used
ImplementsSession == Promise!Spec

\* A logout that answers 204 ended a live token of that session, so from then
\* on no token of the session is accepted.
LogoutIsEffective ==
  \A q \in Requests : op[q] = "logout" /\ answer[q] = "ok" =>
    Active(session[arg[q]]) = {}
=============================================================================
