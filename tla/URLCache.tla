------------------------------ MODULE URLCache ------------------------------
(***************************************************************************)
(* Short URLs in PostgreSQL with the Redis cache in front of redirects:    *)
(* URLHandler's create, PATCH, DELETE and redirect handlers, through       *)
(* CachedURLService, PostgresURLRepository and RedisCache.                 *)
(*                                                                         *)
(* One step of a request is one call to PostgreSQL or to Redis with the    *)
(* local code after it; requests of any instance interleave at these       *)
(* calls.  A fault is a call that fails, or whose caller dies or loses the *)
(* answer: the request context is cancelled when the client goes away, and *)
(* the code only logs what Redis reports.  expires_at is always NULL: the  *)
(* API has no way to set it.                                               *)
(***************************************************************************)
EXTENDS Naturals

CONSTANTS
  Requests,     \* HTTP requests
  Codes,        \* short codes and aliases
  Users,        \* authenticated users
  Dests,        \* destinations
  MaxIds,       \* bound of the model on rows ever inserted
  MaxFaults,    \* bound of the model on faults
  None          \* no row, no entry, no user

ASSUME BoundsAssumption == MaxIds \in Nat /\ MaxFaults \in Nat

VARIABLES
  rows,      \* rows[i]: the row of urls with id i
  nextId,    \* the id sequence of urls
  cache,     \* cache[c]: the Redis entry of code c
  pc,        \* pc[q]: where the handler of request q stands
  user,      \* user[q]: who sent q, None for a public redirect
  loc,       \* loc[q]: the row that q holds in memory
  code,      \* code[q]: the short code of a redirect
  faults,    \* faults so far
  suspect,   \* codes whose invalidation failed or whose fill was overtaken
  shown      \* every row, as it was, that the table ever showed to redirects

vars == <<rows, nextId, cache, pc, user, loc, code, faults, suspect, shown>>

-----------------------------------------------------------------------------
Ids == 1..MaxIds
Row == [id : Ids, code : Codes, owner : Users, dest : Dests, active : BOOLEAN]
ASSUME NoneAssumption == None \notin Row

Places == {"idle", "find", "fill", "write", "reread", "delete", "invalidate", "done"}

\* The rows that FindByShortCode returns for code c: at most one, active.
Visible(c) == {rows[i] : i \in {j \in Ids : rows[j] # None /\ rows[j].code = c
                                            /\ rows[j].active}}

\* Redis would serve something else than the database does.
Stale(c) == cache[c] # None /\ cache[c] \notin Visible(c)

Init ==
  /\ rows = [i \in Ids |-> None]
  /\ nextId = 1
  /\ cache = [c \in Codes |-> None]
  /\ pc = [q \in Requests |-> "idle"]
  /\ user = [q \in Requests |-> None]
  /\ loc = [q \in Requests |-> None]
  /\ code \in [Requests -> Codes]
  /\ faults = 0
  /\ suspect = {}
  /\ shown = {}

Goto(q, place) == pc' = [pc EXCEPT ![q] = place]
Hold(q, row) == loc' = [loc EXCEPT ![q] = row]

Fault == faults < MaxFaults /\ faults' = faults + 1
NoFault == UNCHANGED faults

\* shown is a history variable: it keeps the active rows of the new table and
\* guards nothing.
Remember ==
  shown' = shown \cup {rows'[i] : i \in {j \in Ids : rows'[j] # None /\ rows'[j].active}}

-----------------------------------------------------------------------------
(* Creation: the unique short_code admits one row per code; a refused       *)
(* insertion changes nothing.  Creation never touches Redis.                *)

CreateURL(q) ==
  /\ pc[q] = "idle" /\ nextId <= MaxIds
  /\ \E c \in Codes, u \in Users, d \in Dests :
       /\ \A i \in Ids : rows[i] # None => rows[i].code # c
       /\ rows' = [rows EXCEPT ![nextId] = [id |-> nextId, code |-> c, owner |-> u,
                                            dest |-> d, active |-> TRUE]]
       /\ user' = [user EXCEPT ![q] = u]
  /\ nextId' = nextId + 1
  /\ Goto(q, "done") /\ Remember
  /\ UNCHANGED <<cache, loc, code, faults, suspect>>

-----------------------------------------------------------------------------
(* Redirect: GetOriginalURL.                                                *)

\* A hit is served as it is, without a look at the database.
RedirectHit(q) ==
  /\ pc[q] = "idle" /\ cache[code[q]] # None
  /\ Hold(q, cache[code[q]])
  /\ Goto(q, "done")
  /\ UNCHANGED <<rows, nextId, cache, user, code, faults, suspect, shown>>

\* A miss, or a Redis error, falls through to the database.
RedirectMiss(q) ==
  /\ pc[q] = "idle"
  /\ (cache[code[q]] = None /\ NoFault) \/ (cache[code[q]] # None /\ Fault)
  /\ Goto(q, "find")
  /\ UNCHANGED <<rows, nextId, cache, user, loc, code, suspect, shown>>

\* FindByShortCode; nothing found is a 404.
RedirectFind(q) ==
  /\ pc[q] = "find"
  /\ \/ /\ Visible(code[q]) = {}
        /\ Goto(q, "done") /\ UNCHANGED loc
     \/ \E row \in Visible(code[q]) : Hold(q, row) /\ Goto(q, "fill")
  /\ UNCHANGED <<rows, nextId, cache, user, code, faults, suspect, shown>>

\* Mutant: only the destination is cached.
RedirectFillDest(q) ==
  /\ pc[q] = "fill"
  /\ cache' = [cache EXCEPT ![code[q]] = loc[q].dest]
  /\ Goto(q, "done")
  /\ UNCHANGED <<rows, nextId, user, loc, code, faults, suspect, shown>>

\* SetURL with the row read before, best effort; the redirect is answered.
RedirectFill(q) ==
  /\ pc[q] = "fill"
  /\ \/ /\ cache' = [cache EXCEPT ![code[q]] = loc[q]] /\ NoFault
        /\ suspect' = IF loc[q] \in Visible(code[q])
                        THEN suspect \ {code[q]} ELSE suspect \cup {code[q]}
     \/ Fault /\ UNCHANGED <<cache, suspect>>
  /\ Goto(q, "done")
  /\ UNCHANGED <<rows, nextId, user, loc, code, shown>>

-----------------------------------------------------------------------------
(* PATCH: the handler reads the row, checks its owner, changes the fields   *)
(* that the request names, and writes destination and is_active back.       *)

\* Mutant: the new row is written through to Redis before the UPDATE.
UpdateReadWritesThrough(q) ==
  /\ pc[q] = "idle"
  /\ \E i \in Ids, u \in Users, d \in Dests :
       LET new == [rows[i] EXCEPT !.dest = d, !.active = TRUE] IN
       /\ rows[i] # None /\ rows[i].owner = u
       /\ Hold(q, new)
       /\ cache' = [cache EXCEPT ![new.code] = new]
       /\ user' = [user EXCEPT ![q] = u]
  /\ Goto(q, "write")
  /\ UNCHANGED <<rows, nextId, code, faults, suspect, shown>>

UpdateRead(q) ==
  /\ pc[q] = "idle"
  /\ \E i \in Ids, u \in Users, d \in Dests, a \in BOOLEAN :
       /\ rows[i] # None /\ rows[i].owner = u
       /\ Hold(q, [rows[i] EXCEPT !.dest = d, !.active = a])
       /\ user' = [user EXCEPT ![q] = u]
  /\ Goto(q, "write")
  /\ UNCHANGED <<rows, nextId, cache, code, faults, suspect, shown>>

\* Mutant: UPDATE ... WHERE short_code.
UpdateWriteByCode(q) ==
  /\ pc[q] = "write"
  /\ rows' = [i \in Ids |->
                IF rows[i] # None /\ rows[i].code = loc[q].code
                  THEN [rows[i] EXCEPT !.dest = loc[q].dest, !.active = loc[q].active]
                  ELSE rows[i]]
  /\ Goto(q, "invalidate") /\ Remember
  /\ UNCHANGED <<nextId, cache, user, loc, code, faults, suspect>>

\* Mutant: the row is inserted when it is not there.
UpdateWriteUpserts(q) ==
  /\ pc[q] = "write"
  /\ rows' = [rows EXCEPT ![loc[q].id] = loc[q]]
  /\ Goto(q, "invalidate") /\ Remember
  /\ UNCHANGED <<nextId, cache, user, loc, code, faults, suspect>>

\* UPDATE ... WHERE id: no row is an error; a lost answer commits the row but
\* ends the handler before the invalidation.
UpdateWrite(q) ==
  LET i == loc[q].id IN
  /\ pc[q] = "write"
  /\ IF rows[i] = None
       THEN /\ UNCHANGED rows /\ NoFault /\ Goto(q, "done") /\ UNCHANGED suspect
       ELSE /\ rows' = [rows EXCEPT ![i].dest = loc[q].dest,
                                    ![i].active = loc[q].active]
            /\ \/ NoFault /\ Goto(q, "invalidate") /\ UNCHANGED suspect
               \/ Fault /\ Goto(q, "done") /\ suspect' = suspect \cup {loc[q].code}
  /\ Remember
  /\ UNCHANGED <<nextId, cache, user, loc, code>>

-----------------------------------------------------------------------------
(* DELETE: the handler reads the row for its owner, the service reads it    *)
(* again for its code, then deletes it.                                     *)

DeleteRead(q) ==
  /\ pc[q] = "idle"
  /\ \E i \in Ids, u \in Users :
       /\ rows[i] # None /\ rows[i].owner = u
       /\ Hold(q, rows[i])
       /\ user' = [user EXCEPT ![q] = u]
  /\ Goto(q, "reread")
  /\ UNCHANGED <<rows, nextId, cache, code, faults, suspect, shown>>

DeleteReread(q) ==
  LET i == loc[q].id IN
  /\ pc[q] = "reread"
  /\ IF rows[i] = None
       THEN Goto(q, "done") /\ UNCHANGED loc
       ELSE Goto(q, "delete") /\ Hold(q, rows[i])
  /\ UNCHANGED <<rows, nextId, cache, user, code, faults, suspect, shown>>

\* Mutant: no invalidation after the deletion.
DeleteRowOnly(q) ==
  /\ pc[q] = "delete"
  /\ rows' = [rows EXCEPT ![loc[q].id] = None]
  /\ Goto(q, "done")
  /\ UNCHANGED <<nextId, cache, user, loc, code, faults, suspect, shown>>

\* DELETE ... WHERE id, with the same outcomes as UpdateWrite.
DeleteRow(q) ==
  LET i == loc[q].id IN
  /\ pc[q] = "delete"
  /\ IF rows[i] = None
       THEN /\ UNCHANGED rows /\ NoFault /\ Goto(q, "done") /\ UNCHANGED suspect
       ELSE /\ rows' = [rows EXCEPT ![i] = None]
            /\ \/ NoFault /\ Goto(q, "invalidate") /\ UNCHANGED suspect
               \/ Fault /\ Goto(q, "done") /\ suspect' = suspect \cup {loc[q].code}
  /\ UNCHANGED <<nextId, cache, user, loc, code, shown>>

-----------------------------------------------------------------------------
(* After a write, and in Redis.                                             *)

\* cache.DeleteURL; a failure is logged and the request succeeds.
Invalidate(q) ==
  LET c == loc[q].code IN
  /\ pc[q] = "invalidate"
  /\ \/ /\ cache' = [cache EXCEPT ![c] = None] /\ NoFault
        /\ suspect' = suspect \ {c}
     \/ Fault /\ UNCHANGED cache /\ suspect' = suspect \cup {c}
  /\ Goto(q, "done")
  /\ UNCHANGED <<rows, nextId, user, loc, code, shown>>

\* The process of q dies between two calls, or a call fails without effect
\* and the handler returns its error.
Crash(q) ==
  /\ pc[q] \notin {"idle", "done"} /\ Fault
  /\ suspect' = IF pc[q] = "invalidate" THEN suspect \cup {loc[q].code} ELSE suspect
  /\ Goto(q, "done")
  /\ UNCHANGED <<rows, nextId, cache, user, loc, code, shown>>

\* Mutant: a TTL of zero, with which Redis keeps an entry for ever.
ExpireNever(c) == FALSE /\ UNCHANGED vars

\* The entry reaches its TTL, is evicted, or Redis restarts empty.
Expire(c) ==
  /\ cache[c] # None
  /\ cache' = [cache EXCEPT ![c] = None]
  /\ suspect' = suspect \ {c}
  /\ UNCHANGED <<rows, nextId, pc, user, loc, code, faults, shown>>

Redirect(q) == RedirectHit(q) \/ RedirectMiss(q) \/ RedirectFind(q) \/ RedirectFill(q)
UpdateURL(q) == UpdateRead(q) \/ UpdateWrite(q)
DeleteURL(q) == DeleteRead(q) \/ DeleteReread(q) \/ DeleteRow(q)

Next ==
  \/ \E q \in Requests :
       CreateURL(q) \/ Redirect(q) \/ UpdateURL(q) \/ DeleteURL(q)
         \/ Invalidate(q) \/ Crash(q)
  \/ \E c \in Codes : Expire(c)

Spec == Init /\ [][Next]_vars

\* SetURL gives every entry a TTL of at most an hour, which Redis honours;
\* handlers get no fairness, a call may take for ever.
FairSpec == Spec /\ \A c \in Codes : WF_vars(Expire(c))

-----------------------------------------------------------------------------
(* Properties.                                                              *)

\* Every variable has its type; a row is stored under its id.
TypeOK ==
  /\ rows \in [Ids -> Row \cup {None}]
  /\ \A i \in Ids : rows[i] # None => rows[i].id = i
  /\ nextId \in 1..(MaxIds + 1)
  /\ cache \in [Codes -> Row \cup {None}]
  /\ pc \in [Requests -> Places]
  /\ user \in [Requests -> Users \cup {None}]
  /\ loc \in [Requests -> Row \cup {None}]
  /\ code \in [Requests -> Codes]
  /\ faults \in 0..MaxFaults
  /\ suspect \in SUBSET Codes
  /\ shown \in SUBSET Row

\* A write whose invalidation is still to come.
Invalidating(c) == \E q \in Requests : pc[q] = "invalidate" /\ loc[q].code = c

\* Redis disagrees with the database only between a write and its
\* invalidation, after an invalidation that failed, or after a redirect
\* stored a row that was changed since it read it.  Deactivation, deletion
\* and the reuse of a code by another row cause no other staleness.
StalenessHasACause ==
  \A c \in Codes : Stale(c) => c \in suspect \/ Invalidating(c)

\* A row is changed or deleted only by a request of its owner, although
\* ownership is checked on an earlier read: a delayed PATCH or DELETE never
\* reaches a row that took over its short code.
OnlyOwnersWrite ==
  [][\A i \in Ids :
       rows[i] # None /\ rows'[i] # rows[i] =>
         \E q \in Requests : /\ pc[q] \in {"write", "delete"} /\ pc'[q] # pc[q]
                             /\ loc[q].id = i /\ user[q] = rows[i].owner]_vars

\* A deleted row stays deleted: a PATCH that read it before does not bring it
\* back, and its id is not given out again.
DeletedStaysDeleted ==
  [][\A i \in Ids : i < nextId /\ rows[i] = None => rows'[i] = None]_vars

\* Redis may lag behind the table but makes nothing up: the entry of a code is a
\* row that the table once showed under that code, with the destination, the
\* owner and the is_active that it had then.  A destination that a PATCH never
\* committed, a row that was never active, or the row of another code is never
\* served, whatever the fill raced with.
EntriesWereVisible ==
  \A c \in Codes : cache[c] # None => cache[c] \in shown /\ cache[c].code = c

\* README: Redis entries are invalidated when URL data changes.  With no
\* fault, an entry that outlives every running request is what the database
\* would serve.
EntriesAreInvalidated ==
  (\A q \in Requests : pc[q] \in {"idle", "done"}) =>
    \A c \in Codes : ~ Stale(c)

\* However the requests raced and whatever failed, once the last of them is over
\* Redis and the database agree for good: no lost invalidation, overtaken fill
\* or reused code leaves a difference that outlives a TTL.
CacheConverges == <>[](\A c \in Codes : ~ Stale(c))
=============================================================================
