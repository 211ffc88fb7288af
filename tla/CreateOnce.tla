----------------------------- MODULE CreateOnce -----------------------------
(***************************************************************************)
(* What an Idempotency-Key promises to a client: a key stands for at most  *)
(* one short URL, whatever happens between the client and the database,    *)
(* and every success answer given for the key names that URL.              *)
(*                                                                         *)
(* This is the specification that Idempotency implements; it knows nothing *)
(* of locks, reservations, records or lost acknowledgements.               *)
(***************************************************************************)
CONSTANTS Requests, Keys, URLs, None

VARIABLES
  keyOf,    \* the key each request carries, None while it has none
  made,     \* made[k]: the URLs that exist on behalf of key k
  answer    \* answer[r]: {} or {u}, the URL that request r was told of

vars == <<keyOf, made, answer>>

Init ==
  /\ keyOf = [r \in Requests |-> None]
  /\ made = [k \in Keys |-> {}]
  /\ answer = [r \in Requests |-> {}]

\* A request names its key once.
Ask(r) ==
  /\ keyOf[r] = None
  /\ \E k \in Keys : keyOf' = [keyOf EXCEPT ![r] = k]
  /\ UNCHANGED <<made, answer>>

\* The one URL of a key comes to exist.
Make(k, u) ==
  /\ made[k] = {}
  /\ \E r \in Requests : keyOf[r] = k
  /\ made' = [made EXCEPT ![k] = {u}]
  /\ UNCHANGED <<keyOf, answer>>

\* A request with a key may only be told of the key's URL, and only once it
\* exists; a request without a key is out of this promise.
Tell(r, u) ==
  /\ answer[r] = {}
  /\ keyOf[r] \in Keys => u \in made[keyOf[r]]
  /\ answer' = [answer EXCEPT ![r] = {u}]
  /\ UNCHANGED <<keyOf, made>>

Next ==
  \/ \E r \in Requests : Ask(r)
  \/ \E k \in Keys, u \in URLs : Make(k, u)
  \/ \E r \in Requests, u \in URLs : Tell(r, u)

Spec == Init /\ [][Next]_vars
=============================================================================
