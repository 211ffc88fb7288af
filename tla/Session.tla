------------------------------- MODULE Session -------------------------------
(***************************************************************************)
(* What a session promises: a login opens one with a token never seen      *)
(* before, a refresh exchanges a live token for a new one in one step, and *)
(* a logout ends a live token.  A token that was exchanged or ended stays  *)
(* so, and no token comes into being any other way.                        *)
(***************************************************************************)
CONSTANT Tokens

VARIABLES
  live,   \* tokens a refresh or a logout accepts
  used    \* tokens that exist or have existed

vars == <<live, used>>

Init == live = {} /\ used = {}

Open(t) ==
  /\ t \notin used
  /\ live' = live \cup {t}
  /\ used' = used \cup {t}

Exchange(s, t) ==
  /\ s \in live /\ t \notin used
  /\ live' = (live \ {s}) \cup {t}
  /\ used' = used \cup {t}

End(t) ==
  /\ t \in live
  /\ live' = live \ {t}
  /\ UNCHANGED used

Next ==
  \/ \E t \in Tokens : Open(t) \/ End(t)
  \/ \E s, t \in Tokens : Exchange(s, t)

Spec == Init /\ [][Next]_vars
=============================================================================
