--------------------------- MODULE ClickDelivery ---------------------------
(***************************************************************************)
(* What the click pipeline promises about one event per redirect: it is    *)
(* taken or turned away once, only a taken event is ever counted, it is    *)
(* counted at most once, and what the deletion of its URL erased is never  *)
(* counted again.  ClickWorkerPool implements this.                        *)
(***************************************************************************)
CONSTANTS Clicks

VARIABLES
  offer,    \* offer[c]: "new", "taken" or "refused"
  stat      \* stat[c]: "absent", "counted" or "erased" in the statistics

vars == <<offer, stat>>

Init ==
  /\ offer = [c \in Clicks |-> "new"]
  /\ stat = [c \in Clicks |-> "absent"]

\* The queue takes the event, or the click goes by without one.
Offer(c) ==
  /\ offer[c] = "new"
  /\ \E o \in {"taken", "refused"} : offer' = [offer EXCEPT ![c] = o]
  /\ UNCHANGED stat

Count(c) ==
  /\ offer[c] = "taken" /\ stat[c] = "absent"
  /\ stat' = [stat EXCEPT ![c] = "counted"]
  /\ UNCHANGED offer

\* The URL of some clicks is deleted, and their rows with it.
Erase(gone) ==
  /\ stat' = [c \in Clicks |-> IF c \in gone THEN "erased" ELSE stat[c]]
  /\ UNCHANGED offer

\* The process ends: the clicks on their way to the queue never get there.
Stop ==
  /\ offer' \in [Clicks -> {"new", "taken", "refused"}]
  /\ \A c \in Clicks : offer'[c] # offer[c] => offer[c] = "new" /\ offer'[c] = "refused"
  /\ UNCHANGED stat

Next ==
  \/ \E c \in Clicks : Offer(c) \/ Count(c)
  \/ \E gone \in SUBSET Clicks : Erase(gone)
  \/ Stop

Spec == Init /\ [][Next]_vars
=============================================================================
