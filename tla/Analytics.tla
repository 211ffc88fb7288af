----------------------------- MODULE Analytics -----------------------------
(***************************************************************************)
(* GET /api/v1/urls/{id}/analytics beside the click pipeline: GetAnalytics *)
(* checks the owner and then runs four queries on click_events, outside a  *)
(* transaction, while workers insert, late statements commit, the URL is   *)
(* deleted and main shuts the process down.  Main's wait for the handlers  *)
(* is here for all of them, redirects and readers.                         *)
(*                                                                         *)
(* A user agent is the set of the words that detectDeviceCategory looks    *)
(* for; a report keeps its sections in the order they are read.            *)
(***************************************************************************)
EXTENDS ClickWorkerPool

CONSTANTS
  Readers,      \* analytics requests
  UserAgentOf,  \* UserAgentOf[r]: words of the User-Agent of redirect r
  ReferrerOf,   \* ReferrerOf[r]: its Referer, "" when there is none
  DayOf         \* DayOf[r]: the UTC day of its clicked_at

ASSUME ClickAssumption ==
  /\ UserAgentOf \in [Redirects -> SUBSET {"tablet", "mobile"}]
  /\ DOMAIN ReferrerOf = Redirects /\ DOMAIN DayOf = Redirects
  /\ IsFiniteSet(Redirects)

VARIABLES
  stage,    \* stage[a]: what reader a does next
  asked,    \* asked[a]: the URL it asks for
  before,   \* before[a]: clicks of the URL that were stored when a arrived
  report    \* report[a]: the sections read so far, functions from name to count

readers == <<stage, asked, before, report>>
allvars == <<vars, readers>>

-----------------------------------------------------------------------------
Queries == <<"total", "byDevice", "byReferrer", "daily">>
Reading(a) == stage[a] \notin {"idle", "done", "refused", "lost"}

detectDeviceCategory(ua) ==
  CASE "tablet" \in ua -> "tablet"
    [] "tablet" \notin ua /\ "mobile" \in ua -> "mobile"
    [] OTHER -> "desktop"

Clicks(u) == {r \in Redirects : UrlOf[r] = u /\ rows[r] > 0}

\* SELECT name, COUNT(*) ... WHERE url_id = u GROUP BY 1, for a name per click.
GroupBy(u, name) ==
  [n \in {name[r] : r \in Clicks(u)} |-> Cardinality({r \in Clicks(u) : name[r] = n})]

DeviceOf == [r \in Redirects |-> detectDeviceCategory(UserAgentOf[r])]

\* NULLIF and COALESCE: no referrer is called direct.
SourceOf == [r \in Redirects |-> IF ReferrerOf[r] = "" THEN "direct" ELSE ReferrerOf[r]]

\* Mutant: clicks without a referrer are left out.
SectionWithoutDirect(q, u) ==
  CASE q = "total" -> GroupBy(u, [r \in Redirects |-> "total"])
    [] q = "byDevice" -> GroupBy(u, DeviceOf)
    [] q = "byReferrer" -> LET all == GroupBy(u, SourceOf)
                           IN [n \in DOMAIN all \ {"direct"} |-> all[n]]
    [] q = "daily" -> GroupBy(u, DayOf)

\* What query q of GetAnalytics returns for URL u.
Section(q, u) ==
  CASE q = "total" -> GroupBy(u, [r \in Redirects |-> "total"])
    [] q = "byDevice" -> GroupBy(u, DeviceOf)
    [] q = "byReferrer" -> GroupBy(u, SourceOf)
    [] q = "daily" -> GroupBy(u, DayOf)

-----------------------------------------------------------------------------
ReadersInit ==
  /\ stage = [a \in Readers |-> "idle"]
  /\ asked = [a \in Readers |-> None]
  /\ before = [a \in Readers |-> 0]
  /\ report = [a \in Readers |-> <<>>]

\* A server that listens accepts the request of a.
Ask(a) ==
  /\ phase = "serving" /\ stage[a] = "idle"
  /\ stage' = [stage EXCEPT ![a] = "owner"]
  /\ \E u \in Urls : /\ asked' = [asked EXCEPT ![a] = u]
                     /\ before' = [before EXCEPT ![a] = Cardinality(Clicks(u))]
  /\ UNCHANGED report

\* service.GetURLByID finds the URL and requireURLOwnership lets a go on.
CheckOwner(a) ==
  /\ stage[a] = "owner" /\ DBOpen /\ asked[a] \in urls
  /\ stage' = [stage EXCEPT ![a] = Queries[1]]
  /\ UNCHANGED <<asked, before, report>>

\* The next of the four queries; after the last one the report is written.
Query(a) ==
  LET k == Len(report[a]) + 1 IN
  /\ Reading(a) /\ stage[a] # "owner" /\ DBOpen
  /\ report' = [report EXCEPT ![a] = Append(@, Section(Queries[k], asked[a]))]
  /\ stage' = [stage EXCEPT ![a] = IF k = 4 THEN "done" ELSE Queries[k + 1]]
  /\ UNCHANGED <<asked, before>>

\* Not found, not the owner, or a query that fails: an error and no report.
Refuse(a) ==
  /\ Reading(a) /\ Running
  /\ stage' = [stage EXCEPT ![a] = "refused"]
  /\ report' = [report EXCEPT ![a] = <<>>]
  /\ UNCHANGED <<asked, before>>

\* The process ends under the handlers.
EndReaders ==
  /\ stage' = [a \in Readers |-> IF Reading(a) THEN "lost" ELSE stage[a]]
  /\ report' = [a \in Readers |-> IF Reading(a) THEN <<>> ELSE report[a]]
  /\ UNCHANGED <<asked, before>>

\* Mutant: main closes the server without waiting for its handlers.
ClosedAtOnce ==
  Goto("draining", "waiting") /\ KeepHandlers /\ UNCHANGED <<timedOut, readers>>

\* server.Shutdown returns because no handler runs any more.
AllDrained ==
  /\ \A a \in Readers : ~ Reading(a)
  /\ Drained
  /\ UNCHANGED readers

\* Mutant: its context has no deadline.
ShutdownWithoutLimit == FALSE /\ UNCHANGED allvars

\* Its ten seconds are over while a handler runs.
ShutdownTimeout ==
  /\ (\E r \in Redirects : InHandler(r)) \/ (\E a \in Readers : Reading(a))
  /\ Goto("draining", "waiting") /\ KeepHandlers /\ timedOut' = TRUE
  /\ UNCHANGED readers

-----------------------------------------------------------------------------
AnalyticsInit == Init /\ ReadersInit

Read(a) == (Ask(a) \/ CheckOwner(a) \/ Query(a) \/ Refuse(a)) /\ UNCHANGED vars

WorkAlone(w) == Work(w) /\ UNCHANGED readers

StopServer ==
  \/ AllDrained \/ ShutdownTimeout
  \/ (PoolStopped \/ CloseRedis \/ CloseDB) /\ UNCHANGED readers
  \/ ExitProcess /\ EndReaders

AnalyticsNext ==
  \/ \E a \in Readers : Read(a)
  \/ \E w \in Workers : WorkAlone(w)
  \/ StopServer
  \/ Crash /\ EndReaders
  \/ /\ \/ \E r \in Redirects : Arrive(r) \/ Handle(r)
        \/ \E s \in late : LateCommit(s)
        \/ \E u \in Urls : DeleteURL(u)
        \/ Signal
     /\ UNCHANGED readers

\* Goroutines are scheduled; a Create ends within its five seconds; main's
\* wait for the handlers ends within its ten.  Handlers get no fairness: the
\* lookup of a redirect and the queries of a report have no time limit.
AnalyticsSpec ==
  /\ AnalyticsInit /\ [][AnalyticsNext]_allvars
  /\ WF_allvars(StopServer)
  /\ \A w \in Workers : WF_allvars(WorkAlone(w))

-----------------------------------------------------------------------------
(* Properties.                                                             *)

\* The clicks that a section accounts for: its numbers, added up.
Units(section) == UNION {{n} \X (1..section[n]) : n \in DOMAIN section}
Sum(section) == Cardinality(Units(section))

\* The numbers a reader met, from its arrival to the present.
Counts(a) ==
  <<before[a]>> \o [k \in DOMAIN report[a] |-> Sum(report[a][k])]
    \o <<Cardinality(Clicks(asked[a]))>>

\* The four sections of a report may disagree, but only forwards: each accounts
\* for all the clicks stored when the request arrived and for no fewer than the
\* section before it, and none counts a click that is not stored.  The one
\* exception is a URL deleted meanwhile, whose later sections are empty.
ReportsOnlyGrow ==
  \A a \in Readers : stage[a] # "idle" =>
    LET c == Counts(a) IN
    \A i, j \in DOMAIN c : i < j =>
      c[i] <= c[j] \/ (asked[a] \notin urls /\ c[j] = 0)

\* A reader loses its connection, or runs when the pool is being stopped, only
\* if it outlasted the ten seconds of server.Shutdown or the process was killed.
ReadersAreAwaited ==
  ~ timedOut /\ phase # "crashed" =>
    \A a \in Readers : stage[a] # "lost" /\ (Closed => ~ Reading(a))
=============================================================================
