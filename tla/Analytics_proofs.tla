-------------------------- MODULE Analytics_proofs --------------------------
(***************************************************************************)
(* Proofs about Analytics: what the readers see of the click pipeline, and *)
(* that the pipeline is as safe with readers beside it as without.         *)
(***************************************************************************)
EXTENDS Analytics, ClickWorkerPool_proofs, FunctionTheorems

USE UrlOfAssumption, SizeAssumption, NoneAssumption

-----------------------------------------------------------------------------
(* The sum of a section.                                                   *)

\* The clicks in C of one name, and the section that counts them.
Group(C, name, n) == {r \in C : name[r] = n}
GroupsOf(C, name) == [n \in {name[r] : r \in C} |-> Cardinality(Group(C, name, n))]

\* The positions in a group number its clicks.
LEMMA GroupIsNumbered ==
  ASSUME NEW C, IsFiniteSet(C), NEW name, NEW n
  PROVE  \E f : f \in Bijection(1..Cardinality(Group(C, name, n)), Group(C, name, n))
<1>1. IsFiniteSet(Group(C, name, n))
  BY FS_Subset DEF Group
<1>2. ExistsBijection(1..Cardinality(Group(C, name, n)), Group(C, name, n))
  BY <1>1, FS_CardinalityType
<1> QED
  BY <1>2 DEF ExistsBijection

\* A classification splits its clicks into groups, and their numbers add up to the
\* number of all: each pair of a name and a position in its group is one click.
LEMMA SumOfGroups ==
  ASSUME NEW C, IsFiniteSet(C), NEW name
  PROVE  Sum(GroupsOf(C, name)) = Cardinality(C)
<1> DEFINE D == {name[r] : r \in C}
           S(n) == 1..Cardinality(Group(C, name, n))
           T == Units(GroupsOf(C, name))
           b == [n \in D |-> CHOOSE f : f \in Bijection(S(n), Group(C, name, n))]
           h == [p \in T |-> b[p[1]][p[2]]]
<1>1. \A n \in D : b[n] \in Bijection(S(n), Group(C, name, n))
  BY GroupIsNumbered
<1>2. \A n \in D : /\ \A k \in S(n) : b[n][k] \in Group(C, name, n)
                   /\ \A j, k \in S(n) : b[n][j] = b[n][k] => j = k
                   /\ \A r \in Group(C, name, n) : \E k \in S(n) : b[n][k] = r
  <2> HIDE DEF b, S, D
  <2> QED
    BY <1>1 DEF Bijection, Injection, Surjection, IsInjective
<1>3. T = UNION {{n} \X S(n) : n \in D}
  BY DEF Units, GroupsOf
<1>4. \A n \in D : \A k \in S(n) : <<n, k>> \in T
  BY <1>3
<1>5. \A p \in T : \E n \in D : \E k \in S(n) : p = <<n, k>>
  BY <1>3
<1>6. \A n \in D : \A k \in S(n) : h[<<n, k>>] = b[n][k]
  BY <1>4
<1> HIDE DEF S, T, b
<1>7. h \in [T -> C]
  <2>1. \A p \in T : h[p] \in C
    <3> HIDE DEF h
    <3> QED
      BY <1>2, <1>5, <1>6 DEF Group
  <2> QED
    BY <2>1
<1> HIDE DEF h
<1>8. \A p, q \in T : h[p] = h[q] => p = q
  <2> SUFFICES ASSUME NEW p \in T, NEW q \in T, h[p] = h[q]
               PROVE  p = q
    OBVIOUS
  <2>1. PICK m \in D : \E j \in S(m) : p = <<m, j>>
    BY <1>5
  <2>2. PICK j \in S(m) : p = <<m, j>>
    BY <2>1
  <2>3. PICK n \in D : \E k \in S(n) : q = <<n, k>>
    BY <1>5
  <2>4. PICK k \in S(n) : q = <<n, k>>
    BY <2>3
  <2>5. b[m][j] = b[n][k] /\ b[m][j] \in Group(C, name, m) /\ b[n][k] \in Group(C, name, n)
    BY <1>2, <1>6, <2>2, <2>4
  <2>6. m = n
    BY <2>5 DEF Group
  <2>7. j = k
    BY <1>2, <2>5, <2>6
  <2> QED
    BY <2>2, <2>4, <2>6, <2>7
<1>9. \A r \in C : \E p \in T : h[p] = r
  <2> SUFFICES ASSUME NEW r \in C
               PROVE  \E p \in T : h[p] = r
    OBVIOUS
  <2>1. name[r] \in D /\ r \in Group(C, name, name[r])
    BY DEF Group
  <2>2. PICK k \in S(name[r]) : b[name[r]][k] = r
    BY <1>2, <2>1
  <2>3. <<name[r], k>> \in T /\ h[<<name[r], k>>] = r
    BY <1>4, <1>6, <2>1, <2>2
  <2> QED
    BY <2>3
<1>10. h \in Bijection(T, C)
  BY <1>7, <1>8, <1>9 DEF Bijection, Injection, Surjection, IsInjective
<1>11. ExistsBijection(C, T)
  BY <1>10, Fun_ExistsBijSymmetric DEF ExistsBijection
<1>12. Cardinality(T) = Cardinality(C)
  BY <1>11, FS_Bijection
<1> QED
  BY <1>12 DEF T, Sum

\* The four classifications, and every section that a query may return.
Classifications == {[r \in Redirects |-> "total"], DeviceOf, SourceOf, DayOf}
Sections == {GroupsOf(C, name) : C \in SUBSET Redirects, name \in Classifications}

\* Whatever a query groups by, it accounts for all the clicks of the URL.
LEMMA SectionFacts ==
  ASSUME ClickAssumption, NEW u, NEW k \in 1..4
  PROVE  /\ Section(Queries[k], u) \in Sections
         /\ Sum(Section(Queries[k], u)) = Cardinality(Clicks(u))
         /\ IsFiniteSet(Clicks(u)) /\ Cardinality(Clicks(u)) \in Nat
<1>1. PICK name \in Classifications : Section(Queries[k], u) = GroupBy(u, name)
  BY DEF Section, Queries, Classifications
<1>2. GroupBy(u, name) = GroupsOf(Clicks(u), name)
  BY DEF GroupBy, GroupsOf, Group
<1>3. Clicks(u) \in SUBSET Redirects
  BY DEF Clicks
<1>4. IsFiniteSet(Clicks(u)) /\ Cardinality(Clicks(u)) \in Nat
  BY <1>3, FS_Subset, FS_CardinalityType DEF ClickAssumption
<1>5. Section(Queries[k], u) \in Sections
  BY <1>1, <1>2, <1>3 DEF Sections
<1> QED
  BY <1>1, <1>2, <1>4, <1>5, SumOfGroups

LEMMA SumIsNat ==
  ASSUME ClickAssumption, NEW section \in Sections
  PROVE  Sum(section) \in Nat
<1>1. PICK C \in SUBSET Redirects, name \in Classifications : section = GroupsOf(C, name)
  BY DEF Sections
<1>2. IsFiniteSet(C)
  BY FS_Subset DEF ClickAssumption
<1> QED
  BY <1>1, <1>2, SumOfGroups, FS_CardinalityType

-----------------------------------------------------------------------------
(* The pipeline beside the readers.                                        *)

\* A step is one of the pipeline, or the end of main's wait for the handlers,
\* which the readers may prolong.
LEMMA PoolSteps ==
  ASSUME [AnalyticsNext]_allvars
  PROVE  [Next]_vars \/ ShutdownTimeout
  BY DEF AnalyticsNext, allvars, Read, WorkAlone, StopServer, AllDrained, Next, ShutDown

LEMMA TimeoutInv ==
  ASSUME Inv, ShutdownTimeout
  PROVE  Inv'
<1>1. /\ phase = "draining" /\ phase' = "waiting" /\ timedOut'
      /\ UNCHANGED <<req, answer, queue, worker, fate, rows, urls, late>>
  BY DEF ShutdownTimeout, Goto, KeepHandlers
<1>2. TypeOK'
  BY <1>1 DEF Inv, TypeOK, Phases
<1>3. /\ Decided' /\ Queued' /\ Taken' /\ LateWasTaken' /\ CountedOnce'
  BY <1>1 DEF Inv, Decided, Queued, Taken, LateWasTaken, CountedOnce
<1>4. /\ ExitsWhenDrained' /\ StopsAfterWorkers'
      /\ ClosesAfterHandlers' /\ GracefulShutdownAbortsNothing'
  BY <1>1 DEF Inv, ExitsWhenDrained, Closed, StopsAfterWorkers, PoolHasStopped,
              ClosesAfterHandlers, GracefulShutdownAbortsNothing
<1> QED
  BY <1>2, <1>3, <1>4 DEF Inv

LEMMA PoolInv == Inv /\ [AnalyticsNext]_allvars => Inv'
  BY PoolSteps, TimeoutInv, NextInv

\* A click is stored only while its URL exists.
NoOrphans == \A r \in Redirects : UrlOf[r] \notin urls => rows[r] = 0

\* A deleted URL does not come back.
LEMMA UrlsShrink == [AnalyticsNext]_allvars => urls' \subseteq urls
<1>1. Next => urls' \subseteq urls
  BY DEF Next, Arrive, Handle, LookupFound, LookupFailed, EnqueueSend, EnqueueRefused,
         EnqueuePanic, Respond, Work, Take, Exit, Save, Fail, Wake, LateCommit, DeleteURL,
         Signal, ShutDown, Drained, DrainTimeout, PoolStopped, CloseRedis, CloseDB,
         ExitProcess, Goto, Crash
<1> QED
  BY <1>1, PoolSteps DEF vars, ShutdownTimeout, Goto

\* A stored click stays until its URL is deleted; a deleted URL has none.
LEMMA RowSteps ==
  ASSUME Inv, NoOrphans, [AnalyticsNext]_allvars, NEW r \in Redirects
  PROVE  /\ UrlOf[r] \in urls' /\ rows[r] > 0 => rows'[r] > 0
         /\ UrlOf[r] \notin urls' => rows'[r] = 0
<1> DEFINE Goal == /\ UrlOf[r] \in urls' /\ rows[r] > 0 => rows'[r] > 0
                   /\ UrlOf[r] \notin urls' => rows'[r] = 0
<1>1. rows[r] \in Nat /\ (UrlOf[r] \notin urls => rows[r] = 0)
  BY DEF Inv, TypeOK, NoOrphans
<1>2. ASSUME UNCHANGED <<rows, urls>>
      PROVE  Goal
  BY <1>1, <1>2
<1>3. ASSUME NEW e \in Redirects, UrlOf[e] \in urls, InsertRow(e), UNCHANGED urls
      PROVE  Goal
  <2>1. CASE r = e
    BY <1>1, <1>3, <2>1, InsertRowFacts DEF Inv
  <2>2. CASE r # e
    <3>1. rows'[r] = rows[r]
      BY <1>3, <2>2, InsertRowFacts DEF Inv
    <3> QED
      BY <1>1, <1>3, <3>1
  <2> QED
    BY <2>1, <2>2
<1>4. ASSUME NEW w \in Workers, Save(w)
      PROVE  Goal
  BY <1>3, <1>4, TryingFacts DEF Save, Inv
<1>5. ASSUME NEW s \in late, LateCommit(s)
      PROVE  Goal
  <2>1. s[1] \in Redirects
    BY DEF Inv, TypeOK
  <2> QED
    BY <1>2, <1>3, <1>5, <2>1 DEF LateCommit
<1>6. ASSUME NEW u \in Urls, DeleteURL(u)
      PROVE  Goal
  BY <1>1, <1>6 DEF DeleteURL
<1> HIDE DEF Goal
<1>7. ASSUME ShutdownTimeout
      PROVE  Goal
  BY <1>2, <1>7 DEF ShutdownTimeout, Goto
<1>8. ASSUME [Next]_vars
      PROVE  Goal
  BY <1>2, <1>4, <1>5, <1>6, <1>8
     DEF Next, vars, Arrive, Handle, LookupFound, LookupFailed, EnqueueSend,
         EnqueueRefused, EnqueuePanic, Respond, Work, Take, Exit, Fail, Wake, Signal,
         ShutDown, Drained, DrainTimeout, PoolStopped, CloseRedis, CloseDB, ExitProcess,
         Goto, Crash
<1>9. Goal
  BY <1>7, <1>8, PoolSteps
<1> QED
  BY <1>9 DEF Goal

\* How many clicks of each URL are stored.
Stored == [u \in Urls |-> Cardinality(Clicks(u))]

LEMMA StoredFacts ==
  ASSUME NEW u \in Urls
  PROVE  Stored[u] = Cardinality(Clicks(u)) /\ Stored[u] \in Nat
<1>1. Clicks(u) \in SUBSET Redirects
  BY DEF Clicks
<1>2. Cardinality(Clicks(u)) \in Nat
  BY <1>1, ClickAssumption, FS_Subset, FS_CardinalityType
<1> QED
  BY <1>2 DEF Stored

\* The number of clicks of a URL grows until the URL is deleted, and then it is 0.
LEMMA StoredSteps ==
  ASSUME Inv, NoOrphans, [AnalyticsNext]_allvars, NEW u \in Urls
  PROVE  /\ Stored'[u] \in Nat
         /\ u \in urls' => u \in urls /\ Stored[u] <= Stored'[u]
         /\ u \notin urls' => Stored'[u] = 0
<1> DEFINE Now == {r \in Redirects : UrlOf[r] = u /\ rows[r] > 0}
           Next_ == {r \in Redirects : UrlOf[r] = u /\ rows'[r] > 0}
<1>1. Stored[u] = Cardinality(Now) /\ Stored'[u] = Cardinality(Next_)
  BY DEF Stored, Clicks
<1>2. IsFiniteSet(Now) /\ IsFiniteSet(Next_)
  BY ClickAssumption, FS_Subset
<1>3. Cardinality(Now) \in Nat /\ Cardinality(Next_) \in Nat
  BY <1>2, FS_CardinalityType
<1>4. ASSUME u \in urls'
      PROVE  Cardinality(Now) <= Cardinality(Next_)
  <2>1. Now \in SUBSET Next_
    BY <1>4, RowSteps
  <2> HIDE DEF Now, Next_
  <2> QED
    BY <1>2, <2>1, FS_Subset
<1>5. ASSUME u \notin urls'
      PROVE  Cardinality(Next_) = 0
  <2>1. \A r \in Next_ : FALSE
    BY <1>5, RowSteps
  <2> HIDE DEF Next_
  <2> QED
    BY <2>1, NoMember
<1> QED
  BY <1>1, <1>3, <1>4, <1>5, UrlsShrink

-----------------------------------------------------------------------------
(* The inductive invariant of the readers.                                 *)

Stages == {"idle", "owner", "total", "byDevice", "byReferrer", "daily",
           "done", "refused", "lost"}

\* The stages of a reader are told apart.
LEMMA QueryNames == \A k \in 1..4 : Queries[k] \in Stages \ {"idle", "owner", "lost"}
<1> SUFFICES ASSUME NEW k \in 1..4
             PROVE  Queries[k] \in Stages \ {"idle", "owner", "lost"}
  OBVIOUS
<1>1. k = 1 \/ k = 2 \/ k = 3 \/ k = 4
  OBVIOUS
<1> QED
  BY <1>1 DEF Queries, Stages

ReaderTypes ==
  /\ stage \in [Readers -> Stages]
  /\ DOMAIN asked = Readers /\ \A a \in Readers : stage[a] # "idle" => asked[a] \in Urls
  /\ before \in [Readers -> Nat]
  /\ report \in [Readers -> Seq(Sections)]

\* A report begins after the owner check, and has at most three sections while
\* a query is to come.
Progress ==
  \A a \in Readers :
    /\ stage[a] \in {"idle", "owner"} => Len(report[a]) = 0
    /\ Reading(a) => Len(report[a]) < 4

\* y was counted no earlier than x: it is no less, or the URL is gone.
After(a, x, y) == x <= y \/ (asked[a] \notin urls /\ y = 0)

\* Each section accounts for the clicks stored when the request arrived and for
\* those of the sections before it, and for none that is not stored.
Growing ==
  \A a \in Readers : stage[a] # "idle" =>
    /\ After(a, before[a], Stored[asked[a]])
    /\ \A k \in 1..Len(report[a]) :
         /\ After(a, before[a], Sum(report[a][k]))
         /\ After(a, Sum(report[a][k]), Stored[asked[a]])
    /\ \A j, k \in 1..Len(report[a]) :
         j < k => After(a, Sum(report[a][j]), Sum(report[a][k]))

AnalyticsInv ==
  /\ Inv /\ NoOrphans /\ ReaderTypes /\ Progress /\ Growing /\ ReadersAreAwaited

\* A reader's request arrives; a query adds a section; any other step keeps the
\* request of a reader and what it has read, or drops what it has read.
LEMMA ReaderSteps ==
  ASSUME AnalyticsInv, [AnalyticsNext]_allvars, NEW a \in Readers
  PROVE  \/ /\ stage[a] = "idle" /\ stage'[a] = "owner" /\ UNCHANGED <<rows, urls>>
            /\ asked'[a] \in Urls /\ before'[a] = Stored[asked'[a]]
            /\ report'[a] = report[a]
         \/ /\ stage[a] # "idle" /\ stage'[a] # "idle" /\ UNCHANGED <<rows, urls>>
            /\ asked'[a] = asked[a] /\ before'[a] = before[a]
            /\ \E section \in Sections :
                 /\ report'[a] = Append(report[a], section)
                 /\ Sum(section) = Stored[asked[a]]
            /\ Len(report[a]) < 4 /\ (Reading(a)' => Len(report[a]) < 3)
            /\ Reading(a) /\ stage'[a] # "owner"
         \/ /\ (stage'[a] = "idle") <=> (stage[a] = "idle")
            /\ asked'[a] = asked[a] /\ before'[a] = before[a]
            /\ report'[a] \in {report[a], <<>>}
            /\ Reading(a)' => Reading(a)
            /\ stage'[a] = "owner" => stage[a] = "owner"
<1> DEFINE Asks(b) ==
      /\ stage[b] = "idle" /\ stage' = [stage EXCEPT ![b] = "owner"]
      /\ \E u \in Urls : /\ asked' = [asked EXCEPT ![b] = u]
                         /\ before' = [before EXCEPT ![b] = Stored[u]]
      /\ UNCHANGED <<report, rows, urls>>
<1> USE DEF AnalyticsInv, ReaderTypes
<1>1. ASSUME NEW b \in Readers, Ask(b), UNCHANGED vars
      PROVE  Asks(b)
  BY <1>1, StoredFacts DEF Ask, vars
<1>2. ASSUME NEW b \in Readers, Asks(b), b = a
      PROVE  /\ stage[a] = "idle" /\ stage'[a] = "owner" /\ UNCHANGED <<rows, urls>>
             /\ asked'[a] \in Urls /\ before'[a] = Stored[asked'[a]]
             /\ report'[a] = report[a]
  BY <1>2
<1>3. ASSUME Query(a), UNCHANGED vars
      PROVE  /\ stage[a] # "idle" /\ stage'[a] # "idle" /\ UNCHANGED <<rows, urls>>
             /\ asked'[a] = asked[a] /\ before'[a] = before[a]
             /\ \E section \in Sections :
                  /\ report'[a] = Append(report[a], section)
                  /\ Sum(section) = Stored[asked[a]]
             /\ Len(report[a]) < 4 /\ (Reading(a)' => Len(report[a]) < 3)
             /\ Reading(a) /\ stage'[a] # "owner"
  <2>1. /\ Len(report[a]) \in Nat /\ Len(report[a]) < 4
        /\ Reading(a) /\ stage[a] # "idle"
    BY <1>3 DEF Query, Progress, Reading
  <2> DEFINE k == Len(report[a]) + 1
             section == Section(Queries[k], asked[a])
  <2>2. k \in 1..4
    BY <2>1
  <2>3. section \in Sections /\ Sum(section) = Stored[asked[a]]
    BY <2>1, <2>2, ClickAssumption, SectionFacts, StoredFacts
  <2>4. report'[a] = Append(report[a], section)
    BY <1>3 DEF Query
  <2>5. stage'[a] = IF k = 4 THEN "done" ELSE Queries[k + 1]
    BY <1>3 DEF Query
  <2>6. stage'[a] \notin {"idle", "owner"} /\ (k = 4 => stage'[a] = "done")
    <3>1. k # 4 => k + 1 \in 1..4
      BY <2>2
    <3> HIDE DEF k
    <3> QED
      BY <2>5, <3>1, QueryNames
  <2>7. UNCHANGED <<rows, urls, asked, before>>
    BY <1>3 DEF Query, vars
  <2> HIDE DEF section
  <2> QED
    BY <2>1, <2>2, <2>3, <2>4, <2>6, <2>7 DEF Reading
<1> DEFINE Keeps ==
      /\ (stage'[a] = "idle") <=> (stage[a] = "idle")
      /\ asked'[a] = asked[a] /\ before'[a] = before[a]
      /\ report'[a] \in {report[a], <<>>}
      /\ Reading(a)' => Reading(a)
      /\ stage'[a] = "owner" => stage[a] = "owner"
<1>4. ASSUME CheckOwner(a) \/ Refuse(a)
      PROVE  Keeps
  BY <1>4 DEF CheckOwner, Refuse, Reading, Queries
<1>5. ASSUME NEW b \in Readers, b # a, Ask(b) \/ CheckOwner(b) \/ Query(b) \/ Refuse(b)
      PROVE  Keeps
  BY <1>5 DEF Ask, CheckOwner, Query, Refuse, Reading
<1>6. ASSUME UNCHANGED readers
      PROVE  Keeps
  BY <1>6 DEF readers, Reading
<1>7. ASSUME EndReaders
      PROVE  Keeps
  BY <1>7 DEF EndReaders, Reading
<1> HIDE DEF Keeps, Asks
<1>8. ASSUME NEW b \in Readers, Read(b)
      PROVE  \/ Asks(a)
             \/ Query(a) /\ UNCHANGED vars
             \/ Keeps
  BY <1>1, <1>4, <1>5, <1>8 DEF Read
<1>9. \/ Asks(a)
      \/ Query(a) /\ UNCHANGED vars
      \/ Keeps
  BY <1>6, <1>7, <1>8
     DEF AnalyticsNext, allvars, WorkAlone, StopServer, AllDrained, ShutdownTimeout
<1> QED
  BY <1>2, <1>3, <1>9 DEF Keeps

LEMMA NextReaderTypes == AnalyticsInv /\ [AnalyticsNext]_allvars => ReaderTypes'
<1> SUFFICES ASSUME AnalyticsInv, [AnalyticsNext]_allvars PROVE ReaderTypes'
  OBVIOUS
<1> USE DEF AnalyticsInv
<1>1. stage' \in [Readers -> Stages]
  <2>1. ASSUME NEW a \in Readers, Query(a)
        PROVE  stage' \in [Readers -> Stages]
    <3>1. Len(report[a]) \in Nat /\ Len(report[a]) < 4
      BY <2>1 DEF Query, Progress, ReaderTypes
    <3> DEFINE k == Len(report[a]) + 1
               next == IF k = 4 THEN "done" ELSE Queries[k + 1]
    <3>2. k = 4 \/ k + 1 \in 1..4
      BY <3>1
    <3>3. stage' = [stage EXCEPT ![a] = next]
      BY <2>1 DEF Query
    <3> HIDE DEF k
    <3>4. next \in Stages
      BY <3>2, QueryNames DEF Stages
    <3> QED
      BY <3>3, <3>4 DEF ReaderTypes
  <2>2. ASSUME NEW a \in Readers, Ask(a) \/ CheckOwner(a) \/ Refuse(a)
        PROVE  stage' \in [Readers -> Stages]
    BY <2>2 DEF Ask, CheckOwner, Refuse, Queries, Stages, ReaderTypes
  <2>3. ASSUME EndReaders
        PROVE  stage' \in [Readers -> Stages]
    BY <2>3 DEF EndReaders, Stages, ReaderTypes
  <2>4. ASSUME UNCHANGED readers
        PROVE  stage' \in [Readers -> Stages]
    BY <2>4 DEF readers, ReaderTypes
  <2> QED
    BY <2>1, <2>2, <2>3, <2>4
       DEF AnalyticsNext, allvars, Read, WorkAlone, StopServer, AllDrained, ShutdownTimeout
<1>2. /\ DOMAIN asked' = Readers /\ DOMAIN before' = Readers
      /\ before' = [a \in Readers |-> before'[a]]
      /\ report' = [a \in Readers |-> report'[a]]
  BY DEF ReaderTypes, AnalyticsNext, allvars, readers, Read, Ask, CheckOwner, Query, Refuse,
         WorkAlone, StopServer, AllDrained, ShutdownTimeout, EndReaders
<1>3. ASSUME NEW a \in Readers
      PROVE  /\ stage'[a] # "idle" => asked'[a] \in Urls
             /\ before'[a] \in Nat
             /\ report'[a] \in Seq(Sections)
  <2>1. /\ stage[a] # "idle" => asked[a] \in Urls
        /\ before[a] \in Nat /\ report[a] \in Seq(Sections)
    BY DEF ReaderTypes
  <2>2. \A u \in Urls : Stored[u] \in Nat
    BY StoredFacts
  <2>3. \A section \in Sections : Append(report[a], section) \in Seq(Sections)
    BY <2>1
  <2>4. <<>> \in Seq(Sections)
    OBVIOUS
  <2> QED
    BY <2>1, <2>2, <2>3, <2>4, ReaderSteps
<1> QED
  BY <1>1, <1>2, <1>3 DEF ReaderTypes

LEMMA NextProgress == AnalyticsInv /\ [AnalyticsNext]_allvars => Progress'
<1> SUFFICES ASSUME AnalyticsInv, [AnalyticsNext]_allvars, NEW a \in Readers
             PROVE  /\ stage'[a] \in {"idle", "owner"} => Len(report'[a]) = 0
                    /\ Reading(a)' => Len(report'[a]) < 4
  BY DEF Progress
<1>1. /\ stage[a] \in {"idle", "owner"} => Len(report[a]) = 0
      /\ Reading(a) => Len(report[a]) < 4
      /\ report[a] \in Seq(Sections)
  BY DEF AnalyticsInv, Progress, ReaderTypes
<1>2. \A section \in Sections : Len(Append(report[a], section)) = Len(report[a]) + 1
  BY <1>1
<1>3. Len(<<>>) = 0 /\ Len(report[a]) \in Nat
  BY <1>1
<1> QED
  BY <1>1, <1>2, <1>3, ReaderSteps

LEMMA SumFacts ==
  ASSUME ReaderTypes, NEW a \in Readers
  PROVE  \A k \in 1..Len(report[a]) : Sum(report[a][k]) \in Nat
<1>1. \A k \in 1..Len(report[a]) : report[a][k] \in Sections
  BY DEF ReaderTypes
<1> QED
  BY <1>1, ClickAssumption, SumIsNat

\* What a reader has met stays in order while clicks are stored and URLs deleted.
LEMMA KeepGrowing ==
  ASSUME AnalyticsInv, [AnalyticsNext]_allvars, NEW a \in Readers, stage[a] # "idle",
         asked'[a] = asked[a], before'[a] = before[a], report'[a] \in {report[a], <<>>}
  PROVE  /\ After(a, before[a], Stored[asked[a]])'
         /\ \A k \in 1..Len(report'[a]) :
              /\ After(a, before[a], Sum(report[a][k]))'
              /\ After(a, Sum(report[a][k]), Stored[asked[a]])'
         /\ \A j, k \in 1..Len(report'[a]) :
              j < k => After(a, Sum(report[a][j]), Sum(report[a][k]))'
<1> DEFINE u == asked[a]
<1>1. /\ u \in Urls /\ before[a] \in Nat
      /\ \A k \in 1..Len(report[a]) : Sum(report[a][k]) \in Nat
  BY SumFacts DEF AnalyticsInv, ReaderTypes
<1>2. /\ Stored[u] \in Nat /\ Stored'[u] \in Nat
      /\ u \in urls' => u \in urls /\ Stored[u] <= Stored'[u]
      /\ u \notin urls' => Stored'[u] = 0
  BY <1>1, StoredFacts, StoredSteps DEF AnalyticsInv
<1>3. /\ After(a, before[a], Stored[u])
      /\ \A k \in 1..Len(report[a]) :
           /\ After(a, before[a], Sum(report[a][k]))
           /\ After(a, Sum(report[a][k]), Stored[u])
      /\ \A j, k \in 1..Len(report[a]) :
           j < k => After(a, Sum(report[a][j]), Sum(report[a][k]))
  BY DEF AnalyticsInv, Growing
<1>4. CASE report'[a] = report[a]
  BY <1>1, <1>2, <1>3, <1>4 DEF After
<1>5. CASE report'[a] = <<>>
  BY <1>1, <1>2, <1>3, <1>5 DEF After
<1> QED
  BY <1>4, <1>5

LEMMA NextGrowing == AnalyticsInv /\ [AnalyticsNext]_allvars => Growing'
<1> SUFFICES ASSUME AnalyticsInv, [AnalyticsNext]_allvars, NEW a \in Readers,
                    stage'[a] # "idle"
             PROVE  /\ After(a, before[a], Stored[asked[a]])'
                    /\ \A k \in 1..Len(report'[a]) :
                         /\ After(a, before[a], Sum(report[a][k]))'
                         /\ After(a, Sum(report[a][k]), Stored[asked[a]])'
                    /\ \A j, k \in 1..Len(report'[a]) :
                         j < k => After(a, Sum(report[a][j]), Sum(report[a][k]))'
  BY DEF Growing
<1>1. CASE /\ stage[a] = "idle" /\ UNCHANGED <<rows, urls>>
           /\ asked'[a] \in Urls /\ before'[a] = Stored[asked'[a]]
           /\ report'[a] = report[a]
  <2>1. Len(report'[a]) = 0
    BY <1>1 DEF AnalyticsInv, Progress
  <2>2. Stored' = Stored
    BY <1>1 DEF Stored, Clicks
  <2>3. before'[a] \in Nat
    BY <1>1, StoredFacts
  <2> QED
    BY <1>1, <2>1, <2>2, <2>3 DEF After
<1>2. CASE /\ stage[a] # "idle" /\ UNCHANGED <<rows, urls>>
           /\ asked'[a] = asked[a] /\ before'[a] = before[a]
           /\ \E section \in Sections :
                /\ report'[a] = Append(report[a], section)
                /\ Sum(section) = Stored[asked[a]]
  <2>1. PICK section \in Sections : /\ report'[a] = Append(report[a], section)
                                    /\ Sum(section) = Stored[asked[a]]
    BY <1>2
  <2> DEFINE n == Len(report[a])
             s(k) == Sum(report'[a][k])
  <2>2. Stored' = Stored
    BY <1>2 DEF Stored, Clicks
  <2>3. /\ n \in Nat /\ Len(report'[a]) = n + 1
        /\ \A k \in 1..n : report'[a][k] = report[a][k]
        /\ report'[a][n + 1] = section
    BY <2>1 DEF AnalyticsInv, ReaderTypes
  <2>4. /\ \A k \in 1..n : s(k) = Sum(report[a][k])
        /\ s(n + 1) = Stored[asked[a]]
        /\ Stored[asked[a]] \in Nat /\ before[a] \in Nat
    BY <1>2, <2>1, <2>3, StoredFacts DEF AnalyticsInv, ReaderTypes
  <2>5. /\ After(a, before[a], Stored[asked[a]])
        /\ \A k \in 1..n : After(a, before[a], s(k)) /\ After(a, s(k), Stored[asked[a]])
        /\ \A j, k \in 1..n : j < k => After(a, s(j), s(k))
    BY <1>2, <2>4 DEF AnalyticsInv, Growing
  <2> HIDE DEF n, s
  <2>6. /\ \A k \in 1..(n + 1) : After(a, before[a], s(k)) /\ After(a, s(k), Stored[asked[a]])
        /\ \A j, k \in 1..(n + 1) : j < k => After(a, s(j), s(k))
    <3>1. \A k \in 1..(n + 1) : k \in 1..n \/ k = n + 1
      BY <2>3
    <3>2. \A j, k \in 1..(n + 1) : j < k => j \in 1..n
      BY <2>3
    <3>3. After(a, Stored[asked[a]], Stored[asked[a]])
      BY <2>4 DEF After
    <3> QED
      BY <2>4, <2>5, <3>1, <3>2, <3>3
  <2> QED
    BY <1>2, <2>2, <2>3, <2>5, <2>6 DEF After, s
<1>3. CASE /\ stage[a] # "idle"
           /\ asked'[a] = asked[a] /\ before'[a] = before[a]
           /\ report'[a] \in {report[a], <<>>}
  BY <1>3, KeepGrowing
<1> QED
  BY <1>1, <1>2, <1>3, ReaderSteps

\* main goes on, and closes the channel when it has waited for the handlers.
LEMMA PoolPhases ==
  ASSUME [AnalyticsNext]_allvars, ~timedOut', phase' # "crashed"
  PROVE  /\ ~timedOut /\ phase # "crashed"
         /\ Closed' => Closed \/ Drained
<1>1. [Next]_vars
  BY PoolSteps DEF ShutdownTimeout
<1>2. ~timedOut /\ phase # "crashed"
  BY <1>1
     DEF Next, vars, Arrive, Handle, LookupFound, LookupFailed, EnqueueSend, EnqueueRefused,
         EnqueuePanic, Respond, Work, Take, Exit, Save, Fail, Wake, LateCommit, DeleteURL,
         Signal, ShutDown, DrainTimeout, PoolStopped, CloseRedis, CloseDB, ExitProcess,
         Goto, Crash, Drained
<1>3. phase' = phase \/ Signal \/ Drained \/ Closed
  BY <1>1, <1>2
     DEF Next, vars, Arrive, Handle, LookupFound, LookupFailed, EnqueueSend, EnqueueRefused,
         EnqueuePanic, Respond, Work, Take, Exit, Save, Fail, Wake, LateCommit, DeleteURL,
         Signal, ShutDown, DrainTimeout, PoolStopped, CloseRedis, CloseDB, ExitProcess,
         Goto, Crash, Closed
<1> QED
  BY <1>2, <1>3 DEF Signal, Goto, Closed

\* main stops the pool after all readers, unless their time is over.
LEMMA NextAwaited == AnalyticsInv /\ [AnalyticsNext]_allvars => ReadersAreAwaited'
<1> SUFFICES ASSUME AnalyticsInv, [AnalyticsNext]_allvars, ~timedOut', phase' # "crashed",
                    NEW a \in Readers
             PROVE  stage'[a] # "lost" /\ (Closed' => ~Reading(a)')
  BY DEF ReadersAreAwaited
<1>1. /\ ~timedOut /\ phase # "crashed"
      /\ Closed' => Closed \/ AllDrained
  <2>1. /\ ~timedOut /\ phase # "crashed"
        /\ Closed' => Closed \/ Drained
    BY PoolPhases
  <2>2. Drained => AllDrained
    BY DEF Drained, Goto, AnalyticsNext, allvars, vars, Read, WorkAlone, StopServer,
           ShutdownTimeout, PoolStopped, CloseRedis, CloseDB, ExitProcess, Crash, Arrive,
           Handle, LookupFound, LookupFailed, EnqueueSend, EnqueueRefused, EnqueuePanic,
           Respond, Work, Take, Exit, Save, Fail, Wake, LateCommit, DeleteURL, Signal
  <2> QED
    BY <2>1, <2>2
<1>2. stage[a] # "lost" /\ (Closed => ~Reading(a))
  BY <1>1 DEF AnalyticsInv, ReadersAreAwaited
<1>3. Closed' => ~Reading(a)
  BY <1>1, <1>2 DEF AllDrained
<1>4. Reading(a)' => Reading(a) \/ (stage[a] = "idle" /\ stage'[a] = "owner")
  BY ReaderSteps DEF Reading
<1>5. stage[a] = "idle" /\ stage'[a] = "owner" => ~Closed'
  <2>1. ASSUME stage[a] = "idle", stage'[a] = "owner"
        PROVE  \E b \in Readers : Ask(b) /\ UNCHANGED vars
    BY <2>1 DEF AnalyticsInv, ReaderTypes, AnalyticsNext, allvars, readers, Read, CheckOwner,
                Query, Refuse, Queries, WorkAlone, StopServer, AllDrained, ShutdownTimeout,
                EndReaders, Reading
  <2> QED
    BY <2>1 DEF Ask, vars, Closed
<1>6. stage'[a] # "lost"
  <2>1. ASSUME stage'[a] = "lost"
        PROVE  FALSE
    <3>1. (EndReaders /\ ExitProcess) \/ (\E b \in Readers : Query(b))
      BY <1>1, <1>2, <2>1
         DEF AnalyticsInv, ReaderTypes, AnalyticsNext, allvars, readers, Read, Ask,
             CheckOwner, Refuse, Queries, WorkAlone, StopServer, AllDrained,
             ShutdownTimeout, Crash
    <3>2. CASE EndReaders /\ ExitProcess
      BY <1>2, <2>1, <3>2 DEF EndReaders, ExitProcess, Goto, Closed
    <3>3. ASSUME NEW b \in Readers, Query(b)
          PROVE  FALSE
      <4>1. Len(report[b]) \in Nat /\ Len(report[b]) < 4
        BY <3>3 DEF Query, AnalyticsInv, Progress, ReaderTypes
      <4> DEFINE k == Len(report[b]) + 1
                 next == IF k = 4 THEN "done" ELSE Queries[k + 1]
      <4>2. k = 4 \/ k + 1 \in 1..4
        BY <4>1
      <4>3. stage' = [stage EXCEPT ![b] = next]
        BY <3>3 DEF Query
      <4> HIDE DEF k
      <4>4. next # "lost"
        BY <4>2, QueryNames
      <4> QED
        BY <1>2, <2>1, <4>3, <4>4 DEF AnalyticsInv, ReaderTypes
    <3> QED
      BY <3>1, <3>2, <3>3
  <2> QED
    BY <2>1
<1> QED
  BY <1>3, <1>4, <1>5, <1>6

LEMMA AnalyticsInitInv == AnalyticsInit => AnalyticsInv
<1> SUFFICES ASSUME AnalyticsInit PROVE AnalyticsInv
  OBVIOUS
<1>1. Inv
  BY InitInv DEF AnalyticsInit
<1>2. NoOrphans
  BY DEF AnalyticsInit, Init, NoOrphans
<1>3. ReaderTypes /\ Progress /\ Growing
  BY DEF AnalyticsInit, ReadersInit, ReaderTypes, Stages, Progress, Growing, Reading
<1>4. ReadersAreAwaited
  BY DEF AnalyticsInit, Init, ReadersInit, ReadersAreAwaited, Reading
<1> QED
  BY <1>1, <1>2, <1>3, <1>4 DEF AnalyticsInv

LEMMA NextAnalyticsInv == AnalyticsInv /\ [AnalyticsNext]_allvars => AnalyticsInv'
<1> SUFFICES ASSUME AnalyticsInv, [AnalyticsNext]_allvars PROVE AnalyticsInv'
  OBVIOUS
<1>1. Inv'
  BY PoolInv DEF AnalyticsInv
<1>2. NoOrphans'
  BY RowSteps DEF AnalyticsInv, NoOrphans
<1> QED
  BY <1>1, <1>2, NextReaderTypes, NextProgress, NextGrowing, NextAwaited DEF AnalyticsInv

LEMMA AlwaysAnalyticsInv == AnalyticsSpec => []AnalyticsInv
  BY AnalyticsInitInv, NextAnalyticsInv, PTL DEF AnalyticsSpec

-----------------------------------------------------------------------------
(* The theorems.                                                           *)

\* ReadersAreAwaited: server.Shutdown waits for GetAnalytics as it does for
\* Redirect, so that a report is cut off only by its ten seconds or by a kill.
THEOREM ReadersAreAwaitedHolds == AnalyticsSpec => []ReadersAreAwaited
<1>1. AnalyticsInv => ReadersAreAwaited
  BY DEF AnalyticsInv
<1> QED
  BY <1>1, AlwaysAnalyticsInv, PTL

\* The numbers that ReportsOnlyGrow compares, one by one.
LEMMA CountsFacts ==
  ASSUME AnalyticsInv, NEW a \in Readers, stage[a] # "idle"
  PROVE  /\ DOMAIN Counts(a) = 1..(Len(report[a]) + 2)
         /\ Counts(a)[1] = before[a]
         /\ \A k \in 1..Len(report[a]) : Counts(a)[k + 1] = Sum(report[a][k])
         /\ Counts(a)[Len(report[a]) + 2] = Stored[asked[a]]
<1> DEFINE n == Len(report[a])
           sums == [k \in DOMAIN report[a] |-> Sum(report[a][k])]
<1>1. /\ n \in Nat /\ DOMAIN report[a] = 1..n
      /\ before[a] \in Nat /\ asked[a] \in Urls
  BY DEF AnalyticsInv, ReaderTypes
<1>2. \A k \in 1..n : Sum(report[a][k]) \in Nat
  BY SumFacts DEF AnalyticsInv
<1>3. sums \in Seq(Nat) /\ Len(sums) = n /\ \A k \in 1..n : sums[k] = Sum(report[a][k])
  BY <1>1, <1>2
<1>4. Cardinality(Clicks(asked[a])) = Stored[asked[a]] /\ Stored[asked[a]] \in Nat
  BY <1>1, StoredFacts
<1>5. Counts(a) = <<before[a]>> \o sums \o <<Stored[asked[a]]>>
  BY <1>4 DEF Counts
<1> HIDE DEF sums, n
<1>6. /\ <<before[a]>> \o sums \in Seq(Nat) /\ Len(<<before[a]>> \o sums) = n + 1
      /\ (<<before[a]>> \o sums)[1] = before[a]
      /\ \A k \in 1..n : (<<before[a]>> \o sums)[k + 1] = sums[k]
  BY <1>1, <1>3
<1> QED
  BY <1>1, <1>3, <1>4, <1>5, <1>6 DEF n

\* ReportsOnlyGrow: although the queries of GetAnalytics run outside a transaction,
\* each accounts for all the clicks that the ones before it did, while workers
\* insert and statements commit late, until the URL is deleted.
THEOREM ReportsOnlyGrowHolds == AnalyticsSpec => []ReportsOnlyGrow
<1>1. AnalyticsInv => ReportsOnlyGrow
  <2> SUFFICES ASSUME AnalyticsInv, NEW a \in Readers, stage[a] # "idle",
                      NEW i \in DOMAIN Counts(a), NEW j \in DOMAIN Counts(a), i < j
               PROVE  After(a, Counts(a)[i], Counts(a)[j])
    BY DEF ReportsOnlyGrow, After
  <2> DEFINE n == Len(report[a])
             c == Counts(a)
  <2>1. n \in Nat
    BY DEF AnalyticsInv, ReaderTypes
  <2>2. /\ DOMAIN c = 1..(n + 2) /\ c[1] = before[a] /\ c[n + 2] = Stored[asked[a]]
        /\ \A k \in 1..n : c[k + 1] = Sum(report[a][k])
    BY CountsFacts
  <2>3. /\ After(a, c[1], c[n + 2])
        /\ \A k \in 1..n : After(a, c[1], c[k + 1]) /\ After(a, c[k + 1], c[n + 2])
        /\ \A k, m \in 1..n : k < m => After(a, c[k + 1], c[m + 1])
    BY <2>2 DEF AnalyticsInv, Growing
  <2> HIDE DEF n, c
  <2>4. /\ i = 1 \/ \E k \in 1..n : i = k + 1
        /\ j = n + 2 \/ \E k \in 1..n : j = k + 1
    <3>1. i \in 1..(n + 2) /\ j \in 1..(n + 2)
      BY <2>2 DEF c
    <3>2. i = 1 \/ i - 1 \in 1..n
      BY <2>1, <3>1
    <3>3. j = n + 2 \/ j - 1 \in 1..n
      BY <2>1, <3>1
    <3> QED
      BY <3>1, <3>2, <3>3
  <2>5. After(a, c[i], c[j])
    BY <2>1, <2>3, <2>4
  <2> QED
    BY <2>5 DEF c
<1> QED
  BY <1>1, AlwaysAnalyticsInv, PTL

\* Readers beside it leave the click pipeline as safe as it is alone: with main's
\* wait for all the handlers, its inductive invariant still holds.
THEOREM PoolIsSafeWithReaders ==
  AnalyticsSpec => [](/\ TypeOK /\ OnePlaceAtATime /\ CountedOnce
                      /\ DrainedBeforeClose /\ GracefulShutdownAbortsNothing)
<1>1. AnalyticsInv => /\ TypeOK /\ OnePlaceAtATime /\ CountedOnce
                      /\ DrainedBeforeClose /\ GracefulShutdownAbortsNothing
  BY InvPlaces, InvDrained DEF AnalyticsInv, Inv
<1> QED
  BY <1>1, AlwaysAnalyticsInv, PTL
=============================================================================
