---------------------- MODULE NotificationDispatcherProofs ----------------------
(* Theorems about the notification job for any number of processes, users, *)
(* devices, items and rows, and for every lag and batch limit.             *)
EXTENDS NotificationDispatcher, FiniteSetTheorems, WellFoundedInduction, TLAPS

-----------------------------------------------------------------------------
\* The schedule table: rows are numbered in the order they are inserted, and
\* none is observed in the future, for every number of items, page size and
\* length of a transaction.

Stored == rows \cup page.rows

FeedTypeOK ==
  /\ clock \in Nat
  /\ rows \subseteq Row
  /\ page \in [open : BOOLEAN, start : Nat, rows : SUBSET Row]

Distinct(S) == \A p, q \in S : p.id = q.id => p = q

(* The ids in use are the first ones, in the table and in the table with   *)
(* the open page: the next id is free whether the page commits or aborts.  *)
NumberedUpTo(S) ==
  /\ IsFiniteSet(S)
  /\ \A p \in S : p.id <= Cardinality(S)
  /\ Distinct(S)

Numbered == NumberedUpTo(rows) /\ NumberedUpTo(Stored)

ObservedInThePast ==
  /\ \A p \in Stored : p.obs <= clock
  /\ page.start <= clock

PageIsYoung == page.open => clock - page.start <= MaxTxn

FeedInv == FeedTypeOK /\ Numbered /\ ObservedInThePast /\ PageIsYoung

FeedNext ==
  \/ BeginPage \/ CommitPage \/ AbortPage \/ Tick
  \/ \E i \in Items, v \in Values : InsertScheduleSnapshot(i, v)

-----------------------------------------------------------------------------

\* A set of natural numbers has a least element.
LEMMA LeastNatural ==
  ASSUME NEW T, T \subseteq Nat, T # {}
  PROVE  \E x \in T : \A y \in T : x <= y
<1> DEFINE Less == {p \in Nat \X Nat : p[1] < p[2]}
<1>1. IsWellFoundedOn(Less, Nat)
  BY NatLessThanWellFounded DEF OpToRel
<1>2. PICK x \in T : \A y \in T : <<y, x>> \notin Less
  <2> HIDE DEF Less
  <2> QED
    BY <1>1, WFMin
<1>3. ASSUME NEW y \in T PROVE x <= y
  <2>1. y < x => <<y, x>> \in Less
    <3>1. x \in Nat /\ y \in Nat /\ <<y, x>> \in Nat \X Nat
      OBVIOUS
    <3> QED
      BY <3>1
  <2> QED
    BY <1>2, <2>1
<1> QED
  BY <1>3

(* Rows with distinct ids have an earliest one; with a bound on their      *)
(* times they have a latest one, which the folding of changes relies on.   *)
LEMMA EarliestExists ==
  ASSUME NEW S, S \subseteq Row, S # {}, Distinct(S)
  PROVE  /\ Earliest(S) \in S
         /\ \A t \in S \ {Earliest(S)} : Before(Earliest(S), t)
<1>0. \A s \in S : s.obs \in Nat /\ s.id \in Nat
  BY FeedAssumption DEF Row
<1>1. PICK m \in {s.obs : s \in S} : \A y \in {s.obs : s \in S} : m <= y
  BY <1>0, LeastNatural
<1> DEFINE First == {s \in S : s.obs = m}
<1>2. PICK n \in {s.id : s \in First} : \A y \in {s.id : s \in First} : n <= y
  BY <1>0, <1>1, LeastNatural
<1>3. PICK e \in S : e.obs = m /\ e.id = n
  BY <1>2
<1>4. \A t \in S \ {e} : Before(e, t)
  <2> SUFFICES ASSUME NEW t \in S \ {e} PROVE Before(e, t)
    OBVIOUS
  <2>1. m <= t.obs /\ (t.obs = m => n <= t.id)
    BY <1>1, <1>2
  <2>2. t.id # e.id
    BY DEF Distinct
  <2> QED
    BY <1>0, <1>3, <2>1, <2>2 DEF Before
<1> QED
  BY <1>4 DEF Earliest

LEMMA LatestExists ==
  ASSUME NEW S, S \subseteq Row, S # {}, Distinct(S),
         NEW b \in Nat, \A s \in S : s.obs <= b
  PROVE  /\ Latest(S) \in S
         /\ \A t \in S \ {Latest(S)} : Before(t, Latest(S))
<1>0. \A s \in S : s.obs \in Nat /\ s.id \in Nat /\ b - s.obs \in Nat
                  /\ MaxRows - s.id \in Nat
  BY FeedAssumption DEF Row
<1>1. PICK m \in {b - s.obs : s \in S} : \A y \in {b - s.obs : s \in S} : m <= y
  BY <1>0, LeastNatural
<1> DEFINE Last == {s \in S : b - s.obs = m}
<1>2. PICK n \in {MaxRows - s.id : s \in Last} :
        \A y \in {MaxRows - s.id : s \in Last} : n <= y
  BY <1>0, <1>1, LeastNatural
<1>3. PICK e \in S : b - e.obs = m /\ MaxRows - e.id = n
  BY <1>2
<1>4. \A t \in S \ {e} : Before(t, e)
  <2> SUFFICES ASSUME NEW t \in S \ {e} PROVE Before(t, e)
    OBVIOUS
  <2>1. m <= b - t.obs /\ (b - t.obs = m => n <= MaxRows - t.id)
    BY <1>1, <1>2
  <2>2. t.id # e.id
    BY DEF Distinct
  <2> QED
    BY <1>0, <1>3, <2>1, <2>2, FeedAssumption DEF Before
<1> QED
  BY <1>4 DEF Latest

-----------------------------------------------------------------------------

LEMMA FeedInit_FeedInv ==
  ASSUME NEW start \in Nat, FeedInit(start) PROVE FeedInv
<1> USE FeedAssumption
<1>1. rows = InitialRows /\ Stored = InitialRows /\ clock = start /\ page = NoPage
  BY DEF FeedInit, Stored, NoPage
<1>2. FeedTypeOK
  BY <1>1 DEF FeedTypeOK, NoPage
<1>3. Numbered
  BY <1>1 DEF Numbered, NumberedUpTo, Distinct
<1>4. ObservedInThePast /\ PageIsYoung
  BY <1>1 DEF ObservedInThePast, PageIsYoung, NoPage
<1> QED
  BY <1>2, <1>3, <1>4 DEF FeedInv

\* One more row under the next id keeps the numbering.
LEMMA NumberedAdd ==
  ASSUME NEW S, NumberedUpTo(S), NEW x, x.id = Cardinality(S) + 1,
         \A p \in S : p.id \in Nat
  PROVE  NumberedUpTo(S \cup {x})
<1>1. x \notin S
  BY FS_CardinalityType DEF NumberedUpTo
<1>2. /\ IsFiniteSet(S \cup {x}) /\ Cardinality(S) \in Nat
      /\ Cardinality(S \cup {x}) = Cardinality(S) + 1
  BY <1>1, FS_AddElement, FS_CardinalityType DEF NumberedUpTo
<1>3. \A p \in S \cup {x} : p.id <= Cardinality(S) + 1
  BY <1>2 DEF NumberedUpTo
<1>4. Distinct(S \cup {x})
  BY <1>2 DEF NumberedUpTo, Distinct
<1> QED
  BY <1>2, <1>3, <1>4 DEF NumberedUpTo

LEMMA FeedStep_FeedInv ==
  ASSUME FeedInv, FeedNext \/ UNCHANGED feedVars PROVE FeedInv'
<1> USE FeedAssumption DEF FeedInv, FeedTypeOK, Numbered, ObservedInThePast, PageIsYoung
<1>1. CASE BeginPage
  <2>1. Stored' = rows
    BY <1>1 DEF BeginPage, Stored
  <2> QED
    BY <1>1, <2>1 DEF BeginPage, Stored, NumberedUpTo
<1>2. ASSUME NEW i \in Items, NEW v \in Values, InsertScheduleSnapshot(i, v)
      PROVE  FeedInv'
  <2> DEFINE new == [id |-> NextId, item |-> i, obs |-> page.start, val |-> v]
  <2>1. /\ rows' = rows /\ clock' = clock
        /\ page' = [page EXCEPT !.rows = page.rows \cup {new}]
        /\ page.open /\ NextId <= MaxRows
    BY <1>2 DEF InsertScheduleSnapshot
  <2>2. NextId = Cardinality(Stored) + 1 /\ Cardinality(Stored) \in Nat
    BY FS_CardinalityType DEF NextId, Stored, NumberedUpTo
  <2>3. new \in Row
    BY <2>1, <2>2 DEF Row
  <2>4. page' \in [open : BOOLEAN, start : Nat, rows : SUBSET Row]
    BY <2>1, <2>3
  <2>5. Stored' = Stored \cup {new}
    BY <2>1 DEF Stored
  <2>6. NumberedUpTo(Stored')
    <3>1. \A p \in Stored : p.id \in Nat
      BY DEF Stored, Row
    <3>2. NumberedUpTo(Stored \cup {new})
      BY <2>2, <3>1, NumberedAdd
    <3> QED
      BY <2>5, <3>2
  <2>7. NumberedUpTo(rows')
    BY <2>1
  <2>8. ObservedInThePast' /\ PageIsYoung'
    BY <2>1, <2>5
  <2> QED
    BY <2>1, <2>4, <2>6, <2>7, <2>8 DEF NumberedUpTo
<1>3. CASE CommitPage
  <2>1. rows' = Stored /\ Stored' = Stored /\ clock' = clock /\ page' = NoPage
    BY <1>3 DEF CommitPage, Stored, NoPage
  <2>2. FeedTypeOK'
    BY <2>1 DEF NoPage, Stored
  <2>3. Numbered'
    BY <2>1 DEF NumberedUpTo
  <2>4. ObservedInThePast' /\ PageIsYoung'
    BY <2>1 DEF NoPage
  <2> QED
    BY <2>2, <2>3, <2>4
<1>4. CASE AbortPage
  <2>1. rows' = rows /\ Stored' = rows /\ clock' = clock /\ page' = NoPage
    BY <1>4 DEF AbortPage, Stored, NoPage
  <2> QED
    BY <2>1 DEF NumberedUpTo, NoPage, Stored
<1>5. CASE Tick
  <2>1. rows' = rows /\ page' = page /\ clock' = clock + 1 /\ Stored' = Stored
    BY <1>5 DEF Tick, Stored
  <2>2. ObservedInThePast'
    <3>1. \A p \in Stored : p.obs \in Nat
      BY DEF Stored, Row
    <3> QED
      BY <2>1, <3>1
  <2>3. PageIsYoung'
    BY <1>5, <2>1 DEF Tick
  <2> QED
    BY <2>1, <2>2, <2>3 DEF NumberedUpTo
<1>6. CASE UNCHANGED feedVars
  BY <1>6 DEF feedVars, Stored, NumberedUpTo
<1> QED
  BY <1>1, <1>2, <1>3, <1>4, <1>5, <1>6 DEF FeedNext

-----------------------------------------------------------------------------
\* Times and jobs

\* Dropping the microseconds gives a time a Date can hold, never a later one.
LEMMA ToDateIsDate ==
  ASSUME NEW t \in Int
  PROVE  ToDate(t) \in Dates /\ ToDate(t) <= t
<1> DEFINE q == t \div Resolution
<1>1. Resolution \in Nat /\ Resolution > 0 /\ q \in Int
  BY DispatcherAssumption
<1>2. q * Resolution \in Int /\ q * Resolution <= t
  BY <1>1
<1>3. (q * Resolution) \div Resolution = q
  BY <1>1
<1> QED
  BY <1>1, <1>2, <1>3 DEF ToDate, Dates

LEMMA ZeroIsDate == 0 \in Dates
<1>1. 0 \div Resolution = 0
  BY DispatcherAssumption
<1> QED
  BY <1>1, DispatcherAssumption DEF Dates, ToDate

\* Folding the changes of one item gives a job no newer than its rows.
LEMMA ChangeJobType ==
  ASSUME FeedInv, NEW G \in SUBSET rows, G # {},
         NEW b \in Int, \A s \in G : s.obs <= b
  PROVE  ChangeJob(G) \in Job /\ ChangeJob(G).observedAt <= b
<1>1. G \subseteq Row /\ Distinct(G) /\ \A s \in G : s.obs \in Nat /\ s.obs <= clock
  BY DEF FeedInv, FeedTypeOK, Numbered, NumberedUpTo, Distinct, Stored,
         ObservedInThePast, Row
<1>2. Earliest(G) \in G
  BY <1>1, EarliestExists
<1>3. Latest(G) \in G
  BY <1>1, LatestExists DEF FeedInv, FeedTypeOK
<1>4. ToDate(Latest(G).obs) \in Dates /\ ToDate(Latest(G).obs) <= b
  <2>1. /\ ToDate(Latest(G).obs) \in Dates
        /\ ToDate(Latest(G).obs) <= Latest(G).obs
    BY <1>1, <1>3, ToDateIsDate
  <2> QED
    BY <1>1, <1>3, <2>1 DEF Dates
<1>5. ChangeMessage(G) \in SUBSET {"failed", "price", "bid"}
  BY DEF ChangeMessage, ChangeSentences
<1>6. ScheduleKey(Latest(G)) \in Keys /\ {s.id : s \in G} \in SUBSET (1 .. MaxRows)
  BY <1>1, <1>3, FeedAssumption DEF ScheduleKey, Keys, Row
<1>7. Latest(G).item \in Items /\ Earliest(G) \in Row
  BY <1>1, <1>2, <1>3 DEF Row
<1> QED
  BY <1>4, <1>5, <1>6, <1>7 DEF ChangeJob, Job

LEMMA GroupByItemType ==
  ASSUME FeedInv, NEW since \in Int, NEW through \in Int
  PROVE  LET todo == GroupByItem(FindScheduleChanges(since, through))
         IN  todo \in SUBSET Job /\ \A j \in todo : j.observedAt <= through
<1> DEFINE C == FindScheduleChanges(since, through)
<1>1. C \subseteq rows /\ \A s \in C : s.obs <= through
  BY DEF FindScheduleChanges
<1>2. ASSUME NEW i \in {s.item : s \in C}
      PROVE  LET j == ChangeJob({s \in C : s.item = i})
             IN  j \in Job /\ j.observedAt <= through
  <2> HIDE DEF C
  <2> QED
    BY <1>1, ChangeJobType
<1> QED
  BY <1>2 DEF GroupByItem

LEMMA ReminderJobsType ==
  ASSUME FeedInv, NEW now \in Int
  PROVE  /\ ReminderJobs(now) \in SUBSET Job
         /\ \A j \in ReminderJobs(now) : j.observedAt = 0
<1> SUFFICES ASSUME NEW s \in FindReminderCandidates(now, now + ReminderWindowDays * DayLength)
             PROVE  ReminderJob(s, now) \in Job /\ ReminderJob(s, now).observedAt = 0
  BY DEF ReminderJobs
<1>1. s \in Row /\ s.val.bid # NoValue
  BY DEF FindReminderCandidates, FeedInv, FeedTypeOK
<1>2. s.item \in Items /\ s.val.bid \in Int
  BY <1>1, FeedAssumption DEF Row, Observation
<1>3. Day(s.val.bid) \in Int /\ KstDaysUntil(s.val.bid, now) \in Int
  BY <1>2, CalendarAssumption DEF Day, KstDaysUntil
<1>4. RemindKey(s, now) \in Keys
  BY <1>2, <1>3 DEF RemindKey, Keys
<1> QED
  BY <1>1, <1>2, <1>4, ZeroIsDate, FeedAssumption DEF ReminderJob, Job

-----------------------------------------------------------------------------
\* The type invariant and the lag

(* Everything a process may write to the cursor is at least the lag behind *)
(* the clock.                                                              *)
Lagging(p) ==
  /\ p.watermark <= clock - Lag
  /\ p.checkpoint # None => p.checkpoint <= clock - Lag
  /\ \A j \in p.todo : j.observedAt <= clock - Lag

CursorLags == Lag <= clock /\ (cursor # None => cursor <= clock - Lag)

Sound(p) == p \in Process /\ Coherent(p) /\ Lagging(p)

LagInv == CursorLags /\ \A r \in Runs : Lagging(run[r])

TypeInv == TypeOK /\ FeedInv /\ LagInv

LEMMA ProcessSound ==
  ASSUME TypeInv, NEW r \in Runs PROVE Sound(run[r])
  BY DEF TypeInv, TypeOK, LagInv, Sound

LEMMA IdleSound == ASSUME TypeInv PROVE Sound(Idle)
  BY ZeroIsDate, DispatcherAssumption
  DEF TypeInv, TypeOK, LagInv, CursorLags, Sound, Idle, NoJob, Process, Labels, Coherent, Lagging

LEMMA AfterJobSound ==
  ASSUME NEW p, Sound(p), p.pc \in {"jobs", "users"}, NEW job \in p.todo,
         NEW delivered \in BOOLEAN
  PROVE  Sound(AfterJob(p, job, delivered))
<1> USE DEF Sound, Lagging
<1>1. job.observedAt \in Dates /\ job.observedAt <= clock - Lag
  BY DEF Process, Job
<1>2. p.user = None
  BY DEF Coherent, Process
<1>3. AfterJob(p, job, delivered) \in Process
  BY <1>1 DEF AfterJob, Process, Labels, NoJob
<1>4. Coherent(AfterJob(p, job, delivered))
  BY <1>2 DEF AfterJob, Coherent, Process
<1>5. Lagging(AfterJob(p, job, delivered))
  BY <1>1 DEF AfterJob, Process
<1> QED
  BY <1>3, <1>4, <1>5

(* Every step of a process leaves a well-typed process whose checkpoint    *)
(* and jobs are behind the lag.                                            *)
LEMMA ProcessStep ==
  ASSUME TypeInv, NEW r \in Runs, RunStep(r) \/ Crash(r)
  PROVE  \E p : Sound(p) /\ run' = [run EXCEPT ![r] = p]
<1> DEFINE old == run[r]
<1>0. /\ Sound(old) /\ old \in Process /\ run \in [Runs -> Process]
      /\ Lagging(old) /\ Coherent(old)
  BY ProcessSound DEF TypeInv, TypeOK, Sound
<1> USE DEF Sound
<1>1. CASE StartRun(r)
  <2> DEFINE p == [Idle EXCEPT !.pc = "cursor", !.startedAt = clock,
                               !.watermark = SafeWatermark]
  <2>1. clock \in Int /\ clock - Lag \in Int
    BY DispatcherAssumption DEF TypeInv, TypeOK
  <2>2. SafeWatermark \in Dates /\ SafeWatermark <= clock - Lag
    BY <2>1, ToDateIsDate DEF SafeWatermark
  <2>3. p \in Process
    BY <2>1, <2>2, IdleSound DEF Process, Labels
  <2>4. Coherent(p) /\ Lagging(p)
    BY <2>2 DEF Coherent, Lagging, Idle
  <2> QED
    BY <1>1, <2>3, <2>4 DEF StartRun, Local
<1>2. CASE ReadNoCursor(r)
  <2> DEFINE p == [old EXCEPT !.pc = "advance", !.checkpoint = old.watermark]
  <2>1. run' = [run EXCEPT ![r] = p]
    BY <1>2, <1>0 DEF ReadNoCursor
  <2>2. p \in Process /\ Coherent(p) /\ Lagging(p)
    BY <1>0, <1>2 DEF ReadNoCursor, At, Process, Labels, Coherent, Lagging
  <2> QED
    BY <2>1, <2>2
<1>3. CASE ReadCursor(r)
  <2> DEFINE p == [old EXCEPT !.since = cursor,
                     !.pc = IF old.watermark <= cursor THEN "reminders" ELSE "changes"]
  <2>1. run' = [run EXCEPT ![r] = p]
    BY <1>3 DEF ReadCursor, Local
  <2>2. cursor \in Dates
    BY <1>3 DEF ReadCursor, TypeInv, TypeOK
  <2>3. p \in Process /\ Coherent(p) /\ Lagging(p)
    BY <1>0, <1>3, <2>2 DEF ReadCursor, At, Process, Labels, Coherent, Lagging
  <2> QED
    BY <2>1, <2>3
<1>4. CASE FindChanges(r)
  <2> DEFINE found == FindScheduleChanges(old.since, old.watermark)
             jobs == GroupByItem(found)
             check == IF Cardinality(found) < Limit THEN old.watermark ELSE None
             p == [old EXCEPT !.pc = "jobs", !.todo = jobs, !.checkpoint = check]
  <2>1. run' = [run EXCEPT ![r] = p]
    BY <1>4 DEF FindChanges, Local
  <2>2. old.since \in Int /\ old.watermark \in Dates /\ old.watermark \in Int
    BY <1>0 DEF Process, Dates
  <2>3. jobs \in SUBSET Job /\ \A j \in jobs : j.observedAt <= old.watermark
    BY <2>2, GroupByItemType DEF TypeInv
  <2>4. \A j \in jobs : j.observedAt <= clock - Lag
    <3>1. old.watermark <= clock - Lag /\ clock - Lag \in Int
      BY <1>0, DispatcherAssumption DEF Lagging, TypeInv, TypeOK
    <3>2. \A j \in jobs : j.observedAt \in Int
      BY <2>3 DEF Job, Dates
    <3> HIDE DEF jobs
    <3> QED
      BY <2>2, <2>3, <3>1, <3>2
  <2>5. check \in Dates \cup {None} /\ (check # None => check <= clock - Lag)
    BY <1>0, <2>2 DEF Lagging
  <2>6. p \in Process /\ Coherent(p) /\ Lagging(p)
    <3> HIDE DEF jobs, check
    <3> QED
      BY <1>0, <1>4, <2>3, <2>4, <2>5
      DEF FindChanges, At, Process, Labels, Coherent, Lagging
  <2> QED
    BY <2>1, <2>6
<1>5. CASE SkipJob(r)
  <2>1. PICK job \in NextJobs(r) : run' = [run EXCEPT ![r] = AfterJob(old, job, TRUE)]
    BY <1>5 DEF SkipJob
  <2>2. job \in old.todo /\ old.pc = "jobs"
    BY <1>5 DEF NextJobs, SkipJob, At
  <2>3. Sound(AfterJob(old, job, TRUE))
    BY <1>0, <2>2, AfterJobSound
  <2> QED
    BY <2>1, <2>3
<1>6. CASE FindTokens(r)
  <2>1. PICK job \in NextJobs(r) :
          run' = [run EXCEPT ![r].pc = "users", ![r].job = job,
                             ![r].targets = FindTokensForFavorite(job.item)]
    BY <1>6 DEF FindTokens
  <2> DEFINE p == [old EXCEPT !.pc = "users", !.job = job,
                              !.targets = FindTokensForFavorite(job.item)]
  <2>2. job \in old.todo /\ old.pc = "jobs"
    BY <1>6 DEF NextJobs, FindTokens, At
  <2>3. FindTokensForFavorite(job.item) \in SUBSET (Users \X Tokens)
    <3>1. \A d \in devices : d.user \in Users /\ d.token \in Tokens
      BY DEF TypeInv, TypeOK
    <3>2. \A d \in devices : <<d.user, d.token>> \in Users \X Tokens
      BY <3>1
    <3> QED
      BY <3>2 DEF FindTokensForFavorite
  <2>4. p \in Process /\ Coherent(p) /\ Lagging(p)
    BY <1>0, <2>2, <2>3 DEF Process, Labels, Coherent, Lagging
  <2>5. run' = [run EXCEPT ![r] = p]
    BY <2>1
  <2> QED
    BY <2>4, <2>5
<1>7. CASE EndSchedule(r)
  <2> DEFINE p == [old EXCEPT
                     !.pc = IF old.blocked THEN "reminders" ELSE "advance",
                     !.checkpoint = IF old.checkpoint = None THEN old.watermark
                                    ELSE old.checkpoint]
  <2>1. run' = [run EXCEPT ![r] = p]
    BY <1>7 DEF EndSchedule, Local
  <2>2. p \in Process /\ Coherent(p) /\ Lagging(p)
    BY <1>0, <1>7 DEF EndSchedule, At, Process, Labels, Coherent, Lagging
  <2> QED
    BY <2>1, <2>2
<1>8. CASE AdvanceCursor(r)
  <2> DEFINE p == [old EXCEPT !.pc = "reminders"]
  <2>1. run' = [run EXCEPT ![r] = p]
    BY <1>8 DEF AdvanceCursor
  <2>2. p \in Process /\ Coherent(p) /\ Lagging(p)
    BY <1>0, <1>8 DEF AdvanceCursor, At, Process, Labels, Coherent, Lagging
  <2> QED
    BY <2>1, <2>2
<1>9. CASE FindReminders(r)
  <2> DEFINE jobs == ReminderJobs(old.startedAt)
             p == [Idle EXCEPT !.pc = "jobs", !.phase = "reminder",
                               !.startedAt = old.startedAt, !.todo = jobs]
  <2>1. run' = [run EXCEPT ![r] = p]
    BY <1>9 DEF FindReminders, Local
  <2>2. old.startedAt \in Int
    BY <1>0 DEF Process
  <2>3. jobs \in SUBSET Job /\ \A j \in jobs : j.observedAt = 0
    BY <2>2, ReminderJobsType DEF TypeInv
  <2>4. 0 <= clock - Lag
    BY DispatcherAssumption DEF TypeInv, TypeOK, LagInv, CursorLags
  <2>5. p \in Process /\ Coherent(p) /\ Lagging(p)
    <3> HIDE DEF jobs
    <3> QED
      BY <2>2, <2>3, <2>4, ZeroIsDate, DispatcherAssumption
      DEF Process, Idle, Labels, NoJob, Coherent, Lagging
  <2> QED
    BY <2>1, <2>5
<1>10. CASE EndRun(r) \/ Crash(r) \/ AbortRun(r) \/ \E u \in Users : ClaimFails(r, u)
  <2>1. run' = [run EXCEPT ![r] = Idle]
    BY <1>10 DEF EndRun, Crash, AbortRun, ClaimFails, Local
  <2> QED
    BY <2>1, IdleSound
<1>11. CASE DeliverReturns(r)
  <2>1. run' = [run EXCEPT ![r] = AfterJob(old, old.job, old.allDelivered)]
    BY <1>11 DEF DeliverReturns, Local
  <2>2. old.pc = "users" /\ old.job \in old.todo /\ old.allDelivered \in BOOLEAN
    BY <1>0, <1>11 DEF DeliverReturns, At, Coherent, Process
  <2>3. Sound(AfterJob(old, old.job, old.allDelivered))
    BY <1>0, <2>2, AfterJobSound
  <2> QED
    BY <2>1, <2>3
<1>12. CASE FinishUser(r)
  <2> DEFINE p == [old EXCEPT !.pc = "users", !.user = None, !.anySent = FALSE,
                              !.allDelivered = old.allDelivered /\ old.anySent]
  <2>1. run' = [run EXCEPT ![r] = p]
    BY <1>12 DEF FinishUser
  <2>2. p \in Process /\ Coherent(p) /\ Lagging(p)
    BY <1>0, <1>12 DEF FinishUser, At, Process, Labels, Coherent, Lagging
  <2> QED
    BY <2>1, <2>2
<1>13. CASE SendThrows(r)
  <2> DEFINE p == [old EXCEPT !.pc = "abort"]
  <2>1. run' = [run EXCEPT ![r] = p]
    BY <1>13 DEF SendThrows, Local
  <2>2. p \in Process /\ Coherent(p) /\ Lagging(p)
    BY <1>0, <1>13 DEF SendThrows, At, Process, Labels, Coherent, Lagging
  <2> QED
    BY <2>1, <2>2
<1>14. ASSUME NEW u \in Users, Deduplicate(r, u)
       PROVE  \E p : Sound(p) /\ run' = [run EXCEPT ![r] = p]
  <2> DEFINE p == [old EXCEPT !.targets = WithoutUser(old.targets, u)]
  <2>1. run' = [run EXCEPT ![r] = p]
    BY <1>14 DEF Deduplicate, Local
  <2>2. p \in Process /\ Coherent(p) /\ Lagging(p)
    BY <1>0, <1>14 DEF Deduplicate, WithoutUser, At, Process, Coherent, Lagging
  <2> QED
    BY <2>1, <2>2
<1>15. ASSUME NEW u \in Users, ClaimDelivery(r, u)
       PROVE  \E p : Sound(p) /\ run' = [run EXCEPT ![r] = p]
  <2> DEFINE p == [old EXCEPT !.pc = "send", !.user = u, !.anySent = FALSE]
  <2>1. run' = [run EXCEPT ![r] = p]
    BY <1>15 DEF ClaimDelivery
  <2>2. p \in Process /\ Coherent(p) /\ Lagging(p)
    BY <1>0, <1>15, DispatcherAssumption
    DEF ClaimDelivery, At, Process, Labels, Coherent, Lagging
  <2> QED
    BY <2>1, <2>2
<1>16. ASSUME NEW t \in Tokens,
              SendAccepted(r, t) \/ SendFailed(r, t) \/ SendUnregistered(r, t)
       PROVE  \E p : Sound(p) /\ run' = [run EXCEPT ![r] = p]
  <2> DEFINE left == old.targets \ {<<old.user, t>>}
             accepted == [old EXCEPT !.anySent = TRUE, !.targets = left]
             failed == [old EXCEPT !.allDelivered = FALSE, !.targets = left]
             dead == [old EXCEPT !.targets = left]
  <2>1. \/ run' = [run EXCEPT ![r] = accepted]
        \/ run' = [run EXCEPT ![r] = failed]
        \/ run' = [run EXCEPT ![r] = dead]
    BY <1>16 DEF SendAccepted, SendFailed, SendUnregistered, Local
  <2>2. accepted \in Process /\ Coherent(accepted) /\ Lagging(accepted)
    BY <1>0 DEF Process, Coherent, Lagging
  <2>3. failed \in Process /\ Coherent(failed) /\ Lagging(failed)
    BY <1>0 DEF Process, Coherent, Lagging
  <2>4. dead \in Process /\ Coherent(dead) /\ Lagging(dead)
    BY <1>0 DEF Process, Coherent, Lagging
  <2> HIDE DEF accepted, failed, dead
  <2> QED
    BY <2>1, <2>2, <2>3, <2>4
<1> QED
  BY <1>1, <1>2, <1>3, <1>4, <1>5, <1>6, <1>7, <1>8, <1>9, <1>10, <1>11, <1>12,
     <1>13, <1>14, <1>15, <1>16 DEF RunStep

-----------------------------------------------------------------------------

LEMMA NextIsFeedStep ==
  ASSUME [Next]_vars PROVE FeedNext \/ UNCHANGED feedVars
<1>1. CASE CommitFeed \/ OtherFeed
  BY <1>1 DEF CommitFeed, OtherFeed, FeedNext
<1>2. CASE UserStep
  BY <1>2 DEF UserStep, UserCall, AddFavorite, RemoveFavorite, RegisterDevice,
              UnregisterDevice, DeleteUser
<1>3. ASSUME NEW r \in Runs, RunStep(r) \/ Crash(r) PROVE UNCHANGED feedVars
  BY <1>3 DEF RunStep, Local, StartRun, ReadNoCursor, ReadCursor, FindChanges, SkipJob,
     FindTokens, EndSchedule, AdvanceCursor, FindReminders, EndRun, DeliverReturns,
     FinishUser, AbortRun, SendThrows, Deduplicate, ClaimDelivery, ClaimFails,
     SendAccepted, SendFailed, SendUnregistered, Crash
<1>4. CASE UNCHANGED vars
  BY <1>4 DEF vars, feedVars
<1> QED
  BY <1>1, <1>2, <1>3, <1>4 DEF Next

\* What a step of a process may do to the tables.
LEMMA ProcessWrites ==
  ASSUME TypeInv, NEW r \in Runs, RunStep(r) \/ Crash(r)
  PROVE  /\ UNCHANGED <<clock, accounts, favorites, edits>>
         /\ devices' \subseteq devices /\ owed' \subseteq owed
         /\ \/ cursor' = cursor
            \/ cursor' = run[r].checkpoint
         /\ \/ ledger' \subseteq ledger
            \/ \E u \in Users : ClaimDelivery(r, u)
         /\ \/ acked' = acked
            \/ \E t \in Tokens : SendAccepted(r, t)
         /\ crashes' \in Nat
<1>0. crashes \in Nat
  BY DEF TypeInv, TypeOK
<1> USE DEF feedVars, userVars, bounds
<1>1. CASE ReadNoCursor(r) \/ SkipJob(r) \/ FindTokens(r)
  BY <1>0, <1>1 DEF ReadNoCursor, SkipJob, FindTokens
<1>2. CASE AdvanceCursor(r)
  BY <1>0, <1>2 DEF AdvanceCursor
<1>3. CASE FinishUser(r) \/ AbortRun(r)
  BY <1>0, <1>3 DEF FinishUser, AbortRun, ReleaseUnlessSent
<1>4. CASE Crash(r)
  BY <1>0, <1>4 DEF Crash
<1>5. ASSUME NEW u \in Users, ClaimDelivery(r, u)
      PROVE  /\ UNCHANGED <<clock, accounts, favorites, edits>>
             /\ UNCHANGED <<devices, owed, cursor, acked, crashes>>
  BY <1>5 DEF ClaimDelivery
<1>6. ASSUME NEW t \in Tokens, SendAccepted(r, t)
      PROVE  /\ UNCHANGED <<clock, accounts, favorites, edits>>
             /\ UNCHANGED <<devices, ledger, cursor, crashes>>
             /\ owed' \subseteq owed
  BY <1>6 DEF SendAccepted
<1>7. ASSUME NEW t \in Tokens, SendUnregistered(r, t)
      PROVE  /\ UNCHANGED <<clock, accounts, favorites, edits>>
             /\ UNCHANGED <<owed, ledger, cursor, acked, crashes>>
             /\ devices' \subseteq devices
  BY <1>7 DEF SendUnregistered
<1>8. ASSUME NEW state, Local(r, state)
      PROVE  UNCHANGED <<clock, accounts, favorites, edits, devices, owed, ledger,
                         cursor, acked, crashes>>
  BY <1>8 DEF Local
<1> QED
  BY <1>0, <1>1, <1>2, <1>3, <1>4, <1>5, <1>6, <1>7, <1>8
  DEF RunStep, StartRun, ReadCursor, FindChanges, EndSchedule, FindReminders,
      EndRun, DeliverReturns, SendThrows, Deduplicate, ClaimFails, SendFailed

DevicesOK ==
  /\ devices \subseteq [token : Tokens, user : accounts, seen : Int]
  /\ \A d, e \in devices : d.token = e.token => d = e

AccountsOK ==
  /\ accounts \subseteq Users /\ favorites \subseteq accounts \X Items
  /\ ledger \subseteq accounts \X Keys
  /\ owed \subseteq accounts \X (1 .. MaxRows)

LEMMA RegisterDeviceOK ==
  ASSUME TypeInv, NEW u \in Users, NEW t \in Tokens, RegisterDevice(u, t)
  PROVE  DevicesOK'
<1> DEFINE new == [token |-> t, user |-> u, seen |-> edits + 1]
           table == UpsertDeviceToken(u, t)
<1>0. DevicesOK /\ edits \in Nat
  BY DEF TypeInv, TypeOK, DevicesOK
<1>1. u \in accounts /\ accounts' = accounts /\ devices' = PruneDeviceTokens(table, u)
  BY DEF RegisterDevice
<1>2. new \in [token : Tokens, user : accounts, seen : Int]
  BY <1>0, <1>1
<1>3. /\ table \subseteq [token : Tokens, user : accounts, seen : Int]
      /\ \A d, e \in table : d.token = e.token => d = e
  <2>1. CASE \E d \in devices : d.token = t /\ d.user # u
    BY <1>0, <2>1 DEF UpsertDeviceToken, DevicesOK
  <2>2. CASE ~ \E d \in devices : d.token = t /\ d.user # u
    <3>1. table = {d \in devices : d.token # t} \cup {new}
      BY <2>2 DEF UpsertDeviceToken
    <3>2. new.token = t
      OBVIOUS
    <3> HIDE DEF new, table
    <3> QED
      BY <1>0, <1>2, <3>1, <3>2 DEF DevicesOK
  <2> QED
    BY <2>1, <2>2
<1>4. devices' \subseteq table
  BY <1>1 DEF PruneDeviceTokens
<1> HIDE DEF table
<1> QED
  BY <1>1, <1>3, <1>4 DEF DevicesOK

LEMMA TypeStep == ASSUME TypeInv, [Next]_vars PROVE TypeInv'
<1>0. TypeOK /\ FeedInv /\ LagInv /\ DevicesOK
  BY DEF TypeInv, TypeOK, DevicesOK
<1>1. FeedInv'
  BY <1>0, NextIsFeedStep, FeedStep_FeedInv
<1>2. clock' \in Nat /\ rows' \subseteq Row
      /\ page' \in [open : BOOLEAN, start : Nat, rows : SUBSET Row]
  BY <1>1 DEF FeedInv, FeedTypeOK
<1>3. ASSUME NEW r \in Runs, RunStep(r) \/ Crash(r) PROVE TypeInv'
  <2>1. PICK p : Sound(p) /\ run' = [run EXCEPT ![r] = p]
    BY <1>3, ProcessStep
  <2>2. /\ UNCHANGED <<clock, accounts, favorites, edits>>
        /\ devices' \subseteq devices /\ owed' \subseteq owed
        /\ cursor' = cursor \/ cursor' = run[r].checkpoint
        /\ crashes' \in Nat
    BY <1>3, ProcessWrites
  <2>3. /\ run' \in [Runs -> Process]
        /\ \A q \in Runs : Coherent(run'[q]) /\ Lagging(run'[q])
    BY <1>0, <2>1 DEF TypeOK, LagInv, Sound
  <2>4. LagInv'
    BY <1>0, <2>2, <2>3 DEF LagInv, CursorLags, Lagging
  <2>5. cursor' \in Dates \cup {None}
    BY <1>0, <2>2 DEF TypeOK, Process
  <2>6. ledger' \subseteq accounts \X Keys
    <3>1. ASSUME NEW u \in Users, ClaimDelivery(r, u) PROVE ledger' \subseteq accounts \X Keys
      <4>1. run[r].job \in Job /\ u \in accounts
        BY <1>0, <3>1 DEF ClaimDelivery, At, TypeOK, Coherent, Process
      <4>2. run[r].job.key \in Keys
        BY <4>1 DEF Job
      <4> QED
        BY <1>0, <3>1, <4>1, <4>2 DEF ClaimDelivery, TypeOK
    <3> QED
      BY <1>0, <1>3, <3>1, ProcessWrites DEF TypeOK
  <2>7. acked' \subseteq [user : Users, token : Tokens, key : Keys,
                          ids : SUBSET (1 .. MaxRows)]
    <3>1. ASSUME NEW t \in Tokens, SendAccepted(r, t)
          PROVE  acked' \subseteq [user : Users, token : Tokens, key : Keys,
                                   ids : SUBSET (1 .. MaxRows)]
      <4>1. run[r].job \in Job /\ run[r].user \in Users
        BY <1>0, <3>1 DEF SendAccepted, At, TypeOK, Coherent, Process
      <4>2. run[r].job.key \in Keys /\ run[r].job.ids \in SUBSET (1 .. MaxRows)
        BY <4>1 DEF Job
      <4> QED
        BY <1>0, <3>1, <4>1, <4>2 DEF SendAccepted, TypeOK
    <3> QED
      BY <1>0, <1>3, <3>1, ProcessWrites DEF TypeOK
  <2>8. DevicesOK' /\ owed' \subseteq accounts \X (1 .. MaxRows)
    BY <1>0, <2>2 DEF DevicesOK, TypeOK
  <2>9. /\ accounts' \subseteq Users /\ favorites' \subseteq accounts' \X Items
        /\ edits' \in Nat
    BY <1>0, <2>2 DEF TypeOK
  <2> QED
    BY <1>1, <1>2, <2>2, <2>3, <2>4, <2>5, <2>6, <2>7, <2>8, <2>9
    DEF TypeInv, TypeOK, DevicesOK
<1>4. CASE UserStep
  <2>1. UNCHANGED <<clock, rows, page, cursor, run, acked, crashes>> /\ edits' = edits + 1
    BY <1>4 DEF UserStep, UserCall, AddFavorite, RemoveFavorite, RegisterDevice,
                UnregisterDevice, DeleteUser, feedVars
  <2>2. LagInv'
    BY <1>0, <2>1 DEF LagInv, CursorLags, Lagging
  <2>3. DevicesOK' /\ AccountsOK'
    <3>0. AccountsOK
      BY <1>0 DEF TypeOK, AccountsOK
    <3>1. ASSUME NEW u \in Users, NEW i \in Items, AddFavorite(u, i) \/ RemoveFavorite(u, i)
          PROVE  DevicesOK' /\ AccountsOK'
      BY <1>0, <3>0, <3>1 DEF AddFavorite, RemoveFavorite, DevicesOK, AccountsOK
    <3>2. ASSUME NEW u \in Users, NEW t \in Tokens, RegisterDevice(u, t)
          PROVE  DevicesOK' /\ AccountsOK'
      <4>1. AccountsOK'
        BY <3>0, <3>2 DEF RegisterDevice, AccountsOK
      <4> QED
        BY <3>2, <4>1, RegisterDeviceOK
    <3>3. ASSUME NEW u \in Users, NEW t \in Tokens, UnregisterDevice(u, t)
          PROVE  DevicesOK' /\ AccountsOK'
      BY <1>0, <3>0, <3>3 DEF UnregisterDevice, DevicesOK, AccountsOK
    <3>4. ASSUME NEW u \in Users, DeleteUser(u) PROVE DevicesOK' /\ AccountsOK'
      <4>1. DevicesOK'
        BY <1>0, <3>4 DEF DeleteUser, DevicesOK
      <4>2. AccountsOK'
        BY <3>0, <3>4 DEF DeleteUser, AccountsOK
      <4> QED
        BY <4>1, <4>2
    <3> QED
      BY <1>4, <3>1, <3>2, <3>3, <3>4 DEF UserStep
  <2> QED
    BY <1>0, <1>1, <1>2, <2>1, <2>2, <2>3 DEF TypeInv, TypeOK, DevicesOK, AccountsOK
<1>5. CASE CommitFeed
  <2>1. /\ UNCHANGED <<clock, accounts, favorites, devices, ledger, cursor, run, acked>>
        /\ UNCHANGED <<edits, crashes>>
    BY <1>5 DEF CommitFeed, CommitPage, userVars, bounds
  <2>2. owed' \subseteq accounts \X (1 .. MaxRows)
    <3>1. \A s \in page.rows : s.id \in 1 .. MaxRows
      BY <1>0 DEF TypeOK, Row
    <3>2. \A u, i : <<u, i>> \in favorites => u \in accounts
      BY <1>0 DEF TypeOK
    <3> QED
      BY <1>0, <1>5, <3>1, <3>2 DEF CommitFeed, TypeOK
  <2>3. LagInv'
    BY <1>0, <2>1 DEF LagInv, CursorLags, Lagging
  <2> QED
    BY <1>0, <1>1, <1>2, <2>1, <2>2, <2>3 DEF TypeInv, TypeOK
<1>6. CASE OtherFeed \/ UNCHANGED vars
  <2>1. /\ UNCHANGED <<accounts, favorites, devices, ledger, cursor, run, acked, owed>>
        /\ UNCHANGED <<edits, crashes>>
    BY <1>6 DEF OtherFeed, vars, userVars, bounds
  <2>2. clock' >= clock
    BY <1>0, <1>6 DEF OtherFeed, vars, BeginPage, AbortPage, Tick, InsertScheduleSnapshot,
                      TypeOK
  <2>3. LagInv'
    <3>1. \A t \in Dates \cup {None} : t # None => t \in Int
      BY DEF Dates
    <3>2. clock \in Nat /\ clock' \in Nat /\ Lag \in Nat
      BY <1>0, <1>2, DispatcherAssumption DEF TypeOK
    <3>3. CursorLags'
      BY <1>0, <2>1, <2>2, <3>1, <3>2 DEF LagInv, CursorLags, TypeOK
    <3>4. ASSUME NEW r \in Runs PROVE Lagging(run[r])'
      <4>1. /\ run[r].watermark \in Int /\ run[r].checkpoint \in Dates \cup {None}
            /\ \A j \in run[r].todo : j.observedAt \in Int
        BY <1>0 DEF TypeOK, Process, Job, Dates
      <4> QED
        BY <1>0, <2>1, <2>2, <3>1, <3>2, <4>1 DEF LagInv, Lagging
    <3> QED
      BY <3>3, <3>4 DEF LagInv
  <2> QED
    BY <1>0, <1>1, <1>2, <2>1, <2>3 DEF TypeInv, TypeOK
<1> QED
  BY <1>3, <1>4, <1>5, <1>6 DEF Next

LEMMA TypeInit == ASSUME Init PROVE TypeInv
<1>1. FeedInv
  BY FeedInit_FeedInv, DispatcherAssumption DEF Init
<1>2. clock = Lag
  BY DEF Init, FeedInit
<1>3. Idle \in Process /\ Coherent(Idle)
  BY ZeroIsDate DEF Idle, NoJob, Process, Labels, Coherent
<1>4. LagInv
  BY <1>2, DispatcherAssumption DEF Init, LagInv, CursorLags, Lagging, Idle
<1>5. TypeOK
  BY <1>1, <1>3, DispatcherAssumption DEF Init, TypeOK, FeedInv, FeedTypeOK
<1> QED
  BY <1>1, <1>4, <1>5 DEF TypeInv

LEMMA TypeAlways == Spec => []TypeInv
<1>1. TypeInv /\ [Next]_vars => TypeInv'
  BY TypeStep
<1> QED
  BY TypeInit, <1>1, PTL DEF Spec

(* The type invariant: among it, that cursor and checkpoints are times a   *)
(* JavaScript Date can hold, and that a process holds a user exactly while *)
(* it delivers a job it still has to do.                                   *)
THEOREM TypeCorrect == Spec => []TypeOK
<1>1. TypeInv => TypeOK
  BY DEF TypeInv
<1> QED
  BY <1>1, TypeAlways, PTL

(* The lag: whatever the batch limit, the number of processes and the      *)
(* failures, no row ever becomes visible at or behind the cursor, because  *)
(* the collector's transactions are shorter than the lag.                  *)
THEOREM LagSuffices == Spec => []CommitsAheadOfCursor
<1>1. TypeInv => CommitsAheadOfCursor
  <2> SUFFICES ASSUME TypeInv, page.open, cursor # None PROVE cursor < page.start
    BY DEF CommitsAheadOfCursor
  <2>1. cursor \in Int /\ clock \in Nat /\ page.start \in Nat
    BY DEF TypeInv, TypeOK, Dates
  <2>2. cursor <= clock - Lag /\ clock - page.start <= MaxTxn
    BY DEF TypeInv, LagInv, CursorLags, FeedInv, PageIsYoung
  <2> QED
    BY <2>1, <2>2, DispatcherAssumption, FeedAssumption
<1> QED
  BY <1>1, TypeAlways, PTL

-----------------------------------------------------------------------------
\* Deliveries

Holds(r) == run[r].user # None

Others(r) == \A s \in Runs \ {r} : run'[s] = run[s]

\* The steps of deliver(), by what they do to the pair the process holds.
Keeps(r) ==
  /\ run'[r].user = run[r].user /\ run'[r].job = run[r].job
  /\ run'[r].anySent = run[r].anySent /\ run'[r].targets \subseteq run[r].targets
  /\ UNCHANGED <<ledger, acked>>

Ends(r) ==
  /\ run'[r].user = None
  /\ \/ ledger' = ledger
     \/ Holds(r) /\ ~run[r].anySent /\ ledger' = ledger \ {Pair(r)}
  /\ UNCHANGED acked

LEMMA StepKinds ==
  ASSUME TypeInv, NEW r \in Runs, RunStep(r) \/ Crash(r)
  PROVE  /\ Others(r) /\ accounts' = accounts
         /\ \/ Keeps(r)
            \/ Ends(r)
            \/ \E u \in Users : ClaimDelivery(r, u)
            \/ \E t \in Tokens : SendAccepted(r, t)
<1> DEFINE old == run[r]
<1>0. old \in Process /\ Coherent(old) /\ run \in [Runs -> Process]
  BY DEF TypeInv, TypeOK
<1>1. accounts' = accounts
  BY ProcessWrites
<1>2. PICK p \in Process : run' = [run EXCEPT ![r] = p]
  BY ProcessStep DEF Sound
<1>3. Others(r) /\ run'[r] = p
  BY <1>0, <1>2 DEF Others
<1>4. old.user = None <=> old.pc \notin {"send", "abort"}
  BY <1>0 DEF Coherent
<1> DEFINE Stays == UNCHANGED <<ledger, acked>>
<1>5. ASSUME NEW state, state.user = None, Stays,
             run' = [run EXCEPT ![r] = state]
      PROVE  Ends(r)
  BY <1>0, <1>5 DEF Ends
<1>6. CASE \/ StartRun(r) \/ FindReminders(r) \/ EndRun(r) \/ Crash(r)
            \/ \E u \in Users : ClaimFails(r, u)
  <2>1. CASE StartRun(r)
    BY <1>1, <1>3, <1>5, <2>1 DEF StartRun, Local, Idle
  <2>2. CASE FindReminders(r)
    BY <1>1, <1>3, <1>5, <2>2 DEF FindReminders, Local, Idle
  <2>3. CASE EndRun(r) \/ Crash(r) \/ \E u \in Users : ClaimFails(r, u)
    <3>1. Stays /\ run' = [run EXCEPT ![r] = Idle]
      BY <2>3 DEF EndRun, Crash, ClaimFails, Local
    <3> QED
      BY <1>1, <1>3, <1>5, <3>1 DEF Idle
  <2> QED
    BY <1>6, <2>1, <2>2, <2>3
<1>7. CASE AbortRun(r)
  <2>1. run'[r].user = None /\ Holds(r)
    BY <1>0, <1>4, <1>7 DEF AbortRun, Idle, At, Holds
  <2> QED
    BY <1>1, <1>3, <1>7, <2>1 DEF Ends, AbortRun, ReleaseUnlessSent
<1>8. CASE FinishUser(r)
  <2>1. run'[r].user = None /\ Holds(r)
    BY <1>0, <1>4, <1>8 DEF FinishUser, At, Holds, Process
  <2> QED
    BY <1>1, <1>3, <1>8, <2>1 DEF Ends, FinishUser, ReleaseUnlessSent
<1>9. CASE \/ ReadNoCursor(r) \/ ReadCursor(r) \/ FindChanges(r)
           \/ EndSchedule(r) \/ AdvanceCursor(r)
  <2>1. old.user = None /\ Stays
    BY <1>4, <1>9 DEF ReadNoCursor, ReadCursor, FindChanges, EndSchedule,
       AdvanceCursor, Local, At
  <2>2. run'[r].user = old.user
    <3>1. CASE ReadNoCursor(r)
      BY <1>0, <3>1 DEF ReadNoCursor, Process
    <3>2. CASE ReadCursor(r)
      BY <1>0, <3>2 DEF ReadCursor, Local, Process
    <3>3. CASE FindChanges(r)
      BY <1>0, <3>3 DEF FindChanges, Local, Process
    <3>4. CASE EndSchedule(r)
      BY <1>0, <3>4 DEF EndSchedule, Local, Process
    <3>5. CASE AdvanceCursor(r)
      BY <1>0, <3>5 DEF AdvanceCursor, Process
    <3> QED
      BY <1>9, <3>1, <3>2, <3>3, <3>4, <3>5
  <2> QED
    BY <1>1, <1>3, <2>1, <2>2 DEF Ends
<1>10. CASE SkipJob(r) \/ FindTokens(r) \/ DeliverReturns(r)
           \/ \E u \in Users : Deduplicate(r, u)
  <2>1. old.user = None /\ Stays
    BY <1>4, <1>10 DEF SkipJob, FindTokens, DeliverReturns, Deduplicate, Local, At
  <2>2. run'[r].user = old.user
    <3>1. CASE SkipJob(r)
      <4>1. PICK job : run' = [run EXCEPT ![r] = AfterJob(old, job, TRUE)]
        BY <3>1 DEF SkipJob
      <4> QED
        BY <1>0, <4>1 DEF AfterJob, Process
    <3>2. CASE FindTokens(r)
      <4>1. PICK job : run' = [run EXCEPT ![r].pc = "users", ![r].job = job,
                                         ![r].targets = FindTokensForFavorite(job.item)]
        BY <3>2 DEF FindTokens
      <4> QED
        BY <1>0, <4>1 DEF Process
    <3>3. CASE DeliverReturns(r)
      BY <1>0, <3>3 DEF DeliverReturns, Local, AfterJob, Process
    <3>4. ASSUME NEW u \in Users, Deduplicate(r, u) PROVE run'[r].user = old.user
      BY <1>0, <3>4 DEF Deduplicate, Local, Process
    <3> QED
      BY <1>10, <3>1, <3>2, <3>3, <3>4
  <2> QED
    BY <1>1, <1>3, <2>1, <2>2 DEF Ends
<1>11. CASE SendThrows(r)
  <2>1. run' = [run EXCEPT ![r] = [old EXCEPT !.pc = "abort"]] /\ Stays
    BY <1>11 DEF SendThrows, Local
  <2> QED
    BY <1>0, <1>1, <1>3, <2>1 DEF Keeps, Process
<1>12. ASSUME NEW t \in Tokens, SendFailed(r, t) \/ SendUnregistered(r, t)
       PROVE  Keeps(r)
  <2> DEFINE left == old.targets \ {<<old.user, t>>}
  <2>1. Stays
    BY <1>12 DEF SendFailed, SendUnregistered, Local
  <2>2. CASE SendFailed(r, t)
    <3>1. run' = [run EXCEPT ![r] = [old EXCEPT !.allDelivered = FALSE, !.targets = left]]
      BY <2>2 DEF SendFailed, Local
    <3> QED
      BY <1>0, <2>1, <3>1 DEF Keeps, Process
  <2>3. CASE SendUnregistered(r, t)
    <3>1. run' = [run EXCEPT ![r] = [old EXCEPT !.targets = left]]
      BY <2>3 DEF SendUnregistered
    <3> QED
      BY <1>0, <2>1, <3>1 DEF Keeps, Process
  <2> QED
    BY <1>12, <2>2, <2>3
<1> QED
  BY <1>1, <1>3, <1>6, <1>7, <1>8, <1>9, <1>10, <1>11, <1>12 DEF RunStep

-----------------------------------------------------------------------------

PairOf(a) == <<a.user, a.key>>

(* The pair of a process has its row while the account exists ...          *)
HolderHasRow == \A r \in Runs : Holds(r) /\ run[r].user \in accounts => Pair(r) \in ledger

(* ... no other process holds it ...                                       *)
HoldersDiffer ==
  \A r, s \in Runs : r # s /\ Holds(r) /\ Holds(s) => Pair(r) # Pair(s)

(* ... an accepted push has its row as well ...                            *)
AckHasRow == \A a \in acked : a.user \in accounts => PairOf(a) \in ledger

(* ... and a process gives back only a row nothing was pushed for.         *)
UnsentNotAcked ==
  \A r \in Runs : Holds(r) /\ ~run[r].anySent => \A a \in acked : PairOf(a) # Pair(r)

PendingNotAcked ==
  \A r \in Runs : Holds(r) =>
    \A a \in acked : PairOf(a) = Pair(r) => a.token \notin TokensLeft(r)

PushInv == /\ HolderHasRow /\ HoldersDiffer /\ AckHasRow
           /\ UnsentNotAcked /\ PendingNotAcked

LEMMA PushStep == ASSUME TypeInv, PushInv, [Next]_vars PROVE PushInv'
<1> USE DEF PushInv, HolderHasRow, HoldersDiffer, AckHasRow, UnsentNotAcked, PendingNotAcked
<1>1. ASSUME NEW r \in Runs, Others(r), accounts' = accounts, Keeps(r) PROVE PushInv'
  <2>1. \A s \in Runs : /\ Holds(s)' = Holds(s) /\ Pair(s)' = Pair(s)
                        /\ run'[s].user = run[s].user
                        /\ run'[s].anySent = run[s].anySent
                        /\ TokensLeft(s)' \subseteq TokensLeft(s)
    BY <1>1 DEF Others, Keeps, Holds, Pair, TokensLeft
  <2> QED
    BY <1>1, <2>1 DEF Keeps
<1>2. ASSUME NEW r \in Runs, Others(r), accounts' = accounts, Ends(r) PROVE PushInv'
  <2>1. /\ ~Holds(r)'
        /\ \A s \in Runs \ {r} : /\ Holds(s)' = Holds(s) /\ Pair(s)' = Pair(s)
                                 /\ run'[s].user = run[s].user
                                 /\ run'[s].anySent = run[s].anySent
                                 /\ TokensLeft(s)' = TokensLeft(s)
    BY <1>2 DEF Others, Ends, Holds, Pair, TokensLeft
  <2>2. \A x \in ledger : x \in ledger' \/ (x = Pair(r) /\ Holds(r) /\ ~run[r].anySent)
    BY <1>2 DEF Ends
  <2> QED
    BY <1>2, <2>1, <2>2 DEF Ends
<1>3. ASSUME NEW r \in Runs, Others(r), accounts' = accounts,
             NEW u \in Users, ClaimDelivery(r, u)
      PROVE  PushInv'
  <2>1. /\ u \in accounts /\ <<u, run[r].job.key>> \notin ledger
        /\ ledger' = ledger \cup {<<u, run[r].job.key>>} /\ acked' = acked
    BY <1>3 DEF ClaimDelivery
  <2>2. run'[r].user = u /\ run'[r].job = run[r].job
    BY <1>3 DEF ClaimDelivery, TypeInv, TypeOK, Process
  <2>3. Pair(r)' = <<u, run[r].job.key>>
    BY <2>2 DEF Pair
  <2>4. \A s \in Runs \ {r} : /\ Holds(s)' = Holds(s) /\ Pair(s)' = Pair(s)
                               /\ run'[s].user = run[s].user
                               /\ run'[s].anySent = run[s].anySent
                               /\ TokensLeft(s)' = TokensLeft(s)
    BY <1>3 DEF Others, Holds, Pair, TokensLeft
  <2>5. \A s \in Runs \ {r} : Holds(s) => Pair(s) # <<u, run[r].job.key>>
    BY <2>1 DEF Pair
  <2>6. \A a \in acked : PairOf(a) # <<u, run[r].job.key>>
    BY <2>1 DEF PairOf
  <2> QED
    BY <1>3, <2>1, <2>2, <2>3, <2>4, <2>5, <2>6
<1>4. ASSUME NEW r \in Runs, Others(r), accounts' = accounts,
             NEW t \in Tokens, SendAccepted(r, t)
      PROVE  PushInv'
  <2> DEFINE new == [user |-> run[r].user, token |-> t,
                     key |-> run[r].job.key, ids |-> run[r].job.ids]
  <2>1. Holds(r) /\ acked' = acked \cup {new} /\ ledger' = ledger
    BY <1>4 DEF SendAccepted, At, TypeInv, TypeOK, Coherent, Holds
  <2>2. /\ run'[r].user = run[r].user /\ run'[r].job = run[r].job /\ run'[r].anySent
        /\ run'[r].targets = run[r].targets \ {<<run[r].user, t>>}
    BY <1>4 DEF SendAccepted, TypeInv, TypeOK, Process
  <2>3. \A s \in Runs : /\ Holds(s)' = Holds(s) /\ Pair(s)' = Pair(s)
                        /\ run'[s].user = run[s].user
                        /\ s # r => /\ run'[s].anySent = run[s].anySent
                                    /\ TokensLeft(s)' = TokensLeft(s)
    BY <1>4, <2>2 DEF Others, Holds, Pair, TokensLeft
  <2>4. TokensLeft(r)' \subseteq TokensLeft(r) \ {t}
    <3>1. run[r].targets \subseteq Users \X Tokens
      BY DEF TypeInv, TypeOK, Process
    <3> QED
      BY <2>2, <3>1 DEF TokensLeft
  <2>5. PairOf(new) = Pair(r) /\ new.token = t /\ new.user = run[r].user
    BY DEF PairOf, Pair
  <2> HIDE DEF new
  <2> QED
    BY <1>4, <2>1, <2>2, <2>3, <2>4, <2>5
<1>5. ASSUME NEW u \in Users, DeleteUser(u) PROVE PushInv'
  <2>1. /\ accounts' = accounts \ {u} /\ ledger' = {p \in ledger : p[1] # u}
        /\ UNCHANGED <<run, acked>>
    BY <1>5 DEF DeleteUser, UserCall
  <2>2. \A r \in Runs : /\ Holds(r)' = Holds(r) /\ Pair(r)' = Pair(r)
                        /\ TokensLeft(r)' = TokensLeft(r)
                        /\ Pair(r)[1] = run[r].user
    BY <2>1 DEF Holds, Pair, TokensLeft
  <2>3. \A a \in acked : PairOf(a)[1] = a.user
    BY DEF PairOf
  <2> QED
    BY <2>1, <2>2, <2>3
<1>6. ASSUME UNCHANGED <<accounts, ledger, run, acked>> PROVE PushInv'
  BY <1>6 DEF Holds, Pair, TokensLeft
<1>7. CASE CommitFeed \/ OtherFeed \/ UNCHANGED vars
  BY <1>6, <1>7 DEF CommitFeed, OtherFeed, vars, userVars
<1>8. CASE UserStep
  <2>1. \/ UNCHANGED <<accounts, ledger, run, acked>>
        \/ \E u \in Users : DeleteUser(u)
    BY <1>8 DEF UserStep, UserCall, AddFavorite, RemoveFavorite, RegisterDevice,
                UnregisterDevice
  <2> QED
    BY <1>5, <1>6, <2>1
<1>9. ASSUME NEW r \in Runs, RunStep(r) \/ Crash(r) PROVE PushInv'
  BY <1>1, <1>2, <1>3, <1>4, <1>9, StepKinds
<1> QED
  BY <1>7, <1>8, <1>9 DEF Next

LEMMA PushAlways == Spec => [](TypeInv /\ PushInv)
<1>1. Init => TypeInv /\ PushInv
  <2>1. ASSUME Init PROVE PushInv
    BY <2>1 DEF Init, PushInv, HolderHasRow, HoldersDiffer, AckHasRow, UnsentNotAcked,
                PendingNotAcked, Holds, Idle
  <2> QED
    BY <2>1, TypeInit
<1>2. TypeInv /\ PushInv /\ [Next]_vars => (TypeInv /\ PushInv)'
  BY TypeStep, PushStep
<1> QED
  BY <1>1, <1>2, PTL DEF Spec

(* At-most-once delivery for any number of processes, users, devices and   *)
(* crashes: nothing a process is about to push has been accepted before.   *)
THEOREM AtMostOnce == Spec => []NoSecondPush
<1>1. TypeInv /\ PushInv => NoSecondPush
  <2> SUFFICES ASSUME TypeInv, PushInv, NEW r \in Runs, At(r, "send"), NEW a \in acked,
                      a.user = run[r].user, a.key = run[r].job.key
               PROVE  a.token \notin TokensLeft(r)
    BY DEF NoSecondPush
  <2>1. Holds(r) /\ PairOf(a) = Pair(r)
    BY DEF TypeInv, TypeOK, Coherent, At, Holds, PairOf, Pair
  <2> QED
    BY <2>1 DEF PushInv, PendingNotAcked
<1> QED
  BY <1>1, PushAlways, PTL

-----------------------------------------------------------------------------
\* The job implements the ledger

Delivered == {<<a.user, a.key>> : a \in {b \in acked : b.user \in accounts}}
Attempt == [r \in Runs |-> IF run[r].user = None THEN {} ELSE {Pair(r)}]

\* The pairs of the other processes stay as they are.
LEMMA AttemptStep ==
  ASSUME NEW r \in Runs, Others(r)
  PROVE  Attempt' = [Attempt EXCEPT ![r] = IF run'[r].user = None THEN {} ELSE {Pair(r)'}]
<1>1. \A s \in Runs \ {r} : Attempt'[s] = Attempt[s]
  BY DEF Others, Attempt, Pair
<1>2. Attempt'[r] = IF run'[r].user = None THEN {} ELSE {Pair(r)'}
  BY DEF Attempt
<1> QED
  BY <1>1, <1>2 DEF Attempt

LEMMA LedgerStep ==
  ASSUME TypeInv, PushInv, [Next]_vars
  PROVE  [Ledger!Next]_(Ledger!ledgerVars)
<1> USE DEF Ledger!ledgerVars
<1>0. /\ \A a \in acked : PairOf(a) = <<a.user, a.key>>
      /\ Delivered \subseteq {PairOf(a) : a \in acked}
  BY DEF PairOf, Delivered
<1>1. ASSUME NEW r \in Runs, Others(r), accounts' = accounts, Keeps(r)
      PROVE  UNCHANGED <<accounts, ledger, Delivered, Attempt>>
  <2>1. Attempt' = Attempt
    BY <1>1 DEF Keeps, Others, Attempt, Pair
  <2> QED
    BY <1>1, <2>1 DEF Keeps, Delivered
<1>2. ASSUME NEW r \in Runs, Others(r), accounts' = accounts, Ends(r)
      PROVE  Ledger!Withdraw(r) \/ Ledger!Leave(r)
  <2>1. Attempt' = [Attempt EXCEPT ![r] = {}] /\ Delivered' = Delivered
    BY <1>2, AttemptStep DEF Ends, Delivered
  <2>2. CASE ledger' = ledger
    BY <1>2, <2>1, <2>2 DEF Ledger!Leave, Attempt, Delivered
  <2>3. CASE Holds(r) /\ ~run[r].anySent /\ ledger' = ledger \ {Pair(r)}
    <3>1. Attempt[r] = {Pair(r)}
      BY <2>3 DEF Attempt, Holds
    <3>2. Pair(r) \notin Delivered
      BY <1>0, <2>3 DEF PushInv, UnsentNotAcked
    <3> QED
      BY <1>2, <2>1, <2>3, <3>1, <3>2 DEF Ledger!Withdraw, Attempt, Delivered
  <2> QED
    BY <1>2, <2>2, <2>3 DEF Ends
<1>3. ASSUME NEW r \in Runs, Others(r), accounts' = accounts,
             NEW u \in Users, ClaimDelivery(r, u)
      PROVE  Ledger!Claim(r)
  <2> DEFINE p == <<u, run[r].job.key>>
  <2>1. /\ run[r].user = None /\ u \in accounts /\ p \notin ledger
        /\ ledger' = ledger \cup {p} /\ acked' = acked
    BY <1>3 DEF ClaimDelivery, At, TypeInv, TypeOK, Coherent
  <2>2. run'[r].user = u /\ run'[r].job = run[r].job /\ u # None
    BY <1>3, DispatcherAssumption DEF ClaimDelivery, TypeInv, TypeOK, Process
  <2>3. Attempt' = [Attempt EXCEPT ![r] = {p}] /\ Attempt[r] = {} /\ Attempt'[r] = {p}
    BY <1>3, <2>1, <2>2, AttemptStep DEF Pair, Attempt
  <2>4. p[1] = u /\ Delivered' = Delivered
    BY <1>3, <2>1 DEF Delivered
  <2> QED
    BY <1>3, <2>1, <2>3, <2>4 DEF Ledger!Claim, Attempt, Delivered
<1>4. ASSUME NEW r \in Runs, Others(r), accounts' = accounts,
             NEW t \in Tokens, SendAccepted(r, t)
      PROVE  Ledger!Push(r) \/ UNCHANGED <<accounts, ledger, Delivered, Attempt>>
  <2> DEFINE new == [user |-> run[r].user, token |-> t,
                     key |-> run[r].job.key, ids |-> run[r].job.ids]
  <2>1. Holds(r) /\ acked' = acked \cup {new} /\ ledger' = ledger
    BY <1>4 DEF SendAccepted, At, TypeInv, TypeOK, Coherent, Holds
  <2>2. run'[r].user = run[r].user /\ run'[r].job = run[r].job
    BY <1>4 DEF SendAccepted, TypeInv, TypeOK, Process
  <2>3. Attempt' = Attempt /\ Attempt[r] = {Pair(r)}
    BY <1>4, <2>1, <2>2 DEF Others, Attempt, Pair, Holds
  <2>4. CASE run[r].user \in accounts
    <3>1. Delivered' = Delivered \cup {Pair(r)}
      <4>1. {b \in acked' : b.user \in accounts} =
              {b \in acked : b.user \in accounts} \cup {new}
        BY <2>1, <2>4
      <4>2. Pair(r) = <<new.user, new.key>>
        BY DEF Pair
      <4> HIDE DEF new
      <4> QED
        BY <1>4, <4>1, <4>2 DEF Delivered
    <3>2. Pair(r) \in ledger
      BY <2>1, <2>4 DEF PushInv, HolderHasRow
    <3> QED
      BY <1>4, <2>1, <2>3, <3>1, <3>2 DEF Ledger!Push, Attempt, Delivered
  <2>5. CASE run[r].user \notin accounts
    BY <1>4, <2>1, <2>3, <2>5 DEF Delivered
  <2> QED
    BY <2>4, <2>5
<1>5. ASSUME NEW u \in Users, DeleteUser(u) PROVE Ledger!Forget(u)
  <2>1. /\ u \in accounts /\ accounts' = accounts \ {u}
        /\ ledger' = {p \in ledger : p[1] # u} /\ UNCHANGED <<run, acked>>
    BY <1>5 DEF DeleteUser, UserCall
  <2>2. Delivered' = {p \in Delivered : p[1] # u}
    BY <2>1 DEF Delivered
  <2>3. Attempt' = Attempt
    BY <2>1 DEF Attempt, Pair
  <2> QED
    BY <2>1, <2>2, <2>3 DEF Ledger!Forget, Attempt, Delivered
<1>6. ASSUME UNCHANGED <<accounts, ledger, run, acked>>
      PROVE  UNCHANGED <<accounts, ledger, Delivered, Attempt>>
  BY <1>6 DEF Delivered, Attempt, Pair
<1>7. CASE CommitFeed \/ OtherFeed \/ UNCHANGED vars
  <2>1. UNCHANGED <<accounts, ledger, run, acked>>
    BY <1>7 DEF CommitFeed, OtherFeed, vars, userVars
  <2> QED
    BY <1>6, <2>1 DEF Attempt, Delivered
<1>8. CASE UserStep
  <2>1. \/ UNCHANGED <<accounts, ledger, run, acked>>
        \/ \E u \in Users : DeleteUser(u)
    BY <1>8 DEF UserStep, UserCall, AddFavorite, RemoveFavorite, RegisterDevice,
                UnregisterDevice
  <2> QED
    BY <1>5, <1>6, <2>1 DEF Ledger!Next, Attempt, Delivered
<1>9. ASSUME NEW r \in Runs, RunStep(r) \/ Crash(r)
      PROVE  [Ledger!Next]_(Ledger!ledgerVars)
  <2>1. /\ Others(r) /\ accounts' = accounts
        /\ \/ Keeps(r)
           \/ Ends(r)
           \/ \E u \in Users : ClaimDelivery(r, u)
           \/ \E t \in Tokens : SendAccepted(r, t)
    BY <1>9, StepKinds
  <2>2. \/ UNCHANGED <<accounts, ledger, Delivered, Attempt>>
        \/ Ledger!Withdraw(r) \/ Ledger!Leave(r) \/ Ledger!Claim(r) \/ Ledger!Push(r)
    BY <1>1, <1>2, <1>3, <1>4, <2>1
  <2> QED
    BY <2>2 DEF Ledger!Next, Attempt, Delivered
<1> QED
  BY <1>7, <1>8, <1>9 DEF Next

(* Refinement: notification_delivery as the job uses it is the abstract    *)
(* ledger, so what holds of the ledger holds of the table.                 *)
THEOREM ImplementsLedger == Spec => LedgerRefined
<1>1. Init => Ledger!Init
  <2> SUFFICES ASSUME Init PROVE Ledger!Init
    OBVIOUS
  <2>1. \A r \in Runs : run[r].user = None
    BY DEF Init, Idle
  <2> QED
    BY <2>1 DEF Init, Ledger!Init
<1>2. TypeInv /\ PushInv /\ [Next]_vars => [Ledger!Next]_(Ledger!ledgerVars)
  BY LedgerStep
<1> QED
  BY <1>1, <1>2, PushAlways, PTL DEF Spec, LedgerRefined, Ledger!Spec

-----------------------------------------------------------------------------
(* What holds as long as cron keeps at most one process of the job alive.  *)

\* Dropping the microseconds does not fall behind a time a Date can hold.
LEMMA ToDateMonotone ==
  ASSUME NEW d \in Dates, NEW t \in Int, d <= t PROVE d <= ToDate(t)
<1> DEFINE p == d \div Resolution
           q == t \div Resolution
<1>1. Resolution \in Nat /\ Resolution > 0 /\ p \in Int /\ q \in Int /\ d \in Int
  BY DispatcherAssumption DEF Dates
<1>2. p <= q
  BY <1>1
<1>3. p * Resolution <= q * Resolution
  BY <1>1, <1>2
<1> QED
  BY <1>3 DEF Dates, ToDate

LEMMA FoundAreAhead ==
  ASSUME FeedInv, NEW since \in Dates, NEW through \in Int
  PROVE  \A j \in GroupByItem(FindScheduleChanges(since, through)) : since <= j.observedAt
<1> DEFINE C == FindScheduleChanges(since, through)
<1> SUFFICES ASSUME NEW i \in {s.item : s \in C}
             PROVE  since <= ChangeJob({s \in C : s.item = i}).observedAt
  BY DEF GroupByItem
<1> DEFINE G == {s \in C : s.item = i}
<1>1. G \subseteq rows /\ G # {} /\ \A s \in G : s.obs > since
  BY DEF FindScheduleChanges
<1>2. G \subseteq Row /\ Distinct(G) /\ clock \in Nat /\ \A s \in G : s.obs <= clock
  BY <1>1 DEF FeedInv, FeedTypeOK, Numbered, NumberedUpTo, Distinct, Stored,
              ObservedInThePast
<1>3. Latest(G) \in G
  <2> HIDE DEF G
  <2> QED
    BY <1>1, <1>2, LatestExists
<1>4. Latest(G).obs \in Int /\ since <= Latest(G).obs
  <2> HIDE DEF G
  <2> QED
    BY <1>1, <1>2, <1>3 DEF Row, Dates
<1>5. since <= ToDate(Latest(G).obs)
  BY <1>4, ToDateMonotone
<1> QED
  BY <1>5 DEF ChangeJob

-----------------------------------------------------------------------------

InSchedulePhase(p) ==
  p.phase = "schedule" /\ p.pc \in {"changes", "jobs", "users", "send", "abort"}

(* From the query to the end of the schedule phase the cursor c is the one *)
(* the process has read, and nothing it may write lies behind it.          *)
AheadOfCursor(p, c) ==
  /\ p.pc = "cursor" => p.checkpoint = None /\ p.todo = {}
  /\ InSchedulePhase(p) =>
       /\ c # None /\ p.since = c /\ c < p.watermark
       /\ p.checkpoint # None => c <= p.checkpoint
       /\ \A j \in p.todo : c <= j.observedAt
  /\ p.pc = "advance" =>
       p.checkpoint # None /\ (c # None => c <= p.checkpoint)

CursorInv == \A r \in Runs : AheadOfCursor(run[r], cursor)

LEMMA AheadStep ==
  ASSUME TypeInv, NEW r \in Runs, AheadOfCursor(run[r], cursor),
         RunStep(r) \/ Crash(r), ~AdvanceCursor(r)
  PROVE  AheadOfCursor(run'[r], cursor)
<1> DEFINE old == run[r]
           new == run'[r]
<1>0. /\ old \in Process /\ run \in [Runs -> Process] /\ Coherent(old)
      /\ old.watermark \in Int /\ old.since \in Dates /\ old.since \in Int
      /\ None \notin Int
  BY DispatcherAssumption DEF TypeInv, TypeOK, Process, Dates
<1>1. CASE StartRun(r)
  <2>1. new.pc = "cursor" /\ new.checkpoint = None /\ new.todo = {}
    BY <1>0, <1>1 DEF StartRun, Local, Idle
  <2> QED
    BY <2>1 DEF AheadOfCursor, InSchedulePhase
<1>2. CASE ReadNoCursor(r)
  <2>1. new.pc = "advance" /\ new.checkpoint = old.watermark /\ cursor = None
    BY <1>0, <1>2 DEF ReadNoCursor, Process
  <2> QED
    BY <1>0, <2>1 DEF AheadOfCursor, InSchedulePhase
<1>3. CASE ReadCursor(r)
  <2>1. /\ new = [old EXCEPT !.since = cursor,
                    !.pc = IF old.watermark <= cursor THEN "reminders" ELSE "changes"]
        /\ cursor # None /\ old.pc = "cursor"
    BY <1>0, <1>3 DEF ReadCursor, Local, At
  <2>2. cursor \in Int
    BY <2>1 DEF TypeInv, TypeOK, Dates
  <2>3. /\ new.pc \in {"reminders", "changes"} /\ new.since = cursor
        /\ new.pc = "changes" => cursor < new.watermark
        /\ new.checkpoint = None /\ new.todo = {}
    BY <1>0, <2>1, <2>2 DEF AheadOfCursor, Process
  <2> QED
    BY <2>1, <2>3 DEF AheadOfCursor, InSchedulePhase
<1>4. CASE FindChanges(r)
  <2> DEFINE jobs == GroupByItem(FindScheduleChanges(old.since, old.watermark))
  <2>1. /\ new.pc = "jobs" /\ new.phase = old.phase /\ new.since = old.since
        /\ new.watermark = old.watermark /\ new.todo = jobs
        /\ new.checkpoint \in {old.watermark, None} /\ old.pc = "changes"
    BY <1>0, <1>4 DEF FindChanges, Local, At, Process
  <2>2. \A j \in jobs : old.since <= j.observedAt
    BY <1>0, FoundAreAhead DEF TypeInv
  <2> HIDE DEF jobs
  <2> QED
    BY <1>0, <2>1, <2>2 DEF AheadOfCursor, InSchedulePhase
<1>5. ASSUME NEW job \in old.todo, NEW delivered \in BOOLEAN, old.pc \in {"jobs", "users"},
             new = AfterJob(old, job, delivered)
      PROVE  AheadOfCursor(new, cursor)
  <2>1. /\ new.pc = "jobs" /\ new.phase = old.phase /\ new.since = old.since
        /\ new.watermark = old.watermark /\ new.todo \subseteq old.todo
        /\ new.checkpoint \in {job.observedAt, old.checkpoint}
    BY <1>0, <1>5 DEF AfterJob, Process
  <2> QED
    BY <1>5, <2>1 DEF AheadOfCursor, InSchedulePhase
<1>6. CASE SkipJob(r)
  <2>1. PICK job \in NextJobs(r) : run' = [run EXCEPT ![r] = AfterJob(old, job, TRUE)]
    BY <1>6 DEF SkipJob
  <2>2. new = AfterJob(old, job, TRUE)
    BY <1>0, <2>1
  <2>3. old.pc = "jobs" /\ job \in old.todo
    BY <1>6 DEF SkipJob, NextJobs, At
  <2> QED
    BY <1>5, <2>2, <2>3
<1>7. CASE DeliverReturns(r)
  BY <1>0, <1>5, <1>7 DEF DeliverReturns, Local, At, Coherent, Process
<1>8. CASE EndSchedule(r)
  <2>1. /\ new.pc \in {"reminders", "advance"}
        /\ new.checkpoint = IF old.checkpoint = None THEN old.watermark ELSE old.checkpoint
        /\ old.pc = "jobs" /\ old.phase = "schedule"
    BY <1>0, <1>8 DEF EndSchedule, Local, At, Process
  <2>2. cursor # None => cursor \in Int
    BY DEF TypeInv, TypeOK, Dates
  <2> QED
    BY <1>0, <2>1, <2>2 DEF AheadOfCursor, InSchedulePhase
<1>9. CASE FindReminders(r)
  <2>1. new.phase = "reminder" /\ new.pc = "jobs"
    BY <1>0, <1>9 DEF FindReminders, Local, Idle
  <2> QED
    BY <2>1 DEF AheadOfCursor, InSchedulePhase
<1>10. CASE EndRun(r) \/ Crash(r) \/ AbortRun(r) \/ \E u \in Users : ClaimFails(r, u)
  <2>1. new.pc = "idle"
    BY <1>0, <1>10 DEF EndRun, Crash, AbortRun, ClaimFails, Local, Idle
  <2> QED
    BY <2>1 DEF AheadOfCursor, InSchedulePhase
\* The steps of deliver() leave alone what the cursor depends on.
<1>11. ASSUME old.pc \in {"jobs", "users", "send"}, new.pc \in {"users", "send", "abort"},
              new.phase = old.phase, new.since = old.since, new.todo = old.todo,
              new.watermark = old.watermark, new.checkpoint = old.checkpoint
       PROVE  AheadOfCursor(new, cursor)
  BY <1>11 DEF AheadOfCursor, InSchedulePhase
<1>12. CASE FindTokens(r)
  <2>1. PICK job : run' = [run EXCEPT ![r].pc = "users", ![r].job = job,
                                     ![r].targets = FindTokensForFavorite(job.item)]
    BY <1>12 DEF FindTokens
  <2> QED
    BY <1>0, <1>11, <1>12, <2>1 DEF FindTokens, At, Process
<1>13. ASSUME NEW u \in Users, Deduplicate(r, u) PROVE AheadOfCursor(new, cursor)
  BY <1>0, <1>11, <1>13 DEF Deduplicate, Local, At, Process
<1>14. ASSUME NEW u \in Users, ClaimDelivery(r, u) PROVE AheadOfCursor(new, cursor)
  BY <1>0, <1>11, <1>14 DEF ClaimDelivery, At, Process
<1>15. CASE FinishUser(r)
  BY <1>0, <1>11, <1>15 DEF FinishUser, At, Process
<1>16. CASE SendThrows(r)
  BY <1>0, <1>11, <1>16 DEF SendThrows, Local, At, Process
<1>17. ASSUME NEW t \in Tokens, SendAccepted(r, t) PROVE AheadOfCursor(new, cursor)
  BY <1>0, <1>11, <1>17 DEF SendAccepted, At, Process
<1>18. ASSUME NEW t \in Tokens, SendFailed(r, t) PROVE AheadOfCursor(new, cursor)
  BY <1>0, <1>11, <1>18 DEF SendFailed, Local, At, Process
<1>19. ASSUME NEW t \in Tokens, SendUnregistered(r, t) PROVE AheadOfCursor(new, cursor)
  BY <1>0, <1>11, <1>19 DEF SendUnregistered, At, Process
<1> QED
  BY <1>1, <1>2, <1>3, <1>4, <1>6, <1>7, <1>8, <1>9, <1>10, <1>12, <1>13,
     <1>14, <1>15, <1>16, <1>17, <1>18, <1>19 DEF RunStep

\* Only AdvanceCursor writes the cursor.
LEMMA CursorWrites ==
  ASSUME [Next]_vars, cursor' # cursor PROVE \E r \in Runs : AdvanceCursor(r)
<1>1. CASE CommitFeed \/ OtherFeed \/ UserStep \/ UNCHANGED vars
  BY <1>1 DEF CommitFeed, OtherFeed, UserStep, UserCall, AddFavorite, RemoveFavorite,
              RegisterDevice, UnregisterDevice, DeleteUser, vars
<1>2. ASSUME NEW r \in Runs, RunStep(r) \/ Crash(r) PROVE AdvanceCursor(r)
  BY <1>2 DEF RunStep, Local, StartRun, ReadNoCursor, ReadCursor, FindChanges, SkipJob,
     FindTokens, EndSchedule, FindReminders, EndRun, DeliverReturns,
     FinishUser, AbortRun, SendThrows, Deduplicate, ClaimDelivery, ClaimFails,
     SendAccepted, SendFailed, SendUnregistered, Crash
<1> QED
  BY <1>1, <1>2 DEF Next

LEMMA CursorInit == ASSUME Init PROVE CursorInv
  BY DEF Init, CursorInv, AheadOfCursor, InSchedulePhase, Idle

LEMMA CursorStep ==
  ASSUME NEW one, Runs = {one}, TypeInv, CursorInv, [Next]_vars PROVE CursorInv'
<1>1. CASE AdvanceCursor(one)
  <2>1. run'[one].pc = "reminders"
    BY <1>1 DEF AdvanceCursor, TypeInv, TypeOK, Process
  <2> QED
    BY <2>1 DEF CursorInv, AheadOfCursor, InSchedulePhase
<1>2. CASE ~AdvanceCursor(one)
  <2>1. cursor' = cursor
    BY <1>2, CursorWrites
  <2>2. CASE RunStep(one) \/ Crash(one)
    BY <1>2, <2>1, <2>2, AheadStep DEF CursorInv
  <2>3. CASE run' = run
    BY <2>1, <2>3 DEF CursorInv, AheadOfCursor, InSchedulePhase
  <2>4. RunStep(one) \/ Crash(one) \/ run' = run
    BY DEF Next, CommitFeed, OtherFeed, UserStep, UserCall, AddFavorite,
           RemoveFavorite, RegisterDevice, UnregisterDevice, DeleteUser, vars
  <2> QED
    BY <2>2, <2>3, <2>4
<1> QED
  BY <1>1, <1>2

(* With one process the cursor never moves back, so no part of the history *)
(* is announced from the start again and none is read behind another run's *)
(* back; two processes can do that to each other.                          *)
THEOREM CursorMonotone ==
  ASSUME NEW one, Runs = {one} PROVE Spec => CursorNeverMovesBack
<1>1. TypeInv /\ CursorInv /\ [Next]_vars => CursorInv'
  BY CursorStep
<1>2. TypeInv /\ CursorInv /\ [Next]_vars
        => [cursor # None => cursor' # None /\ cursor' >= cursor]_cursor
  <2> SUFFICES ASSUME TypeInv, CursorInv, [Next]_vars, cursor' # cursor, cursor # None
               PROVE  cursor' # None /\ cursor' >= cursor
    OBVIOUS
  <2>1. At(one, "advance") /\ cursor' = run[one].checkpoint
    BY CursorWrites DEF AdvanceCursor
  <2>2. cursor' # None /\ cursor <= cursor'
    BY <2>1 DEF CursorInv, AheadOfCursor, At
  <2>3. cursor \in Int /\ cursor' \in Int
    BY <2>1, <2>2 DEF TypeInv, TypeOK, Process, Dates
  <2> QED
    BY <2>2, <2>3
<1> QED
  BY CursorInit, <1>1, <1>2, TypeAlways, PTL DEF Spec, CursorNeverMovesBack

-----------------------------------------------------------------------------
\* What one read of the feed takes, and what its jobs stand for.

\* Rows the job of an item folds when k is the last of them.
Covered(k, since) == {s \in rows : s.item = k.item /\ since < s.obs /\ ~Before(k, s)}

Folds(job, k, p) ==
  /\ job.key = ScheduleKey(k) /\ k.obs <= p.watermark
  /\ job.observedAt = ToDate(k.obs)
  /\ job.ids = {s.id : s \in Covered(k, p.since)}

\* What the read of the feed would return without the batch limit.
Unread(since, through) ==
  {s \in rows : s.obs > since /\ s.obs <= through /\ s.item \in FavoriteItems}

LEMMA RowFacts ==
  ASSUME FeedInv
  PROVE  /\ IsFiniteSet(rows) /\ clock \in Nat
         /\ \A s \in rows : s \in Row /\ s.obs \in Nat /\ s.id \in Nat /\ s.obs <= clock
         /\ \A s, q \in rows : s.id = q.id => s = q
  BY FeedAssumption
  DEF FeedInv, FeedTypeOK, Numbered, NumberedUpTo, Distinct, Stored, ObservedInThePast, Row

\* A batch takes, with a row, every row before it.
LEMMA BatchIsPrefix ==
  ASSUME FeedInv, NEW since \in Int, NEW through \in Int,
         NEW q \in FindScheduleChanges(since, through),
         NEW s \in Unread(since, through), s = q \/ Before(s, q)
  PROVE  s \in FindScheduleChanges(since, through)
<1> DEFINE found == Unread(since, through)
           Ahead(x) == {y \in found : Before(y, x)}
<1>1. q \in rows /\ s \in rows /\ Cardinality(Ahead(q)) < Limit
  BY DEF FindScheduleChanges, Unread
<1>2. Ahead(s) \subseteq Ahead(q)
  <2> SUFFICES ASSUME NEW y \in found, Before(y, s) PROVE Before(y, q)
    OBVIOUS
  <2>1. y \in rows
    BY DEF Unread
  <2> QED
    BY <1>1, <2>1, RowFacts DEF Before
<1>3. IsFiniteSet(Ahead(q))
  BY RowFacts, FS_Subset DEF Unread
<1>4. Cardinality(Ahead(s)) <= Cardinality(Ahead(q)) /\ IsFiniteSet(Ahead(s))
  BY <1>2, <1>3, FS_Subset
<1>5. Cardinality(Ahead(s)) \in Nat /\ Cardinality(Ahead(q)) \in Nat
  BY <1>3, <1>4, FS_CardinalityType
<1>6. Cardinality(Ahead(s)) < Limit
  BY <1>1, <1>4, <1>5, DispatcherAssumption
<1> QED
  BY <1>6 DEF FindScheduleChanges, Unread

\* A batch that leaves a row out is full.
LEMMA LeftOutWhenFull ==
  ASSUME FeedInv, NEW since \in Int, NEW through \in Int,
         NEW s \in Unread(since, through), s \notin FindScheduleChanges(since, through)
  PROVE  ~(Cardinality(FindScheduleChanges(since, through)) < Limit)
<1> DEFINE found == Unread(since, through)
           batch == FindScheduleChanges(since, through)
           left == found \ batch
           m == Earliest(left)
           ahead == {y \in found : Before(y, m)}
<1>1. m \in left /\ \A t \in left \ {m} : Before(m, t)
  <2>1. left \subseteq Row /\ left # {} /\ Distinct(left)
    BY RowFacts DEF Unread, Distinct
  <2> HIDE DEF left
  <2> QED
    BY <2>1, EarliestExists
<1>2. ~(Cardinality(ahead) < Limit)
  BY <1>1 DEF FindScheduleChanges, Unread
<1>3. ahead \subseteq batch
  <2> SUFFICES ASSUME NEW y \in found, Before(y, m), y \notin batch PROVE FALSE
    OBVIOUS
  <2>1. y \in rows /\ m \in rows
    BY <1>1 DEF Unread
  <2>2. y = m \/ Before(m, y)
    BY <1>1
  <2> QED
    BY <2>1, <2>2, RowFacts DEF Before
<1>4. IsFiniteSet(batch)
  BY RowFacts, FS_Subset DEF FindScheduleChanges
<1>5. Cardinality(ahead) <= Cardinality(batch)
      /\ Cardinality(ahead) \in Nat /\ Cardinality(batch) \in Nat
  BY <1>3, <1>4, FS_Subset, FS_CardinalityType
<1> HIDE DEF batch, ahead
<1>6. ~(Cardinality(batch) < Limit)
  BY <1>2, <1>5, DispatcherAssumption
<1> QED
  BY <1>6 DEF batch

\* The job of an item folds every unread row of the item up to its last one.
LEMMA JobsFoldRows ==
  ASSUME FeedInv, NEW since \in Int, NEW through \in Int,
         NEW job \in GroupByItem(FindScheduleChanges(since, through))
  PROVE  /\ job.kind = "schedule"
         /\ \E k \in FindScheduleChanges(since, through) :
              /\ job.key = ScheduleKey(k) /\ job.observedAt = ToDate(k.obs)
              /\ job.ids = {s.id : s \in Covered(k, since)}
<1> DEFINE batch == FindScheduleChanges(since, through)
<1>1. PICK i \in {s.item : s \in batch} : job = ChangeJob({s \in batch : s.item = i})
  BY DEF GroupByItem
<1> DEFINE G == {s \in batch : s.item = i}
           k == Latest(G)
<1>2. G \subseteq rows /\ G # {} /\ G \subseteq batch
  BY <1>1 DEF FindScheduleChanges
<1>3. k \in G /\ \A t \in G \ {k} : Before(t, k)
  <2>1. G \subseteq Row /\ Distinct(G) /\ clock \in Nat /\ \A s \in G : s.obs <= clock
    BY <1>2, RowFacts DEF Distinct
  <2> HIDE DEF G
  <2> QED
    BY <1>2, <2>1, LatestExists
<1>4. G = Covered(k, since)
  <2>1. ASSUME NEW s \in G PROVE s \in Covered(k, since)
    <3>1. s \in rows /\ s.item = k.item /\ since < s.obs
      BY <1>2, <1>3 DEF FindScheduleChanges
    <3>2. s = k \/ Before(s, k)
      BY <1>3
    <3>3. ~Before(k, s)
      BY <1>2, <1>3, <3>1, <3>2, RowFacts DEF Before
    <3> QED
      BY <3>1, <3>3 DEF Covered
  <2>2. ASSUME NEW s \in Covered(k, since) PROVE s \in G
    <3>1. s \in rows /\ s.item = i /\ since < s.obs /\ ~Before(k, s)
      BY <1>3 DEF Covered
    <3>2. k \in rows /\ k \in batch /\ k.obs <= through /\ k.item \in FavoriteItems /\ k.item = i
      BY <1>3 DEF FindScheduleChanges
    <3>3. s = k \/ Before(s, k)
      BY <3>1, <3>2, RowFacts DEF Before
    <3>4. s.obs <= through
      BY <3>1, <3>2, <3>3, RowFacts DEF Before
    <3>5. s \in Unread(since, through)
      BY <3>1, <3>2, <3>4 DEF Unread
    <3>6. s \in batch
      <4> HIDE DEF k, G
      <4> QED
        BY <3>2, <3>3, <3>5, BatchIsPrefix
    <3> QED
      BY <3>1, <3>6
  <2> QED
    BY <2>1, <2>2
<1>5. /\ job.kind = "schedule" /\ job.key = ScheduleKey(k)
      /\ job.observedAt = ToDate(k.obs) /\ job.ids = {s.id : s \in G}
  BY <1>1 DEF ChangeJob
<1>6. k \in batch
  BY <1>3
<1> HIDE DEF k, G
<1> QED
  BY <1>4, <1>5, <1>6

-----------------------------------------------------------------------------
\* The invariant behind NothingSkipped.

\* Change id of the owed pair o lies behind no reading up to t.
Beyond(o, t) == \A s \in rows : s.id = o[2] => t < s.obs

(* What is owed names a stored row of an item its user still favorites.    *)
OwedIsFavorite ==
  \A o \in owed : \E s \in rows : s.id = o[2] /\ <<o[1], s.item>> \in favorites

(* The rows of the open page carry the start of its transaction.           *)
PageTimed == page.open => \A s \in page.rows : s.obs = page.start

(* A push that was accepted told its user everything of the item that is   *)
(* ahead of the cursor and not later than the row the push is named after, *)
(* which is behind the lag.                                                *)
AckedFolds ==
  \A a \in acked : \A n \in Nat : a.key = <<"schedule", n>> =>
    \E k \in rows : a.key = ScheduleKey(k) /\ k.obs <= clock - Lag

AckedSettles ==
  \A a \in acked, o \in owed, s, k \in rows :
    (/\ a.user = o[1] /\ a.key = ScheduleKey(k)
     /\ s.id = o[2] /\ s.item = k.item /\ ~Before(k, s))
      => cursor # None /\ s.obs <= cursor

Delivering(p) == p.pc \in {"jobs", "users", "send", "abort"}

\* The jobs of a process stand for rows up to its watermark.
JobsFold(p) ==
  /\ p.pc \in {"cursor", "changes"} => p.phase = "schedule"
  /\ Delivering(p) /\ p.phase # "schedule" =>
       \A job \in p.todo, n \in Nat : job.key # <<"schedule", n>>
  /\ Delivering(p) /\ p.phase = "schedule" =>
       /\ \A job \in p.todo : job.kind = "schedule" /\ \E k \in rows : Folds(job, k, p)
       /\ p.checkpoint # None => p.checkpoint <= p.watermark
       /\ p.checkpoint = None => p.todo # {} \/ p.blocked

\* Change o[2] is still to be delivered, or later than what the cursor may reach.
Ahead(o, p) ==
  \/ LeftBehind(o)
  \/ \E job \in p.todo : o[2] \in job.ids
  \/ /\ \A job \in p.todo : Beyond(o, job.observedAt)
     /\ p.checkpoint # None => Beyond(o, p.checkpoint)

\* deliver() still has o[1] before it, will report a failure, or is at o[1]
\* and has reached none of its devices.
Reachable(o, p) ==
  IF p.user = o[1] THEN ~p.anySent
  ELSE LeftBehind(o) \/ ~p.allDelivered \/ \E t \in p.targets : t[1] = o[1]

(* Nothing owed gets lost between the read of the feed and the cursor.     *)
PendingFor(o, p) ==
  /\ Delivering(p) /\ p.phase = "schedule" /\ ~p.blocked => Ahead(o, p)
  /\ p.pc \in {"users", "send"} /\ p.phase = "schedule" /\ o[2] \in p.job.ids
       => Reachable(o, p)
  /\ p.pc = "advance" => LeftBehind(o) \/ Beyond(o, p.checkpoint)

Pending(p) == \A o \in owed : PendingFor(o, p)

Passed == cursor # None => \A o \in owed : LeftBehind(o) \/ Beyond(o, cursor)

TablesInv == OwedIsFavorite /\ PageTimed /\ AckedFolds

SkipInv ==
  /\ TablesInv /\ AckedSettles /\ Passed
  /\ \A r \in Runs : JobsFold(run[r]) /\ Pending(run[r])

\* The batch limit separates no rows that were observed at the same time.
BatchesWhole ==
  \A r \in Runs : At(r, "changes") =>
    LET batch == FindScheduleChanges(run[r].since, run[r].watermark)
    IN  \A s \in batch, q \in Unread(run[r].since, run[r].watermark) \ batch : s.obs < q.obs

-----------------------------------------------------------------------------

LEMMA LeftBehindStays ==
  ASSUME TypeInv, [Next]_vars, NEW o \in owed, o \in owed', LeftBehind(o)
  PROVE  LeftBehind(o)'
<1>1. PICK s \in rows, k \in rows :
        /\ s.id = o[2] /\ k.item = s.item /\ <<o[1], ScheduleKey(k)>> \in ledger
        /\ \A a \in acked : a.user = o[1] => a.key # ScheduleKey(k)
        /\ \A r \in Runs : run[r].user = o[1] => run[r].job.key # ScheduleKey(k)
  BY DEF LeftBehind
<1>2. rows \subseteq rows'
  BY NextIsFeedStep DEF FeedNext, feedVars, BeginPage, CommitPage, AbortPage, Tick,
                        InsertScheduleSnapshot
<1>3. o[1] \in Users /\ None \notin Users
  BY DispatcherAssumption DEF TypeInv, TypeOK
<1> DEFINE key == ScheduleKey(k)
<1>4. SUFFICES /\ <<o[1], key>> \in ledger'
               /\ \A a \in acked' : a.user = o[1] => a.key # key
               /\ \A r \in Runs : run'[r].user = o[1] => run'[r].job.key # key
  BY <1>1, <1>2 DEF LeftBehind, ScheduleKey
<1>5. key = ScheduleKey(k)
  OBVIOUS
<1> HIDE DEF key
<1>6. CASE UNCHANGED <<ledger, acked, run>>
  BY <1>1, <1>5, <1>6
<1>7. ASSUME NEW u \in Users, DeleteUser(u)
      PROVE  <<o[1], key>> \in ledger' /\ UNCHANGED <<acked, run>>
  BY <1>1, <1>5, <1>7 DEF DeleteUser, UserCall
<1>8. ASSUME NEW r \in Runs, RunStep(r) \/ Crash(r)
      PROVE  /\ <<o[1], key>> \in ledger'
             /\ \A a \in acked' : a.user = o[1] => a.key # key
             /\ \A q \in Runs : run'[q].user = o[1] => run'[q].job.key # key
  <2>1. Others(r)
    BY <1>8, StepKinds
  <2>2. CASE Keeps(r)
    BY <1>1, <1>5, <2>1, <2>2 DEF Keeps, Others
  <2>3. CASE Ends(r)
    <3>1. Pair(r) = <<o[1], key>> => run[r].user = o[1] /\ run[r].job.key = key
      BY DEF Pair
    <3> QED
      BY <1>1, <1>3, <1>5, <2>1, <2>3, <3>1 DEF Ends, Others
  <2>4. ASSUME NEW u \in Users, ClaimDelivery(r, u)
        PROVE  /\ <<o[1], key>> \in ledger' /\ acked' = acked
               /\ run'[r].user = o[1] => run'[r].job.key # key
    <3>1. run'[r].user = u /\ run'[r].job = run[r].job
      BY <2>4 DEF ClaimDelivery, TypeInv, TypeOK, Process
    <3> QED
      BY <1>1, <1>5, <2>4, <3>1 DEF ClaimDelivery
  <2>5. ASSUME NEW t \in Tokens, SendAccepted(r, t)
        PROVE  /\ <<o[1], key>> \in ledger'
               /\ \A a \in acked' : a.user = o[1] => a.key # key
               /\ run'[r].user = o[1] => run'[r].job.key # key
    <3>1. run'[r].user = run[r].user /\ run'[r].job = run[r].job
      BY <2>5 DEF SendAccepted, TypeInv, TypeOK, Process
    <3> QED
      BY <1>1, <1>5, <2>5, <3>1 DEF SendAccepted
  <2> QED
    BY <1>1, <1>5, <1>8, <2>1, <2>2, <2>3, <2>4, <2>5, StepKinds DEF Others
<1>9. CASE CommitFeed \/ OtherFeed \/ UserStep \/ UNCHANGED vars
  <2>1. \/ UNCHANGED <<ledger, acked, run>>
        \/ \E u \in Users : DeleteUser(u)
    BY <1>9 DEF CommitFeed, OtherFeed, UserStep, UserCall, AddFavorite, RemoveFavorite,
                RegisterDevice, UnregisterDevice, vars
  <2> QED
    BY <1>1, <1>5, <1>6, <1>7, <2>1
<1> QED
  BY <1>8, <1>9 DEF Next

\* A row the collector commits is later than anything the job may have read.
LEMMA CommittedRowsAreNew ==
  ASSUME TypeInv, PageTimed, CommitFeed
  PROVE  /\ rows' = rows \cup page.rows
         /\ \A s \in page.rows : clock - Lag < s.obs
         /\ \A s, q \in rows' : s.id = q.id => s = q
         /\ \A s \in rows' : s.obs \in Nat /\ s.id \in Nat
<1>1. page.open /\ rows' = rows \cup page.rows
  BY DEF CommitFeed, CommitPage
<1>2. clock - page.start <= MaxTxn /\ page.start \in Nat /\ clock \in Nat
  BY <1>1 DEF TypeInv, TypeOK, FeedInv, PageIsYoung
<1>3. \A s \in page.rows : clock - Lag < s.obs
  BY <1>1, <1>2, DispatcherAssumption, FeedAssumption DEF PageTimed
<1>4. \A s, q \in rows' : s.id = q.id => s = q
  BY <1>1 DEF TypeInv, FeedInv, Numbered, NumberedUpTo, Distinct, Stored
<1>5. \A s \in rows' : s.obs \in Nat /\ s.id \in Nat
  BY <1>1, FeedAssumption DEF TypeInv, TypeOK, Row
<1> QED
  BY <1>1, <1>3, <1>4, <1>5

LEMMA OwedKeepsFavorite ==
  ASSUME TypeInv, TablesInv, [Next]_vars PROVE OwedIsFavorite'
<1>0. OwedIsFavorite /\ FeedInv
  BY DEF TablesInv, TypeInv
<1>1. CASE CommitFeed
  <2> SUFFICES ASSUME NEW o \in owed'
               PROVE  \E s \in rows' : s.id = o[2] /\ <<o[1], s.item>> \in favorites'
    BY DEF OwedIsFavorite
  <2>1. rows' = rows \cup page.rows /\ favorites' = favorites
    BY <1>1 DEF CommitFeed, CommitPage, userVars
  <2>2. o \in owed \/ \E s \in page.rows : s.id = o[2] /\ <<o[1], s.item>> \in favorites
    BY <1>1 DEF CommitFeed
  <2> QED
    BY <1>0, <2>1, <2>2 DEF OwedIsFavorite
<1>2. ASSUME rows' = rows, owed' \subseteq owed, favorites \subseteq favorites'
      PROVE  OwedIsFavorite'
  BY <1>0, <1>2 DEF OwedIsFavorite
<1>3. CASE OtherFeed \/ UNCHANGED vars
  BY <1>2, <1>3 DEF OtherFeed, vars, userVars, BeginPage, AbortPage, Tick,
                    InsertScheduleSnapshot
<1>4. ASSUME NEW r \in Runs, RunStep(r) \/ Crash(r) PROVE OwedIsFavorite'
  <2>1. favorites' = favorites /\ owed' \subseteq owed
    BY <1>4, ProcessWrites
  <2>2. rows' = rows
    BY <1>4 DEF RunStep, Local, StartRun, ReadNoCursor, ReadCursor, FindChanges, SkipJob,
     FindTokens, EndSchedule, AdvanceCursor, FindReminders, EndRun, DeliverReturns,
     FinishUser, AbortRun, SendThrows, Deduplicate, ClaimDelivery, ClaimFails,
     SendAccepted, SendFailed, SendUnregistered, Crash, feedVars
  <2> QED
    BY <1>2, <2>1, <2>2
<1>5. ASSUME NEW u \in Users PROVE
        /\ \A i \in Items : AddFavorite(u, i) \/ RemoveFavorite(u, i) => OwedIsFavorite'
        /\ \A t \in Tokens : RegisterDevice(u, t) \/ UnregisterDevice(u, t)
             => OwedIsFavorite'
        /\ DeleteUser(u) => OwedIsFavorite'
  <2>1. ASSUME NEW i \in Items, AddFavorite(u, i) PROVE OwedIsFavorite'
    BY <1>2, <2>1 DEF AddFavorite, UserCall, feedVars
  <2>2. ASSUME NEW i \in Items, RemoveFavorite(u, i) PROVE OwedIsFavorite'
    <3>1. /\ favorites' = favorites \ {<<u, i>>} /\ rows' = rows
          /\ owed' = {o \in owed : o[1] = u => \A s \in rows : s.id = o[2] => s.item # i}
      BY <2>2 DEF RemoveFavorite, UserCall, feedVars
    <3> SUFFICES ASSUME NEW o \in owed'
                 PROVE  \E s \in rows : s.id = o[2] /\ <<o[1], s.item>> \in favorites'
      BY <3>1 DEF OwedIsFavorite
    <3>2. PICK s \in rows : s.id = o[2] /\ <<o[1], s.item>> \in favorites
      BY <1>0, <3>1 DEF OwedIsFavorite
    <3>3. <<o[1], s.item>> # <<u, i>>
      BY <3>1, <3>2
    <3> QED
      BY <3>1, <3>2, <3>3
  <2>3. ASSUME NEW t \in Tokens, RegisterDevice(u, t) \/ UnregisterDevice(u, t)
        PROVE  OwedIsFavorite'
    BY <1>2, <2>3 DEF RegisterDevice, UnregisterDevice, UserCall, feedVars
  <2>4. ASSUME DeleteUser(u) PROVE OwedIsFavorite'
    BY <1>0, <2>4 DEF DeleteUser, UserCall, feedVars, OwedIsFavorite
  <2> QED
    BY <2>1, <2>2, <2>3, <2>4
<1> QED
  BY <1>1, <1>3, <1>4, <1>5 DEF Next, UserStep

LEMMA PageStaysTimed == ASSUME TypeInv, PageTimed, [Next]_vars PROVE PageTimed'
<1>1. FeedNext \/ UNCHANGED feedVars
  BY NextIsFeedStep
<1>2. page \in [open : BOOLEAN, start : Nat, rows : SUBSET Row]
  BY DEF TypeInv, TypeOK
<1>3. ASSUME NEW i \in Items, NEW v \in Values, InsertScheduleSnapshot(i, v)
      PROVE  PageTimed'
  BY <1>2, <1>3 DEF InsertScheduleSnapshot, PageTimed
<1>4. CASE BeginPage \/ CommitPage \/ AbortPage \/ Tick \/ UNCHANGED feedVars
  BY <1>4 DEF BeginPage, CommitPage, AbortPage, Tick, PageTimed, NoPage, feedVars
<1> QED
  BY <1>1, <1>3, <1>4 DEF FeedNext

LEMMA AckedStaysFolded ==
  ASSUME TypeInv, TypeInv', AckedFolds, acked' = acked, [Next]_vars
  PROVE  AckedFolds'
<1>1. rows \subseteq rows' /\ clock <= clock' /\ clock \in Nat /\ clock' \in Nat
  <2>1. FeedNext \/ UNCHANGED feedVars
    BY NextIsFeedStep
  <2>2. clock \in Nat
    BY DEF TypeInv, TypeOK
  <2> QED
    BY <2>1, <2>2 DEF FeedNext, BeginPage, CommitPage, AbortPage, Tick,
                      InsertScheduleSnapshot, feedVars
<1>2. \A k \in rows : k.obs \in Nat
  BY RowFacts DEF TypeInv
<1>3. \A k \in rows : k.obs <= clock - Lag => k.obs <= clock' - Lag
  BY <1>1, <1>2, DispatcherAssumption
<1> QED
  BY <1>1, <1>3 DEF AckedFolds, ScheduleKey

\* The key of an accepted push names one row, and that row is behind the lag.
LEMMA AckedRow ==
  ASSUME AckedFolds, NEW a \in acked, NEW k, k.id \in Nat, a.key = ScheduleKey(k)
  PROVE  \E q \in rows : q.id = k.id /\ q.obs <= clock - Lag
<1>1. a.key = <<"schedule", k.id>>
  BY DEF ScheduleKey
<1>2. PICK q \in rows : a.key = ScheduleKey(q) /\ q.obs <= clock - Lag
  BY <1>1 DEF AckedFolds
<1> QED
  BY <1>1, <1>2 DEF ScheduleKey

LEMMA SkipCommitStep ==
  ASSUME TypeInv, TypeInv', CursorInv, SkipInv, CommitFeed PROVE SkipInv'
<1>0. /\ TablesInv /\ OwedIsFavorite /\ PageTimed /\ AckedFolds /\ AckedSettles /\ Passed
      /\ \A r \in Runs : JobsFold(run[r]) /\ Pending(run[r])
      /\ [Next]_vars /\ FeedInv /\ None \notin Int
      /\ UNCHANGED <<run, cursor, acked, clock, ledger>>
  BY DispatcherAssumption
  DEF SkipInv, TablesInv, Next, TypeInv, CommitFeed, CommitPage, userVars
<1>1. /\ rows' = rows \cup page.rows
      /\ \A s \in page.rows : clock - Lag < s.obs
      /\ \A s, q \in rows' : s.id = q.id => s = q
      /\ \A s \in rows' : s.obs \in Nat /\ s.id \in Nat
  BY <1>0, CommittedRowsAreNew
<1>2. clock \in Nat /\ clock - Lag \in Int
  BY DispatcherAssumption DEF TypeInv, TypeOK
<1>3. \A o \in owed, s \in rows' : s.id = o[2] => s \in rows
  BY <1>0, <1>1 DEF OwedIsFavorite
<1>4. \A o \in owed', s \in rows' : o \notin owed /\ s.id = o[2] => s \in page.rows
  BY <1>0, <1>1 DEF CommitFeed
<1>5. /\ \A o \in owed : \A t : Beyond(o, t) => Beyond(o, t)'
      /\ \A o \in owed : LeftBehind(o) => LeftBehind(o)'
      /\ owed \subseteq owed'
  <2>1. owed \subseteq owed'
    BY DEF CommitFeed
  <2> QED
    BY <1>0, <1>3, <2>1, LeftBehindStays DEF Beyond
<1>6. \A o \in owed' \ owed, t \in Int : t <= clock - Lag => Beyond(o, t)'
  BY <1>1, <1>2, <1>4 DEF Beyond
<1>7. TablesInv'
  BY <1>0, OwedKeepsFavorite, PageStaysTimed, AckedStaysFolded DEF TablesInv
<1>8. AckedSettles'
  <2> SUFFICES ASSUME NEW a \in acked, NEW o \in owed', NEW s \in rows', NEW k \in rows',
                      a.user = o[1], a.key = ScheduleKey(k), s.id = o[2], s.item = k.item,
                      ~Before(k, s)
               PROVE  cursor # None /\ s.obs <= cursor
    BY <1>0 DEF AckedSettles, ScheduleKey, Before
  <2>1. k \in rows /\ k.obs <= clock - Lag
    <3>1. PICK q \in rows : q.id = k.id /\ q.obs <= clock - Lag
      BY <1>0, <1>1, AckedRow
    <3>2. q = k
      BY <1>1, <3>1
    <3> QED
      BY <3>1, <3>2
  <2>2. CASE o \in owed
    BY <1>0, <1>3, <2>1, <2>2 DEF AckedSettles
  <2>3. CASE o \notin owed
    BY <1>1, <1>2, <1>4, <2>1, <2>3 DEF Before
  <2> QED
    BY <2>2, <2>3
<1>9. Passed'
  <2>1. cursor # None => cursor \in Int /\ cursor <= clock - Lag
    BY DEF TypeInv, TypeOK, LagInv, CursorLags, Dates
  <2> QED
    BY <1>0, <1>5, <1>6, <2>1 DEF Passed
<1>10. ASSUME NEW r \in Runs PROVE JobsFold(run[r])' /\ Pending(run[r])'
  <2> DEFINE p == run[r]
  <2>0. /\ p \in Process /\ Coherent(p) /\ JobsFold(p) /\ Pending(p) /\ run'[r] = p
        /\ p.watermark \in Int /\ p.watermark <= clock - Lag
        /\ p.checkpoint # None => p.checkpoint \in Int /\ p.checkpoint <= clock - Lag
        /\ \A job \in p.todo : job.observedAt \in Int /\ job.observedAt <= clock - Lag
    BY <1>0 DEF TypeInv, TypeOK, LagInv, Lagging, Process, Job, Dates
  <2> HIDE DEF p
  <2>1. ASSUME NEW job, NEW k \in rows, Folds(job, k, p)
        PROVE  Folds(job, k, p)' /\ \A s \in page.rows : s.id \notin job.ids
    <3>1. k.obs <= clock - Lag
      BY <1>1, <1>2, <2>0, <2>1 DEF Folds
    <3>2. \A s \in page.rows : Before(k, s)
      BY <1>1, <1>2, <3>1 DEF Before
    <3>3. Covered(k, p.since)' = Covered(k, p.since)
      BY <1>0, <1>1, <2>0, <3>2 DEF Covered, p, Before
    <3>4. Folds(job, k, p)'
      BY <1>0, <2>0, <2>1, <3>3 DEF Folds, ScheduleKey, ToDate, p
    <3>5. ASSUME NEW s \in page.rows, s.id \in job.ids PROVE FALSE
      <4>1. PICK q \in Covered(k, p.since) : s.id = q.id
        BY <2>1, <3>5 DEF Folds
      <4>2. q = s
        BY <1>1, <4>1 DEF Covered
      <4> QED
        BY <3>2, <4>1, <4>2 DEF Covered
    <3> QED
      BY <3>4, <3>5
  <2>2. JobsFold(run[r])'
    <3>1. \A job, k : k \in rows /\ Folds(job, k, p) => k \in rows' /\ Folds(job, k, run[r])'
      <4> SUFFICES ASSUME NEW job, NEW k \in rows, Folds(job, k, p)
                   PROVE  k \in rows' /\ Folds(job, k, run[r])'
        OBVIOUS
      <4>1. Folds(job, k, p)'
        BY <2>1
      <4> QED
        BY <1>1, <4>1 DEF p
    <3> QED
      BY <2>0, <3>1 DEF JobsFold, Delivering
  <2>3. ASSUME NEW o \in owed PROVE PendingFor(o, run[r])'
    <3>1. PendingFor(o, p)
      BY <2>0, <2>3 DEF Pending
    <3>2. \A t : Beyond(o, t) => \A s \in rows' : s.id = o[2] => t < s.obs
      BY <1>5, <2>3 DEF Beyond
    <3> QED
      BY <1>5, <2>0, <2>3, <3>1, <3>2 DEF PendingFor, Ahead, Reachable, Delivering, Beyond
  <2>4. ASSUME NEW o \in owed' \ owed PROVE PendingFor(o, run[r])'
    <3>1. \A t \in Int : t <= clock - Lag => \A s \in rows' : s.id = o[2] => t < s.obs
      BY <1>6, <2>4 DEF Beyond
    <3>2. Ahead(o, run[r])'
      BY <2>0, <3>1 DEF Ahead, Beyond
    <3>3. p.pc = "advance" => Beyond(o, run[r].checkpoint)'
      <4>1. p.pc = "advance" => p.checkpoint # None
        BY DEF CursorInv, AheadOfCursor, p
      <4> QED
        BY <2>0, <3>1, <4>1 DEF Beyond
    <3>4. p.pc \in {"users", "send"} /\ p.phase = "schedule" => o[2] \notin p.job.ids
      <4> SUFFICES ASSUME p.pc \in {"users", "send"}, p.phase = "schedule"
                   PROVE  o[2] \notin p.job.ids
        OBVIOUS
      <4>1. PICK k \in rows : Folds(p.job, k, p)
        BY <2>0 DEF Coherent, JobsFold, Delivering
      <4>2. \E s \in page.rows : s.id = o[2]
        BY <2>4 DEF CommitFeed
      <4> QED
        BY <2>1, <4>1, <4>2
    <3> QED
      BY <2>0, <3>2, <3>3, <3>4 DEF PendingFor, Delivering
  <2> QED
    BY <2>2, <2>3, <2>4 DEF Pending
<1> QED
  BY <1>7, <1>8, <1>9, <1>10 DEF SkipInv

\* Whoever leaves the stored rows, the job and the cursor alone keeps the invariant.
LEMMA SkipQuietStep ==
  ASSUME TypeInv, TypeInv', SkipInv, [Next]_vars,
         UNCHANGED <<rows, run, cursor, acked>>, owed' \subseteq owed
  PROVE  SkipInv'
<1>0. /\ TablesInv /\ PageTimed /\ AckedFolds /\ AckedSettles /\ Passed
      /\ \A r \in Runs : JobsFold(run[r]) /\ Pending(run[r])
  BY DEF SkipInv, TablesInv
<1>1. TablesInv'
  BY <1>0, OwedKeepsFavorite, PageStaysTimed, AckedStaysFolded DEF TablesInv
<1>2. AckedSettles'
  BY <1>0 DEF AckedSettles, ScheduleKey, Before
<1>3. \A o \in owed' : LeftBehind(o) => LeftBehind(o)'
  BY LeftBehindStays
<1>4. Passed'
  BY <1>0, <1>3 DEF Passed, Beyond
<1>5. ASSUME NEW r \in Runs PROVE JobsFold(run[r])' /\ Pending(run[r])'
  <2>1. JobsFold(run[r])'
    BY <1>0 DEF JobsFold, Delivering, Folds, Covered, ScheduleKey, ToDate, Before
  <2>2. Pending(run[r])'
    BY <1>0, <1>3 DEF Pending, PendingFor, Ahead, Reachable, Delivering, Beyond
  <2> QED
    BY <2>1, <2>2
<1> QED
  BY <1>1, <1>2, <1>4, <1>5 DEF SkipInv

LEMMA SkipOutsideStep ==
  ASSUME TypeInv, TypeInv', CursorInv, SkipInv,
         CommitFeed \/ OtherFeed \/ UserStep \/ UNCHANGED vars
  PROVE  SkipInv'
<1>1. CASE CommitFeed
  BY <1>1, SkipCommitStep
<1>2. CASE OtherFeed \/ UserStep \/ UNCHANGED vars
  <2>1. UNCHANGED <<rows, run, cursor, acked>> /\ owed' \subseteq owed
    BY <1>2 DEF OtherFeed, BeginPage, AbortPage, Tick, InsertScheduleSnapshot, UserStep,
                UserCall, AddFavorite, RemoveFavorite, RegisterDevice, UnregisterDevice,
                DeleteUser, vars, feedVars
  <2>2. [Next]_vars
    BY <1>2 DEF Next
  <2> QED
    BY <2>1, <2>2, SkipQuietStep
<1> QED
  BY <1>1, <1>2

-----------------------------------------------------------------------------
\* Steps of the job.

(* The read of the feed: every change that is owed is among the jobs, or   *)
(* later than everything they will move the cursor to.                     *)
LEMMA ReadLeavesPending ==
  ASSUME NEW r \in Runs, TypeInv, CursorInv, SkipInv, BatchesWhole, FindChanges(r)
  PROVE  JobsFold(run'[r]) /\ \A o \in owed : PendingFor(o, run'[r])
<1> DEFINE old == run[r]
           batch == FindScheduleChanges(old.since, old.watermark)
<1>0. /\ old \in Process /\ At(r, "changes") /\ FeedInv
      /\ old.since \in Int /\ old.watermark \in Int /\ None \notin Int
  BY DispatcherAssumption DEF FindChanges, TypeInv, TypeOK, Process, Dates
<1>1. /\ run' = [run EXCEPT ![r] = [old EXCEPT !.pc = "jobs", !.todo = GroupByItem(batch),
                        !.checkpoint = IF Cardinality(batch) < Limit
                                       THEN old.watermark ELSE None]]
      /\ run \in [Runs -> Process]
  BY DEF FindChanges, Local, TypeInv, TypeOK
<1> DEFINE new == run'[r]
<1> HIDE DEF batch, old
<1>2. /\ new.pc = "jobs" /\ new.phase = old.phase /\ new.since = old.since
      /\ new.watermark = old.watermark /\ new.todo = GroupByItem(batch)
      /\ new.checkpoint = IF Cardinality(batch) < Limit THEN old.watermark ELSE None
  BY <1>0, <1>1 DEF Process
<1> HIDE DEF new
<1>3. old.phase = "schedule"
  BY <1>0 DEF SkipInv, JobsFold, At, old
<1>4. old.since = cursor /\ cursor # None
  BY <1>0, <1>3 DEF CursorInv, AheadOfCursor, InSchedulePhase, At, old
<1>5. \A s \in batch : s \in rows /\ s.obs <= old.watermark /\ s.obs \in Nat
  BY <1>0, RowFacts DEF FindScheduleChanges, batch
<1>6. \A job \in new.todo : /\ job.kind = "schedule"
                            /\ \E k \in batch : Folds(job, k, new)
  <2> SUFFICES ASSUME NEW job \in GroupByItem(batch)
               PROVE  job.kind = "schedule" /\ \E k \in batch : Folds(job, k, new)
    BY <1>2
  <2>1. /\ job.kind = "schedule"
        /\ \E k \in batch : /\ job.key = ScheduleKey(k) /\ job.observedAt = ToDate(k.obs)
                            /\ job.ids = {s.id : s \in Covered(k, old.since)}
    BY <1>0, JobsFoldRows DEF batch
  <2> QED
    BY <1>2, <1>5, <2>1 DEF Folds
<1>7. JobsFold(new)
  <2>1. new.checkpoint # None => new.checkpoint <= new.watermark
    BY <1>0, <1>2
  <2>2. new.checkpoint = None => new.todo # {}
    <3> SUFFICES ASSUME ~(Cardinality(batch) < Limit) PROVE GroupByItem(batch) # {}
      BY <1>0, <1>2
    <3>1. batch # {}
      BY FS_EmptySet, DispatcherAssumption
    <3>2. PICK s \in batch : TRUE
      BY <3>1
    <3>3. ChangeJob({q \in batch : q.item = s.item}) \in GroupByItem(batch)
      BY DEF GroupByItem
    <3> QED
      BY <3>3
  <2> QED
    <3>1. Delivering(new) /\ new.phase = "schedule" /\ new.pc \notin {"cursor", "changes"}
      BY <1>2, <1>3 DEF Delivering
    <3>2. \A job \in new.todo : job.kind = "schedule" /\ \E k \in rows : Folds(job, k, new)
      BY <1>5, <1>6
    <3> QED
      BY <2>1, <2>2, <3>1, <3>2 DEF JobsFold
<1>8. \A job \in new.todo : job.observedAt \in Int /\ job.observedAt <= old.watermark
  <2> SUFFICES ASSUME NEW job \in new.todo
               PROVE  job.observedAt \in Int /\ job.observedAt <= old.watermark
    OBVIOUS
  <2>1. PICK k \in batch : job.observedAt = ToDate(k.obs)
    BY <1>6 DEF Folds
  <2>2. k.obs \in Int /\ ToDate(k.obs) \in Int /\ ToDate(k.obs) <= k.obs
    BY <1>5, ToDateIsDate DEF Dates
  <2> QED
    BY <1>0, <1>5, <2>1, <2>2
<1>9. ASSUME NEW o \in owed PROVE Ahead(o, new)
  <2>1. PICK s \in rows : s.id = o[2] /\ <<o[1], s.item>> \in favorites
    BY DEF SkipInv, TablesInv, OwedIsFavorite
  <2>2. /\ \A q \in rows : q.id = o[2] => q = s
        /\ s.obs \in Nat
    BY <1>0, <2>1, RowFacts
  <2>3. CASE LeftBehind(o)
    BY <2>3 DEF Ahead
  <2>4. CASE s.obs > old.watermark
    BY <1>0, <1>2, <1>8, <2>2, <2>4 DEF Ahead, Beyond
  <2>5. CASE ~LeftBehind(o) /\ s.obs <= old.watermark
    <3>1. old.since < s.obs
      BY <1>4, <2>1, <2>5 DEF SkipInv, Passed, Beyond
    <3>2. s.item \in FavoriteItems
      BY <2>1 DEF FavoriteItems
    <3>3. s \in Unread(old.since, old.watermark)
      BY <2>5, <3>1, <3>2 DEF Unread
    <3>4. CASE s \in batch
      <4>1. PICK job \in GroupByItem(batch) : job = ChangeJob({q \in batch : q.item = s.item})
        BY <3>4 DEF GroupByItem
      <4>2. s.id \in job.ids
        BY <3>4, <4>1 DEF ChangeJob
      <4> QED
        BY <1>2, <2>1, <4>2 DEF Ahead
    <3>5. CASE s \notin batch
      <4>1. new.checkpoint = None
        BY <1>0, <1>2, <3>3, <3>5, LeftOutWhenFull DEF batch
      <4>2. ASSUME NEW job \in new.todo PROVE job.observedAt < s.obs
        <5>1. PICK k \in batch : job.observedAt = ToDate(k.obs)
          BY <1>6 DEF Folds
        <5>2. k.obs < s.obs
          BY <1>0, <3>3, <3>5 DEF BatchesWhole, batch, old
        <5>3. k.obs \in Int /\ ToDate(k.obs) \in Int /\ ToDate(k.obs) <= k.obs
          BY <1>5, ToDateIsDate DEF Dates
        <5> QED
          BY <2>2, <5>1, <5>2, <5>3
      <4> QED
        BY <2>2, <4>1, <4>2 DEF Ahead, Beyond
    <3> QED
      BY <3>4, <3>5
  <2> QED
    BY <1>0, <2>2, <2>3, <2>4, <2>5
<1> QED
  BY <1>2, <1>7, <1>9 DEF PendingFor, new

\* The bookkeeping after a job nobody is owed anything of any more.
LEMMA AfterJobPending ==
  ASSUME FeedInv, NEW p \in Process, p.pc \in {"jobs", "users"}, NEW job \in p.todo,
         NEW delivered \in BOOLEAN, JobsFold(p), NEW O \in SUBSET owed,
         \A o \in O : PendingFor(o, p),
         p.phase = "schedule" /\ delivered =>
           \A o \in O : o[2] \in job.ids => LeftBehind(o)
  PROVE  /\ JobsFold(AfterJob(p, job, delivered))
         /\ \A o \in O : PendingFor(o, AfterJob(p, job, delivered))
<1> DEFINE new == AfterJob(p, job, delivered)
<1>1. /\ new.pc = "jobs" /\ new.todo = p.todo \ {job} /\ new.phase = p.phase
      /\ new.since = p.since /\ new.watermark = p.watermark
      /\ new.blocked = (p.blocked \/ (job.kind = "schedule" /\ ~delivered))
      /\ new.checkpoint = IF job.kind = "schedule" /\ ~new.blocked
                         THEN job.observedAt ELSE p.checkpoint
  BY DEF AfterJob, Process
<1> HIDE DEF new
<1>2. CASE p.phase # "schedule"
  BY <1>1, <1>2 DEF JobsFold, PendingFor, Delivering, new
<1>3. CASE p.phase = "schedule"
  <2>1. PICK k \in rows : job.kind = "schedule" /\ Folds(job, k, p)
    BY <1>3 DEF JobsFold, Delivering
  <2>2. job.observedAt \in Int /\ job.observedAt <= p.watermark
    <3>1. k.obs \in Int /\ ToDate(k.obs) \in Int /\ ToDate(k.obs) <= k.obs
      BY RowFacts, ToDateIsDate DEF Dates
    <3> QED
      BY <2>1, <3>1 DEF Folds, Process, Dates
  <2>3. JobsFold(new)
    <3>1. Delivering(p) /\ Delivering(new) /\ new.pc = "jobs" /\ new.phase = "schedule"
      BY <1>1, <1>3 DEF Delivering
    <3>2. \A j \in new.todo : j.kind = "schedule" /\ \E q \in rows : Folds(j, q, new)
      BY <1>1, <1>3, <3>1 DEF JobsFold, Folds
    <3>3. new.checkpoint # None => new.checkpoint <= new.watermark
      BY <1>1, <1>3, <2>2, <3>1 DEF JobsFold
    <3>4. new.checkpoint = None => new.blocked
      BY <1>1, <2>1, <2>2, DispatcherAssumption
    <3> QED
      BY <3>1, <3>2, <3>3, <3>4 DEF JobsFold
  <2>4. \A o \in O : PendingFor(o, new)
    BY <1>1, <1>3, <2>1 DEF PendingFor, Ahead, Delivering
  <2> QED
    BY <2>3, <2>4 DEF new
<1> QED
  BY <1>2, <1>3

\* Steps of deliver() for one job: the plan of the phase stays, so only the
\* users of this job have to be looked after.
SamePlan(p, q) ==
  /\ Delivering(p) /\ Delivering(q)
  /\ q.phase = p.phase /\ q.since = p.since /\ q.todo = p.todo
  /\ q.watermark = p.watermark /\ q.checkpoint = p.checkpoint /\ q.blocked = p.blocked

LEMMA SamePlanFolds ==
  ASSUME NEW p, NEW q, JobsFold(p), SamePlan(p, q) PROVE JobsFold(q)
  BY DEF SamePlan, JobsFold, Delivering, Folds

LEMMA SamePlanPending ==
  ASSUME NEW p, NEW q, NEW o, PendingFor(o, p), SamePlan(p, q),
         q.pc \in {"users", "send"} /\ q.phase = "schedule" /\ o[2] \in q.job.ids
           => Reachable(o, q)
  PROVE  PendingFor(o, q)
  BY DEF SamePlan, PendingFor, Ahead, Delivering

LEMMA DeliverLeavesPending ==
  ASSUME NEW r \in Runs, Runs = {r}, TypeInv, CursorInv, SkipInv, NEW o,
         \/ FindTokens(r) \/ FinishUser(r) \/ SendThrows(r)
         \/ \E u \in Users : Deduplicate(r, u) \/ ClaimDelivery(r, u)
         \/ \E t \in Tokens : SendAccepted(r, t) \/ SendFailed(r, t) \/ SendUnregistered(r, t)
  PROVE  JobsFold(run'[r]) /\ (o \in owed' => PendingFor(o, run'[r]))
<1> DEFINE old == run[r]
           new == run'[r]
<1>0. /\ old \in Process /\ Coherent(old) /\ run \in [Runs -> Process] /\ FeedInv
      /\ JobsFold(old) /\ None \notin Users /\ old.targets \subseteq Users \X Tokens
      /\ o \in owed' => o \in owed /\ PendingFor(o, old) /\ o[1] \in Users
  BY ProcessWrites, DispatcherAssumption DEF RunStep, TypeInv, TypeOK, SkipInv, Pending, Process
<1> DEFINE Reached == o \in owed' /\ new.pc \in {"users", "send"} /\ new.phase = "schedule"
                        /\ o[2] \in new.job.ids => Reachable(o, new)
<1>1. ASSUME SamePlan(old, new), Reached
      PROVE  JobsFold(new) /\ (o \in owed' => PendingFor(o, new))
  <2> HIDE DEF new, old
  <2> QED
    BY <1>0, <1>1, SamePlanFolds, SamePlanPending
\* What the process before the step still had to do for this user.
<1>2. ASSUME o \in owed', old.pc \in {"users", "send"}, old.phase = "schedule", o[2] \in old.job.ids
      PROVE  Reachable(o, old)
  BY <1>0, <1>2 DEF PendingFor
<1>3. CASE FindTokens(r)
  <2>1. PICK job : /\ run' = [run EXCEPT ![r].pc = "users", ![r].job = job,
                                        ![r].targets = FindTokensForFavorite(job.item)]
                   /\ owed' = {w \in owed : w[2] \in job.ids =>
                                 \E t \in FindTokensForFavorite(job.item) : t[1] = w[1]}
    BY <1>3 DEF FindTokens
  <2>2. /\ new.pc = "users" /\ new.job = job /\ SamePlan(old, new)
        /\ new.targets = FindTokensForFavorite(job.item) /\ old.pc = "jobs"
        /\ new.user = None
    BY <1>0, <1>3, <2>1 DEF Process, FindTokens, At, Coherent, SamePlan, Delivering
  <2>3. Reached
    BY <1>0, <2>1, <2>2 DEF Reachable
  <2> HIDE DEF Reached
  <2> QED
    BY <1>1, <2>2, <2>3
<1>4. ASSUME NEW u \in Users, Deduplicate(r, u) PROVE JobsFold(new) /\ (o \in owed' => PendingFor(o, new))
  <2>1. /\ run' = [run EXCEPT ![r] = [old EXCEPT !.targets = WithoutUser(old.targets, u)]]
        /\ old.pc = "users" /\ <<u, old.job.key>> \in ledger
    BY <1>4 DEF Deduplicate, Local, At
  <2>2. /\ new.pc = "users" /\ new.job = old.job /\ SamePlan(old, new)
        /\ new.targets = WithoutUser(old.targets, u) /\ new.allDelivered = old.allDelivered
        /\ new.user = old.user /\ new.anySent = old.anySent
    BY <1>0, <2>1 DEF Process, SamePlan, Delivering
  <2>3. ASSUME o \in owed', old.phase = "schedule", o[2] \in old.job.ids, o[1] = u PROVE LeftBehind(o)
    <3>1. PICK k \in rows : Folds(old.job, k, old)
      BY <1>0, <2>1, <2>3 DEF Coherent, JobsFold, Delivering
    <3>2. PICK s \in Covered(k, old.since) : o[2] = s.id
      BY <2>3, <3>1 DEF Folds
    <3>3. s \in rows /\ s.item = k.item /\ old.since < s.obs /\ ~Before(k, s)
      BY <3>2 DEF Covered
    <3>4. old.since = cursor /\ old.since \in Int /\ s.obs \in Int
      BY <1>0, <2>1, <2>3, <3>3, RowFacts
      DEF CursorInv, AheadOfCursor, InSchedulePhase, Process, Dates
    <3>5. \A a \in acked : a.user = o[1] => a.key # ScheduleKey(k)
      BY <1>0, <2>3, <3>2, <3>3, <3>4 DEF SkipInv, AckedSettles
    <3>6. \A q \in Runs : run[q].user # o[1]
      BY <1>0, <2>1, <2>3 DEF Coherent
    <3>7. <<o[1], ScheduleKey(k)>> \in ledger
      BY <2>1, <2>3, <3>1 DEF Folds
    <3> QED
      BY <3>2, <3>3, <3>5, <3>6, <3>7 DEF LeftBehind
  <2>4. Reached
    BY <1>0, <1>2, <2>1, <2>2, <2>3 DEF Reachable, WithoutUser, SamePlan
  <2> HIDE DEF Reached
  <2> QED
    BY <1>1, <2>1, <2>2, <2>4
<1>5. ASSUME NEW u \in Users, ClaimDelivery(r, u) PROVE JobsFold(new) /\ (o \in owed' => PendingFor(o, new))
  <2>1. /\ new.pc = "send" /\ new.job = old.job /\ SamePlan(old, new)
        /\ new.targets = old.targets /\ new.allDelivered = old.allDelivered
        /\ new.user = u /\ ~new.anySent /\ old.pc = "users" /\ old.user = None
    BY <1>0, <1>5 DEF Process, ClaimDelivery, At, Coherent, SamePlan, Delivering
  <2>2. Reached
    BY <1>0, <1>2, <2>1 DEF Reachable, SamePlan
  <2> HIDE DEF Reached
  <2> QED
    BY <1>1, <2>1, <2>2
<1>6. CASE FinishUser(r)
  <2>1. /\ new.pc = "users" /\ new.job = old.job /\ SamePlan(old, new)
        /\ new.targets = old.targets /\ new.allDelivered = (old.allDelivered /\ old.anySent)
        /\ new.user = None /\ ~new.anySent /\ old.pc = "send"
    BY <1>0, <1>6 DEF Process, FinishUser, At, SamePlan, Delivering
  <2>2. Reached
    BY <1>0, <1>2, <2>1 DEF Reachable, SamePlan
  <2> HIDE DEF Reached
  <2> QED
    BY <1>1, <2>1, <2>2
<1>7. CASE SendThrows(r)
  <2>1. new.pc = "abort" /\ SamePlan(old, new) /\ old.pc = "send"
    BY <1>0, <1>7 DEF Process, SendThrows, Local, At, SamePlan, Delivering
  <2>2. Reached
    BY <2>1
  <2> HIDE DEF Reached
  <2> QED
    BY <1>1, <2>1, <2>2
<1>8. ASSUME NEW t \in Tokens,
             SendAccepted(r, t) \/ SendFailed(r, t) \/ SendUnregistered(r, t)
      PROVE  JobsFold(new) /\ (o \in owed' => PendingFor(o, new))
  <2>1. /\ new.pc = "send" /\ old.pc = "send" /\ new.job = old.job /\ SamePlan(old, new)
        /\ new.targets = old.targets \ {<<old.user, t>>} /\ new.user = old.user
        /\ new.allDelivered => old.allDelivered
        /\ new.anySent = old.anySent \/ SendAccepted(r, t)
    <3>1. CASE SendAccepted(r, t)
      BY <1>0, <3>1 DEF Process, SendAccepted, At, SamePlan, Delivering
    <3>2. CASE SendFailed(r, t)
      BY <1>0, <3>2 DEF Process, SendFailed, Local, At, SamePlan, Delivering
    <3>3. CASE SendUnregistered(r, t)
      BY <1>0, <3>3 DEF Process, SendUnregistered, At, SamePlan, Delivering
    <3> QED
      BY <1>8, <3>1, <3>2, <3>3
  <2>2. SendAccepted(r, t) /\ o \in owed' /\ o[1] = old.user => o[2] \notin old.job.ids
    BY DEF SendAccepted
  <2>3. Reached
    BY <1>0, <1>2, <2>1, <2>2 DEF Reachable, SamePlan
  <2> HIDE DEF Reached
  <2> QED
    BY <1>1, <2>1, <2>3
<1> QED
  BY <1>3, <1>4, <1>5, <1>6, <1>7, <1>8

LEMMA JobLeavesPending ==
  ASSUME NEW r \in Runs, Runs = {r}, TypeInv, CursorInv, SkipInv, BatchesWhole,
         RunStep(r) \/ Crash(r)
  PROVE  JobsFold(run'[r]) /\ \A o \in owed' : PendingFor(o, run'[r])
<1> DEFINE old == run[r]
           new == run'[r]
<1>0. /\ old \in Process /\ Coherent(old) /\ run \in [Runs -> Process] /\ FeedInv
      /\ JobsFold(old) /\ owed' \subseteq owed
      /\ \A o \in owed' : o \in owed /\ PendingFor(o, old)
  BY ProcessWrites DEF TypeInv, TypeOK, SkipInv, Pending
\* Outside the schedule phase nothing is claimed.
<1>1. ASSUME new.pc \in {"idle", "reminders"} PROVE JobsFold(new) /\ \A o \in owed' : PendingFor(o, new)
  BY <1>1 DEF JobsFold, PendingFor, Delivering
<1>2. CASE StartRun(r)
  <2>1. new.pc = "cursor" /\ new.phase = "schedule"
    BY <1>0, <1>2 DEF StartRun, Local, Idle
  <2> QED
    BY <2>1 DEF JobsFold, PendingFor, Delivering
<1>3. CASE ReadNoCursor(r)
  <2>1. /\ new.pc = "advance" /\ new.checkpoint = old.watermark
        /\ \A o \in owed' : Beyond(o, old.watermark)
    BY <1>0, <1>3 DEF ReadNoCursor, Process, Beyond
  <2> QED
    BY <2>1 DEF JobsFold, PendingFor, Delivering
<1>4. CASE ReadCursor(r)
  <2>1. new.pc \in {"changes", "reminders"} /\ new.phase = old.phase /\ old.pc = "cursor"
    BY <1>0, <1>4 DEF ReadCursor, Local, At, Process
  <2> QED
    BY <1>0, <2>1 DEF JobsFold, PendingFor, Delivering
<1>5. CASE FindChanges(r)
  BY <1>0, <1>5, ReadLeavesPending
<1>6. CASE SkipJob(r)
  <2>1. PICK job \in NextJobs(r) : /\ run' = [run EXCEPT ![r] = AfterJob(old, job, TRUE)]
                                  /\ owed' = {o \in owed : o[2] \notin job.ids}
    BY <1>6 DEF SkipJob
  <2>2. job \in old.todo /\ old.pc = "jobs" /\ new = AfterJob(old, job, TRUE)
    BY <1>0, <1>6, <2>1 DEF SkipJob, NextJobs, At
  <2>3. \A o \in owed' : o[2] \notin job.ids
    BY <2>1
  <2>4. \A o \in owed' : PendingFor(o, old)
    BY <1>0
  <2> HIDE DEF old, new
  <2>5. /\ JobsFold(AfterJob(old, job, TRUE))
        /\ \A o \in owed' : PendingFor(o, AfterJob(old, job, TRUE))
    BY <1>0, <2>2, <2>3, <2>4, AfterJobPending
  <2> QED
    BY <2>2, <2>5 DEF new
<1>7. CASE DeliverReturns(r)
  <2>1. /\ new = AfterJob(old, old.job, old.allDelivered) /\ old.pc = "users"
        /\ old.targets = {} /\ old.job \in old.todo /\ old.allDelivered \in BOOLEAN
        /\ old.user = None
    BY <1>0, <1>7 DEF DeliverReturns, Local, At, Coherent, Process
  <2>2. \A o \in owed' : o[1] # None
    BY <1>0, DispatcherAssumption DEF TypeInv, TypeOK
  <2>3. ASSUME NEW o \in owed', old.phase = "schedule", old.allDelivered,
               o[2] \in old.job.ids
        PROVE  LeftBehind(o)
    BY <1>0, <2>1, <2>2, <2>3 DEF PendingFor, Reachable
  <2>4. \A o \in owed' : PendingFor(o, old)
    BY <1>0
  <2> HIDE DEF old, new
  <2>5. /\ JobsFold(AfterJob(old, old.job, old.allDelivered))
        /\ \A o \in owed' : PendingFor(o, AfterJob(old, old.job, old.allDelivered))
    BY <1>0, <2>1, <2>3, <2>4, AfterJobPending
  <2> QED
    BY <2>1, <2>5 DEF new
<1>8. CASE EndSchedule(r)
  <2>1. /\ old.pc = "jobs" /\ old.todo = {} /\ old.phase = "schedule"
        /\ new.pc = (IF old.blocked THEN "reminders" ELSE "advance")
        /\ old.checkpoint # None => new.checkpoint = old.checkpoint
    BY <1>0, <1>8 DEF EndSchedule, Local, At, Process
  <2>2. CASE old.blocked
    BY <1>1, <2>1, <2>2
  <2>3. CASE ~old.blocked
    <3>1. old.checkpoint # None
      BY <1>0, <2>1, <2>3 DEF JobsFold, Delivering
    <3>2. \A o \in owed' : Ahead(o, old)
      BY <1>0, <2>1, <2>3 DEF PendingFor, Delivering
    <3>3. \A o \in owed' : LeftBehind(o) \/ Beyond(o, old.checkpoint)
      BY <2>1, <3>1, <3>2 DEF Ahead
    <3>4. new.pc = "advance" /\ new.checkpoint = old.checkpoint
      BY <2>1, <2>3, <3>1
    <3> HIDE DEF old, new
    <3> QED
      BY <3>3, <3>4 DEF JobsFold, PendingFor, Delivering, new
  <2> QED
    BY <2>2, <2>3
<1>9. CASE AdvanceCursor(r)
  <2>1. new.pc = "reminders"
    BY <1>0, <1>9 DEF AdvanceCursor, Process
  <2> QED
    BY <1>1, <2>1
<1>10. CASE FindReminders(r)
  <2>1. /\ new.pc = "jobs" /\ new.phase = "reminder"
        /\ new.todo = ReminderJobs(old.startedAt)
    BY <1>0, <1>10 DEF FindReminders, Local, Idle
  <2>2. \A job \in new.todo : job.key[1] = "remind"
    BY <2>1 DEF ReminderJobs, ReminderJob, RemindKey
  <2> QED
    BY <2>1, <2>2 DEF JobsFold, PendingFor, Delivering
<1>11. CASE EndRun(r) \/ Crash(r) \/ AbortRun(r) \/ \E u \in Users : ClaimFails(r, u)
  <2>1. new.pc = "idle"
    BY <1>0, <1>11 DEF EndRun, Crash, AbortRun, ClaimFails, Local, Idle
  <2> QED
    BY <1>1, <2>1
<1>12. CASE \/ FindTokens(r) \/ FinishUser(r) \/ SendThrows(r)
            \/ \E u \in Users : Deduplicate(r, u) \/ ClaimDelivery(r, u)
            \/ \E t \in Tokens : SendAccepted(r, t) \/ SendFailed(r, t) \/ SendUnregistered(r, t)
  <2>1. \A o : JobsFold(new) /\ (o \in owed' => PendingFor(o, new))
    BY <1>0, <1>12, DeliverLeavesPending
  <2> QED
    BY <2>1
<1> QED
  BY <1>2, <1>3, <1>4, <1>5, <1>6, <1>7, <1>8, <1>9, <1>10, <1>11, <1>12 DEF RunStep

(* An accepted push tells everything of its item between the cursor and    *)
(* the row it is named after.                                              *)
LEMMA AcceptedSettles ==
  ASSUME NEW r \in Runs, TypeInv, CursorInv, SkipInv, NEW t \in Tokens, SendAccepted(r, t)
  PROVE  AckedFolds' /\ AckedSettles'
<1> DEFINE old == run[r]
           new == [user |-> old.user, token |-> t, key |-> old.job.key, ids |-> old.job.ids]
<1>0. /\ old \in Process /\ FeedInv /\ JobsFold(old) /\ AckedFolds /\ AckedSettles
      /\ old.pc = "send" /\ old.job \in old.todo /\ None \notin Int
      /\ old.watermark \in Int /\ old.watermark <= clock - Lag /\ clock - Lag \in Int
  BY DispatcherAssumption
  DEF TypeInv, TypeOK, SkipInv, TablesInv, SendAccepted, At, Coherent, LagInv, Lagging,
      Process, Dates
<1>1. /\ acked' = acked \cup {new}
      /\ owed' = {o \in owed : o[1] = old.user => o[2] \notin old.job.ids}
      /\ UNCHANGED <<rows, clock, cursor>>
  BY DEF SendAccepted, feedVars
<1>2. new.user = old.user /\ new.key = old.job.key
  OBVIOUS
<1> HIDE DEF new, old
<1>3. ASSUME old.phase # "schedule" PROVE \A n \in Nat : new.key # <<"schedule", n>>
  BY <1>0, <1>2, <1>3 DEF JobsFold, Delivering
<1>4. ASSUME old.phase = "schedule"
      PROVE  /\ \E k \in rows : Folds(old.job, k, old)
             /\ old.since = cursor /\ cursor # None /\ cursor \in Int
  <2>1. old.since = cursor /\ cursor # None
    BY <1>0, <1>4 DEF CursorInv, AheadOfCursor, InSchedulePhase, old
  <2> QED
    BY <1>0, <1>4, <2>1 DEF JobsFold, Delivering, Process, Dates
<1>5. AckedFolds'
  <2>1. ASSUME NEW n \in Nat, new.key = <<"schedule", n>>
        PROVE  \E k \in rows : new.key = ScheduleKey(k) /\ k.obs <= clock - Lag
    <3>1. PICK k \in rows : Folds(old.job, k, old)
      BY <1>3, <1>4, <2>1
    <3>2. k.obs \in Nat
      BY <1>0, RowFacts
    <3> QED
      BY <1>0, <1>2, <3>1, <3>2 DEF Folds
  <2> QED
    BY <1>0, <1>1, <2>1 DEF AckedFolds, ScheduleKey
<1>6. AckedSettles'
  <2>1. ASSUME NEW o \in owed', NEW s \in rows, NEW k \in rows, old.user = o[1],
               new.key = ScheduleKey(k), s.id = o[2], s.item = k.item, ~Before(k, s)
        PROVE  cursor # None /\ s.obs <= cursor
    <3>1. k.id \in Nat /\ s.obs \in Nat
      BY <1>0, RowFacts
    <3>2. old.phase = "schedule"
      BY <1>3, <2>1, <3>1 DEF ScheduleKey
    <3>3. PICK q \in rows : Folds(old.job, q, old)
      BY <1>4, <3>2
    <3>4. q = k
      <4>1. q.id = k.id
        <5>1. ScheduleKey(q) = ScheduleKey(k)
          BY <1>2, <2>1, <3>3 DEF Folds
        <5> QED
          BY <5>1 DEF ScheduleKey
      <4> QED
        BY <1>0, <4>1, RowFacts
    <3>5. s.id \notin old.job.ids
      BY <1>1, <2>1
    <3>6. s \notin Covered(k, old.since)
      BY <3>3, <3>4, <3>5 DEF Folds
    <3> QED
      BY <1>4, <2>1, <3>1, <3>2, <3>6 DEF Covered
  <2> QED
    BY <1>0, <1>1, <1>2, <2>1 DEF AckedSettles, ScheduleKey, Before
<1> QED
  BY <1>5, <1>6

LEMMA SkipJobStep ==
  ASSUME NEW r \in Runs, Runs = {r}, TypeInv, TypeInv', CursorInv, SkipInv, BatchesWhole,
         RunStep(r) \/ Crash(r)
  PROVE  SkipInv'
<1>0. /\ TablesInv /\ PageTimed /\ AckedFolds /\ AckedSettles /\ Passed
      /\ JobsFold(run[r]) /\ Pending(run[r]) /\ [Next]_vars
      /\ owed' \subseteq owed
  BY ProcessWrites DEF SkipInv, TablesInv, Next
<1>1. rows' = rows
  BY DEF RunStep, Local, StartRun, ReadNoCursor, ReadCursor, FindChanges, SkipJob,
     FindTokens, EndSchedule, AdvanceCursor, FindReminders, EndRun, DeliverReturns,
     FinishUser, AbortRun, SendThrows, Deduplicate, ClaimDelivery, ClaimFails,
     SendAccepted, SendFailed, SendUnregistered, Crash, feedVars
<1>2. \A o \in owed' : LeftBehind(o) => LeftBehind(o)'
  BY <1>0, LeftBehindStays
<1>3. JobsFold(run[r])' /\ Pending(run[r])'
  <2>1. JobsFold(run'[r]) /\ \A o \in owed' : PendingFor(o, run'[r])
    BY JobLeavesPending
  <2>2. JobsFold(run[r])'
    BY <1>1, <2>1 DEF JobsFold, Delivering, Folds, Covered, ScheduleKey, ToDate, Before
  <2>3. Pending(run[r])'
    BY <1>1, <1>2, <2>1 DEF Pending, PendingFor, Ahead, Reachable, Delivering, Beyond
  <2> QED
    BY <2>2, <2>3
<1>4. Passed'
  <2>1. CASE AdvanceCursor(r)
    <3>1. cursor' = run[r].checkpoint /\ run[r].pc = "advance"
      BY <2>1 DEF AdvanceCursor, At
    <3>2. \A o \in owed' : LeftBehind(o) \/ Beyond(o, cursor')
      BY <1>0, <3>1 DEF Pending, PendingFor
    <3> QED
      BY <1>1, <1>2, <3>2 DEF Passed, Beyond
  <2>2. CASE ~AdvanceCursor(r)
    <3>1. cursor' = cursor
      BY <1>0, <2>2, CursorWrites
    <3> QED
      BY <1>0, <1>1, <1>2, <3>1 DEF Passed, Beyond
  <2> QED
    BY <2>1, <2>2
<1>5. AckedFolds' /\ AckedSettles'
  <2>1. CASE \E t \in Tokens : SendAccepted(r, t)
    BY <2>1, AcceptedSettles
  <2>2. CASE acked' = acked
    <3>1. AckedFolds'
      BY <1>0, <2>2, AckedStaysFolded
    <3>2. cursor # None => cursor' # None /\ cursor <= cursor'
      <4>1. CASE AdvanceCursor(r)
        BY <4>1 DEF AdvanceCursor, At, CursorInv, AheadOfCursor
      <4>2. CASE ~AdvanceCursor(r)
        <5>1. cursor' = cursor
          BY <1>0, <4>2, CursorWrites
        <5> QED
          BY <5>1 DEF TypeInv, TypeOK, Dates
      <4> QED
        BY <4>1, <4>2
    <3>3. /\ \A s \in rows : s.obs \in Nat
          /\ cursor # None => cursor \in Int
          /\ cursor' # None => cursor' \in Int
      BY RowFacts DEF TypeInv, TypeOK, Dates
    <3>4. AckedSettles'
      BY <1>0, <1>1, <2>2, <3>2, <3>3 DEF AckedSettles, ScheduleKey, Before
    <3> QED
      BY <3>1, <3>4
  <2> QED
    BY <2>1, <2>2, ProcessWrites
<1>6. TablesInv'
  BY <1>0, <1>5, OwedKeepsFavorite, PageStaysTimed DEF TablesInv
<1> QED
  BY <1>3, <1>4, <1>5, <1>6 DEF SkipInv

-----------------------------------------------------------------------------

LEMMA SkipInit == ASSUME Init PROVE SkipInv
<1>1. \A r \in Runs : run[r] = Idle
  BY DEF Init
<1>2. \A r \in Runs : JobsFold(run[r]) /\ Pending(run[r])
  BY <1>1 DEF Init, JobsFold, Pending, Delivering, Idle
<1>3. TablesInv /\ AckedSettles /\ Passed
  BY DEF Init, FeedInit, NoPage, TablesInv, OwedIsFavorite, PageTimed, AckedFolds,
         AckedSettles, Passed
<1> QED
  BY <1>2, <1>3 DEF SkipInv

LEMMA SkipStep ==
  ASSUME NEW one, Runs = {one}, TypeInv, TypeInv', CursorInv, SkipInv, BatchesWhole, [Next]_vars
  PROVE  SkipInv'
<1>1. CASE CommitFeed \/ OtherFeed \/ UserStep \/ UNCHANGED vars
  BY <1>1, SkipOutsideStep
<1>2. CASE RunStep(one) \/ Crash(one)
  BY <1>2, SkipJobStep
<1> QED
  BY <1>1, <1>2 DEF Next

LEMMA PassedMeansNotSkipped == ASSUME SkipInv PROVE NothingSkipped
  BY DEF SkipInv, Passed, Beyond, NothingSkipped

(* Nothing a user is owed falls behind the cursor, whatever fails, crashes *)
(* or is edited in between, as long as one process of the job is alive at  *)
(* a time and the batch limit never separates rows observed at once.       *)
THEOREM NothingIsSkipped ==
  ASSUME NEW one, Runs = {one} PROVE Spec /\ []BatchesWhole => []NothingSkipped
<1>1. TypeInv /\ CursorInv /\ [Next]_vars => CursorInv'
  BY CursorStep
<1>2. TypeInv /\ TypeInv' /\ CursorInv /\ SkipInv /\ BatchesWhole /\ [Next]_vars => SkipInv'
  BY SkipStep
<1> QED
  BY CursorInit, SkipInit, PassedMeansNotSkipped, <1>1, <1>2, TypeAlways, PTL DEF Spec

-----------------------------------------------------------------------------
\* A backlog that fits one batch: what the batch limit of 500 rows means for the
\* collector, whose pages carry one time for all their rows.

(* The rows a run has yet to read are no more than one batch takes.        *)
BacklogFits ==
  \A r \in Runs : At(r, "changes") =>
    Cardinality(Unread(run[r].since, run[r].watermark)) <= Limit

LEMMA FittingBacklogStaysWhole ==
  ASSUME TypeInv, BacklogFits PROVE BatchesWhole
<1> SUFFICES ASSUME NEW r \in Runs, At(r, "changes"),
                    NEW q \in Unread(run[r].since, run[r].watermark)
             PROVE  q \in FindScheduleChanges(run[r].since, run[r].watermark)
  BY DEF BatchesWhole
<1> DEFINE found == Unread(run[r].since, run[r].watermark)
           ahead == {y \in found : Before(y, q)}
<1>1. IsFiniteSet(found) /\ found \subseteq rows /\ q \in found
  BY RowFacts, FS_Subset DEF TypeInv, Unread
<1>2. ahead \subseteq found \ {q}
  <2>1. ~Before(q, q)
    BY <1>1, RowFacts DEF TypeInv, Before
  <2> QED
    BY <2>1
<1>3. IsFiniteSet(found \ {q}) /\ Cardinality(found \ {q}) = Cardinality(found) - 1
  BY <1>1, FS_RemoveElement
<1>4. IsFiniteSet(ahead) /\ Cardinality(ahead) <= Cardinality(found \ {q})
  BY <1>2, <1>3, FS_Subset
<1>5. Cardinality(found) <= Limit
  BY DEF BacklogFits
<1>6. Cardinality(ahead) < Limit
  <2>1. Cardinality(found) \in Nat /\ Cardinality(ahead) \in Nat
    BY <1>1, <1>4, FS_CardinalityType
  <2> HIDE DEF found, ahead
  <2> QED
    BY <1>3, <1>4, <1>5, <2>1, DispatcherAssumption
<1> QED
  BY <1>6 DEF FindScheduleChanges, Unread

(* So however many items a page of the collector stores at one time, nothing *)
(* owed falls behind the cursor as long as the backlog of a run fits a batch *)
(* (notification-dispatcher.ts:109-114), whatever fails, crashes or is edited *)
(* besides: only a backlog of more than 500 rows can lose a change.          *)
COROLLARY FittingBacklogSkipsNothing ==
  ASSUME NEW one, Runs = {one} PROVE Spec /\ []BacklogFits => []NothingSkipped
<1>1. TypeInv /\ BacklogFits => BatchesWhole
  BY FittingBacklogStaysWhole
<1>2. Spec /\ []BatchesWhole => []NothingSkipped
  BY NothingIsSkipped
<1> QED
  BY <1>1, <1>2, TypeAlways, PTL

=============================================================================
