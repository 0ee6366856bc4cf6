------------------------------ MODULE ScheduleFeed ------------------------------
(***************************************************************************)
(* The table auction_schedule as the daily collector fills it.             *)
(*                                                                         *)
(* The collector stores one page of the search result per transaction.     *)
(* Each row gets observed_at = now(), which in PostgreSQL is the START of  *)
(* the transaction, while the rows become visible at its COMMIT: a reader  *)
(* that cuts the table at the present misses rows that appear later with   *)
(* an earlier observed_at.  A row whose tuple is already stored is not     *)
(* inserted again.                                                         *)
(***************************************************************************)
EXTENDS ScheduleMessage, FiniteSets

CONSTANTS
  Items,          \* auction items
  Values,         \* observations: records [failed, price, bid]
  InitialRows,    \* rows stored before the model starts
  PageSize,       \* items of one page, hence of one transaction
  MaxTxn,         \* longest time a page's transaction stays open
  MaxRows,        \* bound: rows ever stored
  MaxClock        \* bound: last tick of the database clock

VARIABLES
  clock,          \* the database clock
  rows,           \* committed rows of auction_schedule
  page            \* the collector's transaction

feedVars == <<clock, rows, page>>

Observation == [failed : Nat \cup {NoValue}, price : Int \cup {NoValue},
                bid : Int \cup {NoValue}]
Row == [id : 1 .. MaxRows, item : Items, obs : Nat, val : Values]

ASSUME FeedAssumption ==
  /\ MaxRows \in Nat /\ MaxTxn \in Nat /\ MaxClock \in Nat
  /\ Values \subseteq Observation
  /\ InitialRows \subseteq Row /\ IsFiniteSet(InitialRows)
  /\ \A s \in InitialRows : s.obs = 0 /\ s.id <= Cardinality(InitialRows)
  /\ \A s, t \in InitialRows : s.id = t.id => s = t

NoPage == [open |-> FALSE, start |-> 0, rows |-> {}]

\* ORDER BY observed_at, id
Before(p, q) == p.obs < q.obs \/ (p.obs = q.obs /\ p.id < q.id)
Earliest(S) == CHOOSE s \in S : \A t \in S \ {s} : Before(s, t)
Latest(S) == CHOOSE s \in S : \A t \in S \ {s} : Before(t, s)

\* The rows of the same item before s: the lateral join takes the latest.
Predecessors(s) == {p \in rows : p.item = s.item /\ Before(p, s)}

\* Only the order of ids matters: the gaps that aborted pages leave in the
\* sequence are closed.
NextId == Cardinality(rows \cup page.rows) + 1

NoNulls(val) == NoValue \notin {val.failed, val.price, val.bid}

(* UNIQUE (item, bid, price, failed): NULLs are distinct from each other,  *)
(* so a tuple with a NULL never conflicts.                                 *)
AlreadyStored(item, val) ==
  /\ NoNulls(val)
  /\ \E q \in rows \cup page.rows : q.item = item /\ q.val = val

-----------------------------------------------------------------------------

FeedInit(start) ==
  /\ clock = start
  /\ rows = InitialRows
  /\ page = NoPage

\* upsert_items opens its transaction: now() is fixed here.  Pages follow one
\* another over the network, so no two of them start in the same tick.
BeginPage ==
  /\ ~page.open
  /\ \A s \in rows : s.obs < clock
  /\ page' = [open |-> TRUE, start |-> clock, rows |-> {}]
  /\ UNCHANGED <<clock, rows>>

\* One item of the page: INSERT ... ON CONFLICT DO NOTHING.
InsertScheduleSnapshot(item, val) ==
  /\ page.open
  /\ Cardinality(page.rows) < PageSize
  /\ NextId <= MaxRows
  /\ \A q \in page.rows : q.item # item
  /\ ~AlreadyStored(item, val)
  /\ page' = [page EXCEPT !.rows = @ \cup
       {[id |-> NextId, item |-> item, obs |-> page.start, val |-> val]}]
  /\ UNCHANGED <<clock, rows>>

CommitPage ==
  /\ page.open
  /\ rows' = rows \cup page.rows
  /\ page' = NoPage
  /\ UNCHANGED clock

\* An error anywhere in the page rolls the whole transaction back.
AbortPage ==
  /\ page.open
  /\ page.rows # {}
  /\ page' = NoPage
  /\ UNCHANGED <<clock, rows>>

\* Time passes; no transaction of the collector outlives MaxTxn.
Tick ==
  /\ clock < MaxClock
  /\ page.open => clock + 1 - page.start <= MaxTxn
  /\ clock' = clock + 1
  /\ UNCHANGED <<rows, page>>

=============================================================================
