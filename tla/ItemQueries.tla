------------------------------ MODULE ItemQueries ------------------------------
(***************************************************************************)
(* One auction item as its readers see it (auction-items, favorites).      *)
(*                                                                         *)
(* The collector keeps the item row and its notices, one per day of        *)
(* writing; an answer of the API takes several statements, each on the     *)
(* data of its own moment.                                                 *)
(***************************************************************************)
EXTENDS NoticeRules

CONSTANTS ItemRows,      \* the item as the collector may find it
          Contents,      \* notices as the collector may read them: said, rows of the table
          NoticeDates,   \* the days a notice may bear, Absent among them
          Rates,         \* quartiles of comparable sales, or Absent
          CustomBids,    \* bids a reader enters, Absent for none
          MaxWrites, MaxReads   \* bounds on collector writes and requests

\* Rows of a notice, as far as amounts are concerned.
NoticeRows(rows) ==
  /\ Len(rows) \in Nat /\ DOMAIN rows = 1..Len(rows)
  /\ \A i \in DOMAIN rows : rows[i].deposit \in Nat \union {Absent}

ASSUME ItemAssumption ==
  /\ Absent \notin ItemRows
  /\ \A row \in ItemRows : {row.appraisal, row.minimum} \subseteq Nat \union {Absent}
  /\ \A content \in Contents : NoticeRows(content.rows)
  /\ NoticeDates \union CustomBids \subseteq Nat \union {Absent}
  /\ Rates \subseteq [1..3 -> Nat] \union {Absent}
  /\ {MaxWrites, MaxReads} \subseteq Nat

Readers == {"list", "favorites", "detail", "affordability"}

VARIABLES item,      \* the row, or Absent before it is collected
          notices,   \* rows of auction_item_notice with their tenants
          favored,   \* the reader has the item in favorite
          writes,    \* collector writes so far
          reads,     \* requests so far
          query,     \* by reader: the request being answered, or Absent
          answer     \* by reader: the last answer, or Absent
itemVars == <<item, notices, favored, writes, reads, query, answer>>

-----------------------------------------------------------------------------
(* The collector (external to the API; postgres_repository.py).            *)

\* IS NOT DISTINCT FROM: a notice without a day meets the other one without.
NoticesOfDate(date) == {n \in notices : n.date = date}

CollectItem == \E row \in ItemRows :
  /\ writes < MaxWrites
  /\ row # item
  /\ item' = row
  /\ writes' = writes + 1
  /\ UNCHANGED <<notices, favored, reads, query, answer>>

\* A notice of an item not collected yet is skipped.  An existing row of the
\* day is updated, and its tenants replaced if any were read.
UpsertNotice == \E date \in NoticeDates, content \in Contents :
  LET existing == NoticesOfDate(date)
      Updated(n) == [n EXCEPT !.said = content.said,
                              !.observed = IF n.said = content.said THEN @ ELSE writes + 1,
                              !.rows = IF content.rows = << >> THEN @ ELSE content.rows]
      inserted == [id |-> Cardinality(notices) + 1, date |-> date, observed |-> writes + 1,
                   said |-> content.said, rows |-> content.rows]
  IN  /\ writes < MaxWrites
      /\ item # Absent
      /\ notices' = IF existing = {} THEN notices \union {inserted}
                    ELSE LET n == CHOOSE x \in existing : TRUE
                         IN  (notices \ {n}) \union {Updated(n)}
      /\ writes' = writes + 1
      /\ UNCHANGED <<item, favored, reads, query, answer>>

-----------------------------------------------------------------------------
(* The statements of a request.                                            *)

Dated(n) == IF n.date = Absent THEN -1 ELSE n.date
LastBy(set, Ahead(_, _)) == CHOOSE n \in set : \A m \in set \ {n} : Ahead(n, m)

\* Lists and favorites: document_date DESC NULLS LAST, id DESC.
LatestForList(set) ==
  LastBy(set, LAMBDA n, m : Dated(n) > Dated(m) \/ (Dated(n) = Dated(m) /\ n.id > m.id))

\* Faulty: the detail takes the notice seen last.
LastObserved(set) ==
  LastBy(set, LAMBDA n, m : n.observed > m.observed
                            \/ (n.observed = m.observed /\ n.id > m.id))

\* The detail and the scenarios: document_date DESC NULLS LAST, observed_at DESC.
LatestForDetail(set) ==
  LastBy(set, LAMBDA n, m : Dated(n) > Dated(m)
                            \/ (Dated(n) = Dated(m) /\ (n.observed > m.observed
                                 \/ (n.observed = m.observed /\ n.id > m.id))))

LatestNotice(reader) ==
  IF notices = {} THEN Absent
  ELSE IF reader \in {"list", "favorites"} THEN LatestForList(notices)
  ELSE LatestForDetail(notices)

\* A request begins.  The list and the favorites read item and notice in one
\* statement, the detail reads the notice, the scenarios the item alone.
Begin(reader, custom) ==
  LET seen == IF reader = "favorites" /\ ~favored THEN Absent ELSE item IN
  /\ reads < MaxReads
  /\ query[reader] = Absent
  /\ reads' = reads + 1
  /\ query' = [query EXCEPT ![reader] =
       [item |-> seen, custom |-> custom, began |-> writes, rows |-> Absent,
        noticeRead |-> reader # "affordability" \/ seen = Absent,
        notice |-> IF reader = "affordability" \/ seen = Absent THEN Absent
                   ELSE LatestNotice(reader)]]
  /\ UNCHANGED <<item, notices, favored, writes, answer>>

FindMany == Begin("list", Absent)
FindByUser == Begin("favorites", Absent)
FindNoticeAnalysis == Begin("detail", Absent)
FindAffordability == \E custom \in CustomBids : Begin("affordability", custom)

\* The scenarios go on with the notice analysis.
ReadNotice ==
  /\ query["affordability"] # Absent
  /\ ~query["affordability"].noticeRead
  /\ query' = [query EXCEPT !["affordability"].noticeRead = TRUE,
                            !["affordability"].notice = LatestNotice("affordability")]
  /\ UNCHANGED <<item, notices, favored, writes, reads, answer>>

\* The tenants of the notice, read by its id.
ReadTenants(reader) ==
  LET q == query[reader] IN
  /\ q # Absent /\ q.noticeRead /\ q.notice # Absent /\ q.rows = Absent
  /\ query' = [query EXCEPT ![reader].rows =
                 (CHOOSE n \in notices : n.id = q.notice.id).rows]
  /\ UNCHANGED <<item, notices, favored, writes, reads, answer>>

\* People in the table, counted in the same statement as the notice.
TenantCount(notice) == Cardinality({notice.rows[i].seq : i \in DOMAIN notice.rows})

\* What is answered: 404 without a notice, but for a card, which then says
\* nothing of the notice.
Body(reader, q, rates) ==
  LET verdicts == AnalyzeNotice(q.rows, q.notice.said.baseline, q.notice.said.deadline) IN
  IF q.notice = Absent THEN Absent
  ELSE CASE reader = "affordability" -> ComputeAffordability(q.item, verdicts, rates, q.custom)
         [] reader = "detail" -> [said |-> q.notice.said, verdicts |-> verdicts]
         [] OTHER -> [said |-> q.notice.said, count |-> TenantCount(q.notice),
                      assumed |-> AssumedTotalOf(verdicts)]

\* The answer; the scenarios have read the comparable sales last.
Answer(reader) ==
  LET q == query[reader] IN
  /\ q # Absent /\ q.noticeRead /\ (q.notice = Absent \/ q.rows # Absent)
  /\ \E rates \in IF reader = "affordability" THEN Rates ELSE {Absent} :
       answer' = [answer EXCEPT ![reader] =
                    [body |-> Body(reader, q, rates), of |-> q.item,
                     began |-> q.began, ended |-> writes]]
  /\ query' = [query EXCEPT ![reader] = Absent]
  /\ UNCHANGED <<item, notices, favored, writes, reads>>

ReadTenantsSome == \E reader \in Readers : ReadTenants(reader)
AnswerSome == \E reader \in Readers : Answer(reader)

\* PUT and DELETE of a favorite are idempotent.
SetFavorite == \E on \in BOOLEAN :
  /\ favored' = on
  /\ UNCHANGED <<item, notices, writes, reads, query, answer>>

ItemInit ==
  /\ item \in {Absent} \union ItemRows /\ notices = {} /\ favored = FALSE /\ writes = 0 /\ reads = 0
  /\ query = [reader \in Readers |-> Absent]
  /\ answer = [reader \in Readers |-> Absent]

ItemNext ==
  \/ CollectItem \/ UpsertNotice \/ SetFavorite
  \/ FindMany \/ FindByUser \/ FindNoticeAnalysis \/ FindAffordability
  \/ ReadNotice \/ ReadTenantsSome \/ AnswerSome

-----------------------------------------------------------------------------
(* Properties.                                                             *)

\* What comes on top of the bid (deposits, tax, transfer, eviction) never falls
\* for a dearer scenario, at either end of its range, across the brackets of
\* the acquisition tax; nor does the ratio to the appraisal.
ScenariosOrdered ==
  answer["affordability"] # Absent /\ answer["affordability"].body # Absent =>
    \A s, t \in answer["affordability"].body.scenarios : s.bid <= t.bid =>
      /\ s.range.min - 10000 * s.bid <= t.range.min - 10000 * t.bid
      /\ s.range.max - 10000 * s.bid <= t.range.max - 10000 * t.bid
      /\ s.ratio # Absent => s.ratio.min <= t.ratio.min /\ s.ratio.max <= t.ratio.max

=============================================================================
