---------------------------- MODULE DailyCollector ----------------------------
(***************************************************************************)
(* The daily run of the collector (runner.py, run_daily): items, notices   *)
(* with their tenants, results, photos, and the masking of names, one      *)
(* stage after the other.                                                  *)
(*                                                                         *)
(* A request may fail, or be answered with nothing where a notice was      *)
(* expected; a statement may fail, and the process be killed.  The next    *)
(* run starts from what the database kept.                                 *)
(***************************************************************************)
EXTENDS Integers, Sequences, SequencesExt, FiniteSets, FiniteSetsExt

CONSTANTS Listing,      \* by court: its items in the order of the search
          CaseOf,       \* the case of each item, a number
          Tenanted,     \* items with people in the table of the document
          Unwritten,    \* items without a notice at first
          Moving,       \* bound: the items that change at the court
          PageRows, MaxPages,   \* PAGE_SIZE, max_search_pages
          Limit,        \* UNAVAILABLE_STREAK_LIMIT
          PhotoLimit,   \* photo_limit
          LastDate,     \* bound on the dates an item is offered at
          MaxRuns, MaxEvents, MaxFaults    \* bounds

ASSUME DailyAssumption ==
  /\ {PageRows, MaxPages, Limit, PhotoLimit, LastDate} \subseteq Nat \ {0}
  /\ {MaxRuns, MaxEvents, MaxFaults} \subseteq Nat

\* At least one court is given; an item belongs to one court.
ASSUME ListingAssumption ==
  /\ Listing \in Seq(Seq(DOMAIN CaseOf)) /\ Listing # << >>
  /\ \A c, d \in DOMAIN Listing : c # d => Range(Listing[c]) \intersect Range(Listing[d]) = {}

VARIABLES
  site,       \* of each item at the court: its date, its notice, whether listed, closed
  base,       \* the database: last date (bid), notices, results, photos
  job,        \* the run
  done        \* numbers of runs, events at the court and faults
dailyVars == <<site, base, job, done>>

Court == DOMAIN Listing
Item == DOMAIN CaseOf
Case == {CaseOf[i] : i \in Item}

NoJob == [pc |-> "idle", reader |-> FALSE, court |-> 1, page |-> 1, total |-> 0,
          found |-> [c \in Court |-> << >>], have |-> {}, scans |-> {}, todo |-> << >>,
          batch |-> << >>, said |-> << >>, lost |-> {}, left |-> {},
          failed |-> {}, cases |-> {}, unmasked |-> FALSE]

NewBase == [bid |-> [i \in Item |-> 0], notices |-> {}, results |-> {}, photos |-> {}]
\* As a run leaves it that is killed before the photos.
BaseAfter(reader) ==
  [NewBase EXCEPT !.bid = [i \in Item |-> 1],
     !.notices = {[item |-> i, document |-> 1, date |-> 1, scanned |-> reader,
                   names |-> IF reader /\ i \in Tenanted THEN "named" ELSE "none"] :
                    i \in Item \ Unwritten}]
DailyInit ==
  /\ site = [i \in Item |-> [date |-> 1, notice |-> IF i \in Unwritten THEN 0 ELSE 1,
                           listed |-> TRUE, closed |-> FALSE]]
  /\ base \in {NewBase} \union {BaseAfter(reader) : reader \in BOOLEAN}
  /\ job = NoJob
  /\ done = [runs |-> 0, events |-> 0, faults |-> 0]

Did(what, bound) == done[what] < bound /\ done' = [done EXCEPT ![what] = @ + 1]
Fault == Did("faults", MaxFaults)

-----------------------------------------------------------------------------
(* The court (external), between two runs or before the results are asked    *)
(* for: an auction without a bid gets another date, for which the notice     *)
(* stays, is withdrawn or written anew; a sale is closed once its price is   *)
(* shared out.                                                               *)

BetweenRuns == job.pc \in {"idle", "ended"} /\ base # NewBase /\ done.runs < MaxRuns
CourtChanges == (BetweenRuns \/ job.pc = "results") /\ Did("events", MaxEvents)

Unsold == \E i \in Moving, notice \in {0, 1, 2} :
  /\ CourtChanges /\ site[i].listed /\ site[i].date < LastDate
  /\ site' = [site EXCEPT ![i].date = @ + 1, ![i].notice = notice]
  /\ UNCHANGED <<base, job>>

Sold == \E i \in Moving :
  /\ CourtChanges /\ site[i].listed
  /\ site' = [site EXCEPT ![i].listed = FALSE]
  /\ UNCHANGED <<base, job>>

SharedOut == \E i \in Moving :
  /\ CourtChanges /\ ~site[i].listed /\ ~site[i].closed
  /\ site' = [site EXCEPT ![i].closed = TRUE]
  /\ UNCHANGED <<base, job>>

\* The history of an item that the search for its case returns.
SiteResults(i) ==
  {[item |-> i, code |-> "unsold", date |-> d] : d \in 1..(site[i].date - 1)}
  \union {[item |-> i, code |-> c, date |-> site[i].date] :
            c \in (IF site[i].listed THEN {} ELSE {"sold"})
                  \union (IF site[i].closed THEN {"closed"} ELSE {})}

-----------------------------------------------------------------------------
(* Requests.                                                               *)

\* Faulty: a refusal by the court stops the whole run.
SignalOfStatus(status) == IF status = "refused" THEN "blocked" ELSE "failed"

\* urlopen raises HTTPError for 403 and 429 as for a broken connection; both
\* are OSErrors, and become CourtRequestError.
Signal(status) == "failed"

\* A request fails: the run goes on as told, unless it is blocked.
RequestFails(onward) ==
  /\ Fault
  /\ \E status \in {"refused", "down"} :
       job' = IF Signal(status) = "blocked" THEN [NoJob EXCEPT !.pc = "ended"] ELSE onward

\* On to the next court, or to the next stage.
Onward(j, next) ==
  LET rest == [j EXCEPT !.page = 1, !.total = 0, !.todo = << >>, !.batch = << >>, !.said = << >>]
  IN
  IF j.court < Len(Listing) THEN [rest EXCEPT !.court = @ + 1]
                            ELSE [rest EXCEPT !.court = 1, !.pc = next]
CourtFailed == [job EXCEPT !.failed = @ \union {job.court}]

-----------------------------------------------------------------------------
(* Stage 1: the items of every court, page after page.                     *)

StartDaily == \E reader \in BOOLEAN :
  /\ job.pc \in {"idle", "ended"} /\ Did("runs", MaxRuns)
  /\ job' = [NoJob EXCEPT !.pc = "search", !.reader = reader]
  /\ UNCHANGED <<site, base>>

\* The rows at the places given, in their order.
RowsIn(rows, places) ==
  FoldLeft(LAMBDA out, k : IF k \in places THEN Append(out, rows[k]) ELSE out,
           << >>, [k \in DOMAIN rows |-> k])

RowsOf(court) ==
  LET row == [k \in DOMAIN Listing[court] |->
                [item |-> Listing[court][k], date |-> site[Listing[court][k]].date]]
  IN  RowsIn(row, {k \in DOMAIN row : site[row[k].item].listed})
PageAt(rows, page) == RowsIn(rows, {k \in DOMAIN rows : (k - 1) \div PageRows = page - 1})

\* The page is stored before the next is asked for; what was found on pages
\* before a failure is kept.
SearchPage ==
  /\ job.pc = "search"
  /\ LET all == RowsOf(job.court)
         rows == PageAt(all, job.page)
         total == IF job.page = 1 THEN Len(all) ELSE job.total
         found == [job EXCEPT !.found[job.court] = @ \o rows, !.total = total]
         over == rows = << >> \/ job.page * PageRows >= total \/ job.page >= MaxPages
     IN  /\ base' = [base EXCEPT !.bid = [i \in Item |->
              Max({@[i]} \union {rows[k].date : k \in {x \in DOMAIN rows : rows[x].item = i}})]]
         /\ job' = IF over THEN Onward(found, "keys") ELSE [found EXCEPT !.page = @ + 1]
  /\ UNCHANGED <<site, done>>

SearchFails ==
  /\ job.pc = "search" /\ RequestFails(Onward(CourtFailed, "keys"))
  /\ UNCHANGED <<site, base>>

-----------------------------------------------------------------------------
(* Stage 2: the notices that are missing, nearest date first.              *)

\* A row that came twice counts once.
FirstRows(rows) ==
  {k \in DOMAIN rows : \A j \in 1..(k - 1) : rows[j].item # rows[k].item}
Wanted(j, row) ==
  LET key == <<row.item, row.date>> IN
  key \notin j.have \/ (j.reader /\ key \notin j.scans)
Nearest(rows, places) ==
  FoldLeft(LAMBDA near, day : near \o RowsIn(rows, {k \in places : rows[k].date = day}),
           << >>, [day \in 1..LastDate |-> day])

BeginCourt(j) ==
  LET rows == j.found[j.court] IN
  [j EXCEPT !.pc = "details",
     !.todo = Nearest(rows, {k \in FirstRows(rows) : Wanted(j, rows[k])})]

KeysOf(notices) == {<<n.item, n.date>> : n \in notices}
FindKeys ==
  /\ job.pc = "keys"
  /\ job' = BeginCourt([job EXCEPT !.have = KeysOf(base.notices),
               !.scans = KeysOf({n \in base.notices : n.scanned /\ job.reader})])
  /\ UNCHANGED <<site, base, done>>

FindKeysFails ==
  /\ job.pc = "keys" /\ Fault
  /\ job' = [job EXCEPT !.pc = "results", !.failed = Court]
  /\ UNCHANGED <<site, base>>

Current == Head(job.todo)
AskDetail == job.pc = "details" /\ job.todo # << >>
NextCourt(j) ==
  LET next == Onward(j, "results") IN IF next.pc = "details" THEN BeginCourt(next) ELSE next

\* The notice comes, and with a reader its document, unless that cannot be
\* opened: it can in the week before the date.
DetailServed == \E open \in {FALSE, job.reader} :
  /\ AskDetail /\ site[Current.item].notice # 0
  /\ IF open = job.reader THEN UNCHANGED done ELSE Fault
  /\ job' = [job EXCEPT !.todo = Tail(@), !.said = Append(@, "served"),
       !.batch = Append(@, [item |-> Current.item, date |-> Current.date,
                            document |-> site[Current.item].notice, scanned |-> open,
                            people |-> open /\ Current.item \in Tenanted])]
  /\ UNCHANGED <<site, base>>

\* Faulty: a streak is not interrupted by a notice.
StreakOfAll(said) == Cardinality({k \in DOMAIN said : said[k] = "empty"})

\* The answers without a notice, since the last one with a notice.
Streak(said) ==
  Cardinality({k \in DOMAIN said : \A j \in k..Len(said) : said[j] = "empty"})

\* No notice in the answer: not written yet, past, or the court holds back.
\* After a streak the rest of the court is left to the next run.
DetailEmpty ==
  LET said == Append(job.said, "empty")
      held == Streak(said) >= Limit
  IN  /\ AskDetail
      /\ IF site[Current.item].notice = 0 THEN UNCHANGED done ELSE Fault
      /\ job' = [job EXCEPT !.said = said, !.lost = @ \union {Current.item},
                   !.todo = IF held THEN << >> ELSE Tail(@),
                   !.left = IF held THEN @ \union {Tail(job.todo)[k] : k \in DOMAIN Tail(job.todo)}
                            ELSE @]
      /\ UNCHANGED <<site, base>>

DetailFails ==
  /\ AskDetail
  /\ RequestFails([job EXCEPT !.todo = Tail(@), !.lost = @ \union {Current.item}])
  /\ UNCHANGED <<site, base>>

\* A failing reader, or an answer that cannot be parsed, ends the court; what was
\* read of it is dropped.
BatchBreaks ==
  /\ AskDetail /\ RequestFails(NextCourt(CourtFailed))
  /\ UNCHANGED <<site, base>>

\* Faulty: the table is written anew also when it was not read.
ReplaceAlways(kept, notice) == IF notice.people THEN "named" ELSE "none"

\* A table without rows leaves the one that is there.
ReplaceTenants(kept, notice) == IF notice.people THEN "named" ELSE kept

\* One row for each item and day of writing.
StoreNotice(notices, n) ==
  LET same == {m \in notices : m.item = n.item /\ m.document = n.document}
      kept == IF \E m \in same : m.names # "none"
              THEN (CHOOSE m \in same : TRUE).names ELSE "none"
  IN  (notices \ same) \union
        {[item |-> n.item, document |-> n.document, date |-> n.date,
          scanned |-> n.scanned \/ \E m \in same : m.scanned,
          names |-> ReplaceTenants(kept, n)]}

\* Each notice is stored by itself: one may fail and leave the others.
StoreUnless(bad, notices, n) == IF n.item \in bad THEN notices ELSE StoreNotice(notices, n)
StoreBatch(bad, notices, batch) ==
  FoldLeft(LAMBDA stored, n : StoreUnless(bad, stored, n), notices, batch)
SaveNotices == \E bad \in {{}} \union {{job.batch[k].item} : k \in DOMAIN job.batch} :
  /\ job.pc = "details" /\ job.todo = << >>
  /\ IF bad = {} THEN UNCHANGED done ELSE Fault
  /\ base' = [base EXCEPT !.notices = StoreBatch(bad, @, job.batch)]
  /\ job' = NextCourt([job EXCEPT !.lost = @ \union bad])
  /\ UNCHANGED site

SaveFails ==
  /\ job.pc = "details" /\ job.todo = << >> /\ Fault
  /\ job' = NextCourt(CourtFailed)
  /\ UNCHANGED <<site, base>>

-----------------------------------------------------------------------------
(* Stages 3 to 5: results, photos, masking.                                *)

\* The last known date is over, and no result from it on is known.
Pending(i) ==
  /\ base.bid[i] # 0 /\ (base.bid[i] < site[i].date \/ ~site[i].listed)
  /\ \A r \in base.results : r.item = i => r.date < base.bid[i]

FindPending ==
  /\ job.pc = "results"
  /\ job' = [NoJob EXCEPT !.pc = "cases", !.cases = {CaseOf[i] : i \in {x \in Item : Pending(x)}}]
  /\ UNCHANGED <<site, base, done>>

FindPendingFails ==
  /\ job.pc = "results" /\ Fault
  /\ job' = [NoJob EXCEPT !.pc = "photos"]
  /\ UNCHANGED <<site, base>>

NextCase == Min(job.cases)
WithoutCase == [job EXCEPT !.cases = @ \ {NextCase}]

BackfillCase ==
  /\ job.pc = "cases" /\ job.cases # {}
  /\ base' = [base EXCEPT !.results = @ \union
       UNION {SiteResults(i) : i \in {x \in Item : CaseOf[x] = NextCase /\ base.bid[x] # 0}}]
  /\ job' = WithoutCase
  /\ UNCHANGED <<site, done>>

CaseFails ==
  /\ job.pc \in {"cases", "pictures"} /\ job.cases # {} /\ RequestFails(WithoutCase)
  /\ UNCHANGED <<site, base>>

\* What a statement breaks ends the stage.
CaseBreaks ==
  /\ job.pc \in {"cases", "pictures"} /\ job.cases # {} /\ Fault
  /\ job' = [job EXCEPT !.cases = {}]
  /\ UNCHANGED <<site, base>>

FindMissingPhotos ==
  /\ \/ job.pc = "photos"
     \/ job.pc = "cases" /\ job.cases = {}
  /\ LET without == {CaseOf[i] : i \in {x \in Item : base.bid[x] # 0}} \ base.photos
     IN  job' = [job EXCEPT !.pc = "pictures",
                   !.cases = {c \in without : Cardinality({d \in without : d < c}) < PhotoLimit}]
  /\ UNCHANGED <<site, base, done>>

PhotoCase ==
  /\ job.pc = "pictures" /\ job.cases # {}
  /\ base' = [base EXCEPT !.photos = @ \union {NextCase}]
  /\ job' = WithoutCase
  /\ UNCHANGED <<site, done>>

SaleEnded(i) == \E r \in base.results : r.item = i /\ r.code = "closed"
MaskNames ==
  /\ job.pc = "pictures" /\ job.cases = {}
  /\ base' = [base EXCEPT !.notices =
       {IF n.names = "named" /\ SaleEnded(n.item) THEN [n EXCEPT !.names = "masked"] ELSE n : n \in @}]
  /\ job' = [job EXCEPT !.pc = "ended"]
  /\ UNCHANGED <<site, done>>

MaskFails ==
  /\ job.pc = "pictures" /\ job.cases = {} /\ Fault
  /\ job' = [job EXCEPT !.pc = "ended", !.unmasked = TRUE]
  /\ UNCHANGED <<site, base>>

Killed ==
  /\ job.pc \notin {"idle", "ended"} /\ Fault
  /\ job' = NoJob
  /\ UNCHANGED <<site, base>>

DailyNext ==
  \/ Unsold \/ Sold \/ SharedOut
  \/ StartDaily \/ SearchPage \/ SearchFails
  \/ FindKeys \/ FindKeysFails \/ DetailServed \/ DetailEmpty \/ DetailFails
  \/ BatchBreaks \/ SaveNotices \/ SaveFails
  \/ FindPending \/ FindPendingFails \/ BackfillCase \/ CaseFails \/ CaseBreaks
  \/ FindMissingPhotos \/ PhotoCase \/ MaskNames \/ MaskFails \/ Killed

-----------------------------------------------------------------------------
(* Properties.                                                             *)

\* After the notices, whatever failed at other courts: a court without a
\* failure of its own has the notice of every row found, for the row's date,
\* but for rows answered without one, and for the rest behind Limit such
\* answers in a row, all of a date as late as the last that was asked for.
NoticesComplete ==
  /\ job.pc = "results" =>
       \A c \in Court \ job.failed : \A k \in FirstRows(job.found[c]) :
         LET row == job.found[c][k] IN
         \/ <<row.item, row.date>> \in KeysOf(base.notices)
         \/ row.item \in job.lost \/ row \in job.left
  /\ job.pc = "details" /\ job.todo = << >> =>
       LET here == {job.found[job.court][k] : k \in DOMAIN job.found[job.court]}
           held == job.left \intersect here
       IN  held # {} =>
             /\ Len(job.said) >= Limit
             /\ \A k \in (Len(job.said) - Limit + 1)..Len(job.said) : job.said[k] = "empty"
             /\ \A n \in {job.batch[k] : k \in DOMAIN job.batch}, row \in held : n.date <= row.date

\* A table of tenants that was read once is never lost to a later run, whether
\* that opens the document again or not; nor is it forgotten that it was read.
TablesKept ==
  [][\A n \in base.notices : \E m \in base'.notices :
       /\ m.item = n.item /\ m.document = n.document
       /\ n.scanned => m.scanned
       /\ n.names # "none" => m.names # "none"]_dailyVars

\* A run that comes to its end leaves no name of a sale that is known to be
\* closed, whatever the court refused on the way, unless the masking failed.
NamesGone ==
  job.pc = "ended" /\ ~job.unmasked =>
    \A n \in base.notices : n.names = "named" => ~SaleEnded(n.item)

=============================================================================
