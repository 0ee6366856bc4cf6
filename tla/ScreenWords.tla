------------------------------ MODULE ScreenWords ------------------------------
(***************************************************************************)
(* What the screens say of a notice: cards, previews and pages, on the web *)
(* and in the app, each from an answer of its own (notice-labels.ts,       *)
(* notice-analysis.ts, RightsAnalysisView.tsx, RightsAnalysisScreen.tsx).  *)
(***************************************************************************)
EXTENDS ItemQueries

\* The clients sum the verdicts again; the app keeps a copy of the rule.
AddVerdict(total, v) ==
  IF v.assumption = "ASSUMED_FULL" /\ v.amount # Absent
  THEN [total EXCEPT !.amount = @ + v.amount]
  ELSE [total EXCEPT !.lowerBound = @ \/ v.assumption # "NOT_ASSUMED"]
AssumedTotal(verdicts) == FoldLeft(AddVerdict, [amount |-> 0, lowerBound |-> FALSE], verdicts)

\* "Notice not read yet", in place of a headline or a number of people.
Unread == Absent

\* None, an amount, an amount or more, or still to be confirmed.
Headline(total) ==
  [kind |-> AssumedHeadline(total), amount |-> total.amount, orMore |-> total.lowerBound]

AssumedDepositCardLabel(deposit) == IF deposit = Absent THEN Unread ELSE Headline(deposit)

\* The fields of a row of the list; without a notice they are null.
CardRow(body) ==
  IF body = Absent THEN [rights |-> Absent, flags |-> {}, count |-> Absent, deposit |-> Absent]
  ELSE [rights |-> body.said.rights, flags |-> body.said.flags, count |-> body.count,
        deposit |-> body.assumed]

ListCard(row) == AssumedDepositCardLabel(row.deposit)

\* Faulty: a notice without remarks is taken for none.
MissingWithoutRemarks(row) == row.rights = Absent /\ row.flags = {}

\* Not one piece of a notice: a count of 0 people is one.
NoticeMissing(row) == row.rights = Absent /\ row.count = Absent /\ row.flags = {}

HoverCard(row) ==
  IF NoticeMissing(row) THEN [deposit |-> Unread, people |-> Unread]
  ELSE [deposit |-> AssumedDepositCardLabel(row.deposit), people |-> row.count]

\* The app's sheet is the web's card, with a copy of the rules.
PreviewSheet(row) == HoverCard(row)

\* The page of an item shows people and remarks, no deposit.
ItemPage(row) == IF NoticeMissing(row) THEN Unread ELSE row.count

\* The rights page, and the panel's: a headline over the counts of verdicts.
RightsView(analysis) ==
  LET Count(kinds) == Cardinality({i \in DOMAIN analysis.verdicts :
                                     analysis.verdicts[i].assumption \in kinds}) IN
  IF analysis = Absent THEN [deposit |-> Unread, people |-> Unread]
  ELSE [deposit |-> Headline(AssumedTotal(analysis.verdicts)), people |-> Len(analysis.verdicts),
        whole |-> Count({"ASSUMED_FULL"}),
        open |-> Count({"ASSUMED_AMOUNT_UNKNOWN", "UNKNOWN"}),
        notAssumed |-> Count({"NOT_ASSUMED"})]

\* The app's screen, with a copy of the rules.
RightsAnalysisScreen(analysis) == RightsView(analysis)

\* The section of costs: no line for a lot sold as one or without a price, else
\* scenarios with the deposits in them, "or more" if they are a lower bound.
CostSection(cost, of) ==
  IF of.bulk \/ cost.scenarios = {} THEN {} ELSE {Headline(cost.assumed)}

-----------------------------------------------------------------------------
(* Properties.                                                             *)

\* What the screens fed by an answer say of the deposits, and of the people.
DepositsSaid(reader) ==
  LET body == answer[reader].body  row == CardRow(body) IN
  CASE reader \in {"list", "favorites"} ->
         {ListCard(row), HoverCard(row).deposit, PreviewSheet(row).deposit}
    [] reader = "detail" -> {RightsView(body).deposit, RightsAnalysisScreen(body).deposit}
    [] OTHER -> IF body = Absent THEN {Unread} ELSE CostSection(body, answer[reader].of)
PeopleSaid(reader) ==
  LET body == answer[reader].body  row == CardRow(body)  page == RightsView(body) IN
  CASE reader \in {"list", "favorites"} -> {HoverCard(row).people, ItemPage(row)}
    [] reader = "detail" ->
         {page.people, IF body = Absent THEN Unread ELSE page.whole + page.open + page.notAssumed}
    [] OTHER -> {}

\* The cards of an item, its page, its rights and its costs say the same of its
\* tenants, though the API adds up for cards and the clients for pages, the
\* people are counted by SQL or after the merge, and the newest notice is chosen
\* by two orders: what is drawn from answers that no write of the collector
\* crossed agrees, "not read yet" included.
AnswersAgree ==
  LET Steady(r) == answer[r] # Absent /\ answer[r].of # Absent
                   /\ answer[r].began = answer[r].ended
      At(n) == {r \in Readers : Steady(r) /\ answer[r].began = n}
  IN  \A n \in 0..writes :
        /\ Cardinality(UNION {DepositsSaid(r) : r \in At(n)}) <= 1
        /\ Cardinality(UNION {PeopleSaid(r) : r \in At(n)}) <= 1

=============================================================================
