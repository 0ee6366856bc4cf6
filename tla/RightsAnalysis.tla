---------------------------- MODULE RightsAnalysis ----------------------------
(***************************************************************************)
(* The rights-analysis service: every change of the file of a sale is      *)
(* another request, analysed from nothing (rights-analysis.service.ts).    *)
(*                                                                         *)
(* A file has the registered rights, the tenants, the taxes, the region,   *)
(* the deadline for demands, the day of the sale decision, the price, the  *)
(* costs, the kind of property and a number of changes.                    *)
(***************************************************************************)
EXTENDS NoticeRules

CONSTANTS Files,       \* the files a reader starts from
          PriceStep, MaxPrice, DemandDays, TaxAmounts, RaiseAmounts, RaiseDays,
          MaxChanges   \* bound on the changes of one file

-----------------------------------------------------------------------------
(* A file as the service takes it: its validation refuses negative amounts *)
(* of tenants and taxes.  It lets a right's amount be any number and does  *)
(* not compare ids; that amounts are not negative and ids apart is assumed *)
(* of the caller here, as the lookups by id in the distribution need it.   *)

Dates == Int \union {Absent}
OptionalAmount == Nat \union {Absent}
RightRows == [id : STRING, type : STRING, received : Int, amount : OptionalAmount,
              whole : BOOLEAN, demanded : BOOLEAN]
Parts == [amount : Nat, fixed : Dates]
Tenants == [id : STRING, moveIn : Int, fixed : Dates, deposit : Nat, tranches : Seq(Parts),
            demanded : BOOLEAN, demandedOn : Dates]
TaxRows == [id : STRING, property : BOOLEAN, statutory : Int, amount : OptionalAmount]
SaleFiles == [rights : Seq(RightRows), tenants : Seq(Tenants), taxes : Seq(TaxRows),
              region : 1..4, deadline : Int, decided : Dates, sale : Int \union {Absent}, cost : Int,
              kind : STRING \union {Absent}, changes : Nat]

\* An id names one tenant, one right, or taxes.
IdsOf(rows) == {rows[i].id : i \in DOMAIN rows}
OneEach(rows) == \A i, j \in DOMAIN rows : rows[i].id = rows[j].id => i = j
IdsApart(f) ==
  /\ OneEach(f.tenants) /\ OneEach(f.rights)
  /\ IdsOf(f.tenants) \intersect IdsOf(f.rights) = {}
  /\ (IdsOf(f.tenants) \union IdsOf(f.rights)) \intersect IdsOf(f.taxes) = {}

ASSUME FilesAssumption == \A f \in Files : f \in SaleFiles /\ IdsApart(f)
ASSUME ChangesAssumption ==
  /\ PriceStep \in Nat /\ TaxAmounts \subseteq Nat /\ RaiseAmounts \subseteq Nat
  /\ DemandDays \subseteq Int /\ RaiseDays \subseteq Int

-----------------------------------------------------------------------------

VARIABLES file, analysis
analysisVars == <<file, analysis>>

Failed == [failed |-> TRUE]

\* The status of a tenant and what the buyer assumes of the deposit.
ClassifyTenant(f, i, baseline, distribution) ==
  LET tenant == f.tenants[i]
      Status(status, amount) == [status |-> status, assumed |-> amount]
  IN  IF ~HasPriority(tenant, baseline) THEN Status("EXTINGUISHED", 0)
      ELSE IF ~DemandEffective(tenant, f.deadline) THEN Status("ASSUMED", tenant.deposit)
      ELSE IF distribution = Absent THEN Status("NEEDS_REVIEW", 0)
      ELSE LET left == distribution.assumed[i] IN
           Status(IF left > 0 THEN "ASSUMED" ELSE "EXTINGUISHED", left)

EvictionOutlook(f, tenants, distribution) ==
  IF f.tenants = << >> THEN "NO_REPORTED_TENANT"
  ELSE IF \/ \E i \in DOMAIN tenants :
               tenants[i].status = "NEEDS_REVIEW" \/ tenants[i].assumed > 0
          \/ /\ distribution # Absent
             /\ \E i \in DOMAIN f.tenants : distribution.received[i] < f.tenants[i].deposit
       THEN "TENANT_WITH_LOSS" ELSE "TENANT_FULLY_COVERED"

BurdenOf(f, assumed, tenants, distribution) ==
  CalculateTotalBurden(f.sale, assumed, f.kind, EvictionOutlook(f, tenants, distribution))

\* The report on a file.  Without a price there is no distribution and no total.
Report(f, baseline, distribution, tenants, assumed) ==
  [failed |-> FALSE, baseline |-> baseline, tenants |-> tenants, distribution |-> distribution,
   rights |-> [i \in DOMAIN f.rights |-> ClassifyRight(f.rights[i], baseline)],
   assumed |-> assumed,
   total |-> IF f.sale = Absent THEN Absent ELSE BurdenOf(f, assumed, tenants, distribution)]
ReportOfTenants(f, baseline, distribution, tenants) ==
  Report(f, baseline, distribution, tenants, SumOf(tenants, LAMBDA t : t.assumed))
ReportOf(f, baseline, distribution) ==
  IF f.sale # Absent /\ distribution = Absent THEN Failed
  ELSE ReportOfTenants(f, baseline, distribution,
                       [i \in DOMAIN f.tenants |-> ClassifyTenant(f, i, baseline, distribution)])

\* The analysis throws without a baseline right, and where the distribution does.
Analyze(f) ==
  LET baseline == BaselineDate(f.rights) IN
  IF baseline = Absent THEN Failed
  ELSE ReportOf(f, baseline, IF f.sale = Absent THEN Absent ELSE Distribute(f, baseline))

Change(f) ==
  /\ file.changes < MaxChanges
  /\ file' = [f EXCEPT !.changes = @ + 1]

\* The reader enters a price, or a higher one.
RaiseSale ==
  LET sale == IF file.sale = Absent THEN PriceStep ELSE file.sale + PriceStep IN
  sale <= MaxPrice /\ Change([file EXCEPT !.sale = sale])

\* A tenant demands a share, in time or after the deadline.
FileDemand == \E i \in DOMAIN file.tenants, day \in DemandDays :
  /\ ~file.tenants[i].demanded
  /\ Change([file EXCEPT !.tenants[i].demanded = TRUE,
                                  !.tenants[i].demandedOn = day])

\* The amount of an unpaid tax becomes known.
LearnTax == \E i \in DOMAIN file.taxes, amount \in TaxAmounts :
  /\ file.taxes[i].amount = Absent
  /\ Change([file EXCEPT !.taxes[i].amount = amount])

\* A contract was renewed with a higher deposit; the raise is entered as a
\* part of its own, or forgotten in the parts.
PartsOf(tenant) ==
  IF tenant.tranches = << >>
  THEN << [amount |-> tenant.deposit, fixed |-> tenant.fixed] >> ELSE tenant.tranches
Raised(tenant, amount, day, split) ==
  LET parts == PartsOf(tenant)
      raise == [amount |-> amount, fixed |-> day]
  IN  [tenant EXCEPT !.deposit = @ + amount,
                     !.tranches = IF split THEN Append(parts, raise) ELSE parts]
RaiseDeposit == \E i \in DOMAIN file.tenants, amount \in RaiseAmounts,
                   day \in RaiseDays, split \in BOOLEAN :
  LET parts == PartsOf(file.tenants[i]) IN
  /\ \A k \in DOMAIN parts : parts[k].fixed # day
  /\ Change([file EXCEPT !.tenants[i] = Raised(@, amount, day, split)])

AnalysisInit == file \in Files /\ analysis = Analyze(file)

\* A change of the file, and the request that analyses it.
AnalysisNext ==
  /\ RaiseSale \/ FileDemand \/ LearnTax \/ RaiseDeposit
  /\ analysis' = Analyze(file')

AnalysisSpec == AnalysisInit /\ [][AnalysisNext]_analysisVars

-----------------------------------------------------------------------------
(* Properties.                                                             *)

Distributed == ~analysis.failed /\ file.sale # Absent
PaidTo(result, who) == Received(result.distribution.book, {"small", "relief", "tax", "rank"}, who)

\* No payment makes money: what is left and what was paid add up to the price
\* less the costs, nobody receives more than is owed, and the small deposits
\* stay within half of the money, whatever stages a tenant is paid in.
MoneyConserved ==
  Distributed =>
    LET d == analysis.distribution
        Paid(e) == e.amount
        InSmall(e) == IF e.stage = "small" THEN e.amount ELSE 0
    IN  /\ d.book.left >= 0
        /\ d.book.left + SumOf(d.book.entries, Paid) = d.afterCosts
        /\ 2 * SumOf(d.book.entries, InSmall) <= d.afterCosts
        /\ \A i \in DOMAIN file.tenants :
             PaidTo(analysis, file.tenants[i].id) <= file.tenants[i].deposit
        /\ \A i \in DOMAIN file.rights : file.rights[i].amount # Absent =>
             PaidTo(analysis, file.rights[i].id) <= file.rights[i].amount

\* A higher price never hurts: nobody receives less and the buyer assumes no
\* more, through the half for small deposits, the relief and all the ranks.
HigherPriceHurtsNobody ==
  [][RaiseSale /\ Distributed /\ ~analysis'.failed =>
       /\ \A i \in DOMAIN file.tenants :
            /\ analysis'.tenants[i].assumed <= analysis.tenants[i].assumed
            /\ PaidTo(analysis', file.tenants[i].id) >= PaidTo(analysis, file.tenants[i].id)
       /\ \A i \in DOMAIN file.rights :
            PaidTo(analysis', file.rights[i].id) >= PaidTo(analysis, file.rights[i].id)]_analysisVars

\* A demand in time never costs its tenant anything, and one filed after the
\* deadline changes nothing for anybody.
DemandOnlyInTime ==
  [][FileDemand /\ Distributed /\ ~analysis'.failed =>
       \A i \in DOMAIN file.tenants : file'.tenants[i].demanded # file.tenants[i].demanded =>
         IF file'.tenants[i].demandedOn <= file.deadline
         THEN /\ analysis'.tenants[i].assumed <= analysis.tenants[i].assumed
              /\ PaidTo(analysis', file.tenants[i].id) >= PaidTo(analysis, file.tenants[i].id)
         ELSE analysis' = analysis]_analysisVars

DecidedBefore(f, day) == f.decided # Absent /\ f.decided < day

\* Without the relief of 2023 an unknown tax means "at least": once its amount
\* is known the buyer assumes no less than was shown.
UnknownTaxIsLowerBound ==
  [][LearnTax /\ Distributed /\ ~analysis'.failed /\ DecidedBefore(file, 20230401) =>
       analysis'.assumed >= analysis.assumed]_analysisVars

\* The notice alone never contradicts the whole file: whatever fields of it
\* are unreadable, a verdict that names an amount names the right one, and the
\* total on the page is never above what the buyer really assumes.
NoticeAgreesWithAnalysis ==
  Distributed => \A hidden \in SUBSET {"moveIn", "deposit", "demand", "deadline", "baseline"} :
    LET Shown(field, value) == IF field \in hidden THEN Absent ELSE value
        Row(i) == LET t == file.tenants[i] IN
          [seq |-> i, source |-> "claim", part |-> Absent, fixed |-> t.fixed,
           moveIn |-> Shown("moveIn", t.moveIn), deposit |-> Shown("deposit", t.deposit),
           demanded |-> Shown("demand", t.demanded), demandedOn |-> Shown("demand", t.demandedOn)]
        verdicts == AnalyzeNotice([i \in DOMAIN file.tenants |-> Row(i)],
                                  Shown("baseline", analysis.baseline),
                                  Shown("deadline", file.deadline))
        shown == AssumedTotalOf(verdicts)
    IN  /\ \A i \in DOMAIN verdicts :
             /\ verdicts[i].assumption = "NOT_ASSUMED" => analysis.tenants[i].assumed = 0
             /\ verdicts[i].assumption = "ASSUMED_FULL" /\ verdicts[i].amount # Absent =>
                  analysis.tenants[i].assumed = verdicts[i].amount
        /\ shown.amount <= analysis.assumed
        /\ ~shown.lowerBound => shown.amount = analysis.assumed
        /\ AssumedHeadline(shown) = "NONE" => analysis.assumed = 0

\* What a source says of a tenant: only the claim says what is so, the others
\* another date, another deposit and the opposite of the demand.
SourceRow(f, i, source, later, more) ==
  LET t == f.tenants[i] IN
  [seq |-> i, source |-> source, part |-> Absent, fixed |-> t.fixed,
   moveIn |-> t.moveIn + later, deposit |-> t.deposit + more,
   demanded |-> (t.demanded <=> later = 0),
   demandedOn |-> IF later = 0 THEN t.demandedOn
                  ELSE IF t.demanded THEN Absent ELSE f.deadline]
SourceRows(f, source, later, more) ==
  [i \in DOMAIN f.tenants |-> SourceRow(f, i, source, later, more)]
RowsOfClaims(f) == SourceRows(f, "claim", 0, 0)
RowsOfSurvey(f) == SourceRows(f, "survey", 20000, 1)
RowsOfRegister(f) == SourceRows(f, "register", 10000, 2)

\* A tenant's own claim decides, in whatever order the rows of the sources
\* stand: neither the visit of the bailiff nor the register, each with another
\* date and another deposit, moves the verdict that the claim alone gives.
ClaimDecidesInAnyOrder ==
  LET claim == RowsOfClaims(file)
      survey == RowsOfSurvey(file)
      register == RowsOfRegister(file)
      Verdicts(rows) == AnalyzeNotice(rows, analysis.baseline, file.deadline)
  IN  ~analysis.failed =>
        \A rows \in {survey \o claim \o register, register \o claim \o survey,
                     claim \o survey \o register} : Verdicts(rows) = Verdicts(claim)

=============================================================================
