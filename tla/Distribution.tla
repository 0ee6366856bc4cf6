----------------------------- MODULE Distribution -----------------------------
(***************************************************************************)
(* How the price of a court sale is shared out, and what the buyer assumes *)
(* (rights-analysis/domain).                                               *)
(*                                                                         *)
(* Amounts are in units of 10,000 won.  A date is the number yyyymmdd;     *)
(* dates are only compared, but for the day after a move-in.  Absent is    *)
(* null or undefined.                                                      *)
(***************************************************************************)
EXTENDS Integers, Sequences, SequencesExt, FiniteSets

CONSTANT Absent

ASSUME AbsentAssumption == Absent \notin Int
ASSUME AbsentIsNoFlag == Absent \notin BOOLEAN

SumAll(numbers) == FoldLeft(LAMBDA sum, x : sum + x, 0, numbers)
SumOf(seq, Amount(_)) == SumAll([i \in DOMAIN seq |-> Amount(seq[i])])
Least(a, b) == IF a < b THEN a ELSE b
Most(a, b) == IF a > b THEN a ELSE b

\* A stable sort by date, dates that are absent last.
Before(a, b) == a # Absent /\ (b = Absent \/ a < b)
RankIn(dates, i) ==
  Cardinality({j \in DOMAIN dates : Before(dates[j], dates[i])
                                      \/ (dates[j] = dates[i] /\ j <= i)})
Ranked(dates, k) == CHOOSE i \in DOMAIN dates : RankIn(dates, i) = k
SortedBy(seq, Date(_)) ==
  LET dates == [i \in DOMAIN seq |-> Date(seq[i])]
  IN  [k \in DOMAIN seq |-> seq[Ranked(dates, k)]]

-----------------------------------------------------------------------------
(* Rights and tenants against the baseline right.                          *)

Liens == {"MORTGAGE", "SEIZURE", "PROVISIONAL_SEIZURE",
          "COLLATERAL_PROVISIONAL_REGISTRATION", "AUCTION_COMMENCEMENT"}
BaselineCandidate(right) ==
  right.type \in Liens \/ (right.type = "LEASEHOLD" /\ right.whole /\ right.demanded)

\* The date of the first candidate; without one the analysis fails.
BaselineDate(rights) ==
  LET dates == {rights[i].received : i \in {j \in DOMAIN rights : BaselineCandidate(rights[j])}}
  IN  IF dates = {} THEN Absent ELSE Min(dates)

ClassifyRight(right, baseline) ==
  IF right.type \in Liens \/ right.received >= baseline THEN "EXTINGUISHED" ELSE "ASSUMED"

\* Opposing power begins on the day after the move-in.
PossessionDate(tenant) == tenant.moveIn + 1
HasPriority(tenant, baseline) == PossessionDate(tenant) <= baseline
\* Faulty: a demand counts on any day.
DemandAnytime(tenant, deadline) == tenant.demanded /\ tenant.demandedOn # Absent

DemandEffective(tenant, deadline) ==
  tenant.demanded /\ tenant.demandedOn # Absent /\ tenant.demandedOn <= deadline

-----------------------------------------------------------------------------
(* Small deposits: caps by region (Seoul, overconcentrated area, metropolis, *)
(* other) of the decree in force when the first mortgage was registered.     *)

Decree(from, deposit, repaid) == [from |-> from, deposit |-> deposit, repaid |-> repaid]
SmallDepositRules ==
  << Decree(19840614, <<300, 300, 300, 200>>, <<300, 300, 300, 200>>),
     Decree(19871201, <<500, 500, 500, 400>>, <<500, 500, 500, 400>>),
     Decree(19900219, <<2000, 2000, 2000, 1500>>, <<700, 700, 700, 500>>),
     Decree(19951019, <<3000, 3000, 3000, 2000>>, <<1200, 1200, 1200, 800>>),
     Decree(20010915, <<4000, 4000, 3500, 3000>>, <<1600, 1600, 1400, 1200>>),
     Decree(20080821, <<6000, 6000, 5000, 4000>>, <<2000, 2000, 1700, 1400>>),
     Decree(20100726, <<7500, 6500, 5500, 4000>>, <<2500, 2200, 1900, 1400>>),
     Decree(20140101, <<9500, 8000, 6000, 4500>>, <<3200, 2700, 2000, 1500>>),
     Decree(20160331, <<10000, 8000, 6000, 5000>>, <<3400, 2700, 2000, 1700>>),
     Decree(20180918, <<11000, 10000, 6000, 5000>>, <<3700, 3400, 2000, 1700>>),
     Decree(20210511, <<15000, 13000, 7000, 6000>>, <<5000, 4300, 2300, 2000>>),
     Decree(20230221, <<16500, 14500, 8500, 7500>>, <<5500, 4800, 2800, 2500>>) >>

\* The latest decree of that date; the table is in the order of the decrees.
ApplicableRule(date) ==
  LET inForce == {i \in DOMAIN SmallDepositRules : SmallDepositRules[i].from <= date}
  IN  IF inForce = {} THEN Absent ELSE SmallDepositRules[Max(inForce)]

\* The first mortgage, else the registration of the auction; else it fails.
MortgageReference(rights) ==
  LET mortgages == {rights[i].received : i \in {j \in DOMAIN rights :
                      rights[j].type \in {"MORTGAGE", "COLLATERAL_PROVISIONAL_REGISTRATION"}}}
      auction == SelectInSeq(rights, LAMBDA right : right.type = "AUCTION_COMMENCEMENT")
  IN  IF mortgages # {} THEN Min(mortgages)
      ELSE IF auction # 0 THEN rights[auction].received ELSE Absent

\* What a tenant gets before everybody else; 0 if the deposit is not small.
SmallDeposit(tenant, rule, region) ==
  IF tenant.deposit > rule.deposit[region] THEN 0
  ELSE Least(tenant.deposit, rule.repaid[region])

-----------------------------------------------------------------------------
(* The distribution: a book of the money left and of the payments made.    *)

Pay(book, stage, to, amount) ==
  [left |-> book.left - amount,
   entries |-> Append(book.entries, [stage |-> stage, to |-> to, amount |-> amount])]
Received(book, stages, who) ==
  SumOf(book.entries, LAMBDA e : IF e.stage \in stages /\ e.to = who THEN e.amount ELSE 0)

\* Faulty: the share is of everything that is left.
SmallBudgetUncapped(afterCosts) == afterCosts

\* The small deposits together get at most half of the money (decree, art. 10).
SmallBudget(afterCosts) == afterCosts \div 2

PayShare(book, tenant, claim, total, budget) ==
  IF claim > 0 THEN Pay(book, "small", tenant.id, (claim * budget) \div total) ELSE book
PayShares(book, tenants, rule, region, total, budget) ==
  FoldLeft(LAMBDA b, t : PayShare(b, t, SmallDeposit(t, rule, region), total, budget),
           book, tenants)
SmallTotal(tenants, rule, region) == SumOf(tenants, LAMBDA t : SmallDeposit(t, rule, region))
PaySmallDeposits(book, tenants, rule, region) ==
  LET total == SmallTotal(tenants, rule, region)
  IN  PayShares(book, tenants, rule, region, total, Least(total, SmallBudget(book.left)))

\* A tax on the property itself that became due after a tenant's fixed date
\* leaves its money to that tenant.
Relief(book, tenant, tax, due) ==
  LET claim == tenant.deposit - Received(book, {"small", "relief"}, tenant.id) IN
  IF tenant.fixed # Absent /\ tenant.fixed < tax.statutory /\ claim > 0
  THEN Least(claim, Least(due, book.left)) ELSE 0

Relieved(paid, tenant, tax) ==
  LET amount == Relief(paid.book, tenant, tax, paid.due) IN
  IF amount > 0 THEN [book |-> Pay(paid.book, "relief", tenant.id, amount),
                      due |-> paid.due - amount]
  ELSE paid
PayTaxItself(book, tax, due) ==
  LET rest == Least(book.left, due)
  IN  IF rest > 0 THEN Pay(book, "tax", tax.id, rest) ELSE book
Relieve(paid, tenants, tax) == FoldLeft(LAMBDA acc, t : Relieved(acc, t, tax), paid, tenants)
PayPropertyTax(book, tax, tenants, reliefApplies) ==
  LET start == [book |-> book, due |-> tax.amount]
      paid == IF reliefApplies THEN Relieve(start, tenants, tax) ELSE start
  IN  PayTaxItself(paid.book, tax, paid.due)

\* The parts of a deposit, each with the fixed date that ranks it.
ByFixedDate(parts) == SortedBy(parts, LAMBDA part : part.fixed)
Tranches(tenant) ==
  IF tenant.tranches = << >>
  THEN << [amount |-> tenant.deposit, fixed |-> tenant.fixed] >>
  ELSE ByFixedDate(tenant.tranches)
Mismatched(tenant) ==
  tenant.tranches # << >> /\ SumOf(tenant.tranches, LAMBDA part : part.amount) # tenant.deposit

Claim(who, date, amount) == [to |-> who, date |-> date, amount |-> amount]

\* Faulty: what a tenant has received comes off twice.
TenantClaimsOffsetTwice(tenant, received) ==
  IF tenant.deposit > 2 * received /\ tenant.fixed # Absent
  THEN << Claim(tenant.id, Most(tenant.fixed, PossessionDate(tenant)),
                tenant.deposit - 2 * received) >>
  ELSE << >>

\* What a tenant has received comes off the parts that rank first; a part
\* without a fixed date has no rank.
ClaimPart(acc, part, tenant) ==
  LET offset == Least(acc.offset, part.amount)
      rest == part.amount - offset
  IN  [offset |-> acc.offset - offset,
       claims |-> IF rest > 0 /\ part.fixed # Absent
                  THEN Append(acc.claims, Claim(tenant.id, Most(part.fixed, PossessionDate(tenant)),
                                                rest))
                  ELSE acc.claims]
ClaimParts(acc, parts, tenant) ==
  FoldLeft(LAMBDA a, part : ClaimPart(a, part, tenant), acc, parts)
TenantClaims(tenant, received) ==
  ClaimParts([offset |-> received, claims |-> << >>], Tranches(tenant), tenant).claims

\* Claims by rank: tenants' parts, rights with an amount, other taxes.
ClaimRight(claims, right) ==
  IF right.amount # Absent
  THEN Append(claims, Claim(right.id, right.received, right.amount)) ELSE claims
ClaimTax(claims, tax) ==
  IF ~tax.property /\ tax.amount # Absent
  THEN Append(claims, Claim(tax.id, tax.statutory, tax.amount)) ELSE claims
ClaimTenant(claims, book, t) ==
  claims \o TenantClaims(t, Received(book, {"small", "relief"}, t.id))
ClaimTenants(book, tenants) ==
  FoldLeft(LAMBDA claims, t : ClaimTenant(claims, book, t), << >>, tenants)
ClaimRights(claims, rights) == FoldLeft(ClaimRight, claims, rights)
ClaimTaxes(claims, taxes) == FoldLeft(ClaimTax, claims, taxes)
ByRank(claims) == SortedBy(claims, LAMBDA claim : claim.date)
RankedClaims(book, tenants, rights, taxes) ==
  ByRank(ClaimTaxes(ClaimRights(ClaimTenants(book, tenants), rights), taxes))

PayClaim(book, claim) ==
  IF book.left > 0 THEN Pay(book, "rank", claim.to, Least(book.left, claim.amount)) ELSE book
PayInOrder(book, claims) == FoldLeft(PayClaim, book, claims)

\* Faulty: the relief is in force for every sale.
ReliefAlways(decided) == TRUE

\* The relief is in force for sales decided from 1 April 2023, or not yet.
ReliefApplies(decided) == decided = Absent \/ decided >= 20230401

Got(book, who) == Received(book, {"small", "relief", "rank"}, who)

\* What each tenant has received, and what a buyer assumes of the rest.
Outcome(file, baseline, afterCosts, book) ==
  LET received == [i \in DOMAIN file.tenants |-> Got(book, file.tenants[i].id)] IN
  [book |-> book, afterCosts |-> afterCosts, received |-> received,
   assumed |-> [i \in DOMAIN file.tenants |->
                  IF HasPriority(file.tenants[i], baseline)
                  THEN Most(0, file.tenants[i].deposit - received[i]) ELSE 0]]

\* The three stages, for the tenants whose demand counts.
PayTax(book, tax, tenants, reliefApplies) ==
  IF tax.property /\ tax.amount # Absent
  THEN PayPropertyTax(book, tax, tenants, reliefApplies) ELSE book
PayTaxes(book, taxes, tenants, reliefApplies) ==
  FoldLeft(LAMBDA b, tax : PayTax(b, tax, tenants, reliefApplies), book, taxes)
ByDueDate(taxes) == SortedBy(taxes, LAMBDA tax : tax.statutory)
PayRanks(book, tenants, rights, taxes) ==
  PayInOrder(book, RankedClaims(book, tenants, rights, taxes))
PayAll(file, joining, rule, afterCosts) ==
  LET start == [left |-> afterCosts, entries |-> << >>]
      small == PaySmallDeposits(start, joining, rule, file.region)
      taxed == PayTaxes(small, ByDueDate(file.taxes), joining, ReliefApplies(file.decided))
  IN  PayRanks(taxed, joining, file.rights, file.taxes)

DistributeAmong(file, baseline, joining, rule, afterCosts) ==
  IF \/ joining # << >> /\ rule = Absent
     \/ \E i \in DOMAIN joining : Mismatched(joining[i])
  THEN Absent
  ELSE Outcome(file, baseline, afterCosts, PayAll(file, joining, rule, afterCosts))

\* The tenants whose demand counts.
Joined(joining, t, deadline) ==
  IF DemandEffective(t, deadline) THEN Append(joining, t) ELSE joining
Join(tenants, deadline) ==
  FoldLeft(LAMBDA joining, t : Joined(joining, t, deadline), << >>, tenants)

\* The whole distribution, or Absent where the code throws.
Distribute(file, baseline) ==
  LET reference == MortgageReference(file.rights) IN
  IF reference = Absent THEN Absent
  ELSE DistributeAmong(file, baseline,
                       Join(file.tenants, file.deadline),
                       ApplicableRule(reference), Most(0, file.sale - file.cost))

=============================================================================
