------------------------------ MODULE NoticeRules ------------------------------
(***************************************************************************)
(* What the court's notice alone says about the tenants: the rows of one   *)
(* person merged (notice-tenant-merge.ts), the verdict on each deposit     *)
(* (notice-assumption.ts), and the cost of a bid (affordability.ts).       *)
(***************************************************************************)
EXTENDS Distribution, TotalBurden

Fields == {"part", "moveIn", "fixed", "deposit", "demanded", "demandedOn"}

\* A tenant's own claim is trusted most, the visit of the bailiff least.
SourceRank(source) ==
  CASE source = "claim" -> 3 [] source = "register" -> 2 [] source = "survey" -> 1
    [] OTHER -> 0

\* Faulty: an overwritten field keeps the rank of its first value.
TakeKeepingRank(person, row) ==
  LET Better(f) == row[f] # Absent
                   /\ (person.value[f] = Absent \/ SourceRank(row.source) > person.rank[f])
  IN  [seq |-> row.seq, sources |-> (person.sources \union {row.source}) \ {Absent},
       value |-> [f \in Fields |-> IF Better(f) THEN row[f] ELSE person.value[f]],
       rank |-> [f \in Fields |-> IF person.value[f] = Absent /\ row[f] # Absent
                                  THEN SourceRank(row.source) ELSE person.rank[f]]]

\* A row fills the fields that are still empty and overwrites those that come
\* from a source trusted less.
Take(person, row) ==
  LET Better(f) == row[f] # Absent
                   /\ (person.value[f] = Absent \/ SourceRank(row.source) > person.rank[f])
  IN  [seq |-> row.seq, sources |-> (person.sources \union {row.source}) \ {Absent},
       value |-> [f \in Fields |-> IF Better(f) THEN row[f] ELSE person.value[f]],
       rank |-> [f \in Fields |-> IF Better(f) THEN SourceRank(row.source)
                                  ELSE person.rank[f]]]

\* One person from all rows of that number, and the people by number.
Nobody(n) == [seq |-> n, sources |-> {}, value |-> [f \in Fields |-> Absent],
              rank |-> [f \in Fields |-> 0]]
TakeOwn(person, row) == IF row.seq = person.seq THEN Take(person, row) ELSE person
Merged(rows, n) == FoldLeft(TakeOwn, Nobody(n), rows)
MergeNoticeTenants(rows) ==
  LET numbers == {rows[i].seq : i \in DOMAIN rows} IN
  [k \in 1..Cardinality(numbers) |->
     Merged(rows, CHOOSE n \in numbers : Cardinality({m \in numbers : m < n}) = k - 1)]

Verdict(assumption, amount, effective) ==
  [assumption |-> assumption, amount |-> amount, effective |-> effective]

\* Faulty: an unread demand is taken as none.
ClassifyUnreadAsNone(tenant, baseline, deadline) ==
  LET inTime == tenant.demandedOn # Absent /\ deadline # Absent /\ tenant.demandedOn <= deadline
      effective == tenant.demanded # Absent /\ tenant.demanded /\ inTime
  IN  IF tenant.moveIn = Absent \/ baseline = Absent THEN Verdict("UNKNOWN", Absent, Absent)
      ELSE IF ~HasPriority(tenant, baseline) THEN Verdict("NOT_ASSUMED", 0, effective)
      ELSE IF ~effective THEN Verdict("ASSUMED_FULL", tenant.deposit, FALSE)
      ELSE Verdict("ASSUMED_AMOUNT_UNKNOWN", Absent, TRUE)

\* The demand counts for nothing and against nothing if it, or the deadline,
\* was not read; only a demand known to be missing leaves the whole deposit.
ClassifyNoticeAssumption(tenant, baseline, deadline) ==
  LET known == tenant.demanded # Absent /\ deadline # Absent
      effective == IF known THEN DemandEffective(tenant, deadline) ELSE Absent
  IN  IF tenant.moveIn = Absent \/ baseline = Absent THEN Verdict("UNKNOWN", Absent, Absent)
      ELSE IF ~HasPriority(tenant, baseline) THEN Verdict("NOT_ASSUMED", 0, effective)
      ELSE IF known /\ ~effective THEN Verdict("ASSUMED_FULL", tenant.deposit, FALSE)
      ELSE Verdict("ASSUMED_AMOUNT_UNKNOWN", Absent, effective)

AnalyzeNotice(rows, baseline, deadline) ==
  LET people == MergeNoticeTenants(rows) IN
  [k \in DOMAIN people |-> ClassifyNoticeAssumption(people[k].value, baseline, deadline)]

AssumedAmount(v) == IF v.assumption = "ASSUMED_FULL" /\ v.amount # Absent THEN v.amount ELSE 0

\* The sum is a lower bound if any verdict has no amount.
AssumedTotalOf(verdicts) ==
  [amount |-> SumOf(verdicts, AssumedAmount),
   lowerBound |-> \E k \in DOMAIN verdicts :
                    \/ verdicts[k].assumption \in {"ASSUMED_AMOUNT_UNKNOWN", "UNKNOWN"}
                    \/ verdicts[k].assumption = "ASSUMED_FULL" /\ verdicts[k].amount = Absent]

\* The large number of the page: an amount, "to be confirmed", or none.
AssumedHeadline(total) ==
  IF total.amount > 0 THEN "AMOUNT" ELSE IF total.lowerBound THEN "UNCONFIRMED" ELSE "NONE"

EvictionOutlookOf(verdicts) ==
  IF verdicts = << >> THEN "NO_REPORTED_TENANT"
  ELSE IF \E k \in DOMAIN verdicts : verdicts[k].assumption # "NOT_ASSUMED"
  THEN "TENANT_WITH_LOSS" ELSE "TENANT_FULLY_COVERED"

-----------------------------------------------------------------------------
(* The cost of a bid, for the bids a reader may have in mind.  A rate is in *)
(* tenths of a per cent of the appraisal; so is the ratio of a scenario.   *)

PropertyKindOfUsage(usage) ==
  IF usage = "home" THEN "HOUSING" ELSE IF usage = "shop" THEN "NON_HOUSING" ELSE Absent

RatioRange(range, appraisal) ==
  IF appraisal = Absent \/ appraisal <= 0 THEN Absent
  ELSE Span(Rounded(range.min, 10 * appraisal), Rounded(range.max, 10 * appraisal))

\* item: appraisal, minimum, bulk, usage.  rates: the quartiles of comparable
\* sales, or Absent without a sample.
ComputeAffordability(item, verdicts, rates, custom) ==
  LET assumed == AssumedTotalOf(verdicts)
      priced == ~item.bulk /\ item.minimum # Absent /\ item.minimum > 0
      rated == ~item.bulk /\ item.appraisal # Absent /\ item.appraisal > 0 /\ rates # Absent
      Scenario(kind, bid) ==
        LET range == CalculateTotalBurden(bid, assumed.amount, PropertyKindOfUsage(item.usage),
                                          EvictionOutlookOf(verdicts))
        IN  [kind |-> kind, bid |-> bid, range |-> range,
             ratio |-> RatioRange(range, item.appraisal)]
      ByRate(rate) == Rounded(item.appraisal * rate, 1000)
  IN  [assumed |-> assumed,
       scenarios |->
         (IF priced THEN {Scenario("MINIMUM_PRICE", item.minimum)} ELSE {})
         \union (IF rated THEN {Scenario("COMPARABLE", ByRate(rates[q])) : q \in 1..3} ELSE {})
         \union (IF custom # Absent /\ custom > 0 THEN {Scenario("CUSTOM", custom)} ELSE {})]

=============================================================================
