------------------------------ MODULE TotalBurden ------------------------------
(***************************************************************************)
(* What a buyer needs in the end (total-burden.ts): the bid, the deposits  *)
(* assumed, and ranges for tax, transfer and eviction.  Prices and         *)
(* deposits come in units of 10,000 won, ranges and totals are in won.     *)
(***************************************************************************)
EXTENDS Integers

Span(min, max) == [min |-> min, max |-> max]
Rounded(n, d) == (n + d \div 2) \div d

\* Faulty: the middle bracket starts from the whole price.
HousingMinTaxOfWhole(bid) ==
  IF bid <= 60000 THEN 110 * bid
  ELSE IF bid >= 90000 THEN 330 * bid
  ELSE 11 * (bid \div 1500) * (bid - 60000)

\* The tax on a home of up to 600 million, from 900 million, and in between
\* (rate linear in the price; 45000 is 450 million), local education tax included.
HousingMinTax(bid) ==
  LET above == bid - 45000 IN
  IF bid <= 60000 THEN 110 * bid
  ELSE IF bid >= 90000 THEN 330 * bid
  ELSE 11 * (bid \div 1500) * above + Rounded(11 * (bid % 1500) * above, 1500)

\* A range over both systems when the kind is not known.
AcquisitionTax(bid, kind) ==
  LET other == 460 * bid
      least == HousingMinTax(bid)
  IN  CASE kind = "NON_HOUSING" -> Span(other, other)
        [] kind = "HOUSING" -> Span(least, 1340 * bid)
        [] OTHER -> Span(IF least < other THEN least ELSE other, 1340 * bid)

EvictionCost(outlook) ==
  CASE outlook = "NO_REPORTED_TENANT" -> Span(0, 1500000)
    [] outlook = "TENANT_FULLY_COVERED" -> Span(500000, 3000000)
    [] outlook = "TENANT_WITH_LOSS" -> Span(2000000, 7000000)

CalculateTotalBurden(bid, assumed, kind, outlook) ==
  LET tax == AcquisitionTax(bid, kind)
      eviction == EvictionCost(outlook)
      total == 10000 * (bid + assumed)
  IN  Span(total + tax.min + 50 * bid + eviction.min,
           total + tax.max + 150 * bid + eviction.max)

=============================================================================
