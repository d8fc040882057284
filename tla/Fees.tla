-------------------------------- MODULE Fees --------------------------------
(***************************************************************************)
(* The fee calculators of fees.py.                                         *)
(*                                                                         *)
(* Prices are whole cents, 1..99, and money is in micro-dollars: then a    *)
(* taker fee of r percent of p(1-p) dollars is exactly r*p*(100-p), and a  *)
(* commission of r percent of a win is 100*r*(100-p).  Nothing is rounded  *)
(* that the code does not round.  The code's floats carry the same values  *)
(* up to about 1e-16; its epsilon in kalshi_taker_fee removes just that.   *)
(*                                                                         *)
(* Every calculator returns the net profit of one contract per leg: the    *)
(* number a scan compares with its minimum and a revalidation with its     *)
(* threshold.                                                              *)
(***************************************************************************)
EXTENDS Integers, Sequences, Functions

Price == 1..99
Cent == 10000
Dollar == 1000000
Gas == 5000
CtfGas == 10000
DefaultRate == 4
BetfairRate == 5
SmarketsRate == 2

Venues == {"polymarket", "kalshi", "betfair", "smarkets",
           "sxbet", "matchbook", "gemini", "ibkr"}
FeeModels == {"expected_value", "worst_case"}

CeilDiv(a, b) == (a + b - 1) \div b
Larger(a, b) == IF a >= b THEN a ELSE b
Smaller(a, b) == IF a <= b THEN a ELSE b
Total(f) == SumFunction(f)

-----------------------------------------------------------------------------
(* Fees at entry, on the order.                                            *)

CategoryRate ==
  [c \in {"crypto", "sports", "finance", "politics", "mentions", "tech",
          "economics", "culture", "weather", "other", "geopolitics"} |->
     CASE c = "crypto" -> 7
       [] c = "sports" -> 3
       [] c \in {"economics", "culture", "weather", "other"} -> 5
       [] c = "geopolitics" -> 0
       [] OTHER -> 4]

RateOf(category) ==
  IF category \in DOMAIN CategoryRate THEN CategoryRate[category] ELSE DefaultRate

PolymarketTaker(rate, p, n) == rate * n * p * (100 - p)

(* Rounded up to the cent on the order's total. *)
KalshiTaker(p, n) == Cent * CeilDiv(7 * n * p * (100 - p), 10000)

GeminiTaker(p, n) == Cent * CeilDiv(7 * n * p * (100 - p), 10000)

EntryFee(venue, rate, p, n) ==
  CASE venue = "polymarket" -> PolymarketTaker(rate, p, n)
    [] venue = "kalshi" -> KalshiTaker(p, n)
    [] venue = "gemini" -> GeminiTaker(p, n)
    [] OTHER -> 0

-----------------------------------------------------------------------------
(* Commission on the winning leg, at settlement.                           *)

Commission(percent, p) == 100 * percent * (100 - p)

WinFee(venue, p) ==
  CASE venue = "betfair" -> Commission(BetfairRate, p)
    [] venue = "smarkets" -> Commission(SmarketsRate, p)
    [] OTHER -> 0

GasFor(venue) == IF venue = "polymarket" THEN Gas ELSE 0

(* The fees of the two outcomes weighed by the price of the first, or the  *)
(* dearer of them.                                                         *)
MutantSelectFees(model, caseA, caseB, p) ==  \* FEE_MODEL never read
  (p * caseA + (100 - p) * caseB) \div 100

SelectFees(model, caseA, caseB, p) ==
  IF model = "expected_value"
  THEN (p * caseA + (100 - p) * caseB) \div 100
  ELSE Larger(caseA, caseB)

-----------------------------------------------------------------------------
(* The calculators.  A spread that is not positive is returned as it is,   *)
(* with no fee.                                                            *)

Net(gross, charges) == IF gross <= 0 THEN gross ELSE gross - charges

PairGross(a, b) == Dollar - Cent * (a + b)

NetBinary(rate, yes, no) ==
  Net(PairGross(yes, no),
      PolymarketTaker(rate, yes, 1) + PolymarketTaker(rate, no, 1) + 2 * Gas)

NetKalshiBinary(yes, no) ==
  Net(PairGross(yes, no), KalshiTaker(yes, 1) + KalshiTaker(no, 1))

NetGeminiBinary(yes, no) ==
  Net(PairGross(yes, no), GeminiTaker(yes, 1) + GeminiTaker(no, 1))

NetIbkrBinary(yes, no) == Net(PairGross(yes, no), 0)

SetGross(ps) == Dollar - Cent * Total(ps)

NetNegRisk(rate, ps) ==
  Net(SetGross(ps),
      Total([i \in DOMAIN ps |-> PolymarketTaker(rate, ps[i], 1)]) + Gas * Len(ps))

(* All but one of the NO contracts pay. *)
NetNegRiskNo(ps) ==
  IF Len(ps) < 2 THEN 0
  ELSE Net(Dollar * (Len(ps) - 1) - Cent * Total(ps),
           Total([i \in DOMAIN ps |-> PolymarketTaker(DefaultRate, ps[i], 1)])
             + Gas * Len(ps))

NetKalshiMulti(ps) ==
  Net(SetGross(ps), Total([i \in DOMAIN ps |-> KalshiTaker(ps[i], 1)]))

NetGeminiMulti(ps) ==
  Net(SetGross(ps), Total([i \in DOMAIN ps |-> GeminiTaker(ps[i], 1)]))

(* The commission of the dearest win, that of the cheapest leg. *)
Cheapest(ps) == CHOOSE p \in Range(ps) : \A q \in Range(ps) : p <= q

NetBetfairBackAll(ps) == Net(SetGross(ps), Commission(BetfairRate, Cheapest(ps)))

NetSmarketsBackAll(ps) == Net(SetGross(ps), Commission(SmarketsRate, Cheapest(ps)))

NetCrossPlatform(poly, kalshi) ==
  Net(PairGross(poly, kalshi),
      PolymarketTaker(DefaultRate, poly, 1) + KalshiTaker(kalshi, 1) + Gas)

NetCrossCommission(model, percent, poly, other) ==
  LET entry == PolymarketTaker(DefaultRate, poly, 1)
  IN Net(PairGross(poly, other),
         SelectFees(model, entry, entry + Commission(percent, other), poly) + Gas)

NetCrossBetfair(model, poly, bf) == NetCrossCommission(model, BetfairRate, poly, bf)

NetCrossSmarkets(model, poly, sm) == NetCrossCommission(model, SmarketsRate, poly, sm)

NetCrossFree(poly, other) ==
  Net(PairGross(poly, other), PolymarketTaker(DefaultRate, poly, 1) + Gas)

NetCrossGemini(poly, gm) ==
  Net(PairGross(poly, gm),
      PolymarketTaker(DefaultRate, poly, 1) + GeminiTaker(gm, 1) + Gas)

(* Any two venues; one charge of gas if either is Polymarket. *)
NetCrossGeneric(model, va, vb, a, b) ==
  LET entry == EntryFee(va, DefaultRate, a, 1) + EntryFee(vb, DefaultRate, b, 1)
  IN Net(PairGross(a, b),
         SelectFees(model, WinFee(va, a) + entry, WinFee(vb, b) + entry, a)
           + (IF "polymarket" \in {va, vb} THEN Gas ELSE 0))

NetTriangular(model, va, vb, yes, no) == NetCrossGeneric(model, va, vb, yes, no)

(* YES of the implied market at pb, NO of the implying one at 100 - pa. *)
NetImplication(onKalshi, rate, pa, pb) ==
  Net(Cent * (pa - pb),
      IF onKalshi THEN KalshiTaker(pb, 1) + KalshiTaker(100 - pa, 1)
      ELSE PolymarketTaker(rate, pb, 1) + PolymarketTaker(rate, 100 - pa, 1) + 2 * Gas)

NetCtfMerge(rate, yes, no) ==
  Net(PairGross(yes, no),
      PolymarketTaker(rate, yes, 1) + PolymarketTaker(rate, no, 1) + CtfGas + 2 * Gas)

(* Bids: a dollar is split and both halves are sold. *)
NetCtfMint(rate, yes, no) ==
  Net(- PairGross(yes, no),
      PolymarketTaker(rate, yes, 1) + PolymarketTaker(rate, no, 1) + CtfGas + 2 * Gas)

-----------------------------------------------------------------------------
(* The cheapest route of a pair of venues.                                 *)

EstimateTotalFee(venue, p) ==
  CASE venue = "polymarket" -> PolymarketTaker(DefaultRate, p, 1) + Gas
    [] venue = "kalshi" -> KalshiTaker(p, 1)
    [] venue = "gemini" -> GeminiTaker(p, 1)
    [] venue = "betfair" -> Commission(BetfairRate, p)
    [] venue = "smarkets" -> Commission(SmarketsRate, p)
    [] OTHER -> 0

PathNet(yes, no, path) ==
  PairGross(yes[path[1]], no[path[2]])
    - EstimateTotalFee(path[1], yes[path[1]]) - EstimateTotalFee(path[2], no[path[2]])

(* The most profitable of the paths <<venue of YES, venue of NO>> that     *)
(* make a profit: a set, empty when there is none.                         *)
LowestFeePaths(venues, yes, no) ==
  LET Profitable == {path \in venues \X venues :
                       /\ path[1] # path[2]
                       /\ PairGross(yes[path[1]], no[path[2]]) > 0
                       /\ PathNet(yes, no, path) > 0}
  IN {path \in Profitable :
        \A other \in Profitable : PathNet(yes, no, path) >= PathNet(yes, no, other)}
=============================================================================
