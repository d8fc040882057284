----------------------------- MODULE FeesProofs -----------------------------
(***************************************************************************)
(* Theorems about the calculators of fees.py, for every price, rate and    *)
(* number of contracts.                                                    *)
(***************************************************************************)
EXTENDS Fees, TLAPS

\* Rounding up: at least the quotient, and less than one above it.
LEMMA CeilBounds ==
  ASSUME NEW a \in Nat, NEW b \in Nat \ {0}
  PROVE  /\ CeilDiv(a, b) \in Nat
         /\ a <= b * CeilDiv(a, b)
         /\ b * CeilDiv(a, b) < a + b
<1> DEFINE q == (a + b - 1) \div b
           r == (a + b - 1) % b
<1>1. a + b - 1 \in Nat
  OBVIOUS
<1>2. q \in Int /\ r \in 0 .. b - 1 /\ a + b - 1 = b * q + r
  BY <1>1
<1>3. q >= 0
  BY <1>1
<1>4. QED
  BY <1>2, <1>3 DEF CeilDiv

\* A taker fee is charged on the total of the order.
LEMMA TakerBase ==
  ASSUME NEW p \in Price, NEW n \in Nat
  PROVE  7 * n * p * (100 - p) \in Nat
<1>1. p \in Nat /\ 100 - p \in Nat
  BY DEF Price
<1>2. n * p \in Nat
  BY <1>1
<1>3. \A x, y \in Nat : x * y \in Nat
  OBVIOUS
<1>4. n * p * (100 - p) \in Nat
  BY <1>1, <1>2, <1>3
<1>5. 7 * n * p * (100 - p) = 7 * (n * p * (100 - p))
  BY <1>1
<1>6. QED
  BY <1>4, <1>5

\* Kalshi's fee is never below seven percent of p(1-p) on the whole order and
\* less than a cent above it (kalshi_taker_fee).
THEOREM KalshiFeeIsCeiling ==
  ASSUME NEW p \in Price, NEW n \in Nat
  PROVE  /\ 7 * n * p * (100 - p) <= KalshiTaker(p, n)
         /\ KalshiTaker(p, n) < 7 * n * p * (100 - p) + Cent
<1> DEFINE base == 7 * n * p * (100 - p)
<1>1. base \in Nat
  BY TakerBase
<1> HIDE DEF base
<1>2. CeilDiv(base, 10000) \in Nat /\ base <= 10000 * CeilDiv(base, 10000)
      /\ 10000 * CeilDiv(base, 10000) < base + 10000
  BY <1>1, CeilBounds
<1>3. KalshiTaker(p, n) = 10000 * CeilDiv(base, 10000)
  BY DEF KalshiTaker, Cent, base
<1>4. base <= KalshiTaker(p, n) /\ KalshiTaker(p, n) < base + Cent
  BY <1>2, <1>3 DEF Cent
<1>5. QED
  BY <1>4 DEF base

\* What is charged is a whole number of micro-dollars.
LEMMA EntryFeeIsMoney ==
  ASSUME NEW venue \in Venues, NEW p \in Price
  PROVE  EntryFee(venue, DefaultRate, p, 1) \in Nat
<1>1. KalshiTaker(p, 1) \in Nat /\ GeminiTaker(p, 1) \in Nat
  <2> DEFINE base == 7 * 1 * p * (100 - p)
  <2>1. base \in Nat
    BY TakerBase
  <2> HIDE DEF base
  <2>2. CeilDiv(base, 10000) \in Nat
    BY <2>1, CeilBounds
  <2>3. \A x \in Nat : Cent * x \in Nat
    BY DEF Cent
  <2>4. QED
    BY <2>2, <2>3 DEF KalshiTaker, GeminiTaker, base
<1>2. PolymarketTaker(DefaultRate, p, 1) \in Nat
  BY DEF PolymarketTaker, DefaultRate, Price
<1>3. QED
  BY <1>1, <1>2 DEF EntryFee

LEMMA WinFeeIsMoney ==
  ASSUME NEW venue \in Venues, NEW p \in Price
  PROVE  WinFee(venue, p) \in Nat
  BY DEF WinFee, Commission, BetfairRate, SmarketsRate, Price

\* Two outcomes that cost the same cost that, in either model.
LEMMA SelectSame ==
  ASSUME NEW model \in FeeModels, NEW fee \in Nat, NEW p \in Price
  PROVE  SelectFees(model, fee, fee, p) = fee
<1>1. p * fee + (100 - p) * fee = 100 * fee
  BY DEF Price
<1>2. (100 * fee) \div 100 = fee
  OBVIOUS
<1>3. QED
  BY <1>1, <1>2 DEF SelectFees, Larger

\* The scan prices a Polymarket pair with a calculator of its own
\* (_CROSS_FEE_FUNCS in scans/cross.py), a price update over the WebSocket with
\* the general one (continuous.py): both promise the same profit, in either
\* fee model.
THEOREM CrossAgreesWithGeneric ==
  ASSUME NEW model \in FeeModels, NEW a \in Price, NEW b \in Price
  PROVE  /\ NetCrossPlatform(a, b) = NetCrossGeneric(model, "polymarket", "kalshi", a, b)
         /\ NetCrossGemini(a, b) = NetCrossGeneric(model, "polymarket", "gemini", a, b)
         /\ NetCrossBetfair(model, a, b) = NetCrossGeneric(model, "polymarket", "betfair", a, b)
         /\ NetCrossSmarkets(model, a, b) = NetCrossGeneric(model, "polymarket", "smarkets", a, b)
         /\ \A venue \in {"sxbet", "matchbook", "ibkr"} :
              NetCrossFree(a, b) = NetCrossGeneric(model, "polymarket", venue, a, b)
<1> DEFINE poly == PolymarketTaker(DefaultRate, a, 1)
           fee(venue) == EntryFee(venue, DefaultRate, b, 1)
<1>1. poly \in Nat /\ \A venue \in Venues : fee(venue) \in Nat /\ WinFee(venue, b) \in Nat
  BY EntryFeeIsMoney, WinFeeIsMoney DEF EntryFee, Venues
<1>2. \A venue \in Venues : NetCrossGeneric(model, "polymarket", venue, a, b)
        = Net(PairGross(a, b),
              SelectFees(model, poly + fee(venue), WinFee(venue, b) + (poly + fee(venue)), a) + Gas)
  <2>1. EntryFee("polymarket", DefaultRate, a, 1) = poly /\ WinFee("polymarket", a) = 0
    BY DEF EntryFee, WinFee
  <2>2. QED
    BY <1>1, <2>1 DEF NetCrossGeneric
<1> HIDE DEF poly, fee
<1>3. ASSUME NEW venue \in Venues, WinFee(venue, b) = 0
      PROVE  NetCrossGeneric(model, "polymarket", venue, a, b)
               = Net(PairGross(a, b), poly + fee(venue) + Gas)
  <2>1. poly + fee(venue) \in Nat /\ WinFee(venue, b) + (poly + fee(venue)) = poly + fee(venue)
    BY <1>1, <1>3
  <2>2. QED
    BY <1>2, <2>1, SelectSame
<1>4. /\ fee("kalshi") = KalshiTaker(b, 1) /\ WinFee("kalshi", b) = 0
      /\ fee("gemini") = GeminiTaker(b, 1) /\ WinFee("gemini", b) = 0
      /\ \A venue \in {"sxbet", "matchbook", "ibkr"} : fee(venue) = 0 /\ WinFee(venue, b) = 0
      /\ fee("betfair") = 0 /\ WinFee("betfair", b) = Commission(BetfairRate, b)
      /\ fee("smarkets") = 0 /\ WinFee("smarkets", b) = Commission(SmarketsRate, b)
  BY DEF fee, EntryFee, WinFee
<1>5. {"kalshi", "gemini", "betfair", "smarkets", "sxbet", "matchbook", "ibkr"} \subseteq Venues
  BY DEF Venues
<1>6. NetCrossPlatform(a, b) = Net(PairGross(a, b), poly + KalshiTaker(b, 1) + Gas)
      /\ NetCrossGemini(a, b) = Net(PairGross(a, b), poly + GeminiTaker(b, 1) + Gas)
      /\ NetCrossFree(a, b) = Net(PairGross(a, b), poly + Gas)
  BY DEF NetCrossPlatform, NetCrossGemini, NetCrossFree, poly
<1>7. \A percent : NetCrossCommission(model, percent, a, b)
        = Net(PairGross(a, b), SelectFees(model, poly, poly + Commission(percent, b), a) + Gas)
  BY DEF NetCrossCommission, poly
<1>8. \A venue \in {"betfair", "smarkets"} :
        poly + fee(venue) = poly
        /\ WinFee(venue, b) + (poly + fee(venue)) = poly + WinFee(venue, b)
  BY <1>1, <1>4, <1>5
<1>9. /\ NetCrossBetfair(model, a, b) = NetCrossGeneric(model, "polymarket", "betfair", a, b)
      /\ NetCrossSmarkets(model, a, b) = NetCrossGeneric(model, "polymarket", "smarkets", a, b)
  BY <1>2, <1>4, <1>5, <1>7, <1>8 DEF NetCrossBetfair, NetCrossSmarkets
<1>10. ASSUME NEW venue \in {"sxbet", "matchbook", "ibkr"}
       PROVE  NetCrossFree(a, b) = NetCrossGeneric(model, "polymarket", venue, a, b)
  <2>1. poly + fee(venue) = poly
    BY <1>1, <1>4
  <2>2. QED
    BY <1>3, <1>4, <1>5, <1>6, <2>1
<1>11. QED
  BY <1>3, <1>4, <1>5, <1>6, <1>9, <1>10

\* With FEE_MODEL worst_case, the profit promised for one contract on each of
\* two venues is what the worse of the two outcomes leaves, whichever venue
\* pays (net_profit_cross_generic, _select_fees).
THEOREM WorstCaseIsTheWorseOutcome ==
  ASSUME NEW va \in Venues, NEW vb \in Venues, NEW a \in Price, NEW b \in Price,
         PairGross(a, b) > 0
  PROVE  LET gas == IF "polymarket" \in {va, vb} THEN Gas ELSE 0
             spent == Cent * (a + b) + EntryFee(va, DefaultRate, a, 1)
                        + EntryFee(vb, DefaultRate, b, 1) + gas
             ifA == Dollar - spent - WinFee(va, a)
             ifB == Dollar - spent - WinFee(vb, b)
         IN  NetCrossGeneric("worst_case", va, vb, a, b) = Smaller(ifA, ifB)
<1> DEFINE ea == EntryFee(va, DefaultRate, a, 1)
           eb == EntryFee(vb, DefaultRate, b, 1)
           wa == WinFee(va, a)
           wb == WinFee(vb, b)
           gas == IF "polymarket" \in {va, vb} THEN Gas ELSE 0
<1>1. ea \in Nat /\ eb \in Nat /\ wa \in Nat /\ wb \in Nat
  BY EntryFeeIsMoney, WinFeeIsMoney
<1>2. gas \in Nat
  BY DEF Gas
<1>3. NetCrossGeneric("worst_case", va, vb, a, b)
        = PairGross(a, b) - (Larger(wa + (ea + eb), wb + (ea + eb)) + gas)
  BY <1>1, <1>2 DEF NetCrossGeneric, SelectFees, Net, PairGross, Price, Dollar, Cent
<1> HIDE DEF ea, eb, wa, wb, gas
<1>4. PairGross(a, b) - (Larger(wa + (ea + eb), wb + (ea + eb)) + gas)
        = Smaller(Dollar - (Cent * (a + b) + ea + eb + gas) - wa,
                  Dollar - (Cent * (a + b) + ea + eb + gas) - wb)
  BY <1>1, <1>2 DEF PairGross, Larger, Smaller, Price, Dollar, Cent
<1>5. QED
  BY <1>3, <1>4 DEF ea, eb, wa, wb, gas
=============================================================================
