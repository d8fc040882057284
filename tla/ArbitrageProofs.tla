--------------------------- MODULE ArbitrageProofs ---------------------------
(***************************************************************************)
(* Theorems about Arbitrage, for every set of kinds, prices, rates, fee    *)
(* models and sizes: the profit the calculators of src/fees.py name is a   *)
(* floor, and a set of legs that all filled pays.                          *)
(*                                                                         *)
(* The argument: the account of a set splits into parts, one per leg, that *)
(* only grow when the market's rate falls or a price moves inside its      *)
(* limit (SetByRate, SetByPrice); every calculator that names a profit     *)
(* names at most that account (ClaimIsLow); so prices that were approved   *)
(* pay, wherever they came from, and orders that fill within those prices  *)
(* pay as well (RouteInv, LegsInv).                                        *)
(***************************************************************************)
EXTENDS Arbitrage, FeesProofs, Sums, SequenceTheorems, TLAPS

-----------------------------------------------------------------------------
(* Kinds: those of two legs and those of three.                            *)

AllKinds == {"Binary", "KalshiBinary", "Cross", "Triangular", "Frechet",
             "FrechetKalshi", "Temporal", "CTFMerge", "CTFMint",
             "NegRisk", "NegRiskNO", "KalshiMulti", "BackAll"}

Threes == {"NegRisk", "NegRiskNO", "KalshiMulti", "BackAll"}
Places(k) == IF k \in Threes THEN 1..3 ELSE 1..2

\* A Cross may be sent the other way round as well: NO where its path says.
Sides(k) == Strategies(k) \cup (IF k = "Cross" THEN {<<4, 3>>} ELSE {})

\* Fees assumed at their worst, or no commission at either venue, and no two
\* orders charged one gas.
Worst(k, m) ==
  /\ \/ m = "worst_case"
     \/ k = "BackAll"
     \/ ~ \E i \in 1..Quoted(k) : VenueAt(k, i) \in {"betfair", "smarkets"}
  /\ k = "Triangular" => TrianglePair # <<"polymarket", "polymarket">>

-----------------------------------------------------------------------------
(* The inductive invariant.                                                *)

\* What the environment chose at the start, and never changes.
Fixed == kind \in Kinds /\ rate \in Rates /\ model \in Models

\* A fee path a Cross may carry.
Paths == [side : Sides("Cross"), prices : [1..2 -> Price]]

\* What a scan or a revalidation leaves behind: the profit is positive, and
\* the rate is one of those the two price with.
Opps(k, r) ==
  [side : Strategies(k), prices : [Places(k) -> Price], claim : Nat \ {0},
   rate : {ScanRate(k, r), RecheckRate(k, r)}, basis : [Places(k) -> Price],
   path : {NoHint} \cup (IF k = "Cross" THEN Paths ELSE {})]

\* The legs of a kind.
Orders(k) ==
  [side : Sides(k), limit : [Places(k) -> Price], qty : [Places(k) -> Nat \ {0}]]

\* What each step has made of the opportunity and of its legs.
ShapeInv ==
  /\ kind \in Kinds /\ rate \in Rates /\ model \in Models
  /\ book \in [1..Quoted(kind) -> Prices] /\ moves \in 0..MaxMoves
  /\ pc \in {"scan", "found", "approved", "placing", "filled", "broken"}
  /\ pc = "scan" => opp = NoOpp
  /\ pc # "scan" => opp \in Opps(kind, rate)
  /\ legs = NoLegs \/ legs \in Orders(kind)
  /\ pc \in {"placing", "filled"} => legs # NoLegs
  /\ pc \in {"scan", "found", "approved"} => paid = <<>>
  /\ paid \in Seq(Price) /\ Len(paid) <= Len(legs.limit)
  /\ pc = "placing" => Len(paid) < Len(legs.limit)
  /\ pc = "filled" => Len(paid) = Len(legs.limit)

\* The profit carried is the calculator's, at the prices it was read at.
ClaimInv == pc # "scan" => opp.claim = Claim(kind, opp.rate, model, opp.basis)

\* One contract of each leg, at given prices, is a profit in every outcome:
\* where fees are assumed at their worst, or the numbers of contracts equal.
GoodSet(k, r, m, s, ps) ==
  (r <= DefaultRate /\ Worst(k, m)) \/ k \in EqualContracts =>
    \A o \in Outcomes(k) : Settled(k, r, s, ps, Ones(ps), o) > 0

\* The prices the legs will be built from pay, those of the scan and those of
\* its fee path alike, although neither need be the books' any more.
RouteInv ==
  pc # "scan" => /\ GoodSet(kind, rate, model, opp.side, opp.prices)
                 /\ opp.path # NoHint => GoodSet(kind, rate, model, opp.path.side, opp.path.prices)

\* What q contracts, or dollars of stake, at ps cost: Affords of any legs.
Fits(s, ps, q, size) ==
  CASE kind = "CTFMint" -> \A i \in DOMAIN q : q[i] <= size
    [] kind \in EqualContracts \ {"CTFMint"} ->
         Total([i \in DOMAIN q |-> q[i] * ps[i]]) <= 100 * size
    [] OTHER ->
         \A i \in DOMAIN q :
           q[i] * (IF VenueAt(kind, s[i]) \in Staked THEN 100 ELSE ps[i]) <= 100 * size

\* Legs built pay at their limits, none has filled beyond its limit, and none
\* costs more than was allowed.
LegsInv ==
  legs # NoLegs =>
    /\ GoodSet(kind, rate, model, legs.side, legs.limit)
    /\ \A i \in DOMAIN paid : Marketable(legs.limit[i], paid[i])
    /\ kind \in EqualContracts => \A i \in DOMAIN legs.qty : legs.qty[i] = legs.qty[1]
    /\ \E size \in Sizes : Affords(size)

\* Inductive.
IInv == ShapeInv /\ ClaimInv /\ RouteInv /\ LegsInv

-----------------------------------------------------------------------------
(* Totals of two and of three.                                             *)

LEMMA TotalTwo ==
  \A f : DOMAIN f = 1..2 /\ f[1] \in Int /\ f[2] \in Int => Total(f) = f[1] + f[2]
<1> SUFFICES ASSUME NEW f, DOMAIN f = 1..2, f[1] \in Int, f[2] \in Int
             PROVE  Total(f) = f[1] + f[2]
  OBVIOUS
<1>1. IsFiniteSet({1}) /\ IsFiniteSet({2}) /\ IsFiniteSet({})
  BY FS_Singleton, FS_EmptySet
<1>2. SumFunctionOnSet(f, {} \cup {2}) = f[2] + SumFunctionOnSet(f, {})
  BY <1>1, SumInsert
<1>3. SumFunctionOnSet(f, {2} \cup {1}) = f[1] + SumFunctionOnSet(f, {2})
  BY <1>1, SumInsert
<1>4. {} \cup {2} = {2} /\ {2} \cup {1} = 1..2
  OBVIOUS
<1>5. Total(f) = SumFunctionOnSet(f, 1..2)
  BY DEF Total, SumFunction
<1>6. SumFunctionOnSet(f, {2}) = f[2]
  BY <1>2, <1>4, SumEmpty
<1> QED BY <1>3, <1>4, <1>5, <1>6

LEMMA TotalThree ==
  \A f : DOMAIN f = 1..3 /\ f[1] \in Int /\ f[2] \in Int /\ f[3] \in Int
           => Total(f) = f[1] + f[2] + f[3]
<1> SUFFICES ASSUME NEW f, DOMAIN f = 1..3, f[1] \in Int, f[2] \in Int, f[3] \in Int
             PROVE  Total(f) = f[1] + f[2] + f[3]
  OBVIOUS
<1>1. IsFiniteSet({3}) /\ IsFiniteSet({2, 3}) /\ IsFiniteSet({})
  <2>1. {3} \cup {2} = {2, 3}
    OBVIOUS
  <2>2. IsFiniteSet({3} \cup {2})
    BY FS_Singleton, FS_AddElement
  <2> QED BY <2>1, <2>2, FS_Singleton, FS_EmptySet
<1>2. SumFunctionOnSet(f, {} \cup {3}) = f[3] + SumFunctionOnSet(f, {})
  BY <1>1, SumInsert
<1>3. SumFunctionOnSet(f, {3} \cup {2}) = f[2] + SumFunctionOnSet(f, {3})
  BY <1>1, SumInsert
<1>4. SumFunctionOnSet(f, {2, 3} \cup {1}) = f[1] + SumFunctionOnSet(f, {2, 3})
  <2> DEFINE T == {2, 3}
  <2>1. IsFiniteSet(T) /\ 1 \notin T /\ f[1] \in Int /\ \A t \in T : f[t] \in Int
    BY <1>1
  <2> HIDE DEF T
  <2>2. SumFunctionOnSet(f, T \cup {1}) = f[1] + SumFunctionOnSet(f, T)
    BY <2>1, SumInsert
  <2> QED BY <2>2 DEF T
<1>5. {} \cup {3} = {3} /\ {3} \cup {2} = {2, 3} /\ {2, 3} \cup {1} = 1..3
  OBVIOUS
<1>6. Total(f) = SumFunctionOnSet(f, 1..3)
  BY DEF Total, SumFunction
<1>7. SumFunctionOnSet(f, {3}) = f[3]
  BY <1>2, <1>5, SumEmpty
<1>8. SumFunctionOnSet(f, {2, 3}) = f[2] + f[3]
  BY <1>3, <1>5, <1>7
<1>9. SumFunctionOnSet(f, 1..3) = f[1] + (f[2] + f[3])
  BY <1>4, <1>5, <1>8
<1> QED BY <1>6, <1>9

-----------------------------------------------------------------------------
(* Charges.                                                                *)

LEMMA TakersAreMoney ==
  \A r \in Nat, p \in Price, q \in Nat :
    PolymarketTaker(r, p, q) \in Nat /\ KalshiTaker(p, q) \in Nat /\ GeminiTaker(p, q) \in Nat
<1> SUFFICES ASSUME NEW r \in Nat, NEW p \in Price, NEW q \in Nat
             PROVE  /\ PolymarketTaker(r, p, q) \in Nat
                    /\ KalshiTaker(p, q) \in Nat /\ GeminiTaker(p, q) \in Nat
  OBVIOUS
<1>1. \A x, y \in Nat : x * y \in Nat
  OBVIOUS
<1>2. p \in Nat /\ 100 - p \in Nat
  BY DEF Price
<1>3. r * q * p \in Nat
  BY <1>1, <1>2
<1>4. PolymarketTaker(r, p, q) \in Nat
  BY <1>1, <1>2, <1>3 DEF PolymarketTaker
<1>5. KalshiTaker(p, q) \in Nat /\ GeminiTaker(p, q) \in Nat
  <2> DEFINE base == 7 * q * p * (100 - p)
  <2>1. base \in Nat
    BY TakerBase
  <2> HIDE DEF base
  <2>2. CeilDiv(base, 10000) \in Nat
    BY <2>1, CeilBounds
  <2>3. \A x \in Nat : Cent * x \in Nat
    BY DEF Cent
  <2> QED BY <2>2, <2>3 DEF KalshiTaker, GeminiTaker, base
<1> QED BY <1>4, <1>5

LEMMA ChargesAreMoney ==
  \A v : \A r \in Nat, p \in Price, q \in Nat :
    EntryFee(v, r, p, q) \in Nat /\ WinFee(v, p) \in Nat /\ GasFor(v) \in Nat
<1>1. \A v : \A p \in Price : WinFee(v, p) \in Nat /\ GasFor(v) \in Nat
  BY DEF WinFee, Commission, BetfairRate, SmarketsRate, Price, GasFor, Gas
<1>2. \A v : \A r \in Nat, p \in Price, q \in Nat : EntryFee(v, r, p, q) \in Nat
  BY TakersAreMoney DEF EntryFee
<1> QED BY <1>1, <1>2

\* A cheaper market charges less.
LEMMA CheaperRate ==
  ASSUME NEW v, NEW r \in Nat, NEW rr \in Nat, rr <= r, NEW p \in Price, NEW q \in Nat
  PROVE  EntryFee(v, rr, p, q) <= EntryFee(v, r, p, q)
<1>1. \A x, y, z \in Nat : x <= y => x * z <= y * z
  OBVIOUS
<1>2. p \in Nat /\ 100 - p \in Nat
  BY DEF Price
<1>3. \A x, y \in Nat : x * y \in Nat
  OBVIOUS
<1>4. rr * q <= r * q /\ rr * q \in Nat /\ r * q \in Nat
  BY <1>1, <1>3
<1>5. rr * q * p <= r * q * p /\ rr * q * p \in Nat /\ r * q * p \in Nat
  BY <1>1, <1>2, <1>3, <1>4
<1>6. PolymarketTaker(rr, p, q) <= PolymarketTaker(r, p, q)
  BY <1>1, <1>2, <1>5 DEF PolymarketTaker
<1>7. KalshiTaker(p, q) \in Nat /\ GeminiTaker(p, q) \in Nat
  BY TakersAreMoney
<1> QED BY <1>6, <1>7 DEF EntryFee

\* One contract at a lower price costs no more, its fee included.
LEMMA CheaperPrice ==
  ASSUME NEW v, NEW r \in 0..100, NEW p \in Price, NEW l \in Price, p <= l
  PROVE  /\ Cent * p + EntryFee(v, r, p, 1) <= Cent * l + EntryFee(v, r, l, 1)
         /\ Cent * p - PolymarketTaker(r, p, 1) <= Cent * l - PolymarketTaker(r, l, 1)
<1>1. r \in Nat /\ 1 \in Nat
  OBVIOUS
<1>2. /\ Cent * p + PolymarketTaker(r, p, 1) <= Cent * l + PolymarketTaker(r, l, 1)
      /\ Cent * p - PolymarketTaker(r, p, 1) <= Cent * l - PolymarketTaker(r, l, 1)
  <2> DEFINE d == l - p
             e == 100 - l - p
             x == r * e
  <2>1. d \in Nat /\ e \in -98..98 /\ p \in Int /\ l \in Int
    BY DEF Price
  <2>2. x \in Int /\ -9800 <= x /\ x <= 9800
    <3> HIDE DEF e
    <3>1. \A a \in 0..100 : \A b \in 0..98 : a * b \in Int /\ 0 <= a * b /\ a * b <= 9800
      <4> SUFFICES ASSUME NEW a \in 0..100, NEW b \in 0..98
                   PROVE  a * b \in Int /\ 0 <= a * b /\ a * b <= 9800
        OBVIOUS
      <4>1. a * b <= 100 * b
        OBVIOUS
      <4> QED BY <4>1
    <3>2. CASE e >= 0
      BY <2>1, <3>1, <3>2
    <3>3. CASE e < 0
      <4>1. -e \in 0..98 /\ r * e = -(r * (-e))
        BY <2>1, <3>3
      <4> QED BY <4>1, <3>1
    <3> QED BY <2>1, <3>2, <3>3
  <2>3. r * 1 * l * (100 - l) - r * 1 * p * (100 - p) = d * x
    BY <2>1
  <2> HIDE DEF d, x
  <2>4. /\ 0 <= d * (10000 + x) /\ d * (10000 + x) = 10000 * d + d * x
        /\ 0 <= d * (10000 - x) /\ d * (10000 - x) = 10000 * d - d * x
    BY <2>1, <2>2
  <2>5. 10000 * l - 10000 * p = 10000 * d
    BY <2>1 DEF d
  <2>6. PolymarketTaker(r, l, 1) \in Int /\ PolymarketTaker(r, p, 1) \in Int
    BY <1>1, TakersAreMoney
  <2>7. PolymarketTaker(r, l, 1) - PolymarketTaker(r, p, 1) = d * x
    BY <2>3 DEF PolymarketTaker
  <2>8. d * x \in Int
    BY <2>1, <2>2
  <2> HIDE DEF d, x, e
  <2> QED BY <2>1, <2>4, <2>5, <2>6, <2>7, <2>8 DEF Cent
<1>3. \A y \in Price : CeilDiv(7 * 1 * y * (100 - y), 10000) \in 1..2
  <2> SUFFICES ASSUME NEW y \in Price PROVE CeilDiv(7 * 1 * y * (100 - y), 10000) \in 1..2
    OBVIOUS
  <2> DEFINE b == 7 * 1 * y * (100 - y)
  <2>1. y \in Int /\ y >= 1 /\ y <= 99 /\ b = 7 * (y * (100 - y))
    BY DEF Price
  <2>2. y * (100 - y) >= 1 /\ y * (100 - y) <= 2500 /\ y * (100 - y) \in Int
    <3>1. y * (100 - y) = 2500 - (50 - y) * (50 - y) /\ (50 - y) * (50 - y) >= 0
      BY <2>1
    <3>2. y * (100 - y) >= 1
      BY <2>1
    <3> QED BY <2>1, <3>1, <3>2
  <2>3. b \in Int /\ b >= 7 /\ b <= 17500
    BY <2>1, <2>2
  <2> HIDE DEF b
  <2>4. (b + 10000 - 1) \div 10000 \in 1..2
    BY <2>3
  <2> QED BY <2>4 DEF b, CeilDiv
<1>4. /\ Cent * p + KalshiTaker(p, 1) <= Cent * l + KalshiTaker(l, 1)
      /\ Cent * p + GeminiTaker(p, 1) <= Cent * l + GeminiTaker(l, 1)
  <2>1. CASE p = l
    <3>1. KalshiTaker(p, 1) \in Nat /\ GeminiTaker(p, 1) \in Nat
      BY TakersAreMoney
    <3> QED BY <2>1, <3>1 DEF Cent, Price
  <2>2. CASE p < l
    <3> DEFINE C(y) == CeilDiv(7 * 1 * y * (100 - y), 10000)
    <3>1. C(p) \in 1..2 /\ C(l) \in 1..2
      BY <1>3
    <3>2. KalshiTaker(p, 1) = 10000 * C(p) /\ KalshiTaker(l, 1) = 10000 * C(l)
          /\ GeminiTaker(p, 1) = 10000 * C(p) /\ GeminiTaker(l, 1) = 10000 * C(l)
      BY DEF KalshiTaker, GeminiTaker, Cent
    <3> HIDE DEF C
    <3> QED BY <2>2, <3>1, <3>2 DEF Cent, Price
  <2> QED BY <2>1, <2>2 DEF Price
<1>5. Cent * p <= Cent * l
  BY DEF Cent, Price
<1> QED BY <1>2, <1>4, <1>5 DEF EntryFee, Cent, Price

\* An order's fee is no more than that of as many single contracts.
LEMMA BulkFee ==
  ASSUME NEW v, NEW r \in Nat, NEW p \in Price, NEW q \in Nat
  PROVE  EntryFee(v, r, p, q) <= q * EntryFee(v, r, p, 1)
<1>1. p \in Nat /\ 100 - p \in Nat /\ 1 \in Nat
  BY DEF Price
<1>2. PolymarketTaker(r, p, q) = q * PolymarketTaker(r, p, 1)
  <2> DEFINE z == 100 - p
  <2>1. r * q * p * z = q * (r * 1 * p * z)
    BY <1>1
  <2> QED BY <2>1 DEF PolymarketTaker
<1>3. Cent * CeilDiv(7 * q * p * (100 - p), 10000)
        <= q * (Cent * CeilDiv(7 * 1 * p * (100 - p), 10000))
  <2> DEFINE a == 7 * q * p * (100 - p)
             b == 7 * 1 * p * (100 - p)
             A == CeilDiv(a, 10000)
             B == CeilDiv(b, 10000)
             qb == q * B
  <2>1. a \in Nat /\ b \in Nat
    BY TakerBase, 1 \in Nat
  <2>2. a = q * b
    BY <1>1
  <2> HIDE DEF a, b
  <2>3. A \in Nat /\ 10000 * A < a + 10000 /\ B \in Nat /\ b <= 10000 * B
    <3>1. A \in Nat /\ 10000 * A < a + 10000
      BY <2>1, CeilBounds
    <3>2. B \in Nat /\ b <= 10000 * B
      BY <2>1, CeilBounds
    <3> QED BY <3>1, <3>2
  <2> HIDE DEF A, B
  <2>4. q * b <= q * (10000 * B)
    BY <2>1, <2>3
  <2>5. q * (10000 * B) = 10000 * qb /\ qb \in Nat
    BY <2>3
  <2> HIDE DEF qb
  <2>6. A <= qb
    BY <2>1, <2>2, <2>3, <2>4, <2>5
  <2>7. q * (10000 * B) = 10000 * (q * B)
    BY <2>3
  <2>8. 10000 * A <= q * (10000 * B)
    BY <2>3, <2>5, <2>6
  <2> QED BY <2>8 DEF A, B, a, b, Cent
<1>4. q * 0 = 0
  OBVIOUS
<1>5. PolymarketTaker(r, p, q) \in Nat
  BY TakersAreMoney
<1> QED BY <1>2, <1>3, <1>4, <1>5 DEF EntryFee, KalshiTaker, GeminiTaker

-----------------------------------------------------------------------------
(* The account of a set of legs, leg by leg.                               *)

\* What a leg of a kind, at a venue, brings where it pays (w) or does not.
Part(k, r, v, w, p, q) ==
  (IF k # "CTFMint" /\ w THEN q * (Dollar - WinFee(v, p)) ELSE 0)
    - Sign(k) * Cent * q * p - (EntryFee(v, r, p, q) + GasFor(v))

\* What a set costs beside its legs.
Extra(k, q) ==
  (IF k = "CTFMint" THEN Dollar * q ELSE 0) + (IF k \in {"CTFMerge", "CTFMint"} THEN CtfGas ELSE 0)

PartAt(k, r, s, o, i, p, q) == Part(k, r, VenueAt(k, s[i]), Pays(k, o, i), p, q)

LEMMA PartIsMoney ==
  \A k, v, w : \A r \in Nat, p \in Price, q \in Nat : Part(k, r, v, w, p, q) \in Int
<1> SUFFICES ASSUME NEW k, NEW v, NEW w, NEW r \in Nat, NEW p \in Price, NEW q \in Nat
             PROVE  Part(k, r, v, w, p, q) \in Int
  OBVIOUS
<1>1. EntryFee(v, r, p, q) \in Nat /\ WinFee(v, p) \in Nat /\ GasFor(v) \in Nat
  BY ChargesAreMoney
<1>2. Sign(k) \in Int /\ p \in Int
  BY DEF Sign, Price
<1>3. q * (Dollar - WinFee(v, p)) \in Int
  BY <1>1 DEF Dollar
<1>4. Sign(k) * Cent \in Int
  BY <1>2 DEF Cent
<1>5. Sign(k) * Cent * q \in Int
  BY <1>4
<1>6. Sign(k) * Cent * q * p \in Int
  BY <1>2, <1>5
<1> HIDE DEF Dollar
<1> QED BY <1>1, <1>3, <1>6 DEF Part

LEMMA ExtraIsMoney == \A k : \A q \in Nat : Extra(k, q) \in Nat
  BY DEF Extra, Dollar, CtfGas

LEMMA TwosAndThrees ==
  ASSUME NEW k \in AllKinds
  PROVE  /\ k \in Threes => Places(k) = 1..3 /\ 1 \in Places(k) /\ 2 \in Places(k) /\ 3 \in Places(k)
         /\ k \notin Threes => Places(k) = 1..2 /\ 1 \in Places(k) /\ 2 \in Places(k)
  BY DEF Places

LEMMA SettledTwo ==
  ASSUME NEW k \in AllKinds \ Threes, NEW r \in Nat, NEW s, NEW o,
         NEW ps \in [1..2 -> Price], NEW qs \in [1..2 -> Nat]
  PROVE  Settled(k, r, s, ps, qs, o)
           = PartAt(k, r, s, o, 1, ps[1], qs[1]) + PartAt(k, r, s, o, 2, ps[2], qs[2])
               - Extra(k, qs[1])
<1> DEFINE f == [i \in DOMAIN ps |-> PartAt(k, r, s, o, i, ps[i], qs[i])]
<1>1. Settled(k, r, s, ps, qs, o)
        = Total(f) - (IF k # "CTFMint" THEN 0 ELSE Dollar * qs[1])
                   - (IF k \in {"CTFMerge", "CTFMint"} THEN CtfGas ELSE 0)
  BY DEF Settled, PartAt, Part, Charge
<1>2. \A i \in 1..2 : f[i] = PartAt(k, r, s, o, i, ps[i], qs[i]) /\ f[i] \in Int
  BY PartIsMoney DEF PartAt
<1>3. DOMAIN f = 1..2 /\ 1 \in 1..2 /\ 2 \in 1..2
  OBVIOUS
<1> HIDE DEF f
<1>4. Total(f) = f[1] + f[2]
  BY <1>2, <1>3, TotalTwo
<1>5. qs[1] \in Nat /\ Dollar * qs[1] \in Nat
  BY DEF Dollar
<1> QED BY <1>1, <1>2, <1>3, <1>4, <1>5 DEF Extra, CtfGas

LEMMA SettledThree ==
  ASSUME NEW k \in Threes, NEW r \in Nat, NEW s, NEW o,
         NEW ps \in [1..3 -> Price], NEW qs \in [1..3 -> Nat]
  PROVE  Settled(k, r, s, ps, qs, o)
           = PartAt(k, r, s, o, 1, ps[1], qs[1]) + PartAt(k, r, s, o, 2, ps[2], qs[2])
               + PartAt(k, r, s, o, 3, ps[3], qs[3])
<1> DEFINE f == [i \in DOMAIN ps |-> PartAt(k, r, s, o, i, ps[i], qs[i])]
<1>1. Settled(k, r, s, ps, qs, o) = Total(f) - 0 - 0
  BY DEF Settled, PartAt, Part, Charge, Threes
<1>2. \A i \in 1..3 : f[i] = PartAt(k, r, s, o, i, ps[i], qs[i]) /\ f[i] \in Int
  BY PartIsMoney DEF PartAt
<1>3. DOMAIN f = 1..3 /\ 1 \in 1..3 /\ 2 \in 1..3 /\ 3 \in 1..3
  OBVIOUS
<1> HIDE DEF f
<1>4. Total(f) = f[1] + f[2] + f[3]
  BY <1>2, <1>3, TotalThree
<1> QED BY <1>1, <1>2, <1>3, <1>4

LEMMA Single == 1 \in Nat /\ 1 \in Nat \ {0}
  OBVIOUS

\* A market that is cheaper than the calculator assumed brings more.
LEMMA PartByRate ==
  \A k, v, w : \A r, rr \in Nat, p \in Price, q \in Nat :
    rr <= r => Part(k, r, v, w, p, q) <= Part(k, rr, v, w, p, q)
<1> SUFFICES ASSUME NEW k, NEW v, NEW w, NEW r \in Nat, NEW rr \in Nat, NEW p \in Price,
                    NEW q \in Nat, rr <= r
             PROVE  Part(k, r, v, w, p, q) <= Part(k, rr, v, w, p, q)
  OBVIOUS
<1> DEFINE rest == (IF k # "CTFMint" /\ w THEN q * (Dollar - WinFee(v, p)) ELSE 0)
                     - Sign(k) * Cent * q * p
           a == EntryFee(v, r, p, q)
           b == EntryFee(v, rr, p, q)
           g == GasFor(v)
<1>1. Part(k, r, v, w, p, q) = rest - (a + g) /\ Part(k, rr, v, w, p, q) = rest - (b + g)
  BY DEF Part
<1>2. a \in Nat /\ b \in Nat /\ g \in Nat /\ b <= a
  BY ChargesAreMoney, CheaperRate
<1>3. rest - (a + g) \in Int
  BY <1>1, PartIsMoney
<1>4. rest \in Int
  <2>1. EntryFee(v, r, p, q) \in Nat /\ WinFee(v, p) \in Nat
    BY ChargesAreMoney
  <2>2. Sign(k) \in Int /\ p \in Int
    BY DEF Sign, Price
  <2>3. q * (Dollar - WinFee(v, p)) \in Int
    BY <2>1 DEF Dollar
  <2>4. Sign(k) * Cent \in Int
    BY <2>2 DEF Cent
  <2>5. Sign(k) * Cent * q \in Int
    BY <2>4
  <2>6. Sign(k) * Cent * q * p \in Int
    BY <2>2, <2>5
  <2> QED BY <2>3, <2>6
<1> HIDE DEF rest, a, b, g
<1> QED BY <1>1, <1>2, <1>4

\* A contract bought below its limit brings more, and so does one sold above.
LEMMA PartByPrice ==
  \A k, v, w : \A r \in 0..100, p, l \in Price :
    /\ k # "CTFMint" /\ p <= l => Part(k, r, v, w, l, 1) <= Part(k, r, v, w, p, 1)
    /\ k = "CTFMint" /\ v = "polymarket" /\ p >= l
         => Part(k, r, v, w, l, 1) <= Part(k, r, v, w, p, 1)
<1> SUFFICES ASSUME NEW k, NEW v, NEW w, NEW r \in 0..100, NEW p \in Price, NEW l \in Price
             PROVE  /\ k # "CTFMint" /\ p <= l => Part(k, r, v, w, l, 1) <= Part(k, r, v, w, p, 1)
                    /\ k = "CTFMint" /\ v = "polymarket" /\ p >= l
                         => Part(k, r, v, w, l, 1) <= Part(k, r, v, w, p, 1)
  OBVIOUS
<1>1. /\ EntryFee(v, r, p, 1) \in Nat /\ WinFee(v, p) \in Nat /\ GasFor(v) \in Nat
      /\ EntryFee(v, r, l, 1) \in Nat /\ WinFee(v, l) \in Nat
  <2>1. r \in Nat /\ 1 \in Nat
    OBVIOUS
  <2> QED BY <2>1, ChargesAreMoney
<1>2. ASSUME k # "CTFMint", p <= l
      PROVE  Part(k, r, v, w, l, 1) <= Part(k, r, v, w, p, 1)
  <2>1. Cent * p + EntryFee(v, r, p, 1) <= Cent * l + EntryFee(v, r, l, 1)
    BY <1>2, CheaperPrice
  <2>2. Sign(k) * Cent * 1 * p = Cent * p /\ Sign(k) * Cent * 1 * l = Cent * l
    BY <1>2 DEF Sign, Cent, Price
  <2>3. CASE ~w
    BY <1>1, <1>2, <2>1, <2>2, <2>3 DEF Part, Cent, Price
  <2>4. CASE w
    <3>1. /\ Part(k, r, v, w, p, 1) = 1 * (Dollar - WinFee(v, p)) - Cent * p - (EntryFee(v, r, p, 1) + GasFor(v))
          /\ Part(k, r, v, w, l, 1) = 1 * (Dollar - WinFee(v, l)) - Cent * l - (EntryFee(v, r, l, 1) + GasFor(v))
      BY <1>2, <2>2, <2>4 DEF Part
    <3>2. CASE v \in {"betfair", "smarkets"}
      <4>1. EntryFee(v, r, p, 1) = 0 /\ EntryFee(v, r, l, 1) = 0
        BY <3>2 DEF EntryFee
      <4>2. WinFee(v, p) + Cent * p <= WinFee(v, l) + Cent * l
        BY SMTT(30), <1>2, <3>2 DEF WinFee, Commission, BetfairRate, SmarketsRate, Price, Cent
      <4> QED BY <1>1, <3>1, <4>1, <4>2 DEF Dollar, Cent, Price
    <3>3. CASE v \notin {"betfair", "smarkets"}
      <4>1. WinFee(v, p) = 0 /\ WinFee(v, l) = 0
        BY <3>3 DEF WinFee
      <4> QED BY <1>1, <2>1, <3>1, <4>1 DEF Dollar, Cent, Price
    <3> QED BY <3>2, <3>3
  <2> QED BY <2>3, <2>4
<1>3. ASSUME k = "CTFMint", v = "polymarket", p >= l
      PROVE  Part(k, r, v, w, l, 1) <= Part(k, r, v, w, p, 1)
  <2>1. Cent * l - PolymarketTaker(r, l, 1) <= Cent * p - PolymarketTaker(r, p, 1)
    <3>1. l <= p
      BY <1>3 DEF Price
    <3> QED BY <3>1, CheaperPrice
  <2>2. EntryFee(v, r, p, 1) = PolymarketTaker(r, p, 1) /\ EntryFee(v, r, l, 1) = PolymarketTaker(r, l, 1)
    BY <1>3 DEF EntryFee
  <2>3. Sign(k) * Cent * 1 * p = -(Cent * p) /\ Sign(k) * Cent * 1 * l = -(Cent * l)
    BY <1>3 DEF Sign, Cent, Price
  <2>4. /\ Part(k, r, v, w, p, 1) = 0 + Cent * p - (PolymarketTaker(r, p, 1) + GasFor(v))
        /\ Part(k, r, v, w, l, 1) = 0 + Cent * l - (PolymarketTaker(r, l, 1) + GasFor(v))
    BY <1>1, <1>3, <2>2, <2>3 DEF Part, Cent, Price
  <2> QED BY <1>1, <2>1, <2>2, <2>4 DEF Cent, Price
<1> QED BY <1>2, <1>3

\* An order brings no less than as many single contracts.
LEMMA PartByNumber ==
  \A k, v, w : \A r \in Nat, p \in Price, q \in Nat \ {0} :
    q * Part(k, r, v, w, p, 1) <= Part(k, r, v, w, p, q)
<1> SUFFICES ASSUME NEW k, NEW v, NEW w, NEW r \in Nat, NEW p \in Price, NEW q \in Nat \ {0}
             PROVE  q * Part(k, r, v, w, p, 1) <= Part(k, r, v, w, p, q)
  OBVIOUS
<1> DEFINE win == Dollar - WinFee(v, p)
           one == IF k # "CTFMint" /\ w THEN 1 * win ELSE 0
           all == IF k # "CTFMint" /\ w THEN q * win ELSE 0
           c == Sign(k) * Cent * 1 * p
           cq == Sign(k) * Cent * q * p
           e == EntryFee(v, r, p, 1)
           eq == EntryFee(v, r, p, q)
           g == GasFor(v)
<1>1. e \in Nat /\ eq \in Nat /\ g \in Nat /\ eq <= q * e /\ win \in Int
  <2>1. e \in Nat /\ eq \in Nat /\ g \in Nat /\ WinFee(v, p) \in Nat
    BY ChargesAreMoney, Single
  <2>2. eq <= q * e
    BY BulkFee
  <2> QED BY <2>1, <2>2 DEF Dollar
<1>2. Sign(k) \in Int /\ Cent \in Int /\ p \in Int /\ q \in Int /\ q >= 1
  BY DEF Sign, Cent, Price
<1>3. c \in Int /\ cq = q * c
  <2> DEFINE sg == Sign(k)
  <2>1. \A a, b \in Int : a * Cent * 1 * b \in Int /\ a * Cent * q * b = q * (a * Cent * 1 * b)
    BY <1>2 DEF Cent
  <2> QED BY <1>2, <2>1
<1>4. Part(k, r, v, w, p, 1) = one - c - (e + g) /\ Part(k, r, v, w, p, q) = all - cq - (eq + g)
  BY DEF Part
<1>5. one \in Int /\ all = q * one
  <2> HIDE DEF win
  <2> QED BY <1>1, <1>2
<1> HIDE DEF win, one, all, c, cq, e, eq, g
<1>6. g <= q * g /\ q * g \in Int /\ q * e \in Int /\ q * c \in Int /\ q * one \in Int
  BY <1>1, <1>2, <1>3, <1>5
<1>7. q * (one - c - (e + g)) = q * one - q * c - q * e - q * g
  BY <1>1, <1>2, <1>3, <1>5
<1> QED BY <1>1, <1>3, <1>4, <1>5, <1>6, <1>7

\* One contract of each leg.
LEMMA SetOfTwo ==
  ASSUME NEW k \in AllKinds \ Threes, NEW r \in Nat, NEW s, NEW o, NEW ps \in [1..2 -> Price]
  PROVE  Settled(k, r, s, ps, Ones(ps), o)
           = PartAt(k, r, s, o, 1, ps[1], 1) + PartAt(k, r, s, o, 2, ps[2], 1) - Extra(k, 1)
<1> DEFINE qs == Ones(ps)
<1>1. qs \in [1..2 -> Nat] /\ qs[1] = 1 /\ qs[2] = 1
  BY DEF Ones
<1> HIDE DEF qs
<1>2. Settled(k, r, s, ps, qs, o)
        = PartAt(k, r, s, o, 1, ps[1], qs[1]) + PartAt(k, r, s, o, 2, ps[2], qs[2]) - Extra(k, qs[1])
  BY <1>1, SettledTwo
<1> QED BY <1>1, <1>2 DEF qs

LEMMA SetOfThree ==
  ASSUME NEW k \in Threes, NEW r \in Nat, NEW s, NEW o, NEW ps \in [1..3 -> Price]
  PROVE  Settled(k, r, s, ps, Ones(ps), o)
           = PartAt(k, r, s, o, 1, ps[1], 1) + PartAt(k, r, s, o, 2, ps[2], 1)
               + PartAt(k, r, s, o, 3, ps[3], 1)
<1> DEFINE qs == Ones(ps)
<1>1. qs \in [1..3 -> Nat] /\ qs[1] = 1 /\ qs[2] = 1 /\ qs[3] = 1
  BY DEF Ones
<1> HIDE DEF qs
<1>2. Settled(k, r, s, ps, qs, o)
        = PartAt(k, r, s, o, 1, ps[1], qs[1]) + PartAt(k, r, s, o, 2, ps[2], qs[2])
            + PartAt(k, r, s, o, 3, ps[3], qs[3])
  BY <1>1, SettledThree
<1> QED BY <1>1, <1>2 DEF qs

LEMMA PartAtIsMoney ==
  \A k, s, o, i : \A r \in Nat, p \in Price, q \in Nat : PartAt(k, r, s, o, i, p, q) \in Int
  BY PartIsMoney DEF PartAt

\* In a cheaper market a set brings more.
LEMMA SetByRate ==
  ASSUME NEW k \in AllKinds, NEW r \in Nat, NEW rr \in Nat, rr <= r, NEW s, NEW o,
         NEW ps \in [Places(k) -> Price]
  PROVE  Settled(k, r, s, ps, Ones(ps), o) <= Settled(k, rr, s, ps, Ones(ps), o)
<1> DEFINE at(x, i) == PartAt(k, x, s, o, i, ps[i], 1)
<1>1. \A i \in Places(k) : at(r, i) \in Int /\ at(rr, i) \in Int /\ at(r, i) <= at(rr, i)
  BY PartAtIsMoney, PartByRate, Single DEF PartAt
<1>2. CASE k \in Threes
  <2>1. /\ Settled(k, r, s, ps, Ones(ps), o) = at(r, 1) + at(r, 2) + at(r, 3)
        /\ Settled(k, rr, s, ps, Ones(ps), o) = at(rr, 1) + at(rr, 2) + at(rr, 3)
    BY <1>2, SetOfThree, TwosAndThrees
  <2> HIDE DEF at
  <2> QED BY <1>1, <1>2, <2>1, TwosAndThrees
<1>3. CASE k \notin Threes
  <2>1. /\ Settled(k, r, s, ps, Ones(ps), o) = at(r, 1) + at(r, 2) - Extra(k, 1)
        /\ Settled(k, rr, s, ps, Ones(ps), o) = at(rr, 1) + at(rr, 2) - Extra(k, 1)
    BY <1>3, SetOfTwo, TwosAndThrees
  <2> HIDE DEF at
  <2> QED BY <1>1, <1>3, <2>1, TwosAndThrees, ExtraIsMoney, Single
<1> QED BY <1>2, <1>3

\* Filled within its limits, a set brings no less than at them.
LEMMA SetByPrice ==
  ASSUME NEW k \in AllKinds, NEW r \in 0..100, NEW s, NEW o,
         NEW ps \in [Places(k) -> Price], NEW ls \in [Places(k) -> Price],
         \A i \in Places(k) : IF k = "CTFMint" THEN ps[i] >= ls[i] ELSE ps[i] <= ls[i]
  PROVE  Settled(k, r, s, ls, Ones(ls), o) <= Settled(k, r, s, ps, Ones(ps), o)
<1> DEFINE at(xs, i) == PartAt(k, r, s, o, i, xs[i], 1)
<1>0. r \in Nat
  OBVIOUS
<1>1. \A i \in Places(k) : at(ps, i) \in Int /\ at(ls, i) \in Int /\ at(ls, i) <= at(ps, i)
  <2> SUFFICES ASSUME NEW i \in Places(k)
               PROVE  at(ps, i) \in Int /\ at(ls, i) \in Int /\ at(ls, i) <= at(ps, i)
    OBVIOUS
  <2> DEFINE p == ps[i]
             l == ls[i]
             v == VenueAt(k, s[i])
             w == Pays(k, o, i)
  <2>1. at(ps, i) \in Int /\ at(ls, i) \in Int
    BY <1>0, PartAtIsMoney, Single
  <2>4. p \in Price /\ l \in Price /\ (k # "CTFMint" => p <= l) /\ (k = "CTFMint" => p >= l)
    OBVIOUS
  <2>5. k = "CTFMint" => v = "polymarket"
    BY DEF VenueAt
  <2>6. at(ps, i) = Part(k, r, v, w, p, 1) /\ at(ls, i) = Part(k, r, v, w, l, 1)
    BY DEF PartAt
  <2> HIDE DEF v, w, p, l
  <2>2. CASE k # "CTFMint"
    <3>1. Part(k, r, v, w, l, 1) <= Part(k, r, v, w, p, 1)
      BY <2>2, <2>4, PartByPrice
    <3> QED BY <2>1, <2>6, <3>1
  <2>3. CASE k = "CTFMint"
    <3>1. Part(k, r, v, w, l, 1) <= Part(k, r, v, w, p, 1)
      BY <2>3, <2>4, <2>5, PartByPrice
    <3> QED BY <2>1, <2>6, <3>1
  <2> QED BY <2>1, <2>2, <2>3
<1>2. CASE k \in Threes
  <2>1. /\ Settled(k, r, s, ps, Ones(ps), o) = at(ps, 1) + at(ps, 2) + at(ps, 3)
        /\ Settled(k, r, s, ls, Ones(ls), o) = at(ls, 1) + at(ls, 2) + at(ls, 3)
    BY <1>0, <1>2, SetOfThree, TwosAndThrees
  <2> HIDE DEF at
  <2> QED BY <1>1, <1>2, <2>1, TwosAndThrees
<1>3. CASE k \notin Threes
  <2>1. /\ Settled(k, r, s, ps, Ones(ps), o) = at(ps, 1) + at(ps, 2) - Extra(k, 1)
        /\ Settled(k, r, s, ls, Ones(ls), o) = at(ls, 1) + at(ls, 2) - Extra(k, 1)
    BY <1>0, <1>3, SetOfTwo, TwosAndThrees
  <2> HIDE DEF at
  <2> QED BY <1>1, <1>3, <2>1, TwosAndThrees, ExtraIsMoney, Single
<1> QED BY <1>2, <1>3

\* If one contract of each of two legs pays, so do equal numbers of them.
LEMMA SetByNumber ==
  ASSUME NEW k \in AllKinds \ Threes, NEW r \in Nat, NEW s, NEW o, NEW ps \in [1..2 -> Price],
         NEW qs \in [1..2 -> Nat \ {0}], qs[2] = qs[1],
         Settled(k, r, s, ps, Ones(ps), o) > 0
  PROVE  Settled(k, r, s, ps, qs, o) > 0
<1> DEFINE q == qs[1]
           at(n, i) == PartAt(k, r, s, o, i, ps[i], n)
           x == Settled(k, r, s, ps, Ones(ps), o)
<1>1. q \in Nat \ {0} /\ qs \in [1..2 -> Nat]
  OBVIOUS
<1>2. x = at(1, 1) + at(1, 2) - Extra(k, 1)
  BY SetOfTwo
<1>3. Settled(k, r, s, ps, qs, o) = at(q, 1) + at(q, 2) - Extra(k, q)
  BY <1>1, SettledTwo
<1>4. \A i \in 1..2 : at(1, i) \in Int /\ at(q, i) \in Int /\ q * at(1, i) <= at(q, i)
  BY <1>1, PartAtIsMoney, PartByNumber, Single DEF PartAt
<1>5. Extra(k, q) \in Nat /\ Extra(k, 1) \in Nat /\ Extra(k, q) <= q * Extra(k, 1)
  BY <1>1, ExtraIsMoney, Single DEF Extra, Dollar, CtfGas
<1> HIDE DEF at, q, x
<1>6. at(1, 1) \in Int /\ at(1, 2) \in Int /\ at(q, 1) \in Int /\ at(q, 2) \in Int
      /\ q * at(1, 1) <= at(q, 1) /\ q * at(1, 2) <= at(q, 2)
  BY <1>4
<1>7. q * (at(1, 1) + at(1, 2) - Extra(k, 1)) > 0
  <2>1. x \in Int /\ x > 0
    BY <1>2, <1>5, <1>6 DEF x
  <2>2. q * x > 0
    BY <1>1, <2>1
  <2> QED BY <1>2, <2>2
<1>8. q * (at(1, 1) + at(1, 2) - Extra(k, 1)) = q * at(1, 1) + q * at(1, 2) - q * Extra(k, 1)
  BY <1>1, <1>5, <1>6
<1>9. q * at(1, 1) \in Int /\ q * at(1, 2) \in Int /\ q * Extra(k, 1) \in Int
  BY <1>1, <1>5, <1>6
<1> QED BY <1>3, <1>5, <1>6, <1>7, <1>8, <1>9

-----------------------------------------------------------------------------
(* Every calculator is a floor.                                            *)

\* A positive profit is what the spread leaves after the charges.
LEMMA NetIsSpread ==
  \A g, c \in Int : Net(g, c) > 0 => Net(g, c) = g - c
  BY DEF Net

\* What a leg brings at the venues of the pairs, contract by contract.
LEMMA PolymarketPart ==
  \A k, w : \A r \in Nat, p \in Price :
    k # "CTFMint" =>
      Part(k, r, "polymarket", w, p, 1)
        = (IF w THEN Dollar ELSE 0) - Cent * p - PolymarketTaker(r, p, 1) - Gas
<1> SUFFICES ASSUME NEW k, NEW w, NEW r \in Nat, NEW p \in Price, k # "CTFMint"
             PROVE  Part(k, r, "polymarket", w, p, 1)
                      = (IF w THEN Dollar ELSE 0) - Cent * p - PolymarketTaker(r, p, 1) - Gas
  OBVIOUS
<1>0. p \in Int
  BY DEF Price
<1>1. PolymarketTaker(r, p, 1) \in Nat
  BY TakersAreMoney, Single
<1>2. /\ EntryFee("polymarket", r, p, 1) = PolymarketTaker(r, p, 1)
      /\ WinFee("polymarket", p) = 0 /\ GasFor("polymarket") = Gas /\ Sign(k) = 1
  BY DEF EntryFee, WinFee, GasFor, Sign
<1> QED BY <1>0, <1>1, <1>2 DEF Part, Dollar, Cent, Gas

LEMMA KalshiPart ==
  \A k, w : \A r \in Nat, p \in Price :
    k # "CTFMint" =>
      Part(k, r, "kalshi", w, p, 1)
        = (IF w THEN Dollar ELSE 0) - Cent * p - KalshiTaker(p, 1)
<1> SUFFICES ASSUME NEW k, NEW w, NEW r \in Nat, NEW p \in Price, k # "CTFMint"
             PROVE  Part(k, r, "kalshi", w, p, 1)
                      = (IF w THEN Dollar ELSE 0) - Cent * p - KalshiTaker(p, 1)
  OBVIOUS
<1>0. p \in Int
  BY DEF Price
<1>1. KalshiTaker(p, 1) \in Nat
  BY TakersAreMoney, Single
<1>2. /\ EntryFee("kalshi", r, p, 1) = KalshiTaker(p, 1)
      /\ WinFee("kalshi", p) = 0 /\ GasFor("kalshi") = 0 /\ Sign(k) = 1
  BY DEF EntryFee, WinFee, GasFor, Sign
<1> QED BY <1>0, <1>1, <1>2 DEF Part, Dollar, Cent

\* A half that is sold.
LEMMA MintPart ==
  \A w : \A r \in Nat, p \in Price :
    Part("CTFMint", r, "polymarket", w, p, 1) = Cent * p - PolymarketTaker(r, p, 1) - Gas
<1> SUFFICES ASSUME NEW w, NEW r \in Nat, NEW p \in Price
             PROVE  Part("CTFMint", r, "polymarket", w, p, 1)
                      = Cent * p - PolymarketTaker(r, p, 1) - Gas
  OBVIOUS
<1>0. p \in Int
  BY DEF Price
<1>1. PolymarketTaker(r, p, 1) \in Nat
  BY TakersAreMoney, Single
<1>2. /\ EntryFee("polymarket", r, p, 1) = PolymarketTaker(r, p, 1)
      /\ GasFor("polymarket") = Gas /\ Sign("CTFMint") = -1
  BY DEF EntryFee, GasFor, Sign
<1> QED BY <1>0, <1>1, <1>2 DEF Part, Dollar, Cent, Gas

\* Two legs of one venue, of which one or both pay.
LEMMA PolymarketPair ==
  ASSUME NEW k \in {"Binary", "Frechet", "CTFMerge"}, NEW r \in Nat, NEW ps \in [1..2 -> Price],
         NEW o \in Outcomes(k)
  PROVE  Dollar - Cent * (ps[1] + ps[2]) - PolymarketTaker(r, ps[1], 1)
           - PolymarketTaker(r, ps[2], 1) - 2 * Gas - Extra(k, 1)
           <= Settled(k, r, <<1, 2>>, ps, Ones(ps), o)
<1> DEFINE s == <<1, 2>>
           f(i) == PolymarketTaker(r, ps[i], 1)
           x(i) == PartAt(k, r, s, o, i, ps[i], 1)
<1>1. k \in AllKinds \ Threes /\ k # "CTFMint"
  BY DEF AllKinds, Threes
<1>2. VenueAt(k, s[1]) = "polymarket" /\ VenueAt(k, s[2]) = "polymarket"
  BY DEF VenueAt
<1>3. Pays(k, o, 1) \/ Pays(k, o, 2)
  BY DEF Pays, Outcomes, Implications, Quoted
<1>4. \A i \in 1..2 : f(i) \in Nat /\ ps[i] \in Price
  BY TakersAreMoney, Single
<1> HIDE DEF f
<1>5. \A i \in 1..2 : x(i)
                        = (IF Pays(k, o, i) THEN Dollar ELSE 0) - Cent * ps[i] - f(i) - Gas
  BY <1>1, <1>2, PolymarketPart DEF PartAt, f
<1>6. Extra(k, 1) \in Nat
  BY ExtraIsMoney, Single
<1>7. Settled(k, r, s, ps, Ones(ps), o)
        = x(1) + x(2) - Extra(k, 1)
  BY <1>1, SetOfTwo
<1> HIDE DEF x
<1>9. f(1) \in Nat /\ f(2) \in Nat /\ ps[1] \in Int /\ ps[2] \in Int
  BY <1>4 DEF Price
<1>8. Dollar - Cent * (ps[1] + ps[2]) - f(1) - f(2) - 2 * Gas - Extra(k, 1)
        <= Settled(k, r, s, ps, Ones(ps), o)
  BY <1>3, <1>5, <1>6, <1>7, <1>9 DEF Dollar, Cent, Gas, Price
<1> QED BY <1>8 DEF f

LEMMA KalshiPair ==
  ASSUME NEW k \in {"KalshiBinary", "FrechetKalshi", "Temporal"}, NEW r \in Nat,
         NEW ps \in [1..2 -> Price], NEW o \in Outcomes(k)
  PROVE  Dollar - Cent * (ps[1] + ps[2]) - KalshiTaker(ps[1], 1) - KalshiTaker(ps[2], 1)
           <= Settled(k, r, <<1, 2>>, ps, Ones(ps), o)
<1> DEFINE s == <<1, 2>>
           f(i) == KalshiTaker(ps[i], 1)
           x(i) == PartAt(k, r, s, o, i, ps[i], 1)
<1>1. k \in AllKinds \ Threes /\ k # "CTFMint" /\ k # "CTFMerge"
  BY DEF AllKinds, Threes
<1>2. VenueAt(k, s[1]) = "kalshi" /\ VenueAt(k, s[2]) = "kalshi"
  BY DEF VenueAt
<1>3. Pays(k, o, 1) \/ Pays(k, o, 2)
  BY DEF Pays, Outcomes, Implications, Quoted
<1>4. \A i \in 1..2 : f(i) \in Nat /\ ps[i] \in Price
  BY TakersAreMoney, Single
<1> HIDE DEF f
<1>5. \A i \in 1..2 : x(i)
                        = (IF Pays(k, o, i) THEN Dollar ELSE 0) - Cent * ps[i] - f(i)
  BY <1>1, <1>2, KalshiPart DEF PartAt, f
<1>6. Extra(k, 1) = 0
  BY <1>1 DEF Extra
<1>7. Settled(k, r, s, ps, Ones(ps), o)
        = x(1) + x(2) - Extra(k, 1)
  BY <1>1, SetOfTwo
<1> HIDE DEF x
<1>9. f(1) \in Nat /\ f(2) \in Nat /\ ps[1] \in Int /\ ps[2] \in Int
  BY <1>4 DEF Price
<1>8. Dollar - Cent * (ps[1] + ps[2]) - f(1) - f(2) <= Settled(k, r, s, ps, Ones(ps), o)
  BY <1>3, <1>5, <1>6, <1>7, <1>9 DEF Dollar, Cent, Price
<1> QED BY <1>8 DEF f

\* A dollar split, and its halves sold.
LEMMA MintPair ==
  ASSUME NEW r \in Nat, NEW ps \in [1..2 -> Price], NEW o
  PROVE  Settled("CTFMint", r, <<1, 2>>, ps, Ones(ps), o)
           = Cent * (ps[1] + ps[2]) - Dollar - PolymarketTaker(r, ps[1], 1)
               - PolymarketTaker(r, ps[2], 1) - 2 * Gas - CtfGas
<1> DEFINE k == "CTFMint"
           s == <<1, 2>>
           f(i) == PolymarketTaker(r, ps[i], 1)
           x(i) == PartAt(k, r, s, o, i, ps[i], 1)
<1>1. k \in AllKinds \ Threes
  BY DEF AllKinds, Threes
<1>2. VenueAt(k, s[1]) = "polymarket" /\ VenueAt(k, s[2]) = "polymarket"
  BY DEF VenueAt
<1>4. \A i \in 1..2 : f(i) \in Nat /\ ps[i] \in Price
  BY TakersAreMoney, Single
<1> HIDE DEF f
<1>5. \A i \in 1..2 : x(i) = Cent * ps[i] - f(i) - Gas
  BY <1>2, MintPart DEF PartAt, f
<1>6. Extra(k, 1) = Dollar + CtfGas
  BY DEF Extra, Dollar, CtfGas
<1>7. Settled(k, r, s, ps, Ones(ps), o)
        = x(1) + x(2) - Extra(k, 1)
  BY <1>1, SetOfTwo
<1> HIDE DEF x
<1>9. f(1) \in Nat /\ f(2) \in Nat /\ ps[1] \in Int /\ ps[2] \in Int
  BY <1>4 DEF Price
<1>8. Settled(k, r, s, ps, Ones(ps), o)
        = Cent * (ps[1] + ps[2]) - Dollar - f(1) - f(2) - 2 * Gas - CtfGas
  BY <1>5, <1>6, <1>7, <1>9 DEF Dollar, Cent, Gas, CtfGas, Price
<1> QED BY <1>8 DEF f

\* A contract on Polymarket and one on Kalshi, either way round: the places of
\* a Cross's book are PM YES, K NO, PM NO and K YES.
LEMMA CrossPair ==
  ASSUME NEW r \in Nat, NEW ps \in [1..2 -> Price], NEW o \in Outcomes("Cross"),
         NEW s \in {<<1, 2>>, <<3, 4>>, <<4, 3>>},
         NEW m \in 1..2, NEW n \in 1..2, m # n, s[m] \in {1, 3}
  PROVE  Settled("Cross", r, s, ps, Ones(ps), o)
           = Dollar - Cent * (ps[1] + ps[2]) - PolymarketTaker(r, ps[m], 1)
               - KalshiTaker(ps[n], 1) - Gas
<1> DEFINE k == "Cross"
           f == PolymarketTaker(r, ps[m], 1)
           g == KalshiTaker(ps[n], 1)
           x(i) == PartAt(k, r, s, o, i, ps[i], 1)
<1>1. k \in AllKinds \ Threes
  BY DEF AllKinds, Threes
<1>2. VenueAt(k, s[m]) = "polymarket" /\ VenueAt(k, s[n]) = "kalshi"
  <2>1. s[n] \in {2, 4}
    OBVIOUS
  <2> QED BY <2>1 DEF VenueAt
<1>3. (Pays(k, o, m) /\ ~ Pays(k, o, n)) \/ (Pays(k, o, n) /\ ~ Pays(k, o, m))
  BY DEF Pays, Outcomes, Implications, Quoted
<1>4. f \in Nat /\ g \in Nat /\ ps[m] \in Price /\ ps[n] \in Price
  BY TakersAreMoney, Single
<1>5. x(m) = (IF Pays(k, o, m) THEN Dollar ELSE 0) - Cent * ps[m] - f - Gas
  BY <1>2, <1>4, PolymarketPart DEF PartAt
<1>6. x(n) = (IF Pays(k, o, n) THEN Dollar ELSE 0) - Cent * ps[n] - g
  BY <1>2, <1>4, KalshiPart DEF PartAt
<1>7. Settled(k, r, s, ps, Ones(ps), o) = x(1) + x(2) - Extra(k, 1)
  BY <1>1, SetOfTwo
<1>8. Extra(k, 1) = 0
  BY DEF Extra
<1> HIDE DEF f, g, x
<1>9. x(m) \in Int /\ x(n) \in Int
  BY <1>4, <1>5, <1>6 DEF Dollar, Cent, Gas, Price
<1>10. x(1) + x(2) = x(m) + x(n) /\ ps[1] + ps[2] = ps[m] + ps[n]
  <2>1. (m = 1 /\ n = 2) \/ (m = 2 /\ n = 1)
    OBVIOUS
  <2> QED BY <1>4, <1>9, <2>1 DEF Price
<1>12. f \in Nat /\ g \in Nat /\ ps[m] \in Int /\ ps[n] \in Int
  BY <1>4 DEF Price
<1>11. Settled(k, r, s, ps, Ones(ps), o) = Dollar - Cent * (ps[1] + ps[2]) - f - g - Gas
  BY <1>3, <1>5, <1>6, <1>7, <1>8, <1>9, <1>10, <1>12 DEF Dollar, Cent, Gas
<1> QED BY <1>11 DEF f, g

LEMMA TriangularPair ==
  ASSUME NEW m \in FeeModels, Worst("Triangular", m), NEW ps \in [1..2 -> Price],
         NEW o \in Outcomes("Triangular"),
         NetCrossGeneric(m, TrianglePair[1], TrianglePair[2], ps[1], ps[2]) > 0
  PROVE  NetCrossGeneric(m, TrianglePair[1], TrianglePair[2], ps[1], ps[2])
           <= Settled("Triangular", DefaultRate, <<1, 2>>, ps, Ones(ps), o)
<1> DEFINE k == "Triangular"
           s == <<1, 2>>
           va == TrianglePair[1]
           vb == TrianglePair[2]
           a == ps[1]
           b == ps[2]
           ea == EntryFee(va, DefaultRate, a, 1)
           eb == EntryFee(vb, DefaultRate, b, 1)
           wa == WinFee(va, a)
           wb == WinFee(vb, b)
           gas == IF "polymarket" \in {va, vb} THEN Gas ELSE 0
           fees == SelectFees(m, wa + (ea + eb), wb + (ea + eb), a)
           x(i) == PartAt(k, DefaultRate, s, o, i, ps[i], 1)
           claim == NetCrossGeneric(m, va, vb, a, b)
<1>1. k \in AllKinds \ Threes /\ DefaultRate \in Nat
  BY DEF AllKinds, Threes, DefaultRate
<1>2. va \in Venues /\ vb \in Venues /\ ~ (va = "polymarket" /\ vb = "polymarket")
  BY PairAssumption DEF Worst
<1>3. a \in Price /\ b \in Price
  OBVIOUS
<1>4. ea \in Nat /\ eb \in Nat /\ wa \in Nat /\ wb \in Nat
  BY <1>2, <1>3, EntryFeeIsMoney, WinFeeIsMoney
<1>5. claim = Net(PairGross(a, b), fees + gas)
  BY DEF NetCrossGeneric
<1>6. GasFor(va) + GasFor(vb) = gas /\ gas \in Nat /\ GasFor(va) \in Nat /\ GasFor(vb) \in Nat
  BY <1>2 DEF GasFor, Gas
<1>7. VenueAt(k, s[1]) = va /\ VenueAt(k, s[2]) = vb
  BY DEF VenueAt
<1>8. /\ x(1) = (IF Pays(k, o, 1) THEN 1 * (Dollar - wa) ELSE 0) - 1 * Cent * 1 * a - (ea + GasFor(va))
      /\ x(2) = (IF Pays(k, o, 2) THEN 1 * (Dollar - wb) ELSE 0) - 1 * Cent * 1 * b - (eb + GasFor(vb))
  BY <1>7 DEF PartAt, Part, Sign
<1>9. Settled(k, DefaultRate, s, ps, Ones(ps), o) = x(1) + x(2) - Extra(k, 1)
  BY <1>1, SetOfTwo
<1>10. Extra(k, 1) = 0
  BY DEF Extra
<1>11. (Pays(k, o, 1) /\ ~ Pays(k, o, 2)) \/ (Pays(k, o, 2) /\ ~ Pays(k, o, 1))
  BY DEF Pays, Outcomes, Implications, Quoted
<1>12. fees \in Int /\ wa + (ea + eb) <= fees /\ wb + (ea + eb) <= fees
  <2>1. CASE m = "worst_case"
    <3> HIDE DEF ea, eb, wa, wb
    <3> QED BY <1>4, <2>1 DEF SelectFees, Larger
  <2>2. CASE m # "worst_case"
    <3>1. 1 \in 1..Quoted(k) /\ 2 \in 1..Quoted(k)
      BY DEF Quoted
    <3>2. VenueAt(k, 1) \notin {"betfair", "smarkets"} /\ VenueAt(k, 2) \notin {"betfair", "smarkets"}
      BY <2>2, <3>1 DEF Worst
    <3>3. wa = 0 /\ wb = 0
      BY <3>2 DEF VenueAt, WinFee
    <3>4. wa + (ea + eb) = ea + eb /\ wb + (ea + eb) = ea + eb /\ ea + eb \in Nat
      BY <1>4, <3>3
    <3> HIDE DEF ea, eb, wa, wb, a
    <3>5. fees = ea + eb
      BY <1>3, <3>4, SelectSame
    <3> QED BY <3>4, <3>5
  <2> QED BY <2>1, <2>2
<1>13. PairGross(a, b) \in Int /\ a \in Int /\ b \in Int
  BY <1>3 DEF PairGross, Price, Dollar, Cent
<1>14. claim > 0
  OBVIOUS
<1> HIDE DEF ea, eb, wa, wb, gas, fees, x, a, b, va, vb, claim
<1>15. claim = PairGross(a, b) - (fees + gas)
  BY <1>5, <1>6, <1>12, <1>13, <1>14, NetIsSpread
<1>16. claim <= Settled(k, DefaultRate, s, ps, Ones(ps), o)
  BY <1>4, <1>6, <1>8, <1>9, <1>10, <1>11, <1>12, <1>13, <1>15 DEF PairGross, Dollar, Cent
<1> QED BY <1>16 DEF claim, a, b, va, vb

-----------------------------------------------------------------------------
(* Sets of three.                                                          *)

\* A set of three contracts of a venue without commissions: what does not
\* depend on the outcome.
LEMMA PolymarketTriple ==
  ASSUME NEW k \in {"NegRisk", "NegRiskNO"}, NEW r \in Nat, NEW s, NEW ps \in [1..3 -> Price],
         NEW o \in Outcomes(k)
  PROVE  Settled(k, r, s, ps, Ones(ps), o)
           = Dollar * (IF k = "NegRisk" THEN 1 ELSE 2) - Cent * (ps[1] + ps[2] + ps[3])
               - PolymarketTaker(r, ps[1], 1) - PolymarketTaker(r, ps[2], 1)
               - PolymarketTaker(r, ps[3], 1) - 3 * Gas
<1> DEFINE f(i) == PolymarketTaker(r, ps[i], 1)
           x(i) == PartAt(k, r, s, o, i, ps[i], 1)
<1>1. k \in Threes /\ k # "CTFMint"
  BY DEF Threes
<1>2. \A v : VenueAt(k, v) = "polymarket"
  BY DEF VenueAt
<1>3. IF k = "NegRisk"
      THEN \/ Pays(k, o, 1) /\ ~ Pays(k, o, 2) /\ ~ Pays(k, o, 3)
           \/ ~ Pays(k, o, 1) /\ Pays(k, o, 2) /\ ~ Pays(k, o, 3)
           \/ ~ Pays(k, o, 1) /\ ~ Pays(k, o, 2) /\ Pays(k, o, 3)
      ELSE \/ ~ Pays(k, o, 1) /\ Pays(k, o, 2) /\ Pays(k, o, 3)
           \/ Pays(k, o, 1) /\ ~ Pays(k, o, 2) /\ Pays(k, o, 3)
           \/ Pays(k, o, 1) /\ Pays(k, o, 2) /\ ~ Pays(k, o, 3)
  BY DEF Pays, Outcomes, Implications, Quoted
<1>4. \A i \in 1..3 : f(i) \in Nat /\ ps[i] \in Price
  BY TakersAreMoney, Single
<1> HIDE DEF f
<1>5. \A i \in 1..3 : x(i) = (IF Pays(k, o, i) THEN Dollar ELSE 0) - Cent * ps[i] - f(i) - Gas
  BY <1>1, <1>2, PolymarketPart DEF PartAt, f
<1>6. Settled(k, r, s, ps, Ones(ps), o) = x(1) + x(2) + x(3)
  BY <1>1, SetOfThree
<1> HIDE DEF x
<1>7. f(1) \in Nat /\ f(2) \in Nat /\ f(3) \in Nat /\ ps[1] \in Int /\ ps[2] \in Int /\ ps[3] \in Int
  BY <1>4 DEF Price
<1>8. /\ x(1) = (IF Pays(k, o, 1) THEN Dollar ELSE 0) - Cent * ps[1] - f(1) - Gas
      /\ x(2) = (IF Pays(k, o, 2) THEN Dollar ELSE 0) - Cent * ps[2] - f(2) - Gas
      /\ x(3) = (IF Pays(k, o, 3) THEN Dollar ELSE 0) - Cent * ps[3] - f(3) - Gas
  BY <1>5
<1>9. Settled(k, r, s, ps, Ones(ps), o)
        = Dollar * (IF k = "NegRisk" THEN 1 ELSE 2) - Cent * (ps[1] + ps[2] + ps[3])
            - f(1) - f(2) - f(3) - 3 * Gas
  BY <1>3, <1>6, <1>7, <1>8 DEF Dollar, Cent, Gas
<1> QED BY <1>9 DEF f

LEMMA KalshiTriple ==
  ASSUME NEW r \in Nat, NEW s, NEW ps \in [1..3 -> Price], NEW o \in Outcomes("KalshiMulti")
  PROVE  Settled("KalshiMulti", r, s, ps, Ones(ps), o)
           = Dollar - Cent * (ps[1] + ps[2] + ps[3])
               - KalshiTaker(ps[1], 1) - KalshiTaker(ps[2], 1) - KalshiTaker(ps[3], 1)
<1> DEFINE k == "KalshiMulti"
           f(i) == KalshiTaker(ps[i], 1)
           x(i) == PartAt(k, r, s, o, i, ps[i], 1)
<1>1. k \in Threes
  BY DEF Threes
<1>2. \A v : VenueAt(k, v) = "kalshi"
  BY DEF VenueAt
<1>3. \/ Pays(k, o, 1) /\ ~ Pays(k, o, 2) /\ ~ Pays(k, o, 3)
      \/ ~ Pays(k, o, 1) /\ Pays(k, o, 2) /\ ~ Pays(k, o, 3)
      \/ ~ Pays(k, o, 1) /\ ~ Pays(k, o, 2) /\ Pays(k, o, 3)
  BY DEF Pays, Outcomes, Implications, Quoted
<1>4. \A i \in 1..3 : f(i) \in Nat /\ ps[i] \in Price
  BY TakersAreMoney, Single
<1> HIDE DEF f
<1>5. \A i \in 1..3 : x(i) = (IF Pays(k, o, i) THEN Dollar ELSE 0) - Cent * ps[i] - f(i)
  BY <1>2, KalshiPart DEF PartAt, f
<1>6. Settled(k, r, s, ps, Ones(ps), o) = x(1) + x(2) + x(3)
  BY <1>1, SetOfThree
<1> HIDE DEF x
<1>7. f(1) \in Nat /\ f(2) \in Nat /\ f(3) \in Nat /\ ps[1] \in Int /\ ps[2] \in Int /\ ps[3] \in Int
  BY <1>4 DEF Price
<1>8. /\ x(1) = (IF Pays(k, o, 1) THEN Dollar ELSE 0) - Cent * ps[1] - f(1)
      /\ x(2) = (IF Pays(k, o, 2) THEN Dollar ELSE 0) - Cent * ps[2] - f(2)
      /\ x(3) = (IF Pays(k, o, 3) THEN Dollar ELSE 0) - Cent * ps[3] - f(3)
  BY <1>5
<1>9. Settled(k, r, s, ps, Ones(ps), o) = Dollar - Cent * (ps[1] + ps[2] + ps[3]) - f(1) - f(2) - f(3)
  BY <1>3, <1>6, <1>7, <1>8 DEF Dollar, Cent
<1> QED BY <1>9 DEF f

\* The commission of the cheapest win is the dearest.
LEMMA CheapestIsLeast ==
  ASSUME NEW ps \in [1..3 -> Price]
  PROVE  Cheapest(ps) \in Price /\ \A i \in 1..3 : Cheapest(ps) <= ps[i]
<1>1. Range(ps) = {ps[1], ps[2], ps[3]}
  <2>1. \A y : y \in Range(ps) <=> \E i \in 1..3 : y = ps[i]
    BY DEF Range
  <2>2. \A i : i \in 1..3 <=> i = 1 \/ i = 2 \/ i = 3
    OBVIOUS
  <2> QED BY <2>1, <2>2
<1>2. ps[1] \in Price /\ ps[2] \in Price /\ ps[3] \in Price
  OBVIOUS
<1>3. \E p \in {ps[1], ps[2], ps[3]} : \A q \in {ps[1], ps[2], ps[3]} : p <= q
  BY <1>2, SMTT(30) DEF Price
<1>4. Cheapest(ps) \in Range(ps) /\ \A q \in Range(ps) : Cheapest(ps) <= q
  BY <1>1, <1>3 DEF Cheapest
<1> QED BY <1>1, <1>2, <1>4

LEMMA BetfairTriple ==
  ASSUME NEW r \in Nat, NEW s, NEW ps \in [1..3 -> Price], NEW o \in Outcomes("BackAll")
  PROVE  Dollar - Cent * (ps[1] + ps[2] + ps[3]) - Commission(BetfairRate, Cheapest(ps))
           <= Settled("BackAll", r, s, ps, Ones(ps), o)
<1> DEFINE k == "BackAll"
           f(i) == Commission(BetfairRate, ps[i])
           x(i) == PartAt(k, r, s, o, i, ps[i], 1)
           c == Commission(BetfairRate, Cheapest(ps))
<1>1. k \in Threes
  BY DEF Threes
<1>2. \A v : VenueAt(k, v) = "betfair"
  BY DEF VenueAt
<1>3. \/ Pays(k, o, 1) /\ ~ Pays(k, o, 2) /\ ~ Pays(k, o, 3)
      \/ ~ Pays(k, o, 1) /\ Pays(k, o, 2) /\ ~ Pays(k, o, 3)
      \/ ~ Pays(k, o, 1) /\ ~ Pays(k, o, 2) /\ Pays(k, o, 3)
  BY DEF Pays, Outcomes, Implications, Quoted
<1>4. ps[1] \in Price /\ ps[2] \in Price /\ ps[3] \in Price
  OBVIOUS
<1>5. \A w : \A p \in Price :
        Part(k, r, "betfair", w, p, 1)
          = (IF w THEN Dollar - Commission(BetfairRate, p) ELSE 0) - Cent * p
  BY DEF Part, Sign, EntryFee, GasFor, WinFee, Commission, BetfairRate, Dollar, Cent, Price
<1>6. \A i \in 1..3 : x(i) = (IF Pays(k, o, i) THEN Dollar - f(i) ELSE 0) - Cent * ps[i]
  BY <1>2, <1>5 DEF PartAt
<1>7. Settled(k, r, s, ps, Ones(ps), o) = x(1) + x(2) + x(3)
  BY <1>1, SetOfThree
<1>8. /\ f(1) \in Int /\ f(2) \in Int /\ f(3) \in Int /\ c \in Int
      /\ f(1) <= c /\ f(2) <= c /\ f(3) <= c
  <2>1. \A p, q \in Price : q <= p => Commission(BetfairRate, p) <= Commission(BetfairRate, q)
    BY DEF Commission, BetfairRate, Price
  <2>2. \A p \in Price : Commission(BetfairRate, p) \in Int
    BY DEF Commission, BetfairRate, Price
  <2>3. Cheapest(ps) \in Price /\ Cheapest(ps) <= ps[1] /\ Cheapest(ps) <= ps[2] /\ Cheapest(ps) <= ps[3]
    BY CheapestIsLeast
  <2> QED BY <1>4, <2>1, <2>2, <2>3
<1> HIDE DEF x, f, c
<1>9. /\ x(1) = (IF Pays(k, o, 1) THEN Dollar - f(1) ELSE 0) - Cent * ps[1]
      /\ x(2) = (IF Pays(k, o, 2) THEN Dollar - f(2) ELSE 0) - Cent * ps[2]
      /\ x(3) = (IF Pays(k, o, 3) THEN Dollar - f(3) ELSE 0) - Cent * ps[3]
  BY <1>6
<1>10. ps[1] \in Int /\ ps[2] \in Int /\ ps[3] \in Int
  BY <1>4 DEF Price
<1>11. Dollar - Cent * (ps[1] + ps[2] + ps[3]) - c <= Settled(k, r, s, ps, Ones(ps), o)
  BY <1>3, <1>7, <1>8, <1>9, <1>10 DEF Dollar, Cent
<1> QED BY <1>11 DEF c

LEMMA ListsOfPrices ==
  ASSUME NEW S, NEW n \in Nat, NEW ps \in [1..n -> S]
  PROVE  ps \in Seq(S) /\ Len(ps) = n
<1>1. ps \in Seq(S)
  BY SeqDef
<1>2. DOMAIN ps = 1..Len(ps) /\ Len(ps) \in Nat
  BY <1>1, LenProperties
<1> QED BY <1>1, <1>2

LEMMA OneWay ==
  \A k \in AllKinds : (k # "Cross" /\ k \notin Threes) => Strategies(k) = {<<1, 2>>}
<1> SUFFICES ASSUME NEW k \in AllKinds, k # "Cross", k \notin Threes
             PROVE  Strategies(k) = {<<1, 2>>}
  OBVIOUS
<1>1. Quoted(k) = 2
  BY DEF Quoted, Threes
<1>2. [i \in 1..2 |-> i] = <<1, 2>>
  OBVIOUS
<1> QED BY <1>1, <1>2 DEF Strategies

LEMMA TwoTakers ==
  ASSUME NEW r \in Nat, NEW ps \in [1..2 -> Price]
  PROVE  /\ ps[1] \in Int /\ ps[2] \in Int /\ ps[1] \in Price /\ ps[2] \in Price
         /\ PolymarketTaker(r, ps[1], 1) \in Nat /\ PolymarketTaker(r, ps[2], 1) \in Nat
         /\ KalshiTaker(ps[1], 1) \in Nat /\ KalshiTaker(ps[2], 1) \in Nat
<1>1. ps[1] \in Price /\ ps[2] \in Price
  OBVIOUS
<1>2. ps[1] \in Int /\ ps[2] \in Int
  BY <1>1 DEF Price
<1> QED BY <1>1, <1>2, TakersAreMoney, Single

LEMMA TripleTotals ==
  ASSUME NEW r \in Nat, NEW ps \in [1..3 -> Price]
  PROVE  /\ ps[1] \in Int /\ ps[2] \in Int /\ ps[3] \in Int
         /\ PolymarketTaker(r, ps[1], 1) \in Nat /\ PolymarketTaker(r, ps[2], 1) \in Nat
         /\ PolymarketTaker(r, ps[3], 1) \in Nat
         /\ KalshiTaker(ps[1], 1) \in Nat /\ KalshiTaker(ps[2], 1) \in Nat
         /\ KalshiTaker(ps[3], 1) \in Nat
         /\ Total(ps) = ps[1] + ps[2] + ps[3]
         /\ Total([i \in DOMAIN ps |-> PolymarketTaker(r, ps[i], 1)])
              = PolymarketTaker(r, ps[1], 1) + PolymarketTaker(r, ps[2], 1) + PolymarketTaker(r, ps[3], 1)
         /\ Total([i \in DOMAIN ps |-> KalshiTaker(ps[i], 1)])
              = KalshiTaker(ps[1], 1) + KalshiTaker(ps[2], 1) + KalshiTaker(ps[3], 1)
<1> DEFINE f == [i \in DOMAIN ps |-> PolymarketTaker(r, ps[i], 1)]
           g == [i \in DOMAIN ps |-> KalshiTaker(ps[i], 1)]
<1>1. ps[1] \in Price /\ ps[2] \in Price /\ ps[3] \in Price
  OBVIOUS
<1>2. ps[1] \in Int /\ ps[2] \in Int /\ ps[3] \in Int
  BY <1>1 DEF Price
<1>3. /\ PolymarketTaker(r, ps[1], 1) \in Nat /\ PolymarketTaker(r, ps[2], 1) \in Nat
      /\ PolymarketTaker(r, ps[3], 1) \in Nat
  BY <1>1, TakersAreMoney, Single
<1>4. /\ KalshiTaker(ps[1], 1) \in Nat /\ KalshiTaker(ps[2], 1) \in Nat
      /\ KalshiTaker(ps[3], 1) \in Nat
  BY <1>1, TakersAreMoney, Single
<1>5. DOMAIN ps = 1..3 /\ DOMAIN f = 1..3 /\ DOMAIN g = 1..3
  OBVIOUS
<1>6. Total(ps) = ps[1] + ps[2] + ps[3]
  BY <1>2, <1>5, TotalThree
<1>7. /\ f[1] = PolymarketTaker(r, ps[1], 1) /\ f[2] = PolymarketTaker(r, ps[2], 1)
      /\ f[3] = PolymarketTaker(r, ps[3], 1)
      /\ g[1] = KalshiTaker(ps[1], 1) /\ g[2] = KalshiTaker(ps[2], 1) /\ g[3] = KalshiTaker(ps[3], 1)
  OBVIOUS
<1>8. Total(f) = PolymarketTaker(r, ps[1], 1) + PolymarketTaker(r, ps[2], 1) + PolymarketTaker(r, ps[3], 1)
  <2> HIDE DEF f, g
  <2> QED BY <1>3, <1>5, <1>7, TotalThree
<1>9. Total(g) = KalshiTaker(ps[1], 1) + KalshiTaker(ps[2], 1) + KalshiTaker(ps[3], 1)
  <2> HIDE DEF f, g
  <2> QED BY <1>4, <1>5, <1>7, TotalThree
<1> QED BY <1>2, <1>3, <1>4, <1>6, <1>8, <1>9

\* The profit a calculator names is never above what a set of legs brings, at
\* the prices it was computed from, in any outcome (fees.py).
THEOREM ClaimIsLow ==
  ASSUME NEW k \in AllKinds, NEW rr \in 0..100, NEW r \in {ScanRate(k, rr), RecheckRate(k, rr)},
         NEW m \in FeeModels, Worst(k, m), NEW s \in Strategies(k),
         NEW ps \in [Places(k) -> Price], Claim(k, r, m, ps) > 0, NEW o \in Outcomes(k)
  PROVE  Claim(k, r, m, ps) <= Settled(k, r, s, ps, Ones(ps), o)
<1>0. r \in Nat
  BY DEF ScanRate, RecheckRate, DefaultRate
<1>1. CASE k \in {"Binary", "Frechet", "CTFMerge"}
  <2>1. ps \in [1..2 -> Price] /\ s = <<1, 2>> /\ k # "Cross" /\ k \notin Threes
    BY <1>1, OneWay DEF Places, Threes
  <2> DEFINE f == PolymarketTaker(r, ps[1], 1)
             g == PolymarketTaker(r, ps[2], 1)
             gross == Dollar - Cent * (ps[1] + ps[2])
             charges == f + g + 2 * Gas + Extra(k, 1)
  <2>2. ps[1] \in Int /\ ps[2] \in Int /\ f \in Nat /\ g \in Nat
    BY <1>0, <2>1, TwoTakers
  <2>3. Claim(k, r, m, ps) = Net(gross, charges)
    <3>1. CASE k = "Binary"
      <4>1. Extra(k, 1) = 0
        BY <3>1 DEF Extra
      <4>2. Claim(k, r, m, ps) = Net(gross, f + g + 2 * Gas)
        BY <3>1 DEF Claim, NetBinary, PairGross, Implications
      <4>3. f + g + 2 * Gas + 0 = f + g + 2 * Gas
        BY <2>2 DEF Gas
      <4> QED BY <4>1, <4>2, <4>3
    <3>2. CASE k = "Frechet"
      <4>1. Extra(k, 1) = 0
        BY <3>2 DEF Extra
      <4>2. Claim(k, r, m, ps)
              = Net(Cent * ((100 - ps[2]) - ps[1]),
                    f + PolymarketTaker(r, 100 - (100 - ps[2]), 1) + 2 * Gas)
        BY <3>2 DEF Claim, NetImplication, Implications
      <4>3. f + g + 2 * Gas + 0 = f + g + 2 * Gas /\ 100 - (100 - ps[2]) = ps[2]
            /\ Cent * ((100 - ps[2]) - ps[1]) = gross
        BY <2>2 DEF Gas, Cent, Dollar
      <4> QED BY <4>1, <4>2, <4>3
    <3>3. CASE k = "CTFMerge"
      <4>1. Extra(k, 1) = CtfGas
        BY <3>3 DEF Extra, CtfGas
      <4>2. Claim(k, r, m, ps) = Net(gross, f + g + CtfGas + 2 * Gas)
        BY <3>3 DEF Claim, NetCtfMerge, PairGross, Implications
      <4>3. f + g + 2 * Gas + CtfGas = f + g + CtfGas + 2 * Gas
        BY <2>2 DEF Gas, CtfGas
      <4> QED BY <4>1, <4>2, <4>3
    <3> QED BY <1>1, <3>1, <3>2, <3>3
  <2>4. Extra(k, 1) \in Nat
    BY ExtraIsMoney, Single
  <2>5. gross - f - g - 2 * Gas - Extra(k, 1) <= Settled(k, r, s, ps, Ones(ps), o)
    BY <1>0, <1>1, <2>1, PolymarketPair
  <2>6. gross \in Int /\ charges \in Int
    BY <2>2, <2>4 DEF Dollar, Cent, Gas
  <2>7. gross - charges = gross - f - g - 2 * Gas - Extra(k, 1)
    BY <2>2, <2>4, <2>6 DEF Gas
  <2> HIDE DEF gross, charges
  <2> QED BY <2>3, <2>5, <2>6, <2>7, NetIsSpread
<1>2. CASE k \in {"KalshiBinary", "FrechetKalshi", "Temporal"}
  <2>1. ps \in [1..2 -> Price] /\ s = <<1, 2>>
    BY <1>2, OneWay DEF Places, Threes
  <2> DEFINE f == KalshiTaker(ps[1], 1)
             g == KalshiTaker(ps[2], 1)
             gross == Dollar - Cent * (ps[1] + ps[2])
  <2>2. ps[1] \in Int /\ ps[2] \in Int /\ f \in Nat /\ g \in Nat
    BY <1>0, <2>1, TwoTakers
  <2>3. Claim(k, r, m, ps) = Net(gross, f + g)
    <3>1. CASE k = "KalshiBinary"
      BY <3>1 DEF Claim, NetKalshiBinary, PairGross, Implications
    <3>2. CASE k \in {"FrechetKalshi", "Temporal"}
      <4>2. Claim(k, r, m, ps)
              = Net(Cent * ((100 - ps[2]) - ps[1]), f + KalshiTaker(100 - (100 - ps[2]), 1))
        BY <3>2 DEF Claim, NetImplication, Implications
      <4>3. 100 - (100 - ps[2]) = ps[2] /\ Cent * ((100 - ps[2]) - ps[1]) = gross
        BY <2>2 DEF Cent, Dollar
      <4> QED BY <4>2, <4>3
    <3> QED BY <1>2, <3>1, <3>2
  <2>5. gross - f - g <= Settled(k, r, s, ps, Ones(ps), o)
    BY <1>0, <1>2, <2>1, KalshiPair
  <2>6. gross \in Int /\ f + g \in Int
    BY <2>2 DEF Dollar, Cent
  <2>7. gross - (f + g) = gross - f - g
    BY <2>2, <2>6
  <2> HIDE DEF gross, f, g
  <2> QED BY <2>3, <2>5, <2>6, <2>7, NetIsSpread
<1>3. CASE k = "CTFMint"
  <2>1. ps \in [1..2 -> Price] /\ s = <<1, 2>>
    BY <1>3, OneWay DEF Places, Threes
  <2> DEFINE f == PolymarketTaker(r, ps[1], 1)
             g == PolymarketTaker(r, ps[2], 1)
             gross == - (Dollar - Cent * (ps[1] + ps[2]))
             charges == f + g + CtfGas + 2 * Gas
  <2>2. ps[1] \in Int /\ ps[2] \in Int /\ f \in Nat /\ g \in Nat
    BY <1>0, <2>1, TwoTakers
  <2>3. Claim(k, r, m, ps) = Net(gross, charges)
    BY <1>3 DEF Claim, NetCtfMint, PairGross, Implications
  <2>5. Cent * (ps[1] + ps[2]) - Dollar - f - g - 2 * Gas - CtfGas = Settled(k, r, s, ps, Ones(ps), o)
    BY <1>0, <1>3, <2>1, MintPair
  <2>6. gross \in Int /\ charges \in Int
    BY <2>2 DEF Dollar, Cent, Gas, CtfGas
  <2>7. gross - charges = Cent * (ps[1] + ps[2]) - Dollar - f - g - 2 * Gas - CtfGas
    BY <2>2, <2>6 DEF Dollar, Cent, Gas, CtfGas
  <2> HIDE DEF gross, charges, f, g
  <2>8. Net(gross, charges) = gross - charges
    BY <2>3, <2>6, NetIsSpread
  <2>9. gross - charges \in Int
    BY <2>6
  <2> QED BY <2>3, <2>5, <2>7, <2>8, <2>9
<1>4. CASE k = "Cross"
  <2>1. ps \in [1..2 -> Price] /\ s \in {<<1, 2>>, <<3, 4>>}
    BY <1>4 DEF Places, Threes, Strategies
  <2>2. r = DefaultRate
    BY <1>4 DEF ScanRate, RecheckRate
  <2> DEFINE f == PolymarketTaker(r, ps[1], 1)
             g == KalshiTaker(ps[2], 1)
             gross == Dollar - Cent * (ps[1] + ps[2])
  <2>3. ps[1] \in Int /\ ps[2] \in Int /\ f \in Nat /\ g \in Nat
    BY <1>0, <2>1, TwoTakers
  <2>4. Claim(k, r, m, ps) = Net(gross, f + g + Gas)
    BY <1>4, <2>2 DEF Claim, NetCrossPlatform, PairGross, Implications
  <2>5. s[1] \in {1, 3} /\ s \in {<<1, 2>>, <<3, 4>>, <<4, 3>>} /\ 1 \in 1..2 /\ 2 \in 1..2 /\ 1 # 2
    BY <2>1
  <2>6. Settled(k, r, s, ps, Ones(ps), o) = gross - f - g - Gas
    BY <1>0, <1>4, <2>1, <2>5, CrossPair
  <2>7. gross \in Int /\ f + g + Gas \in Int /\ gross - (f + g + Gas) = gross - f - g - Gas
    BY <2>3 DEF Dollar, Cent, Gas
  <2> HIDE DEF gross, f, g
  <2>8. Net(gross, f + g + Gas) = gross - (f + g + Gas)
    BY <2>4, <2>7, NetIsSpread
  <2>9. gross - (f + g + Gas) \in Int
    BY <2>7
  <2> QED BY <2>4, <2>6, <2>7, <2>8, <2>9
<1>5. CASE k = "Triangular"
  <2>1. ps \in [1..2 -> Price] /\ s = <<1, 2>>
    BY <1>5, OneWay DEF Places, Threes
  <2>2. r = DefaultRate
    BY <1>5 DEF ScanRate, RecheckRate
  <2>3. Claim(k, r, m, ps) = NetCrossGeneric(m, TrianglePair[1], TrianglePair[2], ps[1], ps[2])
    BY <1>5 DEF Claim, NetTriangular, Implications
  <2> QED BY <1>5, <2>1, <2>2, <2>3, TriangularPair
<1>6. CASE k = "NegRisk"
  <2>1. ps \in [1..3 -> Price]
    BY <1>6 DEF Places, Threes
  <2> DEFINE f(i) == PolymarketTaker(r, ps[i], 1)
             gross == Dollar - Cent * (ps[1] + ps[2] + ps[3])
             charges == f(1) + f(2) + f(3) + Gas * 3
  <2>2. /\ ps[1] \in Int /\ ps[2] \in Int /\ ps[3] \in Int
        /\ f(1) \in Nat /\ f(2) \in Nat /\ f(3) \in Nat
        /\ Total(ps) = ps[1] + ps[2] + ps[3]
        /\ Total([i \in DOMAIN ps |-> PolymarketTaker(r, ps[i], 1)]) = f(1) + f(2) + f(3)
    BY <1>0, <2>1, TripleTotals
  <2>3. Len(ps) = 3
    BY <2>1, ListsOfPrices
  <2>4. Claim(k, r, m, ps) = Net(gross, charges)
    BY <1>6, <2>2, <2>3 DEF Claim, NetNegRisk, SetGross, Implications
  <2>5. Settled(k, r, s, ps, Ones(ps), o)
          = Dollar * 1 - Cent * (ps[1] + ps[2] + ps[3]) - f(1) - f(2) - f(3) - 3 * Gas
    BY <1>0, <1>6, <2>1, PolymarketTriple
  <2>6. gross \in Int /\ charges \in Int
        /\ gross - charges = Dollar * 1 - Cent * (ps[1] + ps[2] + ps[3]) - f(1) - f(2) - f(3) - 3 * Gas
    <3> HIDE DEF f
    <3> QED BY <2>2 DEF Dollar, Cent, Gas
  <2> HIDE DEF gross, charges, f
  <2>7. Net(gross, charges) = gross - charges
    BY <2>4, <2>6, NetIsSpread
  <2>8. gross - charges \in Int
    BY <2>6
  <2> QED BY <2>4, <2>5, <2>6, <2>7, <2>8
<1>7. CASE k = "NegRiskNO"
  <2>1. ps \in [1..3 -> Price]
    BY <1>7 DEF Places, Threes
  <2>0. r = DefaultRate
    BY <1>7 DEF ScanRate, RecheckRate
  <2> DEFINE f(i) == PolymarketTaker(r, ps[i], 1)
             gross == Dollar * (3 - 1) - Cent * (ps[1] + ps[2] + ps[3])
             charges == f(1) + f(2) + f(3) + Gas * 3
  <2>2. /\ ps[1] \in Int /\ ps[2] \in Int /\ ps[3] \in Int
        /\ f(1) \in Nat /\ f(2) \in Nat /\ f(3) \in Nat
        /\ Total(ps) = ps[1] + ps[2] + ps[3]
        /\ Total([i \in DOMAIN ps |-> PolymarketTaker(r, ps[i], 1)]) = f(1) + f(2) + f(3)
    BY <1>0, <2>1, TripleTotals
  <2>3. Len(ps) = 3
    BY <2>1, ListsOfPrices
  <2>4. Claim(k, r, m, ps) = Net(gross, charges)
    BY <1>7, <2>0, <2>2, <2>3 DEF Claim, NetNegRiskNo, Implications
  <2>5. Settled(k, r, s, ps, Ones(ps), o)
          = Dollar * 2 - Cent * (ps[1] + ps[2] + ps[3]) - f(1) - f(2) - f(3) - 3 * Gas
    BY <1>0, <1>7, <2>1, PolymarketTriple
  <2>6. gross \in Int /\ charges \in Int
        /\ gross - charges = Dollar * 2 - Cent * (ps[1] + ps[2] + ps[3]) - f(1) - f(2) - f(3) - 3 * Gas
    <3> HIDE DEF f
    <3> QED BY <2>2 DEF Dollar, Cent, Gas
  <2> HIDE DEF gross, charges, f
  <2>7. Net(gross, charges) = gross - charges
    BY <2>4, <2>6, NetIsSpread
  <2>8. gross - charges \in Int
    BY <2>6
  <2> QED BY <2>4, <2>5, <2>6, <2>7, <2>8
<1>8. CASE k = "KalshiMulti"
  <2>1. ps \in [1..3 -> Price]
    BY <1>8 DEF Places, Threes
  <2> DEFINE f(i) == KalshiTaker(ps[i], 1)
             gross == Dollar - Cent * (ps[1] + ps[2] + ps[3])
             charges == f(1) + f(2) + f(3)
  <2>2. /\ ps[1] \in Int /\ ps[2] \in Int /\ ps[3] \in Int
        /\ f(1) \in Nat /\ f(2) \in Nat /\ f(3) \in Nat
        /\ Total(ps) = ps[1] + ps[2] + ps[3]
        /\ Total([i \in DOMAIN ps |-> KalshiTaker(ps[i], 1)]) = f(1) + f(2) + f(3)
    BY <1>0, <2>1, TripleTotals
  <2>4. Claim(k, r, m, ps) = Net(gross, charges)
    BY <1>8, <2>2 DEF Claim, NetKalshiMulti, SetGross, Implications
  <2>5. Settled(k, r, s, ps, Ones(ps), o)
          = Dollar - Cent * (ps[1] + ps[2] + ps[3]) - f(1) - f(2) - f(3)
    BY <1>0, <1>8, <2>1, KalshiTriple
  <2>6. gross \in Int /\ charges \in Int
        /\ gross - charges = Dollar - Cent * (ps[1] + ps[2] + ps[3]) - f(1) - f(2) - f(3)
    <3> HIDE DEF f
    <3> QED BY <2>2 DEF Dollar, Cent
  <2> HIDE DEF gross, charges, f
  <2>7. Net(gross, charges) = gross - charges
    BY <2>4, <2>6, NetIsSpread
  <2>8. gross - charges \in Int
    BY <2>6
  <2> QED BY <2>4, <2>5, <2>6, <2>7, <2>8
<1>9. CASE k = "BackAll"
  <2>1. ps \in [1..3 -> Price]
    BY <1>9 DEF Places, Threes
  <2> DEFINE gross == Dollar - Cent * (ps[1] + ps[2] + ps[3])
             c == Commission(BetfairRate, Cheapest(ps))
  <2>2. ps[1] \in Int /\ ps[2] \in Int /\ ps[3] \in Int /\ Total(ps) = ps[1] + ps[2] + ps[3]
    BY <1>0, <2>1, TripleTotals
  <2>3. c \in Int
    BY <2>1, CheapestIsLeast DEF Commission, BetfairRate, Price
  <2>4. Claim(k, r, m, ps) = Net(gross, c)
    BY <1>9, <2>2 DEF Claim, NetBetfairBackAll, SetGross, Implications
  <2>5. gross - c <= Settled(k, r, s, ps, Ones(ps), o)
    BY <1>0, <1>9, <2>1, BetfairTriple
  <2>6. gross \in Int
    BY <2>2 DEF Dollar, Cent
  <2> HIDE DEF gross, c
  <2>7. Net(gross, c) = gross - c
    BY <2>3, <2>4, <2>6, NetIsSpread
  <2> QED BY <2>4, <2>5, <2>7
<1> QED BY <1>1, <1>2, <1>3, <1>4, <1>5, <1>6, <1>7, <1>8, <1>9 DEF AllKinds

\* Profits and accounts are whole numbers of micro-dollars.
LEMMA NetIsMoney == \A g, c \in Int : Net(g, c) \in Int
  BY DEF Net

LEMMA ClaimIsMoney ==
  ASSUME NEW k \in AllKinds, NEW r \in Nat, NEW m \in FeeModels,
         NEW ps \in [Places(k) -> Price]
  PROVE  Claim(k, r, m, ps) \in Int
<1>0. Dollar \in Int /\ Cent \in Int /\ Gas \in Int /\ CtfGas \in Int /\ DefaultRate \in Nat
  BY DEF Dollar, Cent, Gas, CtfGas, DefaultRate
<1>1. CASE k \notin Threes
  <2>1. ps \in [1..2 -> Price]
    BY <1>1 DEF Places
  <2> DEFINE a == ps[1]
             b == ps[2]
  <2>2. a \in Int /\ b \in Int /\ a \in Price /\ b \in Price
    BY <2>1, TwoTakers, Single
  <2>3. \A x \in Nat : /\ PolymarketTaker(x, a, 1) \in Nat /\ PolymarketTaker(x, b, 1) \in Nat
                       /\ KalshiTaker(a, 1) \in Nat /\ KalshiTaker(b, 1) \in Nat
    BY <2>1, TwoTakers
  <2>4. 100 - (100 - b) = b
    BY <2>2
  <2> HIDE DEF a, b
  <2>5. PairGross(a, b) \in Int /\ - PairGross(a, b) \in Int /\ Cent * (100 - b - a) \in Int
    BY <1>0, <2>2 DEF PairGross
  <2>6. CASE k \in {"Binary", "CTFMerge", "CTFMint", "Cross"}
    <3>1. /\ PolymarketTaker(r, a, 1) \in Nat /\ PolymarketTaker(r, b, 1) \in Nat
          /\ PolymarketTaker(DefaultRate, a, 1) \in Nat /\ KalshiTaker(b, 1) \in Nat
      BY <1>0, <2>3
    <3>2. /\ NetBinary(r, a, b) \in Int /\ NetCtfMerge(r, a, b) \in Int
          /\ NetCtfMint(r, a, b) \in Int /\ NetCrossPlatform(a, b) \in Int
      <4> DEFINE f == PolymarketTaker(r, a, 1)
                 g == PolymarketTaker(r, b, 1)
                 d == PolymarketTaker(DefaultRate, a, 1)
                 h == KalshiTaker(b, 1)
      <4>1. /\ NetBinary(r, a, b) = Net(PairGross(a, b), f + g + 2 * Gas)
            /\ NetCtfMerge(r, a, b) = Net(PairGross(a, b), f + g + CtfGas + 2 * Gas)
            /\ NetCtfMint(r, a, b) = Net(- PairGross(a, b), f + g + CtfGas + 2 * Gas)
            /\ NetCrossPlatform(a, b) = Net(PairGross(a, b), d + h + Gas)
        BY DEF NetBinary, NetCtfMerge, NetCtfMint, NetCrossPlatform
      <4>2. f + g + 2 * Gas \in Int /\ f + g + CtfGas + 2 * Gas \in Int /\ d + h + Gas \in Int
        BY <1>0, <3>1
      <4> HIDE DEF f, g, d, h
      <4> QED BY <2>5, <4>1, <4>2, NetIsMoney
    <3> QED BY <2>6, <3>2 DEF Claim, Implications, a, b
  <2>7. CASE k \in {"KalshiBinary", "Frechet", "FrechetKalshi", "Temporal"}
    <3>1. /\ PolymarketTaker(r, a, 1) \in Nat /\ PolymarketTaker(r, b, 1) \in Nat
          /\ KalshiTaker(a, 1) \in Nat /\ KalshiTaker(b, 1) \in Nat
      BY <1>0, <2>3
    <3>2. NetKalshiBinary(a, b) \in Int
      BY <2>5, <3>1, NetIsMoney DEF NetKalshiBinary
    <3>3. \A onKalshi : NetImplication(onKalshi, r, 100 - b, a) \in Int
      <4> DEFINE f == PolymarketTaker(r, a, 1)
                 g == PolymarketTaker(r, b, 1)
                 h == KalshiTaker(a, 1)
                 j == KalshiTaker(b, 1)
      <4>1. \A onKalshi : NetImplication(onKalshi, r, 100 - b, a)
              = Net(Cent * (100 - b - a), IF onKalshi THEN h + j ELSE f + g + 2 * Gas)
        BY <2>4 DEF NetImplication
      <4>2. f + g + 2 * Gas \in Int /\ h + j \in Int
        BY <1>0, <3>1
      <4> HIDE DEF f, g, h, j
      <4>3. Net(Cent * (100 - b - a), h + j) \in Int
            /\ Net(Cent * (100 - b - a), f + g + 2 * Gas) \in Int
        BY <2>5, <4>2, NetIsMoney
      <4> QED BY <4>1, <4>3
    <3> QED BY <2>7, <3>2, <3>3 DEF Claim, Implications, a, b
  <2>8. CASE k = "Triangular"
    <3> DEFINE va == TrianglePair[1]
               vb == TrianglePair[2]
               ea == EntryFee(va, DefaultRate, a, 1)
               eb == EntryFee(vb, DefaultRate, b, 1)
               wa == WinFee(va, a)
               wb == WinFee(vb, b)
               gas == IF "polymarket" \in {va, vb} THEN Gas ELSE 0
    <3>1. va \in Venues /\ vb \in Venues
      BY PairAssumption
    <3>2. ea \in Nat /\ eb \in Nat /\ wa \in Nat /\ wb \in Nat
      BY <2>2, <3>1, EntryFeeIsMoney, WinFeeIsMoney
    <3>3. gas \in Int
      BY <1>0
    <3>4. NetCrossGeneric(m, va, vb, a, b)
            = Net(PairGross(a, b), SelectFees(m, wa + (ea + eb), wb + (ea + eb), a) + gas)
      BY DEF NetCrossGeneric
    <3> HIDE DEF ea, eb, wa, wb, gas, va, vb
    <3>5. \A x, y, z \in Int : SelectFees(m, x, y, z) \in Int
      BY DEF SelectFees, Larger
    <3>6. wa + (ea + eb) \in Int /\ wb + (ea + eb) \in Int
      BY <3>2
    <3>7. SelectFees(m, wa + (ea + eb), wb + (ea + eb), a) + gas \in Int
      <4>1. SelectFees(m, wa + (ea + eb), wb + (ea + eb), a) \in Int
        BY <2>2, <3>5, <3>6
      <4> HIDE DEF SelectFees
      <4> QED BY <3>3, <4>1
    <3>8. NetCrossGeneric(m, va, vb, a, b) \in Int
      BY <2>5, <3>4, <3>7, NetIsMoney
    <3> QED BY <2>8, <3>8 DEF Claim, NetTriangular, Implications, a, b, va, vb
  <2> QED BY <1>1, <2>6, <2>7, <2>8 DEF AllKinds, Threes
<1>2. CASE k \in Threes
  <2>1. ps \in [1..3 -> Price]
    BY <1>2 DEF Places
  <2> DEFINE poly(x) == Total([i \in DOMAIN ps |-> PolymarketTaker(x, ps[i], 1)])
             kal == Total([i \in DOMAIN ps |-> KalshiTaker(ps[i], 1)])
  <2>2. Total(ps) \in Int /\ kal \in Int /\ \A x \in Nat : poly(x) \in Int
    <3> SUFFICES ASSUME NEW x \in Nat
                 PROVE  Total(ps) \in Int /\ kal \in Int /\ poly(x) \in Int
      BY <1>0
    <3> DEFINE f(i) == PolymarketTaker(x, ps[i], 1)
               g(i) == KalshiTaker(ps[i], 1)
    <3>1. /\ ps[1] \in Int /\ ps[2] \in Int /\ ps[3] \in Int
          /\ f(1) \in Nat /\ f(2) \in Nat /\ f(3) \in Nat
          /\ g(1) \in Nat /\ g(2) \in Nat /\ g(3) \in Nat
          /\ Total(ps) = ps[1] + ps[2] + ps[3]
          /\ poly(x) = f(1) + f(2) + f(3) /\ kal = g(1) + g(2) + g(3)
      BY <2>1, TripleTotals
    <3> HIDE DEF f, g, poly, kal
    <3> QED BY <3>1
  <2>3. Len(ps) = 3
    BY <2>1, ListsOfPrices
  <2>4. SetGross(ps) \in Int
    BY <1>0, <2>2 DEF SetGross
  <2>5. Commission(BetfairRate, Cheapest(ps)) \in Int
    BY <2>1, CheapestIsLeast DEF Commission, BetfairRate, Price
  <2>6. poly(r) + Gas * 3 \in Int /\ poly(DefaultRate) + Gas * 3 \in Int
        /\ Dollar * (3 - 1) - Cent * Total(ps) \in Int
    BY <1>0, <2>2
  <2>7. NetNegRisk(r, ps) \in Int
    BY <2>3, <2>4, <2>6, NetIsMoney DEF NetNegRisk
  <2>8. NetNegRiskNo(ps) \in Int
    BY <2>3, <2>6, NetIsMoney DEF NetNegRiskNo
  <2>9. NetKalshiMulti(ps) \in Int
    BY <2>2, <2>4, NetIsMoney DEF NetKalshiMulti
  <2>10. NetBetfairBackAll(ps) \in Int
    BY <2>4, <2>5, NetIsMoney DEF NetBetfairBackAll
  <2> QED BY <1>2, <2>7, <2>8, <2>9, <2>10 DEF Claim, Threes, Implications
<1> QED BY <1>1, <1>2

LEMMA SettledIsMoney ==
  ASSUME NEW k \in AllKinds, NEW r \in Nat, NEW s, NEW o, NEW ps \in [Places(k) -> Price]
  PROVE  Settled(k, r, s, ps, Ones(ps), o) \in Int
<1> DEFINE x(i) == PartAt(k, r, s, o, i, ps[i], 1)
<1>1. \A i \in Places(k) : x(i) \in Int
  BY PartAtIsMoney, Single
<1>2. CASE k \in Threes
  <2>1. Settled(k, r, s, ps, Ones(ps), o) = x(1) + x(2) + x(3)
    BY <1>2, SetOfThree, TwosAndThrees
  <2> HIDE DEF x
  <2> QED BY <1>1, <1>2, <2>1, TwosAndThrees
<1>3. CASE k \notin Threes
  <2>1. Settled(k, r, s, ps, Ones(ps), o) = x(1) + x(2) - Extra(k, 1)
    BY <1>3, SetOfTwo, TwosAndThrees
  <2> HIDE DEF x
  <2> QED BY <1>1, <1>3, <2>1, TwosAndThrees, ExtraIsMoney, Single
<1> QED BY <1>2, <1>3

-----------------------------------------------------------------------------
(* The prices a NegRisk carries are the scan's, in another order.          *)

LEMMA SortExists ==
  ASSUME NEW ps \in [1..3 -> Price]
  PROVE  \E pi \in Bijection(1..3, 1..3) : \A i, j \in 1..3 : i <= j => ps[pi[i]] >= ps[pi[j]]
<1>1. ps[1] \in Int /\ ps[2] \in Int /\ ps[3] \in Int
  BY DEF Price
<1>2. ASSUME NEW a \in 1..3, NEW b \in 1..3, NEW c \in 1..3, a # b, b # c, a # c,
             ps[a] >= ps[b], ps[b] >= ps[c]
      PROVE  \E pi \in Bijection(1..3, 1..3) : \A i, j \in 1..3 : i <= j => ps[pi[i]] >= ps[pi[j]]
  <2> DEFINE pi == [i \in 1..3 |-> IF i = 1 THEN a ELSE IF i = 2 THEN b ELSE c]
  <2>1. pi \in [1..3 -> 1..3] /\ pi[1] = a /\ pi[2] = b /\ pi[3] = c
    OBVIOUS
  <2> HIDE DEF pi
  <2>2. pi \in Injection(1..3, 1..3)
    <3>1. \A i, j \in 1..3 : pi[i] = pi[j] => i = j
      BY <1>2, <2>1
    <3>2. DOMAIN pi = 1..3
      BY <2>1
    <3> QED BY <2>1, <3>1, <3>2 DEF Injection, IsInjective
  <2>3. \A t \in 1..3 : \E i \in 1..3 : pi[i] = t
    BY <1>2, <2>1
  <2>4. pi \in Bijection(1..3, 1..3)
    BY <2>1, <2>2, <2>3 DEF Bijection, Surjection
  <2>5. \A i, j \in 1..3 : i <= j => ps[pi[i]] >= ps[pi[j]]
    <3>1. ps[a] \in Int /\ ps[b] \in Int /\ ps[c] \in Int /\ ps[a] >= ps[c]
      <4>1. ps[a] \in Int /\ ps[b] \in Int /\ ps[c] \in Int
        BY DEF Price
      <4> QED BY <1>2, <4>1
    <3>2. \A i, j \in 1..3 : i <= j => \/ i = j \/ (i = 1 /\ j = 2) \/ (i = 1 /\ j = 3) \/ (i = 2 /\ j = 3)
      OBVIOUS
    <3>3. \A i \in 1..3 : ps[pi[i]] >= ps[pi[i]]
      <4> SUFFICES ASSUME NEW i \in 1..3 PROVE ps[pi[i]] >= ps[pi[i]]
        OBVIOUS
      <4>1. ps[pi[i]] \in Int
        BY <2>1 DEF Price
      <4> QED BY <4>1
    <3> QED BY <1>2, <2>1, <3>1, <3>2, <3>3
  <2> QED BY <2>4, <2>5
<1>3. \/ ps[1] >= ps[2] /\ ps[2] >= ps[3]
      \/ ps[1] >= ps[3] /\ ps[3] >= ps[2]
      \/ ps[2] >= ps[1] /\ ps[1] >= ps[3]
      \/ ps[2] >= ps[3] /\ ps[3] >= ps[1]
      \/ ps[3] >= ps[1] /\ ps[1] >= ps[2]
      \/ ps[3] >= ps[2] /\ ps[2] >= ps[1]
  BY <1>1
<1>4. 1 \in 1..3 /\ 2 \in 1..3 /\ 3 \in 1..3
  OBVIOUS
<1> QED
  <2> HIDE <1>2
  <2>1. CASE ps[1] >= ps[2] /\ ps[2] >= ps[3]
    BY <2>1, <1>2, <1>4
  <2>2. CASE ps[1] >= ps[3] /\ ps[3] >= ps[2]
    BY <2>2, <1>2, <1>4
  <2>3. CASE ps[2] >= ps[1] /\ ps[1] >= ps[3]
    BY <2>3, <1>2, <1>4
  <2>4. CASE ps[2] >= ps[3] /\ ps[3] >= ps[1]
    BY <2>4, <1>2, <1>4
  <2>5. CASE ps[3] >= ps[1] /\ ps[1] >= ps[2]
    BY <2>5, <1>2, <1>4
  <2>6. CASE ps[3] >= ps[2] /\ ps[2] >= ps[1]
    BY <2>6, <1>2, <1>4
  <2> QED BY <1>3, <2>1, <2>2, <2>3, <2>4, <2>5, <2>6

LEMMA SortPermutes ==
  ASSUME NEW ps \in [1..3 -> Price]
  PROVE  \E pi \in [1..3 -> 1..3] :
           /\ pi[1] # pi[2] /\ pi[2] # pi[3] /\ pi[1] # pi[3]
           /\ HighToLow(ps) = [i \in 1..3 |-> ps[pi[i]]]
<1> DEFINE Orders3 == {[i \in DOMAIN ps |-> ps[pi[i]]] : pi \in Bijection(DOMAIN ps, DOMAIN ps)}
           Sorted(q) == \A i, j \in DOMAIN ps : i <= j => q[i] >= q[j]
<1>1. DOMAIN ps = 1..3
  OBVIOUS
<1>2. \E q \in Orders3 : Sorted(q)
  <2>1. PICK pi \in Bijection(1..3, 1..3) : \A i, j \in 1..3 : i <= j => ps[pi[i]] >= ps[pi[j]]
    BY SortExists
  <2> DEFINE q == [i \in DOMAIN ps |-> ps[pi[i]]]
  <2>2. q \in Orders3
    BY <1>1
  <2>3. Sorted(q)
    BY <1>1, <2>1
  <2> QED BY <2>2, <2>3
<1>3. HighToLow(ps) \in Orders3
  BY <1>2 DEF HighToLow
<1>4. PICK pi \in Bijection(1..3, 1..3) : HighToLow(ps) = [i \in 1..3 |-> ps[pi[i]]]
  BY <1>1, <1>3
<1>5. pi \in [1..3 -> 1..3] /\ \A i, j \in 1..3 : pi[i] = pi[j] => i = j
  <2>1. pi \in Injection(1..3, 1..3)
    BY DEF Bijection
  <2>2. pi \in [1..3 -> 1..3] /\ IsInjective(pi)
    BY <2>1 DEF Injection
  <2>3. DOMAIN pi = 1..3
    BY <2>2
  <2> QED BY <2>2, <2>3 DEF IsInjective
<1>6. pi[1] # pi[2] /\ pi[2] # pi[3] /\ pi[1] # pi[3]
  BY <1>5
<1> QED BY <1>4, <1>5, <1>6

LEMMA SortedPaysTheSame ==
  ASSUME NEW ps \in [1..3 -> Price], NEW r \in Nat, NEW s, NEW o \in Outcomes("NegRisk")
  PROVE  LET q == HighToLow(ps)
         IN  /\ q \in [1..3 -> Price]
             /\ Settled("NegRisk", r, s, q, Ones(q), o) = Settled("NegRisk", r, s, ps, Ones(ps), o)
<1> DEFINE q == HighToLow(ps)
           f(p) == PolymarketTaker(r, p, 1)
<1>1. PICK pi \in [1..3 -> 1..3] : /\ pi[1] # pi[2] /\ pi[2] # pi[3] /\ pi[1] # pi[3]
                                   /\ q = [i \in 1..3 |-> ps[pi[i]]]
  BY SortPermutes
<1>2. q \in [1..3 -> Price] /\ q[1] = ps[pi[1]] /\ q[2] = ps[pi[2]] /\ q[3] = ps[pi[3]]
  BY <1>1
<1> HIDE DEF q
<1>3. \/ q[1] = ps[1] /\ q[2] = ps[2] /\ q[3] = ps[3]
      \/ q[1] = ps[1] /\ q[2] = ps[3] /\ q[3] = ps[2]
      \/ q[1] = ps[2] /\ q[2] = ps[1] /\ q[3] = ps[3]
      \/ q[1] = ps[2] /\ q[2] = ps[3] /\ q[3] = ps[1]
      \/ q[1] = ps[3] /\ q[2] = ps[1] /\ q[3] = ps[2]
      \/ q[1] = ps[3] /\ q[2] = ps[2] /\ q[3] = ps[1]
  <2>1. pi[1] \in 1..3 /\ pi[2] \in 1..3 /\ pi[3] \in 1..3
    OBVIOUS
  <2> QED BY <1>1, <1>2, <2>1
<1>4. /\ ps[1] \in Int /\ ps[2] \in Int /\ ps[3] \in Int
      /\ f(ps[1]) \in Nat /\ f(ps[2]) \in Nat /\ f(ps[3]) \in Nat
  BY TripleTotals
<1> HIDE DEF f
<1>5. /\ q[1] + q[2] + q[3] = ps[1] + ps[2] + ps[3]
      /\ f(q[1]) \in Nat /\ f(q[2]) \in Nat /\ f(q[3]) \in Nat
      /\ f(q[1]) + f(q[2]) + f(q[3]) = f(ps[1]) + f(ps[2]) + f(ps[3])
  BY <1>3, <1>4
<1>6. /\ Settled("NegRisk", r, s, q, Ones(q), o)
           = Dollar * 1 - Cent * (q[1] + q[2] + q[3]) - f(q[1]) - f(q[2]) - f(q[3]) - 3 * Gas
      /\ Settled("NegRisk", r, s, ps, Ones(ps), o)
           = Dollar * 1 - Cent * (ps[1] + ps[2] + ps[3]) - f(ps[1]) - f(ps[2]) - f(ps[3]) - 3 * Gas
  <2>1. "NegRisk" \in {"NegRisk", "NegRiskNO"}
    OBVIOUS
  <2> QED BY <1>2, <2>1, PolymarketTriple DEF f
<1>7. Settled("NegRisk", r, s, q, Ones(q), o) = Settled("NegRisk", r, s, ps, Ones(ps), o)
  BY <1>4, <1>5, <1>6 DEF Dollar, Cent, Gas
<1> QED BY <1>2, <1>7 DEF q

-----------------------------------------------------------------------------
(* The two routes of a Cross.                                              *)

\* A route on the fee path makes a profit of its own, whatever was scanned:
\* one contract of each of its legs pays in both outcomes.
LEMMA PathPays ==
  ASSUME NEW s \in {<<1, 2>>, <<4, 3>>}, NEW yes, NEW no, NEW path,
         path = (IF s = <<1, 2>> THEN <<"polymarket", "kalshi">> ELSE <<"kalshi", "polymarket">>),
         yes[path[1]] \in Price, no[path[2]] \in Price,
         PathNet(yes, no, path) > 0, NEW o \in Outcomes("Cross")
  PROVE  LET ps == <<yes[path[1]], no[path[2]]>>
         IN  Settled("Cross", DefaultRate, s, ps, Ones(ps), o) > 0
<1> DEFINE a == yes[path[1]]
           b == no[path[2]]
           ps == <<a, b>>
           f(p) == PolymarketTaker(DefaultRate, p, 1)
           g(p) == KalshiTaker(p, 1)
<1>1. ps \in [1..2 -> Price] /\ ps[1] = a /\ ps[2] = b /\ a \in Price /\ b \in Price
  OBVIOUS
<1>2. a \in Int /\ b \in Int
  BY <1>1 DEF Price
<1>3. f(a) \in Nat /\ f(b) \in Nat /\ g(a) \in Nat /\ g(b) \in Nat /\ DefaultRate \in Nat
  <2>1. DefaultRate \in Nat
    BY DEF DefaultRate
  <2> QED BY <1>1, <2>1, TakersAreMoney, Single
<1>4. PathNet(yes, no, path)
        = Dollar - Cent * (a + b) - EstimateTotalFee(path[1], a) - EstimateTotalFee(path[2], b)
  BY DEF PathNet, PairGross
<1>5. s \in {<<1, 2>>, <<3, 4>>, <<4, 3>>} /\ 1 \in 1..2 /\ 2 \in 1..2 /\ 1 # 2
  OBVIOUS
<1>6. CASE s = <<1, 2>>
  <2>1. path[1] = "polymarket" /\ path[2] = "kalshi"
    BY <1>6
  <2>2. EstimateTotalFee(path[1], a) = f(a) + Gas /\ EstimateTotalFee(path[2], b) = g(b)
    <3> HIDE DEF a, b
    <3> QED BY <2>1 DEF EstimateTotalFee
  <2>3. s[1] \in {1, 3}
    BY <1>6
  <2> HIDE DEF a, b, ps
  <2>4. Settled("Cross", DefaultRate, s, ps, Ones(ps), o)
          = Dollar - Cent * (ps[1] + ps[2]) - f(ps[1]) - g(ps[2]) - Gas
    BY <1>1, <1>3, <1>5, <2>3, CrossPair
  <2> HIDE DEF f, g
  <2>5. Settled("Cross", DefaultRate, s, ps, Ones(ps), o) > 0
    BY <1>1, <1>2, <1>3, <1>4, <2>2, <2>4 DEF Dollar, Cent, Gas
  <2> QED BY <2>5 DEF ps, a, b
<1>7. CASE s = <<4, 3>>
  <2>1. path[1] = "kalshi" /\ path[2] = "polymarket"
    BY <1>7
  <2>2. EstimateTotalFee(path[1], a) = g(a) /\ EstimateTotalFee(path[2], b) = f(b) + Gas
    <3> HIDE DEF a, b
    <3> QED BY <2>1 DEF EstimateTotalFee
  <2>3. s[2] \in {1, 3} /\ 2 # 1
    BY <1>7
  <2> HIDE DEF a, b, ps
  <2>4. Settled("Cross", DefaultRate, s, ps, Ones(ps), o)
          = Dollar - Cent * (ps[1] + ps[2]) - f(ps[2]) - g(ps[1]) - Gas
    BY <1>1, <1>3, <1>5, <2>3, CrossPair
  <2> HIDE DEF f, g
  <2>5. Settled("Cross", DefaultRate, s, ps, Ones(ps), o) > 0
    BY <1>1, <1>2, <1>3, <1>4, <2>2, <2>4 DEF Dollar, Cent, Gas
  <2> QED BY <2>5 DEF ps, a, b
<1> QED BY <1>6, <1>7

\* Kalshi's legs do not know Polymarket's rate.
LEMMA KalshiKnowsNoRate ==
  ASSUME NEW k \in {"FrechetKalshi", "Temporal"}, NEW r \in Nat, NEW rr \in Nat,
         NEW ps \in [1..2 -> Price], NEW o
  PROVE  Settled(k, r, <<1, 2>>, ps, Ones(ps), o) = Settled(k, rr, <<1, 2>>, ps, Ones(ps), o)
<1> DEFINE s == <<1, 2>>
<1>1. k \in AllKinds \ Threes /\ k # "CTFMint"
  BY DEF AllKinds, Threes
<1>2. \A v : VenueAt(k, v) = "kalshi"
  BY DEF VenueAt
<1>3. \A i \in 1..2 : PartAt(k, r, s, o, i, ps[i], 1) = PartAt(k, rr, s, o, i, ps[i], 1)
  BY <1>1, <1>2, KalshiPart DEF PartAt
<1>4. /\ Settled(k, r, s, ps, Ones(ps), o)
           = PartAt(k, r, s, o, 1, ps[1], 1) + PartAt(k, r, s, o, 2, ps[2], 1) - Extra(k, 1)
      /\ Settled(k, rr, s, ps, Ones(ps), o)
           = PartAt(k, rr, s, o, 1, ps[1], 1) + PartAt(k, rr, s, o, 2, ps[2], 1) - Extra(k, 1)
  BY <1>1, SetOfTwo
<1> QED BY <1>3, <1>4

-----------------------------------------------------------------------------
(* Prices that a calculator approves pay.                                  *)

LEMMA FixedTyped ==
  ASSUME Fixed
  PROVE  kind \in AllKinds /\ rate \in 0..100 /\ rate \in Nat /\ model \in FeeModels
<1>1. kind \in AllKinds
  BY KindsAssumption DEF Fixed, AllKinds
<1>2. rate \in 0..100 /\ model \in FeeModels
  BY MoneyAssumption DEF Fixed
<1> QED BY <1>1, <1>2

LEMMA WorstIsWorst == WorstAssumed <=> Worst(kind, model)
  BY DEF WorstAssumed, Commissioned, GasOnce, Worst

\* Where legs are sized in equal contracts no venue takes a commission, and
\* the rate the step prices with is the market's, or plays no part.
LEMMA EqualAreWorst ==
  \A m : \A k \in EqualContracts : Worst(k, m)
<1> SUFFICES ASSUME NEW k \in EqualContracts, NEW m
             PROVE  ~ \E i \in 1..Quoted(k) : VenueAt(k, i) \in {"betfair", "smarkets"}
  BY DEF Worst, EqualContracts
<1> QED BY DEF EqualContracts, VenueAt

LEMMA RatesTyped ==
  \A k, r : r \in Nat => ScanRate(k, r) \in Nat /\ RecheckRate(k, r) \in Nat
  BY DEF ScanRate, RecheckRate, DefaultRate

LEMMA ClaimPays ==
  ASSUME Fixed, NEW s \in Strategies(kind), NEW ps \in [Places(kind) -> Price],
         NEW r \in {ScanRate(kind, rate), RecheckRate(kind, rate)},
         Claim(kind, r, model, ps) > 0
  PROVE  GoodSet(kind, rate, model, s, ps)
<1>1. kind \in AllKinds /\ rate \in 0..100 /\ rate \in Nat /\ model \in FeeModels
  BY FixedTyped
<1>2. r \in Nat
  BY <1>1, RatesTyped
<1> SUFFICES ASSUME (rate <= DefaultRate /\ WorstAssumed) \/ kind \in EqualContracts,
                    NEW o \in Outcomes(kind)
             PROVE  Settled(kind, rate, s, ps, Ones(ps), o) > 0
  BY WorstIsWorst DEF GoodSet
<1>3. Worst(kind, model)
  BY WorstIsWorst, EqualAreWorst
<1> DEFINE x == Settled(kind, r, s, ps, Ones(ps), o)
           y == Settled(kind, rate, s, ps, Ones(ps), o)
           c == Claim(kind, r, model, ps)
<1>4. c <= x
  BY <1>1, <1>3, ClaimIsLow
<1>5. c \in Int /\ x \in Int /\ y \in Int
  BY <1>1, <1>2, ClaimIsMoney, SettledIsMoney
<1>6. x <= y
  <2>1. CASE rate <= r
    BY <1>1, <1>2, <2>1, SetByRate
  <2>2. CASE ~ (rate <= r)
    <3>1. r = DefaultRate /\ kind \in EqualContracts
      BY <1>1, <2>2 DEF ScanRate, RecheckRate
    <3>2. kind \in {"FrechetKalshi", "Temporal"}
      BY <2>2, <3>1, <1>1, <1>2 DEF ScanRate, RecheckRate, EqualContracts
    <3>3. ps \in [1..2 -> Price] /\ s = <<1, 2>>
      BY <1>1, <3>2, OneWay DEF Places, Threes
    <3>4. x = y
      BY <1>1, <1>2, <3>2, <3>3, KalshiKnowsNoRate
    <3> QED BY <1>5, <3>4
  <2> QED BY <2>1, <2>2
<1>7. c > 0
  OBVIOUS
<1> HIDE DEF x, y, c
<1>8. y > 0
  BY <1>4, <1>5, <1>6, <1>7
<1> QED BY <1>8 DEF y

-----------------------------------------------------------------------------
(* The scan.                                                               *)

LEMMA BooksArePrices ==
  ASSUME ShapeInv
  PROVE  /\ Fixed
         /\ book \in [1..Quoted(kind) -> Price]
         /\ \A s \in Strategies(kind) : BookOf(s) \in [Places(kind) -> Price]
<1>1. Fixed /\ kind \in AllKinds
  BY FixedTyped DEF ShapeInv, Fixed
<1>2. book \in [1..Quoted(kind) -> Price]
  BY MoneyAssumption DEF ShapeInv
<1>3. ASSUME NEW s \in Strategies(kind)
      PROVE  BookOf(s) \in [Places(kind) -> Price]
  <2>1. CASE kind = "Cross"
    <3>1. s \in {<<1, 2>>, <<3, 4>>} /\ Quoted(kind) = 4 /\ Places(kind) = 1..2
      BY <2>1 DEF Strategies, Quoted, Places, Threes
    <3> QED BY <1>2, <3>1 DEF BookOf
  <2>2. CASE kind # "Cross"
    <3>1. s = [i \in 1..Quoted(kind) |-> i] /\ Places(kind) = 1..Quoted(kind)
      BY <2>2 DEF Strategies, Quoted, Places, Threes
    <3> QED BY <1>2, <3>1 DEF BookOf
  <2> QED BY <2>1, <2>2
<1> QED BY <1>1, <1>2, <1>3

LEMMA HintPays ==
  ASSUME ShapeInv, kind = "Cross", NEW s \in Strategies(kind), NEW ps \in [1..2 -> Price],
         NEW h \in PathHints(s, ps)
  PROVE  h \in Paths /\ GoodSet(kind, rate, model, h.side, h.prices)
<1> DEFINE V == {"polymarket", "kalshi"}
           yes == [v \in V |->
                IF v = "kalshi" THEN book[4] ELSE IF s[1] = 1 THEN ps[1] ELSE 100 - ps[1]]
           no == [v \in V |->
                IF v = "kalshi" THEN book[2] ELSE IF s[1] = 3 THEN ps[1] ELSE 100 - ps[1]]
           Hint(path) == IF path[1] = "polymarket"
                    THEN [side |-> <<1, 2>>, prices |-> <<yes["polymarket"], no["kalshi"]>>]
                    ELSE [side |-> <<4, 3>>, prices |-> <<yes["kalshi"], no["polymarket"]>>]
<1>1. PICK path \in LowestFeePaths(V, yes, no) : h = Hint(path)
  BY DEF PathHints
<1>2. /\ path \in V \X V /\ path[1] # path[2]
      /\ PathNet(yes, no, path) > 0
  BY <1>1 DEF LowestFeePaths
<1>3. book[2] \in Price /\ book[4] \in Price /\ ps[1] \in Price
  BY BooksArePrices DEF Quoted
<1>4. 100 - ps[1] \in Price
  BY <1>3 DEF Price
<1>5. \A v \in V : yes[v] \in Price /\ no[v] \in Price
  BY <1>3, <1>4
<1>6. path \in {<<"polymarket", "kalshi">>, <<"kalshi", "polymarket">>}
  BY <1>2
<1> DEFINE t == IF path = <<"polymarket", "kalshi">> THEN <<1, 2>> ELSE <<4, 3>>
           qs == <<yes[path[1]], no[path[2]]>>
<1>7. h = [side |-> t, prices |-> qs]
  <2> HIDE DEF yes, no
  <2>1. CASE path = <<"polymarket", "kalshi">>
    <3>1. path[1] = "polymarket" /\ path[2] = "kalshi"
      BY <2>1
    <3> QED BY <1>1, <2>1, <3>1
  <2>2. CASE path = <<"kalshi", "polymarket">>
    <3>1. path[1] = "kalshi" /\ path[2] = "polymarket" /\ path # <<"polymarket", "kalshi">>
      BY <2>2
    <3> QED BY <1>1, <2>2, <3>1
  <2> QED BY <1>6, <2>1, <2>2
<1>8. yes[path[1]] \in Price /\ no[path[2]] \in Price
  BY <1>2, <1>5
<1> HIDE DEF yes, no
<1>9. t \in {<<1, 2>>, <<4, 3>>}
      /\ path = (IF t = <<1, 2>> THEN <<"polymarket", "kalshi">> ELSE <<"kalshi", "polymarket">>)
  BY <1>6
<1>10. h \in Paths
  <2>1. t \in Sides("Cross")
    BY <1>9 DEF Sides, Strategies
  <2>2. qs \in [1..2 -> Price]
    BY <1>8
  <2> QED BY <1>7, <2>1, <2>2 DEF Paths
<1>11. \A o \in Outcomes("Cross") : Settled("Cross", DefaultRate, t, qs, Ones(qs), o) > 0
  <2> HIDE DEF t
  <2> QED BY <1>2, <1>8, <1>9, PathPays
<1>12. ASSUME rate <= DefaultRate, NEW o \in Outcomes("Cross")
       PROVE  Settled("Cross", rate, t, qs, Ones(qs), o) > 0
  <2>1. rate \in Nat /\ DefaultRate \in Nat /\ "Cross" \in AllKinds
    BY FixedTyped, BooksArePrices DEF DefaultRate, AllKinds
  <2>2. qs \in [Places("Cross") -> Price]
    BY <1>8 DEF Places, Threes
  <2> HIDE DEF t, qs
  <2> DEFINE x == Settled("Cross", DefaultRate, t, qs, Ones(qs), o)
             y == Settled("Cross", rate, t, qs, Ones(qs), o)
  <2>3. x <= y
    BY <1>12, <2>1, <2>2, SetByRate
  <2>4. x \in Int /\ y \in Int
    BY <2>1, <2>2, SettledIsMoney
  <2>5. x > 0
    BY <1>11
  <2> HIDE DEF x, y
  <2>6. y > 0
    BY <2>3, <2>4, <2>5
  <2> QED BY <2>6 DEF y
<1>13. GoodSet("Cross", rate, model, t, qs)
  BY <1>12 DEF GoodSet, EqualContracts
<1> QED BY <1>7, <1>10, <1>13

\* The rate of a market that is dearer than the calculator assumed does not
\* reach a NegRisk, whose scan knows it.
LEMMA CarriedPays ==
  ASSUME ShapeInv, NEW s \in Strategies(kind), NEW ps \in [Places(kind) -> Price],
         GoodSet(kind, rate, model, s, ps)
  PROVE  /\ Carried(kind, ps) \in [Places(kind) -> Price]
         /\ GoodSet(kind, rate, model, s, Carried(kind, ps))
<1>1. CASE kind = "NegRisk"
  <2> DEFINE q == HighToLow(ps)
  <2>1. ps \in [1..3 -> Price] /\ Places(kind) = 1..3 /\ Carried(kind, ps) = q
    BY <1>1 DEF Places, Threes, Carried
  <2>2. rate \in Nat
    BY BooksArePrices, FixedTyped
  <2>3. 1 \in Outcomes("NegRisk")
    BY DEF Outcomes, Quoted, Implications
  <2>4. q \in [1..3 -> Price]
        /\ \A o \in Outcomes("NegRisk") :
             Settled("NegRisk", rate, s, q, Ones(q), o) = Settled("NegRisk", rate, s, ps, Ones(ps), o)
    BY <2>1, <2>2, <2>3, SortedPaysTheSame
  <2> QED BY <1>1, <2>1, <2>4 DEF GoodSet
<1>2. CASE kind # "NegRisk"
  BY <1>2 DEF Carried
<1> QED BY <1>1, <1>2

LEMMA FoundKeeps ==
  ASSUME IInv, pc = "scan", NEW s \in Strategies(kind), NEW ps \in [Places(kind) -> Price],
         Found(s, ps, ScanRate(kind, rate)),
         UNCHANGED <<kind, rate, model, book, legs, paid, moves>>
  PROVE  IInv'
<1> DEFINE r == ScanRate(kind, rate)
           c == Claim(kind, r, model, ps)
<1>1. ShapeInv /\ Fixed /\ kind \in AllKinds /\ rate \in Nat /\ model \in FeeModels
  BY BooksArePrices, FixedTyped DEF IInv
<1>2. PICK h \in Hints(s, ps) :
        opp' = [side |-> s, prices |-> Carried(kind, ps), claim |-> c,
                rate |-> r, basis |-> ps, path |-> h]
  BY DEF Found
<1>3. c >= MinClaim /\ pc' = "found"
  BY DEF Found
<1>4. c \in Nat \ {0} /\ c > 0
  <2>1. c \in Int
    BY <1>1, RatesTyped, ClaimIsMoney
  <2> QED BY <1>3, <2>1, MoneyAssumption
<1>5. GoodSet(kind, rate, model, s, ps)
  BY <1>1, <1>4, ClaimPays
<1>6. /\ Carried(kind, ps) \in [Places(kind) -> Price]
      /\ GoodSet(kind, rate, model, s, Carried(kind, ps))
  BY <1>1, <1>5, CarriedPays
<1>7. h = NoHint \/ (kind = "Cross" /\ h \in Paths /\ GoodSet(kind, rate, model, h.side, h.prices))
  <2>1. CASE kind = "Cross" /\ PathHints(s, ps) # {}
    <3>1. h \in PathHints(s, ps) /\ ps \in [1..2 -> Price]
      BY <2>1 DEF Hints, Places, Threes
    <3> QED BY <1>1, <2>1, <3>1, HintPays
  <2>2. CASE ~ (kind = "Cross" /\ PathHints(s, ps) # {})
    BY <2>2 DEF Hints
  <2> QED BY <2>1, <2>2
<1> HIDE DEF c, r
<1>8. opp' \in Opps(kind, rate)
  <2>1. r \in {ScanRate(kind, rate), RecheckRate(kind, rate)}
    BY DEF r
  <2>2. h \in {NoHint} \cup (IF kind = "Cross" THEN Paths ELSE {})
    BY <1>7
  <2> QED BY <1>2, <1>4, <1>6, <2>1, <2>2 DEF Opps
<1>9. ShapeInv'
  BY <1>1, <1>3, <1>8 DEF ShapeInv
<1>10. ClaimInv'
  BY <1>2 DEF ClaimInv, c
<1>11. RouteInv'
  BY <1>2, <1>6, <1>7 DEF RouteInv
<1>12. LegsInv'
  BY DEF IInv, LegsInv, Affords, Marketable
<1> QED BY <1>9, <1>10, <1>11, <1>12 DEF IInv

LEMMA ScanKeeps == IInv /\ Scan => IInv'
<1> SUFFICES ASSUME IInv, Scan PROVE IInv'
  OBVIOUS
<1>1. PICK s \in Strategies(kind) : Found(s, BookOf(s), ScanRate(kind, rate))
  BY DEF Scan
<1>2. BookOf(s) \in [Places(kind) -> Price]
  BY BooksArePrices DEF IInv
<1> QED BY <1>1, <1>2, FoundKeeps DEF Scan

LEMMA ScanUnrefinedKeeps == IInv /\ ScanUnrefined => IInv'
<1> SUFFICES ASSUME IInv, ScanUnrefined PROVE IInv'
  OBVIOUS
<1>1. PICK mid \in [1..2 -> Prices] : Found(<<1, 2>>, mid, ScanRate(kind, rate))
  BY DEF ScanUnrefined
<1>2. kind \in {"Binary", "CTFMerge", "CTFMint"}
  BY DEF ScanUnrefined
<1>3. mid \in [Places(kind) -> Price] /\ <<1, 2>> \in Strategies(kind)
  BY <1>2, OneWay, MoneyAssumption DEF Places, Threes, AllKinds
<1> QED BY <1>1, <1>3, FoundKeeps DEF ScanUnrefined

-----------------------------------------------------------------------------
(* The revalidation.                                                       *)

LEMMA TotalsOfPrices ==
  ASSUME NEW k \in AllKinds, NEW ps \in [Places(k) -> Price]
  PROVE  Total(ps) \in Int /\ Total(ps) >= 2
<1>1. CASE k \in Threes
  <2>1. ps \in [1..3 -> Price]
    BY <1>1, TwosAndThrees
  <2>2. ps[1] \in 1..99 /\ ps[2] \in 1..99 /\ ps[3] \in 1..99
    BY <2>1 DEF Price
  <2>3. Total(ps) = ps[1] + ps[2] + ps[3]
    BY <2>1, TripleTotals, Single
  <2>4. \A a, b, c \in 1..99 : a + b + c \in Int /\ a + b + c >= 2
    OBVIOUS
  <2> QED BY ZenonT(40), <2>2, <2>3, <2>4
<1>2. CASE k \notin Threes
  <2>1. ps \in [1..2 -> Price]
    BY <1>2, TwosAndThrees
  <2>2. ps[1] \in 1..99 /\ ps[2] \in 1..99
    BY <2>1 DEF Price
  <2>3. ps[1] \in Int /\ ps[2] \in Int /\ DOMAIN ps = 1..2
    BY <2>1, <2>2
  <2>4. Total(ps) = ps[1] + ps[2]
    BY <2>3, TotalTwo
  <2>5. \A a, b \in 1..99 : a + b \in Int /\ a + b >= 2
    OBVIOUS
  <2> QED BY <2>2, <2>4, <2>5
<1> QED BY <1>1, <1>2, SMTT(30)

\* What must be left of the profit is more than nothing.
LEMMA ThresholdIsPositive ==
  ASSUME ShapeInv, pc = "found"
  PROVE  Threshold \in Nat \ {0}
<1> DEFINE cost == IF kind = "CTFMint" THEN Dollar ELSE Cent * Total(opp.basis)
           Conceded == IF Len(opp.side) = 3 /\ kind # "BackAll" THEN 5 ELSE 0
           claim == opp.claim
<1>1. kind \in AllKinds /\ opp \in Opps(kind, rate)
  BY BooksArePrices, FixedTyped DEF ShapeInv
<1>2. opp.basis \in [Places(kind) -> Price] /\ claim \in Nat \ {0}
  BY <1>1 DEF Opps
<1>3. cost \in Int /\ cost >= 20000
  <2>1. Total(opp.basis) \in Int /\ Total(opp.basis) >= 2
    BY <1>1, <1>2, TotalsOfPrices
  <2> QED BY <2>1 DEF Dollar, Cent
<1>4. Conceded \in {0, 5}
  OBVIOUS
<1>5. Threshold = CASE 100 * claim >= 5 * cost -> (claim * (90 - Conceded)) \div 100
                    [] 100 * claim \in 2 * cost .. 5 * cost - 1 -> (claim * (80 - Conceded)) \div 100
                    [] OTHER -> Floor1
  BY DEF Threshold
<1> HIDE DEF cost, Conceded, claim
<1>6. ASSUME NEW n \in {75, 80, 85, 90}, claim >= 400
      PROVE  (claim * n) \div 100 \in Nat \ {0}
  <2>1. claim * n \in Int /\ claim * n >= 30000
    BY <1>2, <1>6
  <2> DEFINE x == claim * n
  <2> HIDE DEF x
  <2>2. x \div 100 \in Nat \ {0}
    BY <2>1 DEF x
  <2> QED BY <2>2 DEF x
<1>7. CASE 100 * claim >= 5 * cost
  <2>1. claim >= 400
    BY <1>2, <1>3, <1>7
  <2>2. 90 - Conceded \in {75, 80, 85, 90}
    BY <1>4
  <2>3. (claim * (90 - Conceded)) \div 100 \in Nat \ {0}
    BY <1>6, <2>1, <2>2
  <2>4. 100 * claim \notin 2 * cost .. 5 * cost - 1
    BY <1>2, <1>3, <1>7
  <2>5. Threshold = (claim * (90 - Conceded)) \div 100
    BY <1>5, <1>7, <2>4
  <2> QED BY <2>3, <2>5
<1>8. CASE ~ (100 * claim >= 5 * cost) /\ 100 * claim \in 2 * cost .. 5 * cost - 1
  <2>1. claim >= 400
    BY <1>2, <1>3, <1>8
  <2>2. 80 - Conceded \in {75, 80, 85, 90}
    BY <1>4
  <2>3. (claim * (80 - Conceded)) \div 100 \in Nat \ {0}
    BY <1>6, <2>1, <2>2
  <2>5. Threshold = (claim * (80 - Conceded)) \div 100
    BY <1>5, <1>8
  <2> QED BY <2>3, <2>5
<1>9. CASE ~ (100 * claim >= 5 * cost) /\ ~ (100 * claim \in 2 * cost .. 5 * cost - 1)
  BY <1>5, <1>9 DEF Floor1
<1> QED BY <1>7, <1>8, <1>9

\* What is carried on pays, the fresh prices or the scan's.
LEMMA ApproveKeeps ==
  ASSUME IInv, pc = "found", NEW s \in Strategies(kind), NEW ps \in [Places(kind) -> Price],
         NEW carried \in [Places(kind) -> Price],
         carried = ps \/ (s = opp.side /\ carried = opp.prices),
         Approve(s, ps, carried),
         UNCHANGED <<kind, rate, model, book, legs, paid, moves>>
  PROVE  IInv'
<1> DEFINE r == RecheckRate(kind, rate)
           c == Claim(kind, r, model, ps)
<1>1. ShapeInv /\ Fixed /\ kind \in AllKinds /\ rate \in Nat /\ model \in FeeModels
  BY BooksArePrices, FixedTyped DEF IInv
<1>2. opp \in Opps(kind, rate)
  BY <1>1 DEF ShapeInv
<1>3. CASE c < Threshold
  <2>1. pc' = "scan" /\ opp' = NoOpp
    BY <1>3 DEF Approve
  <2> QED BY <2>1 DEF IInv, ShapeInv, ClaimInv, RouteInv, LegsInv, Affords, Marketable
<1>4. CASE ~ (c < Threshold)
  <2>1. pc' = "approved"
        /\ opp' = [opp EXCEPT !.side = s, !.prices = carried, !.claim = c,
                              !.basis = ps, !.rate = r]
    BY <1>4 DEF Approve
  <2>2. c \in Nat \ {0} /\ c > 0
    <3>1. c \in Int
      BY <1>1, RatesTyped, ClaimIsMoney
    <3>2. Threshold \in Nat \ {0}
      BY <1>1, ThresholdIsPositive
    <3> HIDE DEF c
    <3> QED BY <1>4, <3>1, <3>2
  <2>3. GoodSet(kind, rate, model, s, ps)
    BY <1>1, <2>2, ClaimPays
  <2>4. GoodSet(kind, rate, model, s, carried)
    BY <2>3 DEF IInv, RouteInv
  <2> HIDE DEF c, r
  <2>5. /\ opp'.side = s /\ opp'.prices = carried /\ opp'.claim = c
        /\ opp'.basis = ps /\ opp'.rate = r /\ opp'.path = opp.path
        /\ opp' \in Opps(kind, rate)
    <3>1. r \in {ScanRate(kind, rate), RecheckRate(kind, rate)}
      BY DEF r
    <3> QED BY <1>2, <2>1, <2>2, <3>1 DEF Opps
  <2>6. ShapeInv'
    BY <1>1, <2>1, <2>5 DEF ShapeInv
  <2>7. ClaimInv'
    BY <2>5 DEF ClaimInv, c
  <2>8. RouteInv'
    BY <2>4, <2>5 DEF IInv, RouteInv
  <2>9. LegsInv'
    BY DEF IInv, LegsInv, Affords, Marketable
  <2> QED BY <2>6, <2>7, <2>8, <2>9 DEF IInv
<1> QED BY <1>3, <1>4

LEMMA FoundOpp ==
  ASSUME ShapeInv, pc = "found"
  PROVE  /\ opp.side \in Strategies(kind) /\ opp.prices \in [Places(kind) -> Price]
         /\ \A s \in Strategies(kind) : BookOf(s) \in [Places(kind) -> Price]
<1>1. opp \in Opps(kind, rate)
  BY DEF ShapeInv
<1> QED BY <1>1, BooksArePrices DEF Opps

LEMMA RevalidateAndRepriceKeeps == IInv /\ RevalidateAndReprice => IInv'
<1> SUFFICES ASSUME IInv, RevalidateAndReprice PROVE IInv'
  OBVIOUS
<1>1. PICK s \in Strategies(kind) : Approve(s, BookOf(s), BookOf(s))
  BY DEF RevalidateAndReprice
<1>2. BookOf(s) \in [Places(kind) -> Price] /\ pc = "found"
  BY FoundOpp DEF IInv, RevalidateAndReprice
<1> QED BY <1>1, <1>2, ApproveKeeps DEF RevalidateAndReprice

LEMMA RevalidateOnlyKeeps == IInv /\ RevalidateOnly => IInv'
<1> SUFFICES ASSUME IInv, RevalidateOnly PROVE IInv'
  OBVIOUS
<1>1. Approve(opp.side, BookOf(opp.side), opp.prices) /\ pc = "found"
  BY DEF RevalidateOnly
<1>2. /\ opp.side \in Strategies(kind) /\ opp.prices \in [Places(kind) -> Price]
      /\ BookOf(opp.side) \in [Places(kind) -> Price]
  BY <1>1, FoundOpp DEF IInv
<1> QED BY <1>1, <1>2, ApproveKeeps DEF RevalidateOnly

LEMMA RevalidateTriangularKeeps == IInv /\ RevalidateTriangular => IInv'
<1> SUFFICES ASSUME IInv, RevalidateTriangular PROVE IInv'
  OBVIOUS
<1>1. PICK fresh \in SUBSET Asked :
        LET ps == [i \in 1..2 |-> IF i \in fresh THEN book[i] ELSE opp.prices[i]]
        IN Approve(opp.side, ps, ps)
  BY DEF RevalidateTriangular
<1> DEFINE ps == [i \in 1..2 |-> IF i \in fresh THEN book[i] ELSE opp.prices[i]]
<1>2. kind = "Triangular" /\ pc = "found" /\ ShapeInv
  BY DEF RevalidateTriangular, IInv
<1>3. Places(kind) = 1..2 /\ Quoted(kind) = 2
  BY <1>2 DEF Places, Threes, Quoted
<1>4. opp.side \in Strategies(kind) /\ opp.prices \in [1..2 -> Price] /\ book \in [1..2 -> Price]
  BY <1>2, <1>3, FoundOpp, BooksArePrices
<1>5. ps \in [Places(kind) -> Price]
  BY <1>3, <1>4
<1>6. Approve(opp.side, ps, ps)
  BY <1>1
<1> HIDE DEF ps
<1> QED BY <1>2, <1>4, <1>5, <1>6, ApproveKeeps DEF RevalidateTriangular

LEMMA PassUncheckedKeeps == IInv /\ PassUnchecked => IInv'
  BY DEF IInv, ShapeInv, ClaimInv, RouteInv, LegsInv, Affords, Marketable, PassUnchecked

-----------------------------------------------------------------------------
(* The legs.                                                               *)

\* What dollars buy of one leg costs no more than they are, and what they buy
\* of two legs in equal numbers no more than they are together.
LEMMA QuantityFits ==
  ASSUME NEW v, NEW size \in Nat \ {0}, NEW p \in Price
  PROVE  /\ Quantity(v, size, p) \in Nat
         /\ Quantity(v, size, p) * (IF v \in Staked THEN 100 ELSE p) <= 100 * size
<1> DEFINE d == 100 * size
           n == d \div p
<1>1. p \in Nat \ {0} /\ p <= 99 /\ d \in Nat /\ 100 <= d
  BY DEF Price
<1>2. DollarSizeToContracts(size, p) = n
  BY DEF DollarSizeToContracts
<1> HIDE DEF d
<1>3. \A k \in Nat \ {0} : d \div k \in Nat /\ k * (d \div k) <= d /\ d < k * (d \div k) + k
  BY <1>1
<1>4. n \in Nat /\ p * n <= d /\ d < p * n + p
  BY <1>1, <1>3
<1> HIDE DEF n
<1>5. n # 0
  BY <1>1, <1>4
<1>6. n * p = p * n
  BY <1>1, <1>4
<1>7. CASE v \in Staked
  <2>1. Quantity(v, size, p) = size
    BY <1>7 DEF Quantity, Staked
  <2> QED BY <1>7, <2>1
<1>8. CASE v \notin Staked
  <2>1. Larger(1, n) = n
    BY <1>4, <1>5 DEF Larger
  <2>2. Quantity(v, size, p) = n
    BY <1>2, <1>8, <2>1 DEF Quantity
  <2>3. n * p <= d
    BY <1>4, <1>6
  <2> QED BY <1>4, <1>8, <2>2, <2>3 DEF d
<1> QED BY <1>7, <1>8

LEMMA EqualOfTwo ==
  \A d, p, q \in Nat \ {0} :
    d \div (p + q) \in Nat /\ (d \div (p + q)) * p + (d \div (p + q)) * q <= d
<1> SUFFICES ASSUME NEW d \in Nat \ {0}, NEW p \in Nat \ {0}, NEW q \in Nat \ {0}
             PROVE  d \div (p + q) \in Nat /\ (d \div (p + q)) * p + (d \div (p + q)) * q <= d
  OBVIOUS
<1> DEFINE a == d \div (p + q)
<1>1. \A n \in Nat \ {0} : d \div n \in Nat /\ n * (d \div n) <= d
  OBVIOUS
<1>2. p + q \in Nat \ {0}
  OBVIOUS
<1>3. a \in Nat /\ (p + q) * a <= d
  BY <1>1, <1>2
<1> HIDE DEF a
<1>4. a * p + a * q = (p + q) * a
  BY <1>3
<1>5. a * p + a * q <= d
  BY <1>3, <1>4
<1> QED BY <1>3, <1>5 DEF a

LEMMA TotalOfTwo ==
  ASSUME NEW q \in [1..2 -> Nat], NEW ps \in [1..2 -> Price]
  PROVE  Total([i \in DOMAIN q |-> q[i] * ps[i]]) = q[1] * ps[1] + q[2] * ps[2]
<1> DEFINE f == [i \in DOMAIN q |-> q[i] * ps[i]]
<1>1. DOMAIN f = 1..2 /\ f[1] = q[1] * ps[1] /\ f[2] = q[2] * ps[2]
  OBVIOUS
<1>2. q[1] \in Int /\ q[2] \in Int /\ ps[1] \in Int /\ ps[2] \in Int
  BY DEF Price
<1>3. f[1] \in Int /\ f[2] \in Int
  BY <1>1, <1>2
<1> HIDE DEF f
<1>4. Total(f) = f[1] + f[2]
  BY <1>1, <1>3, TotalTwo
<1> QED BY <1>1, <1>4 DEF f

\* The quantities are whole, equal where they are meant to be, and no leg costs
\* more than the size (_dollar_size_to_contracts, _build_legs).
LEMMA QuantitiesFit ==
  ASSUME kind \in AllKinds, NEW size \in Nat \ {0}, NEW side, NEW ps \in [Places(kind) -> Price]
  PROVE  LET q == Quantities(size, side, ps)
         IN  /\ q \in [Places(kind) -> Nat]
             /\ kind \in EqualContracts => \A i \in Places(kind) : q[i] = q[1]
             /\ Fits(side, ps, q, size)
<1> DEFINE q == Quantities(size, side, ps)
           d == 100 * size
<1>1. d \in Nat \ {0}
  OBVIOUS
<1>2. \A p \in Price : p \in Nat \ {0}
  BY DEF Price
<1> HIDE DEF d
<1>3. CASE kind = "CTFMint"
  <2>1. Places(kind) = 1..2 /\ q = [i \in 1..2 |-> size]
    BY <1>3 DEF Quantities, Places, Threes
  <2> HIDE DEF q
  <2>2. Fits(side, ps, q, size)
    BY <1>3, <2>1 DEF Fits
  <2> QED BY <2>1, <2>2 DEF q
<1>4. CASE kind \in EqualContracts \ {"CTFMint"}
  <2>1. Places(kind) = 1..2 /\ ps \in [1..2 -> Price]
    BY <1>4 DEF Places, Threes, EqualContracts
  <2>2. ps[1] \in Nat \ {0} /\ ps[2] \in Nat \ {0} /\ DOMAIN ps = 1..2
    BY <1>2, <2>1
  <2>3. Total(ps) = ps[1] + ps[2]
    BY <2>2, TotalTwo
  <2> DEFINE n == d \div (ps[1] + ps[2])
  <2>4. q = [i \in 1..2 |-> n]
    <3>1. q = [i \in DOMAIN ps |-> (100 * size) \div Total(ps)]
      BY <1>4 DEF Quantities
    <3> QED BY <2>2, <2>3, <3>1 DEF d
  <2>5. n \in Nat /\ n * ps[1] + n * ps[2] <= d
    BY <1>1, <2>2, EqualOfTwo
  <2> HIDE DEF n, q
  <2>6. q \in [1..2 -> Nat] /\ q[1] = n /\ q[2] = n
    BY <2>4, <2>5
  <2>7. Total([i \in DOMAIN q |-> q[i] * ps[i]]) = n * ps[1] + n * ps[2]
    BY <2>1, <2>6, TotalOfTwo
  <2>8. Fits(side, ps, q, size)
    BY <1>4, <2>5, <2>7 DEF Fits, d
  <2>9. \A i \in Places(kind) : q[i] = q[1]
    BY <2>1, <2>4
  <2> QED BY <2>1, <2>6, <2>8, <2>9 DEF q
<1>5. CASE kind \notin EqualContracts
  <2> DEFINE v(i) == VenueAt(kind, side[i])
  <2>1. q = [i \in Places(kind) |-> Quantity(v(i), size, ps[i])]
    BY <1>5 DEF Quantities, EqualContracts
  <2> HIDE DEF q, v
  <2>2. ASSUME NEW i \in Places(kind)
        PROVE  q[i] \in Nat /\ q[i] * (IF v(i) \in Staked THEN 100 ELSE ps[i]) <= 100 * size
    BY <2>1, QuantityFits
  <2>3. q \in [Places(kind) -> Nat] /\ DOMAIN q = Places(kind)
    BY <2>1, <2>2
  <2>4. Fits(side, ps, q, size)
    BY <1>5, <2>2, <2>3 DEF Fits, EqualContracts, v
  <2> QED BY <1>5, <2>3, <2>4 DEF q
<1> QED BY <1>3, <1>4, <1>5

\* A Cross goes by its fee path if there is one, everything else as approved.
LEMMA RouteIsGood ==
  ASSUME IInv, pc = "approved"
  PROVE  LET r == IF kind = "Cross" THEN Routed ELSE [side |-> opp.side, prices |-> opp.prices]
         IN  /\ r.side \in Sides(kind) /\ r.prices \in [Places(kind) -> Price]
             /\ GoodSet(kind, rate, model, r.side, r.prices)
<1>1. opp \in Opps(kind, rate)
  BY DEF IInv, ShapeInv
<1>2. /\ opp.side \in Sides(kind) /\ opp.prices \in [Places(kind) -> Price]
      /\ opp.path = NoHint \/ (kind = "Cross" /\ opp.path \in Paths)
  BY <1>1 DEF Opps, Sides
<1>3. /\ GoodSet(kind, rate, model, opp.side, opp.prices)
      /\ opp.path # NoHint => GoodSet(kind, rate, model, opp.path.side, opp.path.prices)
  BY DEF IInv, RouteInv
<1>4. CASE kind = "Cross" /\ opp.path # NoHint
  <2>1. opp.path.side \in Sides(kind) /\ opp.path.prices \in [Places(kind) -> Price]
    BY <1>2, <1>4 DEF Paths, Places, Threes
  <2>2. Routed = opp.path
    BY <1>4 DEF Routed
  <2> QED BY <1>3, <1>4, <2>1, <2>2
<1>5. CASE ~ (kind = "Cross" /\ opp.path # NoHint)
  BY <1>2, <1>3, <1>5 DEF Routed
<1> QED BY <1>4, <1>5

LEMMA PlacesAreFirst ==
  ASSUME NEW k \in AllKinds, NEW S, NEW ps \in [Places(k) -> S]
  PROVE  ps \in Seq(S) /\ Len(ps) \in {2, 3} /\ Places(k) = 1..Len(ps)
<1>1. CASE k \in Threes
  <2>1. Places(k) = 1..3
    BY <1>1, TwosAndThrees DEF Places
  <2>2. ps \in [1..3 -> S]
    BY <2>1
  <2>3. ps \in Seq(S) /\ Len(ps) = 3
    BY <2>2, ListsOfPrices, 3 \in Nat
  <2> QED BY <2>1, <2>3
<1>2. CASE k \notin Threes
  <2>1. Places(k) = 1..2
    BY <1>2, TwosAndThrees DEF Places
  <2>2. ps \in [1..2 -> S]
    BY <2>1
  <2>3. ps \in Seq(S) /\ Len(ps) = 2
    BY <2>2, ListsOfPrices, 2 \in Nat
  <2> QED BY <2>1, <2>3
<1> QED BY <1>1, <1>2

LEMMA BuildLegsKeeps == IInv /\ BuildLegs => IInv'
<1> SUFFICES ASSUME IInv, BuildLegs PROVE IInv'
  OBVIOUS
<1> DEFINE r == IF kind = "Cross" THEN Routed ELSE [side |-> opp.side, prices |-> opp.prices]
           q(size) == Quantities(size, r.side, r.prices)
<1>1. PICK size \in Sizes :
        IF TooSmall(size) \/ \E i \in DOMAIN q(size) : q(size)[i] = 0
        THEN pc' = "broken" /\ UNCHANGED legs
        ELSE /\ pc' = "placing"
             /\ legs' = [side |-> r.side, limit |-> r.prices, qty |-> q(size)]
  BY DEF BuildLegs
<1>2. pc = "approved" /\ UNCHANGED <<kind, rate, model, book, opp, paid, moves>>
  BY DEF BuildLegs
<1>3. /\ r.side \in Sides(kind) /\ r.prices \in [Places(kind) -> Price]
      /\ GoodSet(kind, rate, model, r.side, r.prices)
  BY <1>2, RouteIsGood
<1>4. kind \in AllKinds /\ size \in Nat \ {0}
  BY FixedTyped, BooksArePrices, MoneyAssumption DEF IInv
<1>5. CASE TooSmall(size) \/ \E i \in DOMAIN q(size) : q(size)[i] = 0
  <2>1. pc' = "broken" /\ legs' = legs
    BY <1>1, <1>5
  <2> QED BY <1>2, <2>1 DEF IInv, ShapeInv, ClaimInv, RouteInv, LegsInv, Affords, Marketable
<1>6. CASE ~ (TooSmall(size) \/ \E i \in DOMAIN q(size) : q(size)[i] = 0)
  <2> DEFINE ql == q(size)
             ps == r.prices
  <2>1. pc' = "placing" /\ legs' = [side |-> r.side, limit |-> ps, qty |-> ql]
    BY <1>1, <1>6
  <2>2. /\ ql \in [Places(kind) -> Nat]
        /\ kind \in EqualContracts => \A i \in Places(kind) : ql[i] = ql[1]
        /\ Fits(r.side, ps, ql, size)
    BY <1>3, <1>4, QuantitiesFit
  <2>3. ql \in [Places(kind) -> Nat \ {0}]
    <3> HIDE DEF r
    <3>1. \A i \in DOMAIN ql : ql[i] # 0
      BY <1>6
    <3> HIDE DEF ql
    <3> QED BY <2>2, <3>1
  <2>4. Len(ps) \in {2, 3} /\ DOMAIN ql = Places(kind)
    <3>1. ps \in [Places(kind) -> Price]
      BY <1>3
    <3> HIDE DEF ql, ps, r
    <3> QED BY <1>4, <2>2, <3>1, PlacesAreFirst
  <2> HIDE DEF ql, ps, r
  <2>5. legs' \in Orders(kind) /\ legs'.limit = ps /\ legs'.qty = ql /\ legs'.side = r.side
    BY <1>3, <2>1, <2>3 DEF Orders, ps
  <2>6. legs' # NoLegs
    <3>1. NoLegs.limit = <<>> /\ Len(<<>>) = 0
      BY DEF NoLegs
    <3>2. Len(ps) # 0
      BY <2>4
    <3> QED BY <2>5, <3>1, <3>2
  <2>7. paid = <<>> /\ paid' = paid /\ Len(paid) = 0
    BY <1>2 DEF IInv, ShapeInv
  <2>8. ShapeInv'
    <3>1. Len(paid') = 0 /\ paid' = <<>> /\ paid' \in Seq(Price)
      BY <1>2, <2>7 DEF IInv, ShapeInv
    <3>2. 0 < Len(ps) /\ 0 <= Len(ps)
      <4>1. \A n \in {2, 3} : 0 < n /\ 0 <= n
        OBVIOUS
      <4> QED BY <2>4, <4>1
    <3>3. Len(paid') < Len(legs'.limit) /\ Len(paid') <= Len(legs'.limit)
      BY <2>5, <3>1, <3>2
    <3>4. pc' = "placing"
      BY <2>1
    <3> QED BY <1>2, <2>5, <2>6, <3>1, <3>3, <3>4 DEF IInv, ShapeInv
  <2>9. ClaimInv' /\ RouteInv'
    BY <1>2, <2>1 DEF IInv, ClaimInv, RouteInv
  <2>10. LegsInv'
    <3>1. GoodSet(kind, rate, model, legs'.side, legs'.limit)
      BY <1>3, <2>5 DEF ps
    <3>2. DOMAIN paid' = {}
      BY <2>7
    <3>3. kind \in EqualContracts => \A i \in DOMAIN legs'.qty : legs'.qty[i] = legs'.qty[1]
      BY <2>2, <2>4, <2>5
    <3>4. Affords(size)'
      BY <1>2, <2>2, <2>5 DEF Affords, Fits
    <3> QED BY <1>2, <3>1, <3>2, <3>3, <3>4 DEF LegsInv
  <2> QED BY <2>8, <2>9, <2>10 DEF IInv
<1> QED BY <1>5, <1>6

LEMMA SidesAreOnTheBook ==
  ASSUME NEW k \in AllKinds, NEW s \in Sides(k)
  PROVE  /\ \A i \in Places(k) : s[i] \in 1..Quoted(k)
         /\ s \in Seq(1..4)
<1>1. CASE k = "Cross"
  <2>1. s \in {<<1, 2>>, <<3, 4>>, <<4, 3>>} /\ Places(k) = 1..2 /\ Quoted(k) = 4
    BY <1>1 DEF Sides, Strategies, Places, Threes, Quoted
  <2>2. <<1, 2>> \in [1..2 -> 1..4] /\ <<3, 4>> \in [1..2 -> 1..4] /\ <<4, 3>> \in [1..2 -> 1..4]
    OBVIOUS
  <2>3. s \in [1..2 -> 1..4]
    BY <2>1, <2>2
  <2>4. s \in Seq(1..4)
    BY <2>3, ListsOfPrices, 2 \in Nat
  <2>5. \A i \in 1..2 : s[i] \in 1..4
    BY <2>3
  <2> QED BY <2>1, <2>4, <2>5
<1>2. CASE k # "Cross"
  <2>1. s = [i \in 1..Quoted(k) |-> i] /\ Places(k) = 1..Quoted(k) /\ Quoted(k) \in {2, 3}
    BY <1>2 DEF Sides, Strategies, Places, Threes, Quoted
  <2>2. s \in [1..Quoted(k) -> 1..4] /\ Quoted(k) \in Nat
    BY <2>1
  <2> HIDE DEF Quoted
  <2>3. s \in Seq(1..4)
    BY <2>2, ListsOfPrices
  <2> QED BY <2>1, <2>3
<1> QED BY <1>1, <1>2

LEMMA OrderLengths ==
  ASSUME NEW k \in AllKinds, NEW l \in Orders(k)
  PROVE  /\ l.limit \in Seq(Price) /\ l.side \in Sides(k)
         /\ Places(k) = 1..Len(l.limit) /\ Len(l.limit) \in {2, 3}
         /\ l.limit \in [Places(k) -> Price] /\ l.qty \in [Places(k) -> Nat \ {0}]
<1>1. l.limit \in [Places(k) -> Price] /\ l.side \in Sides(k) /\ l.qty \in [Places(k) -> Nat \ {0}]
  BY DEF Orders
<1> QED BY <1>1, PlacesAreFirst

LEMMA PlaceKeeps == IInv /\ Place => IInv'
<1> SUFFICES ASSUME IInv, Place PROVE IInv'
  OBVIOUS
<1> DEFINE i == Len(paid) + 1
           now == book[legs.side[i]]
<1>1. /\ pc = "placing" /\ UNCHANGED <<kind, rate, model, book, opp, legs, moves>>
      /\ IF Marketable(legs.limit[i], now)
         THEN /\ paid' = Append(paid, now)
              /\ pc' = IF i = Len(legs.limit) THEN "filled" ELSE "placing"
         ELSE pc' = "broken" /\ UNCHANGED paid
  BY DEF Place
<1>2. kind \in AllKinds /\ book \in [1..Quoted(kind) -> Price]
  BY FixedTyped, BooksArePrices DEF IInv
<1>3. legs \in Orders(kind) /\ legs # NoLegs
  BY <1>1 DEF IInv, ShapeInv
<1>4. Len(legs.limit) \in {2, 3} /\ Places(kind) = 1..Len(legs.limit) /\ legs.side \in Sides(kind)
  BY <1>2, <1>3, OrderLengths
<1>5. paid \in Seq(Price) /\ Len(paid) < Len(legs.limit) /\ Len(paid) \in Nat
  BY <1>1 DEF IInv, ShapeInv
<1>6. i \in Places(kind)
  BY <1>4, <1>5
<1>7. now \in Price
  BY <1>2, <1>4, <1>6, SidesAreOnTheBook
<1>8. CASE Marketable(legs.limit[i], now)
  <2>1. /\ paid' = Append(paid, now)
        /\ pc' = IF i = Len(legs.limit) THEN "filled" ELSE "placing"
    BY <1>1, <1>8
  <2> HIDE DEF now
  <2>2. /\ paid' \in Seq(Price) /\ Len(paid') = i /\ DOMAIN paid' = 1..i
        /\ paid'[i] = now /\ \A j \in 1..Len(paid) : paid'[j] = paid[j]
    BY <1>5, <1>7, <2>1, AppendProperties
  <2>3. ShapeInv'
    BY <1>1, <1>3, <1>4, <1>5, <2>1, <2>2 DEF IInv, ShapeInv
  <2>4. ClaimInv' /\ RouteInv'
    BY <1>1, <2>1 DEF IInv, ClaimInv, RouteInv
  <2>5. \A j \in DOMAIN paid' : Marketable(legs.limit[j], paid'[j])
    <3>1. \A j \in DOMAIN paid : Marketable(legs.limit[j], paid[j])
      BY <1>3 DEF IInv, LegsInv
    <3>2. DOMAIN paid = 1..Len(paid)
      BY <1>5, LenProperties
    <3>3. ASSUME NEW j \in 1..i
          PROVE  Marketable(legs.limit[j], paid'[j])
      <4>1. CASE j = i
        BY <1>8, <2>2, <4>1
      <4>2. CASE j # i
        <5>1. j \in 1..Len(paid)
          BY <1>5, <4>2
        <5> QED BY <2>2, <3>1, <3>2, <5>1
      <4> QED BY <4>1, <4>2
    <3> QED BY <2>2, <3>3
  <2>6. LegsInv'
    BY <1>1, <2>5 DEF IInv, LegsInv, Affords, Marketable
  <2> QED BY <2>3, <2>4, <2>6 DEF IInv
<1>9. CASE ~ Marketable(legs.limit[i], now)
  <2>1. pc' = "broken" /\ paid' = paid
    BY <1>1, <1>9
  <2> QED BY <1>1, <2>1 DEF IInv, ShapeInv, ClaimInv, RouteInv, LegsInv, Affords, Marketable
<1> QED BY <1>8, <1>9

LEMMA MoveKeeps == IInv /\ Move => IInv'
<1> SUFFICES ASSUME IInv, Move PROVE IInv'
  OBVIOUS
<1>1. PICK i \in DOMAIN book, p \in Prices : book' = [book EXCEPT ![i] = p]
  BY DEF Move
<1>2. moves < MaxMoves /\ moves' = moves + 1 /\ UNCHANGED <<kind, rate, model, pc, opp, legs, paid>>
  BY DEF Move
<1>3. book' \in [1..Quoted(kind) -> Prices]
  BY <1>1 DEF IInv, ShapeInv
<1>4. moves' \in 0..MaxMoves
  BY <1>2, MoneyAssumption DEF IInv, ShapeInv
<1> QED BY <1>2, <1>3, <1>4 DEF IInv, ShapeInv, ClaimInv, RouteInv, LegsInv, Affords, Marketable

LEMMA InitIInv == Init => IInv
<1> SUFFICES ASSUME Init PROVE IInv
  OBVIOUS
<1>1. ShapeInv
  <2>1. <<>> \in Seq(Price) /\ Len(<<>>) = 0 /\ legs.limit = <<>>
    BY EmptySeq DEF Init, NoLegs
  <2>2. 0 \in 0..MaxMoves
    BY MoneyAssumption
  <2> QED BY <2>1, <2>2 DEF Init, ShapeInv
<1> QED BY <1>1 DEF Init, IInv, ClaimInv, RouteInv, LegsInv

LEMMA NextIInv == IInv /\ [Next]_vars => IInv'
<1>1. IInv /\ UNCHANGED vars => IInv'
  BY DEF IInv, ShapeInv, ClaimInv, RouteInv, LegsInv, Affords, Marketable, vars
<1> QED BY <1>1, ScanKeeps, ScanUnrefinedKeeps, RevalidateAndRepriceKeeps, RevalidateOnlyKeeps,
           RevalidateTriangularKeeps, PassUncheckedKeeps, BuildLegsKeeps, PlaceKeeps, MoveKeeps
        DEF Next

LEMMA Invariance == Spec => []IInv
  BY InitIInv, NextIInv, PTL DEF Spec

-----------------------------------------------------------------------------
(* The properties.                                                         *)

\* Every opportunity and every set of legs is well formed, and no leg costs
\* more dollars than the executor allowed (TypeOK; executor.py:122, 2168).
THEOREM TypeCorrect == Spec => []TypeOK
<1>1. IInv => TypeOK
  <2> SUFFICES ASSUME IInv PROVE TypeOK
    OBVIOUS
  <2>1. ShapeInv /\ kind \in AllKinds
    BY FixedTyped, BooksArePrices DEF IInv
  <2>2. /\ opp.side \in Seq(1..4) /\ opp.prices \in Seq(Price)
        /\ opp.basis \in Seq(Price) /\ opp.claim \in Int
        /\ opp.path \in Routes \/ opp = NoOpp
    <3>1. CASE pc = "scan"
      <4>1. opp = NoOpp
        BY <2>1, <3>1 DEF ShapeInv
      <4> QED BY <4>1, EmptySeq DEF NoOpp
    <3>2. CASE pc # "scan"
      <4>1. opp \in Opps(kind, rate)
        BY <2>1, <3>2 DEF ShapeInv
      <4>2. /\ opp.side \in Sides(kind) /\ opp.claim \in Int
            /\ opp.prices \in [Places(kind) -> Price] /\ opp.basis \in [Places(kind) -> Price]
            /\ opp.path = NoHint \/ opp.path \in Paths
        BY <4>1 DEF Opps, Sides
      <4>3. \A ps \in [Places(kind) -> Price] : ps \in Seq(Price)
        BY ListsOfPrices, 2 \in Nat, 3 \in Nat DEF Places
      <4>4. opp.path \in Routes
        <5>1. CASE opp.path = NoHint
          BY <5>1, EmptySeq DEF NoHint, Routes
        <5>2. CASE opp.path \in Paths
          <6>1. /\ opp.path = [side |-> opp.path.side, prices |-> opp.path.prices]
                /\ opp.path.side \in Sides("Cross") /\ opp.path.prices \in [1..2 -> Price]
            BY <5>2 DEF Paths
          <6>2. opp.path.side \in Seq(1..4)
            BY <6>1, SidesAreOnTheBook DEF AllKinds
          <6>3. opp.path.prices \in Seq(Price)
            BY <6>1, ListsOfPrices, 2 \in Nat
          <6> QED BY <6>1, <6>2, <6>3 DEF Routes
        <5> QED BY <4>2, <5>1, <5>2
      <4>5. opp.side \in Seq(1..4)
        BY <2>1, <4>2, SidesAreOnTheBook
      <4> QED BY <4>2, <4>3, <4>4, <4>5
    <3> QED BY <3>1, <3>2
  <2>3. ASSUME pc \in {"placing", "filled"}
        PROVE  /\ \A i \in DOMAIN legs.qty : legs.qty[i] \in Nat \ {0}
               /\ \E size \in Sizes : Affords(size)
    <3>1. legs # NoLegs /\ legs \in Orders(kind)
      BY <2>1, <2>3 DEF ShapeInv
    <3>2. legs.qty \in [Places(kind) -> Nat \ {0}]
      BY <3>1 DEF Orders
    <3>3. \E size \in Sizes : Affords(size)
      BY <3>1 DEF IInv, LegsInv
    <3> QED BY <3>2, <3>3
  <2> QED BY <2>1, <2>2, <2>3 DEF TypeOK, ShapeInv
<1> QED BY <1>1, Invariance, PTL

\* The profit an opportunity carries is never above what one contract of each
\* of its legs brings, in any outcome (ClaimIsFloor; fees.py).
THEOREM ClaimIsFloorAlways == Spec => []ClaimIsFloor
<1>1. IInv => ClaimIsFloor
  <2> SUFFICES ASSUME IInv, pc # "scan", rate <= opp.rate, WorstAssumed, NEW o \in Outcomes(kind)
               PROVE  opp.claim <= Settled(kind, rate, opp.side, opp.basis, Ones(opp.basis), o)
    BY DEF ClaimIsFloor
  <2>1. kind \in AllKinds /\ rate \in 0..100 /\ rate \in Nat /\ model \in FeeModels
    BY FixedTyped, BooksArePrices DEF IInv
  <2>2. opp \in Opps(kind, rate)
    BY DEF IInv, ShapeInv
  <2> DEFINE r == opp.rate
             c == opp.claim
             s == opp.side
             ps == opp.basis
             x == Settled(kind, r, s, ps, Ones(ps), o)
             y == Settled(kind, rate, s, ps, Ones(ps), o)
  <2>3. /\ s \in Strategies(kind) /\ c \in Nat \ {0} /\ ps \in [Places(kind) -> Price]
        /\ r \in {ScanRate(kind, rate), RecheckRate(kind, rate)}
    BY <2>2 DEF Opps
  <2>4. c = Claim(kind, r, model, ps)
    BY DEF IInv, ClaimInv
  <2>5. r \in Nat
    BY <2>1, <2>3, RatesTyped
  <2>6. rate <= r /\ Worst(kind, model)
    BY WorstIsWorst
  <2> HIDE DEF r, c, s, ps
  <2>7. c <= x
    <3>1. Claim(kind, r, model, ps) > 0
      BY <2>3, <2>4
    <3> QED BY <2>1, <2>3, <2>4, <2>6, <3>1, ClaimIsLow
  <2>8. x <= y
    BY <2>1, <2>3, <2>5, <2>6, SetByRate
  <2>9. c \in Int /\ x \in Int /\ y \in Int
    BY <2>1, <2>3, <2>5, SettledIsMoney
  <2> HIDE DEF x, y
  <2>10. c <= y
    BY <2>7, <2>8, <2>9
  <2> QED BY <2>10 DEF c, y, s, ps
<1> QED BY <1>1, Invariance, PTL

\* However stale the prices of the legs and however the books moved: if every
\* leg filled within its limit, one contract of each is a profit in every
\* outcome, and so is the whole order where it is sized in equal contracts
\* (FilledSetPays; executor.py:2322).
THEOREM FilledSetPaysAlways == Spec => []FilledSetPays
<1>1. IInv => FilledSetPays
  <2> SUFFICES ASSUME IInv, pc = "filled" PROVE FilledSetPays
    BY DEF FilledSetPays
  <2>1. kind \in AllKinds /\ rate \in 0..100 /\ rate \in Nat /\ model \in FeeModels
    BY FixedTyped, BooksArePrices DEF IInv
  <2>2. legs \in Orders(kind) /\ legs # NoLegs /\ paid \in Seq(Price) /\ Len(paid) = Len(legs.limit)
    BY DEF IInv, ShapeInv
  <2> DEFINE s == legs.side
             ls == legs.limit
             q == legs.qty
  <2>3. /\ Places(kind) = 1..Len(ls) /\ Len(ls) \in {2, 3}
        /\ ls \in [Places(kind) -> Price] /\ q \in [Places(kind) -> Nat \ {0}]
    BY <2>1, <2>2, OrderLengths
  <2>4. paid \in [Places(kind) -> Price]
    <3>1. paid \in [1..Len(paid) -> Price]
      BY <2>2, LenProperties
    <3> QED BY <2>2, <2>3, <3>1
  <2>5. \A i \in Places(kind) : IF kind = "CTFMint" THEN paid[i] >= ls[i] ELSE paid[i] <= ls[i]
    <3>1. \A i \in DOMAIN paid : Marketable(ls[i], paid[i])
      BY <2>2 DEF IInv, LegsInv
    <3> QED BY <2>4, <3>1 DEF Marketable
  <2>6. GoodSet(kind, rate, model, s, ls)
    BY <2>2 DEF IInv, LegsInv
  <2>7. kind \in EqualContracts => \A i \in DOMAIN q : q[i] = q[1]
    BY <2>2 DEF IInv, LegsInv
  <2> HIDE DEF s, ls, q
  <2>8. ASSUME (rate <= DefaultRate /\ Worst(kind, model)) \/ kind \in EqualContracts,
               NEW o \in Outcomes(kind)
        PROVE  Settled(kind, rate, s, paid, Ones(paid), o) > 0
    <3> DEFINE x == Settled(kind, rate, s, ls, Ones(ls), o)
               y == Settled(kind, rate, s, paid, Ones(paid), o)
    <3>1. x > 0
      BY <2>6, <2>8 DEF GoodSet
    <3>2. x <= y
      BY <2>1, <2>3, <2>4, <2>5, SetByPrice
    <3>3. x \in Int /\ y \in Int
      BY <2>1, <2>3, <2>4, SettledIsMoney
    <3> HIDE DEF x, y
    <3>4. y > 0
      BY <3>1, <3>2, <3>3
    <3> QED BY <3>4 DEF y
  <2>9. ASSUME kind \in EqualContracts, NEW o \in Outcomes(kind)
        PROVE  Settled(kind, rate, s, paid, q, o) > 0
    <3>1. kind \in AllKinds \ Threes /\ Places(kind) = 1..2
      BY <2>1, <2>9 DEF EqualContracts, Threes, Places
    <3>2. q \in [1..2 -> Nat \ {0}] /\ paid \in [1..2 -> Price]
      BY <2>3, <2>4, <3>1
    <3>3. q[2] = q[1]
      BY <2>7, <2>9, <3>2
    <3>4. Settled(kind, rate, s, paid, Ones(paid), o) > 0
      BY <2>8, <2>9
    <3> QED BY <2>1, <3>1, <3>2, <3>3, <3>4, SetByNumber
  <2> QED BY <2>8, <2>9, WorstIsWorst DEF FilledSetPays, s, q
<1> QED BY <1>1, Invariance, PTL
=============================================================================
