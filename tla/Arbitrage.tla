----------------------------- MODULE Arbitrage ------------------------------
(***************************************************************************)
(* The money path of one pure arbitrage: scans/*.py price it, executor.py  *)
(* revalidates it, builds its legs and sends them, and the market settles. *)
(* The books move between any two of these steps, and between two legs.    *)
(*                                                                         *)
(* The question is whether the profit the calculators of Fees promise is   *)
(* what the legs, at the prices and the quantities they are really sent    *)
(* with, pay in every outcome.  A leg that does not fill ends the attempt  *)
(* here: what the executor then does is TradeExecution's subject.  The CTF *)
(* kinds are refused outside a dry run (executor.py:3287): what is said of *)
(* their legs is said of what would be sent.                               *)
(***************************************************************************)
EXTENDS Fees, FiniteSets

CONSTANTS
  Kinds,         \* the kinds of opportunity considered
  TrianglePair,  \* the venues of YES and NO of a TriangularCross
  Prices,        \* the prices a book can show, in cents
  Rates,         \* Polymarket's real taker rate for the market, in percent
  Models,        \* FEE_MODEL
  Sizes,         \* dollars the executor puts on an opportunity
  MinClaim,      \* the least profit a scan reports
  MaxMoves       \* bound: changes of the books during one attempt

ASSUME KindsAssumption ==
  Kinds \subseteq {"Binary", "KalshiBinary", "Cross", "Triangular", "Frechet",
                   "FrechetKalshi", "Temporal", "CTFMerge", "CTFMint",
                   "NegRisk", "NegRiskNO", "KalshiMulti", "BackAll"}
\* Both may be one venue.  Betfair's catalogue comes without prices
\* (betfair_api.py:192), so that no triangle has a leg there.
ASSUME PairAssumption ==
  TrianglePair \in (Venues \ {"betfair"}) \X (Venues \ {"betfair"})
ASSUME MoneyAssumption ==
  /\ Prices \subseteq Price
  /\ Models \subseteq FeeModels
  /\ Rates \subseteq 0..100
  /\ Sizes \subseteq Nat \ {0}
  /\ MinClaim \in Nat \ {0}
  /\ MaxMoves \in Nat

VARIABLES
  kind,   \* the opportunity's type
  rate,   \* the real taker rate of its market
  model,  \* FEE_MODEL of this deployment
  book,   \* the price each leg would trade at now: bids for CTFMint, else asks
  pc,     \* "scan", "found", "approved", "placing", "filled" or "broken"
  opp,    \* what the opportunity carries
  legs,   \* the legs built, with limit price and contracts, or dollars staked
  paid,   \* the prices of the legs filled so far
  moves

vars == <<kind, rate, model, book, pc, opp, legs, paid, moves>>

-----------------------------------------------------------------------------
(* The kinds.                                                              *)

(* A Cross has two strategies: PM YES with K NO, and PM NO with K YES, the *)
(* first and the second two places of its book.                            *)
Quoted(k) == CASE k = "Cross" -> 4
               [] k \in {"NegRisk", "NegRiskNO", "KalshiMulti", "BackAll"} -> 3
               [] OTHER -> 2
Strategies(k) == IF k = "Cross" THEN {<<1, 2>>, <<3, 4>>}
                 ELSE {[i \in 1..Quoted(k) |-> i]}

VenueAt(k, i) ==
  CASE k = "Cross" -> IF i \in {1, 3} THEN "polymarket" ELSE "kalshi"
    [] k = "Triangular" -> TrianglePair[i]
    [] k \in {"KalshiBinary", "KalshiMulti", "FrechetKalshi", "Temporal"} -> "kalshi"
    [] k = "BackAll" -> "betfair"
    [] OTHER -> "polymarket"

Implications == {"Frechet", "FrechetKalshi", "Temporal"}

(* The calculator of a kind, for the prices of its legs. *)
Claim(k, r, m, ps) ==
  CASE k = "Binary" -> NetBinary(r, ps[1], ps[2])
    [] k = "KalshiBinary" -> NetKalshiBinary(ps[1], ps[2])
    [] k = "Cross" -> NetCrossPlatform(ps[1], ps[2])
    [] k = "Triangular" -> NetTriangular(m, TrianglePair[1], TrianglePair[2], ps[1], ps[2])
    [] k \in Implications -> NetImplication(k # "Frechet", r, 100 - ps[2], ps[1])
    [] k = "CTFMerge" -> NetCtfMerge(r, ps[1], ps[2])
    [] k = "CTFMint" -> NetCtfMint(r, ps[1], ps[2])
    [] k = "NegRisk" -> NetNegRisk(r, ps)
    [] k = "NegRiskNO" -> NetNegRiskNo(ps)
    [] k = "KalshiMulti" -> NetKalshiMulti(ps)
    [] k = "BackAll" -> NetBetfairBackAll(ps)

(* The rate the scan prices with: these kinds pass the market's category,  *)
(* the others leave the default.                                           *)
ScanRate(k, r) ==
  IF k \in {"Binary", "NegRisk", "Frechet", "CTFMerge", "CTFMint"} THEN r ELSE DefaultRate

(* A revalidation passes the category only for these. *)
RecheckRate(k, r) ==
  IF k \in {"Frechet", "CTFMerge", "CTFMint"} THEN r ELSE DefaultRate

(* Outcomes, and whether leg i of the strategy pays in outcome o.  Where A *)
(* implies B, YES of B and NO of A both pay when only B happens.           *)
Outcomes(k) ==
  IF k \in Implications \/ Quoted(k) = 3 THEN 1..3 ELSE 1..2
Pays(k, o, i) == CASE k \in Implications -> o \in {i, 3}
                   [] k = "NegRiskNO" -> o # i
                   [] OTHER -> o = i

-----------------------------------------------------------------------------
(* What the legs really bring, in one outcome: an account of its own, not  *)
(* the calculators'.  One entry fee and one charge of gas per order.       *)

Sign(k) == IF k = "CTFMint" THEN -1 ELSE 1
Charge(k, r, i, p, q) == EntryFee(VenueAt(k, i), r, p, q) + GasFor(VenueAt(k, i))

Settled(k, r, s, ps, qs, o) ==
  LET Leg(i) ==
        (IF k # "CTFMint" /\ Pays(k, o, i)
         THEN qs[i] * (Dollar - WinFee(VenueAt(k, s[i]), ps[i])) ELSE 0)
        - Sign(k) * Cent * qs[i] * ps[i]
        - Charge(k, r, s[i], ps[i], qs[i])
  IN Total([i \in DOMAIN ps |-> Leg(i)])
       - (IF k = "CTFMint" THEN Dollar * qs[1] ELSE 0)
       - (IF k \in {"CTFMerge", "CTFMint"} THEN CtfGas ELSE 0)

Ones(ps) == [i \in DOMAIN ps |-> 1]

-----------------------------------------------------------------------------
(* Scan.                                                                   *)

NoOpp == [side |-> <<>>, prices |-> <<>>, claim |-> 0, rate |-> 0, basis |-> <<>>, path |-> <<>>]

BookOf(s) == [i \in DOMAIN s |-> book[s[i]]]

(* The prices string of a NegRisk lists the prices from high to low, and   *)
(* its legs are later read from it in that order.                          *)
HighToLow(ps) ==
  CHOOSE q \in {[i \in DOMAIN ps |-> ps[pi[i]]] : pi \in Bijection(DOMAIN ps, DOMAIN ps)} :
    \A i, j \in DOMAIN ps : i <= j => q[i] >= q[j]
Carried(k, ps) == IF k = "NegRisk" THEN HighToLow(ps) ELSE ps

(* scan_cross_platform: the other Polymarket price is taken to be one less *)
(* the known one, and both strategies are compared again.                  *)
PathHints(s, ps) ==
  LET yes == [v \in {"polymarket", "kalshi"} |->
                IF v = "kalshi" THEN book[4] ELSE IF s[1] = 1 THEN ps[1] ELSE 100 - ps[1]]
      no == [v \in {"polymarket", "kalshi"} |->
                IF v = "kalshi" THEN book[2] ELSE IF s[1] = 3 THEN ps[1] ELSE 100 - ps[1]]
      Hint(path) == IF path[1] = "polymarket"
                    THEN [side |-> <<1, 2>>, prices |-> <<yes["polymarket"], no["kalshi"]>>]
                    ELSE [side |-> <<4, 3>>, prices |-> <<yes["kalshi"], no["polymarket"]>>]
  IN {Hint(path) : path \in LowestFeePaths({"polymarket", "kalshi"}, yes, no)}

NoHint == [side |-> <<>>, prices |-> <<>>]
Hints(s, ps) ==
  IF kind = "Cross" /\ PathHints(s, ps) # {} THEN PathHints(s, ps) ELSE {NoHint}

Best(s, r) == \A t \in Strategies(kind) :
                Claim(kind, r, model, BookOf(s)) >= Claim(kind, r, model, BookOf(t))

Found(s, ps, r) ==
  /\ Claim(kind, r, model, ps) >= MinClaim
  /\ \E h \in Hints(s, ps) :
       opp' = [side |-> s, prices |-> Carried(kind, ps), claim |-> Claim(kind, r, model, ps),
               rate |-> r, basis |-> ps, path |-> h]
  /\ pc' = "found"

(* A scan with its refinement: the prices are those of the books. *)
Scan ==
  /\ pc = "scan"
  /\ \E s \in Strategies(kind) :
       /\ Best(s, ScanRate(kind, rate))
       /\ Found(s, BookOf(s), ScanRate(kind, rate))
  /\ UNCHANGED <<kind, rate, model, book, legs, paid, moves>>

(* The book could not be had: these kinds keep the scan's mid prices, which *)
(* are nobody's offer.                                                     *)
ScanUnrefined ==
  /\ pc = "scan"
  /\ kind \in {"Binary", "CTFMerge", "CTFMint"}
  /\ \E mid \in [1..2 -> Prices] : Found(<<1, 2>>, mid, ScanRate(kind, rate))
  /\ UNCHANGED <<kind, rate, model, book, legs, paid, moves>>

-----------------------------------------------------------------------------
(* Revalidation.                                                           *)

(* The part of the scan's profit that must be left, by the return it       *)
(* promised; five percent are conceded per leg beyond two where the type   *)
(* names their number.                                                     *)
Floor1 == 20000
Threshold ==
  LET cost == IF kind = "CTFMint" THEN Dollar ELSE Cent * Total(opp.basis)
      Conceded == IF Len(opp.side) = 3 /\ kind # "BackAll" THEN 5 ELSE 0
  IN CASE 100 * opp.claim >= 5 * cost -> (opp.claim * (90 - Conceded)) \div 100
       [] 100 * opp.claim \in 2 * cost .. 5 * cost - 1 -> (opp.claim * (80 - Conceded)) \div 100
       [] OTHER -> Floor1

Repriced == {"Binary", "Cross", "Frechet", "FrechetKalshi", "Temporal",
             "CTFMerge", "CTFMint", "NegRiskNO"}
KeepPrices == {"NegRisk", "KalshiBinary", "KalshiMulti"}

Approve(s, ps, carried) ==
  LET claim == Claim(kind, RecheckRate(kind, rate), model, ps)
  IN IF claim < Threshold
     THEN pc' = "scan" /\ opp' = NoOpp
     ELSE /\ pc' = "approved"
          /\ opp' = [opp EXCEPT !.side = s, !.prices = carried, !.claim = claim,
                                !.basis = ps, !.rate = RecheckRate(kind, rate)]

(* The fresh prices replace those the legs will carry. *)
RevalidateAndReprice ==
  /\ pc = "found" /\ kind \in Repriced
  /\ \E s \in Strategies(kind) :
       Best(s, RecheckRate(kind, rate)) /\ Approve(s, BookOf(s), BookOf(s))
  /\ UNCHANGED <<kind, rate, model, book, legs, paid, moves>>

(* Only the profit is looked at: the legs carry the scan's prices. *)
RevalidateOnly ==
  /\ pc = "found" /\ kind \in KeepPrices
  /\ Approve(opp.side, BookOf(opp.side), opp.prices)
  /\ UNCHANGED <<kind, rate, model, book, legs, paid, moves>>

(* Each side is fetched again if its venue answers, and kept if not; some  *)
(* venues are never asked.                                                 *)
Asked == {i \in 1..2 : TrianglePair[i] \in {"polymarket", "kalshi", "gemini", "ibkr"}}

RevalidateTriangular ==
  /\ pc = "found" /\ kind = "Triangular"
  /\ \E fresh \in SUBSET Asked :
       LET ps == [i \in 1..2 |-> IF i \in fresh THEN book[i] ELSE opp.prices[i]]
       IN Approve(opp.side, ps, ps)
  /\ UNCHANGED <<kind, rate, model, book, legs, paid, moves>>

(* Betfair's own kinds are taken as they were scanned. *)
PassUnchecked ==
  /\ pc = "found" /\ kind = "BackAll"
  /\ pc' = "approved"
  /\ UNCHANGED <<kind, rate, model, book, opp, legs, paid, moves>>

-----------------------------------------------------------------------------
(* The legs.                                                               *)

EqualContracts == {"Frechet", "FrechetKalshi", "Temporal", "CTFMerge", "CTFMint"}

(* Dollars buy whole contracts. *)
MutantDollarSizeToContracts(dollars, p) == CeilDiv(100 * dollars, p)

DollarSizeToContracts(dollars, p) == (100 * dollars) \div p

(* Venues that take a stake in dollars, at odds, and no number of contracts. *)
Staked == {"betfair", "matchbook"}
Quantity(v, size, p) ==
  CASE v \in Staked -> size
    [] v \in {"polymarket", "kalshi"} -> DollarSizeToContracts(size, p)
    [] OTHER -> Larger(1, DollarSizeToContracts(size, p))

(* The whole size goes to each leg, unless the legs were given one number  *)
(* of contracts, which the size buys of them together.                     *)
Quantities(size, side, ps) ==
  CASE kind = "CTFMint" -> [i \in DOMAIN ps |-> size]
    [] kind \in EqualContracts \ {"CTFMint"} -> [i \in DOMAIN ps |-> (100 * size) \div Total(ps)]
    [] OTHER -> [i \in DOMAIN ps |-> Quantity(VenueAt(kind, side[i]), size, ps[i])]

(* The least order of a venue, in cents.  A triangle wants half of its     *)
(* size to reach it, although each leg is sent the whole.                  *)
MinOrder(v) == CASE v = "betfair" -> 250
                 [] v = "smarkets" -> 625
                 [] v = "matchbook" -> 550
                 [] v = "sxbet" -> 100
                 [] OTHER -> 1
TooSmall(size) ==
  \E i \in 1..Quoted(kind) :
    100 * size < (IF kind = "Triangular" THEN 2 ELSE 1) * MinOrder(VenueAt(kind, i))

(* A Cross takes the prices and the side of the scan's fee path, which it  *)
(* prices again from the path's own figures.                               *)
Routed == IF opp.path = NoHint THEN [side |-> opp.side, prices |-> opp.prices] ELSE opp.path

BuildLegs ==
  /\ pc = "approved"
  /\ \E size \in Sizes :
       LET r == IF kind = "Cross" THEN Routed ELSE [side |-> opp.side, prices |-> opp.prices]
           q == Quantities(size, r.side, r.prices)
       IN IF TooSmall(size) \/ \E i \in DOMAIN q : q[i] = 0
          THEN pc' = "broken" /\ UNCHANGED legs
          ELSE /\ pc' = "placing"
               /\ legs' = [side |-> r.side, limit |-> r.prices, qty |-> q]
  /\ UNCHANGED <<kind, rate, model, book, opp, paid, moves>>

(* Fill or kill: at the book's price, if the limit allows it. *)
MutantMarketable(limit, now) == TRUE  \* a market order, whatever the price
Marketable(limit, now) == IF kind = "CTFMint" THEN now >= limit ELSE now <= limit

Place ==
  /\ pc = "placing"
  /\ LET i == Len(paid) + 1
         now == book[legs.side[i]]
     IN IF Marketable(legs.limit[i], now)
        THEN /\ paid' = Append(paid, now)
             /\ pc' = IF i = Len(legs.limit) THEN "filled" ELSE "placing"
        ELSE pc' = "broken" /\ UNCHANGED paid
  /\ UNCHANGED <<kind, rate, model, book, opp, legs, moves>>

-----------------------------------------------------------------------------
(* The environment.                                                        *)

(* One price of the books changes. *)
Move ==
  /\ pc \in {"found", "approved", "placing"} /\ moves < MaxMoves
  /\ \E i \in DOMAIN book, p \in Prices :
       p # book[i] /\ book' = [book EXCEPT ![i] = p]
  /\ moves' = moves + 1
  /\ UNCHANGED <<kind, rate, model, pc, opp, legs, paid>>

NoLegs == [side |-> <<>>, limit |-> <<>>, qty |-> <<>>]

Init ==
  /\ kind \in Kinds /\ rate \in Rates /\ model \in Models
  /\ book \in [1..Quoted(kind) -> Prices]
  /\ pc = "scan" /\ opp = NoOpp /\ legs = NoLegs /\ paid = <<>> /\ moves = 0

Next ==
  \/ Scan \/ ScanUnrefined
  \/ RevalidateAndReprice \/ RevalidateOnly \/ RevalidateTriangular \/ PassUnchecked
  \/ BuildLegs \/ Place
  \/ Move

Spec == Init /\ [][Next]_vars

-----------------------------------------------------------------------------
(* Properties.                                                             *)

Routes == [side : Seq(1..4), prices : Seq(Price)]

(* What a size may become: as many contracts of all legs together, or of   *)
(* each of them, as it buys, and a stake no larger.                        *)
Affords(size) ==
  CASE kind = "CTFMint" -> \A i \in DOMAIN legs.qty : legs.qty[i] <= size
    [] kind \in EqualContracts \ {"CTFMint"} ->
         Total([i \in DOMAIN legs.qty |-> legs.qty[i] * legs.limit[i]]) <= 100 * size
    [] OTHER ->
         \A i \in DOMAIN legs.qty :
           legs.qty[i] * (IF VenueAt(kind, legs.side[i]) \in Staked THEN 100 ELSE legs.limit[i])
             <= 100 * size

(* Types, and what the legs are: at least one contract of each, and no leg *)
(* dearer than one of the sizes the executor allows (executor.py:122).     *)
(* All legs together may cost that size times their number.                *)
TypeOK ==
  /\ kind \in Kinds /\ rate \in Rates /\ model \in Models
  /\ book \in [1..Quoted(kind) -> Prices]
  /\ pc \in {"scan", "found", "approved", "placing", "filled", "broken"}
  /\ opp.side \in Seq(1..4) /\ opp.prices \in Seq(Price)
  /\ opp.basis \in Seq(Price) /\ opp.claim \in Int
  /\ opp.path \in Routes \/ opp = NoOpp
  /\ Len(paid) <= Len(legs.limit) /\ moves \in 0..MaxMoves
  /\ pc \in {"placing", "filled"} =>
       /\ \A i \in DOMAIN legs.qty : legs.qty[i] \in Nat \ {0}
       /\ \E size \in Sizes : Affords(size)

(* With fees assumed at their worst, or where no venue takes a commission, *)
(* the profit an opportunity carries is never above what one contract of   *)
(* each leg brings, at the prices it was computed from, in ANY outcome:    *)
(* the calculators of fees.py lose no fee, commission or charge of gas.    *)
(* Markets dearer than the rate the step prices with are excepted: a       *)
(* revalidation that forgets the category (executor.py:1129) is wrong      *)
(* there.  So is a triangle that finds both sides on Polymarket, whose two *)
(* orders are charged one gas (fees.py:926).                               *)
Commissioned == \E i \in 1..Quoted(kind) : VenueAt(kind, i) \in {"betfair", "smarkets"}
GasOnce == kind = "Triangular" /\ TrianglePair = <<"polymarket", "polymarket">>
WorstAssumed ==
  (model = "worst_case" \/ ~Commissioned \/ kind = "BackAll") /\ ~GasOnce

ClaimIsFloor ==
  pc # "scan" /\ opp # NoOpp /\ rate <= opp.rate /\ WorstAssumed =>
    \A o \in Outcomes(kind) :
      opp.claim <= Settled(kind, rate, opp.side, opp.basis, Ones(opp.basis), o)

(* However stale the prices a leg carries - the scan's for NegRisk and the *)
(* Kalshi sets, the fee path's for a Cross, a mid where the book could not *)
(* be had - and however the books moved since: if every leg filled, one    *)
(* contract of each is a profit in every outcome.  Where legs are sized in *)
(* equal contracts (executor.py:2322), so is the whole order.              *)
FilledSetPays ==
  pc = "filled" =>
    /\ rate <= DefaultRate /\ WorstAssumed =>
         \A o \in Outcomes(kind) : Settled(kind, rate, legs.side, paid, Ones(paid), o) > 0
    /\ kind \in EqualContracts =>
         \A o \in Outcomes(kind) : Settled(kind, rate, legs.side, paid, legs.qty, o) > 0

(* docs/strategy-framework-v2.md:27: "Mathematically guaranteed profit."   *)
(* With the numbers of contracts the legs are really sent with, a filled   *)
(* arbitrage never loses (executor.py:3737).                               *)
ArbitrageNeverLoses ==
  pc = "filled" /\ (\A i \in DOMAIN legs.side : VenueAt(kind, legs.side[i]) \notin Staked) =>
    \A o \in Outcomes(kind) : Settled(kind, rate, legs.side, paid, legs.qty, o) >= 0
=============================================================================
