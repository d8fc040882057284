\* Prices whose pairs and triples lie on both sides of a profit, and books
\* that change once during the attempt.  A market may offer no arbitrage, and
\* an attempt ends: the runs stop there.
SPECIFICATION Spec
CONSTANTS
  Kinds = {"Binary", "KalshiBinary", "Cross", "Triangular", "Frechet", "FrechetKalshi", "Temporal", "CTFMerge", "CTFMint", "NegRisk", "NegRiskNO", "KalshiMulti", "BackAll"}
  TrianglePair <- KalshiAndSmarkets
  Prices = {8, 30, 44, 61, 84}
  Rates = {0, 4, 7}
  Models = {"expected_value", "worst_case"}
  Sizes = {10, 20}
  MinClaim = 20000
  MaxMoves = 2
INVARIANTS TypeOK ClaimIsFloor FilledSetPays
CHECK_DEADLOCK FALSE
