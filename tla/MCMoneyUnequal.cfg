\* The two kinds that buy both sides of one market with equal dollars.
SPECIFICATION Spec
CONSTANTS
  Kinds = {"Binary", "KalshiBinary"}
  TrianglePair <- KalshiAndSmarkets
  Prices = {8, 30, 44, 61, 84}
  Rates = {4}
  Models = {"worst_case"}
  Sizes = {10}
  MinClaim = 20000
  MaxMoves = 0
INVARIANT ArbitrageNeverLoses
CHECK_DEADLOCK FALSE
