\* A whale, a selection and a forecast in one market, on an account that may be
\* empty, and what the repository says of the sizes.
SPECIFICATION Spec
CONSTANTS
  Types = {"BetfairBackAll", "WhaleCopy", "JevCrypto"}
  Markets = {"m1"}
  Keys = {"m1"}
  Kinds = {"selection", "whale", "forecast"}
  TypeOf <- KindTypes
  MarketOf <- KindMarkets
  KeyOf <- KindMarkets
  Research = {"JevCrypto"}
  Whales = {"WhaleCopy"}
  Exempt = {}
  Exchange = {"BetfairBackAll"}
  Profits = {1}
  Window = 1
  Cooldown = 1
  Dedupe = 1
  CacheTTL = 1
  MaxOpen = 2
  MaxWhales = 1
  CanaryTrades = 2
  MaxSize = 2
  NumLegs = 2
  MaxCash = 4
  MaxQueue = 1
  MaxList = 1
  MaxPauses = 0
  MaxCrashes = 0
INVARIANTS TradeFitsBalance
