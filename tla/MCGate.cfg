\* A selection on an exchange and a quote of the market maker, in two markets
\* and on one account; one pause and one crash.
SPECIFICATION Spec
CONSTANTS
  Types = {"BetfairBackAll", "MarketMake", "WhaleCopy", "JevCrypto"}
  Markets = {"m1", "m2"}
  Keys = {"m1", "m2"}
  Kinds = {"selection", "quote"}
  TypeOf <- KindTypes
  MarketOf <- KindMarkets
  KeyOf <- KindMarkets
  Research = {"JevCrypto"}
  Whales = {"WhaleCopy"}
  Exempt = {"MarketMake"}
  Exchange = {"BetfairBackAll"}
  Profits = {1, 2}
  Window = 1
  Cooldown = 1
  Dedupe = 1
  CacheTTL = 1
  MaxOpen = 2
  MaxWhales = 1
  CanaryTrades = 2
  MaxSize = 1
  NumLegs = 2
  MaxCash = 2
  MaxQueue = 1
  MaxList = 1
  MaxPauses = 1
  MaxCrashes = 1
INVARIANTS TypeOK OneAfterPause EntriesImprove 
PROPERTIES SentApart
