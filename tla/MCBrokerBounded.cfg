\* Two workers, a lease of three renewal periods, and at most three ticks
\* between two lease checks: the timing the lease is designed for.
SPECIFICATION FairSpec
CONSTANTS
  Workers = {w1, w2}
  Callers = {}
  Holders = {w1, w2}
  Holder <- OwnHolder
  NoHolder = NoHolder
  Intents = {i1, i2}
  Capital = {i1}
  NoIntent = NoIntent
  BatchSize = 1
  TTL = 3
  RenewEvery = 1
  MaxGap = 3
  MaxFaults = 2
  OperatorScopes = {"capital_moves"}
PROPERTIES OutcomeWriteOnce NoLateInvocation EveryIntentDecided
