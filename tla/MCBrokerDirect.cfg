\* No worker: two processes call PolicyBroker.process with the same intents.
SPECIFICATION Spec
CONSTANTS
  Workers = {}
  Callers = {c1, c2}
  Holders = {}
  Holder <- OwnHolder
  NoHolder = NoHolder
  Intents = {i1, i2}
  Capital = {i1}
  NoIntent = NoIntent
  BatchSize = 1
  TTL = 3
  RenewEvery = 1
  MaxGap = 2
  MaxFaults = 4
  OperatorScopes = {}
INVARIANTS AtMostOnce
PROPERTIES InDoubtMoveFreezes
CHECK_DEADLOCK FALSE
