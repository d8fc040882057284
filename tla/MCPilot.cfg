SPECIFICATION Spec
CONSTANTS
  m1 = m1
  Markets = {m1}
  QuoteSize = 2
  Cap = 2
  Deadband = 0
  CanaryFills = 1
  MaxCancels = 2
  BlindAfter = 2
  HedgeAttempts = 1
  MaxOrders = 2
  MaxFills = 2
  MaxFaults = 2
INVARIANTS TypeOK LiveOrdersKnown NetIsCounted NothingMissed StopConfirmed
PROPERTIES ImplementsLedger
