SPECIFICATION LiveSpec
CONSTANTS
  m1 = m1
  Markets = {m1}
  QuoteSize = 1
  Cap = 1
  Deadband = 0
  CanaryFills = 1
  MaxCancels = 2
  BlindAfter = 2
  HedgeAttempts = 1
  MaxOrders = 2
  MaxFills = 1
  MaxFaults = 2
PROPERTIES HaltDrains FillsAnswered
