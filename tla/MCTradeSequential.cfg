\* Three Kalshi legs one behind the other, the first resting, no hedging.
SPECIFICATION Spec
CONSTANTS
  NumLegs = 3
  Venue <- AllKalshi
  GTC <- FirstGTC
  Mode = "sequential"
  HedgeEnabled = FALSE
  MaxAttempts = 1
  MaxCrashes = 2
  MaxLost = 2
INVARIANT OneLegAtATime
INVARIANT AbortedNeverPlaced
PROPERTY SettledRowsStay
