\* Two resting legs in two threads, on Kalshi and on an exchange that cannot
\* cancel.
SPECIFICATION FairSpec
CONSTANTS
  NumLegs = 2
  Venue <- Exchanges
  GTC <- FirstGTC
  Mode = "threads"
  HedgeEnabled = TRUE
  MaxAttempts = 2
  MaxCrashes = 2
  MaxLost = 1
INVARIANT TypeOK
INVARIANT RowsTellTheTruth
INVARIANT PositionsAreWhole
INVARIANT SoldOnce
INVARIANT UnconfirmedIsKept
PROPERTY EveryFillAnswered
