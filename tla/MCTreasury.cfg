\* Two live processes, one key of the caller's own, a day of two hours: a
\* third hour sees the first leave the window.
SPECIFICATION Spec
CONSTANTS
  Callers = {p1, p2}
  Transfers = {"out", "back"}
  AmountOf <- Amounts
  Withdrawals = {"out"}
  Given = {"k"}
  NoKey = "none"
  Limit = 3
  Day = 1
  MaxTries = 2
  MaxHours = 2
  MaxClaims = 2
  MaxCrashes = 1
SYMMETRY ProcessSymmetry
INVARIANTS TypeOK ClaimedWithinLimit OkMeansMoved
PROPERTY ImplementsJournal
CHECK_DEADLOCK FALSE
