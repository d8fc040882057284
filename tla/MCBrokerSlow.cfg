\* The same workers when one may go longer between lease checks than the lease
\* lasts: leases expire under a worker that is still handling an intent.
SPECIFICATION Spec
CONSTANTS
  Workers = {w1, w2}
  Callers = {}
  Holders = {w1, w2}
  Holder <- OwnHolder
  NoHolder = NoHolder
  Intents = {i1, i2}
  Capital = {i1}
  NoIntent = NoIntent
  BatchSize = 2
  TTL = 3
  RenewEvery = 1
  MaxGap = 4
  MaxFaults = 2
  OperatorScopes = {"all"}
SYMMETRY WorkerSymmetry
INVARIANTS TypeOK LedgerMatchesWorld SingleWriter
PROPERTIES OneVerdict HaltStopsCapital ImplementsLifecycle
