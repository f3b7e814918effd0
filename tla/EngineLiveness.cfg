\* Progress of an operation across a stop, a lost session, a competing writer and
\* every optional failure, and the invariant of the proofs.
CONSTANTS
  MaxOperations = 1
  Value = {a, b}
  None = None
  Hazards = {"cut", "overflow", "refuse", "rpcerror", "secret", "quiesce"}
  MaxStops = 1
  MaxGeneration = 2
  MaxForeign = 1
  MaxLag = 2
SPECIFICATION FairSpec
INVARIANTS
  TypeOK
  Ledger
PROPERTIES
  OutcomeResolves
  BusyReleased
