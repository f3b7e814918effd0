\* One pod, two operations, a stop, lost replies and their sessions, a competing writer.
CONSTANTS
  MaxOperations = 2
  Value = {a, b}
  None = None
  Hazards = {}
  MaxStops = 1
  MaxGeneration = 1
  MaxForeign = 1
  MaxLag = 2
SPECIFICATION Spec
SYMMETRY Symmetry
INVARIANTS
  SentAtMostOnce
  NegativeVerdictIsFinal
  OneActive
  ConflictHasCause
PROPERTIES
  ConflictFreezes
  WriteFollowsTable
  ImplementsWriteOnce
