\* A refused monitor update fails a transaction whose outcome is unknown.
CONSTANTS
  MaxOperations = 2
  Value = {a, b}
  None = None
  Hazards = {"overflow"}
  MaxStops = 0
  MaxGeneration = 2
  MaxForeign = 0
  MaxLag = 3
SPECIFICATION Spec
INVARIANT NegativeVerdictIsFinal
