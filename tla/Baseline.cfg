\* A suite and a single invocation after it, on either backhaul.
CONSTANTS
  Plans <- SuiteAndSingles
  Modes = {"wired", "wireless"}
  MaxRuns = 3
  MaxTroubles = 2
SPECIFICATION Spec
CHECK_DEADLOCK FALSE
INVARIANTS
  PassedIsTrue
  Restored
PROPERTIES
  ResultsKept
