\* Three jobs, two slots, two connections, one commit; no optional failure.
CONSTANTS
  MaxJobs = 3
  RequestLimit = 2
  MaxGeneration = 2
  MaxVersion = 2
  Hazards = {}
SPECIFICATION Spec
CHECK_DEADLOCK FALSE
INVARIANTS
  ViewsAdvance
  PinHonoured
  ResyncAfterUnknown
  WithinBudget
