\* Two pods, one of them affected; every fault that changes the
\* runner's path; a success and a timeout expected.
CONSTANTS
  Pod = {p, q}
  Affected = p
  Faults = {"guard-conflict", "restart-controller", "restart-server"}
  ExpectedStates = {"OBSERVED_APPLIED", "TIMED_OUT"}
  ExpectedBy = {"reply"}
  MaxRaises = 1
SPECIFICATION FairSpec
CHECK_DEADLOCK FALSE
INVARIANTS
  PassIsEarned
  NothingLeftRunning
  EvidenceSealed
PROPERTIES
  RunSettles
