\* Two exchanges, two answers, one damaged payload, sets of up to three payloads.
CONSTANTS
  Plans <- AllPlans
  Advertised = TRUE
  Noise = noise
  MaxBss = 2
  MaxExchanges = 2
  MaxAnswers = 2
  MaxDamages = 1
SPECIFICATION Spec
CHECK_DEADLOCK FALSE
INVARIANTS
  ResultIsMeant
  WholeIsAccepted
