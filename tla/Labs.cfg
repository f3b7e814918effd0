\* Two checkouts with the same names, and the baseline, in one virtual machine.
CONSTANTS
  Checkout = {A, B}
  MaxFailures = 1
SPECIFICATION Spec
SYMMETRY Symmetry
CHECK_DEADLOCK FALSE
INVARIANTS
  IntentRecorded
  RecordIsTrue
PROPERTIES
  SparesTheOthers
