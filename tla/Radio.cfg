\* Two supported settings, two faults, three changes of Config, a fair manager.
CONSTANTS
  Settings = {s1, s2}
  Unsupported = unsupported
  Off = off
  None = none
  MaxFaults = 2
  MaxWrites = 3
SPECIFICATION ManagerFairSpec
PROPERTIES
  Genuine
  Follows
