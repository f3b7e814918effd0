\* Two processes of one configuration, two clients, a budget of one.
CONSTANTS
  Process = {s1, s2}
  Client = {c1, c2}
  Nobody = nobody
  ClientLimit = 1
  MaxEvents = 2
  Page = 1
  MaxStarts = 3
  MaxSubmits = 2
  MaxSeq = 3
SPECIFICATION FairSpec
CHECK_DEADLOCK FALSE
INVARIANTS
  PathLeadsToServer
  StoreOutlivesUsers
  BudgetReturned
PROPERTIES
  PagesAreWhole
  CloseEnds
