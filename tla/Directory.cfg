\* Two connections, two changes of the rows, a limit of one tick in three.
CONSTANTS
  Freshness = 1
  MaxTime = 3
  MaxGeneration = 2
  MaxVersion = 2
SPECIFICATION FairSpec
INVARIANTS
  FreshIsRecent
  ViewsAgree
PROPERTIES
  AgentReturns
