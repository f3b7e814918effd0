\* Two jobs, two connections, two commits; updates may be refused and requests
\* answered by errors, under the worker's and the loop's fairness.
CONSTANTS
  MaxJobs = 2
  RequestLimit = 2
  MaxGeneration = 2
  MaxVersion = 2
  Hazards = {"overflow", "refuse"}
SPECIFICATION FairSpec
CHECK_DEADLOCK FALSE
INVARIANTS
  NoGap
  TrueReply
PROPERTIES
  JobsEnd
