\* A pool of two for four jobs: it grows, saturates, queues and drains;
\* every job ends.
SPECIFICATION FairSpec
CONSTANTS
  w1 = w1
  w2 = w2
  w3 = w3
  w4 = w4
  Workers <- LimitedWorkers
  BaseWorkers <- NoBase
  ConfiguredSize = 2
  MaxJobs = 4
INVARIANTS
  UnservedOnlyWhenSaturated
PROPERTIES
  EveryJobRun
  ShutdownReturns
