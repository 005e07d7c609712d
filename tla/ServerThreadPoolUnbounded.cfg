\* One base worker and three jobs: dynamic workers start, time out, are joined by
\* a later enqueue and their identities used again.  A job
\* may never end, as the stream of a silent provider.
SPECIFICATION ScheduledSpec
CONSTANTS
  w1 = w1
  w2 = w2
  w3 = w3
  w4 = w4
  Workers <- UnboundedWorkers
  BaseWorkers <- OneBase
  ConfiguredSize = 0
  MaxJobs = 3
INVARIANTS
  TypeOK
  IdleExact
  NoJobWaitsForNotice
  NoThreadDropped
  AllJoined
PROPERTIES
  ServesTasks
  EveryJobBegins
