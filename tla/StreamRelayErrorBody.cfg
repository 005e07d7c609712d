\* Exchanges end at last; the body of a failed answer may hold SSE events.
SPECIFICATION TimedSpec
CONSTANTS
  MaxBuffered = 2
  MaxChunk = 2
  MaxEvents = 2
  UpstreamStatuses <- MCStatuses
  ErrorBodyHasEvents = TRUE
PROPERTIES
  WorkerReleased
CHECK_DEADLOCK FALSE
