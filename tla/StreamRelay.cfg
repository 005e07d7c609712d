\* Three events of up to two bytes against a buffer of two bytes: the writer
\* overtakes, fills and drains it; the body of a failed answer may hold events.
SPECIFICATION SilentSpec
CONSTANTS
  MaxBuffered = 2
  MaxChunk = 2
  MaxEvents = 3
  UpstreamStatuses <- MCStatuses
  ErrorBodyHasEvents = TRUE
INVARIANTS
  TypeOK
  BoundedBuffer
  RelayOrder
  DoneMeansWhole
  CountedOnce
  OnlyAbandonedStartStrands
PROPERTIES
  NoPushAfterCancel
  KeepsChannel
  ClientGoneFreesWorker
  StreamingUpstreamReleased
\* A request ends; an upstream thread abandoned with a full buffer waits for ever.
CHECK_DEADLOCK FALSE
