\* Every stream of four events: calls start, are interrupted and taken up again,
\* and a message may be followed by another one.
SPECIFICATION Spec
CONSTANTS
  Deltas <- MCDeltas
  MaxEvents = 4
INVARIANTS
  TypeOK
  BlocksInSequence
  ContentInItsBlock
  ContentRelayed
  EndedIsComplete
\* The stream ends.
CHECK_DEADLOCK FALSE
