\* The provider marks the end of its stream as OpenAI does.
SPECIFICATION Spec
CONSTANTS
  Deltas <- MCDeltas
  MaxEvents = 3
INVARIANTS
  DoneEndsMessage
\* The stream ends.
CHECK_DEADLOCK FALSE
