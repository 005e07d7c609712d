SPECIFICATION Spec
CONSTANTS
  Exchanges = {"s1", "s2", "plain"}
  Streamed = {"s1", "s2"}
  Handles = {h1, h2}
  Null = Null
  NoOne = NoOne
INVARIANTS
  HandlesOwned
  EndsClean
PROPERTIES
  CancelEnds
CHECK_DEADLOCK FALSE
