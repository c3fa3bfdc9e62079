SPECIFICATION RingSpec
CONSTANTS
  VNodes = {v1, v2, v3, v4}
  HashSpace = 8
CHECK_DEADLOCK FALSE
INVARIANTS FindIsNearest KeysCounted
PROPERTY OnlyNeighboursMove
