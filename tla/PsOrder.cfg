CONSTANTS
  Workers = {w1, w2}
  MaxPuts = 5
SPECIFICATION Spec
PROPERTIES InOrder
CHECK_DEADLOCK FALSE
