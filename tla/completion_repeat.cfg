SPECIFICATION Spec
CONSTANTS
  Posts = {"p1", "p2"}
  Workers = {"w1"}
  MaxFaults = 1
INVARIANT
  MarkedOnce
CHECK_DEADLOCK FALSE
