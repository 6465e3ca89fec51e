SPECIFICATION FairSpec
CONSTANTS
  Posts = {"p1"}
  Workers = {"w1"}
  MaxFaults = 1
PROPERTY
  OperationSettles
CHECK_DEADLOCK FALSE
