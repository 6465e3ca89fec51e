SPECIFICATION FairSpec
CONSTANTS
  Posts = {"p1", "p2"}
  Workers = {"w1"}
  MaxFaults = 2
INVARIANTS
  StatusesAreTrue
PROPERTIES
  SentInOrder
  UnknownIsSettled
  ReportSettles
CHECK_DEADLOCK FALSE
