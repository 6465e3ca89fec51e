SPECIFICATION Spec
CONSTANTS
  MaxUnknown = 1
  MaxRetries = 1
  MayBeAmbiguous = TRUE
  MayBeLate = FALSE
  UserActions = {"select"}
  MaxJobs = 4
  MaxCommands = 0
  MaxFaults = 1
PROPERTIES
  SelectionKept
CHECK_DEADLOCK FALSE
