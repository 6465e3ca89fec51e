SPECIFICATION Spec
CONSTANTS
  MaxUnknown = 1
  MaxRetries = 1
  MayBeAmbiguous = FALSE
  MayBeLate = FALSE
  UserActions = {"resend"}
  MaxJobs = 4
  MaxCommands = 1
  MaxFaults = 1
INVARIANTS
  ConfirmedWasSent
CHECK_DEADLOCK FALSE
