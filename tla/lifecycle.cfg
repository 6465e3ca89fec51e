SPECIFICATION Spec
CONSTANTS
  MaxUnknown = 0
  MaxRetries = 1
  MayBeAmbiguous = TRUE
  MayBeLate = TRUE
  UserActions = {"cancel", "resend", "select"}
  MaxJobs = 5
  MaxCommands = 1
  MaxFaults = 2
INVARIANTS
  TypeOK
  CallbackNotLost
  PaidIsFollowedUp
PROPERTIES
  FinalStaysFinal
  FinalIsSilent
  PaidIsRecognised
  PaymentSettles
CHECK_DEADLOCK FALSE
