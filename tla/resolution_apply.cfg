SPECIFICATION ResolutionSpec
CONSTANTS
  MaxContacts = 2
  MaxLeads = 2
  MaxEdits = 0
  MaxFailures = 0
INVARIANT
  AnsweredOnce
CHECK_DEADLOCK FALSE
