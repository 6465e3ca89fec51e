SPECIFICATION Spec
CONSTANTS
  MaxJobs = 2
  MaxEntries = 2
  MaxFaults = 1
INVARIANTS
  EventsAreRecognised
  DeletedIsDone
  DamageIsOnRecord
  GenerationsAreUnique
PROPERTIES
  EntriesLeave
CHECK_DEADLOCK FALSE
