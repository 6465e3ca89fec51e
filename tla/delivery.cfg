SPECIFICATION Spec
CONSTANTS
  Relay = {r1, r2}
  Consumer = {c1}
  Recoverer = {f1}
  Nobody = Nobody
  Volatile = TRUE
  MaxJobs = 2
  MaxEntries = 2
  MaxFaults = 1
INVARIANTS
  AckedIsFinished
  PublishedIsReadable
PROPERTIES
  EveryJobFinishes
  EveryEntryAcked
CHECK_DEADLOCK FALSE
