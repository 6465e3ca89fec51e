SPECIFICATION Spec
CONSTANTS
  Worker = {w1, w2}
  None = None
  lead = lead
  contact = contact
  document = document
  activity = activity
  paid = paid
  NColumns = 5
  Document = 2
  Audit = {3}
  Paid = {4}
  Unrecorded = {5}
  Write = {lead, contact, document, activity, paid}
  Field <- ClientColumns
  Optional = {lead}
  MaxUnknown = 0
  MaxRetries = 0
  MaxJobs = 4
  MaxToken = 3
SYMMETRY WorkerSymmetry
INVARIANTS FormationNotForgotten
CHECK_DEADLOCK FALSE
