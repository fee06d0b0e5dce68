CONSTANTS
  t1 = t1  t2 = t2  t3 = t3
  Threads = {t1, t2, t3}
  Report <- MCLines
  CanFailWrite = TRUE
SPECIFICATION Spec
CHECK_DEADLOCK FALSE
INVARIANTS
  InReportOrder
  ScriptComplete
PROPERTY Ends
