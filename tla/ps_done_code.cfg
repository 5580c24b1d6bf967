SPECIFICATION Spec

CONSTANTS
  j1 = j1
  j2 = j2
  k1 = k1
  k2 = k2
  None = None
  Jobs = {j1}
  Clients = {k1}
  Codes = {0, 1}
  MaxOutput = 0
  Detaches = FALSE
  Crashes = FALSE
  Faults = {}

INVARIANTS
  DoneReportHasExitCode
CHECK_DEADLOCK FALSE
