SPECIFICATION FairSpec

CONSTANTS
  j1 = j1
  j2 = j2
  k1 = k1
  k2 = k2
  None = None
  Jobs = {j1}
  Clients = {k1, k2}
  Codes = {0, 1}
  MaxOutput = 2
  Detaches = TRUE
  Crashes = FALSE
  Faults = {"fork", "copy"}

PROPERTIES
  ExecAnswers
  WaiterEndsWithShell
  KilledJobIsDone
CHECK_DEADLOCK FALSE
