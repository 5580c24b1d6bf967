SPECIFICATION Spec

CONSTANTS
  j1 = j1
  j2 = j2
  k1 = k1
  k2 = k2
  None = None
  Jobs = {j1, j2}
  Clients = {k1}
  Codes = {0, 1}
  MaxOutput = 1
  Detaches = TRUE
  Crashes = TRUE
  Faults = {"fork"}

SYMMETRY Symmetry
INVARIANTS
  TypeOK
  IdNamesItsJob
  DoneMeansOver
  ExecAnswersTruly
CHECK_DEADLOCK FALSE
