SPECIFICATION FairSpec

CONSTANTS
  a = a
  b = b
  c1 = c1
  c2 = c2
  p1 = p1
  p2 = p2
  NoFile = NoFile
  NoText = NoText
  None = None
  Tokens = {a, b}
  Calls = {c1, c2}
  Paths = {p1}
  Texts <- OneText
  EditBatches <- OneBatch
  Faults = {"read", "save", "mkdir", "open", "write", "remove"}
  Overlap = TRUE
  ShellPaths = {p1}
  Crashes = TRUE

INVARIANTS
  LockDiscipline
PROPERTIES
  EntriesUnderLock
  EveryCallReturns
