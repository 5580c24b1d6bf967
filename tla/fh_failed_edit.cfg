SPECIFICATION HistSpec

CONSTANTS
  a = a
  b = b
  c1 = c1
  c2 = c2
  p1 = p1
  p2 = p2
  NoFile = NoFile
  NoText = NoText
  None = None
  Tokens = {a, b}
  Calls = {c1}
  Paths = {p1}
  Texts <- FewTexts
  EditBatches <- FewBatches
  Faults = {}
  Overlap = FALSE
  ShellPaths = {}
  Crashes = FALSE

INVARIANTS
  UndoRevertsLastModification
