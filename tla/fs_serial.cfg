SPECIFICATION Spec

CONSTANTS
  a = a
  b = b
  c1 = c1
  c2 = c2
  p1 = p1
  p2 = p2
  NoFile = NoFile
  NoText = NoText
  None = None
  Tokens = {a, b}
  Calls = {c1, c2}
  Paths = {p1, p2}
  Texts <- FewTexts
  EditBatches <- FewBatches
  Faults = {"read", "mkdir", "open", "write", "remove"}
  Overlap = FALSE
  ShellPaths = {}
  Crashes = TRUE

SYMMETRY Symmetry
INVARIANTS
  TypeOK
  UndoCovers
  SerialInv
PROPERTIES
  EntryOutlivesFailure
  ImplementsUndoHistory
  AnswerIsOnDisk
