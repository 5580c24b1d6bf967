SPECIFICATION Spec

CONSTANTS
  one = one
  two = two
  top = top
  sub = sub
  plain = plain
  low = low
  dot = dot
  Absent = Absent
  Dir = Dir
  NotGiven = NotGiven
  Nodes <- MCNodes
  Root = top
  Parent <- MCParent
  Order <- MCOrder
  Hidden = {dot}
  Texts <- MCTexts
  NewTexts <- MCNewTexts
  MaxInt = 7
  Unstable = {sub, low}
  MaxChanges = 2
  Trees <- MCTrees
  LockedSets <- MCLocked
  SearchRequests <- MCSearchRequests
  ListRequests <- MCListRequests
  DiffRequests <- MCDiffRequests
  ReadRequests <- MCReadRequests

INVARIANTS
  TypeOK
  SearchIsComplete
  ContextIsAround
  ListingIsTree
  DiffIsMinimal
  FragmentsAreRanges
PROPERTIES
  EveryReadEnds
  EveryStepIsProgress
CHECK_DEADLOCK FALSE
