SPECIFICATION FairSpec

CONSTANTS
  c1 = c1
  c2 = c2
  c3 = c3
  x = x
  y = y
  v = v
  None = None
  Callers = {c1, c2, c3}
  Keys = {x, y}
  Values = {v}

INVARIANTS
  TypeOK
  WriterAlone
  ListIsSnapshot
PROPERTIES
  EveryCallReturns
