SPECIFICATION Spec

CONSTANTS
  old = old
  new = new
  rs = rs
  hs = hs
  ps = ps
  s1 = s1
  s2 = s2
  h1 = h1
  NoHeader = NoHeader
  Malformed = Malformed
  NoPayload = NoPayload
  NoKeys = NoKeys
  Garbage = Garbage
  None = None
  aUser = aUser
  Claims = {aUser}
  Handlers = {h1}
  Kids = {old, new}
  Algs = {rs, hs, ps}
  Secrets = {s1, s2}
  Family <- MCFamily
  KeySets <- FewKeySets
  Tokens <- OneToken
  MaxRotations = 0
  Faults = {}

INVARIANTS
  EveryRequestIsValidated
