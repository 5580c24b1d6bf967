SPECIFICATION ServerSpec

CONSTANTS
  old = old
  new = new
  rs = rs
  hs = hs
  ps = ps
  s1 = s1
  s2 = s2
  h1 = h1
  NoHeader = NoHeader
  Malformed = Malformed
  NoPayload = NoPayload
  NoKeys = NoKeys
  Garbage = Garbage
  None = None
  aUser = aUser
  admin = admin
  Claims <- MCClaims
  Rules = {admin}
  RuleSets <- MCRuleSets
  Targets <- MCTargets
  ClientCalls <- MCClientCalls
  Handlers = {h1}
  Kids = {old, new}
  Algs = {rs, hs, ps}
  Secrets = {s1, s2}
  Family <- MCFamily
  KeySets <- MCKeySets
  Tokens <- MCTokens
  MaxRotations = 2
  Faults = {"unreachable", "garbage", "document"}

INVARIANTS
  ServerTypeOK
  ServedIsVerified
  RunIsAuthorised
  DenialIsJustified
PROPERTIES
  RefusalIsJustified
  CacheCatchesUp
