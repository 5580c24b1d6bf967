SPECIFICATION Spec

CONSTANTS
  admin = admin
  NoPayload = NoPayload
  Conditions = {admin}
  RuleSets <- MCRuleSets
  Targets <- MCTargets

INVARIANTS
  FirstMatchWins
CHECK_DEADLOCK FALSE
