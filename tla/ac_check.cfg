SPECIFICATION Spec

CONSTANTS
  admin = admin
  NoPayload = NoPayload
  Conditions = {admin}
  RuleSets <- MCRuleSets
  Targets <- MCTargets

INVARIANTS
  TypeOK
  VerdictIsUnionOfRules
  PatternReach
CHECK_DEADLOCK FALSE
