CONSTANTS
  c1 = c1
  c2 = c2
  c3 = c3
  Calls = {c1, c2, c3}
  NoCall = NoCall
  Ops <- OpNames
  Targets = {1, 2}
  Values = {0, 1, 2}
  Scripts <- AllScripts
  Faulty = TRUE
  Off = 1
  NoPermissions = 0
SPECIFICATION FairSpec
CHECK_DEADLOCK FALSE
INVARIANTS TypeOK OneRuleEach CreatesBounded
PROPERTIES UpdatesAtomic CreateSparesOthers CallsReturn
