SPECIFICATION FairSpec
CONSTANTS
  c1 = c1 c2 = c2 c3 = c3
  Calls = {c1, c2, c3}
  NoCall = NoCall
  Databases = {1, 2}
  Scripts <- AnyCalls
  PageSize = 1
  MaxAttempts = 2
  Faulty = TRUE
INVARIANTS TypeOK CreatesBounded DeletedOrRecreated ListsWhole
PROPERTIES CheckProvesUndeleted CallsReturn
CHECK_DEADLOCK FALSE
