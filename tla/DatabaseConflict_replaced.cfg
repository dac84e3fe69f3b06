SPECIFICATION Spec
CONSTANTS
  c1 = c1 c2 = c2 c3 = c3
  Calls = {c1, c2, c3}
  NoCall = NoCall
  Databases = {1}
  Scripts <- Replaced
  PageSize = 1
  MaxAttempts = 2
  Faulty = FALSE
PROPERTY CheckProves
CHECK_DEADLOCK FALSE
