SPECIFICATION FairSpec
CONSTANTS
  c1 = c1 c2 = c2 c3 = c3 t1 = t1 t2 = t2 t3 = t3 s1 = s1 s2 = s2
  Calls = {c1, c2, c3}
  NoCall = NoCall
  Topics = {t1, t2, t3}
  Services = {s1, s2}
  ServiceOf <- TwoServices
  Scripts <- SameReads
  BatchSize = 2
  MaxAttempts = 2
  PowersOff = {}
PROPERTY ReadsReturn
CHECK_DEADLOCK FALSE
