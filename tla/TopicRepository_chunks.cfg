SPECIFICATION Spec
CONSTANTS
  c1 = c1 c2 = c2 c3 = c3 t1 = t1 t2 = t2 t3 = t3 s1 = s1 s2 = s2
  Calls = {c1, c2, c3}
  NoCall = NoCall
  Topics = {t1, t2, t3}
  Services = {s1, s2}
  ServiceOf <- TwoServices
  Scripts <- DistinctReads
  BatchSize = 1
  MaxAttempts = 2
  PowersOff = {}
INVARIANT WorkerSurvives
CHECK_DEADLOCK FALSE
