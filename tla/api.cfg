SPECIFICATION FairSpec
CONSTANTS
  t1 = t1
  t2 = t2
  v1 = v1
  v2 = v2
  v3 = v3
  Null = Null
  Threads = {t1, t2}
  Values = {v1, v2, v3}
INVARIANTS
  OneOwner
  NothingMissing
PROPERTIES
  SetAnswersForItsValue
  SetReturns
CHECK_DEADLOCK FALSE
