SPECIFICATION FairSpec
CONSTANTS
  t1 = t1
  t2 = t2
  t3 = t3
  Null = Null
  State = State
  Bucket = Bucket
  Threads = {t1, t2, t3}
  Calls <- AnyCalls
  Reentrant = {t1, t2, t3}
  MaxBehind = 3
INVARIANTS
  ReadsAreInitialized
  NoDataRace
  SleepersWillBeWoken
PROPERTIES
  IsFairOnceCell
CHECK_DEADLOCK FALSE
