SPECIFICATION FairSpec
CONSTANTS
  t1 = t1
  t2 = t2
  t3 = t3
  Null = Null
  Threads = {t1, t2}
  Calls <- AnyCalls
  Reentrant = {t1}
  Usizes = 64
  Slot <- Slots
INVARIANTS
  WordsAreFaithful
PROPERTIES
  WordsFollow
  IsFairOnceCell
  ReentryDeadlocks
