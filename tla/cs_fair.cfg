SPECIFICATION FairSpec
CONSTANTS
  t1 = t1
  t2 = t2
  t3 = t3
  Null = Null
  Flag = Flag
  Section = Section
  Threads = {t1, t2, t3}
  MaxDepth = 3
INVARIANTS
  OneInside
  ReadsAreInitialized
  NoDataRace
PROPERTIES
  IsFairOnceCell
