SPECIFICATION Spec
CONSTANTS
  t1 = t1
  t2 = t2
  t3 = t3
  Null = Null
  Threads = {t1, t2, t3}
  Calls <- AnyCalls
  Reentrant = {}
  Usizes = 64
  Slot <- Slots
SYMMETRY Symmetry
INVARIANTS
  RunningIsOwned
  ReadsAreInitialized
  NoDataRace
  NoUseAfterReturn
  ListsAreDisjoint
  NoWaiterIsLost
PROPERTIES
  IsOnceCell
