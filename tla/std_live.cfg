SPECIFICATION FairSpec
CONSTANTS
  t1 = t1
  t2 = t2
  t3 = t3
  Null = Null
  Threads = {t1, t2, t3}
  Calls <- PartCalls
  Reentrant = {}
  Usizes = 64
  Slot <- Slots
PROPERTIES
  AllReturn
  InitializersReturn
