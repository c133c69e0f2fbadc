SPECIFICATION FairSpec
CONSTANTS
  t1 = t1
  t2 = t2
  a = a
  b = b
  c = c
  d = d
  Null = Null
  Threads = {t1, t2}
  Lazies = {a, b, c, d}
  Needs <- MixedNeeds
  Unsync = {c, d}
  Home = t1
  MaxDepth = 3
INVARIANTS
  FunctionOrValue
PROPERTIES
  CalledOnce
  CallsReturn
  AreOnceCells
