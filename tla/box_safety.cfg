SPECIFICATION Spec
CONSTANTS
  t1 = t1
  t2 = t2
  t3 = t3
  c1 = c1
  c2 = c2
  b1 = b1
  b2 = b2
  b3 = b3
  Null = Null
  Threads = {t1, t2, t3}
  Cells = {c1, c2}
  Boxes = {b1, b2, b3}
  MaxClosures = 2
SYMMETRY Symmetry
INVARIANTS
  OneOwner
  RefsAreAlive
  ContentsAreInitialized
