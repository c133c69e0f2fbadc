SPECIFICATION Spec
CONSTANTS
  c1 = c1
  c2 = c2
  c3 = c3
  c4 = c4
  j1 = j1
  j2 = j2
  Null = Null
  Commits = {c1, c2, c3, c4}
  Jobs = {j1, j2}
  VersionOf <- BumpedOnce
  Fresh = {c1, c2, c4}
INVARIANTS
  TagIsOfPublished
  GreenMeansReleased
PROPERTY
  TestedBeforePublished
