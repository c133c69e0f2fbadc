SPECIFICATION Spec
CONSTANTS
  v1 = v1
  v2 = v2
  v3 = v3
  v4 = v4
  Null = Null
  Values = {v1, v2, v3, v4}
  MaxDepth = 12
INVARIANTS
  RefsAreValid
