SPECIFICATION MCSpec
CONSTANTS
  Nodes = {n1, n2, n3, n4, n5}
  Keys = {1, 2}
  Null = Null
  qa = qa
  qb = qb
  sa = sa
  i1 = i1
  true1 = true1
  i2 = i2
  i3 = i3
  Sentinel = Sentinel
  Kinds = {"map", "ordered", "set"}
  Inits = {0, 1, 3}
  MaxAlloc = 8
SYMMETRY Symmetric
INVARIANTS OutsideIsClean Linked Findable TableSized
PROPERTIES Stable KeepsKeys
