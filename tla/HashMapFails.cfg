SPECIFICATION SpecWithFailures
CONSTANTS
  qa = qa
  sa = sa
  i1 = i1
  i2 = i2
  Objs <- FewObjs
  class <- MCclass
  hash <- MChash
  Qstrs <- MCQstrs
  Strs <- MCStrs
  Null = Null
  Sentinel = Sentinel
  Kinds = {"ordered", "set"}
  Inits = {2}
  MaxAlloc = 8
INVARIANT TableSized
