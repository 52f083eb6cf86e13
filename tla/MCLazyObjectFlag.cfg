SPECIFICATION Spec
CONSTANTS
  o1 = o1
  o2 = o2
  v1 = v1
  v2 = v2
  None = None
  Wreck = Wreck
  Objects = {o1, o2}
  Values = {v1, v2}
SYMMETRY Symmetry
INVARIANT FlagIsTruth
