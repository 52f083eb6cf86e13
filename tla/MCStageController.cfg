SPECIFICATION FairSpec
CONSTANTS
  t1 = t1
  t2 = t2
  a = a
  b = b
  c = c
  None = None
  Threads = {t1, t2}
  Stages = {a, b, c}
  InitStage = a
  Lists <- MCLists
INVARIANT TypeOK
PROPERTIES
  ImplementsAtomicStage
  CallsReturn
