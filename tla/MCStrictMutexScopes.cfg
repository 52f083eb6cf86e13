SPECIFICATION FairSpec
CONSTANTS
  t1 = t1
  t2 = t2
  m1 = m1
  m2 = m2
  u1 = u1
  u2 = u2
  s1 = s1
  None = None
  Threads = {t1, t2}
  Mutexes = {m1, m2}
  UniqueGuards = {u1, u2}
  SharedGuards = {s1}
  MaxData = 1
  Nested = FALSE
  OverwriteLocked = FALSE
INVARIANTS
  LockIsGuarded
PROPERTY Released
