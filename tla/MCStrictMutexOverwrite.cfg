SPECIFICATION Spec
CONSTANTS
  t1 = t1
  t2 = t2
  m1 = m1
  m2 = m2
  u1 = u1
  u2 = u2
  s1 = s1
  s2 = s2
  None = None
  Threads = {t1, t2}
  Mutexes = {m1, m2}
  UniqueGuards = {u1, u2}
  SharedGuards = {s1, s2}
  MaxData = 2
  Nested = TRUE
  OverwriteLocked = TRUE
SYMMETRY Symmetry
\* Two threads may each wait for the mutex that the other owns.
CHECK_DEADLOCK FALSE
INVARIANTS
  LockIsGuarded
