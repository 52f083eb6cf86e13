SPECIFICATION Spec
CONSTANTS
  m1 = m1
  m2 = m2
  Managers = {m1, m2}
  IFaces = {1}
  Capacity = 1
  Fds = {0, 1, 2}
  Inherited = {0}
  a = a
  Addresses = {a}
  Malformed = Malformed
  None = None
  Configs <- MCConfigs
PROPERTY MtuApplied
CHECK_DEADLOCK FALSE
