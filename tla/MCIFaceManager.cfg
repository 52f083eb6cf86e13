SPECIFICATION Spec
CONSTANTS
  m1 = m1
  m2 = m2
  Managers = {m1, m2}
  IFaces = {1}
  Capacity = 1
  Fds = {0, 1, 2}
  Inherited = {0}
  a = a
  Addresses = {a}
  Malformed = Malformed
  None = None
  Configs <- MCConfigs
INVARIANTS TypeOK SocketIsPositive SocketIsOwn NoSocketLeaks
PROPERTIES AddressesApplied PromiscApplied
SYMMETRY Symmetry
CHECK_DEADLOCK FALSE
