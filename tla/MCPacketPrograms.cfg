SPECIFICATION Spec
CONSTANTS
  t1 = t1
  t2 = t2
  p1 = p1
  p2 = p2
  Threads = {t1, t2}
  Processes = {p1, p2}
  Fds = {0, 1, 2}
  None = None
  Torn = Torn
  Depth = 2
  IFaces = {0, 1}
  Mac <- MCMac
  Ip <- MCIp
  Fields <- MCFields
  Programs <- MCPrograms
  ServerMac = 1
  Port = 77
  Foreign <- MCForeign
  BufferLength = 8
INVARIANTS TypeOK HeldIsOwn NothingLeaks SentIsOwn ViewersFollowBuilders PrintedIsReceived TcpShownIsInPlace
SYMMETRY Symmetry
