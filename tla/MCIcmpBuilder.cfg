SPECIFICATION Spec
CONSTANTS
  Places = {p1, p2}
  p1 = p1
  p2 = p2
  Headers <- MCHeaders
  None = None
  Types = {"EchoRequest", "Unreached", "TimeExceeded", "Redirect"}
  Codes = {"None", "PortUnreachable", "TTLCountExceeded", "FragmentReassTimeExceeded"}
  Word = 2
INVARIANTS TypeOK TypeAndCodeReadBack CodeIsOfType
SYMMETRY Symmetry
