SPECIFICATION Spec
CONSTANTS
  p1 = p1
  p2 = p2
  Places = {p1, p2}
  Headers <- MCHeaders
  None = None
  Word = 16
  Byte = 4
  OffsetBits = 2
  PlainWords = {"first"}
  Parts <- MCParts
  AddrWords = {"saddr_hi", "saddr_lo"}
  Numbers = {1, 31}
INVARIANTS TypeOK SealedVerifies OffsetReadsBack
PROPERTY StaleIsSeen
SYMMETRY Symmetry
