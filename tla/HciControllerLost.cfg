SPECIFICATION Spec
CONSTANTS
  c1 = c1
  c2 = c2
  c3 = c3
  r1 = r1
  b1 = b1
  b2 = b2
  None = None
  Call <- TwoCalls
  Opcode <- Opcodes
  RadioEvent = {r1}
  Buffer = {b1}
  MaxPackets = 2
  CanDrop = {}
  Cap = 5
INVARIANT NothingLost
