SPECIFICATION TransportSpec
CONSTANTS
  c1 = c1
  c2 = c2
  r1 = r1
  b1 = b1
  b2 = b2
  a1 = a1
  a2 = a2
  None = None
  Call = {c1, c2}
  Opcode <- Opcodes
  RadioEvent = {r1}
  Buffer = {b1, b2}
  MaxPackets = 2
  CanDrop = {"lock", "wait", "read"}
  Cap = 4
  Chain = {a1, a2}
  MaxRx = 2
SYMMETRY Symmetry
INVARIANTS OneHolder AclInOrder
CHECK_DEADLOCK FALSE
