SPECIFICATION Spec
CONSTANTS
  e1 = e1
  e2 = e2
  e3 = e3
  NoEvent = NoEvent
  Event <- Two
  Isr = 0
  Putters <- Anyone
  ChecksQueued = FALSE
  Removes = TRUE
  Unmasked = {}
  Cap = 3
  LenMod = 8
  OverflowChecks = TRUE
INVARIANT LenExact
PROPERTY ImplementsFifo
CHECK_DEADLOCK FALSE
