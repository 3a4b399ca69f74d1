SPECIFICATION Spec
CONSTANTS
  e1 = e1
  e2 = e2
  e3 = e3
  NoEvent = NoEvent
  Event <- Two
  Isr = 1
  Putters <- FromInterrupt
  ChecksQueued = TRUE
  Removes = TRUE
  Unmasked = {}
  Cap = 2
  LenMod = 4
  OverflowChecks = FALSE
INVARIANT RemoveFindsEntries
CHECK_DEADLOCK FALSE
