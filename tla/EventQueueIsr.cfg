SPECIFICATION FairSpec
CONSTANTS
  e1 = e1
  e2 = e2
  e3 = e3
  NoEvent = NoEvent
  Event <- Three
  Isr = 2
  Putters <- OneOwner
  ChecksQueued = TRUE
  Removes = FALSE
  Unmasked <- OnlyHighest
  Cap = 3
  LenMod = 4
  OverflowChecks = FALSE
INVARIANTS TypeOK NoDuplicate FlagMatchesChannel NoOverflow
PROPERTIES Served
CHECK_DEADLOCK FALSE
