SPECIFICATION FairSpec
CONSTANTS
  careful = careful
  careless = careless
  Callout <- Both
  Careful = {careful}
  TickHz = 32768
  Mod = 4
  Ticks = {0, 1, 2, 3}
  Cap = 3
  OverflowChecks = FALSE
  MaxTime = 6
INVARIANTS TypeOK NeverLate StrandedOnlyInReset WrapLosesDelay
PROPERTIES EarlyOnlyIfOlder ImplementsOneShot Expires
CHECK_DEADLOCK FALSE
