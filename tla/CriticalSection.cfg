SPECIFICATION Spec
CONSTANTS
  Isr = 3
  Reserved = {1, 3}
  MaxNest = 2
INVARIANTS TypeOK InternalExcludesAll ImplExcludesOthers InCriticalIsOwn Restored OutermostEnds
