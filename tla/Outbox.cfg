SPECIFICATION FairSpec
CONSTANTS
  Event = {e1, e2}
  Publisher = {p, q}
  MaxAttempts = 3
  MaxFaults = 2
INVARIANTS
  TypeOK
  OneHolder
  ProcessedHasRun
  DeadOnlyWhenExhausted
PROPERTY KeepsPromise
CHECK_DEADLOCK FALSE
