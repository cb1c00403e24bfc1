SPECIFICATION FairSpec
CONSTANTS
  Issue = {i, j}
  None = None
  Handler = {h, g}
  PageSize = 1
  Window = 1
  MaxRev = 2
  MaxChanges = 2
  MaxTime = 2
  MaxFaults = 1
INVARIANTS TypeOK CursorSound
PROPERTIES KeepsInboxPromise MissedWebhookRepaired
CHECK_DEADLOCK FALSE
