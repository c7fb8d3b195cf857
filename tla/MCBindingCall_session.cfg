SPECIFICATION Spec
CONSTANTS
  t1 = t1 t2 = t2 s1 = s1
  Threads = {t1, t2}
  Secrets = {s1}
  PostCopy = 1
  FactOverwrite = TRUE
  None = None
  SessionLength = 1
  MaxClock = 2
  MaxCalls = 4
CHECK_DEADLOCK FALSE
INVARIANTS TypeOK NothingStranded
PROPERTIES EveryCallReturns DropStops
