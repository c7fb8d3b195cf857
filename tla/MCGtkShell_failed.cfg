SPECIFICATION Spec
CONSTANTS
  s1 = s1 s2 = s2
  SessionLength = 2
  PostCopy = 1
  FactOverwrite = TRUE
  None = None
  Secrets = {s1}
  MaxClock = 3
  MaxSent = 4
  OverlappingCopies = FALSE
CHECK_DEADLOCK FALSE
INVARIANTS WipedAtTheEnd
