SPECIFICATION Spec
CONSTANTS
  a1 = a1 a2 = a2 p1 = p1 p2 = p2
  Apps = {a1}
  Ids = {1}
  Versions = {1}
  Passwords = {p1, p2}
  StrongPasswords = {}
  SessionLength = 3
  PostCopy = 2
  Period = 1
  SkewSteps = 1
  FileLock = TRUE
  ClockMayStepBack = TRUE
  Jumps = {1, 2}
  MaxClock = 4
  MaxKey = 1
  MaxExports = 1
  CapAtAttempts = 3
  CounterMax = 3
  Window <- MCShortWindow
  NoVault = NoVault NoSession = NoSession Idle = Idle
INVARIANTS TypeOK FailuresCounted NoCodeReused
PROPERTIES FailuresSpaced CountKept ExpiredStartsNothing SessionNeverExtended
