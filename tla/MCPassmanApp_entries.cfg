SPECIFICATION Spec
CONSTANTS
  a1 = a1 a2 = a2 p1 = p1 p2 = p2
  Apps = {a1, a2}
  Ids = {1, 2}
  Versions = {1, 2}
  Passwords = {p1}
  StrongPasswords = {p1}
  SessionLength = 4
  PostCopy = 1
  Period = 1
  SkewSteps = 0
  FileLock = TRUE
  ClockMayStepBack = FALSE
  Jumps = {1}
  MaxClock = 2
  MaxKey = 2
  MaxExports = 1
  CapAtAttempts = 0
  CounterMax = 1
  Window <- MCOpenWindow
  NoVault = NoVault NoSession = NoSession Idle = Idle
SYMMETRY MCSymmetry
INVARIANTS VaultCoherent SessionCurrent ExportsKnown
PROPERTIES EntriesLinearizable
