SPECIFICATION Spec
CONSTANTS
    MaxNames = 4
    MaxRoots = 3
    NoVault = NoVault
    Idle = Idle
    NoLevel = NoLevel
\* The names and the mock's keys run out.
CHECK_DEADLOCK FALSE
INVARIANTS
    TypeOK
    SlotBound
    LossIsReal
    KeysKept
    NoSilentDowngrade
