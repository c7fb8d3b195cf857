SPECIFICATION Spec
CONSTANTS
    Max16 = 12
    Bucket = 4
    FloorM = 8
    FloorT = 2
    MaxM = 16
    MaxT = 8
    MaxP = 2
    MaxCell = 12
    MaxEdits = 2
    Refused = Refused
    Vaults <- MCVaults
    Recoveries <- MCRecoveries
    Blobs <- MCBlobs
    Lowercase <- MCLowercase
    Uppercase <- MCUppercase
    Numerals <- MCNumerals
    SymbolSets <- MCSymbolSets
    MinLength = 2
    MaxLength = 4
    DefaultRequest <- MCDefault
    Policies <- MCPolicies
    MaxWord = 15
    Base = 2
    Digits = 2
    StepLength = 2
    Skew = 1
    MaxTruncated = 5
    MaxTime = 5
INVARIANTS
    RoundTrips
    WholeOrRefused
    GeneratedAsAsked
    DrawsUniform
    FreshCodeAccepted
CHECK_DEADLOCK FALSE
