\* A collector that is stopped, crashes, is restarted and re-targeted.
SPECIFICATION Spec
CONSTANTS
    Buckets = {a, b}
    Invalid <- MCInvalid
    PageLen = 1
    HasHeader = TRUE
    SameDates = FALSE
    MaxRetries = 2
    Prompt <- MCAllButPut
    Fragile <- MCPut
    MaxFeed = 3
    MaxFaults = 2
SYMMETRY MCSymmetry
INVARIANTS
    TypeOK
    NoSkip
