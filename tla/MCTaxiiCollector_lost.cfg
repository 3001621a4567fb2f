\* The commit of a batch fails once it has been answered.
SPECIFICATION Spec
CONSTANTS
    Buckets = {a}
    Invalid <- MCNone
    PageLen = 1
    HasHeader = TRUE
    SameDates = FALSE
    MaxRetries = 2
    Prompt <- MCRegister
    Fragile <- MCSubmit
    MaxFeed = 2
    MaxFaults = 1
INVARIANTS
    NoSkip
