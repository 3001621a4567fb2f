\* The first submission overtakes the commit of the registration.
SPECIFICATION Spec
CONSTANTS
    Buckets = {a, b}
    Invalid <- MCNone
    PageLen = 1
    HasHeader = TRUE
    SameDates = FALSE
    MaxRetries = 2
    Prompt <- MCSubmit
    Fragile <- MCNone
    MaxFeed = 2
    MaxFaults = 1
INVARIANTS
    NoSkip
