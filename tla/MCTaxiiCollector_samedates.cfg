\* Objects with one date_added on both sides of a page boundary.
SPECIFICATION Spec
CONSTANTS
    Buckets = {a}
    Invalid <- MCNone
    PageLen = 1
    HasHeader = TRUE
    SameDates = TRUE
    MaxRetries = 2
    Prompt <- MCAll
    Fragile <- MCNone
    MaxFeed = 2
    MaxFaults = 1
INVARIANTS
    NoSkip
