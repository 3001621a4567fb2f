\* The commit of the registration may be late, that of a cursor update late or
\* never; pages of two objects.
SPECIFICATION FairSpec
CONSTANTS
    Buckets = {a}
    Invalid <- MCInvalid
    PageLen = 2
    HasHeader = TRUE
    SameDates = FALSE
    MaxRetries = 2
    Prompt <- MCSubmit
    Fragile <- MCPut
    MaxFeed = 3
    MaxFaults = 2
PROPERTIES
    EventuallyStored
