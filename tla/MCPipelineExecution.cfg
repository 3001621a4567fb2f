SPECIFICATION Spec
CONSTANTS
    Fields <- MCFields
    Conditions <- MCConditions
    Substrings <- MCSubstrings
    StixIds <- MCStixIds
    TlpValues <- MCTlpValues
    PlatformId <- MCPlatformId
    Letters <- MCLetters
    Buckets <- MCBuckets
    Configs <- MCConfigs
    Pending <- MCPending
    Tables <- MCTables
    Late <- MCLate
INVARIANTS
    TypeOK
    Verdict
    ActsOnMeanings
    FailsForCause
    NonInterference
    OriginalRefs
CHECK_DEADLOCK FALSE
