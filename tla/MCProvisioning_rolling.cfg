\* One server starts at a time; the file changes at any moment.
SPECIFICATION Spec
CONSTANTS
    raw = raw
    shared = shared
    Servers = {s1, s2}
    Names = {raw, shared}
    Configs <- MCConfigs
    Rolling = TRUE
    MaxStarts = 4
SYMMETRY MCSymmetry
INVARIANTS
    TypeOK
    AppendKept
PROPERTIES
    StartsAsConfigured
