\* Two servers start together on an empty database.
SPECIFICATION Spec
CONSTANTS
    raw = raw
    shared = shared
    Servers = {s1, s2}
    Names = {raw, shared}
    Configs <- MCConfigs
    Rolling = FALSE
    MaxStarts = 2
PROPERTIES
    StartsAsConfigured
