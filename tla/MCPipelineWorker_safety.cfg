SPECIFICATION Spec
CONSTANTS
    raw = raw
    refined = refined
    shared = shared
    tag = tag
    share = share
    good = good
    bad = bad
    NoPipeline = NoPipeline
    Buckets = {raw, refined, shared}
    Pipelines = {tag, share}
    Origins = {good, bad}
    Workers = {w1, w2}
    Pairs <- MCPairs
    Sinks <- MCSinks
    Fails <- MCFails
    Provisioned = {raw, refined}
    Targets = {raw, refined}
    Signalled = {}
    BatchSize = 2
    MaxIngest = 2
    MaxFailures = 1
SYMMETRY MCSymmetry
INVARIANTS
    TypeOK
    ExactlyOnce
    NothingStranded
    HeldApart
PROPERTY ImplementsFlow
