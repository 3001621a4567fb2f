SPECIFICATION FairSpec
CONSTANTS
    raw = raw
    refined = refined
    shared = shared
    tag = tag
    share = share
    good = good
    bad = bad
    NoPipeline = NoPipeline
    Buckets = {raw, refined, shared}
    Pipelines = {tag, share}
    Origins = {good, bad}
    Workers = {w1, w2}
    Pairs <- MCChainPairs
    Sinks <- MCChainSinks
    Fails <- MCFails
    Provisioned = {raw, refined, shared}
    Targets = {raw}
    Signalled = {w1, w2}
    BatchSize = 1
    MaxIngest = 1
    MaxFailures = 2
PROPERTIES
    StopsCleanly
\* Every worker may have been told to stop.
CHECK_DEADLOCK FALSE
