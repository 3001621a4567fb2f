SPECIFICATION FairSpec
CONSTANTS
    raw = raw
    refined = refined
    shared = shared
    tag = tag
    share = share
    good = good
    bad = bad
    NoPipeline = NoPipeline
    Buckets = {raw, refined, shared}
    Pipelines = {tag, share}
    Origins = {good, bad}
    Workers = {w1, w2}
    Pairs <- MCChainPairs
    Sinks <- MCChainSinks
    Fails <- MCFails
    Provisioned = {raw, refined, shared}
    Targets = {raw}
    Signalled = {}
    BatchSize = 1
    MaxIngest = 2
    MaxFailures = 1
PROPERTIES
    Drains
