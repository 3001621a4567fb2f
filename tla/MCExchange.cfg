SPECIFICATION FairSpec
CONSTANTS
    raw = raw
    shared = shared
    r = r
    w1 = w1
    w2 = w2
    a1 = a1
    a2 = a2
    Admins = {a1, a2}
    Emails = {"reader", "writer"}
    Roles = {"analyst", "feed"}
    Initial <- MCInitial
    Buckets = {raw, shared}
    Readers = {r}
    Writers = {w1, w2}
    UserOf <- MCUserOf
    Collections <- MCCollections
    CanRead <- MCCanRead
    CanWrite <- MCCanWrite
    Batches <- MCBatches
    Limits = {1, 2}
    PlatformId <- MCPlatformId
    Capacities <- MCCapacities
    Budgets <- MCBudgets
INVARIANTS
    TypeOK
    AnswersHold
    NothingMissed
    RefsResolve
PROPERTIES
    ImplementsDirectory
    PagesDisjoint
    EventuallyAnswered
CHECK_DEADLOCK FALSE
