SPECIFICATION MCSpec
CONSTANTS
    u1 = u1
    u2 = u2
    u3 = u3
    k1 = k1
    k2 = k2
    small = small
    full = full
    large = large
    s1 = s1
    s2 = s2
    c1 = c1
    c2 = c2
    None = None
    Users = {u1, u2, u3}
    Calls = 2
    MaxSessions = 3
    Faults = {"upstream", "cancel"}
    Clients = {k1, k2}
    Contents = {small, full, large}
    Size <- MCSize
    Shards = {s1, s2}
    Shard <- MCShard
    MaxObject = 2
    Chunk = 2
    MaxFailures = 2
    Tabs = {c1, c2}
    MaximumSessions = 1
    RevisionBudget = 1
    MaxCreated = 3
    MaxGenerations = 2
    Setups <- MCSetups
INVARIANTS
    ClientSound
    ObjectsDurable
    SessionsSound
    MemoryTrue
PROPERTIES
    Bystanders
    UsersReturnFairly
    NoDraftAfterSuite
    RequestsEnd
CHECK_DEADLOCK FALSE
