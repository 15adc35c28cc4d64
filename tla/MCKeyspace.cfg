SPECIFICATION Spec
CONSTANTS
    k1 = k1
    k2 = k2
    k3 = k3
    Keys = {k1, k2, k3}
    Entries = {k1, k2, k3}
    MaxVal = 1
    MaxTime = 2
    TTLs = {1}
    MaxMemory = {0, 1}
    Policies = {"noeviction", "allkeys-random", "volatile-random", "volatile-ttl"}
    EvictWork = 1
    ExpireWork = 1
    MaxLink = 1
    InStep = TRUE
    Commands <- MCCommands
INVARIANTS BooksExact Converged OomJustified
PROPERTIES EvictionEnds ExpiredGone
CHECK_DEADLOCK FALSE
