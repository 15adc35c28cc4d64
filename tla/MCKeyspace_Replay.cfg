SPECIFICATION Spec
CONSTANTS
    k1 = k1
    k2 = k2
    k3 = k3
    Keys = {k1, k2, k3}
    Entries = {k1, k2, k3}
    MaxVal = 1
    MaxTime = 2
    TTLs = {1}
    MaxMemory = {0}
    Policies = {"noeviction"}
    EvictWork = 1
    ExpireWork = 1
    MaxLink = 2
    InStep = FALSE
    Commands <- MCCommands
INVARIANT Converged
CHECK_DEADLOCK FALSE
