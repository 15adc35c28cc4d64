SPECIFICATION Spec
CONSTANTS
    Fds = {1, 2}
    MaxConns = 3
    MaxSent = 4
    Users = {"u"}
    Channels = {"c"}
    Replicas = {r1}
    MaxAuth = 2
    MaxFailed = 2
    Workers = 2
    MaxTime = 1
    MaxGen = 2
    Menus <- AckMenus
INVARIANT RepliesInOrder
CHECK_DEADLOCK FALSE
