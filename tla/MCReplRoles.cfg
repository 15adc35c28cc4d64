\* Roles changed by hand and by FAILOVER, clients writing, links failing.
CONSTANTS
  A = A
  B = B
  C = C
  Nil = Nil
  Node = {A, B}
  Boot <- Pair
  Plans <- Roles
  Cap = 2
  MaxConns = 3
  MaxIds = 4
  MaxWrites = 2
  MaxFaults = 1
  MaxRestarts = 0
SPECIFICATION Spec
CHECK_DEADLOCK FALSE
INVARIANTS ReplicaInStep OneHistoryPerId FailoverOneWriter FailoverLosesNothing
