\* A full resync cut short leaves a replica that streams on the wrong data.
CONSTANTS
  A = A
  B = B
  C = C
  Nil = Nil
  Node = {A, B}
  Boot <- Pair
  Plans <- Idle
  Cap = 2
  MaxConns = 3
  MaxIds = 2
  MaxWrites = 2
  MaxFaults = 1
  MaxRestarts = 0
SPECIFICATION Spec
CHECK_DEADLOCK FALSE
INVARIANTS ReplicaCorrect
