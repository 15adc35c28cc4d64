\* One master, one replica: link faults, bad images and crashes of either.
CONSTANTS
  A = A
  B = B
  C = C
  Nil = Nil
  Node = {A, B}
  Boot <- Pair
  Plans <- Beating
  Cap = 2
  MaxConns = 3
  MaxIds = 3
  MaxWrites = 2
  MaxFaults = 2
  MaxRestarts = 1
SPECIFICATION FairSpec
CHECK_DEADLOCK FALSE
INVARIANTS ReplicaInStep AckMeansApplied
PROPERTIES Converges
