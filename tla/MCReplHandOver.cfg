\* Liveness: one link fault during the hand-over.
CONSTANTS
  A = A
  B = B
  C = C
  Nil = Nil
  Node = {A, B}
  Boot <- Pair
  Plans <- Drill
  Cap = 2
  MaxConns = 3
  MaxIds = 3
  MaxWrites = 1
  MaxFaults = 1
  MaxRestarts = 0
SPECIFICATION FairSpec
CHECK_DEADLOCK FALSE
PROPERTIES HandOverEnds
