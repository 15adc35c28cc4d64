\* After a FAILOVER the third server redials the demoted node, which pings it.
CONSTANTS
  A = A
  B = B
  C = C
  Nil = Nil
  Node = {A, B, C}
  Boot <- Trio
  Plans <- BeatingDrill
  Cap = 2
  MaxConns = 4
  MaxIds = 4
  MaxWrites = 0
  MaxFaults = 0
  MaxRestarts = 0
SPECIFICATION Spec
CHECK_DEADLOCK FALSE
INVARIANTS LinkExact
