\* A poisoned EXEC keeps the watches of the attempt it ended.
CONSTANTS
  Conn = {c1, c2}
  Key = {k1, k2}
  Idle = Idle
  Nothing = Nothing
  MaxQueue = 1
SPECIFICATION Spec
SYMMETRY Symmetry
INVARIANTS WatchGuardsOneAttempt
