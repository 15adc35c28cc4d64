\* Two clients racing on two keys, with evictions, flushes and pauses.
CONSTANTS
  Conn = {c1, c2}
  Key = {k1, k2}
  Idle = Idle
  Nothing = Nothing
  MaxQueue = 1
SPECIFICATION Spec
SYMMETRY Symmetry
INVARIANTS WatchesSound
PROPERTIES ExecOnlyIfUnchanged
