SPECIFICATION Spec
CONSTANTS
  Absent = Absent
  Deployments <- Orphan
INVARIANTS LogLoads
