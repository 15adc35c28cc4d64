SPECIFICATION Spec
CONSTANTS
  Absent = Absent
  Deployments <- DiskFull
INVARIANTS LogIsData
