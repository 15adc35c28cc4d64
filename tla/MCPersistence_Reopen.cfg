SPECIFICATION FairSpec
CONSTANTS
  Absent = Absent
  Deployments <- Reopen
PROPERTIES WritesReachLog
