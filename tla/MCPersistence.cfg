\* Six deployments: rewrites, kills, write errors, every fault, dumps only, orphaned rewrites.
SPECIFICATION ErrorsSpec
CONSTANTS
  Absent = Absent
  Deployments <- AllDeployments
INVARIANTS DirtyExact LogReplays
PROPERTIES SyncedSurvives StopKeepsAll WritesLand
