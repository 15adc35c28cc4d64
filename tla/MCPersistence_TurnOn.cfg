SPECIFICATION Spec
CONSTANTS
  Absent = Absent
  Deployments <- TurnOn
PROPERTIES ShutdownKeepsAll
