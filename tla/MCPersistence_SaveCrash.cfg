SPECIFICATION Spec
CONSTANTS
  Absent = Absent
  Deployments <- SaveCrash
PROPERTIES SavedSurvives
