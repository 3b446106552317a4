CONSTANTS
  None = None
  MaxChanges = 2
  MaxRuns = 2
  MaxOpens = 1
  MaxHaste = 1
  MaxOthers = 1
SPECIFICATION Spec
PROPERTIES AppliedLeaves NeverResentByThePatient StagedIsSent SavedPlanWhole
CHECK_DEADLOCK FALSE
