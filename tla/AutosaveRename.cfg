SPECIFICATION Spec
CONSTANTS
  Resumes = {r1}
  MaxRevision = 2
  MaxNumber = 1
  Scenarios <- RenameScenarios
  None = None
CHECK_DEADLOCK FALSE
INVARIANT AutosaveStoresEdits
