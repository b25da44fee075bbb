SPECIFICATION Spec
CONSTANTS
  Resumes = {r1, r2}
  MaxRevision = 4
  MaxNumber = 2
  Scenarios <- AllScenarios
  None = None
CHECK_DEADLOCK FALSE
INVARIANTS TypeOK ErrorCanBeRetried SavedMeansStored
PROPERTIES TypingIsKept SavesSettle
