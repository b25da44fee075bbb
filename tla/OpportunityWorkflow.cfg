SPECIFICATION Spec
CONSTANTS
  Requests = {q1}
  Locales = {fr, en}
  Default = fr
  Scenarios <- AllScenarios
  MaxJob = 2
  MaxResume = 1
  MaxReport = 1
  MaxLetter = 2
  MaxApplication = 1
  MaxRevision = 2
  None = None
INVARIANTS TypeOK ReadyHasItsLinks LastTransitionIsTheState AdvertisedRepairsAreAccepted RepairsMakeProgress
