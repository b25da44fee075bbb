SPECIFICATION Spec
CONSTANTS
  Requests = {q1}
  Locales = {fr, en}
  Default = fr
  Scenarios <- StaleScenarios
  MaxJob = 1
  MaxResume = 1
  MaxReport = 1
  MaxLetter = 1
  MaxApplication = 1
  MaxRevision = 2
  None = None
PROPERTY ReadyIsHealthy
