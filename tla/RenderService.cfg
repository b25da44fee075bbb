SPECIFICATION Spec
CONSTANTS
  Requests = {r1, r2, r3}
  MaxPages = 2
  MaxBrowsers = 2
  MaxLogFaults = 1
  None = None
CHECK_DEADLOCK FALSE
INVARIANTS NoBrowserForgotten LogFaultsStayLocal
PROPERTIES ImplementsPool EveryRequestIsAnswered
