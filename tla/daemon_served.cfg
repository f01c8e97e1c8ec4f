SPECIFICATION FairSpec
CONSTANTS
  JobIds = {j1, j2}
  NoJob = NoJob
  ClockSteps = {1}
  MaxFaults = 1
  RuntimeExits = {"ok"}
  Clients = {c1}
  NoClient = NoClient
  Requests = {"Schedule", "Status"}
  MaxCancels = 0
INVARIANTS
  NoOvertaking
  StatusOvercountsByOne
PROPERTIES
  QueuedIsServed
  RequestsEnd
