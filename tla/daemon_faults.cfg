SPECIFICATION Spec
CONSTANTS
  JobIds = {j1, j2}
  NoJob = NoJob
  ClockSteps = {1}
  MaxFaults = 2
  RuntimeExits = {"ok", "failed", "canceled"}
  Clients = {c1}
  NoClient = NoClient
  Requests = {"Schedule", "Cancel"}
  MaxCancels = 1
SYMMETRY Symmetry
INVARIANTS
  TypeOK
  AtMostOnce
  OutcomeIsBuildsOutcome
  WorkerEventsInOrder
  WorkerInv
