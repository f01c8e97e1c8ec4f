SPECIFICATION Spec
CONSTANTS
  JobIds = {j1, j2}
  NoJob = NoJob
  ClockSteps = {1}
  MaxFaults = 0
  RuntimeExits = {"ok", "failed"}
  Clients = {c1, c2}
  NoClient = NoClient
  Requests = {"Schedule", "Cancel"}
  MaxCancels = 1
SYMMETRY Symmetry
INVARIANTS
  WorkerNeverRefused
  StateIsRecorded
PROPERTIES
  LetGoForGood
  ImplementsQueue
