SPECIFICATION Spec
CONSTANTS
  JobIds = {j1}
  NoJob = NoJob
  ClockSteps = {1}
  MaxFaults = 0
  RuntimeExits = {"ok", "failed"}
  Clients = {c1}
  NoClient = NoClient
  Requests = {"Schedule", "Cancel"}
  MaxCancels = 1
PROPERTIES
  TerminalIsFinal
