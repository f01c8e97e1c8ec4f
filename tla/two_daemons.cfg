SPECIFICATION Spec
CONSTANTS
  JobIds = {j1, j2}
  NoJob = NoJob
  ClockSteps = {1}
  MaxFaults = 1
  RuntimeExits = {"ok"}
SYMMETRY Symmetry
VIEW Visible
INVARIANTS
  TypeOK
  OncePerDaemon
  OutcomeOfSomeRun
  RefusedOnlyByOther
  NobodyOvertakes
