SPECIFICATION Spec
CONSTANTS
  main = main
  topic = topic
  a = a
  b = b
  d = d
  Branches = {main, topic}
  Default = main
  Commits = {a, b, d}
  Unknown = Unknown
  JobIds = {j1, j2}
  NoJob = NoJob
  Sources <- MCSources
  Requests <- MCRequests
  Configs <- MCConfigs
  Outputs <- MCOutputs
  NoOutput = NoOutput
  Missing = Missing
  MaxFaults = 1
SYMMETRY Symmetry
INVARIANTS
  TypeOK
  BuildsWhatIsMeant
  FoundIfThere
  LogWhenOver
  TailIsEndOfLog
  WorkspaceExclusive
  BuildsWhereAllowed
  FragmentsInside
PROPERTIES
  LogOnlyGrows
