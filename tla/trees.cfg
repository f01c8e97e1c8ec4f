SPECIFICATION Spec
CONSTANTS
  n1 = n1
  n2 = n2
  r1 = r1
  u1 = u1
  u2 = u2
  main = main
  topic = topic
  preload = preload
  None = None
  Names = {n1, n2}
  ValidNames = {n1}
  Roots = {r1}
  Urls = {u1, u2}
  Refs = {main, topic}
  EnvKeys = {preload}
  Clients = {c1, c2}
  NoClient = NoClient
  JobIds = {j1, j2}
  BuildRequests <- MCBuildRequests
  Registrations <- MCRegistrations
  Policies <- MCPolicies
  MaxFaults = 1
SYMMETRY Symmetry
INVARIANTS
  AnswerIsOwnTree
  TreesInv
  WorkerFindsSource
PROPERTIES
  NameMeansTree
  QueuedUnderPolicy
