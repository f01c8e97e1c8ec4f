SPECIFICATION FairSpec
CONSTANTS
  Daemons = {d1, d2}
  Supervised = {d1}
  Callers = {c1, c2}
  NoFile = NoFile
  Stale = Stale
  Nobody = Nobody
  MaxTries = 2
  MaxFaults = 2
INVARIANTS
  CallEffect
  NoSpuriousFailure
PROPERTIES
  TakesPath
  CallEnds
