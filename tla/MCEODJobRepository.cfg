SPECIFICATION Spec
CONSTANTS
  j1 = j1  j2 = j2  j3 = j3
  r1 = r1  r2 = r2
  k1 = k1  k2 = k2
  w1 = w1  w2 = w2
  JobIds = {j1, j2, j3}
  Requests = {r1, r2}
  Keys = {k1, k2}
  Workers = {w1}
  MaxAliases = 1
  LeaseTerms = {1}
  MaxLag = 1
  MaxTime = 2
  MaxLease = 3
  NoJob = NoJob  NoRequest = NoRequest  NoKey = NoKey  NoWorker = NoWorker
SYMMETRY Symmetry
INVARIANTS
  OneActivePerRequest
  EveryRowReadable
  BindingsSound
  ReplyHonoured
PROPERTIES
  LeaseHonoured
  ImplementsLifecycle
CHECK_DEADLOCK FALSE
