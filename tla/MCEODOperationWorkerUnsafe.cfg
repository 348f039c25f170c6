SPECIFICATION Spec
CONSTANTS
  j1 = j1  j2 = j2
  r1 = r1  r2 = r2
  w1 = w1  w2 = w2
  JobIds = {j1}
  Requests = {r1}
  Keys = {}
  Workers = {w1}
  MaxAliases = 1
  LeaseDuration = 3
  HeartbeatInterval = 1
  MaxLag = 0
  MaxTime = 5
  MaxLease = 12
  FaultHorizon = 5
  NoJob = NoJob  NoRequest = NoRequest  NoKey = NoKey  NoWorker = NoWorker
PROPERTIES
  EffectOnlyWhileActive
