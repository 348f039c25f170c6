SPECIFICATION RecordSpec
CONSTANTS
  Calls = {c1}
  NumProviders = 3
  Keys = {"k1", "k2"}
  Key <- MCKey
  MaxAttempts = 3
  Delay <- MCDelay
  Interval = 1
  NumRanks = 2
  Nobody = Nobody
  MaxAttemptsPerProvider = 3
INVARIANTS
  TakesBestOffer
  BudgetSpent
  OneLateInvocation
  DiagnosticsTrue

