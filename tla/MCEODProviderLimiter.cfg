SPECIFICATION FairSpec
CONSTANTS
  Calls = {c1, c2}
  NumProviders = 1
  Keys = {"k1"}
  Key <- MCKey
  MaxAttempts = 2
  Delay <- MCDelay
  Interval = 2
  NumRanks = 1
  Nobody = Nobody
PROPERTIES
  GrantsSpaced
  EveryFetchEnds
