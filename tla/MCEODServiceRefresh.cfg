SPECIFICATION Spec
CONSTANTS
  Setups <- MCSetups
  Datasets <- MCDatasets
  Commands <- MCCommands
  Days <- MCDays
  MaxJobs = 2
INVARIANTS
  CompleteRefreshSucceeds
