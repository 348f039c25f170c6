SPECIFICATION RecordSpec
CONSTANTS
  Batches = {b1, b2}
  NumDatasets = 2
SYMMETRY Symmetry
VIEW WithoutTold
INVARIANTS
  KeysAccounted
  ReportTrue
PROPERTIES
  DatasetsToldTruly
CHECK_DEADLOCK FALSE
