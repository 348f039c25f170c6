SPECIFICATION RecordSpec
CONSTANTS
  Days <- MCDays
  TradingDays <- MCTradingDays
  Adjusted = FALSE
  MaxOverlap = 4
  NoRange = NoRange
  Values = {v1, v2}
  NoBar = NoBar
  NoManifest = NoManifest
  Rival = Rival
SYMMETRY Symmetry
VIEW WithoutReport
INVARIANTS
  HolesExplained
  RepetitionIsCurrent
  Repairable
PROPERTIES
  NothingLost
  CallsReportTruly
