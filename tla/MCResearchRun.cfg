SPECIFICATION StoreSpec
CONSTANTS
  a = a
  b = b
  p1 = p1
  p2 = p2
  Symbols <- MCSymbols
  Runs <- MCRuns
  Industries <- MCIndustries
  CandidateSymbols <- MCCandidateSymbols
  One = 100
  Eps = 1
  MaxPosition = 60
  MinPosition = 5
  MaxIndustry = 100
  MaxHoldings = 2
  CashMin = 0
  CashMax = 60
  MinScore = 10
  StartDay = 3
  EndDay = 6
  FetchStart = 0
  EdgeTolerance = 1
  Period <- MCPeriod
  MaxForwardFill = 1
  InitialCapital = 1000
  SellCost = 2
  BuyCost = 1
  Missing = Missing
  SkipDays = 1
  SixMonths = 1
  TwelveMonths = 2
  LowVolCloses = 3
  RsiWindow = 2
  BollingerCloses = 3
  ShortReturnWindow = 1
  VolumeWindow = 2
  FactorWeights <- MCWeights
  Volatility <- MCVolatility
  Bollinger <- MCBollinger
  NoDate = NoDate
  NaN = NaN
  NoRow = NoRow
  NotADate = NotADate
  NotANumber = NotANumber
  Infinite = Infinite
  Weekends = {}
  MaxEdgeGap = 5
  MinimumCoverage = 75
  NoMetadata = NoMetadata
  BenchStart = 3
  BenchEnd = 6
  ChainAnswers <- MCChainAnswers
  InitialEntries <- MCInitialEntries
  NoData = NoData
  Torn = Torn
  PriceAnswers <- MCPriceAnswers
  ReportAnswers <- MCReportAnswers
  MacroAnswers <- MCMacroAnswers
  InitialCaches <- MCInitialCaches
  ArtifactFiles <- MCArtifactFiles
  MinHoldings = 2
  Contexts <- MCContexts
  NoMeta = NoMeta
  Secret <- MCSecret
  Redacted <- MCRedacted
  MaxAttempts = 2
  MaxPublicAttempts = 2
  MaxWarningItems = 4
  MaxWarningChars = 3
  MaxTextChars = 6
  MaxStructuredBytes = 12
  MaxArtifactBytes = 18
  Chars <- MCChars
  LineBytes <- MCLineBytes
  CompactBytes <- MCCompactBytes
  BlockBytes <- MCBlockBytes
  EntryFits <- MCEntryFits
  DiagnosticsFit <- MCDiagnosticsFit
  Benchmark = Benchmark
  MinFactorCoverage = 80
SYMMETRY RunSymmetry
VIEW WithoutTold
INVARIANTS
  NoLookAhead
  BacktestSound
  MetadataNamesItsGeneration
  PointInTimeHonest
PROPERTIES
  ImplementsCatalogue
  RunsReadBack
CHECK_DEADLOCK FALSE
