CONSTANTS
  Accounts <- MCAccounts
  Instruments <- MCInstruments
  Schedules <- MCSchedules
  AccountCurrency <- MCAccountCurrency
  InstrumentCurrency <- MCInstrumentCurrency
  Currencies <- MCCurrencies
  Price <- MCPrice
  Fx <- MCFx
  StopPrice <- MCStopPrice
  Queries <- MCQueries
  Windows <- MCWindows
  None = None
  Base <- MCBase
  LastDay = 2
  Start = 5
  Retries = 2
  Period = 1
  MaxPercent = 40
  ZoneOffset = 1
  RateAges <- MCRateAges
  NewMonth = 1
  Sessions <- MCSessions
  ChartDays = 1
  MaxImports = 2
  MaxRefreshes = 2
  MaxSettings = 1
SPECIFICATION Spec
INVARIANTS
  PositionsAreTheBrokers
  LedgerExplainsPositions
  HistoryViewsAgree
  PerformanceIsOfItsDays
  ReductionRestoresTheLimit
  ChartsShowTheLedger
PROPERTIES
  ReadsAgreeWithReview
  StepsMakeProgress
CHECK_DEADLOCK FALSE
