\* A review and commands, with days going by and a cache others fill.
SPECIFICATION Spec
CONSTANTS
  Listings <- MCListings
  MarketAliases <- MCMarketAliases
  MarketExchanges <- MCMarketExchanges
  VenueAliases <- MCVenueAliases
  SuffixMarkets <- MCSuffixMarkets
  YahooSuffix <- MCYahooSuffix
  YahooExchange <- MCYahooExchange
  TwelveExchange <- MCTwelveExchange
  Mic <- MCMic
  Queries <- MCQueries
  NoName = NoName
  MinBars <- MCMinBars
  Thresholds <- MCThresholds
  ShortSpan = 2
  LongSpan = 3
  AverageDays = 4
  RsiDays = 2
  VolumeDays = 3
  VolatilityDays = 2
  RecentBars = 2
  SessionsInYear = 4
  NoVolume = NoVolume
  Instruments <- MCInstruments
  Missing <- MCMissing
  Unsupported <- MCUnsupported
  Markets <- MCMarkets
  Holdings <- MCHoldings
  Histories <- MCHistories
  Around <- MCAround
  Start = 5
  LastDay = 6
  Dates <- MCDates
  Lookbacks <- MCLookbacks
  ReviewLookback = 3
  Zones <- MCZones
  Requested <- MCRequested
  MaxTasks = 1
  MaxFetches = 2
  NoData = NoData
  NoTask = NoTask
INVARIANTS
  AnalysesAreOfTheirWindow
  MirroredMarketsMirrorFindings
  LongerLookbackKeepsFindings
  SearchesNameOneListing
PROPERTIES
  ReviewsAnswerEveryHolding
CHECK_DEADLOCK FALSE
