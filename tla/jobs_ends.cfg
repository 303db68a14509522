\* An import and a refresh over two rows they may lock in opposite orders.
SPECIFICATION FairSpec
CONSTANTS
  i1 = i1 i2 = i2 r1 = r1 r2 = r2 p1 = p1 p2 = p2 a1 = a1 a2 = a2 x1 = x1 x2 = x2
  Nobody = Nobody Keep = Keep NoLot = NoLot Skipped = Skipped NoOverride = NoOverride NoPosition = NoPosition
  Importers = {i1}
  Refreshers = {r1}
  Positions = {p1, p2}
  Accounts = {a1}
  Instruments = {x1, x2}
  AccountOf <- OneAccount
  InstrumentOf <- TwoInstruments
  Foreign <- NoForeign
  MaxConcurrentJobs = 2
  Lots <- OneLot
  NotionConfigured = FALSE
  Overrides = {}
PROPERTIES JobsEnd
CHECK_DEADLOCK FALSE
