\* Jobs one after another.
SPECIFICATION Spec
CONSTANTS
  i1 = i1 i2 = i2 r1 = r1 r2 = r2 p1 = p1 p2 = p2 a1 = a1 a2 = a2 x1 = x1 x2 = x2
  Nobody = Nobody Keep = Keep NoLot = NoLot Skipped = Skipped NoOverride = NoOverride NoPosition = NoPosition
  Importers = {i1}
  Refreshers = {r1}
  Positions = {p1, p2}
  Accounts = {a1}
  Instruments = {x1, x2}
  AccountOf <- OneAccount
  InstrumentOf <- TwoInstruments
  Foreign <- OneRelisted
  MaxConcurrentJobs = 1
  Lots <- OneLot
  NotionConfigured = TRUE
  Overrides = {0}
INVARIANT EffectiveCostIsCurrent
PROPERTIES ClosedStaysClosed ImportAppliesStatement RefreshBringsNewestPrice
CHECK_DEADLOCK FALSE
