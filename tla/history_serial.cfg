\* Three requests, one at a time, with promotions.
SPECIFICATION Spec
CONSTANTS
  i1 = i1 i2 = i2 l1 = l1 l2 = l2 x1 = x1
  NoDataset = NoDataset NoListing = NoListing NoInstrument = NoInstrument
  Requests = {r1, r2, r3}
  Instruments = {i1}
  Listings = {l1}
  Identified = {x1}
  IdOf <- NamesFirst
  MarketOf <- OneListing
  Windows <- Edges
  Fetchable <- Bars
  NumProviders = 1
  MaxConcurrent = 1
  Relistable = {}
  Today = 8
SYMMETRY Symmetry
INVARIANT AcceptedIsPersisted
PROPERTIES CoveredIsNotFetched StaleIsLastValidated
CHECK_DEADLOCK FALSE
