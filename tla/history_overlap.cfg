\* Two requests that overlap, with promotions and relistings.
SPECIFICATION Spec
CONSTANTS
  i1 = i1 i2 = i2 l1 = l1 l2 = l2 x1 = x1
  NoDataset = NoDataset NoListing = NoListing NoInstrument = NoInstrument
  Requests = {r1, r2}
  Instruments = {i1, i2}
  Listings = {l1, l2}
  Identified = {x1}
  IdOf <- NamesSecond
  MarketOf <- TwoVenues
  Windows <- Edges
  Fetchable <- EdgeBars
  NumProviders = 1
  MaxConcurrent = 2
  Relistable = {i1}
  Today = 8
SYMMETRY Symmetry
INVARIANTS SeriesShowsItsListing FreshAnswersAreComplete AnswersFollowTheMarket
PROPERTY ImplementsAnswers
CHECK_DEADLOCK FALSE
