CONSTANTS
  s1 = s1
  s2 = s2
  s3 = s3
  p1 = p1
  Syncs = {s1, s2}
  Positions = {p1}
  Costs = {1}
  NoCost = NoCost
  Invalid = Invalid
  None = None
  MaxConcurrent = 2
  KeptRates = {"current", "missing"}
  MaxEdits = 2
SPECIFICATION Spec
SYMMETRY Symmetric
INVARIANTS
  OnePagePerKey
  StatusFitsValue
  WrittenPagesAreWhole
PROPERTY ClearedByTheUser
CHECK_DEADLOCK FALSE
