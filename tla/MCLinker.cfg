SPECIFICATION Spec
CONSTANTS
  c1 = c1
  c2 = c2
  http = http
  pg = pg
  Consumers = {c1, c2}
  Providers = {http, pg}
  Specs <- TwoSpecs
  ProvidersOf <- BothProviders
  maxHttpGets = 1
  PageSize = 3
  FixedSize <- OneByteEach
  InitialPages = 1
  MaximumPages = 3
  Lengths = {0, 2}
  MaxCalls = 4
  MaxDepth = 3
INVARIANTS TypeOK ActiveOnlyInCall BytesApart GetsWithinQuota
CHECK_DEADLOCK FALSE
