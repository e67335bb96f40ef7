CONSTANTS
  k1 = k1
  k2 = k2
  btc = btc
  eth = eth
  run1 = run1
  run2 = run2
  Candidates <- Two
  Asset <- SharedAsset
  Direction <- LongShort
  Quantity <- TwoAndOne
  ReservePerUnit = 5
  FeePerUnit = 1
  Prices = {4}
  EntryBound = 4
  InitialCash = 20
  CreateRuns <- TwoRuns
  FillRuns <- OneRun
  Faults = {"CRASH", "GATE_CLOSES", "NO_LIQUIDITY"}
  MaxCandle = 3
SPECIFICATION Spec
INVARIANT TypeOK
INVARIANT LifecyclesAgree
INVARIANT OneExposurePerAsset
PROPERTY FollowsTables
CHECK_DEADLOCK FALSE
