CONSTANTS
  k1 = k1
  k2 = k2
  btc = btc
  eth = eth
  run1 = run1
  run2 = run2
  Candidates <- One
  Asset <- OneAsset
  Direction <- AllLong
  Quantity <- ThreeUnits
  ReservePerUnit = 5
  FeePerUnit = 1
  Prices = {4}
  EntryBound = 4
  InitialCash = 20
  CreateRuns <- OneRun
  FillRuns <- OneRun
  Faults = {"NO_LIQUIDITY", "FORCED_EXIT"}
  MaxCandle = 4
SPECIFICATION FairSpec
PROPERTY EveryCandleIsMonitored
PROPERTY ExposureIsMonitored
CHECK_DEADLOCK FALSE
