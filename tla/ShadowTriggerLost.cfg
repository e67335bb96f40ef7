CONSTANTS
  k1 = k1
  k2 = k2
  btc = btc
  eth = eth
  run1 = run1
  run2 = run2
  Candidates <- One
  Asset <- OneAsset
  Direction <- AllLong
  Quantity <- TwoUnits
  ReservePerUnit = 5
  FeePerUnit = 1
  Prices = {4}
  EntryBound = 4
  InitialCash = 20
  CreateRuns <- OneRun
  FillRuns <- OneRun
  Faults = {"CRASH", "FORCED_EXIT"}
  MaxCandle = 4
SPECIFICATION Spec
INVARIANT StatusMatchesTrigger
CHECK_DEADLOCK FALSE
