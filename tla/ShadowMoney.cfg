CONSTANTS
  k1 = k1
  k2 = k2
  btc = btc
  eth = eth
  run1 = run1
  run2 = run2
  Candidates <- Two
  Asset <- OwnAssets
  Direction <- LongShort
  Quantity <- TwoAndOne
  ReservePerUnit = 5
  FeePerUnit = 1
  Prices = {4, 6}
  EntryBound = 4
  InitialCash = 12
  CreateRuns <- OneRun
  FillRuns <- OneRun
  Faults = {"NO_LIQUIDITY", "PROFILE", "LIMIT_SET", "EXIT_LOCK"}
  MaxCandle = 4
SPECIFICATION Spec
INVARIANT ReservesAreHeld
INVARIANT CacheIsLedger
INVARIANT CashIsConserved
INVARIANT NoNegativeCash
CHECK_DEADLOCK FALSE
