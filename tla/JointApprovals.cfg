CONSTANTS
  Services = {"SameBook"}
  Keys = {"k"}
  AlertRuns = {"r1", "r2"}
  MaxAttempts = 2
  MaxCrashes = 1
  Symbols = {"BTC"}
  StartingCash = 10
  MaxDay = 1
  MaxTrades = 1
  MaxScriptDeaths = 2
  DefinitionSymbols = {"BTC", "ETH"}
  Builds = {"old", "new"}
  MaxLock = 2
  MaxSetupDeaths = 1
SPECIFICATION SameBookSpec
INVARIANT ExposureStaysCapped
CHECK_DEADLOCK FALSE
