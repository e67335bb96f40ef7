CONSTANTS
  Services = {"Outbox", "Jobs", "Decision", "Queue", "Scan", "Setup", "Bootstrap"}
  Keys = {"k"}
  AlertRuns = {"r1", "r2"}
  MaxAttempts = 2
  MaxCrashes = 1
  Symbols = {"BTC"}
  StartingCash = 10
  MaxDay = 1
  MaxTrades = 1
  MaxScriptDeaths = 2
  DefinitionSymbols = {"BTC", "ETH"}
  Builds = {"old", "new"}
  MaxLock = 2
  MaxSetupDeaths = 1
SPECIFICATION Spec
INVARIANT TypeOK
INVARIANT AttemptsAreDistinct
PROPERTY SetupIsSafe
PROPERTY BootstrapIsRepeatable
PROPERTY EndsAreFinal
PROPERTY AlertsEnd
PROPERTY OpenPortfoliosAreServed
 
PROPERTY AnchorsAreReached
CHECK_DEADLOCK FALSE
