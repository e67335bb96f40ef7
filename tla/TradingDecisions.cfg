CONSTANTS
  Services = {"Scan", "Ranking", "Risk", "Strategy", "Books", "Api", "Replay", "Eligibility", "Signals", "Radar", "Summary", "News", "Scheduler", "Paper", "History", "Universe", "Values", "Performance", "Operations", "Intelligence"}
  Strategies = {"s"}
  ScanRuns = {"cron", "hand"}
  ByHand = {"hand"}
  TicksPerAnchor = 2
  Ttl = 3
  MaxTime = 2
  MaxRevisions = 1
  MaxHandRuns = 1
  MaxDeaths = 0
  Requests = {"a", "b"}
  IdempotencyKeys = {"k", "l"}
  Sent = {"ENGAGE", "ENABLE", "DISABLE", "RUN_JOB"}
  FirstStatus = "SHADOW_ACTIVE"
  FirstKill = FALSE
  MaxChanges = 2
  MaxLost = 1
  Assets = {"btc", "eth"}
  Writers <- BookingJobs
  Kinds = {"CACHE_MISMATCH_LEDGER_REPLAY"}
  MaxCandles <- CandlesPerAsset
  MaxLedger = 4
  Lots = 2
  MaxJobs = 2
  MaxDefects = 1
  Participants = {"a", "b"}
  Evaluators = {"cron"}
  Operators = {"o", "p"}
  MaxBegun = 5
  FirstCohorts <- TwoCohorts
  Policies <- ThreePolicies
  FirstPolicy <- LenientPolicy
  FactsSeen <- ThreeFacts
  Scale = 1000
  Limits <- RiskLimits
  Snapshots <- RiskSnapshots
  Periods <- FewPeriods
  Inputs <- StrategyInputs
  Jobs = {"crypto", "equity", "discovery"}
  Switches <- AllOff
  OnStart = {"crypto"}
  Valid = {"crypto", "equity", "discovery"}
  MaxInFlight = 2
  MaxRows = 2
  MaxProcesses = 2
SPECIFICATION Spec
INVARIANT TypeOK
INVARIANT CursorIsHonest
INVARIANT ArenaIsOrderly
INVARIANT ApprovalsAreSafe
INVARIANT LossesEngageTheSwitch
INVARIANT PlansPassRiskRules
INVARIANT BooksStayTrue
INVARIANT CommandsAreSafe
INVARIANT ResearchAlertsAreEarned
INVARIANT PipelinesAreHonest
INVARIANT CandidatesAreSound
PROPERTY RecordsStand
CHECK_DEADLOCK FALSE
