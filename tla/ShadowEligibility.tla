------------------------- MODULE ShadowEligibility -------------------------
(***************************************************************************)
(* Whether shadow trading may start: the flags of the environment with the *)
(* jobs they open, and the eligibility report an operator reads before     *)
(* activating a session.  The report and the guard of the activation       *)
(* (TradingStateMachines) are written apart; both read the same rows, here *)
(* one record.                                                             *)
(***************************************************************************)
EXTENDS Integers, FiniteSetsExt, TradingStateMachines

CONSTANTS Situations   \* the situations that are reported on

VARIABLES
  reportStage, \* "read" or "reported"
  situation,   \* the rows and the environment
  report       \* codes of its blocking failures, {"REPORT_FAILED"} when it could not be made

eligibilityVars == <<reportStage, situation, report>>

----------------------------------------------------------------------------
(* Flags: unset, "true", "false", or anything else                         *)

\* parseStrictBoolean: unset is the fallback FALSE, anything unknown is no value.
IsOn(value) == value = "true"
Parses(value) == value # "other"

BaseAllowed(env) ==
  /\ \A flag \in DOMAIN env : Parses(env[flag])
  /\ CheckShadowOnlyCapability([build |-> "SHADOW_ONLY", enableLiveTrading |-> IsOn(env.live),
                                mode |-> env.mode, masterFlag |-> IsOn(env.shadow)])

\* The flag each job asks for beyond the base.
Allowed(flag, env) == BaseAllowed(env) /\ IsOn(env[flag])
StrategyJobAllowed(env) == Allowed("strategy", env)
StrategyLongAllowed(env) == StrategyJobAllowed(env) /\ IsOn(env.long)
ShadowShortAllowed(env) == StrategyJobAllowed(env) /\ IsOn(env.shadowShort) /\ IsOn(env.short)
AlertDeliveryAllowed(env) == Allowed("outbox", env) /\ IsOn(env.delivery)

----------------------------------------------------------------------------
(* The report                                                              *)

Own(s) == {a \in s.assignments : a.portfolio = "own"}
Traded == {"BTC", "ETH"}
Identities == {"LEGACY_LONG", "LONG", "SHORT"}
AssignedAssets(s) == {a.asset : a \in Own(s)}

CapabilityCheck(s) == BaseAllowed(s.env)
ReconciliationFresh(s) == s.reconciled = "fresh"
HeartbeatCheck(s) == s.heartbeat # "stale"

\* One assignment of BTC at least, and none anywhere outside of what is permitted.
AssignmentScope(s) ==
  /\ \E a \in Own(s) : a.asset = "BTC"
  /\ \A a \in s.assignments : a.portfolio # "foreign" /\ a.asset \in Traded /\ a.strategy \in Identities

VersionsCurrent(s) ==
  /\ Own(s) # {} /\ s.codeVersion
  /\ \A a \in Own(s) : a.strategy \in Identities /\ a.version = "current"

\* What the assigned directions need of the flags; the legacy strategy needs none.
DirectionFlags(s) ==
  /\ (\E a \in Own(s) : a.strategy = "LONG") =>
       BaseAllowed(s.env) /\ IsOn(s.env.strategy) /\ IsOn(s.env.long)
  /\ (\E a \in Own(s) : a.strategy = "SHORT") =>
       BaseAllowed(s.env) /\ IsOn(s.env.strategy) /\ IsOn(s.env.short) /\ IsOn(s.env.shadowShort)

\* The approved profile of each asset that has one: the calibrated one, not the bootstrap's.
ApprovedSymbols == {"BTC", "ETH"}
ApprovedProfile == [version |-> 2, values |-> "approved"]

\* Of an asset's ACTIVE rows the highest version is the one that is used.
ActiveProfile(rows) == CHOOSE row \in rows : \A other \in rows : other.version <= row.version

\* In what it deviates from the approved one, a looser or a stricter value alike; a
\* second ACTIVE row is a deviation by itself.
ProfileDeviations(s, asset) ==
  LET rows == s.profile[asset] IN
  {field \in {"activeProfileCount", "symbol", "version", "values"} :
    CASE field = "activeProfileCount" -> Cardinality(rows) # 1
      [] field = "symbol" -> rows # {} /\ asset \notin ApprovedSymbols
      [] OTHER -> /\ rows # {} /\ asset \in ApprovedSymbols
                  /\ ActiveProfile(rows)[field] # ApprovedProfile[field]}

ProfilesApproved(s) ==
  AssignedAssets(s) # {} /\ \A asset \in AssignedAssets(s) : ProfileDeviations(s, asset) = {}

\* One code per kind of data; without an assignment of BTC all of them fail.
DataCodes == {"DATA_HISTORY", "CANDLE_GAPS", "CANDLE_DATA_QUALITY", "CANDLE_FRESHNESS", "SIGNAL_MTF_INPUTS"}
DataFailures(s) ==
  IF ~\E a \in Own(s) : a.asset = "BTC" THEN DataCodes \cup {"REGIME_FRESHNESS"}
  ELSE {code \in DataCodes : \E asset \in AssignedAssets(s) : code \in s.data[asset]}
         \cup (IF s.regimeFresh THEN {} ELSE {"REGIME_FRESHNESS"})

\* An order against a position of the other direction, or two orders of one asset.
NoOpposingScopes(s) ==
  /\ \A o \in s.orders, p \in s.positions : o.asset = p.asset /\ o.position # p.id => o.direction = p.direction
  /\ \A o1, o2 \in s.orders : o1.asset = o2.asset => o1 = o2

CollateralConsistent(s) ==
  /\ \A p \in s.positions : IF p.direction = "LONG" THEN p.collateral = 0 ELSE p.collateral > 0
  /\ MapThenSumSet(LAMBDA o : o.reserved, s.orders)
       + MapThenSumSet(LAMBDA p : IF p.direction = "SHORT" THEN p.collateral ELSE 0, s.positions) = s.reservedCash

PositionsHaveExits(s) == \A p \in s.positions : p.exitPlan

\* Mutant: the pinned limit set may have others beside it.
LimitSetBeside(s) == "pinned" \in s.limitSets
\* The pinned limit set is active, has the pinned values and is the only one.
LimitSetActive(s) == s.limitSets = {"pinned"}

Failing(code, holds) == IF holds THEN {} ELSE {code}

PortfolioFailures(s) ==
  Failing("PORTFOLIO_PRESENT", s.portfolio # "ERROR_LOCKED")
    \cup Failing("RECONCILIATION_FRESH", ReconciliationFresh(s))
    \cup Failing("PORTFOLIO_CONSISTENT", s.ledgerComplete)
    \cup Failing("START_OF_DAY_SNAPSHOT", s.dayOpened)
    \cup (IF s.session = "none" THEN {"SESSION_PRESENT"}
          ELSE Failing("SESSION_NOT_ERROR_LOCKED", s.session # "ERROR_LOCKED")
                 \cup Failing("WORKER_HEARTBEAT", HeartbeatCheck(s)))
    \cup Failing("NO_CRITICAL_RISK_EVENTS", s.criticalEvents = 0)
    \cup Failing("BTC_ONLY_ASSIGNMENT", AssignmentScope(s))
    \cup Failing("ACTIVE_STRATEGY_VERSION", VersionsCurrent(s))
    \cup Failing("SHADOW_SHORT_FLAGS", DirectionFlags(s))
    \cup Failing("EXECUTION_PROFILE", ProfilesApproved(s))
    \cup DataFailures(s)
    \cup Failing("CIRCUIT_BREAKERS_CLOSED", ~s.monitoringBroken)
    \cup Failing("NO_OPPOSING_ACTIVE_SCOPES", NoOpposingScopes(s))
    \cup Failing("SHORT_COLLATERAL_CONSISTENT", CollateralConsistent(s))
    \cup Failing("POSITIONS_HAVE_EXITS", PositionsHaveExits(s))

OutboxFailures(s) ==
  Failing("ALERT_OUTBOX_HEALTHY", s.deadAlerts = 0)
    \cup Failing("ALERT_OUTBOX_ENABLED", BaseAllowed(s.env) /\ IsOn(s.env.outbox))

\* The kill switch, a heartbeat never seen and the build of a version only warn.
BlockingFailures(s) ==
  IF ~s.readable THEN {"REPORT_FAILED"}
  ELSE Failing("SHADOW_ONLY_CAPABILITY", CapabilityCheck(s))
         \cup (IF s.portfolio = "none" THEN {"PORTFOLIO_PRESENT"} ELSE PortfolioFailures(s))
         \cup Failing("ACTIVE_RISK_LIMIT_SET", LimitSetActive(s))
         \cup OutboxFailures(s)

Ready(failures) == failures = {}

\* What activateSession reads of the same rows.
ActivationFacts(s) ==
  [killSwitchEngaged |-> s.killSwitch, portfolioStatus |-> s.portfolio,
   reconcileSucceeded |-> s.sessionReconciled # "never", reconcileFresh |-> s.sessionReconciled = "fresh",
   prerequisitesMet |->
     /\ BaseAllowed(s.env) /\ Cardinality(s.limitSets) = 1 /\ s.expiredClaims = 0
     /\ Own(s) # {} /\ AssignedAssets(s) \subseteq Traded
     /\ \A asset \in AssignedAssets(s) : ProfileDeviations(s, asset) = {},
   unacknowledgedCriticalRiskEventCount |-> s.criticalEvents]

----------------------------------------------------------------------------

EligibilityTypeOK == reportStage \in {"read", "reported"} /\ (reportStage = "read" => report = {})

EligibilityInit == reportStage = "read" /\ situation \in Situations /\ report = {}

BuildReport ==
  /\ reportStage = "read" /\ reportStage' = "reported"
  /\ report' = BlockingFailures(situation)
  /\ UNCHANGED situation

EligibilityOver == reportStage = "reported" /\ UNCHANGED eligibilityVars

EligibilityNext == BuildReport \/ EligibilityOver

EligibilitySpec == EligibilityInit /\ [][EligibilityNext]_eligibilityVars

----------------------------------------------------------------------------
(* Properties                                                              *)

\* A report that is READY leaves the operator nothing to find out at the activation
\* but what it names or cannot see: the kill switch, a portfolio still in DRAFT, the
\* session's own reconciliation and claims that ran out.
ReadyMayActivate ==
  LET s == situation IN
  (reportStage = "reported" /\ Ready(report)
     /\ ~s.killSwitch /\ s.portfolio = "ACTIVE" /\ s.sessionReconciled = "fresh" /\ s.expiredClaims = 0) =>
    CheckSessionActivation(ActivationFacts(s))

\* READY never stands over a strategy whose job will not run, or over an alert that
\* would not be collected; a flag of unknown value opens nothing.
ReadyMeansItRuns ==
  LET s == situation IN
  (reportStage = "reported" /\ Ready(report)) =>
    /\ (\E a \in Own(s) : a.strategy = "LONG") => StrategyLongAllowed(s.env)
    /\ (\E a \in Own(s) : a.strategy = "SHORT") => ShadowShortAllowed(s.env)
    /\ Allowed("outbox", s.env)
    /\ \A flag \in DOMAIN s.env : Parses(s.env[flag])

=============================================================================
