------------------------------ MODULE RiskEngine ------------------------------
(***************************************************************************)
(* packages/risk-engine: 26 rules over one snapshot of a candidate, its    *)
(* portfolio and the market give an outcome, a size and a directive.  The  *)
(* engine is a function of its snapshot; a behaviour takes a snapshot,     *)
(* evaluates and records it and lets the risk job carry out the directive  *)
(* in a transaction of its own, beside other writers of the session.       *)
(* Amounts, prices and quantities are multiples of 1/Scale, as those of    *)
(* DecimalValue are of 10^-12, and are rounded where the code rounds.      *)
(***************************************************************************)
EXTENDS Integers, Sequences, FiniteSetsExt

CONSTANTS
  Scale,       \* DECIMAL_SCALE
  Limits,      \* RISK_LIMIT_SET_V1
  Snapshots    \* RiskInputSnapshotV1: what the assembler may hand over

VARIABLES
  stage,         \* of the candidate in the risk run
  snapshot,      \* its RiskInputSnapshotV1
  verdict,       \* its RiskEvaluationResultV1
  openSession,   \* of the portfolio, when the job reads it: none, or how it stands
  overtaken,     \* another writer has changed it since
  stopped,       \* history: the kill switch was engaged when its directive was done,
  dropped,       \*   or something kept the job from it
  lockedByRisk   \* what the job has locked: session, portfolio

riskVars == <<stage, snapshot, verdict, openSession, overtaken, stopped, dropped, lockedByRisk>>
sessionVars == <<openSession, overtaken, stopped, dropped, lockedByRisk>>

Missing == -1    \* null or unreadable

----------------------------------------------------------------------------
(* DecimalValue                                                            *)

MulDown(a, b) == (a * b) \div Scale
MulUp(a, b) == -((-(a * b)) \div Scale)
DivDown(a, b) == (a * Scale) \div b
StepDown(a, step) == (a \div step) * step
StepUp(a, step) == -((-a) \div step) * step
Rate(bps) == (bps * Scale) \div 10000
AtLeastZero(a) == IF a < 0 THEN 0 ELSE a

----------------------------------------------------------------------------
(* Sizing                                                                  *)

WorstSell(price, s) ==
  LET factor == MulDown(Scale - (Rate(s.spreadBps) + 1) \div 2, Scale - Rate(s.slippageBps))
  IN  StepDown(MulDown(price, factor), s.tick)
WorstBuy(price, s) ==
  StepUp(MulUp(MulUp(price, Scale + (Rate(s.spreadBps) + 1) \div 2), Scale + Rate(s.slippageBps)), s.tick)

Long(s) == s.direction = "LONG"
Entering(price, s) == IF Long(s) THEN WorstBuy(price, s) ELSE WorstSell(price, s)
Leaving(price, s) == IF Long(s) THEN WorstSell(price, s) ELSE WorstBuy(price, s)
\* What is lost when the price goes from a to b.
Adverse(a, b, s) == IF Long(s) THEN a - b ELSE b - a

Exposed(s) == {p \in s.positions : p.exposed}
GrossExposure(s) ==
  MapThenSumSet(LAMBDA p : p.value, Exposed(s)) + MapThenSumSet(LAMBDA r : r.amount, s.reserves)
AssetExposure(s) ==
  MapThenSumSet(LAMBDA p : p.value, {p \in Exposed(s) : p.asset = s.asset})
  + MapThenSumSet(LAMBDA r : r.amount, {r \in s.reserves : r.asset = s.asset})
AlreadyOpen(s) == \E p \in Exposed(s) : p.asset = s.asset

Headroom(s, pct, current) == AtLeastZero(MulDown(s.equity, pct) - current)
QuantityFor(budget, unit) == IF unit <= 0 THEN 0 ELSE DivDown(budget, unit)

\* Mutant: the reserve forgets the fee of the entry.
CollateralWithoutEntryFee(s, entry, stop) ==
  IF Long(s) THEN entry ELSE stop + MulUp(stop, Rate(s.feeBps))

CollateralPerUnit(s, entry, stop) ==
  IF Long(s) THEN entry + MulUp(entry, Rate(s.feeBps))
  ELSE stop + MulUp(stop, Rate(s.feeBps)) + MulUp(entry, Rate(s.feeBps))

NotSized == [computable |-> FALSE, entry |-> 0, quantity |-> 0, notional |-> 0, reserve |-> 0,
             risk |-> 0, budget |-> 0, rewardRisk |-> 0]

PricesOrdered(s) == Adverse(s.entry, s.stop, s) > 0 /\ Adverse(s.entry, s.target, s) < 0
CanSize(s) ==
  /\ s.profile # "missing" /\ s.limits # "missing" /\ s.direction # "NONE"
  /\ s.spreadBps >= 0 /\ s.slippageBps >= 0 /\ s.feeBps >= 0
  /\ s.entry > 0 /\ s.stop > 0 /\ s.target > 0 /\ s.tick > 0 /\ s.step > 0 /\ s.equity > 0
  /\ PricesOrdered(s)
  /\ Entering(s.entry, s) > 0 /\ Leaving(s.stop, s) > 0

\* computePositionSizing: the smallest cap, rounded down to the step.
Sizing(s) ==
  IF ~CanSize(s) THEN NotSized ELSE
  LET entry == Entering(s.entry, s)
      stop == Leaving(s.stop, s)
      target == Leaving(s.target, s)
      fee(price) == MulUp(price, Rate(s.feeBps))
      unitRisk == Adverse(entry, stop, s) + fee(entry) + fee(stop)
      unitReward == -Adverse(entry, target, s) - fee(entry) - fee(target)
      unitReserve == CollateralPerUnit(s, entry, stop)
      budget == MulDown(s.equity, Limits.maxRiskPerTradePct)
      caps == {DivDown(budget, unitRisk),
               QuantityFor(s.cash, unitReserve),
               QuantityFor(Headroom(s, Limits.maxGrossExposurePct, GrossExposure(s)), entry),
               QuantityFor(Headroom(s, Limits.maxAssetExposurePct, AssetExposure(s)), entry),
               QuantityFor(Headroom(s, Limits.maxCorrelatedExposurePct, GrossExposure(s)), entry)}
              \cup (IF s.maxQuantity = Missing THEN {} ELSE {s.maxQuantity})
      quantity == StepDown(AtLeastZero(Min(caps)), s.step)
  IN  IF unitRisk <= 0 THEN NotSized
      ELSE [computable |-> TRUE, entry |-> entry, quantity |-> quantity, budget |-> budget,
            notional |-> MulDown(quantity, entry), reserve |-> MulUp(quantity, unitReserve),
            risk |-> MulUp(quantity, unitRisk), rewardRisk |-> DivDown(unitReward, unitRisk)]

----------------------------------------------------------------------------
(* The rules: the verdict of the first thing that is wrong, or a pass; z   *)
(* is the sizing of s.                                                     *)

Pass == [outcome |-> "PASS", directive |-> "NONE"]
Block == [outcome |-> "FAIL", directive |-> "NONE"]
BlockNew == [outcome |-> "FAIL", directive |-> "BLOCK_NEW"]
Kill == [outcome |-> "FAIL", directive |-> "ENGAGE_KILL_SWITCH"]
FailLock == [outcome |-> "FAIL", directive |-> "ERROR_LOCK"]
Unknown == [outcome |-> "ERROR", directive |-> "NONE"]
Critical == [outcome |-> "ERROR", directive |-> "ERROR_LOCK"]

NoLimits(s) == s.limits = "missing"

ShadowMode(s) == IF s.mode = "unsafe" THEN Critical ELSE IF s.mode = "off" THEN Block ELSE Pass
Session(s) == IF s.session # "active" THEN BlockNew ELSE Pass
PortfolioConsistencyRule(s) ==
  IF s.books = "unreadable" THEN Critical
  ELSE IF s.books = "frozen" THEN Block
  ELSE IF s.books = "damaged" THEN Critical ELSE Pass
AssetScope(s) == IF s.instrument # "spot" \/ ~s.assigned THEN Block ELSE Pass
LongOnly(s) ==
  IF s.direction = "NONE" THEN Critical
  ELSE IF s.chain = "limitEntry" THEN Block
  ELSE IF s.chain = "mismatch" THEN Critical
  ELSE IF s.chain = "disabled" THEN Block ELSE Pass
NoLeverage(s) == IF s.instrument = "leveraged" THEN Critical ELSE Pass
StopRequired(s, z) ==
  IF s.entry = Missing \/ s.stop <= 0 THEN Block
  ELSE IF Adverse(s.entry, s.stop, s) <= 0 THEN Block
  ELSE IF z.entry > 0 /\ Adverse(z.entry, s.stop, s) <= 0 THEN Block
  ELSE IF s.profile # "missing" /\ s.tick > 0 /\ s.stop % s.tick # 0 THEN Block ELSE Pass
MinRewardRisk(s, z) ==
  IF s.target # Missing /\ s.entry # Missing /\ Adverse(s.entry, s.target, s) >= 0 THEN Block
  ELSE IF NoLimits(s) \/ s.target = Missing \/ ~z.computable THEN Unknown
  ELSE IF z.rewardRisk < Limits.minRewardRisk THEN Block ELSE Pass
RiskPerTrade(s, z) ==
  IF s.equity <= 0 THEN Block
  ELSE IF ~z.computable THEN Unknown
  ELSE IF z.risk > z.budget THEN Block ELSE Pass
\* Mutant: the limit itself is still allowed.
DayIsLostBeyond(s) == s.dailyPnl < -MulDown(s.startOfDay, Limits.maxDailyLossPct)

\* dailyPnl at or below the loss that ends the trading day.
DayIsLost(s) == s.dailyPnl <= -MulDown(s.startOfDay, Limits.maxDailyLossPct)

DailyLoss(s) ==
  IF s.startOfDay = Missing THEN BlockNew
  ELSE IF NoLimits(s) \/ s.startOfDay = 0 THEN Unknown
  ELSE IF DayIsLost(s) THEN Kill ELSE Pass
OpenPositions(s) ==
  IF NoLimits(s) THEN Unknown
  ELSE IF Cardinality(Exposed(s)) + (IF AlreadyOpen(s) THEN 0 ELSE 1) > Limits.maxOpenPositions THEN Block ELSE Pass
TradesPerDay(s) ==
  IF NoLimits(s) THEN Unknown
  ELSE IF s.tradesToday >= Limits.maxNewTradesPerDay THEN Block ELSE Pass
Exposure(s, z, current, pct) ==
  IF NoLimits(s) \/ s.equity <= 0 THEN Unknown
  ELSE IF current + z.notional > MulDown(s.equity, pct) THEN Block ELSE Pass
GrossExposureRule(s, z) == Exposure(s, z, GrossExposure(s), Limits.maxGrossExposurePct)
AssetExposureRule(s, z) ==
  IF AlreadyOpen(s) THEN Block ELSE Exposure(s, z, AssetExposure(s), Limits.maxAssetExposurePct)
Correlation(s, z) ==
  IF s.group = "missing" THEN Unknown
  ELSE Exposure(s, z, GrossExposure(s), Limits.maxCorrelatedExposurePct)
\* Ages of candles, data quality, regime and portfolio snapshot; then the candidate.
DataFreshness(s) ==
  IF s.age = "future" THEN Block
  ELSE IF s.age = "unknown" THEN Unknown
  ELSE IF s.age = "stale" THEN Block
  ELSE IF s.candidate \in {"expired", "notReady"} THEN Block ELSE Pass

DataQuality(s) ==
  IF s.quality = "contradictory" THEN Critical
  ELSE IF s.quality = "unknown" THEN Unknown
  ELSE IF s.quality = "poor" THEN Block ELSE Pass
Spread(s) ==
  IF s.profile # "active" \/ s.spreadBps < 0 THEN Critical
  ELSE IF NoLimits(s) THEN Unknown
  ELSE IF s.spreadBps > Limits.maxSpreadBps THEN Block ELSE Pass
Slippage(s, z) ==
  IF s.profile = "missing" \/ s.slippageBps < 0 THEN Critical
  ELSE IF NoLimits(s) THEN Unknown
  ELSE IF s.slippageBps > Limits.maxSlippageBps THEN Block
  ELSE IF s.slippageBps > 0 /\ ~z.computable THEN Unknown ELSE Pass
Regime(s) == IF s.regime = "missing" THEN Unknown ELSE IF s.regime # "fits" THEN Block ELSE Pass
\* loadDailyCounters: the losses up to the last win or the last release of the kill
\* switch; closed trades, newest first.  Break-even neither counts nor ends it.
Streak(history) ==
  LET ends == {i \in DOMAIN history : history[i] \in {"WIN", "RELEASE"}}
      upTo == IF ends = {} THEN Len(history) ELSE Min(ends) - 1
  IN  Cardinality({i \in 1..upTo : history[i] = "LOSS"})
\* Mutant: a break-even trade ends the streak.
StreakEndsAtEven(history) ==
  LET ends == {i \in DOMAIN history : history[i] \in {"WIN", "EVEN", "RELEASE"}}
      upTo == IF ends = {} THEN Len(history) ELSE Min(ends) - 1
  IN  Cardinality({i \in 1..upTo : history[i] = "LOSS"})
LossStreak(s) ==
  IF NoLimits(s) THEN Unknown
  ELSE IF Streak(s.history) >= Limits.maxConsecutiveLosses THEN Kill ELSE Pass
NoScaleIn(s) ==
  IF (\E p \in s.positions : p.asset = s.asset) \/ (\E r \in s.reserves : r.asset = s.asset) THEN FailLock ELSE Pass
NoMartingale(s) == IF s.override THEN Critical ELSE Pass
NoPostLossIncrease(s, z) ==
  IF z.risk > z.budget THEN Block
  ELSE IF s.previousEquity # Missing /\ NoLimits(s) THEN Unknown
  ELSE IF /\ s.previousEquity # Missing /\ s.equity < s.previousEquity
          /\ z.risk > MulDown(s.previousEquity, Limits.maxRiskPerTradePct) THEN FailLock ELSE Pass
InstrumentMinimums(s, z) ==
  IF s.profile = "missing" \/ ~z.computable THEN Unknown
  ELSE IF z.quantity <= 0 \/ z.quantity < s.minQuantity THEN Block
  ELSE IF s.maxQuantity # Missing /\ z.quantity > s.maxQuantity THEN Block
  ELSE IF z.notional < s.minNotional \/ z.reserve > s.cash THEN Block ELSE Pass
IdempotencyVersion(s) ==
  IF s.candidate \in {"decided", "incomplete", "retired", "conflict"} THEN Critical
  ELSE IF s.limits # "pinned" THEN Critical ELSE Pass

RISK_RULES(s, z) ==
  <<ShadowMode(s), Session(s), PortfolioConsistencyRule(s), AssetScope(s), LongOnly(s), NoLeverage(s),
    StopRequired(s, z), MinRewardRisk(s, z), RiskPerTrade(s, z), DailyLoss(s), OpenPositions(s), TradesPerDay(s),
    GrossExposureRule(s, z), AssetExposureRule(s, z), Correlation(s, z), DataFreshness(s), DataQuality(s),
    Spread(s), Slippage(s, z), Regime(s), LossStreak(s), NoScaleIn(s), NoMartingale(s),
    NoPostLossIncrease(s, z), InstrumentMinimums(s, z), IdempotencyVersion(s)>>

----------------------------------------------------------------------------
(* The evaluation and what the risk job does with it                       *)

DIRECTIVE_RANK == [NONE |-> 0, BLOCK_NEW |-> 1, ENGAGE_KILL_SWITCH |-> 2, ERROR_LOCK |-> 3]
Strongest(directives) ==
  CHOOSE d \in directives : \A e \in directives : DIRECTIVE_RANK[e] <= DIRECTIVE_RANK[d]

\* One directive is kept, the one of the highest rank.
SummarizeResults(results, quantity) ==
  LET outcomes == {r.outcome : r \in results}
      outcome == IF "ERROR" \in outcomes THEN "ERROR"
                 ELSE IF "FAIL" \in outcomes THEN "REJECTED" ELSE "APPROVED"
      kept == {r.directive : r \in results} \cup (IF outcome = "ERROR" THEN {"BLOCK_NEW"} ELSE {})
  IN  [outcome |-> outcome, directive |-> Strongest(kept),
       quantity |-> IF outcome = "APPROVED" THEN quantity ELSE 0]

\* evaluateRisk runs every rule, whatever the ones before it said.
EvaluateRisk(s) ==
  LET rules == RISK_RULES(s, Sizing(s))
  IN  SummarizeResults({rules[i] : i \in DOMAIN rules}, Sizing(s).quantity)

NotAssembled == [limits |-> "missing"]
NoVerdict == [outcome |-> "NONE", directive |-> "NONE", quantity |-> 0]

\* Open, open with its kill switch engaged, locked, or no session that is not closed.
Sessions == {"NONE", "OPEN", "KILLED", "ERROR_LOCKED"}

RiskInit ==
  /\ stage = "loaded" /\ snapshot = NotAssembled /\ verdict = NoVerdict
  /\ openSession = "NONE" /\ overtaken = FALSE
  /\ stopped = FALSE /\ dropped = FALSE /\ lockedByRisk = {}

\* assembleRiskSnapshot
Assemble ==
  /\ stage = "loaded" /\ stage' = "assembled"
  /\ snapshot' \in Snapshots
  /\ UNCHANGED <<verdict, sessionVars>>

Evaluate ==
  /\ stage = "assembled" /\ stage' = "evaluated"
  /\ verdict' = EvaluateRisk(snapshot)
  /\ UNCHANGED <<snapshot, sessionVars>>

\* The session is read once more only for a limit set that deviates from the pinned one.
AfterDirective == IF snapshot.limits = "deviating" THEN "directed" ELSE "done"

\* persistRiskAssessment: the directive of a decision that this run RECORDED is taken up;
\* applyRiskDirective acts on ENGAGE_KILL_SWITCH only.
Record ==
  /\ stage = "evaluated" /\ ~NoLimits(snapshot)
  /\ stage' = IF verdict.directive = "ENGAGE_KILL_SWITCH" THEN "recorded" ELSE AfterDirective
  /\ UNCHANGED <<snapshot, verdict, sessionVars>>

\* Nothing follows a decision without a limit set (NOT_PERSISTABLE), a replay, a conflict,
\* nor an exception or the death of the job before the directive is carried out; no later
\* run makes up for it.
Drop ==
  /\ stage \in {"evaluated", "recorded", "engaging", "directed", "locking"}
  /\ stage' = "done" /\ dropped' = TRUE
  /\ UNCHANGED <<snapshot, verdict, openSession, overtaken, stopped, lockedByRisk>>

\* applyRiskDirective reads the session: nothing to do without one, or when its switch
\* is engaged.
ReadForSwitch ==
  /\ stage = "recorded"
  /\ openSession' \in Sessions /\ overtaken' = FALSE
  /\ IF openSession' = "OPEN"
       THEN stage' = "engaging" /\ UNCHANGED <<stopped, dropped>>
       ELSE /\ stage' = AfterDirective
            /\ stopped' = (openSession' # "NONE") /\ dropped' = (openSession' = "NONE")
  /\ UNCHANGED <<snapshot, verdict, lockedByRisk>>

\* Its transaction, a compare-and-swap on the version that was read.
EngageSwitch ==
  /\ stage = "engaging" /\ stage' = AfterDirective
  /\ openSession' = IF overtaken THEN openSession ELSE "KILLED"
  /\ stopped' = ~overtaken /\ dropped' = overtaken
  /\ UNCHANGED <<snapshot, verdict, overtaken, lockedByRisk>>

\* engageRiskLimitSetErrorLock reads the session again.
ReadForLock ==
  /\ stage = "directed" /\ stage' = "locking"
  /\ openSession' \in Sessions /\ overtaken' = FALSE
  /\ UNCHANGED <<snapshot, verdict, stopped, dropped, lockedByRisk>>

\* Its transaction: the session by a compare-and-swap, the portfolio in any case.
LockForLimits ==
  LET wins == ~overtaken /\ openSession \in {"OPEN", "KILLED"} IN
  /\ stage = "locking" /\ stage' = "done"
  /\ openSession' = IF wins THEN "ERROR_LOCKED" ELSE openSession
  /\ lockedByRisk' = {"portfolio"} \cup (IF wins THEN {"session"} ELSE {})
  /\ UNCHANGED <<snapshot, verdict, overtaken, stopped, dropped>>

\* A command, another job: the row is no longer the one that was read.
OtherWriter ==
  /\ stage \in {"engaging", "locking"} /\ openSession # "NONE"
  /\ openSession' \in Sessions /\ overtaken' = TRUE
  /\ UNCHANGED <<stage, snapshot, verdict, stopped, dropped, lockedByRisk>>

RiskNext ==
  \/ Assemble \/ Evaluate \/ Record \/ Drop \/ ReadForSwitch \/ EngageSwitch
  \/ ReadForLock \/ LockForLimits \/ OtherWriter

RiskSpec == RiskInit /\ [][RiskNext]_riskVars

----------------------------------------------------------------------------
(* Properties                                                              *)

RiskTypeOK ==
  /\ stage \in {"loaded", "assembled", "evaluated", "recorded", "engaging", "directed", "locking", "done"}
  /\ verdict.outcome \in {"NONE", "ERROR", "REJECTED", "APPROVED"}
  /\ verdict.directive \in DOMAIN DIRECTIVE_RANK /\ verdict.quantity >= 0
  /\ openSession \in Sessions /\ lockedByRisk \subseteq {"session", "portfolio"}
  /\ overtaken \in BOOLEAN /\ stopped \in BOOLEAN /\ dropped \in BOOLEAN

\* A quantity stays within every limit of the policy: what it may lose, what it
\* costs with its fees, what it exposes.  Exact, on products instead of the
\* rounded quotients of the code.
Fits(q, s) ==
  LET entry == Entering(s.entry, s)
      stop == Leaving(s.stop, s)
      fees == MulUp(entry, Rate(s.feeBps)) + MulUp(stop, Rate(s.feeBps))
      cost == IF Long(s) THEN entry + MulUp(entry, Rate(s.feeBps)) ELSE stop + fees
  IN  /\ q * (Adverse(entry, stop, s) + fees) <= Scale * MulDown(s.equity, Limits.maxRiskPerTradePct)
      /\ q * cost <= Scale * s.cash
      /\ q * entry <= Scale * (MulDown(s.equity, Limits.maxGrossExposurePct) - GrossExposure(s))
      /\ q * entry <= Scale * (MulDown(s.equity, Limits.maxAssetExposurePct) - AssetExposure(s))
      /\ q * entry <= Scale * (MulDown(s.equity, Limits.maxCorrelatedExposurePct) - GrossExposure(s))
      /\ s.maxQuantity # Missing => q <= s.maxQuantity

\* An approved quantity is the largest multiple of the step that fits every limit.
SizeIsLargestThatFits ==
  verdict.outcome = "APPROVED" =>
    /\ verdict.quantity > 0 /\ verdict.quantity % snapshot.step = 0
    /\ Fits(verdict.quantity, snapshot) /\ ~Fits(verdict.quantity + snapshot.step, snapshot)

\* A value the engine could not read never leads to an approval.
UnknownNeverApproves ==
  verdict.outcome = "APPROVED" =>
    /\ \A v \in {"missing", "unknown", "unreadable", "NONE"} :
         v \notin {snapshot.limits, snapshot.profile, snapshot.age, snapshot.quality, snapshot.regime,
                   snapshot.group, snapshot.books, snapshot.session, snapshot.direction}
    /\ Missing \notin {snapshot.entry, snapshot.stop, snapshot.target, snapshot.startOfDay,
                       snapshot.equity, snapshot.spreadBps, snapshot.slippageBps}

\* Nothing that could not be read is approved, and an approved quantity is the largest
\* that stays within every limit.
ApprovalsAreSafe == UnknownNeverApproves /\ SizeIsLargestThatFits

\* The loss of the day, or the unreviewed losses in a row, that end trading.
LossesEndTheDay(s) ==
  /\ s.limits = "pinned"
  /\ \/ s.startOfDay > 0 /\ s.dailyPnl <= -MulDown(s.startOfDay, Limits.maxDailyLossPct)
     \/ \E I \in SUBSET {i \in DOMAIN s.history : s.history[i] = "LOSS"} :
          /\ Cardinality(I) = Limits.maxConsecutiveLosses
          /\ \A i \in I : \A j \in 1..i : s.history[j] \notin {"WIN", "RELEASE"}

\* Losses at the limit make the verdict ask for the kill switch, or for a lock, which is
\* stronger; a switch asked for is engaged when the run is done with the candidate, unless
\* the decision was not recorded, there is no session, another writer was faster or the
\* job died.
LossesEngageTheSwitch ==
  LossesEndTheDay(snapshot) =>
    /\ verdict # NoVerdict => verdict.directive \in {"ENGAGE_KILL_SWITCH", "ERROR_LOCK"}
    /\ stage = "done" /\ verdict.directive = "ENGAGE_KILL_SWITCH" => stopped \/ dropped

\* Losses at the limit end in an engaged kill switch or a locked session,
\* whatever else is wrong with the candidate, when nothing fails.
LossesAlwaysStop ==
  stage = "done" /\ LossesEndTheDay(snapshot) /\ ~dropped => stopped \/ lockedByRisk # {}

\* The exposure an approval leads to, the order's own reserve counted as
\* exposure as it will be once the order is there, stays within the asset's cap.
ExposureIsPostTrade ==
  verdict.outcome = "APPROVED" =>
    AssetExposure(snapshot) + Sizing(snapshot).reserve <= MulDown(snapshot.equity, Limits.maxAssetExposurePct)

===============================================================================
