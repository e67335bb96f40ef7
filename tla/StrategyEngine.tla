---------------------------- MODULE StrategyEngine ----------------------------
(***************************************************************************)
(* packages/strategy-engine: five registered strategies decide on one      *)
(* pinned snapshot of candles, data quality, signals, regime and context   *)
(* whether it is a trade candidate, and with which stop and target.  An    *)
(* engine is a function of its snapshot; a behaviour takes a snapshot and  *)
(* evaluates it.  Prices are integers, in multiples of the smallest price, *)
(* and are rounded where DecimalValue's are.  Times are ages at asOf, in   *)
(* quarters of an hour: a negative age lies in the future.                 *)
(***************************************************************************)
EXTENDS Integers, Sequences, FiniteSets, FiniteSetsExt

CONSTANTS
  Periods,     \* candles per indicator and per series
  Inputs       \* StrategyInputSnapshotV1: what the assembler may hand over

VARIABLES
  evalStage,   \* "waiting", "assembled", "decided"
  input,       \* the snapshot
  decision     \* its StrategyEvaluationResultV1

strategyVars == <<evalStage, input, decision>>

Unavailable == -1    \* null, in an indicator
Timeframes == {"1h", "4h", "1d"}
Interval == [t \in Timeframes |-> CASE t = "1h" -> 4 [] t = "4h" -> 16 [] t = "1d" -> 96]
MaxAge == [t \in Timeframes |-> CASE t = "1h" -> 9 [] t = "4h" -> 33 [] t = "1d" -> 193]
MaxQualityAge == 8
MaxRegimeAge == 104
CandidateTtl == 8

----------------------------------------------------------------------------
(* The contracts: what a snapshot and a result are made of.  present is    *)
(* FALSE where the source has null.                                        *)

SnapshotCandleV1 ==
  [source : STRING, open : Int, close : Int, first : Int, last : Int, high : Int, low : Int, volume : Int]
SnapshotDataQualityV1 == [present : BOOLEAN, age : Int, errors : Nat, gaps : Nat, count : Nat]
SnapshotSignalV1 ==
  [present : BOOLEAN, age : Int, direction : STRING, status : STRING, adjusted : STRING, score : Int, risk : STRING]
SnapshotMultiTimeframeV1 == [present : BOOLEAN, alignment : STRING, score : Int]
SnapshotMarketRegimeV1 ==
  [present : BOOLEAN, age : Int, source : STRING, crypto : STRING, mode : STRING, confidence : Int]
SnapshotContextEventV1 == [severity : STRING, bias : {"BULLISH", "BEARISH", "NEUTRAL"}]
StrategyInputSnapshotV1 ==
  [key : STRING, version : STRING, identity : STRING, assignment : STRING, asset : STRING, profile : STRING,
   tick : Int, series : [Timeframes -> Seq(SnapshotCandleV1)], quality : [Timeframes -> SnapshotDataQualityV1],
   regime : SnapshotMarketRegimeV1, signals : [Timeframes -> SnapshotSignalV1], mtf : SnapshotMultiTimeframeV1,
   events : SUBSET SnapshotContextEventV1]

TradeCandidateDraftV1 == [entry : Nat, stop : Nat, target : Nat, window : Int \X Int]
StrategyEvaluationResultV1 ==
  [outcome : {"NONE", "INVALID_INPUT", "NO_CANDIDATE", "CANDIDATE"}, plan : TradeCandidateDraftV1]

----------------------------------------------------------------------------
(* Rounding                                                                *)

Ceil(a, b) == -((-a) \div b)
HalfUp(a, b) == (2 * a + b) \div (2 * b)      \* a is never negative here
StepFloor(a, step) == (a \div step) * step
StepCeil(a, step) == Ceil(a, step) * step

----------------------------------------------------------------------------
(* The strategies                                                          *)

\* What the strategies of the breakout evaluator have in common; percentages
\* and ratios are parts of 10000.
BreakoutRules ==
  [direction |-> "LONG", trend |-> TRUE, signals |-> TRUE, volume |-> 15000, rsiMin |-> 5000, rsiMax |-> 7200,
   atrMin |-> 50, atrMax |-> 400, stopAtr |-> 15, floorPct |-> 75, capPct |-> 300, target |-> 25,
   aligned |-> TRUE, source |-> "production", regime |-> "RISK_ON"]

StrategyDefinitions ==
  [CRYPTO_MTF_BREAKOUT_V1 |-> [BreakoutRules EXCEPT !.aligned = FALSE],
   CRYPTO_MTF_BREAKOUT_LONG_V1 |-> BreakoutRules,
   CRYPTO_TREND_CORE_LONG_V1 |->
     [BreakoutRules EXCEPT !.signals = FALSE, !.volume = 0, !.rsiMin = 0, !.rsiMax = 10000, !.atrMin = 0,
                           !.atrMax = 10000, !.floorPct = 175, !.capPct = 600, !.target = 30, !.source = "native"],
   CRYPTO_MTF_BREAKDOWN_SHORT_V1 |->
     [BreakoutRules EXCEPT !.direction = "SHORT", !.rsiMin = 2800, !.rsiMax = 5000, !.regime = "RISK_OFF"],
   CRYPTO_REGIME_LONG_V1 |->
     [BreakoutRules EXCEPT !.trend = FALSE, !.signals = FALSE, !.stopAtr = 20, !.floorPct = 0, !.capPct = 10000,
                           !.target = 40, !.source = "native"]]

RegisteredKeys == DOMAIN StrategyDefinitions
Rules(s) == StrategyDefinitions[s.key]
IsShort(s) == Rules(s).direction = "SHORT"

----------------------------------------------------------------------------
(* Pre-validation                                                          *)

\* Mutant: a candle may still be open.
SeriesWithOpenCandle(t, candles) ==
  /\ Len(candles) >= Periods.minimum
  /\ \A i \in 1..(Len(candles) - 1) : candles[i].open - candles[i + 1].open = Interval[t]

\* validateSeries: enough closed candles of a known source, in order, each
\* consistent in itself, and no gap among the last ones.
SeriesValid(t, candles) ==
  /\ Len(candles) >= Periods.minimum
  /\ \A i \in DOMAIN candles :
       LET c == candles[i] IN
       /\ c.source # "UNKNOWN" /\ c.close >= 0
       /\ 0 < c.open - c.close /\ c.open - c.close <= Interval[t]
       /\ 0 < c.low /\ c.low <= c.first /\ c.first <= c.high
       /\ c.low <= c.last /\ c.last <= c.high /\ c.volume >= 0
  /\ \A i \in 1..(Len(candles) - 1) : candles[i].open > candles[i + 1].open
  /\ \A i \in (Len(candles) - Periods.gapFree + 1)..(Len(candles) - 1) :
       i >= 1 => candles[i].open - candles[i + 1].open = Interval[t]

Anchor(s, t) == s.series[t][Len(s.series[t])]
Fresh(s, t) == Anchor(s, t).close <= MaxAge[t]

QualityValid(q) ==
  /\ q.present /\ 0 <= q.age /\ q.age <= MaxQualityAge
  /\ q.errors = 0 /\ q.gaps = 0 /\ q.count >= Periods.minimum

RegimeValid(s) ==
  /\ s.regime.present /\ 0 <= s.regime.age /\ s.regime.age <= MaxRegimeAge
  /\ s.regime.source = Rules(s).source

\* A signal of the hour belongs to the anchor candle; the others may be as old
\* as their candles.
SignalValid(s, t) ==
  LET signal == s.signals[t]
      afterClose == Anchor(s, "1h").close - signal.age IN
  /\ signal.present /\ signal.age >= 0
  /\ IF t = "1h" THEN 0 <= afterClose /\ afterClose <= Interval["1h"] ELSE signal.age <= MaxAge[t]

\* The snapshot's version, and key, engine and specification hash of the strategy.
IdentityValid(s) == s.version = "V1" /\ s.identity = "pinned"
\* Enabled, and within its window.
AssignmentValid(s) == s.assignment = "enabled"
\* A listed spot asset without leverage.
AssetValid(s) == s.asset = "allowed"
ProfileValid(s) == s.profile = "ACTIVE"

\* validateStrategyInput.  The context events are taken as they are.
InputValid(s) ==
  /\ IdentityValid(s) /\ AssignmentValid(s) /\ AssetValid(s) /\ ProfileValid(s)
  /\ \A t \in Timeframes : SeriesValid(t, s.series[t]) /\ Fresh(s, t) /\ QualityValid(s.quality[t])
  /\ RegimeValid(s) /\ \A t \in Timeframes : SignalValid(s, t)
  /\ s.mtf.present

----------------------------------------------------------------------------
(* Indicators, over the last candles                                       *)

LastOf(candles, n) == SubSeq(candles, Len(candles) - n + 1, Len(candles))
Total(values) == LET sum[i \in 0..Len(values)] == IF i = 0 THEN 0 ELSE sum[i - 1] + values[i] IN sum[Len(values)]
Mean(values) == HalfUp(Total(values), Len(values))
Lasts(candles) == [i \in DOMAIN candles |-> candles[i].last]
Greater(a, b) == IF a > b THEN a ELSE b
Magnitude(a) == IF a < 0 THEN -a ELSE a

SimpleMovingAverage(candles, n) ==
  IF Len(candles) < n THEN Unavailable ELSE Mean(Lasts(LastOf(candles, n)))

\* Gains against losses; without losses 100, without either 50.
RelativeStrengthIndex(candles, n) ==
  LET w == Lasts(LastOf(candles, n + 1))
      gains == [i \in 1..n |-> Greater(w[i + 1] - w[i], 0)]
      losses == [i \in 1..n |-> Greater(w[i] - w[i + 1], 0)]
      gain == HalfUp(Total(gains), n)
      loss == HalfUp(Total(losses), n)
  IN  IF Len(candles) < n + 1 THEN Unavailable
      ELSE IF loss = 0 THEN (IF gain = 0 THEN 5000 ELSE 10000)
      ELSE 10000 - HalfUp(10000 * 100, 100 + HalfUp(gain * 100, loss))

TrueRange(c, previous) ==
  Greater(c.high - c.low, Greater(Magnitude(c.high - previous.last), Magnitude(c.low - previous.last)))
AverageTrueRange(candles, n) ==
  IF Len(candles) < n + 1 THEN Unavailable
  ELSE LET w == LastOf(candles, n + 1) IN Mean([i \in 1..n |-> TrueRange(w[i + 1], w[i])])

\* The candles before the anchor.
Prior(candles, n) == SubSeq(candles, Len(candles) - n, Len(candles) - 1)
PriorPeriodHigh(candles, n) ==
  IF Len(candles) < n + 1 THEN Unavailable ELSE Max({Prior(candles, n)[i].high : i \in 1..n})
PriorPeriodLow(candles, n) ==
  IF Len(candles) < n + 1 THEN Unavailable ELSE Min({Prior(candles, n)[i].low : i \in 1..n})

\* In parts of 10000; Unavailable when nothing was traded before.
RelativeVolume(candles, n) ==
  IF Len(candles) < n + 1 THEN Unavailable
  ELSE LET average == Mean([i \in 1..n |-> Prior(candles, n)[i].volume])
       IN  IF average = 0 THEN Unavailable ELSE HalfUp(10000 * candles[Len(candles)].volume, average)

----------------------------------------------------------------------------
(* The entry rules                                                         *)

Rising(values) == \A i \in 1..(Len(values) - 1) : values[i] > values[i + 1]
Falling(values) == \A i \in 1..(Len(values) - 1) : values[i] < values[i + 1]
Stacked(s, values) ==
  /\ \A i \in DOMAIN values : values[i] # Unavailable
  /\ IF IsShort(s) THEN Falling(values) ELSE Rising(values)

TrendAgrees(s) ==
  LET averages(t, periods) == <<Anchor(s, t).last>> \o
        [i \in DOMAIN periods |-> SimpleMovingAverage(s.series[t], periods[i])] IN
  /\ Stacked(s, averages("1h", <<Periods.fast, Periods.medium, Periods.slow>>))
  /\ \A t \in {"4h", "1d"} : Stacked(s, averages(t, <<Periods.medium, Periods.slow>>))

\* The close leaves the range of the candles before it, upwards or downwards.
BreaksOut(s) ==
  LET high == PriorPeriodHigh(s.series["1h"], Periods.lookback)
  IN  high # Unavailable /\ Anchor(s, "1h").last > high
BreaksDown(s) ==
  LET low == PriorPeriodLow(s.series["1h"], Periods.lookback)
  IN  low # Unavailable /\ Anchor(s, "1h").last < low
Breaks(s) == IF IsShort(s) THEN BreaksDown(s) ELSE BreaksOut(s)

MomentumFits(s) ==
  LET hour == s.series["1h"]
      rules == Rules(s)
      rsi == RelativeStrengthIndex(hour, Periods.rsi)
      volume == RelativeVolume(hour, Periods.volume)
      atr == AverageTrueRange(hour, Periods.atr)
      ratio == HalfUp(atr * 10000, Anchor(s, "1h").last) IN
  /\ rsi # Unavailable /\ rules.rsiMin <= rsi /\ rsi <= rules.rsiMax
  /\ volume # Unavailable /\ volume >= rules.volume
  /\ atr > 0 /\ rules.atrMin <= ratio /\ ratio <= rules.atrMax

\* The long strategies prefer the status adjusted by the signal rules, the short
\* strategy reads the status the signal was stored with.
EffectiveStatus(s, signal) ==
  IF IsShort(s) \/ signal.adjusted = "none" THEN signal.status ELSE signal.adjusted

SignalsAgree(s, bias) ==
  /\ LET hour == s.signals["1h"] IN
     /\ hour.direction = bias /\ EffectiveStatus(s, hour) \in {"WATCH", "STRONG_WATCH"}
     /\ hour.score >= 70 /\ hour.risk # "HIGH"
  /\ \A t \in {"4h", "1d"} :
       LET signal == s.signals[t] IN
       /\ signal.direction = bias /\ EffectiveStatus(s, signal) \notin {"AVOID", "NO_EDGE"}
       /\ signal.risk # "HIGH"
  /\ s.mtf.alignment = bias /\ s.mtf.score >= 65

BullishSignals(s) == SignalsAgree(s, "BULLISH")
BearishSignals(s) == SignalsAgree(s, "BEARISH")
SignalsConfirm(s) == IF IsShort(s) THEN BearishSignals(s) ELSE BullishSignals(s)

\* regimeGateOpen
RegimeGateOpen(s) ==
  /\ s.regime.crypto = Rules(s).regime /\ s.regime.mode \notin {"DEFENSIVE", "HIGH_RISK", "UNKNOWN"}
  /\ s.regime.confidence >= 60

\* A long candidate waits out critical bearish events, a short one every critical event.
QuietForLong(s) == \A e \in s.events : e.severity = "CRITICAL" => e.bias # "BEARISH"
QuietForShort(s) == \A e \in s.events : e.severity # "CRITICAL"
ContextIsQuiet(s) == IF IsShort(s) THEN QuietForShort(s) ELSE QuietForLong(s)

Unexpired(s) == Anchor(s, "1h").close < CandidateTtl

----------------------------------------------------------------------------
(* The price plan                                                          *)

NoPlan == [entry |-> 0, stop |-> 0, target |-> 0, window |-> <<0, 0>>]

\* Mutant: the prices stay where the percentages put them, between two ticks.
AlignNowhere(s, price, tick) == price

\* alignStopToTick and alignTakeProfitToTick: away from the entry the one, towards it the other.
AlignToTick(s, price, tick) == IF IsShort(s) THEN StepCeil(price, tick) ELSE StepFloor(price, tick)

TickAligns(s) == Rules(s).aligned
TickUsable(s) == ~TickAligns(s) \/ s.tick > 0
Aligned(s, price) == IF TickAligns(s) THEN AlignToTick(s, price, s.tick) ELSE price

\* Which way the target lies.
Way(s) == IF IsShort(s) THEN -1 ELSE 1

\* The candles whose range the stop is measured in.
StopSeries(s) == IF Rules(s).trend THEN s.series["1h"] ELSE s.series["1d"]

PlanOf(s) ==
  LET rules == Rules(s)
      entry == Anchor(s, "1h").last
      atr == AverageTrueRange(StopSeries(s), Periods.atr)
      hourAtr == AverageTrueRange(s.series["1h"], Periods.atr)
      wanted == Greater(Ceil(rules.stopAtr * atr, 10), Ceil(rules.floorPct * entry, 10000))
      stop == Aligned(s, entry - Way(s) * wanted)
      distance == Way(s) * (entry - stop)
      target == Aligned(s, entry + Way(s) * ((rules.target * distance) \div 10))
      gap == hourAtr \div 2
  IN  [entry |-> entry, stop |-> stop, target |-> target,
       window |-> IF IsShort(s) THEN <<entry - gap, stop>> ELSE <<stop, entry + gap>>]

Distance(plan) == Magnitude(plan.entry - plan.stop)
Reward(plan) == Magnitude(plan.target - plan.entry)

\* The reward is at least twice the risk.
RewardSuffices(plan) == Reward(plan) >= 2 * Distance(plan)

\* The stop within its cap, and both prices positive and on their side.
PlanValid(s, plan) ==
  /\ AverageTrueRange(StopSeries(s), Periods.atr) > 0
  /\ AverageTrueRange(s.series["1h"], Periods.atr) > 0
  /\ Ceil(Distance(plan) * 10000, plan.entry) <= Rules(s).capPct
  /\ plan.stop > 0 /\ plan.target > 0 /\ RewardSuffices(plan)
  /\ Way(s) * (plan.entry - plan.stop) > 0 /\ Way(s) * (plan.target - plan.entry) > 0

----------------------------------------------------------------------------
(* The evaluation                                                          *)

EntryRules(s) ==
  /\ Rules(s).trend => TrendAgrees(s) /\ Breaks(s) /\ MomentumFits(s)
  /\ Rules(s).signals => SignalsConfirm(s)
  /\ RegimeGateOpen(s) /\ ContextIsQuiet(s) /\ Unexpired(s)

Undecided == [outcome |-> "NONE", plan |-> NoPlan]

Refusal(outcome) == [outcome |-> outcome, plan |-> NoPlan]
Candidate(s) == [outcome |-> "CANDIDATE", plan |-> PlanOf(s)]

\* Every rule is evaluated, one that fails refuses the candidate.
EvaluateRules(s) ==
  IF EntryRules(s) /\ TickUsable(s) /\ PlanValid(s, PlanOf(s)) THEN Candidate(s) ELSE Refusal("NO_CANDIDATE")

\* evaluateStrategy
EvaluateStrategy(s) ==
  IF s.key \notin RegisteredKeys \/ ~InputValid(s) THEN Refusal("INVALID_INPUT") ELSE EvaluateRules(s)

NoInput == [key |-> "NONE"]

StrategyInit == evalStage = "waiting" /\ input = NoInput /\ decision = Undecided

AssembleInput ==
  /\ evalStage = "waiting" /\ evalStage' = "assembled"
  /\ input' \in Inputs /\ UNCHANGED decision

EvaluateInput ==
  /\ evalStage = "assembled" /\ evalStage' = "decided"
  /\ decision' = EvaluateStrategy(input) /\ UNCHANGED input

StrategyNext == AssembleInput \/ EvaluateInput

StrategySpec == StrategyInit /\ [][StrategyNext]_strategyVars

----------------------------------------------------------------------------
(* Properties                                                              *)

StrategyTypeOK ==
  /\ evalStage \in {"waiting", "assembled", "decided"}
  /\ evalStage # "waiting" => input \in StrategyInputSnapshotV1
  /\ decision \in StrategyEvaluationResultV1

IsCandidate == decision.outcome = "CANDIDATE"

\* A candidate was decided on closed candles and on facts that were there at
\* asOf, about the hour that just closed, by the regime its strategy was
\* specified for, and it can still be filled.  Context events are not dated.
DecidedOnKnownFacts ==
  IsCandidate =>
    /\ \A t \in Timeframes : \A i \in DOMAIN input.series[t] : input.series[t][i].close >= 0
    /\ \A t \in Timeframes : input.quality[t].age >= 0 /\ input.signals[t].age >= 0
    /\ input.regime.age >= 0 /\ input.regime.source = Rules(input).source
    /\ input.signals["1h"].age <= Anchor(input, "1h").close
    /\ Anchor(input, "1h").close < CandidateTtl

\* The plan risks no less than the range of the market asks for, and promises
\* twice what it risks, after both prices have moved to the instrument's ticks.
PlanSurvivesTicks ==
  IsCandidate =>
    LET plan == decision.plan
        rules == Rules(input) IN
    /\ 10 * Distance(plan) >= rules.stopAtr * AverageTrueRange(StopSeries(input), Periods.atr)
    /\ 10000 * Distance(plan) >= rules.floorPct * plan.entry
    /\ 10000 * Distance(plan) <= rules.capPct * plan.entry
    /\ Reward(plan) >= 2 * Distance(plan) /\ 10 * Reward(plan) <= rules.target * Distance(plan)
    /\ rules.trend => Magnitude(plan.window[2] - plan.window[1]) < Distance(plan) + Reward(plan)
    /\ rules.aligned => plan.stop % input.tick = 0 /\ plan.target % input.tick = 0

\* A candidate is decided on facts that were there, and its plan says what the
\* strategy's rules say of stop and target, whatever the ticks do to both prices.
CandidatesAreSound == DecidedOnKnownFacts /\ PlanSurvivesTicks

=============================================================================
