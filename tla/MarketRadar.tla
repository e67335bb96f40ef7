---------------------------- MODULE MarketRadar ----------------------------
(***************************************************************************)
(* The market radar of one asset on one timeframe                           *)
(* (apps/worker/src/jobs/quickCryptoRadar.ts, quickEquityRadar.ts,          *)
(* lib/radarPersistence.ts, lib/chartPatterns.ts).  A run measures the      *)
(* newest closed candles, turns what stands out into candidates, stores     *)
(* those that are new as radar events and only then posts the events that   *)
(* pass the gate.  The store is what later runs compare with: nothing says  *)
(* whether an event was told.  A call may fail and the process may die      *)
(* between any two steps.  The scheduler lets no two runs overlap.          *)
(***************************************************************************)
EXTENDS AlertRules, Sequences, SequencesExt

CONSTANTS
  RadarSettings, \* [class, enabled, alerts, minSeverity, patterns, mode, maxAge, watchlist, item]
  Readings,      \* what the candles of the asset may show
  AlertCooldown, \* ticks, QUICK_RADAR_ALERT_COOLDOWN_MINUTES
  MaxAssets,     \* QUICK_RADAR_MAX_ASSETS, EQUITY_RADAR_MAX_ASSETS
  MaxClock,      \* bound: ticks
  MaxReadings,   \* bound: readings
  MaxFaults      \* bound: posts the dispatch repeats

VARIABLES
  settings, clock,
  newest,    \* per event type the newest event: its baseline, its own direction, when it was stored
  radar,     \* where the run is, with what it still has to store and to tell
  heard,     \* per event type the event last posted with success, and whether the baseline turned since
  unearned,  \* posts of an event type that told nothing new
  faults, readings

radarVars == <<settings, clock, newest, radar, heard, unearned, faults, readings>>

Types == {"MOVEMENT_SPIKE", "VOLUME_SPIKE", "VOLATILITY_SPIKE", "BREAKOUT_PROXIMITY", "SR_PROXIMITY",
          "MOMENTUM_SHIFT", "CONFLUENCE"}

Quiet == [at |-> "off", now |-> 0, todo |-> <<>>, fresh |-> <<>>]

RadarInit ==
  /\ settings \in RadarSettings
  /\ clock = 0
  /\ newest = [t \in Types |-> {}]
  /\ radar = Quiet
  /\ heard = [t \in Types |-> {}]
  /\ unearned = 0 /\ faults = 0 /\ readings = 0

----------------------------------------------------------------------------
(* What is measured.  Ratios are in hundredths of the configured minimum:   *)
(* an asset stands out from 100 on.                                        *)

Size(n) == IF n < 0 THEN -n ELSE n
SeverityFromRatio(ratio) == IF ratio >= 300 THEN "CRITICAL" ELSE IF ratio >= 200 THEN "IMPORTANT" ELSE "WATCH"
ScoreFromRatio(ratio) == Min({100, (35 * ratio + 50) \div 100})

Event(type, severity, score, move, direction) ==
  [type |-> type, severity |-> severity, score |-> score, move |-> move, patternDirection |-> direction,
   patternConfirmed |-> type = "MOMENTUM_SHIFT"]

Metric(type, ratio, reading) ==
  IF ratio >= 100
  THEN <<Event(type, SeverityFromRatio(ratio), ScoreFromRatio(ratio), reading.move, None)>> ELSE <<>>
BuildRadarEventCandidates(reading) ==
  Metric("MOVEMENT_SPIKE", Size(reading.move), reading)
  \o Metric("VOLUME_SPIKE", reading.volume, reading) \o Metric("VOLATILITY_SPIKE", reading.range, reading)

(* Near one boundary of the last 20 candles, and not near both: with volume *)
(* (in hundredths of 1.5 times the average) a possible breakout.           *)
BuildProximityObservation(reading) ==
  IF reading.near = None THEN <<>>
  ELSE IF reading.relativeVolume >= 100
  THEN <<Event("BREAKOUT_PROXIMITY", IF reading.relativeVolume >= 200 THEN "IMPORTANT" ELSE "WATCH",
               Min({100, (50 * reading.relativeVolume + 50) \div 100}), reading.move, reading.near)>>
  ELSE <<Event("SR_PROXIMITY", "INFO", 10, reading.move, reading.near)>>

(* The RSI crosses its middle and ends three points beyond it.             *)
DetectMomentumShift(reading) ==
  LET direction == IF reading.rsi[1] < 50 /\ reading.rsi[2] >= 53 THEN "UP"
                   ELSE IF reading.rsi[1] > 50 /\ reading.rsi[2] <= 47 THEN "DOWN" ELSE None
      strength == Size(reading.rsi[2] - 50) IN
  IF direction = None THEN <<>>
  ELSE <<Event("MOMENTUM_SHIFT", IF strength >= 12 THEN "IMPORTANT" ELSE "WATCH", Min({100, 6 * strength}),
               reading.move, direction)>>

(* Three factors or more of either kind are an event of their own.         *)
EvaluateChartPatterns(reading, metrics) ==
  LET patterns == BuildProximityObservation(reading) \o DetectMomentumShift(reading)
      factors == Len(metrics) + Len(patterns) IN
  patterns \o IF factors >= 3
              THEN <<Event("CONFLUENCE", IF factors >= 4 THEN "CRITICAL" ELSE "IMPORTANT", Min({100, 25 * factors}),
                           reading.move, "NEUTRAL")>>
              ELSE <<>>

(* Candles that cannot be measured give no candidates: too few, too old, no *)
(* volume before the newest.                                               *)
EvaluateRadarCandles(reading) ==
  SeriesReason(reading, 2, settings.maxAge) = "OK" /\ reading.measurable

Candidates(reading) ==
  LET metrics == BuildRadarEventCandidates(reading) IN
  metrics \o IF settings.patterns THEN EvaluateChartPatterns(reading, metrics) ELSE <<>>

(* The watchlist in the order of its symbols: the first 3 * MaxAssets are    *)
(* read and of these the MaxAssets of highest priority measured.            *)
PriorityRank(priority) ==
  CASE priority = "HIGH" -> 3 [] priority = "MEDIUM" -> 2 [] priority = "LOW" -> 1 [] OTHER -> 0
LoadRadarAssets(watchlist) ==
  LET first == SubSeq(watchlist, 1, Min({3 * MaxAssets, Len(watchlist)}))
      Before(i, j) == LET a == PriorityRank(first[i]) b == PriorityRank(first[j]) IN a > b \/ (a = b /\ i < j) IN
  {i \in DOMAIN first : Cardinality({j \in DOMAIN first : Before(j, i)}) < MaxAssets}

----------------------------------------------------------------------------
(* One run                                                                 *)

StartRadar ==
  /\ radar.at = "off"
  /\ settings.enabled
  /\ radar' = [Quiet EXCEPT !.at = "read", !.now = clock]
  /\ UNCHANGED <<settings, clock, newest, heard, unearned, faults, readings>>

(* The watchlist is read, the candles are measured; a failed fetch or read  *)
(* counts as an error of the asset and the run goes on to the next.         *)
Measure(reading) ==
  /\ radar.at = "read" /\ readings < MaxReadings
  /\ readings' = readings + 1
  /\ settings.item.index \in LoadRadarAssets(settings.watchlist) /\ EvaluateRadarCandles(reading)
  /\ radar' = [radar EXCEPT !.at = "store", !.todo = Candidates(reading)]
  /\ UNCHANGED <<settings, clock, newest, heard, unearned, faults>>

MeasureCrypto(reading) == settings.class = "crypto" /\ Measure(reading)
MeasureEquity(reading) == settings.class = "equity" /\ Measure(reading)

Cooldown == IF settings.alerts THEN Max({1, AlertCooldown}) ELSE 1   \* ticks; 1 is eventCooldownMinutes

(* A baseline without a direction takes that of its event.                 *)
Baseline(existing) ==
  {[e.baseline EXCEPT !.direction = IF @ = None THEN e.own ELSE @] : e \in existing}
Current(candidate) ==
  [score |-> candidate.score, severity |-> candidate.severity,
   direction |-> RadarDirection(candidate.move, IF candidate.patternDirection \in {"UP", "DOWN"}
                                                THEN candidate.patternDirection ELSE None)]

(* Within the cooldown of the newest event of its type only what changed    *)
(* materially is stored.                                                   *)
WorthStoring(existing, current) ==
  \/ \A e \in existing : e.at < radar.now - Cooldown
  \/ RadarChange(current, Baseline(existing))

PersistCandidate ==
  LET candidate == Head(radar.todo)
      existing == newest[candidate.type]
      current == Current(candidate)
      baseline == Baseline(existing)
      direction == current.direction IN
  /\ radar.at = "store" /\ radar.todo # <<>>
  /\ IF WorthStoring(existing, current)
     THEN /\ radar' = [radar EXCEPT !.todo = Tail(@),
                         !.fresh = Append(@, [candidate |-> candidate, material |-> RadarChange(current, baseline)])]
          /\ newest' = [newest EXCEPT ![candidate.type] =
               {[baseline |-> b, own |-> direction, at |-> clock] : b \in NextBaseline(current, baseline)}]
          /\ heard' = [heard EXCEPT ![candidate.type] =
               {[h EXCEPT !.turned = @ \/ {direction, h.event.direction} = {"UP", "DOWN"}] : h \in @}]
     ELSE radar' = [radar EXCEPT !.todo = Tail(@)] /\ UNCHANGED <<newest, heard>>
  /\ UNCHANGED <<settings, clock, unearned, faults, readings>>

----------------------------------------------------------------------------
(* The alerts of the run                                                   *)

(* shouldSendRadarAlert, after the routing.                                *)
ShouldSend(event) ==
  LET c == event.candidate IN
  /\ Routed(settings.item, settings.mode)
  /\ settings.alerts
  /\ RadarSeverityRank(c.severity) >= RadarSeverityRank(settings.minSeverity)
  /\ RadarGate([type |-> c.type, severity |-> c.severity, score |-> c.score, move |-> c.move,
                patternDirection |-> c.patternDirection, patternConfirmed |-> c.patternConfirmed,
                watchlistAlertEnabled |-> settings.item.enabled, material |-> event.material])

(* What is news to whoever heard the last alert of this type: a score eight *)
(* points up, a graver event, or the market turned since.                   *)
IsNews(current, last) ==
  \A h \in last :
    \/ current.score >= h.event.score + 8
    \/ RadarSeverityRank(current.severity) > RadarSeverityRank(h.event.severity)
    \/ h.turned

(* The events of this run one after another; the dispatch delivers none,    *)
(* one, or, when marking the alert fails, the same again.                   *)
Tell(delivered) ==
  LET event == Head(radar.fresh)
      current == Current(event.candidate) IN
  /\ radar.at = "store" /\ radar.todo = <<>> /\ radar.fresh # <<>>
  /\ IF ShouldSend(event) /\ delivered > 0
     THEN /\ heard' = [heard EXCEPT ![event.candidate.type] = {[event |-> current, turned |-> FALSE]}]
          /\ unearned' = unearned + (delivered - 1) + IF IsNews(current, heard[event.candidate.type]) THEN 0 ELSE 1
          /\ faults' = faults + (delivered - 1) /\ faults' <= MaxFaults
     ELSE delivered = 0 /\ UNCHANGED <<heard, unearned, faults>>
  /\ radar' = [radar EXCEPT !.fresh = Tail(@)]
  /\ UNCHANGED <<settings, clock, newest, readings>>

FinishRadar ==
  /\ radar.at = "read" \/ (radar.at = "store" /\ radar.todo = <<>> /\ radar.fresh = <<>>)
  /\ radar' = Quiet
  /\ UNCHANGED <<settings, clock, newest, heard, unearned, faults, readings>>

(* The process dies, or a call on the database fails: the events stored so  *)
(* far stay, and those not told yet never will be.                         *)
Breaks ==
  /\ radar.at = "store"
  /\ radar' = Quiet
  /\ UNCHANGED <<settings, clock, newest, heard, unearned, faults, readings>>

TimePasses ==
  /\ clock < MaxClock
  /\ clock' = clock + 1
  /\ UNCHANGED <<settings, newest, radar, heard, unearned, faults, readings>>

RadarNext ==
  \/ TimePasses
  \/ StartRadar \/ PersistCandidate \/ FinishRadar \/ Breaks
  \/ \E reading \in Readings : MeasureCrypto(reading) \/ MeasureEquity(reading)
  \/ \E delivered \in 0..2 : Tell(delivered)

RadarSpec == RadarInit /\ [][RadarNext]_radarVars

----------------------------------------------------------------------------
RadarTypeOK ==
  /\ clock \in 0..MaxClock /\ faults \in 0..MaxFaults /\ readings \in 0..MaxReadings
  /\ radar.at \in {"off", "read", "store"} /\ radar.now <= clock
  /\ \A t \in Types : Cardinality(newest[t]) <= 1 /\ Cardinality(heard[t]) <= 1

(* As long as the market does not turn, every alert of an event type tells  *)
(* of more than the one before it, however many runs, cooldowns and events  *)
(* nobody was told of lie between (evaluateRadarRepeat).  The exceptions    *)
(* are the second posts of the dispatch.                                   *)
RadarAlertsAreEarned == unearned <= faults

=============================================================================
