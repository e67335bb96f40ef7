----------------------------- MODULE AlertRules -----------------------------
(***************************************************************************)
(* The rules of the research worker's alerts: which candles may be          *)
(* analysed, which signal and which radar event may be told at once, when   *)
(* telling it again is worth it, and to whom an asset's alerts go           *)
(* (packages/market-data, packages/alerts and apps/worker/src/lib).         *)
(***************************************************************************)
EXTENDS Integers, FiniteSetsExt

None == "none"   \* a value that is null or missing; a missing
                 \* record is the empty set of them, a missing score is below zero

----------------------------------------------------------------------------
(* Candles: how many are closed, and how old the newest of them is         *)

SeriesReason(series, minimum, maxAge) ==
  IF series.closed < minimum THEN "INSUFFICIENT_CLOSED_CANDLES"
  ELSE IF series.age > maxAge THEN "STALE_DATA" ELSE "OK"

(* A breakout is confirmed when the newest candle closes beyond all of the  *)
(* lookback candles before it, on the side of the signal.                  *)
BreakoutConfirmed(series, direction, lookback) ==
  /\ series.closed >= lookback + 1
  /\ \/ direction = "BULLISH" /\ series.close > series.highest
     \/ direction = "BEARISH" /\ series.close < series.lowest

----------------------------------------------------------------------------
(* Signals                                                                 *)

ClearDirections == {"BULLISH", "BEARISH"}
InstantScore == 75        \* minimumInstantSignalScore
ConfirmedVolume == 75     \* minimumConfirmedVolumeScore

(* The news and events a signal was seen with; {} when there are none.     *)
Fingerprint(news, events) == news \cup events

(* What the analysers add to a decision: they only get here with fresh     *)
(* candles that are closed.                                                *)
QualityContext(decision, series, lookback, material) ==
  [closedCandle |-> TRUE, freshData |-> TRUE,
   patternConfirmed |-> decision.type # "BREAKOUT_ALERT" \/ BreakoutConfirmed(series, decision.direction, lookback),
   volumeConfirmed |-> series.volumeUp, materialRepeat |-> material]

(* evaluateSignalAlertQualityGate: nothing speaks against telling it.      *)
SignalGate(signal, quality) ==
  /\ signal.text
  /\ signal.status \notin {"WAIT", "NO_EDGE"}
  /\ signal.type # "NO_SIGNAL"
  /\ signal.direction \in ClearDirections
  /\ signal.score >= InstantScore
  /\ quality.closedCandle /\ quality.freshData
  /\ signal.type = "BREAKOUT_ALERT" => quality.patternConfirmed
  /\ signal.type \in {"BREAKOUT_ALERT", "VOLUME_SPIKE"} =>
       quality.volumeConfirmed /\ signal.volumeScore >= ConfirmedVolume
  /\ quality.materialRepeat

StatusRank(status) ==
  CASE status = "STRONG_WATCH" -> 3 [] status \in {"WATCH", "AVOID"} -> 2 [] status = "WAIT" -> 1 [] OTHER -> 0

(* evaluateSignalAlertRepeat, against the alert before, if there is one:    *)
(* the cooldown is reported, it decides nothing.                           *)
WorthRepeating(current, previous, improvement) ==
  \A p \in previous :
    \/ current.score - p.score >= Max({8, improvement})
    \/ StatusRank(current.status) > StatusRank(p.status)
    \/ {current.direction, p.direction} = ClearDirections
    \/ ~(current.timeframes \subseteq p.timeframes)
    \/ current.context # {} /\ current.context # p.context

----------------------------------------------------------------------------
(* Radar events                                                            *)

RadarSeverityRank(severity) ==
  CASE severity = "CRITICAL" -> 4 [] severity = "IMPORTANT" -> 3 [] severity = "WATCH" -> 2 [] OTHER -> 1

(* evaluateRadarAlertQualityGate: of all kinds of events only a move in a   *)
(* direction and a confirmed shift of momentum can be told at once.        *)
RadarGate(event) ==
  /\ event.severity \in {"IMPORTANT", "CRITICAL"}
  /\ event.score >= InstantScore
  /\ \/ event.type = "MOVEMENT_SPIKE" /\ event.move # 0
     \/ /\ event.type = "MOMENTUM_SHIFT"
        /\ event.patternDirection \in {"UP", "DOWN"} /\ event.patternConfirmed
  /\ event.watchlistAlertEnabled
  /\ event.material

(* radarDirection: the pattern's, else the sign of the move, else none.    *)
RadarDirection(move, patternDirection) ==
  IF patternDirection # None THEN patternDirection
  ELSE IF move = 0 THEN None ELSE IF move > 0 THEN "UP" ELSE "DOWN"

(* evaluateRadarRepeat against the baseline the newest event carries.      *)
RadarChange(current, baseline) ==
  \A b \in baseline :
    \/ current.score - b.score >= 8
    \/ RadarSeverityRank(current.severity) > RadarSeverityRank(b.severity)
    \/ {current.direction, b.direction} = {"UP", "DOWN"}

AlwaysTheBaseline(current, baseline) == {current}
NextBaseline(current, baseline) == IF RadarChange(current, baseline) THEN {current} ELSE baseline

----------------------------------------------------------------------------
(* Routing: a watchlist item is [enabled, priority]; an asset without one   *)
(* has the priority None and is not disabled                               *)

AlertMode(raw) == IF raw \in {"WATCHLIST_ONLY", "HIGH_PRIORITY_ONLY"} THEN raw ELSE "ALL_ASSETS"

Routed(item, raw) ==
  /\ item.enabled
  /\ \/ AlertMode(raw) = "ALL_ASSETS"
     \/ AlertMode(raw) = "WATCHLIST_ONLY" /\ item.priority # None
     \/ item.priority = "HIGH"

NoItem == [enabled |-> TRUE, priority |-> None]

=============================================================================
