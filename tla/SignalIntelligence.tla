-------------------------- MODULE SignalIntelligence --------------------------
(***************************************************************************)
(* How one asset's signals are judged: the market regime from the daily     *)
(* candles of five benchmarks (packages/market-regime), the score of a      *)
(* timeframe from its indicators (packages/scoring-engine), the summary of  *)
(* all timeframes (packages/multi-timeframe), what the history of paper     *)
(* evaluations, news and events say of it (packages/                        *)
(* performance-intelligence, news-intelligence, events-intelligence), and   *)
(* the rules that adjust the score (packages/signal-rules); run by          *)
(* calculateMarketRegime and by the two analysers, of which nothing keeps a *)
(* second one away.  Scores are in hundredths of a point; a number that is  *)
(* null is NoNumber, a text or record that is missing "none".              *)
(***************************************************************************)
EXTENDS Integers, Sequences, FiniteSetsExt

CONSTANTS
  Cases,         \* [class, log, news, events]: the asset's class, its paper evaluations, its news and events
  Markets,       \* per benchmark the closes of its days, in what the report takes from them
  Findings,      \* indicator snapshots a timeframe may show
  ForeignSignals,\* what another analyser may store
  SignalMaxAge,  \* defaultMaxCandleAgeMs
  MinDays,       \* daily closes a benchmark needs
  MinCandles,    \* candles of an indicator snapshot the data quality asks for
  MinEvaluated,  \* evaluations a bucket needs to count
  AssetsListed,  \* assets the performance report names as best, and as worst
  MaxDelta,      \* SIGNAL_RULES_MAX_DELTA, in points
  MaxMoment,     \* bound: time
  MaxForeign     \* bound: signals of another analyser

VARIABLES
  subject,    \* the asset: one of Cases
  moment,     \* time
  latest,     \* per timeframe its newest Signal: {} or {[at, signal]}
  analyser,   \* where the analyser is, and what it has read
  verdict,    \* the analysis the last step stored, if it stored one
  foreign     \* number of signals another analyser stored

intelligenceVars == <<subject, moment, latest, analyser, verdict, foreign>>

NoNumber == -1
HasNumber(x) == x # NoNumber
Clamp(x, low, high) == IF x < low THEN low ELSE IF x > high THEN high ELSE x
RoundHalfUp(n, d) == (2 * n + d) \div (2 * d)   \* Math.round(n / d)

----------------------------------------------------------------------------
(* The market regime                                                       *)

EquityBenchmarks == {"SPY", "QQQ", "IWM"}
CryptoBenchmarks == {"BTCUSDT", "ETHUSDT"}

SideOf(price, average) ==
  LET distance == RoundHalfUp(10000 * (price - average), average) IN
  IF distance > 0 THEN 1 ELSE IF distance < 0 THEN -1 ELSE 0

(* A benchmark that is not active or whose candles are too few or too old   *)
(* is no input; one with fewer than MinDays closes is summarised as         *)
(* unknown.  Prices against averages count by their side, once the distance *)
(* is rounded to hundredths of a percent.                                  *)
SummarizeBenchmark(b) ==
  IF b.days < MinDays
  THEN [known |-> FALSE, vs50 |-> 0, vs200 |-> 0, momentum |-> "UNKNOWN", volatility |-> "UNKNOWN"]
  ELSE [known |-> TRUE, vs50 |-> SideOf(b.last, b.sma50), vs200 |-> SideOf(b.last, b.sma200),
        momentum |-> IF 100 * (b.last - b.before) > b.before THEN "POSITIVE"
                     ELSE IF 100 * (b.last - b.before) < -b.before THEN "NEGATIVE" ELSE "NEUTRAL",
        volatility |-> IF b.volatility >= 35 THEN "HIGH" ELSE IF b.volatility <= 14 THEN "LOW" ELSE "NORMAL"]

Benchmarks(m) == [s \in EquityBenchmarks \cup CryptoBenchmarks |-> SummarizeBenchmark(m[s])]

CalculateEquityRegime(b) ==
  LET spy == b["SPY"]  qqq == b["QQQ"]  iwm == b["IWM"]
      iwmWeak == iwm.known /\ (iwm.vs50 < 0 \/ iwm.momentum = "NEGATIVE")
      falling == spy.momentum = "NEGATIVE" \/ qqq.momentum = "NEGATIVE" IN
  IF ~(spy.known /\ qqq.known) THEN "UNKNOWN"
  ELSE IF /\ spy.vs50 > 0 /\ spy.vs200 > 0 /\ spy.momentum = "POSITIVE"
          /\ qqq.vs50 > 0 /\ qqq.momentum = "POSITIVE" /\ ~iwmWeak THEN "RISK_ON"
  ELSE IF falling /\ \/ spy.vs50 < 0 /\ qqq.vs50 < 0
                     \/ \E s \in EquityBenchmarks : b[s].volatility = "HIGH" THEN "RISK_OFF"
  ELSE IF (spy.vs50 > 0) # (qqq.vs50 > 0) \/ iwmWeak THEN "MIXED" ELSE "NEUTRAL"

CalculateCryptoRegime(b) ==
  LET btc == b["BTCUSDT"]  eth == b["ETHUSDT"] IN
  IF ~(btc.known /\ eth.known) THEN "UNKNOWN"
  ELSE IF btc.vs50 > 0 /\ eth.vs50 > 0 /\ btc.momentum = "POSITIVE" /\ eth.momentum = "POSITIVE" THEN "RISK_ON"
  ELSE IF btc.vs50 < 0 /\ eth.vs50 < 0 /\ btc.momentum = "NEGATIVE" /\ eth.momentum = "NEGATIVE" THEN "RISK_OFF"
  ELSE IF (btc.vs50 > 0) # (eth.vs50 > 0) \/ btc.momentum # eth.momentum THEN "MIXED" ELSE "NEUTRAL"

CalculateOverallRegime(equity, crypto) ==
  IF equity = crypto /\ equity \in {"RISK_ON", "RISK_OFF", "UNKNOWN"} THEN equity
  ELSE IF {"RISK_OFF", "MIXED"} \cap {equity, crypto} # {} THEN "MIXED" ELSE "NEUTRAL"

(* Confidence in half points: 13 for each complete benchmark, 12.5 for a    *)
(* regime that says something, 8 less for a mixed one.                     *)
CountOf(flags) == Cardinality({s \in DOMAIN flags : flags[s]})
CalculateConfidence(b, equity, crypto) ==
  LET says(regime) == IF regime \in {"UNKNOWN", "MIXED"} THEN 0 ELSE 25
      mixed(regime) == IF regime = "MIXED" THEN 16 ELSE 0 IN
  Clamp(26 * CountOf([s \in DOMAIN b |-> b[s].known]) + says(equity) + says(crypto) - mixed(equity) - mixed(crypto), 0, 200)

CalculateRiskMode(overall, equity, crypto, confidence) ==
  IF overall = "UNKNOWN" THEN "UNKNOWN"
  ELSE IF "RISK_OFF" \in {overall, equity, crypto} THEN "HIGH_RISK"
  ELSE IF overall = "RISK_ON" /\ confidence >= 150 THEN "AGGRESSIVE"
  ELSE IF overall = "MIXED" THEN "DEFENSIVE" ELSE "NORMAL"

CalculateMarketRegimeReport(b) ==
  LET equity == CalculateEquityRegime(b)  crypto == CalculateCryptoRegime(b)
      overall == CalculateOverallRegime(equity, crypto)
      confidence == CalculateConfidence(b, equity, crypto) IN
  [equity |-> equity, crypto |-> crypto, overall |-> overall, confidence |-> confidence,
   riskMode |-> CalculateRiskMode(overall, equity, crypto, confidence)]

(* The crypto-native report looks at BTC and ETH alone.                    *)
CalculateCryptoNativeRegimeReport(b) ==
  LET btc == b["BTCUSDT"]  eth == b["ETHUSDT"]
      complete == btc.known /\ eth.known
      regime == IF ~complete THEN "UNKNOWN"
                ELSE IF btc.vs200 > 0 /\ btc.vs50 > 0 /\ btc.momentum # "NEGATIVE" /\ eth.vs50 > 0 THEN "RISK_ON"
                ELSE IF ~(btc.vs200 > 0) /\ btc.vs50 < 0 THEN "RISK_OFF"
                ELSE IF (btc.vs50 > 0) # (eth.vs50 > 0) THEN "MIXED" ELSE "NEUTRAL"
      confidence == Clamp(65 * CountOf([s \in CryptoBenchmarks |-> b[s].known])
                            + (IF complete /\ ((btc.vs200 > 0) = (eth.vs200 > 0)) THEN 50 ELSE 0), 0, 200) IN
  [crypto |-> regime, confidence |-> confidence,
   riskMode |-> IF regime = "UNKNOWN" THEN "UNKNOWN" ELSE IF regime = "RISK_OFF" THEN "HIGH_RISK"
                ELSE IF regime = "MIXED" THEN "DEFENSIVE"
                ELSE IF regime = "RISK_ON" /\ confidence >= 150 THEN "AGGRESSIVE" ELSE "NORMAL"]

WatchLike(status) == status \in {"WATCH", "STRONG_WATCH"}

DetermineConflictLevel(regime, mode, direction, status) ==
  IF regime = "RISK_OFF" /\ direction = "BULLISH" /\ WatchLike(status) THEN "HIGH"
  ELSE IF \/ regime = "RISK_ON" /\ direction = "BEARISH" /\ WatchLike(status)
          \/ mode = "HIGH_RISK" /\ direction = "BULLISH" THEN "MEDIUM"
  ELSE IF regime = "MIXED" /\ WatchLike(status) THEN "LOW" ELSE "NONE"

(* Of no report there is no context.                                       *)
BuildSignalRegimeContext(class, decision, reports) ==
  {LET regime == IF class = "crypto" THEN r.report.crypto ELSE r.report.equity IN
   [regime |-> regime, riskMode |-> r.report.riskMode,
    aligned |-> \/ regime = "RISK_ON" /\ decision.direction = "BULLISH"
                \/ regime = "RISK_OFF" /\ decision.direction = "BEARISH",
    conflict |-> DetermineConflictLevel(regime, r.report.riskMode, decision.direction, decision.status)]
   : r \in reports}

----------------------------------------------------------------------------
(* The score of one timeframe.  Component scores are in points.            *)

NeutralScore == 50

ScoreTrend(i) ==
  IF ~(HasNumber(i.last) /\ HasNumber(i.sma20) /\ HasNumber(i.sma50)) THEN NeutralScore
  ELSE IF i.last > i.sma20 /\ i.sma20 > i.sma50
       THEN IF HasNumber(i.sma200) /\ i.last > i.sma200 THEN 88 ELSE 76
  ELSE IF (HasNumber(i.sma200) /\ i.last < i.sma200) \/ i.last < i.sma50 THEN 25 ELSE NeutralScore

ScoreMomentum(i) ==
  LET range == i.high - i.low  above == 100 * (i.last - i.low) IN
  IF ~(HasNumber(i.last) /\ HasNumber(i.high) /\ HasNumber(i.low)) \/ range <= 0 THEN NeutralScore
  ELSE IF above >= 95 * range THEN 88 ELSE IF above >= 80 * range THEN 75
  ELSE IF above <= 15 * range THEN 25 ELSE NeutralScore

\* The relative volume is in hundredths.
ScoreVolume(i) ==
  IF ~HasNumber(i.relativeVolume) THEN NeutralScore
  ELSE IF i.relativeVolume > 200 THEN 92 ELSE IF i.relativeVolume > 150 THEN 82
  ELSE IF i.relativeVolume < 70 THEN 32 ELSE NeutralScore

HasRatio(i) == HasNumber(i.atr) /\ HasNumber(i.last) /\ i.last # 0
RatioAtLeast(i, percent) == HasRatio(i) /\ 100 * i.atr >= percent * i.last
ScoreVolatility(i) ==
  IF ~HasRatio(i) THEN NeutralScore
  ELSE IF RatioAtLeast(i, 8) THEN 35 ELSE IF RatioAtLeast(i, 4) THEN 68 ELSE 55

ScoreRsi(i) ==
  IF ~HasNumber(i.rsi) THEN NeutralScore
  ELSE IF i.rsi > 75 THEN 82 ELSE IF i.rsi >= 50 /\ i.rsi <= 70 THEN 72
  ELSE IF i.rsi < 30 THEN 35 ELSE IF i.rsi < 40 THEN 30 ELSE NeutralScore

Components(i) ==
  [trend |-> ScoreTrend(i), momentum |-> ScoreMomentum(i), volume |-> ScoreVolume(i),
   volatility |-> ScoreVolatility(i), rsi |-> ScoreRsi(i)]

CalculateRiskScore(i, c) ==
  Clamp(35 + (IF HasNumber(i.rsi) /\ i.rsi > 75 THEN 22 ELSE 0)
           + (IF HasNumber(i.relativeVolume) /\ i.relativeVolume > 200 THEN 14 ELSE 0)
           + (IF RatioAtLeast(i, 8) THEN 26 ELSE IF RatioAtLeast(i, 4) THEN 12 ELSE 0)
           + (IF c.momentum >= 75 /\ c.volume < 55 THEN 16 ELSE 0)
           + (IF c.volatility < 45 THEN 8 ELSE 0), 0, 100)

DetermineDirection(i, c) ==
  IF \E x \in {i.last, i.sma20, i.sma50, i.high, i.low} : ~HasNumber(x) THEN "NEUTRAL"
  ELSE IF c.trend >= 70 /\ c.momentum >= 70 /\ c.volume >= 60 THEN "BULLISH"
  ELSE IF c.trend >= 70 /\ c.momentum >= 70 /\ c.volume < 45 THEN "MIXED"
  ELSE IF c.trend <= 35 /\ c.momentum <= 35 THEN "BEARISH"
  ELSE IF (c.trend >= 70 /\ c.momentum <= 45) \/ (c.trend <= 40 /\ c.momentum >= 65) THEN "MIXED" ELSE "NEUTRAL"

DetermineStatus(score, riskScore, direction) ==
  IF score < 4000 \/ (direction = "BEARISH" /\ riskScore >= 70) THEN "AVOID"
  ELSE IF score >= 8000 /\ riskScore < 70 THEN "STRONG_WATCH"
  ELSE IF score >= 6500 THEN "WATCH" ELSE IF score >= 5000 THEN "WAIT" ELSE "NO_EDGE"

IsNearPeriodHigh(i) ==
  HasNumber(i.last) /\ HasNumber(i.high) /\ i.high # 0 /\ 100 * i.last >= 98 * i.high

DetermineSignalType(i, c, riskScore) ==
  IF c.volume >= 90 THEN "VOLUME_SPIKE"
  ELSE IF c.volatility >= 68 /\ riskScore >= 55 THEN "VOLATILITY_SPIKE"
  ELSE IF IsNearPeriodHigh(i) /\ c.volume >= 75 THEN "BREAKOUT_ALERT"
  ELSE IF c.trend >= 75 THEN IF c.momentum >= 75 THEN "MOMENTUM_ALERT" ELSE "TREND_ALERT"
  ELSE "NO_SIGNAL"

DetermineRiskLevel(riskScore) == IF riskScore >= 70 THEN "HIGH" ELSE IF riskScore >= 45 THEN "MEDIUM" ELSE "LOW"

(* Both analysers leave the context of news and events out of the score.   *)
ScoreSignal(timeframe, i) ==
  LET c == Components(i)
      riskScore == CalculateRiskScore(i, c)
      score == 25 * c.trend + 20 * c.momentum + 20 * c.volume + 15 * c.volatility + 10 * c.rsi
                 + 5 * NeutralScore + 5 * NeutralScore
      direction == DetermineDirection(i, c) IN
  [timeframe |-> timeframe, type |-> DetermineSignalType(i, c, riskScore), score |-> score, direction |-> direction,
   status |-> DetermineStatus(score, riskScore, direction), risk |-> DetermineRiskLevel(riskScore)]

----------------------------------------------------------------------------
(* The summary of the timeframes.  Strength is in millionths.              *)

HigherTimeframes == {"1d", "4h"}
TimeframeWeight(t) == CASE t = "1d" -> 45 [] t = "4h" -> 35 [] t = "1h" -> 20
StatusStrength(status) ==
  CASE status = "STRONG_WATCH" -> 100 [] status = "WATCH" -> 75 [] status = "WAIT" -> 25 [] OTHER -> 0

(* Of several signals of a timeframe the newest, of two of one time the     *)
(* stored one: the decision comes last.                                    *)
SelectLatestSignals(stored, decision, now) ==
  [t \in {u \in DOMAIN stored : stored[u] # {}} \cup {decision.timeframe} |->
     IF t = decision.timeframe /\ \A row \in stored[t] : row.at < now THEN decision
     ELSE (CHOOSE row \in stored[t] : TRUE).signal]

CalculateStrength(s) ==
  IF s.status = "AVOID" THEN (IF s.score > 7000 THEN 100 * s.score ELSE 700000)
  ELSE Clamp(65 * s.score + 3500 * StatusStrength(s.status), 0, 1000000)

DetermineBias(s) ==
  IF s.status = "AVOID" THEN "BEARISH"
  ELSE IF s.timeframe \in HigherTimeframes /\ s.risk = "HIGH"
       THEN IF s.direction = "BULLISH" THEN "NEUTRAL" ELSE "BEARISH"
  ELSE IF s.status = "NO_EDGE" \/ s.direction \notin {"BULLISH", "BEARISH"} THEN "NEUTRAL" ELSE s.direction

EvaluateSignals(latestSignals) ==
  [t \in DOMAIN latestSignals |->
     [signal |-> latestSignals[t], bias |-> DetermineBias(latestSignals[t]),
      strength |-> CalculateStrength(latestSignals[t])]]

Biased(e, t, bias) == t \in DOMAIN e /\ e[t].bias = bias
StrongBias(e, t, bias) == Biased(e, t, bias) /\ e[t].strength >= 550000
IsNoEdge(e) ==
  \A t \in DOMAIN e : e[t].signal.score <= 5500 /\ e[t].signal.status \in {"NO_EDGE", "WAIT"}
AgainstHigher(e, bias, other) ==
  StrongBias(e, "1h", bias) /\ \E t \in HigherTimeframes : StrongBias(e, t, other)
SameBias(e, t, u) == t \in DOMAIN e /\ u \in DOMAIN e /\ e[t].bias = e[u].bias

\* The hour's signal is clear, strong, and no higher timeframe says the same.
OnlyTheHour(e) ==
  /\ "1h" \in DOMAIN e /\ e["1h"].bias # "NEUTRAL" /\ e["1h"].strength >= 650000
  /\ \A t \in HigherTimeframes : ~SameBias(e, t, "1h")

DetermineAlignment(e) ==
  IF IsNoEdge(e) THEN "NO_EDGE"
  ELSE IF AgainstHigher(e, "BULLISH", "BEARISH") \/ AgainstHigher(e, "BEARISH", "BULLISH") THEN "CONFLICT"
  ELSE IF Biased(e, "1d", "BULLISH") /\ ~Biased(e, "1h", "BEARISH") /\ ("4h" \in DOMAIN e => e["4h"].bias = "BULLISH")
       THEN "BULLISH_ALIGNED"
  ELSE IF Biased(e, "1d", "BEARISH") /\ ~Biased(e, "1h", "BULLISH") /\ ("4h" \in DOMAIN e => e["4h"].bias = "BEARISH")
       THEN "BEARISH_ALIGNED"
  ELSE IF SameBias(e, "1d", "1h") /\ e["1d"].bias # "NEUTRAL" /\ Biased(e, "4h", "NEUTRAL")
       THEN "HIGHER_TIMEFRAME_CONFIRMATION"
  ELSE IF OnlyTheHour(e) THEN "SHORT_TERM_ONLY" ELSE "MIXED"

(* The strongest signal; of two as strong the one of the higher timeframe.  *)
StrongestTimeframe(e) ==
  CHOOSE t \in DOMAIN e : \A u \in DOMAIN e \ {t} :
    \/ e[t].strength > e[u].strength
    \/ e[t].strength = e[u].strength /\ TimeframeWeight(t) > TimeframeWeight(u)

DeterminePrimaryTimeframe(e, alignment) ==
  LET clear == {t \in DOMAIN e : e[t].bias # "NEUTRAL"} IN
  IF alignment = "NO_EDGE" THEN "none"
  ELSE IF alignment = "SHORT_TERM_ONLY" THEN "1h"
  ELSE IF "1d" \in clear THEN "1d" ELSE IF "4h" \in clear THEN "4h" ELSE IF "1h" \in clear THEN "1h"
  ELSE StrongestTimeframe(e)

OtherTimeframes(e, primary, agree) ==
  IF primary = "none" THEN {} ELSE IF e[primary].bias = "NEUTRAL" THEN {}
  ELSE {t \in DOMAIN e \ {primary} : e[t].bias # "NEUTRAL" /\ (e[t].bias = e[primary].bias) = agree}
DetermineConfirmingTimeframes(e, primary) == OtherTimeframes(e, primary, TRUE)
DetermineConflictingTimeframes(e, primary) == OtherTimeframes(e, primary, FALSE)

CalculateAlignmentScore(e, alignment) ==
  LET over(f(_)) == MapThenSumSet(f, DOMAIN e)
      side(t) == CASE e[t].bias = "BULLISH" -> 1 [] e[t].bias = "BEARISH" -> -1 [] OTHER -> 0
      directed(t) == side(t) * e[t].strength * TimeframeWeight(t)
      unit == 10000 * over(TimeframeWeight)
      penalty == CASE alignment = "CONFLICT" -> 25 [] alignment = "SHORT_TERM_ONLY" -> 15 [] OTHER -> 0
      total == IF over(directed) < 0 THEN -over(directed) ELSE over(directed) IN
  IF alignment = "NO_EDGE" THEN 0 ELSE RoundHalfUp(Clamp(total - penalty * unit, 0, 100 * unit), unit)

SummaryRisk(e) ==
  LET risks == {e[t].signal.risk : t \in DOMAIN e} IN
  IF "HIGH" \in risks THEN "HIGH" ELSE IF "MEDIUM" \in risks THEN "MEDIUM" ELSE "LOW"

CalculateMultiTimeframeSummary(e) ==
  LET alignment == DetermineAlignment(e)
      primary == DeterminePrimaryTimeframe(e, alignment) IN
  [evaluated |-> e, alignment |-> alignment, primary |-> primary, score |-> CalculateAlignmentScore(e, alignment),
   confirming |-> DetermineConfirmingTimeframes(e, primary), conflicting |-> DetermineConflictingTimeframes(e, primary),
   risk |-> SummaryRisk(e)]

----------------------------------------------------------------------------
(* What is known besides: paper evaluations, news and events               *)

(* A bucket counts the evaluations of one key; return is the average after  *)
(* a day, as a sum and the number of them.                                 *)
BuildPerformanceBucket(log, of, key) ==
  LET evaluated == {i \in DOMAIN log : log[i][of] = key /\ log[i].state = "EVALUATED"} IN
  [evaluated |-> Cardinality(evaluated), return |-> MapThenSumSet(LAMBDA i : log[i].return, evaluated),
   wins |-> Cardinality({i \in evaluated : log[i].outcome \in {"POSITIVE", "TARGET_REACHED"}})]

\* Buckets compare by the rate of wins, then the average return, then their size.
OrOne(n) == IF n = 0 THEN 1 ELSE n
Better(a, b, sign) ==
  LET rate == sign * (a.wins * OrOne(b.evaluated) - b.wins * OrOne(a.evaluated))
      return == sign * (a.return * OrOne(b.evaluated) - b.return * OrOne(a.evaluated)) IN
  \/ rate > 0
  \/ rate = 0 /\ return > 0
  \/ rate = 0 /\ return = 0 /\ a.evaluated > b.evaluated

(* The report lists the first buckets, best and worst first; findBucket     *)
(* finds no other.                                                         *)
IsListed(log, of, key, length) ==
  LET keys == {log[i][of] : i \in DOMAIN log}
      bucket(k) == BuildPerformanceBucket(log, of, k)
      before(sign) == {k \in keys \ {key} : Better(bucket(k), bucket(key), sign)} IN
  key \in keys /\ \E sign \in {1, -1} : Cardinality(before(sign)) < length

\* isConfident: MEDIUM or HIGH begins where a bucket counts at all.
Confident(bucket) == bucket.evaluated >= MinEvaluated
WinRateAtLeast(bucket, percent) == 100 * bucket.wins >= percent * bucket.evaluated
WinRateAtMost(bucket, percent) == 100 * bucket.wins <= percent * bucket.evaluated

ScoreNewsRelevance(item) ==
  LET base == CASE item.impact = "CRITICAL" -> 85 [] item.impact = "HIGH" -> 55 [] OTHER -> 20
      factor == IF item.age <= 6 THEN 100 ELSE IF item.age <= 24 THEN 90 ELSE IF item.age <= 72 THEN 75
                ELSE IF item.age <= 168 THEN 50 ELSE 20 IN
  RoundHalfUp(base * factor, 100)

ClassifyNewsSentiment(item) ==
  IF item.good /\ item.bad THEN "MIXED" ELSE IF item.good THEN "POSITIVE" ELSE IF item.bad THEN "NEGATIVE" ELSE "NEUTRAL"

ComputeOverallSentiment(items) ==
  LET told == {ClassifyNewsSentiment(i) : i \in items} IN
  IF "MIXED" \in told \/ {"POSITIVE", "NEGATIVE"} \subseteq told THEN "MIXED"
  ELSE IF "POSITIVE" \in told THEN "POSITIVE" ELSE IF "NEGATIVE" \in told THEN "NEGATIVE" ELSE "NEUTRAL"

(* 70 of 100 parts of the most relevant item of three days, 30 of them all. *)
ComputeRelevanceScore(items) ==
  LET n == Cardinality(items)
      best == Max({ScoreNewsRelevance(i) : i \in items}) IN
  Clamp(RoundHalfUp(7 * n * best + 3 * MapThenSumSet(ScoreNewsRelevance, items), 10 * n), 0, 100)

BuildNewsContext(news) ==
  LET recent == {i \in news : i.age <= 72} IN
  IF recent = {} THEN [relevance |-> 0, sentiment |-> "UNKNOWN"]
  ELSE [relevance |-> ComputeRelevanceScore(recent), sentiment |-> ComputeOverallSentiment(recent)]

\* What was reported is 15 percent away from its estimate at least; 0 is no estimate.
Magnitude(n) == IF n < 0 THEN -n ELSE n
LargeSurprise(e) ==
  e.reported /\ e.estimate # 0 /\ 100 * Magnitude(e.actual - e.estimate) >= 15 * Magnitude(e.estimate)

(* The next event of 60 days decides, else the last one of two.            *)
EventRiskLevel(class, events) ==
  LET upcoming == {e \in events : e.days \in 1..60}
      recent == {e \in events : e.days \in -2..0}
      next == Min({e.days : e \in upcoming})
      last == CHOOSE e \in recent : \A other \in recent : other.days <= e.days IN
  IF class = "etf" \/ upcoming \cup recent = {} THEN "NONE"
  ELSE IF upcoming # {} THEN IF next <= 3 THEN "HIGH" ELSE IF next <= 7 THEN "MEDIUM" ELSE "LOW"
  ELSE IF LargeSurprise(last) THEN "HIGH" ELSE IF last.reported THEN "MEDIUM" ELSE "LOW"

----------------------------------------------------------------------------
(* The rules.  Each has a slot of its own; 0 is a rule that says nothing.   *)

HistoryRule(log, of, key, good, bad) ==
  LET bucket == BuildPerformanceBucket(log, of, key) IN
  IF ~(Confident(bucket) /\ IsListed(log, of, key, 5)) THEN 0
  ELSE IF WinRateAtLeast(bucket, 60) THEN good ELSE IF WinRateAtMost(bucket, 40) THEN bad ELSE 0

ScoreBucket(score) == IF score < 5000 THEN "0-49" ELSE IF score < 6500 THEN "50-64" ELSE IF score < 8000 THEN "65-79" ELSE "80-100"

AssetRule(log) ==
  LET bucket == BuildPerformanceBucket(log, "symbol", "self") IN
  IF Confident(bucket) /\ WinRateAtMost(bucket, 40) /\ IsListed(log, "symbol", "self", AssetsListed) THEN -4 ELSE 0

ScoreRule(log, d) ==
  LET bucket == BuildPerformanceBucket(log, "bucket", "80-100") IN
  IF ScoreBucket(d.score) = "80-100" /\ Confident(bucket) /\ WinRateAtLeast(bucket, 60) THEN 3 ELSE 0

RegimeRule(d, c) ==
  LET bullish == d.direction = "BULLISH" /\ WatchLike(d.status) IN
  IF bullish /\ c.regime = "RISK_ON" THEN 5
  ELSE IF bullish /\ (c.regime = "RISK_OFF" \/ c.riskMode = "HIGH_RISK") THEN -8
  ELSE IF d.direction = "BEARISH" /\ d.status = "AVOID" /\ c.regime = "RISK_OFF" THEN 5
  ELSE IF c.regime = "MIXED" /\ c.conflict # "NONE" THEN -2 ELSE 0

Warns(d) == d.status = "AVOID" \/ d.risk = "HIGH"

NewsRule(d, news) ==
  IF news.relevance < 70 THEN 0
  ELSE IF d.direction = "BULLISH"
       THEN CASE news.sentiment = "POSITIVE" -> 4 [] news.sentiment = "NEGATIVE" -> -4 [] OTHER -> 0
  ELSE IF news.sentiment = "NEGATIVE" /\ Warns(d) THEN 4 ELSE 0

EventRule(d, risk) ==
  LET bullishWatch == d.direction = "BULLISH" /\ WatchLike(d.status) IN
  IF risk = "HIGH" THEN IF bullishWatch THEN -6 ELSE IF Warns(d) THEN 3 ELSE 0
  ELSE IF risk = "MEDIUM" /\ bullishWatch THEN -2 ELSE 0

QualityRule(candles) == IF candles >= MinCandles THEN 0 ELSE -5

Adjustments(c, d, contexts, candles) ==
  [type |-> HistoryRule(c.log, "type", d.type, 5, -6), timeframe |-> HistoryRule(c.log, "timeframe", d.timeframe, 5, -6),
   asset |-> AssetRule(c.log), score |-> ScoreRule(c.log, d),
   regime |-> IF contexts = {} THEN 0 ELSE RegimeRule(d, CHOOSE x \in contexts : TRUE),
   news |-> NewsRule(d, BuildNewsContext(c.news)),
   event |-> EventRule(d, EventRiskLevel(c.class, c.events)),
   quality |-> QualityRule(candles)]

RawDelta(a) == a.type + a.timeframe + a.asset + a.score + a.regime + a.news + a.event + a.quality

RecalculateStatus(d, score) ==
  IF d.status = "AVOID" \/ (d.risk = "HIGH" /\ d.direction = "BEARISH") THEN "AVOID"
  ELSE IF score >= 8000 /\ d.risk # "HIGH" THEN "STRONG_WATCH"
  ELSE IF score >= 6500 THEN "WATCH" ELSE IF score >= 5000 THEN "WAIT" ELSE "NO_EDGE"

(* Beyond the limit every rule is told its share, in hundredths.           *)
ScaleAdjustments(a, raw, bounded) ==
  [rule \in DOMAIN a |-> IF raw = bounded THEN 100 * a[rule]
                         ELSE IF raw > 0 THEN RoundHalfUp(100 * a[rule] * bounded, raw)
                         ELSE RoundHalfUp(100 * a[rule] * (-bounded), -raw)]

ApplySignalRules(d, a) ==
  LET raw == RawDelta(a)
      bounded == Clamp(raw, -MaxDelta, MaxDelta)
      score == Clamp(d.score + 100 * bounded, 0, 10000) IN
  [adjustments |-> a, told |-> ScaleAdjustments(a, raw, bounded), delta |-> bounded, score |-> score,
   status |-> RecalculateStatus(d, score)]

----------------------------------------------------------------------------
(* The jobs                                                                *)

Timeframes(class) == IF class = "crypto" THEN <<"1h", "4h", "1d">> ELSE <<"1h", "1d">>
TimeframesOf(class) == {Timeframes(class)[k] : k \in 1..Len(Timeframes(class))}
NoSignals(class) == [t \in TimeframesOf(class) |-> {}]

Away == [at |-> "off", began |-> 0, reports |-> {}, stored |-> <<>>, informed |-> {}, next |-> 1]

IntelligenceInit ==
  /\ subject \in Cases
  /\ moment = 0 /\ foreign = 0
  /\ verdict = {}
  /\ latest = NoSignals(subject.class)
  /\ analyser = Away

TimeIsLeft == moment < MaxMoment   \* bound

TimePasses ==
  /\ TimeIsLeft /\ moment' = moment + 1
  /\ verdict' = {}
  /\ UNCHANGED <<subject, latest, analyser, foreign>>

(* The snapshot of the regime job.  A recent one is used again unless the   *)
(* job is forced, so that the newest may be of any market of the past.      *)
CalculateMarketRegime(market) ==
  LET b == Benchmarks(market) IN
  [report |-> CalculateMarketRegimeReport(b), native |-> CalculateCryptoNativeRegimeReport(b)]

(* The run takes its time and the newest regime snapshot, if there is one.  *)
StartAnalysis(market) ==
  /\ analyser.at = "off" /\ TimeIsLeft
  /\ \E reports \in {{}, {CalculateMarketRegime(market)}} :
       analyser' = [Away EXCEPT !.at = "run", !.began = moment, !.reports = reports]
  /\ verdict' = {}
  /\ UNCHANGED <<subject, moment, latest, foreign>>

FreshSignals == [t \in DOMAIN latest |-> {row \in latest[t] : moment - row.at <= SignalMaxAge}]

(* Then the asset's newest signals, and of a stock the news and the events, *)
(* each of which may be switched off or fail to load; where there are none *)
(* it makes no difference.                                                 *)
InformationOf(c) == {x \in {"news", "events"} : c.class # "crypto" /\ c[x] # {}}
LoadAsset(loaded) ==
  /\ analyser.at = "run" /\ TimeIsLeft
  /\ loaded \subseteq InformationOf(subject)
  /\ analyser' = [analyser EXCEPT !.at = "asset", !.stored = FreshSignals, !.informed = loaded]
  /\ verdict' = {}
  /\ UNCHANGED <<subject, moment, latest, foreign>>

Known == [subject EXCEPT !.news = IF "news" \in analyser.informed THEN @ ELSE {},
                         !.events = IF "events" \in analyser.informed THEN @ ELSE {}]

Timeframe == Timeframes(subject.class)[analyser.next]
AtTimeframe == analyser.at = "asset" /\ analyser.next \in 1..Len(Timeframes(subject.class)) /\ TimeIsLeft

(* The crypto job tells the summary that its decision is of the beginning   *)
(* of the run, the equity job that it is of now.                           *)
DecisionTime == IF subject.class = "crypto" THEN analyser.began ELSE moment

Judge(decision, contexts, rules, latestSignals) ==
  [decision |-> decision, contexts |-> contexts, rules |-> rules,
   summary |-> CalculateMultiTimeframeSummary(EvaluateSignals(latestSignals)),
   signal |-> [decision EXCEPT !.score = rules.score, !.status = rules.status]]

StoreSignal(signal) ==
  LET rows == {[at |-> moment, signal |-> signal]} IN
  /\ latest' = [latest EXCEPT ![Timeframe] = rows]
  /\ analyser' = [analyser EXCEPT !.stored[Timeframe] = rows, !.next = @ + 1]
  /\ moment' = moment + 1

(* One timeframe: the verdict is stored as a Signal, and the next timeframe *)
(* of the run sees it.                                                     *)
AnalyzeTimeframe(i) ==
  /\ AtTimeframe
  /\ \E decision \in {ScoreSignal(Timeframe, i)} :
     \E contexts \in {BuildSignalRegimeContext(subject.class, decision, analyser.reports)} :
     \E rules \in {ApplySignalRules(decision, Adjustments(Known, decision, contexts, i.candles))} :
       /\ verdict' = {Judge(decision, contexts, rules, SelectLatestSignals(analyser.stored, decision, DecisionTime))}
       /\ StoreSignal([decision EXCEPT !.score = rules.score, !.status = rules.status])
  /\ UNCHANGED <<subject, foreign>>

(* Candles that are too few or too old, or an analysis that throws.         *)
SkipTimeframe ==
  /\ AtTimeframe
  /\ analyser' = [analyser EXCEPT !.next = @ + 1]
  /\ verdict' = {}
  /\ UNCHANGED <<subject, moment, latest, foreign>>

(* The run ends, or its process dies.                                      *)
EndAnalysis ==
  /\ analyser.at # "off"
  /\ analyser' = Away
  /\ verdict' = {}
  /\ UNCHANGED <<subject, moment, latest, foreign>>

(* Another analyser, started by hand, stores its signal.                    *)
ForeignAnalysis(s) ==
  /\ foreign < MaxForeign /\ TimeIsLeft
  /\ s.timeframe \in DOMAIN latest
  /\ latest' = [latest EXCEPT ![s.timeframe] = {[at |-> moment, signal |-> s]}]
  /\ foreign' = foreign + 1 /\ moment' = moment + 1
  /\ verdict' = {}
  /\ UNCHANGED <<subject, analyser>>

IntelligenceNext ==
  \/ TimePasses \/ SkipTimeframe \/ EndAnalysis
  \/ \E market \in Markets : StartAnalysis(market)
  \/ \E loaded \in SUBSET {"news", "events"} : LoadAsset(loaded)
  \/ \E i \in Findings : AnalyzeTimeframe(i)
  \/ \E s \in ForeignSignals : ForeignAnalysis(s)

IntelligenceSpec == IntelligenceInit /\ [][IntelligenceNext]_intelligenceVars

----------------------------------------------------------------------------
(* Properties                                                              *)

IntelligenceTypeOK ==
  /\ subject \in Cases
  /\ moment \in 0..MaxMoment /\ foreign \in 0..MaxForeign
  /\ \A t \in DOMAIN latest : \A row \in latest[t] : row.at < moment /\ row.signal.timeframe = t
  /\ analyser.at \in {"off", "run", "asset"} /\ analyser.began \in 0..moment
  /\ \A v \in verdict : v.signal.score \in 0..10000 /\ v.summary.score \in 0..100

StatusClass(status) ==
  CASE status = "NO_EDGE" -> 0 [] status = "WAIT" -> 1 [] status = "WATCH" -> 2 [] status = "STRONG_WATCH" -> 3 [] OTHER -> 0

(* What the rules make of a status: a warning stays, a status moves by one  *)
(* class at most, and where nothing is adjusted the two packages, each with *)
(* limits of its own, say the same.                                        *)
StatusIsEarned(v) ==
  /\ v.decision.status = "AVOID" => v.signal.status = "AVOID"
  /\ v.signal.status = "AVOID" => v.decision.status = "AVOID"
  /\ StatusClass(v.signal.status) - StatusClass(v.decision.status) \in {-1, 0, 1}
  /\ v.rules.delta = 0 => v.signal.status = v.decision.status /\ v.signal.score = v.decision.score

(* The rules and the regime's context are two packages that look at the     *)
(* same report: who is rewarded for the market is aligned with it, who is    *)
(* marked down most is told of the conflict, and an aligned signal is in    *)
(* conflict only because the other market is at risk.                      *)
RulesFollowTheContext(v) ==
  \A c \in v.contexts :
    /\ v.rules.adjustments.regime > 0 => c.aligned
    /\ v.rules.adjustments.regime < 0 => ~c.aligned /\ c.conflict # "NONE"
    /\ v.rules.adjustments.regime = -8 => c.conflict \in {"MEDIUM", "HIGH"}
    /\ c.aligned /\ c.conflict # "NONE" => c.regime = "RISK_ON" /\ c.riskMode = "HIGH_RISK"

(* The parts of a summary agree: timeframes that are aligned conflict with  *)
(* none and none of them warns, a conflict names its timeframes, and there  *)
(* is a leading timeframe unless there is no edge.                         *)
SummaryCoheres(s) ==
  /\ s.alignment = "BULLISH_ALIGNED" =>
       /\ s.primary = "1d" /\ s.conflicting = {}
       /\ \A t \in DOMAIN s.evaluated : s.evaluated[t].signal.status # "AVOID"
       /\ \A t \in DOMAIN s.evaluated \cap HigherTimeframes : s.evaluated[t].signal.risk # "HIGH"
  /\ s.alignment = "BEARISH_ALIGNED" => s.primary = "1d" /\ s.conflicting = {}
  /\ s.alignment = "CONFLICT" => s.conflicting # {}
  /\ s.alignment = "HIGHER_TIMEFRAME_CONFIRMATION" => s.primary = "1d" /\ "1h" \in s.confirming
  /\ (s.primary = "none") = (s.alignment = "NO_EDGE")

(* The two regimes of one snapshot do not contradict each other, and the    *)
(* mode is as bold as its benchmarks allow.                                *)
RegimesAgree(r) ==
  /\ {r.report.crypto, r.native.crypto} # {"RISK_ON", "RISK_OFF"}
  /\ r.report.riskMode = "AGGRESSIVE" =>
       r.report.equity = "RISK_ON" /\ r.report.crypto = "RISK_ON" /\ r.report.confidence >= 150
  /\ r.report.overall = "RISK_ON" => r.report.riskMode = "AGGRESSIVE"
  /\ r.native.riskMode = "AGGRESSIVE" => r.report.crypto # "UNKNOWN" /\ r.report.crypto # "RISK_OFF"

(* A signal is worth what its parts say: the stored score and status follow *)
(* from the decision and the rules, the summary and the regime say nothing  *)
(* that contradicts them; a verdict is summarised with its own decision,    *)
(* unless another analyser stored a signal of its timeframe meanwhile.      *)
VerdictsAreEarned ==
  /\ \A v \in verdict :
       /\ StatusIsEarned(v) /\ RulesFollowTheContext(v) /\ SummaryCoheres(v.summary)
       /\ foreign = 0 => v.summary.evaluated[v.decision.timeframe].signal = v.decision
  /\ \A r \in analyser.reports : RegimesAgree(r)

=============================================================================
