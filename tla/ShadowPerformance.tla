-------------------------- MODULE ShadowPerformance --------------------------
(***************************************************************************)
(* What closed shadow trades add up to: the metrics of a window in total    *)
(* and by segment, the rows the hourly job and a job by hand write of them  *)
(* beside each other, the equity point of the hour, and the comparison of   *)
(* forward tests, which counts only what came after their start.            *)
(* Amounts are integers in units of 1/Scale; minutes are time.              *)
(***************************************************************************)
EXTENDS Integers, Sequences, FiniteSets, SequencesExt, FiniteSetsExt

CONSTANTS
  Worlds,          \* what trades there are, and what else a report is made of
  Refreshers,      \* the scheduled run and one by hand
  Scale,           \* one
  DayLength,       \* minutes of a UTC day
  HourLength,      \* minutes of an hour
  RollingLength,   \* minutes of ROLLING_30D
  MaxTrades,       \* MAX_TRADES_PER_WINDOW
  MinObservations, \* MIN_RETURN_OBSERVATIONS
  PeriodsPerYear,  \* ANNUALISATION_PERIODS_PER_YEAR
  MaxRefreshes     \* bound on the runs of a refresher

VARIABLES
  world,       \* the world of this behaviour
  clock,
  booked,      \* the trades whose end is booked
  points,      \* the hours that have an equity point
  rows,        \* the rows of StrategyPerformance
  audits,      \* the keys of the audit events
  refreshes,   \* of each refresher: its current run
  comparison,  \* the comparison being made: what it has read
  troubles     \* the faults so far

performanceVars == <<world, clock, booked, points, rows, audits, refreshes, comparison, troubles>>

Unknown == -1                      \* a number that is not there
None == "none"                     \* a name that is not there
Available(value) == [known |-> TRUE, value |-> value]
Unavailable(reason) == [known |-> FALSE, reason |-> reason]

----------------------------------------------------------------------------
(* Arithmetic of the metrics                                               *)

HalfUp(n, d) == IF n < 0 THEN -((-2 * n + d) \div (2 * d)) ELSE (2 * n + d) \div (2 * d)
Times(a, b) == HalfUp(a * b, Scale)
Over(a, b) == HalfUp(a * Scale, b)
Percent(part, whole) == Over(Times(part, 100 * Scale), whole)
Total(values) == FoldLeft(LAMBDA a, b : a + b, 0, values)
Mean(values) == HalfUp(Total(values), Len(values))
SquareRoot(n) == CHOOSE r \in 0..n : r * r <= n /\ n < (r + 1) * (r + 1)
DecimalRoot(value) == IF value < 0 THEN 0 ELSE SquareRoot(value * Scale)

Each(trades, Value(_)) == [i \in DOMAIN trades |-> Value(trades[i])]
Those(trades, Test(_)) == SelectSeq(trades, Test)
MeanOr(values, reason) == IF values = <<>> THEN Unavailable(reason) ELSE Available(Mean(values))

----------------------------------------------------------------------------
(* One trade                                                               *)

HasRisk(t) == t.risk > 0
RMultiple(t) == Over(t.net, t.risk)
HasDuration(t) == t.openedAt # Unknown /\ t.closedAt >= t.openedAt
HoldMinutes(t) == (t.closedAt - t.openedAt) * Scale
HasAdverse(t) == t.entry > 0 /\ (IF t.direction = "LONG" THEN t.low ELSE t.high) # Unknown
HasFavorable(t) == t.entry > 0 /\ (IF t.direction = "LONG" THEN t.high ELSE t.low) # Unknown
Adverse(t) == Percent(IF t.direction = "LONG" THEN t.entry - t.low ELSE t.high - t.entry, t.entry)
Favorable(t) == Percent(IF t.direction = "LONG" THEN t.high - t.entry ELSE t.entry - t.low, t.entry)

----------------------------------------------------------------------------
(* The metrics of a segment; its trades are in the order in which they      *)
(* closed.                                                                 *)

Drawdown(trades, base) ==
  LET start == IF base = Unknown THEN 0 ELSE base
      Next(s, t) ==
        LET running == s.running + t.net
            peak == Max({s.peak, running}) IN
        [running |-> running, peak |-> peak, worst |-> Max({s.worst, peak - running}),
         peakThen |-> IF peak - running > s.worst THEN peak ELSE s.peakThen]
      end == FoldLeft(Next, [running |-> start, peak |-> start, worst |-> 0, peakThen |-> start], trades) IN
  IF trades = <<>> THEN [amount |-> Unavailable("NO_CLOSED_TRADES"), pct |-> Unavailable("NO_CLOSED_TRADES")]
  ELSE [amount |-> Available(end.worst),
        pct |-> IF base = Unknown \/ end.peakThen <= 0 THEN Unavailable("NO_EQUITY_BASE")
                ELSE Available(Percent(end.worst, end.peakThen))]

Sign(t) == IF t.net > 0 THEN 1 ELSE IF t.net < 0 THEN -1 ELSE 0
Streak(trades, sign) ==
  FoldLeft(LAMBDA s, t : LET length == IF Sign(t) = sign THEN s.length + 1 ELSE 0 IN
                         [length |-> length, longest |-> Max({s.longest, length})],
           [length |-> 0, longest |-> 0], trades).longest

Returns(curve) ==
  LET steps == SelectSeq([i \in 1..(Len(curve) - 1) |-> <<curve[i], curve[i + 1]>>], LAMBDA pair : pair[1] > 0) IN
  [i \in DOMAIN steps |-> Over(steps[i][2] - steps[i][1], steps[i][1])]

Ratios(curve) ==
  LET returns == IF Len(curve) < 2 THEN <<>> ELSE Returns(curve)
      average == Mean(returns)
      Squares(values) == [i \in DOMAIN values |-> Times(values[i], values[i])]
      deviation == DecimalRoot(HalfUp(Total(Squares([i \in DOMAIN returns |-> returns[i] - average])), Len(returns) - 1))
      downside == SelectSeq(returns, LAMBDA r : r < 0)
      Ratio(spread) == IF spread > 0 THEN Available(Times(Over(average, spread), DecimalRoot(PeriodsPerYear * Scale)))
                       ELSE Unavailable("ZERO_RETURN_DISPERSION") IN
  IF Len(returns) < MinObservations
  THEN [sharpe |-> Unavailable("INSUFFICIENT_RETURN_OBSERVATIONS"),
        sortino |-> Unavailable("INSUFFICIENT_RETURN_OBSERVATIONS"), observations |-> Len(returns)]
  ELSE [sharpe |-> Ratio(deviation), observations |-> Len(returns),
        sortino |-> IF downside = <<>> THEN Unavailable("NO_DOWNSIDE_RETURNS")
                    ELSE Ratio(DecimalRoot(Mean(Squares(downside))))]

\* The candidates of a segment are not counted: they belong to the portfolio.
FunnelOf(input, overall) == IF overall THEN input.funnel ELSE [k \in DOMAIN input.funnel |-> 0]
RejectionRate(funnel) ==
  IF funnel.assessed = 0 THEN Unavailable("NO_ASSESSED_CANDIDATES")
  ELSE Available(Percent(funnel.rejected * Scale, funnel.assessed * Scale))

Metrics(trades, input, overall) ==
  LET count == Len(trades)
      Wins(t) == t.net > 0
      Loses(t) == t.net < 0
      winners == Those(trades, Wins)
      losers == Those(trades, Loses)
      Sum(Value(_)) == Total(Each(trades, Value))
      Net(t) == t.net
      Fees(t) == t.fees
      Cost(t) == t.cost
      net == Sum(Net)
      profit == Total(Each(winners, Net))
      loss == -Total(Each(losers, Net))
      Or(reason) == IF count = 0 THEN "NO_CLOSED_TRADES" ELSE reason
      multiples == Each(Those(trades, HasRisk), RMultiple)
      holds == Each(Those(trades, HasDuration), HoldMinutes)
      adverse == Each(Those(trades, HasAdverse), Adverse)
      favorable == Each(Those(trades, HasFavorable), Favorable)
      drawdown == Drawdown(trades, input.base)
      length == (input.to - input.from) * Scale
      funnel == FunnelOf(input, overall)
      ratios == Ratios(input.curve)
      Portfolio(metric) == IF overall THEN metric ELSE Unavailable("NOT_DEFINED_FOR_SEGMENT") IN
  [closed |-> count, wins |-> Len(winners), losses |-> Len(losers), even |-> count - Len(winners) - Len(losers),
   net |-> net, fees |-> Sum(Fees), gross |-> net + Sum(Fees), cost |-> Sum(Cost), profit |-> profit, loss |-> loss,
   winRate |-> IF count = 0 THEN Unavailable("NO_CLOSED_TRADES") ELSE Available(Percent(Len(winners) * Scale, count * Scale)),
   averageWin |-> MeanOr(Each(winners, Net), "NO_WINNING_TRADES"),
   averageLoss |-> MeanOr(Each(losers, Net), "NO_LOSING_TRADES"),
   profitFactor |-> IF loss > 0 THEN Available(Over(profit, loss)) ELSE Unavailable(Or("NO_GROSS_LOSS")),
   expectancy |-> MeanOr(Each(trades, Net), "NO_CLOSED_TRADES"),
   averageR |-> MeanOr(multiples, Or("NO_PLANNED_RISK")),
   cumulativeR |-> IF multiples = <<>> THEN Unavailable(Or("NO_PLANNED_RISK")) ELSE Available(Total(multiples)),
   withRisk |-> Len(multiples), winStreak |-> Streak(trades, 1), lossStreak |-> Streak(trades, -1),
   drawdown |-> drawdown.amount, drawdownPct |-> drawdown.pct,
   recovery |-> IF ~drawdown.amount.known THEN drawdown.amount
                ELSE IF drawdown.amount.value > 0 THEN Available(Over(net, drawdown.amount.value))
                ELSE Unavailable("NO_DRAWDOWN"),
   hold |-> MeanOr(holds, Or("NO_HOLD_DURATION")), exposure |-> Total(holds),
   exposurePct |-> IF length > 0 THEN Available(Percent(Total(holds), length)) ELSE Unavailable("EMPTY_WINDOW"),
   adverse |-> MeanOr(adverse, Or("NO_PRICE_EXTREMES")), favorable |-> MeanOr(favorable, Or("NO_PRICE_EXTREMES")),
   withExtremes |-> Max({Len(adverse), Len(favorable)}),
   sharpe |-> Portfolio(ratios.sharpe), sortino |-> Portfolio(ratios.sortino),
   observations |-> IF overall THEN ratios.observations ELSE 0, funnel |-> funnel,
   rejectionRate |-> Portfolio(RejectionRate(funnel))]

----------------------------------------------------------------------------
(* A report: the whole, then each axis by its keys                          *)

OrUnknown(name) == IF name = None THEN "UNKNOWN" ELSE name
Axes == {"DIRECTION", "STRATEGY_VERSION", "ASSET", "MARKET_REGIME", "EXIT_REASON"}
KeyOf(axis, t) ==
  CASE axis = "DIRECTION" -> t.direction [] axis = "STRATEGY_VERSION" -> t.version [] axis = "ASSET" -> t.asset
    [] axis = "MARKET_REGIME" -> OrUnknown(t.regime) [] axis = "EXIT_REASON" -> OrUnknown(t.reason)
Bucket(axis, key, trades) == Those(trades, LAMBDA t : KeyOf(axis, t) = key)

Segments(input) ==
  LET Keys(a) == {KeyOf(a, input.trades[i]) : i \in DOMAIN input.trades}
      names == {<<"OVERALL", "ALL">>} \cup UNION {{a} \X Keys(a) : a \in Axes} IN
  {[axis |-> n[1], key |-> n[2],
    metrics |-> LET overall == n[1] = "OVERALL" IN
                Metrics(IF overall THEN input.trades ELSE Bucket(n[1], n[2], input.trades), input, overall)] : n \in names}

\* The input without the order of the trades, of which its hash is taken.
InputHash(input) == [input EXCEPT !.trades = ToSet(input.trades)]

----------------------------------------------------------------------------
(* The input of a report, read from the database                            *)

Windows == <<"DAILY", "ROLLING_30D", "ALL_TIME">>
From(window, asOf) ==
  CASE window = "DAILY" -> (asOf \div DayLength) * DayLength
    [] window = "ROLLING_30D" -> asOf - RollingLength
    [] OTHER -> 0

\* Trades in the order of closedAt; the database says nothing of those that are equal.
InOrder(trades) ==
  {s \in SetToSeqs(trades) : \A i, j \in DOMAIN s : i < j => s[i].closedAt <= s[j].closedAt}
FirstOf(s, n) == SubSeq(s, 1, Min({n, Len(s)}))

\* The last snapshot of each day
EquityCurve(from, to) ==
  LET seen == {s \in world.snapshots : s.asOf \in from..to}
      last == {s \in seen : \A o \in seen : o.day = s.day => o.asOf <= s.asOf}
      ordered == SetToSortSeq(last, LAMBDA a, b : a.day < b.day) IN
  [i \in DOMAIN ordered |-> ordered[i].equity]

Funnel(from, to) ==
  LET Count(kinds) == Cardinality({i \in DOMAIN world.candidates : world.candidates[i].at \in from..to
                                                                  /\ world.candidates[i].end \in kinds}) IN
  [assessed |-> Count({"PASS", "FAIL"}), rejected |-> Count({"FAIL"}), invalid |-> Count({"INVALID"}),
   expired |-> Count({"EXPIRED"})]

\* The lowest and the highest price of the time a trade was open, where candles cover it.
PriceExtremes(t) == IF world.extremes /\ HasDuration(t) THEN t ELSE [t EXCEPT !.low = Unknown, !.high = Unknown]

\* assembleShadowPerformanceInput: the inputs it may return for one window.
SnapshotInputs(window, asOf, notBefore) ==
  LET from == Max({From(window, asOf), notBefore})
      found == {t \in booked : t.closedAt \in from..asOf} IN
  {[from |-> from, to |-> asOf, base |-> world.startingCash, trades |-> Each(FirstOf(order, MaxTrades), PriceExtremes),
    funnel |-> Funnel(from, asOf), curve |-> EquityCurve(from, asOf)] : order \in InOrder(found)}

----------------------------------------------------------------------------
(* The job: the equity point of the hour, then each window                  *)

Idle == [stage |-> "idle", asOf |-> 0, known |-> {}, windows |-> <<>>, hash |-> 0, todo |-> {}, reports |-> {},
         failures |-> 0, runs |-> 0]
At(r, stage) == refreshes[r].stage = stage
Ended == {"idle", "SUCCESS", "FAILED", "dead"}
Hour(asOf) == asOf \div HourLength
Becomes(r, run) == refreshes' = [refreshes EXCEPT ![r] = run]
Fault == troubles < world.faults /\ troubles' = troubles + 1

\* A gate that is closed ends the run as FAILED and leaves nothing else.
StartRefresh(r) ==
  /\ refreshes[r].stage \in Ended /\ refreshes[r].runs < MaxRefreshes
  /\ LET begun == [Idle EXCEPT !.asOf = clock, !.known = booked, !.runs = refreshes[r].runs + 1] IN
     Becomes(r, IF world.gate THEN [begun EXCEPT !.stage = "point", !.windows = Windows]
                ELSE [begun EXCEPT !.stage = "FAILED"])
  /\ UNCHANGED <<points, rows, audits, troubles>>

Failed(r, stage) == [refreshes[r] EXCEPT !.stage = stage, !.failures = @ + 1]

\* recordPortfolioEquityPoint: the hour is looked up, the portfolio is valued (which
\* fails without a candle), and the point is created unless another run just did.
ReadPoint(r) ==
  /\ At(r, "point")
  /\ \/ Becomes(r, [refreshes[r] EXCEPT !.stage = IF Hour(refreshes[r].asOf) \in points THEN "window" ELSE "create"])
        /\ UNCHANGED troubles
     \/ Hour(refreshes[r].asOf) \notin points /\ Fault /\ Becomes(r, Failed(r, "window"))
  /\ UNCHANGED <<points, rows, audits>>

CreatePoint(r) ==
  /\ At(r, "create")
  /\ IF Hour(refreshes[r].asOf) \in points THEN Becomes(r, Failed(r, "window")) ELSE Becomes(r, [refreshes[r] EXCEPT !.stage = "window"])
  /\ points' = points \cup {Hour(refreshes[r].asOf)}
  /\ UNCHANGED <<rows, audits, troubles>>

\* A window that fails is skipped, with whatever rows of it are written.
NextWindow(run) == [run EXCEPT !.stage = "window", !.windows = Tail(run.windows), !.todo = {}, !.hash = 0]

Assemble(r) ==
  /\ At(r, "window") /\ refreshes[r].windows # <<>>
  /\ \/ \E input \in SnapshotInputs(refreshes[r].windows[1], refreshes[r].asOf, 0) :
          Becomes(r, [refreshes[r] EXCEPT !.stage = "write", !.hash = InputHash(input), !.todo = Segments(input)])
        /\ UNCHANGED troubles
     \/ Fault /\ Becomes(r, NextWindow(Failed(r, "window")))
  /\ UNCHANGED <<points, rows, audits>>

\* Segments are written in the order of their axes and keys, one at a time; a row that
\* has the same snapshotKey, also one of a run beside this one, stays as it is.
SnapshotKey(row) == <<row.window, row.asOf, row.axis, row.key, row.hash>>
RowOf(run, segment) ==
  [window |-> run.windows[1], asOf |-> run.asOf, hash |-> run.hash, axis |-> segment.axis, key |-> segment.key,
   metrics |-> segment.metrics]
Rank == [OVERALL |-> 0, DIRECTION |-> 1, STRATEGY_VERSION |-> 2, ASSET |-> 3, MARKET_REGIME |-> 4, EXIT_REASON |-> 5]
Earliest(segments) ==
  LET first == Min({Rank[s.axis] : s \in segments}) IN {s \in segments : Rank[s.axis] = first}

WriteSegment(r) ==
  /\ At(r, "write") /\ refreshes[r].todo # {}
  /\ \/ LET segment == CHOOSE s \in Earliest(refreshes[r].todo) : TRUE
            row == RowOf(refreshes[r], segment) IN
        /\ rows' = IF \E o \in rows : SnapshotKey(o) = SnapshotKey(row) THEN rows ELSE rows \cup {row}
        /\ Becomes(r, [refreshes[r] EXCEPT !.todo = @ \ {segment}]) /\ UNCHANGED troubles
     \/ Fault /\ Becomes(r, NextWindow(Failed(r, "window"))) /\ UNCHANGED rows
  /\ UNCHANGED <<points, audits>>

\* The audit event is outside the try: what it throws ends the run as it is.
AuditWindow(r) ==
  /\ At(r, "write") /\ refreshes[r].todo = {}
  /\ \/ /\ audits' = audits \cup {<<refreshes[r].windows[1], refreshes[r].hash>>}
        /\ Becomes(r, NextWindow([refreshes[r] EXCEPT !.reports = @ \cup {<<refreshes[r].windows[1], refreshes[r].hash>>}]))
        /\ UNCHANGED troubles
     \/ Fault /\ Becomes(r, [refreshes[r] EXCEPT !.stage = "dead"]) /\ UNCHANGED audits
  /\ UNCHANGED <<points, rows>>

FinishRefresh(r) ==
  /\ At(r, "window") /\ refreshes[r].windows = <<>>
  /\ Becomes(r, [refreshes[r] EXCEPT !.stage = IF refreshes[r].failures > 0 THEN "FAILED" ELSE "SUCCESS"])
  /\ UNCHANGED <<points, rows, audits, troubles>>

----------------------------------------------------------------------------
(* The comparison: metrics and facts come from queries beside each other   *)

Newest(trades) == {t \in trades : \A o \in trades : o.closedAt <= t.closedAt}
NoComparison == [metrics |-> {}, net |-> {}, facts |-> {}]

\* loadForwardEntry: the portfolio's equity, then loadPortfolioForwardActivity.
ReadEquity ==
  /\ world.forwardStart # Unknown /\ comparison = NoComparison
  /\ comparison' = [comparison EXCEPT !.net = {MapThenSumSet(LAMBDA t : t.net, booked)}]
ReadMetrics ==
  /\ comparison.net # {} /\ comparison.metrics = {}
  /\ \E input \in SnapshotInputs("ALL_TIME", clock, world.forwardStart) :
       comparison' = [comparison EXCEPT !.metrics = {Metrics(input.trades, input, TRUE)}]
LastEvaluation ==
  LET since == {e \in world.evaluations : e.at >= world.forwardStart /\ e.at <= clock}
      last == {e \in since : \A o \in since : o.at < e.at \/ (o.at = e.at /\ (o.outcome = "CANDIDATE" => e = o))} IN
  IF since = {} THEN None ELSE (CHOOSE e \in last : TRUE).outcome
ReadFacts ==
  /\ comparison.net # {} /\ comparison.facts = {}
  /\ comparison' = [comparison EXCEPT !.facts =
       {[before |-> Cardinality({t \in booked : t.closedAt < world.forwardStart}),
         last |-> Newest({t \in booked : t.closedAt >= world.forwardStart}), evaluation |-> LastEvaluation]}]
Shown == comparison.metrics # {} /\ comparison.facts # {}
ForgetComparison == Shown /\ comparison' = NoComparison

Compare == ReadEquity \/ ReadMetrics \/ ReadFacts \/ ForgetComparison

----------------------------------------------------------------------------

\* The end of a trade is booked, at its candle or after it.
Book ==
  /\ \E t \in world.trades \ booked : t.closedAt <= clock /\ booked' = booked \cup {t}
  /\ UNCHANGED <<clock, points, rows, audits, refreshes, comparison, troubles>>
Pass ==
  /\ clock < world.end /\ clock' = clock + 1
  /\ UNCHANGED <<booked, points, rows, audits, refreshes, comparison, troubles>>
Die(r) ==
  /\ refreshes[r].stage \notin Ended /\ Fault
  /\ Becomes(r, [refreshes[r] EXCEPT !.stage = "dead"]) /\ UNCHANGED <<points, rows, audits>>

PerformanceInit ==
  /\ world \in Worlds /\ clock = world.start /\ booked = {t \in world.trades : t.closedAt < world.start}
  /\ points = {} /\ rows = {} /\ audits = {} /\ refreshes = [r \in Refreshers |-> Idle]
  /\ comparison = NoComparison /\ troubles = 0

PerformanceNext ==
  /\ UNCHANGED world
  /\ \/ Book \/ Pass
     \/ Compare /\ UNCHANGED <<clock, booked, points, rows, audits, refreshes, troubles>>
     \/ /\ \E r \in world.refreshers :
             \/ StartRefresh(r) \/ ReadPoint(r) \/ CreatePoint(r) \/ Assemble(r) \/ WriteSegment(r) \/ AuditWindow(r)
             \/ FinishRefresh(r) \/ Die(r)
        /\ UNCHANGED <<clock, booked, comparison>>

PerformanceTypeOK ==
  /\ world \in Worlds /\ clock \in world.start..world.end /\ booked \subseteq world.trades
  /\ \A row \in rows : row.axis \in DOMAIN Rank /\ row.window \in ToSet(Windows)
  /\ \A r \in Refreshers : refreshes[r].failures \in 0..4 /\ refreshes[r].runs \in 0..MaxRefreshes

----------------------------------------------------------------------------
(* Properties                                                              *)

\* The metrics depend on what is booked alone: they are looked at before anything is read.
Quiet == comparison = NoComparison /\ \A r \in Refreshers : At(r, "idle")
Sums == {"closed", "wins", "losses", "even", "net", "fees", "gross", "cost", "profit", "loss", "exposure", "withRisk"}

\* computeShadowPerformance: the segments of every axis add up to the whole, a trade
\* without a regime or a reason included.
SegmentsAddUp ==
  Quiet => \A input \in SnapshotInputs("ALL_TIME", clock, 0) :
    LET segments == Segments(input)
        whole == (CHOOSE s \in segments : s.axis = "OVERALL").metrics IN
    \A axis \in Axes : \A f \in Sums :
      MapThenSumSet(LAMBDA s : s.metrics[f], {s \in segments : s.axis = axis}) = whole[f]

\* computeDrawdown, computeStreaks: the drawdown is the worst fall between two points of
\* the equity curve that begins with the base, a streak the longest stretch of trades
\* that all win or all lose; no wins and losses exceed the trades.
DrawdownIsWorstFall ==
  Quiet => \A input \in SnapshotInputs("ALL_TIME", clock, 0) :
    LET trades == input.trades
        equity == [i \in 0..Len(trades) |-> Total([k \in 1..i |-> trades[k].net])]
        Longest(Test(_)) == Max({0} \cup {j - i + 1 : <<i, j>> \in
          {p \in (DOMAIN trades) \X (DOMAIN trades) : p[1] <= p[2] /\ \A k \in p[1]..p[2] : Test(trades[k])}}) IN
    /\ trades # <<>> =>
         Drawdown(trades, input.base).amount.value = Max({equity[p[1]] - equity[p[2]] : p \in {q \in (0..Len(trades)) \X (0..Len(trades)) : q[1] <= q[2]}})
    /\ Streak(trades, 1) = Longest(LAMBDA t : t.net > 0) /\ Streak(trades, -1) = Longest(LAMBDA t : t.net < 0)

\* persistShadowPerformance: whichever runs wrote it, a row says what the input says whose
\* hash it carries.  Trades that end at the same instant are left out: they come in any
\* order, and a drawdown or a streak depends on it.
\* (Looked at when every run has ended: no row is ever changed or removed.)
RowsMatchTheirInput ==
  (\A r \in Refreshers : refreshes[r].stage \in Ended) => \A row \in rows :
    LET trades == row.hash.trades
        tied == \E t, u \in trades : t # u /\ t.closedAt = u.closedAt
        input == [row.hash EXCEPT !.trades = SetToSortSeq(trades, LAMBDA t, u : t.closedAt < u.closedAt)] IN
    tied \/ [axis |-> row.axis, key |-> row.key, metrics |-> row.metrics] \in Segments(input)

\* runShadowPerformanceRefresh: a run that reports SUCCESS left the point of its hour and,
\* for every window, an audit event and a row of every segment; in ALL_TIME is every
\* trade that was booked when it began.
SuccessIsComplete ==
  \A r \in Refreshers : At(r, "SUCCESS") =>
    LET run == refreshes[r] IN
    /\ Hour(run.asOf) \in points
    /\ {report[1] : report \in run.reports} = ToSet(Windows)
    /\ \A report \in run.reports :
         LET trades == report[2].trades
             Row(axis, key) == \E row \in rows : SnapshotKey(row) = <<report[1], run.asOf, axis, key, report[2]>> IN
         /\ report \in audits /\ Row("OVERALL", "ALL")
         /\ \A t \in trades : \A axis \in Axes : Row(axis, KeyOf(axis, t))
         /\ report[1] = "ALL_TIME" /\ Cardinality(trades) < MaxTrades => Cardinality(trades) >= Cardinality(run.known)

\* loadPortfolioForwardActivity: forward metrics are those of trades that ended after the
\* start; so is the profit, when no trade is said to have ended before.
ForwardIsForward ==
  Shown =>
    LET forward == {t \in booked : t.closedAt >= world.forwardStart}
        Net(trades) == MapThenSumSet(LAMBDA t : t.net, trades)
        m == CHOOSE x \in comparison.metrics : TRUE
        facts == CHOOSE x \in comparison.facts : TRUE IN
    /\ \E seen \in SUBSET forward :
         m.closed = Cardinality(seen) /\ m.net = Net(seen) /\ m.wins = Cardinality({t \in seen : t.net > 0})
    /\ facts.before = 0 => \E seen \in SUBSET forward : comparison.net = {Net(seen)}

=============================================================================
