----------------------------- MODULE MCResearch -----------------------------
(***************************************************************************)
(* Instances for TLC of the research side: the worker that collects market  *)
(* data, analyses it and alerts; and of what the trading side is measured   *)
(* and watched by.  MCTradingDecisions chooses one of them per behaviour;   *)
(* they share the variables v1 .. v10, and what the chosen one does not use *)
(* stays 0.                                                                *)
(***************************************************************************)
EXTENDS Integers, Sequences, FiniteSets, ResearchScheduler

VARIABLES
  service,   \* the component that is chosen
  v1, v2, v3, v4, v5, v6, v7, v8, v9, v10

shared == <<v1, v2, v3, v4, v5, v6, v7, v8, v9, v10>>
Unused(numbers) ==
  /\ (1 \in numbers => v1 = 0) /\ (2 \in numbers => v2 = 0) /\ (3 \in numbers => v3 = 0) /\ (4 \in numbers => v4 = 0)
  /\ (5 \in numbers => v5 = 0) /\ (6 \in numbers => v6 = 0) /\ (7 \in numbers => v7 = 0) /\ (8 \in numbers => v8 = 0)
  /\ (9 \in numbers => v9 = 0) /\ (10 \in numbers => v10 = 0)

On(s) == service = s

----------------------------------------------------------------------------
(* The alerts of one asset's signals: the scheduled run and one by hand     *)

Signal(type, status, direction, score, timeframes) ==
  [type |-> type, status |-> status, direction |-> direction, score |-> score, timeframes |-> timeframes,
   context |-> {"n"}, text |-> TRUE, volumeScore |-> 80]
Ripe == [closed |-> 3, age |-> 0, close |-> 5, highest |-> 4, lowest |-> 1, volumeUp |-> TRUE]
Signals == INSTANCE SignalAlerts WITH settings <- v1, item <- v2, states <- v3, runs <- v4, told <- v5, repeats <- v6,
  faults <- v7, analyses <- v8, Analyzers <- {"cron", "hand"}, Statuses <- {"WATCH", "STRONG_WATCH"},
  Situations <- {[signal |-> Signal("BREAKOUT_ALERT", "WATCH", "BULLISH", 83, {}), series |-> Ripe],
                 [signal |-> Signal("BREAKOUT_ALERT", "WATCH", "BEARISH", 75, {"4h"}), series |-> [Ripe EXCEPT !.close = 0]]},
  Items <- {[enabled |-> TRUE, priority |-> "HIGH"], [enabled |-> FALSE, priority |-> "HIGH"]},
  Settings <- {[class |-> "crypto", mode |-> "ALL_ASSETS", alerts |-> FALSE],
               [class |-> "equity", mode |-> "HIGH_PRIORITY_ONLY", alerts |-> TRUE]},
  MinimumCandles <- 2, MaxCandleAge <- 1, Lookback <- 2, Improvement <- 8, MaxAttempts <- 2, MaxAnalyses <- 3,
  MaxFaults <- 1

(* The quick radar of one asset, its daily summary, and the market news     *)

CryptoRadar == [class |-> "crypto", enabled |-> TRUE, alerts |-> TRUE, minSeverity |-> "IMPORTANT", patterns |-> TRUE,
  mode |-> "ALL_ASSETS", maxAge |-> 1, watchlist |-> <<"LOW", "HIGH">>,
  item |-> [index |-> 2, enabled |-> TRUE, priority |-> "HIGH"]]
EquityRadar == [CryptoRadar EXCEPT !.class = "equity", !.mode = "HIGH_PRIORITY_ONLY", !.patterns = FALSE]
Calm == [closed |-> 3, age |-> 0, measurable |-> TRUE, move |-> 0, volume |-> 0, range |-> 0, near |-> "none",
         relativeVolume |-> 0, rsi |-> <<50, 50>>]
Radar == INSTANCE MarketRadar WITH settings <- v1, clock <- v2, newest <- v3, radar <- v4, heard <- v5, unearned <- v6,
  faults <- v7, readings <- v8, RadarSettings <- {CryptoRadar, EquityRadar},
  Readings <- {[Calm EXCEPT !.move = 220], [Calm EXCEPT !.move = 250, !.rsi = <<49, 64>>],
               [Calm EXCEPT !.move = -120, !.rsi = <<51, 36>>, !.near = "DOWN"], [Calm EXCEPT !.move = 100]},
  AlertCooldown <- 1, MaxAssets <- 1, MaxClock <- 2, MaxReadings <- 3, MaxFaults <- 1

SummaryOf(lookback, minimum, webhook, discovery) ==
  [enabled |-> TRUE, webhook |-> webhook, minimum |-> minimum, lookback |-> lookback, discovery |-> discovery]
Summary == INSTANCE RadarSummary WITH settings <- v1, stamp <- v2, events <- v3, summary <- v4, lastRun <- v5, hidden <- v6,
  misjudged <- v7, offered <- v8, faults <- v9,
  Kinds <- {"MOVEMENT", "MARKET", "DISCOVERY"}, BySize <- {"MOVEMENT", "DISCOVERY"}, Sizes <- {1, 2},
  SummarySettings <- {SummaryOf(3, 1, TRUE, TRUE), SummaryOf(6, 2, FALSE, FALSE)}, PerKind <- 1, MaxEvents <- 2, MaxStamp <- 6,
  MaxSummaryFaults <- 1

Article(category, id, type, matches, urgent) ==
  [category |-> category, id |-> id, matches |-> [t \in {"RATES", "CONFLICT"} |-> IF t = type THEN matches ELSE 1],
   urgent |-> urgent, up |-> <<<<"gold">>, <<"oil", "gold">>>>, down |-> <<<<"oil">>>>]
NewsEvents == INSTANCE MarketNews WITH clock <- v1, stored <- v2, monitor <- v3, outcomes <- v4, posts <- v5, early <- v6,
  faults <- v7, runs <- v8,
  News <- {Article("general", "1", "RATES", 2, 3), Article("general", "2", "RATES", 2, 1),
           Article("crypto", "1", "CONFLICT", 2, 1)},
  EventTypes <- <<"CONFLICT", "RATES">>, MaxList <- 2, Categories <- <<"general", "crypto">>, MinSeverity <- "IMPORTANT",
  AlertsPerRun <- 2, EventsPerRun <- 2, NewsCooldown <- 2, MaxClock <- 2, MaxRuns <- 2, MaxFaults <- 1

(* The scheduler and its three pipelines: module ResearchScheduler itself   *)

AllOff == {[paper |-> FALSE, regime |-> FALSE, news |-> FALSE, events |-> FALSE]}

(* Paper evaluations: both pipelines, beside a reclassification             *)

Seen(status, direction, score) ==
  [status |-> status, direction |-> direction, type |-> "TREND", highRisk |-> FALSE, score |-> score]
Candle(high, low, close) == [high |-> high, low |-> low, close |-> close]
History(first, later) == [d \in 0..4 |-> CASE d = 0 -> Candle(1000, 990, 1000) [] d = 1 -> first [] OTHER -> later]
Rise == History(Candle(1041, 999, 1020), Candle(1030, 970, 980))
Fall == History(Candle(1003, 979, 1000), Candle(1001, 999, 1000))
Drift == History(Candle(1012, 1000, 1008), Candle(1010, 1000, 1000))
Paper == INSTANCE PaperEvaluations WITH signal <- v1, market <- v2, day <- v3, candles <- v4, evaluation <- v5, papers <- v6,
  reclassify <- v7, settled <- v8, faults <- v9, PaperRuns <- {"crypto", "equity"}, Backfills <- {"hand"}, CandleDays <- {1, 3}, CreatedOn <- 1,
  PaperCases <- {[signal |-> Seen("WATCH", "BEARISH", 70), market |-> Rise], [signal |-> Seen("AVOID", "BULLISH", 70), market |-> Fall],
                 [signal |-> Seen("WAIT", "BULLISH", 60), market |-> Drift]},
  Earlier <- {[kind |-> "OBSERVATION", status |-> "OPEN"], [kind |-> "SKIPPED", status |-> "SKIPPED"]},
  MaxDay <- 4, MaxPaperFaults <- 1

(* The candles of one series: a backfill, the fetches and the audit         *)

Sold(provider, intraday, missing) == [provider |-> provider, intraday |-> intraday, exists |-> (0..5) \ missing]
Ingestion == INSTANCE CandleHistory WITH series <- v1, now <- v2, stored <- v3, quality <- v4, backfill <- v5, fetch <- v6,
  audit <- v7, trouble <- v8, jumped <- v9, Backfills <- {"hand"},
  Series <- {Sold("BINANCE", FALSE, {2}), Sold("FINNHUB", TRUE, {3}), Sold("FINNHUB", FALSE, {1, 4})},
  Weekend <- {4}, PerDay <- 1, Lookback <- 3, PageSize <- 2, WindowSize <- 1, FetchLimit <- 2, FetchDays <- 1,
  AuditWindow <- 2, RepairLimit <- 2, MaxRepairs <- 2, MaxAttempts <- 2, Start <- 3, MaxTime <- 4, MaxTrouble <- 1

(* The universe of two assets: a day and the next with instruments that come *)
(* and go, two users, failing runs, and correlated assets                  *)

Listing == [tradable |-> TRUE, status |-> "ACTIVE", unsuitable |-> FALSE, leveraged |-> FALSE, stable |-> FALSE]
Reading(raw) == [raw |-> raw, freshness |-> 100, completeness |-> 100, candles |-> 50, liquidity |-> 80]
ReadingsOf(first, second) == [a \in {"a", "b"} |-> IF a = "a" THEN first ELSE second]
World(days, seeds, edits, faults, instruments, limits) ==
  [first |-> days[1], last |-> days[2], seeds |-> ReadingsOf(seeds[1], seeds[2]), edits |-> edits, faults |-> faults,
   instruments |-> instruments, limit |-> limits[1], perSector |-> limits[2], correlated |-> limits[3]]
Body(set, clear) == [asset |-> "b", set |-> set, clear |-> clear]
Universe == INSTANCE AssetUniverse WITH world <- v1, day <- v2, assets <- v3, scan <- v4, selection <- v5, selecting <- v6,
  recon <- v7, edits <- v8, overtaken <- v9, seen <- v10, Assets <- {"a", "b"}, Correlated <- {{"a", "b"}}, Editors <- {"u", "w"},
  Traits <- [a \in {"a", "b"} |-> [class |-> "STOCK", sector |-> "s", rank |-> IF a = "a" THEN 1 ELSE 2]],
  Scans <- {ReadingsOf(Reading(80), Reading(70)), ReadingsOf(Reading(50), Reading(90))}, Quota <- [STOCK |-> 1],
  Bodies <- {Body({"excluded"}, {"manual", "pinned"}), Body({"pinned"}, {"excluded"})},
  Worlds <- {World(<<0, 1>>, <<"none", "none">>, 0, FALSE, {Listing}, <<1, 2, 2>>),
             World(<<0, 1>>, <<"listed", "none">>, 0, FALSE, {[Listing EXCEPT !.status = "INACTIVE"]}, <<1, 2, 2>>),
             World(<<1, 1>>, <<"none", "none">>, 0, FALSE, {Listing, [Listing EXCEPT !.status = "INACTIVE"]}, <<1, 2, 2>>),
             World(<<0, 0>>, <<"MANUAL", "listed">>, 1, FALSE, {}, <<2, 2, 2>>),
             World(<<1, 1>>, <<"none", "MANUAL">>, 0, TRUE, {Listing}, <<2, 1, 2>>),
             World(<<0, 0>>, <<"listed", "listed">>, 0, FALSE, {}, <<2, 2, 1>>)},
  MinimumScore <- 62, MinimumQuality <- 70, MinimumLiquidity <- 60, MinimumCandles <- 40, ScoreWithoutCandles <- 48,
  Delta <- 8, MinimumDays <- 1, CooldownDays <- 1, MaxAdditions <- 2, MaxRemovals <- 1

(* The values the trading packages share: decimals, keys and hashes         *)

Texts(alphabet, longest) == UNION {[1..k -> alphabet] : k \in 0..longest}
Amounts == {-1000, -50, -7, 0, 1, 50, 99, 333, 9999}
Sums == {[kind |-> "decimal", op |-> op, a |-> a, b |-> b, mode |-> mode] : op \in {"mul", "div", "quantize"},
           a \in Amounts, b \in Amounts, mode \in {"EXACT", "FLOOR", "CEIL", "TRUNCATE", "HALF_UP"}}
        \cup {[kind |-> "decimal", op |-> op, a |-> a, b |-> b, mode |-> "EXACT"] : op \in {"add", "sub", "integer", "points"},
           a \in Amounts, b \in Amounts}
Spelled == {[kind |-> "text", text |-> text] : text \in Texts({"-", "0", "7", "."}, 4)
              \cup {<<"-", "0", ".", "0", "7">>, <<"7", ".", "7", "7", "7">>, <<"7", "0", ".", "0", "7">>,
                    <<"1", "0", "0", "0", ".", "5">>, <<"1", "0", "e", "2">>}}
CallsOf(builder, parts, numbers) == {[builder |-> builder, parts |-> p, sequence |-> n] : p \in parts, n \in numbers}
PartsSplit == {<<"a">>, <<"a", "a">>, <<"a", "|", "a">>, <<>>}
PartsAtLimit == {<<"a">>, <<" ">>, <<"a", "a", "a", "a">>}
KeyCalls ==
  CallsOf("fill", PartsSplit \X PartsSplit \X {<<>>}, {-1, 1}) \cup CallsOf("positionEvent", PartsSplit \X {<<>>}, {0, 12})
  \cup CallsOf("position", PartsSplit \X {<<"b">>} \X {<<"a">>}, {0})
  \cup CallsOf("openEntryOrder", {<<"a">>} \X PartsSplit \X {<<"b">>}, {0})
  \cup CallsOf("alert", {<<"a">>} \X {<<"b">>} \X PartsAtLimit \X PartsAtLimit, {0})
Origins == {[id |-> id, type |-> t, from |-> <<"a">>] : id \in {<<>>, <<"a">>, <<"-", "a">>, <<"|">>}, t \in {<<"a">>, <<"b">>}}
Is(type, of) == [is |-> type, of |-> of]
Plain == {Is("string", <<"0">>), Is("number", <<"-", "0">>), Is("undefined", <<>>)}
Scalars == Plain \cup {Is("number", <<"0">>), Is("bigint", <<"0">>), Is("number", <<"N">>), Is("decimal", <<"0">>), Is("string", <<"0", ".", "0", "0">>),
  Is("null", <<>>), Is("boolean", <<"1">>), Is("date", <<"2">>), Is("date", <<"invalid">>), Is("map", <<>>), Is("cycle", <<>>),
  Is("string", <<"2">>)}
Canonical == Scalars \cup {[is |-> "array", items |-> f] : f \in UNION {[1..n -> Plain] : n \in 0..2}}
  \cup {[is |-> "object", fields |-> f] : f \in UNION {[K -> Plain] : K \in SUBSET {"x", "y"}}}
PairsOf(kind, calls) == {[kind |-> kind, one |-> c, other |-> d] : c \in calls, d \in calls}
ValueTasks == Sums \cup Spelled \cup PairsOf("keys", KeyCalls) \cup PairsOf("evidence", Origins) \cup PairsOf("hashes", Canonical)
Values == INSTANCE DomainValues WITH task <- v1, outcome <- v2, Places <- 2, Precision <- 4, BasisPoints <- 10, MaxPartLength <- 3,
  Tasks <- ValueTasks

(* The performance snapshots of one portfolio: full and rolling windows, two *)
(* refreshers, one that fails, and a closed gate                           *)

Sale(id, direction, names, times, net, prices) ==
  [id |-> id, direction |-> direction, version |-> names[1], asset |-> names[2], regime |-> names[3], reason |-> names[4],
   openedAt |-> times[1], closedAt |-> times[2], net |-> net, fees |-> 2, cost |-> 1, risk |-> prices[1], entry |-> prices[2],
   low |-> prices[3], high |-> prices[4]]
Gain == Sale("a", "LONG", <<"v1", "btc", "up", "STOP">>, <<0, 1>>, 30, <<20, 100, 90, 120>>)
Loss == Sale("b", "SHORT", <<"v2", "eth", "none", "none">>, <<1, 2>>, -50, <<-1, 100, 80, 130>>)
Even == Sale("c", "LONG", <<"v1", "eth", "up", "TARGET">>, <<-1, 3>>, 0, <<10, 100, -1, -1>>)
Fall4 == Sale("d", "LONG", <<"v1", "btc", "down", "TARGET">>, <<2, 3>>, -40, <<10, 100, 70, 110>>)
EquityAt(asOf, day, equity) == [asOf |-> asOf, day |-> day, equity |-> equity]
EndedAt(at, end) == [at |-> at, end |-> end]
Evaluated(at, result) == [at |-> at, outcome |-> result]
Lively ==
  [trades |-> {Gain, Loss, Even, Fall4}, start |-> 2, end |-> 4, refreshers |-> {}, gate |-> TRUE, extremes |-> TRUE, faults |-> 0,
   startingCash |-> 1000, forwardStart |-> 2, candidates |-> <<EndedAt(1, "PASS"), EndedAt(2, "FAIL"), EndedAt(3, "INVALID"), EndedAt(3, "EXPIRED")>>,
   snapshots |-> {EquityAt(0, 0, 1000), EquityAt(1, 0, 900), EquityAt(2, 1, 1100), EquityAt(4, 2, 1000)},
   evaluations |-> {Evaluated(1, "CANDIDATE"), Evaluated(3, "CANDIDATE"), Evaluated(3, "NO_CANDIDATE"), Evaluated(4, "NO_CANDIDATE")}]
Refreshed ==
  [Lively EXCEPT !.trades = {Gain, [Gain EXCEPT !.id = "b", !.closedAt = 2, !.net = -50]}, !.start = 2, !.end = 2,
                 !.refreshers = {"cron", "hand"}, !.extremes = FALSE, !.forwardStart = -1, !.candidates = <<>>, !.snapshots = {}]
Failing == [Refreshed EXCEPT !.refreshers = {"cron"}, !.faults = 1, !.end = 3]
Performance == INSTANCE ShadowPerformance WITH world <- v1, clock <- v2, booked <- v3, points <- v4, rows <- v5, audits <- v6,
  refreshes <- v7, comparison <- v8, troubles <- v9, Refreshers <- {"cron", "hand"}, Scale <- 100, DayLength <- 2, HourLength <- 1,
  Worlds <- {Lively, Refreshed, Failing, [Failing EXCEPT !.gate = FALSE]}, RollingLength <- 2, MaxTrades <- 3, MinObservations <- 2,
  PeriodsPerYear <- 4, MaxRefreshes <- 1

(* How the signals of an asset are judged: crypto with a history of paper    *)
(* evaluations, a stock with bad news, one before an event; a market that rises, *)
(* one whose stocks fall, one that is mixed; candles of a breakout, an      *)
(* overheated one, a falling one and too few of them                        *)

Days(days, above50, above200, change, volatility) ==
  [days |-> days, last |-> 1000, sma50 |-> 1000 - above50, sma200 |-> 1000 - above200, before |-> 1000 - change,
   volatility |-> volatility]
Upward == Days(3, 50, 90, 40, 20)
Downward == Days(3, -50, -90, -40, 40)
MarketOf(spy, qqq, iwm, btc, eth) == [SPY |-> spy, QQQ |-> qqq, IWM |-> iwm, BTCUSDT |-> btc, ETHUSDT |-> eth]
Indicators(candles, last, average, rsi, atr, relativeVolume, low, high) ==
  [candles |-> candles, last |-> last, sma20 |-> average, sma50 |-> IF average < 0 THEN -1 ELSE 900,
   sma200 |-> IF candles < 3 THEN -1 ELSE 800, rsi |-> rsi, atr |-> atr, relativeVolume |-> relativeVolume,
   low |-> low, high |-> high]
Evaluation(type, timeframe, bucket, state, outcome, return) ==
  [type |-> type, timeframe |-> timeframe, symbol |-> "self", bucket |-> bucket, state |-> state, outcome |-> outcome,
   return |-> return]
Won == Evaluation("VOLUME_SPIKE", "1h", "80-100", "EVALUATED", "POSITIVE", 2)
Lost == Evaluation("NO_SIGNAL", "1d", "0-49", "EVALUATED", "NEGATIVE", -2)
Elsewhere == [Evaluation("NO_SIGNAL", "1d", "0-49", "SKIPPED", "NONE", 0) EXCEPT !.symbol = "other"]
Intelligence == INSTANCE SignalIntelligence WITH subject <- v1, moment <- v2, latest <- v3, analyser <- v4, verdict <- v5,
  foreign <- v6,
  Cases <- {[class |-> "crypto", log |-> <<Won, Won, Lost, Lost, Lost>>, news |-> {}, events |-> {}],
            [class |-> "stock", log |-> <<Won, Won, Lost, Elsewhere>>, events |-> {},
             news |-> {[impact |-> "CRITICAL", age |-> 3, good |-> FALSE, bad |-> TRUE]}],
            [class |-> "stock", log |-> <<Won, Lost, Lost, Elsewhere>>, news |-> {},
             events |-> {[days |-> 2, reported |-> FALSE, actual |-> 0, estimate |-> 0]}]},
  Markets <- {MarketOf(Upward, Upward, Upward, Upward, Upward), MarketOf(Downward, Downward, Upward, Upward, Upward),
              MarketOf(Days(1, 0, 0, 0, 0), Upward, Downward, Days(3, 50, -10, 40, 20), Downward)},
  Findings <- {Indicators(3, 1100, 1000, 60, 20, 210, 900, 1105),
               Indicators(2, 700, 1000, 35, 20, 50, 690, 1105), Indicators(1, -1, -1, -1, -1, -1, -1, -1)},
  ForeignSignals <- {[timeframe |-> "1h", type |-> "NO_SIGNAL", score |-> 3000, direction |-> "BEARISH",
                      status |-> "AVOID", risk |-> "HIGH"]},
  SignalMaxAge <- 2, MinDays <- 2, MinCandles <- 3, MinEvaluated <- 2, AssetsListed <- 1, MaxDelta <- 15,
  MaxMoment <- 3, MaxForeign <- 1

(* The watch, the retention of technical rows, and the restart check       *)

Old(table, status, at) == [table |-> table, job |-> IF at = 0 THEN "fill" ELSE "old", status |-> status, at |-> at]
Operations == INSTANCE ShadowOperations WITH part <- v1, tick <- v2, technical <- v3, outside <- v4, looks <- v5, cleaning <- v6,
  ran <- v7, books <- v8, check <- v9, Parts <- {"watch", "restart"}, WatchedJobs <- {"fill"}, JobAge <- 0, DataAge <- 1, PathAge <- 0,
  ResendAfter <- 2, Retained <- 1, MaxTick <- 3, MaxLooks <- 2, MaxTroubles <- 1, MaxBookings <- 3,
  OldRows <- {Old("BotRun", "SUCCESS", 0), Old("BotRun", "FAILED", 0), Old("BotLog", "warn", 0), Old("BotLog", "info", 1),
              Old("Attempt", "SENT", 0), Old("Attempt", "DEAD", 0)}

----------------------------------------------------------------------------

ResearchServices == {"Signals", "Radar", "Summary", "News", "Paper", "History", "Universe", "Values", "Performance",
                     "Operations", "Intelligence"}

ResearchInit ==
  CASE On("Signals") -> Signals!Init /\ Unused({9, 10})
    [] On("Radar") -> Radar!RadarInit /\ Unused({9, 10})
    [] On("Summary") -> Summary!SummaryInit /\ Unused({10})
    [] On("News") -> NewsEvents!NewsInit /\ Unused({9, 10})
    [] On("Paper") -> Paper!PaperInit /\ Unused({10})
    [] On("History") -> Ingestion!HistoryInit /\ Unused({10})
    [] On("Universe") -> Universe!UniverseInit
    [] On("Values") -> Values!ValuesInit /\ Unused(3..10)
    [] On("Performance") -> Performance!PerformanceInit /\ Unused({10})
    [] On("Operations") -> Operations!OperationsInit /\ Unused({10})
    [] On("Intelligence") -> Intelligence!IntelligenceInit /\ Unused(7..10)

ResearchNext ==
  \/ On("Signals") /\ Signals!Next /\ UNCHANGED <<v9, v10>>
  \/ On("Radar") /\ Radar!RadarNext /\ UNCHANGED <<v9, v10>>
  \/ On("Summary") /\ Summary!SummaryNext /\ UNCHANGED v10
  \/ On("News") /\ NewsEvents!NewsNext /\ UNCHANGED <<v9, v10>>
  \/ On("Paper") /\ Paper!PaperNext /\ UNCHANGED v10
  \/ On("History") /\ Ingestion!HistoryNext /\ UNCHANGED v10
  \/ On("Universe") /\ Universe!UniverseNext
  \/ On("Values") /\ Values!ValuesNext /\ UNCHANGED <<v3, v4, v5, v6, v7, v8, v9, v10>>
  \/ On("Performance") /\ Performance!PerformanceNext /\ UNCHANGED v10
  \/ On("Operations") /\ Operations!OperationsNext /\ UNCHANGED v10
  \/ On("Intelligence") /\ Intelligence!IntelligenceNext /\ UNCHANGED <<v7, v8, v9, v10>>

ResearchTypeOK ==
  CASE On("Signals") -> Signals!TypeOK [] On("Radar") -> Radar!RadarTypeOK [] On("Summary") -> Summary!SummaryTypeOK
    [] On("News") -> NewsEvents!NewsTypeOK [] On("Paper") -> Paper!PaperTypeOK [] On("History") -> Ingestion!HistoryTypeOK
    [] On("Universe") -> Universe!UniverseTypeOK [] On("Values") -> Values!ValuesTypeOK
    [] On("Performance") -> Performance!PerformanceTypeOK [] On("Operations") -> Operations!OperationsTypeOK
    [] On("Intelligence") -> Intelligence!IntelligenceTypeOK

\* An alert of the research side tells something new, or a call failed, a process died
\* or two runs overlapped since the one before; a summary is skipped as told only when
\* each event it lists was there to be told when an earlier one was sent.  What a signal says is earned by its parts.
ResearchAlertsAreEarned ==
  /\ On("Signals") => Signals!RepeatsNeedAFault
  /\ On("Radar") => Radar!RadarAlertsAreEarned
  /\ On("Summary") => Summary!SkippedWasOffered
  /\ On("News") => NewsEvents!NewsAlertsAreEarned
  /\ On("Intelligence") => Intelligence!VerdictsAreEarned

=============================================================================
