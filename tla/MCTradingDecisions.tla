------------------------- MODULE MCTradingDecisions -------------------------
(***************************************************************************)
(* Instances for TLC of the components that decide: what a strategy        *)
(* proposes, which candidates are stored, what risk allows, where a        *)
(* strategy ranks, whether books are sound, which command is carried out.  *)
(* A behaviour belongs to one of them: service names it, the variables of  *)
(* the others do not change.                                               *)
(***************************************************************************)
EXTENDS CandidateScan, TradingApi, Reconciliation, Arena, RiskEngine, StrategyEngine, MCResearch

CONSTANTS Services   \* the components of the run

----------------------------------------------------------------------------
(* The candidate scan: module CandidateScan itself, with the constants of  *)
(* the configuration: the scheduled run beside one by hand.                *)

(* The arena: two participants, not registered yet or both proven by their *)
(* newest evaluation; two policies that parse and one that does not; an    *)
(* evaluation finds nothing yet, a leader or a failure.                    *)

Policy(retire, probation, reinstate, proven, margin) ==
  [retire |-> retire, probation |-> probation, reinstate |-> reinstate, proven |-> proven, margin |-> margin]
Facts(suff, fitness, gain, floor, hard) ==
  [suff |-> suff, fitness |-> fitness, gain |-> gain, floor |-> floor, hard |-> hard]
LenientPolicy == Policy(1, 1, 2, 2, 1)
ThreePolicies == {LenientPolicy, Policy(2, 2, 3, 3, 1), Policy(3, 1, 2, 2, 1)}
ThreeFacts == {Facts(FALSE, 0, FALSE, FALSE, FALSE), Facts(TRUE, 3, TRUE, FALSE, FALSE), Facts(TRUE, 0, FALSE, TRUE, FALSE)}
NewCohort == [status |-> [p \in Participants |-> "NONE"], latest |-> [p \in Participants |-> NoRow], begun |-> 0]
ProvenCohort ==
  [status |-> [p \in Participants |-> "PROVEN"], begun |-> 2,
   latest |-> [p \in Participants |-> [facts |-> Facts(TRUE, 3, TRUE, FALSE, FALSE), of |-> "ACTIVE", target |-> "PROVEN"]]]
TwoCohorts == {NewCohort, ProvenCohort}

(* The risk engine: an acceptable snapshot of each direction, what differs  *)
(* from it in one or two fields, and a grid of the sizing.  Scale 1000.    *)

Unread == -1
RiskLimits == [maxRiskPerTradePct |-> 10, maxDailyLossPct |-> 10, minRewardRisk |-> 2000, maxOpenPositions |-> 2,
  maxNewTradesPerDay |-> 4, maxConsecutiveLosses |-> 3, maxGrossExposurePct |-> 400, maxAssetExposurePct |-> 200,
  maxCorrelatedExposurePct |-> 300, maxSpreadBps |-> 20, maxSlippageBps |-> 15]
LongCase == [mode |-> "shadow", session |-> "active", books |-> "ok", instrument |-> "spot", assigned |-> TRUE,
  direction |-> "LONG", chain |-> "ok", asset |-> "btc", entry |-> 100000, stop |-> 96000, target |-> 115000,
  limits |-> "pinned", profile |-> "active", spreadBps |-> 20, slippageBps |-> 10, feeBps |-> 10, tick |-> 100,
  step |-> 10, minQuantity |-> 10, minNotional |-> 1000, maxQuantity |-> Unread, equity |-> 1000000, cash |-> 900000,
  positions |-> {}, reserves |-> {}, startOfDay |-> 1000000, dailyPnl |-> 0, tradesToday |-> 0, history |-> <<>>,
  age |-> "fresh", candidate |-> "ready", quality |-> "ok", regime |-> "fits", group |-> "ok", override |-> FALSE,
  previousEquity |-> Unread]
ShortCase == [LongCase EXCEPT !.direction = "SHORT", !.stop = 104000, !.target = 85000]
Position(a, v, e) == [asset |-> a, value |-> v, exposed |-> e]
Reserve(a, v) == [asset |-> a, amount |-> v]
Losses(n) == [i \in 1..n |-> "LOSS"]
Deviations == [mode |-> {"off", "unsafe"}, session |-> {"missing", "blocks"},
  books |-> {"unreadable", "frozen", "damaged"}, instrument |-> {"leveraged", "other"}, assigned |-> {FALSE},
  direction |-> {"SHORT", "NONE"}, chain |-> {"limitEntry", "mismatch", "disabled"}, asset |-> {"eth"},
  entry |-> {Unread, 95900}, stop |-> {Unread, 0, 99950, 104000, 96050}, target |-> {Unread, 85000, 101000},
  limits |-> {"missing", "deviating", "retired"}, profile |-> {"missing", "inactive"},
  spreadBps |-> {Unread, 0, 30}, slippageBps |-> {Unread, 0, 20}, feeBps |-> {0, 50}, tick |-> {0, 500},
  step |-> {1, 7, 1000}, minQuantity |-> {2000}, minNotional |-> {200000}, maxQuantity |-> {0, 1500},
  equity |-> {Unread, 0, 999999, 500000}, cash |-> {0, 30000, 150000},
  positions |-> {{Position("eth", 150000, TRUE)}, {Position("btc", 100000, TRUE)}, {Position("btc", 0, FALSE)},
                 {Position("eth", 199000, TRUE), Position("sol", 100000, TRUE)}},
  reserves |-> {{Reserve("eth", 250000)}, {Reserve("btc", 100000)}, {Reserve("eth", 333000)}},
  startOfDay |-> {Unread, 0}, dailyPnl |-> {-9999, -10000, -20000}, tradesToday |-> {3, 4},
  history |-> {Losses(3), Losses(2) \o <<"RELEASE">> \o Losses(1), <<"LOSS", "EVEN", "LOSS", "LOSS", "WIN">>},
  age |-> {"stale", "unknown", "future"}, quality |-> {"poor", "unknown", "contradictory"},
  candidate |-> {"expired", "notReady", "decided", "incomplete", "retired", "conflict"},
  regime |-> {"missing", "conflicts"}, group |-> {"missing"}, override |-> {TRUE}, previousEquity |-> {1100000, 900000}]
Deviating(s) == UNION {{[s EXCEPT ![f] = v] : v \in Deviations[f]} : f \in DOMAIN s}
RiskSnapshots ==
  {LongCase, ShortCase} \cup Deviating(LongCase) \cup Deviating(ShortCase) \cup UNION {Deviating(s) : s \in Deviating(LongCase)}
  \cup {[d EXCEPT !.step = st, !.equity = eq, !.cash = c, !.feeBps = f, !.reserves = r, !.maxQuantity = m] :
          d \in {LongCase, ShortCase}, st \in {1, 7, 10}, eq \in {1000000, 999999}, c \in {900000, 150000, 30001},
          f \in {0, 10, 50}, r \in {{}, {Reserve("eth", 250000)}, {Reserve("eth", 100001)}}, m \in {Unread, 1500}}

(* Snapshots for the strategy engine: for each strategy series of several  *)
(* steepness and width that its rules may pass, what differs from one in   *)
(* one field at or beyond its limit, and the ticks of several instruments. *)

\* What the price moves down from the end of a series to its start.
Falls == <<30, 0, 18, 12, -3>>
\* Five candles of a timeframe, k times as steep, w beyond first and last price.
Series(t, up, k, w) ==
  LET width == [x \in {"1h", "4h", "1d"} |-> CASE x = "1h" -> 4 [] x = "4h" -> 16 [] x = "1d" -> 96]
      last(i) == 100000 + (IF up THEN -1 ELSE 1) * k * (IF i = 0 THEN 36 ELSE Falls[i])
      hi(i) == IF last(i) > last(i - 1) THEN last(i) ELSE last(i - 1)
      lo(i) == IF last(i) > last(i - 1) THEN last(i - 1) ELSE last(i) IN
  [i \in 1..5 |-> [source |-> "BINANCE", open |-> 1 + (6 - i) * width[t], close |-> 1 + (5 - i) * width[t],
                   first |-> last(i - 1), last |-> last(i), high |-> hi(i) + w, low |-> lo(i) - w,
                   volume |-> IF i = 5 THEN 20 ELSE 10]]

\* Timeframes of the series.
Tfs == {"1h", "4h", "1d"}
SoundInput(key, up, source, k, w) ==
  [key |-> key, version |-> "V1", identity |-> "pinned", assignment |-> "enabled", asset |-> "allowed",
   profile |-> "ACTIVE", tick |-> 1, series |-> [t \in Tfs |-> Series(t, up, k, w)],
   quality |-> [t \in Tfs |-> [present |-> TRUE, age |-> 1, errors |-> 0, gaps |-> 0, count |-> 5]],
   regime |-> [present |-> TRUE, age |-> 20, source |-> source, crypto |-> IF up THEN "RISK_ON" ELSE "RISK_OFF",
               mode |-> "BALANCED", confidence |-> 60],
   signals |-> [t \in Tfs |-> [present |-> TRUE, age |-> 0, direction |-> IF up THEN "BULLISH" ELSE "BEARISH",
                               status |-> "WATCH", adjusted |-> "none", score |-> 70, risk |-> "LOW"]],
   mtf |-> [present |-> TRUE, alignment |-> IF up THEN "BULLISH" ELSE "BEARISH", score |-> 65],
   events |-> {}]
Sound(k, w) ==
  {SoundInput(key, TRUE, "production", k, w) : key \in {"CRYPTO_MTF_BREAKOUT_V1", "CRYPTO_MTF_BREAKOUT_LONG_V1"}}
  \cup {SoundInput(key, TRUE, "native", k, w) : key \in {"CRYPTO_TREND_CORE_LONG_V1", "CRYPTO_REGIME_LONG_V1"}}
  \cup {SoundInput("CRYPTO_MTF_BREAKDOWN_SHORT_V1", FALSE, "production", k, w)}
Event(severity, bias) == [severity |-> severity, bias |-> bias]
\* One thing wrong, or at its limit.
Flawed(s) ==
  {[s EXCEPT !.key = "UNREGISTERED"], [s EXCEPT !.version = "V0"], [s EXCEPT !.identity = "other"],
   [s EXCEPT !.assignment = "disabled"], [s EXCEPT !.asset = "other"], [s EXCEPT !.profile = "RETIRED"],
   [s EXCEPT !.mtf.present = FALSE], [s EXCEPT !.mtf.score = 64], [s EXCEPT !.mtf.alignment = "MIXED"]}
  \cup {[s EXCEPT !.tick = x] : x \in {0, 10, 130, 1000, 7000}}
  \cup {[s EXCEPT !.events = {e}] : e \in {Event("CRITICAL", "BULLISH"), Event("CRITICAL", "BEARISH"), Event("HIGH", "BEARISH")}}
  \cup {[s EXCEPT !.regime.age = x] : x \in {-1, 104, 105}}
  \cup {[s EXCEPT !.regime.source = x] : x \in {"native", "production"}}
  \cup {[s EXCEPT !.regime.crypto = x] : x \in {"RISK_ON", "RISK_OFF", "NEUTRAL"}}
  \cup {[s EXCEPT !.regime.mode = "DEFENSIVE"], [s EXCEPT !.regime.confidence = 59], [s EXCEPT !.regime.present = FALSE]}
  \cup UNION {{[s EXCEPT !.signals[t].age = x] : x \in {-1, 1, 2, 6, 33, 34, 194}} : t \in Tfs}
  \cup UNION {{[s EXCEPT !.signals[t].adjusted = x] : x \in {"AVOID", "WATCH"}} : t \in Tfs}
  \cup {[s EXCEPT !.signals[t].status = "AVOID"] : t \in Tfs}
  \cup {[s EXCEPT !.signals[t].direction = "NEUTRAL"] : t \in Tfs}
  \cup {[s EXCEPT !.signals[t].risk = "HIGH"] : t \in Tfs}
  \cup {[s EXCEPT !.signals[t].score = 69] : t \in Tfs}
  \cup {[s EXCEPT !.signals[t].present = FALSE] : t \in Tfs}
  \cup UNION {{[s EXCEPT !.quality[t].age = x] : x \in {-1, 8, 9}} : t \in Tfs}
  \cup {[s EXCEPT !.quality[t].errors = 1] : t \in Tfs} \cup {[s EXCEPT !.quality[t].gaps = 1] : t \in Tfs}
  \cup {[s EXCEPT !.quality[t].count = 4] : t \in Tfs} \cup {[s EXCEPT !.quality[t].present = FALSE] : t \in Tfs}
  \* all candles later or earlier, one missing, a gap, and single candles
  \cup {[s EXCEPT !.series[t] = [i \in 1..5 |-> [@[i] EXCEPT !.open = @ + d, !.close = @ + d]]] :
          t \in Tfs, d \in {-2, 1, 6, 7, 8, 33}}
  \cup {[s EXCEPT !.series[t] = Tail(@)] : t \in Tfs}
  \cup {[s EXCEPT !.series[t] = <<[@[1] EXCEPT !.open = @ + 4, !.close = @ + 4]>> \o Tail(@)] : t \in Tfs}
  \cup {[s EXCEPT !.series[t][5].source = "UNKNOWN"] : t \in Tfs}
  \cup {[s EXCEPT !.series[t][i].volume = v] : t \in Tfs, i \in {4, 5}, v \in {-1, 0, 14, 40}}
  \cup {[s EXCEPT !.series[t][i].high = @ + v] : t \in Tfs, i \in {4, 5}, v \in {-2000, 2000, 9000}}
  \cup {[s EXCEPT !.series[t][i].low = @ + v] : t \in Tfs, i \in {4, 5}, v \in {-2000, 2000, -9000}}
StrategyInputs ==
  UNION {Sound(k, w) : k \in {2, 20, 60, 100}, w \in {0, 50, 150, 400, 1500}}
  \cup UNION {Flawed(s) : s \in Sound(60, 50) \cup Sound(20, 150)}
  \cup {[s EXCEPT !.tick = x] : s \in UNION {Sound(k, w) : k \in {20, 60, 100}, w \in {50, 150, 400}}, x \in {7, 130, 900, 2500}}

(* The strategy engine, and the risk engine that sees its candidates, at    *)
(* Scale 10000: RISK_LIMIT_SET_V1 and a fee of 10 bp.                      *)

FewPeriods == [minimum |-> 5, gapFree |-> 5, fast |-> 2, medium |-> 3, slow |-> 5, lookback |-> 3,
               rsi |-> 3, volume |-> 3, atr |-> 3]
Proposed(spread, slippage) ==
  [LongCase EXCEPT !.direction = IF IsShort(input) THEN "SHORT" ELSE "LONG", !.entry = decision.plan.entry,
               !.stop = decision.plan.stop, !.target = decision.plan.target, !.tick = input.tick,
               !.spreadBps = spread, !.slippageBps = slippage, !.equity = 200000, !.cash = 200000]
NextRisk == INSTANCE RiskEngine WITH Scale <- 10000, Snapshots <- {LongCase},
              Limits <- [RiskLimits EXCEPT !.minRewardRisk = 20000]

(* Reconciliation: module Reconciliation itself; one asset is entered,     *)
(* watched and left in up to two parts, another one entered meanwhile.     *)

BookingJobs == {[kind |-> "fill", asset |-> "btc"], [kind |-> "monitor", asset |-> "btc"],
                [kind |-> "fill", asset |-> "eth"], [kind |-> "day", asset |-> "btc"]}
CandlesPerAsset == [a \in Assets |-> IF a = "btc" THEN 3 ELSE 1]

(* The trading API: module TradingApi itself, two commands at a time, of   *)
(* four kinds.                                                             *)

----------------------------------------------------------------------------
(* Shared variables.  A component of this part has the variables v1 .. v10 *)
(* to itself while it is the chosen one; what it does not use stays 0.     *)

Replay == INSTANCE ShadowReplay WITH mode <- v1, hour <- v2, phase <- v3, balance <- v4, order <- v5, position <- v6,
            closed <- v7, dayStart <- v8, killedAt <- v9, releasedAt <- v10, Quantities <- {1, 2},
            ReservePerUnit <- 4, FeePerUnit <- 1, FillPrices <- {1, 5}, StartingCash <- 12, MaxLosses <- 1,
            MaxDayLoss <- 7, ReviewHours <- 2, HoursPerDay <- 3, MaxHour <- 6

(* Eligibility: a situation in which trading may start, what differs from   *)
(* it in one or two fields, and what two flags and an assignment make of it *)

Assigned(asset, portfolio, strategy, version) ==
  [asset |-> asset, portfolio |-> portfolio, strategy |-> strategy, version |-> version]
Order(asset, direction, reserved, position) ==
  [asset |-> asset, direction |-> direction, reserved |-> reserved, position |-> position]
Holding(id, asset, direction, collateral) ==
  [id |-> id, asset |-> asset, direction |-> direction, collateral |-> collateral, exitPlan |-> TRUE]
Env == [live |-> "unset", shadow |-> "true", mode |-> "SHADOW", strategy |-> "true", risk |-> "false",
        long |-> "true", short |-> "true", shadowShort |-> "true", outbox |-> "true", delivery |-> "unset"]
Envs == {Env} \cup {[Env EXCEPT ![flag] = value] : flag \in DOMAIN Env \ {"mode"}, value \in {"unset", "true", "false", "other"}}
          \cup {[Env EXCEPT !.mode = mode] : mode \in {"DISABLED", "other"}}
ProfileRow(version, values) == [version |-> version, values |-> values]
Eligible == [env |-> Env, readable |-> TRUE, portfolio |-> "ACTIVE", reconciled |-> "fresh", ledgerComplete |-> TRUE,
  dayOpened |-> TRUE, session |-> "STOPPED", killSwitch |-> FALSE, heartbeat |-> "fresh", sessionReconciled |-> "fresh",
  criticalEvents |-> 0, assignments |-> {Assigned("BTC", "own", "LONG", "current")}, codeVersion |-> TRUE,
  profile |-> [asset \in {"BTC", "ETH", "XAU"} |-> {ProfileRow(2, "approved")}], data |-> [asset \in {"BTC", "ETH", "XAU"} |-> {}], regimeFresh |-> TRUE,
  monitoringBroken |-> FALSE, orders |-> {}, positions |-> {}, reservedCash |-> 0, limitSets |-> {"pinned"},
  deadAlerts |-> 0, expiredClaims |-> 0]
Differences == [env |-> Envs, readable |-> {FALSE}, portfolio |-> {"none", "DRAFT", "ERROR_LOCKED"},
  reconciled |-> {"stale", "never"}, ledgerComplete |-> {FALSE}, dayOpened |-> {FALSE}, session |-> {"none", "ERROR_LOCKED"},
  killSwitch |-> {TRUE}, heartbeat |-> {"never", "stale"}, sessionReconciled |-> {"never", "stale"}, criticalEvents |-> {1},
  assignments |-> {{}} \cup {{Assigned("BTC", "own", strategy, version)} :
                                strategy \in {"LEGACY_LONG", "SHORT", "EQUITY"}, version \in {"current", "other"}}
                     \cup {{Assigned("BTC", "own", "LONG", "current"), a} :
                              a \in {Assigned("ETH", "own", "SHORT", "current"), Assigned("ETH", "other", "LONG", "current"),
                                    Assigned("XAU", "own", "LONG", "current"), Assigned("BTC", "foreign", "LONG", "current")}},
  codeVersion |-> {FALSE},
  profile |-> {[asset \in {"BTC", "ETH", "XAU"} |-> IF asset = "ETH" THEN {} ELSE {ProfileRow(2, "approved")}]}
              \cup {[asset \in {"BTC", "ETH", "XAU"} |-> held] :
                      held \in {{ProfileRow(1, "bootstrap")}, {ProfileRow(2, "other")}, {ProfileRow(1, "bootstrap"), ProfileRow(2, "approved")}}},
  data |-> {[asset \in {"BTC", "ETH", "XAU"} |-> IF asset = "ETH" THEN {"CANDLE_GAPS"} ELSE {}]}, regimeFresh |-> {FALSE},
  monitoringBroken |-> {TRUE},
  orders |-> {{Order("BTC", "LONG", 2, "p")}, {Order("BTC", "SHORT", 2, "q")},
              {Order("BTC", "LONG", 2, "p"), Order("BTC", "LONG", 3, "q")}},
  positions |-> {{Holding("p", "BTC", "LONG", 0)}, {Holding("p", "BTC", "SHORT", 2)}},
  reservedCash |-> {2}, limitSets |-> {{}, {"deviating"}, {"pinned", "deviating"}, {"pinned", "other"}},
  deadAlerts |-> {1}, expiredClaims |-> {1}]
Differing(s) == UNION {{[s EXCEPT ![f] = v] : v \in Differences[f]} : f \in DOMAIN s}
Eligibility == INSTANCE ShadowEligibility WITH reportStage <- v1, situation <- v2, report <- v3,
                 Situations <- {Eligible} \cup Differing(Eligible) \cup UNION {Differing(s) : s \in Differing(Eligible)}

SharedInit ==
  CASE On("Replay") -> Replay!ReplayInit
    [] On("Eligibility") -> Eligibility!EligibilityInit /\ Unused({4, 5, 6, 7, 8, 9, 10})
    [] service \in ResearchServices -> ResearchInit
    [] OTHER -> Unused(1..10)
SharedNext ==
  \/ On("Replay") /\ Replay!ReplayNext
  \/ On("Eligibility") /\ Eligibility!EligibilityNext /\ UNCHANGED <<v4, v5, v6, v7, v8, v9, v10>>
  \/ ResearchNext

----------------------------------------------------------------------------

Rest(s) ==
  /\ s = "Shared" \/ On(s)
  /\ UNCHANGED service
  /\ ~On("Scan") =>
       UNCHANGED <<now, stored, data, occupied, cands, refused, skipped, conflicts, cursor, scans, handRuns, scanDeaths>>
  /\ ~On("Ranking") => UNCHANGED arenaVars
  /\ ~On("Risk") => UNCHANGED riskVars
  /\ ~On("Scheduler") => UNCHANGED <<process, flags, inFlight, botRuns, switches>>
  /\ ~On("Strategy") => UNCHANGED <<evalStage, input, decision>>
  /\ ~On("Books") => UNCHANGED booksVars
  /\ s # "Shared" => UNCHANGED shared
  /\ ~On("Api") => UNCHANGED <<rows, audits, requests, jobRuns, commits, lost>>

\* A component that is not the chosen one starts in one of its initial states and stays
\* there; the shared variables are then 0.
Init ==
  /\ service \in Services
  /\ ScanInit /\ (~On("Scan") => ~occupied)
  /\ ArenaInit /\ (~On("Ranking") => status = NewCohort.status)
  /\ RiskInit /\ StrategyInit /\ BooksInit /\ ApiInit /\ SchedulerInit
  /\ SharedInit

Next ==
  \/ Rest("Scan") /\ ScanNext
  \/ Rest("Ranking") /\ ArenaNext
  \/ Rest("Risk") /\ RiskNext
  \/ Rest("Strategy") /\ StrategyNext
  \/ Rest("Books") /\ BooksNext
  \/ Rest("Api") /\ ApiNext
  \/ Rest("Scheduler") /\ SchedulerNext
  \/ Rest("Shared") /\ SharedNext

vars == <<service, scanVars, arenaVars, riskVars, strategyVars, booksVars,
          apiVars, schedulerVars, shared>>

Spec == Init /\ [][Next]_vars

----------------------------------------------------------------------------
(* Properties: those of the components, stated in their modules.           *)

TypeOK ==
  CASE On("Scan") -> ScanTypeOK [] On("Ranking") -> ArenaTypeOK
    [] On("Risk") -> RiskTypeOK [] On("Strategy") -> StrategyTypeOK
    [] On("Books") -> BooksTypeOK [] On("Api") -> ApiTypeOK [] On("Replay") -> Replay!ReplayTypeOK
    [] On("Eligibility") -> Eligibility!EligibilityTypeOK
    [] On("Scheduler") -> SchedulerTypeOK [] OTHER -> ResearchTypeOK

\* The price plan of a candidate passes the risk engine's rule on stops (R-007) when it
\* is aligned to the instrument's ticks; one of CRYPTO_TREND_CORE_LONG_V1 on an instrument
\* of fine ticks also passes the rule on the net reward (R-008).  Under the costs of the
\* calibrated profile and of the bootstrap profile, in basis points.
PlansPassRiskRules ==
  IsCandidate /\ Rules(input).aligned =>
    \A cost \in {<<2, 3>>, <<10, 10>>} :
      LET proposed == Proposed(cost[1], cost[2])
          sizing == NextRisk!Sizing(proposed) IN
      /\ NextRisk!StopRequired(proposed, sizing) = NextRisk!Pass
      /\ input.key = "CRYPTO_TREND_CORE_LONG_V1" /\ input.tick < 10 =>
           NextRisk!MinRewardRisk(proposed, sizing) = NextRisk!Pass

\* What is kept and told stands: the result of a paper evaluation, the candles a finished
\* backfill promises and the cause of every hole in a series, what users and policy say
\* of the assets that are watched, what a decimal, a key and a hash promise, the numbers
\* of a performance snapshot, the judgements of watch, retention and restart check, and
\* an eligibility report that is READY.  Over a whole replay the books stay sound, no
\* run of losses gets longer than the limit, and an order fills after its decision; a
\* participant of the arena moves along its table of transitions.
RecordsStand ==
  /\ [](/\ On("Paper") => Paper!ResultsStand /\ Paper!SidesAreMirrored
        /\ On("History") => Ingestion!HistoryIsComplete /\ Ingestion!HolesAreExplained /\ Ingestion!AuditRepairs
        /\ On("Universe") => /\ Universe!RolesAgree /\ Universe!PreferencesHold /\ Universe!WithinLimits
                            /\ Universe!CooldownsHold /\ Universe!SelectionsAreSound
        /\ On("Values") => /\ Values!RoundingIsDirected /\ Values!DecimalsRoundTrip
                          /\ Values!KeysIdentify /\ Values!HashesTellApart
        /\ On("Performance") => /\ Performance!SegmentsAddUp /\ Performance!DrawdownIsWorstFall
                               /\ Performance!RowsMatchTheirInput /\ Performance!SuccessIsComplete
                               /\ Performance!ForwardIsForward
        /\ On("Operations") => /\ Operations!QuietOnlyWhenTold /\ Operations!StalledJobsAreReported
                              /\ Operations!RetentionKeepsEvidence /\ Operations!RecentRunsStay /\ Operations!SoundVerdicts
        /\ On("Eligibility") => Eligibility!ReadyMayActivate /\ Eligibility!ReadyMeansItRuns
        /\ On("Replay") => Replay!LossRunIsBounded /\ Replay!ReplayBooksHold)
  /\ [][/\ On("Replay") => Replay!FillsAfterDecisionStep
        /\ On("Ranking") => MovesFollowTable]_vars

=============================================================================
