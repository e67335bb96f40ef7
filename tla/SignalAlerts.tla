---------------------------- MODULE SignalAlerts ----------------------------
(***************************************************************************)
(* The alerts of one asset's signals on one timeframe                       *)
(* (apps/worker/src/jobs/analyzeCryptoSignals.ts, analyzeEquitySignals.ts   *)
(* and dispatchAlertToN8n of packages/alerts).  An analyser stores a signal *)
(* on every run, asks the gates, compares the signal with the alert state   *)
(* of the last alert sent, posts it to n8n, marks the Alert row and only    *)
(* then writes the alert state.  Nothing keeps two analysers apart: the     *)
(* scheduler runs one, an operator may start another.  A call may fail and  *)
(* a process may die between any two of them.                              *)
(***************************************************************************)
EXTENDS AlertRules

CONSTANTS
  Analyzers,        \* processes that run the analysis
  Statuses,         \* statuses of a signal that may be told
  Situations,       \* what an analysis may find: a decision and the candles it is made from
  Items,            \* watchlist items of the asset
  Settings,         \* [class, mode, alerts]: the asset's class, ALERT_MODE and ENABLE_EQUITY_ALERTS
  MinimumCandles, MaxCandleAge, Lookback,
  Improvement,      \* ALERT_SCORE_IMPROVEMENT_THRESHOLD
  MaxAttempts,      \* posts of one alert
  MaxAnalyses,      \* bound: signals stored
  MaxFaults         \* bound: calls that fail or processes that die after a post, analysers that overlap

VARIABLES
  settings,    \* the asset is of a class, "crypto" or "equity", and so analysed by one of the two jobs
  item,        \* the asset's watchlist item, which its owner may change
  states,      \* AlertState: per status what was last told with it, and when (a rank)
  runs,        \* per analyser where it is
  told,        \* what was last posted with success
  repeats,     \* posts that told nothing new
  faults,      \* see MaxFaults
  analyses

vars == <<settings, item, states, runs, told, repeats, faults, analyses>>

Idle == [at |-> "off", item |-> NoItem, found |-> {}, attempt |-> 0]

Init ==
  /\ settings \in Settings
  /\ item \in Items
  /\ states = [s \in Statuses |-> {}]
  /\ runs = [r \in Analyzers |-> Idle]
  /\ told = {}
  /\ repeats = 0 /\ faults = 0 /\ analyses = 0

Go(r, changes) == runs' = [runs EXCEPT ![r] = changes]
GoOn(r) == [runs[r] EXCEPT !.at = "next", !.found = {}, !.attempt = 0]   \* to the next asset and timeframe
Found(r) == CHOOSE situation \in runs[r].found : TRUE                  \* the situation the run is at
Fault == faults < MaxFaults /\ faults' = faults + 1

----------------------------------------------------------------------------
(* One run                                                                 *)

(* The BotRun row is written, the assets are read with their watchlist      *)
(* items: the run keeps the item it read here.                             *)
Start(r) ==
  /\ runs[r].at = "off"
  /\ Go(r, [Idle EXCEPT !.at = "next", !.item = item])
  /\ UNCHANGED <<settings, item, states, told, repeats, faults, analyses>>

StartCrypto(r) == settings.class = "crypto" /\ Start(r)
StartEquity(r) == settings.class = "equity" /\ Start(r)

(* Candles that are too few or too old are skipped, as is an analysis that  *)
(* throws; else the decision is scored and stored as a new Signal, however  *)
(* often the same was stored before.                                       *)
Analyze(r, situation) ==
  /\ runs[r].at = "next" /\ analyses < MaxAnalyses
  /\ analyses' = analyses + 1
  /\ IF SeriesReason(situation.series, MinimumCandles, MaxCandleAge) = "OK"
     THEN Go(r, [runs[r] EXCEPT !.at = "stored", !.found = {situation}]) \/ UNCHANGED runs
     ELSE UNCHANGED runs
  /\ UNCHANGED <<settings, item, states, told, repeats, faults>>

(* Crypto signals are seen without news; the equity job reads news and      *)
(* events of the asset first, and does without them when that fails.       *)
AnalyzeCrypto(r, situation) ==
  settings.class = "crypto" /\ Analyze(r, [situation EXCEPT !.signal.context = {}])
AnalyzeEquity(r, situation, loaded) ==
  /\ settings.class = "equity"
  /\ Analyze(r, IF loaded THEN situation ELSE [situation EXCEPT !.signal.context = {}])

(* The BotRun row ends SUCCESS, or FAILED when an analysis threw; nothing    *)
(* reads it.                                                               *)
Finish(r) ==
  /\ runs[r].at = "next"
  /\ Go(r, Idle)
  /\ UNCHANGED <<settings, item, states, told, repeats, faults, analyses>>

FinishCrypto(r) == settings.class = "crypto" /\ Finish(r)
FinishEquity(r) == settings.class = "equity" /\ Finish(r)

----------------------------------------------------------------------------
(* From the stored signal to the alert                                     *)

(* The newest alert state of the asset, timeframe and signal type, whatever *)
(* its status; the timeframes and the context come from its signal's output. *)
Written == UNION {states[s] : s \in Statuses}
Latest == {row.signal : row \in {row \in Written : \A other \in Written : other.rank <= row.rank}}

(* Another analyser is between its own look at the alert state and the      *)
(* writing of it: neither sees what the other tells.                       *)
Overlaps(r) == \E other \in Analyzers \ {r} : runs[other].at \in {"posting", "posted", "recording"}

Passes(r) ==
  LET signal == Found(r).signal IN
  /\ SignalGate(signal, QualityContext(signal, Found(r).series, Lookback, TRUE))
  /\ Routed(runs[r].item, settings.mode)
  /\ WorthRepeating(signal, Latest, Improvement)

Compare(r) ==
  /\ IF Passes(r)
     THEN /\ Go(r, [runs[r] EXCEPT !.at = "posting", !.attempt = 1])
          /\ IF Overlaps(r) THEN Fault ELSE UNCHANGED faults
     ELSE Go(r, GoOn(r)) /\ UNCHANGED faults
  /\ UNCHANGED <<settings, item, states, told, repeats, analyses>>

CompareCrypto(r) == settings.class = "crypto" /\ runs[r].at = "stored" /\ Compare(r)
CompareEquity(r) ==
  /\ settings.class = "equity" /\ runs[r].at = "stored"
  /\ IF settings.alerts THEN Compare(r)
     ELSE Go(r, GoOn(r)) /\ UNCHANGED <<settings, item, states, told, repeats, faults, analyses>>

----------------------------------------------------------------------------
(* The dispatch: up to MaxAttempts posts, the Alert row SENT or FAILED      *)

(* What a reader of the alerts would call news: nothing was told, or it     *)
(* differs from what was told last as the alerts promise.                  *)
IsNews(signal) ==
  \A t \in told :
    \/ signal.score >= t.score + 8
    \/ signal.status = "STRONG_WATCH" /\ t.status # "STRONG_WATCH"
    \/ signal.direction # t.direction
    \/ signal.timeframes \ t.timeframes # {}
    \/ signal.context \notin {{}, t.context}

(* An attempt that does not end in a marked row is followed by the next;    *)
(* after the last the row is FAILED and the alert state stays.             *)
Again(r) ==
  IF runs[r].attempt < MaxAttempts
  THEN [runs[r] EXCEPT !.at = "posting", !.attempt = @ + 1]
  ELSE GoOn(r)

PostSucceeds(r) ==
  /\ runs[r].at = "posting"
  /\ told' = {Found(r).signal}
  /\ repeats' = IF IsNews(Found(r).signal) THEN repeats ELSE repeats + 1
  /\ Go(r, [runs[r] EXCEPT !.at = "posted"])
  /\ UNCHANGED <<settings, item, states, faults, analyses>>

PostFails(r) ==
  /\ runs[r].at = "posting"
  /\ Go(r, Again(r))
  /\ UNCHANGED <<settings, item, states, told, repeats, faults, analyses>>

MarkSent(r) ==
  /\ runs[r].at = "posted"
  /\ Go(r, [runs[r] EXCEPT !.at = "recording"])
  /\ UNCHANGED <<settings, item, states, told, repeats, faults, analyses>>

(* Marking the row or its log entry fails inside the same try as the post:  *)
(* what was delivered is posted again.                                     *)
MarkFails(r) ==
  /\ runs[r].at = "posted" /\ Fault
  /\ Go(r, Again(r))
  /\ UNCHANGED <<settings, item, states, told, repeats, analyses>>

----------------------------------------------------------------------------
(* The alert state                                                         *)

NextRank == Max({0} \cup {row.rank : row \in Written}) + 1

RecordKeepsDirection(signal) ==
  LET before == {row.signal.direction : row \in states[signal.status]} IN
  states' = [states EXCEPT ![signal.status] =
               {[signal |-> [signal EXCEPT !.direction = CHOOSE d \in before \cup {@} : before = {} \/ d \in before],
                 rank |-> NextRank]}]

(* upsertAlertStateAfterSend: one row per status, everything of it written. *)
RecordState(signal) == states' = [states EXCEPT ![signal.status] = {[signal |-> signal, rank |-> NextRank]}]

(* Another analyser's alert may have come since this one was posted: then   *)
(* the state written last is not what was told last.                       *)
Record(r) ==
  /\ runs[r].at = "recording"
  /\ RecordState(Found(r).signal)
  /\ IF told = {Found(r).signal} THEN UNCHANGED faults ELSE Fault
  /\ Go(r, GoOn(r))
  /\ UNCHANGED <<settings, item, told, repeats, analyses>>

RecordCrypto(r) == settings.class = "crypto" /\ Record(r)
RecordEquity(r) == settings.class = "equity" /\ Record(r)

RecordFails(r) ==
  /\ runs[r].at = "recording" /\ Fault
  /\ Go(r, GoOn(r))
  /\ UNCHANGED <<settings, item, states, told, repeats, analyses>>

(* The process dies; the row of the run stays RUNNING and that of the alert *)
(* PENDING, and nobody looks for either.                                   *)
Die(r) ==
  /\ runs[r].at # "off"
  /\ IF runs[r].at \in {"posted", "recording"} THEN Fault ELSE UNCHANGED faults
  /\ Go(r, Idle)
  /\ UNCHANGED <<settings, item, states, told, repeats, analyses>>

ChangeItem ==
  /\ item' \in Items \ {item}
  /\ UNCHANGED <<settings, states, runs, told, repeats, faults, analyses>>

Next ==
  \/ ChangeItem
  \/ \E r \in Analyzers :
       \/ StartCrypto(r) \/ StartEquity(r) \/ FinishCrypto(r) \/ FinishEquity(r)
       \/ \E s \in Situations : AnalyzeCrypto(r, s) \/ \E loaded \in BOOLEAN : AnalyzeEquity(r, s, loaded)
       \/ CompareCrypto(r) \/ CompareEquity(r)
       \/ PostSucceeds(r) \/ PostFails(r) \/ MarkSent(r) \/ MarkFails(r)
       \/ RecordCrypto(r) \/ RecordEquity(r) \/ RecordFails(r) \/ Die(r)

Spec == Init /\ [][Next]_vars

----------------------------------------------------------------------------
TypeOK ==
  /\ \A r \in Analyzers : /\ runs[r].at \in {"off", "next", "stored", "posting", "posted", "recording"}
                          /\ runs[r].attempt \in 0..MaxAttempts
  /\ \A s \in Statuses : \A row \in states[s] : row.signal.status = s
  /\ faults \in 0..MaxFaults /\ analyses \in 0..MaxAnalyses

(* Whoever was told of a signal is told again only of something new: a      *)
(* better score, a stronger status, the other direction, one more timeframe *)
(* or other news (shouldSendAfterCooldown).  Every exception has a fault of *)
(* its own: a call that failed after the delivery, a process that died, or  *)
(* another analyser in between.                                            *)
RepeatsNeedAFault == repeats <= faults

=============================================================================
