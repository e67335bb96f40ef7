--------------------------- MODULE CandleHistory ---------------------------
(***************************************************************************)
(* How one series of candles is filled: the backfill of its history         *)
(* (apps/worker/src/jobs/backfillCandleHistory.ts), page by page and        *)
(* resumed where it failed or died; the incremental fetch of what is new    *)
(* (fetchCryptoCandles.ts, fetchEquityCandles.ts); and the audit that looks *)
(* for gaps and asks for them again (auditCandleGaps.ts).  They share the   *)
(* candles and one row of data quality, and nothing keeps them apart.       *)
(*                                                                         *)
(* The candle of time t opens at t and is closed at t + 1.                 *)
(***************************************************************************)
EXTENDS Integers, FiniteSetsExt

CONSTANTS
  Backfills,       \* runs of the backfill: scheduled, by hand, of an activation
  Series,          \* [provider, intraday, exists]: whose candles, of which times it has one
  Weekend, PerDay, \* days without a session; candles per day
  Lookback, PageSize, WindowSize,    \* of the backfill
  FetchLimit, FetchDays,             \* of the incremental fetch
  AuditWindow, RepairLimit, MaxRepairs, MaxAttempts,
  Start, MaxTime, MaxTrouble         \* bounds: the clock, what fails or dies

VARIABLES
  series, now,
  stored,          \* the times whose candle is stored
  quality,         \* the row of CandleDataQuality
  backfill, fetch, audit,   \* where each run is
  trouble,         \* calls that failed and processes that died
  jumped           \* a fetch that found nothing stored ran beside an unfinished backfill

historyVars == <<series, now, stored, quality, backfill, fetch, audit, trouble, jumped>>

Idle == [at |-> "off", now |-> 0, start |-> 0, end |-> 0, cursor |-> 0, attempt |-> 1]
NoFetch == [at |-> "off", now |-> 0, page |-> {}, attempt |-> 1]
NoAudit == [at |-> "off", now |-> 0, todo |-> {}, found |-> {}, attempted |-> 0, attempt |-> 1, failed |-> FALSE]

Binance == series.provider = "BINANCE"
Oldest(S, n) == {t \in S : Cardinality({u \in S : u < t}) < n}
Newest(S, n) == {t \in S : Cardinality({u \in S : u > t}) < n}

\* What a provider has between two times, open candles included.
Offered(from, to) == {t \in series.exists : from <= t /\ t <= to}
ClosedAt(S, time) == {t \in S : t + 1 <= time}

----------------------------------------------------------------------------
(* Gaps: only between stored candles.  Of a market with sessions a candle   *)
(* is expected on weekdays, an intraday one only between two of its day.    *)

Day(t) == t \div PerDay
Expected(t, S) ==
  \/ Binance
  \/ /\ Day(t) \notin Weekend
     /\ series.intraday => Day(Max({u \in S : u < t})) = Day(t) /\ Day(Min({u \in S : u > t})) = Day(t)
Missing(S) ==
  IF S = {} THEN {} ELSE {t \in Min(S)..Max(S) : t \notin S /\ Expected(t, S)}
Gaps(S) ==
  LET missing == Missing(S) IN
  {gap \in [from : missing, to : missing] :
     /\ gap.from <= gap.to /\ gap.from..gap.to \subseteq missing
     /\ gap.from - 1 \notin missing /\ gap.to + 1 \notin missing}

(* refreshCandleDataQuality counts the gaps of the newest candles only.      *)
Audited(row, candles, time) ==
  [row EXCEPT !.gaps = Cardinality(Gaps(Newest(ClosedAt(candles, time), AuditWindow + 1)))]

(* recordProviderOutcome                                                   *)
Outcome(row, kind) == [row EXCEPT !.error = IF kind = "SUCCESS" THEN "none" ELSE IF kind = "NO_DATA" THEN @ ELSE kind]
Retryable(kind) == kind \in {"RATE_LIMIT", "TEMPORARY"}

Fails == trouble < MaxTrouble /\ trouble' = trouble + 1

----------------------------------------------------------------------------
(* The backfill                                                            *)

(* loadResumeState: an unfinished range is taken up where it was left, with *)
(* the end it had; a finished one that reaches far enough back is done.     *)
Unfinished == quality.status \in {"RUNNING", "FAILED"}
Desired == Max({0, now - Lookback})
Completed == quality.status = "SUCCESS" /\ quality.start <= Desired

StartBackfill(b) ==
  /\ backfill[b].at = "off" /\ ~Completed
  /\ backfill' = [backfill EXCEPT ![b] =
       IF Unfinished THEN [Idle EXCEPT !.at = "page", !.now = now, !.start = quality.start, !.end = quality.end, !.cursor = quality.cursor]
       ELSE [Idle EXCEPT !.at = "page", !.now = now, !.start = Desired, !.end = now, !.cursor = Desired]]
  /\ UNCHANGED <<series, now, stored, quality, fetch, audit, trouble, jumped>>

(* What is asked for next: of Binance a page from the cursor on, the cursor   *)
(* moving behind its last candle; of Finnhub a window, however much it holds. *)
WindowEnd(run) == Min({run.end, run.cursor + WindowSize})
BinancePage(run) == Oldest(Offered(run.cursor, run.end), PageSize)
FinnhubWindow(run) == Offered(run.cursor, WindowEnd(run))
Page(run) == IF Binance THEN BinancePage(run) ELSE FinnhubWindow(run)

Progress(run, cursor, status) ==
  [quality EXCEPT !.status = status, !.start = run.start, !.end = run.end, !.cursor = cursor]

(* The loop asks for a page while the cursor is within the range.            *)
Asking(run) == run.at = "page" /\ run.cursor <= run.end

(* A page is stored first, then the cursor moves.  What was not closed when  *)
(* the run started is left out.                                            *)
SaveBinancePage(b) ==
  LET run == backfill[b] IN
  /\ Binance /\ Asking(run) /\ BinancePage(run) # {}
  /\ stored' = stored \cup ClosedAt(BinancePage(run), run.now)
  /\ quality' = Outcome(quality, "SUCCESS")
  /\ backfill' = [backfill EXCEPT ![b].at = "mark", ![b].attempt = 1]
  /\ UNCHANGED <<series, now, fetch, audit, trouble, jumped>>
SaveFinnhubWindow(b) ==
  LET run == backfill[b] IN
  /\ ~Binance /\ Asking(run)
  /\ stored' = stored \cup ClosedAt(FinnhubWindow(run), run.now)
  /\ quality' = Outcome(quality, IF FinnhubWindow(run) = {} THEN "NO_DATA" ELSE "SUCCESS")
  /\ backfill' = [backfill EXCEPT ![b].at = "mark", ![b].attempt = 1]
  /\ UNCHANGED <<series, now, fetch, audit, trouble, jumped>>

MarkProgress(b, next, at) ==
  /\ backfill[b].at = "mark"
  /\ quality' = Progress(backfill[b], next, "RUNNING")
  /\ backfill' = [backfill EXCEPT ![b].cursor = next, ![b].at = at]
  /\ UNCHANGED <<series, now, stored, fetch, audit, trouble, jumped>>
MarkBinancePage(b) ==
  LET page == BinancePage(backfill[b]) IN
  Binance /\ MarkProgress(b, Max(page) + 1, IF Cardinality(page) < PageSize THEN "last" ELSE "page")
MarkFinnhubWindow(b) == ~Binance /\ MarkProgress(b, WindowEnd(backfill[b]) + 1, "page")

FinishSeries(b) ==
  LET run == backfill[b] IN
  /\ quality' = Audited(Progress(run, run.end, "SUCCESS"), stored, run.now)
  /\ backfill' = [backfill EXCEPT ![b] = Idle]
  /\ UNCHANGED <<series, now, stored, fetch, audit, trouble, jumped>>
FinishBinanceSeries(b) ==
  LET run == backfill[b] IN
  /\ Binance
  /\ \/ run.at = "last"
     \/ run.at = "page" /\ (run.cursor > run.end \/ BinancePage(run) = {})
  /\ FinishSeries(b)
FinishFinnhubSeries(b) ==
  ~Binance /\ backfill[b].at = "page" /\ backfill[b].cursor > backfill[b].end /\ FinishSeries(b)

(* retryProviderRequest asks again only for what may pass, so many times; of *)
(* the limit it ran into it leaves a trace.                                  *)
Retried(kind) == quality' = IF kind = "RATE_LIMIT" THEN Outcome(quality, kind) ELSE quality
MayRetry(kind, attempt) == Retryable(kind) /\ attempt < MaxAttempts
GivesUp(kind, attempt) == Retryable(kind) => attempt = MaxAttempts

RetryPage(b, kind) ==
  /\ Asking(backfill[b]) /\ MayRetry(kind, backfill[b].attempt)
  /\ Fails /\ Retried(kind)
  /\ backfill' = [backfill EXCEPT ![b].attempt = @ + 1]
  /\ UNCHANGED <<series, now, stored, fetch, audit, jumped>>

(* A page that is not to be had, or a write that fails, ends the series; an  *)
(* error that is not the provider's counts as a temporary one.               *)
FailSeries(b, kind) ==
  /\ Fails
  /\ quality' = Outcome(Progress(backfill[b], backfill[b].cursor, "FAILED"), kind)
  /\ backfill' = [backfill EXCEPT ![b] = Idle]
  /\ UNCHANGED <<series, now, stored, fetch, audit, jumped>>
PageFails(b, kind) == Asking(backfill[b]) /\ GivesUp(kind, backfill[b].attempt)
WriteFails(b, kind) == backfill[b].at # "off" /\ kind = "TEMPORARY"
FailBinanceSeries(b, kind) ==
  Binance /\ (PageFails(b, kind) \/ WriteFails(b, kind)) /\ FailSeries(b, kind)
StopFinnhubSeries(b, kind) == ~Binance /\ PageFails(b, kind) /\ FailSeries(b, kind)
FailFinnhubSeries(b, kind) == ~Binance /\ WriteFails(b, kind) /\ FailSeries(b, kind)

(* The process ends, perhaps with a part of the page stored.                *)
BackfillDies(b) ==
  LET run == backfill[b] IN
  /\ run.at # "off" /\ Fails
  /\ \E n \in 0..PageSize :
       /\ n > 0 => run.at = "page" /\ run.cursor <= run.end
       /\ stored' = stored \cup Oldest(ClosedAt(Page(run), run.now), n)
  /\ backfill' = [backfill EXCEPT ![b] = Idle]
  /\ UNCHANGED <<series, now, quality, fetch, audit, jumped>>

----------------------------------------------------------------------------
(* The incremental fetch: from a candle before the newest one on, the oldest *)
(* first; a series without candles starts with its newest.                   *)

CryptoRequest(known) ==
  IF known = {} THEN Newest(Offered(0, now), FetchLimit) ELSE Oldest(Offered(Max(known) - 1, now), FetchLimit)
IncrementalStart(known) == IF known = {} THEN now - FetchDays ELSE Max(known) + 1 - 2
EquityRequest(known) == Offered(IncrementalStart(known), now)

StartFetch(page) ==
  /\ fetch.at = "off"
  /\ fetch' = [at |-> "asking", now |-> now, page |-> page, attempt |-> 1]
  /\ jumped' = (jumped \/ (ClosedAt(stored, now) = {} /\ (Unfinished \/ \E b \in Backfills : backfill[b].at # "off")))
  /\ UNCHANGED <<series, now, stored, quality, backfill, audit, trouble>>
StartCryptoFetch == Binance /\ StartFetch(CryptoRequest(ClosedAt(stored, now)))
StartEquityFetch == ~Binance /\ StartFetch(EquityRequest(ClosedAt(stored, now)))

RetryFetch(kind) ==
  /\ fetch.at = "asking" /\ MayRetry(kind, fetch.attempt)
  /\ Fails /\ Retried(kind)
  /\ fetch' = [fetch EXCEPT !.attempt = @ + 1]
  /\ UNCHANGED <<series, now, stored, backfill, audit, jumped>>

(* Whatever came of it, the quality of the series is taken anew.             *)
EndFetch(kind) ==
  /\ fetch.at = "asking"
  /\ quality' = Audited(Outcome(quality, kind), stored', fetch.now)
  /\ fetch' = NoFetch
  /\ UNCHANGED <<series, now, backfill, audit, jumped>>
StoreFetched == stored' = stored \cup ClosedAt(fetch.page, fetch.now)
SaveCryptoCandles == Binance /\ StoreFetched /\ EndFetch("SUCCESS") /\ UNCHANGED trouble
HandleFetchResult ==
  /\ ~Binance /\ StoreFetched
  /\ EndFetch(IF fetch.page = {} THEN "NO_DATA" ELSE "SUCCESS") /\ UNCHANGED trouble
CryptoFetchFails(kind) ==
  Binance /\ GivesUp(kind, fetch.attempt) /\ Fails /\ UNCHANGED stored /\ EndFetch(kind)
EquityFetchFails(kind) ==
  ~Binance /\ GivesUp(kind, fetch.attempt) /\ Fails /\ UNCHANGED stored /\ EndFetch(kind)
FetchDies ==
  /\ fetch.at = "asking" /\ Fails
  /\ \E n \in 0..FetchLimit : stored' = stored \cup Oldest(ClosedAt(fetch.page, fetch.now), n)
  /\ fetch' = NoFetch
  /\ UNCHANGED <<series, now, quality, backfill, audit, jumped>>

----------------------------------------------------------------------------
(* The audit: the gaps of the whole series, repaired one by one, so many in  *)
(* a run; what the provider does not have is asked for in every run.         *)

StartAudit ==
  /\ audit.at = "off"
  /\ quality' = Audited(quality, stored, now)
  /\ audit' = [NoAudit EXCEPT !.at = "repairing", !.now = now, !.todo = Gaps(ClosedAt(stored, now)),
                              !.found = Missing(ClosedAt(stored, now))]
  /\ UNCHANGED <<series, now, stored, backfill, fetch, trouble, jumped>>

FirstGap == CHOOSE gap \in audit.todo : \A other \in audit.todo : gap.from <= other.from
Repairing == audit.at = "repairing" /\ audit.todo # {} /\ audit.attempted < MaxRepairs

(* A gap of Binance is asked for as one page, two candles longer than it is. *)
BinanceGap(gap) == Oldest(Offered(gap.from, gap.to), Min({RepairLimit, gap.to - gap.from + 3}))
FinnhubGap(gap) == Offered(gap.from, gap.to)

RepairGap(candles, kind) ==
  /\ Repairing
  /\ stored' = stored \cup ClosedAt(candles, audit.now)
  /\ quality' = Outcome(quality, kind)
  /\ audit' = [audit EXCEPT !.todo = @ \ {FirstGap}, !.attempted = @ + 1, !.attempt = 1]
  /\ UNCHANGED <<series, now, backfill, fetch, trouble, jumped>>
RepairBinanceGap == Binance /\ RepairGap(BinanceGap(FirstGap), "SUCCESS")
RepairFinnhubGap == ~Binance /\ RepairGap(FinnhubGap(FirstGap), IF FinnhubGap(FirstGap) = {} THEN "NO_DATA" ELSE "SUCCESS")
RetryRepair(kind) ==
  /\ Repairing /\ MayRetry(kind, audit.attempt)
  /\ Fails /\ Retried(kind)
  /\ audit' = [audit EXCEPT !.attempt = @ + 1]
  /\ UNCHANGED <<series, now, stored, backfill, fetch, jumped>>
RepairFails(kind) ==
  /\ Repairing /\ GivesUp(kind, audit.attempt) /\ Fails
  /\ quality' = Outcome(quality, kind)
  /\ audit' = [audit EXCEPT !.todo = @ \ {FirstGap}, !.attempted = @ + 1, !.attempt = 1, !.failed = TRUE]
  /\ UNCHANGED <<series, now, stored, backfill, fetch, jumped>>
BinanceRepairFails(kind) == Binance /\ RepairFails(kind)
FinnhubRepairFails(kind) == ~Binance /\ RepairFails(kind)
FinishAudit ==
  /\ audit.at = "repairing" /\ (audit.todo = {} \/ audit.attempted >= MaxRepairs)
  /\ quality' = Audited(quality, stored, audit.now)
  /\ audit' = NoAudit
  /\ UNCHANGED <<series, now, stored, backfill, fetch, trouble, jumped>>
AuditDies ==
  /\ audit.at # "off" /\ Fails
  /\ audit' = NoAudit
  /\ UNCHANGED <<series, now, stored, quality, backfill, fetch, jumped>>

----------------------------------------------------------------------------

Tick ==
  /\ now < MaxTime /\ now' = now + 1
  /\ UNCHANGED <<series, stored, quality, backfill, fetch, audit, trouble, jumped>>

FailureKinds == {"RATE_LIMIT", "TEMPORARY", "ENTITLEMENT"}

HistoryInit ==
  /\ series \in Series /\ now = Start /\ stored = {}
  /\ quality = [status |-> "none", start |-> 0, end |-> 0, cursor |-> 0, gaps |-> 0, error |-> "none"]
  /\ backfill = [b \in Backfills |-> Idle] /\ fetch = NoFetch /\ audit = NoAudit
  /\ trouble = 0 /\ jumped = FALSE

HistoryNext ==
  \/ Tick
  \/ \E b \in Backfills :
       \/ StartBackfill(b) \/ BackfillDies(b)
       \/ SaveBinancePage(b) \/ MarkBinancePage(b) \/ FinishBinanceSeries(b)
       \/ SaveFinnhubWindow(b) \/ MarkFinnhubWindow(b) \/ FinishFinnhubSeries(b)
       \/ \E kind \in FailureKinds :
            RetryPage(b, kind) \/ FailBinanceSeries(b, kind) \/ StopFinnhubSeries(b, kind) \/ FailFinnhubSeries(b, kind)
  \/ StartCryptoFetch \/ SaveCryptoCandles \/ StartEquityFetch \/ HandleFetchResult \/ FetchDies
  \/ StartAudit \/ RepairBinanceGap \/ RepairFinnhubGap \/ FinishAudit \/ AuditDies
  \/ \E kind \in FailureKinds :
       \/ RetryFetch(kind) \/ CryptoFetchFails(kind) \/ EquityFetchFails(kind)
       \/ RetryRepair(kind) \/ BinanceRepairFails(kind) \/ FinnhubRepairFails(kind)

HistorySpec == HistoryInit /\ [][HistoryNext]_historyVars

HistoryTypeOK ==
  /\ series \in Series /\ now \in Start..MaxTime /\ stored \subseteq series.exists
  /\ quality.status \in {"none", "RUNNING", "FAILED", "SUCCESS"} /\ quality.error \in FailureKinds \cup {"none"}
  /\ quality.start <= quality.end /\ quality.end <= now /\ quality.cursor <= quality.end + 1
  /\ \A b \in Backfills : backfill[b].at \in {"off", "page", "mark", "last"} /\ backfill[b].attempt \in 1..MaxAttempts
  /\ fetch.at \in {"off", "asking"} /\ audit.at \in {"off", "repairing"} /\ audit.attempted \in 0..MaxRepairs
  /\ fetch.attempt \in 1..MaxAttempts /\ audit.attempt \in 1..MaxAttempts
  /\ trouble \in 0..MaxTrouble /\ jumped \in BOOLEAN

----------------------------------------------------------------------------
(* Properties                                                              *)

\* A backfill that says SUCCESS has stored every candle of its range that the provider
\* has and that was closed at its end, whatever failed, died or ran beside it.
HistoryIsComplete ==
  quality.status = "SUCCESS" => ClosedAt(Offered(quality.start, quality.end), quality.end) \subseteq stored

\* Once the history is filled, a series has no hole in or after it that the provider
\* could close, unless a fetch that found nothing stored jumped ahead of a backfill that
\* was resumed with its old end.
HolesAreExplained ==
  quality.status = "SUCCESS" /\ ~jumped /\ stored # {} => Offered(quality.start, Max(stored)) \subseteq stored

\* What an audit found missing is stored when it has gone through all of it and nothing
\* failed, except what the provider does not have; a gap longer than one request takes
\* several runs.
AuditRepairs ==
  audit.at = "repairing" /\ audit.todo = {} /\ ~audit.failed /\ Cardinality(audit.found) <= RepairLimit =>
    audit.found \cap series.exists \subseteq stored

=============================================================================
