---------------------------- MODULE RadarSummary ----------------------------
(***************************************************************************)
(* The summary of the radar (apps/worker/src/jobs/radarSummary.ts): of what *)
(* radar, news and discovery stored within the lookback, the largest or the *)
(* newest of each list is posted, unless the run before posted after the    *)
(* newest of them was stored.  Times are stamps, all different: one for     *)
(* each event, or selection of candidates, and for each step of a run that  *)
(* reads the clock.                                                        *)
(***************************************************************************)
EXTENDS Integers, Sequences, FiniteSetsExt

CONSTANTS
  Kinds,           \* of events: radar events of each list, market events, discovery candidates
  BySize,          \* the kinds listed by magnitude or score, the others by time
  Sizes,
  SummarySettings, \* [enabled, webhook, minimum, lookback, discovery]
  PerKind,         \* rows of a kind a summary lists
  MaxEvents, MaxStamp, MaxSummaryFaults   \* bounds

VARIABLES
  settings,
  stamp,
  events,     \* [kind, at, size]
  hidden,     \* candidates of a selection that has not ended SUCCESS
  summary,    \* the run: to, startedAt, what it found
  lastRun,    \* the newest BotRun that ended SUCCESS: startedAt, webhookSent and the events in it
  offered,    \* the events the delivered summaries were made from, listed or passed over for larger ones
  misjudged,  \* runs that ended as told before although they list an event no summary was made from
  faults      \* events stored between the clock of a run and its row or shown later than a
              \* run began after them, and posts that were not noted

summaryVars == <<settings, stamp, events, hidden, summary, lastRun, offered, misjudged, faults>>

Resting == [at |-> "off", to |-> 0, startedAt |-> 0, found |-> {}]

SummaryInit ==
  /\ settings \in SummarySettings
  /\ stamp = 0 /\ events = {} /\ summary = Resting /\ lastRun = {}
  /\ hidden = {} /\ offered = {} /\ misjudged = 0 /\ faults = 0

Stamp == stamp < MaxStamp /\ stamp' = stamp + 1

Fault == faults < MaxSummaryFaults /\ faults' = faults + 1

StoreEvent(kind) ==
  /\ Stamp /\ kind # "DISCOVERY" /\ Cardinality(events \cup hidden) < MaxEvents
  /\ \E size \in (IF kind \in BySize THEN Sizes ELSE {0}) :
       events' = events \cup {[kind |-> kind, at |-> stamp', size |-> size]}
  /\ IF summary.at = "clock" THEN Fault ELSE UNCHANGED faults
  /\ UNCHANGED <<settings, hidden, summary, lastRun, offered, misjudged>>

(* A selection of the active universe stores its candidates and ends        *)
(* SUCCESS later; only then they are read (selectActiveUniverse.ts:163).   *)
StoreCandidates ==
  /\ Stamp /\ hidden = {} /\ "DISCOVERY" \in Kinds
  /\ \E sizes \in SUBSET Sizes \ {{}} :
       /\ Cardinality(events) + Cardinality(sizes) <= MaxEvents
       /\ hidden' = {[kind |-> "DISCOVERY", at |-> stamp', size |-> size] : size \in sizes}
  /\ UNCHANGED <<settings, events, summary, lastRun, offered, misjudged, faults>>

FinishSelection ==
  /\ hidden # {}
  /\ events' = events \cup hidden /\ hidden' = {}
  /\ IF summary.at # "off" \/ \E run \in lastRun, e \in hidden : e.at < run.startedAt
     THEN Fault ELSE UNCHANGED faults
  /\ UNCHANGED <<settings, stamp, summary, lastRun, offered, misjudged>>

(* The run reads the clock, then writes its row: the row's time is later.   *)
ReadClock ==
  /\ summary.at = "off" /\ Stamp
  /\ summary' = [Resting EXCEPT !.at = "clock", !.to = stamp']
  /\ UNCHANGED <<settings, events, hidden, lastRun, offered, misjudged, faults>>

StartSummary ==
  /\ summary.at = "clock" /\ Stamp
  /\ summary' = [summary EXCEPT !.at = "started", !.startedAt = stamp']
  /\ UNCHANGED <<settings, events, hidden, lastRun, offered, misjudged, faults>>

(* Of each kind the largest rows of the window, or the newest, equal ones   *)
(* by time; of the candidates those of the newest selection, if configured.  *)
Window == {e \in events : e.at \in (summary.to - settings.lookback)..summary.to}
Candidates == {e \in Window : e.kind = "DISCOVERY" /\ settings.discovery}
Read(kind) ==
  IF kind = "DISCOVERY" THEN {e \in Candidates : \A o \in Candidates : o.at <= e.at}
  ELSE {e \in Window : e.kind = kind}
ListedBefore(o, e) ==
  IF e.kind \in BySize THEN o.size > e.size \/ (o.size = e.size /\ o.at > e.at) ELSE o.at > e.at
Listed(kind) == {e \in Read(kind) : Cardinality({o \in Read(kind) : ListedBefore(o, e)}) < PerKind}
BuildRadarSummary == UNION {Listed(kind) : kind \in Kinds}
Counted == Listed("DISCOVERY") \cup {e \in Window : e.kind # "DISCOVERY"}
Offered == Candidates \cup Counted

End(row) ==
  /\ summary' = Resting
  /\ lastRun' = {[startedAt |-> summary.startedAt, webhookSent |-> row.sent, found |-> row.found]}

(* hasSentSummaryForCurrentEvents: the newest successful run since the      *)
(* window began sent its summary, and nothing listed is younger than it.   *)
NewestEventTime(found) == Max({e.at : e \in found})
HasSentSummary(found) ==
  /\ found # {}
  /\ \E run \in lastRun : /\ run.startedAt >= summary.to - settings.lookback
                          /\ run.webhookSent /\ run.startedAt >= NewestEventTime(found)

(* Disabled, too few events, no webhook, or told before: the run ends       *)
(* SUCCESS without a post.                                                 *)
SkipSummary(reason) ==
  LET found == IF settings.enabled THEN BuildRadarSummary ELSE {} IN
  /\ summary.at = "started"
  /\ reason = (IF ~settings.enabled THEN "RADAR_SUMMARY_DISABLED"
               ELSE IF Cardinality(Counted) < settings.minimum THEN "MIN_EVENT_COUNT_NOT_REACHED"
               ELSE IF ~settings.webhook THEN "RADAR_SUMMARY_WEBHOOK_DISABLED"
               ELSE IF HasSentSummary(found) THEN "NO_NEW_RADAR_EVENTS_SINCE_LAST_SUMMARY"
               ELSE "NONE")
  /\ End([sent |-> FALSE, found |-> found])
  /\ misjudged' = IF reason = "NO_NEW_RADAR_EVENTS_SINCE_LAST_SUMMARY" /\ ~(found \subseteq offered)
                  THEN misjudged + 1 ELSE misjudged
  /\ UNCHANGED <<settings, stamp, events, hidden, offered, faults>>

(* One post, no retry: it succeeds, or the alert is FAILED and the run all   *)
(* the same SUCCESS.                                                       *)
SendRadarSummary(delivered) ==
  LET found == BuildRadarSummary IN
  /\ summary.at = "started" /\ settings.enabled /\ settings.webhook
  /\ Cardinality(Counted) >= settings.minimum /\ ~HasSentSummary(found)
  /\ IF delivered
     THEN /\ summary' = [summary EXCEPT !.at = "posted", !.found = found]
          /\ offered' = offered \cup Offered /\ UNCHANGED lastRun
     ELSE End([sent |-> FALSE, found |-> found]) /\ UNCHANGED offered
  /\ UNCHANGED <<settings, stamp, events, hidden, misjudged, faults>>

FinishSummary ==
  /\ summary.at = "posted"
  /\ End([sent |-> TRUE, found |-> summary.found])
  /\ UNCHANGED <<settings, stamp, events, hidden, offered, misjudged, faults>>

(* A call fails or the process dies: the run ends FAILED or stays RUNNING,  *)
(* and later runs look past it.                                            *)
SummaryBreaks ==
  /\ summary.at # "off"
  /\ IF summary.at = "posted" THEN Fault ELSE UNCHANGED faults
  /\ summary' = Resting
  /\ UNCHANGED <<settings, stamp, events, hidden, lastRun, offered, misjudged>>

SkipReasons == {"RADAR_SUMMARY_DISABLED", "MIN_EVENT_COUNT_NOT_REACHED", "RADAR_SUMMARY_WEBHOOK_DISABLED",
                "NO_NEW_RADAR_EVENTS_SINCE_LAST_SUMMARY"}
SummaryNext ==
  \/ \E kind \in Kinds : StoreEvent(kind)
  \/ StoreCandidates \/ FinishSelection
  \/ ReadClock \/ StartSummary \/ FinishSummary \/ SummaryBreaks
  \/ \E reason \in SkipReasons : SkipSummary(reason)
  \/ \E delivered \in BOOLEAN : SendRadarSummary(delivered)

SummarySpec == SummaryInit /\ [][SummaryNext]_summaryVars

----------------------------------------------------------------------------
SummaryTypeOK ==
  /\ summary.at \in {"off", "clock", "started", "posted"} /\ stamp \in 0..MaxStamp
  /\ \A e \in events \cup hidden \cup offered : e.kind \in Kinds /\ e.at \in 1..MaxStamp
  /\ faults \in 0..MaxSummaryFaults

(* A run that ends because nothing is new lists only events that were there  *)
(* when a delivered summary was made: in it, or passed over for larger ones  *)
(* (radarSummary.ts:181-189, :358-369).  What was passed over and is listed   *)
(* once the larger ones have left the lookback is skipped, told by nobody:   *)
(* only an event stored after that summary counts as new.  Exceptions are    *)
(* an event stored between the clock of a run and its row, which is younger  *)
(* than the event it does not cover, and candidates whose selection ended    *)
(* after a run that began later than they were stored.                      *)
SkippedWasOffered == misjudged <= faults

=============================================================================
