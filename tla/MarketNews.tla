----------------------------- MODULE MarketNews -----------------------------
(***************************************************************************)
(* Global news and the alerts about them                                    *)
(* (apps/worker/src/jobs/globalEventMonitor.ts, events-intelligence's       *)
(* classification, impact-engine's assessment).  A run reads the feed of    *)
(* each category, classifies what it finds, stores what is new under a      *)
(* unique key and at its end posts the events it stored itself: the gravest *)
(* first, one of a type per cooldown.  A post is noted on the event after   *)
(* it was made.                                                            *)
(***************************************************************************)
EXTENDS AlertRules, Sequences, SequencesExt

CONSTANTS
  News,          \* items: [category, id, matches, urgent, up, down]: keywords found per event type and of
                 \* urgency, and per impact rule that matches the assets it favours and those it hits
  EventTypes,    \* in the order of the keyword rules
  MaxList,       \* entries of a list that are kept
  Categories,    \* the feeds in the order they are read
  MinSeverity, AlertsPerRun, EventsPerRun, NewsCooldown,   \* settings
  MaxClock, MaxRuns, MaxFaults                             \* bounds

VARIABLES
  clock,
  stored,    \* the MarketEvent rows: dedupKey, type, severity, alertSentAt
  monitor,   \* the run: the feeds to read, candidates to store, events it stored, alerts it sent
  outcomes,  \* how runs ended
  posts,     \* delivered alerts: key, type and time, the newest of each type
  early,     \* deliveries of a type within the cooldown of another, or of one event twice
  faults, runs

newsVars == <<clock, stored, monitor, outcomes, posts, early, faults, runs>>

Off == [at |-> "off", feeds |-> <<>>, todo |-> <<>>, fresh |-> {}, since |-> 0, sent |-> 0, failed |-> FALSE]

NewsInit ==
  /\ clock = 0 /\ stored = {} /\ monitor = Off /\ outcomes = {} /\ posts = {}
  /\ early = 0 /\ faults = 0 /\ runs = 0

----------------------------------------------------------------------------
(* Classification                                                          *)

DeriveSeverity(matches, urgent) ==
  LET level == (IF matches >= 2 THEN 1 ELSE 0) + (IF urgent >= 1 THEN 1 ELSE 0) + (IF urgent >= 3 THEN 1 ELSE 0) IN
  CASE level = 3 -> "CRITICAL" [] level = 2 -> "IMPORTANT" [] level = 1 -> "WATCH" [] OTHER -> "INFO"

(* In hundredths; a keyword match alone is never trusted beyond 60.         *)
DeriveConfidence(matches, urgent) == Min({60, 30 + 5 * matches + 5 * urgent})

(* The rule with the most matches decides the type, the first of equals;   *)
(* matches gives the number of keywords of every type found in the text.   *)
ClassifyText(matches) ==
  LET most == {i \in DOMAIN EventTypes : \A j \in DOMAIN EventTypes : matches[EventTypes[j]] <= matches[EventTypes[i]]} IN
  IF \A type \in ToSet(EventTypes) : matches[type] = 0 THEN None ELSE EventTypes[Min(most)]

(* What the rules that match say of assets: of an entry that is on both     *)
(* sides neither is said.  Each side keeps its first MaxList entries before *)
(* they are compared.                                                      *)
MergeLists(lists) ==
  LET all == FlattenSeq(lists)
      firsts == SelectSeq([i \in DOMAIN all |-> i], LAMBDA i : \A j \in 1..(i - 1) : all[j] # all[i]) IN
  [i \in 1..Min({MaxList, Len(firsts)}) |-> all[firsts[i]]]
AssessMarketEventImpact(item) ==
  LET up == ToSet(MergeLists(item.up))
      down == ToSet(MergeLists(item.down)) IN
  [positive |-> up \ down, negative |-> down \ up, mixed |-> up \cap down]

(* The key belongs to the feed: one article in two feeds is two events.     *)
BuildDedupKey(item) == <<item.category, item.id>>

ClassifyGlobalNewsItem(item) ==
  LET type == ClassifyText(item.matches)
      matches == item.matches[type] IN
  [key |-> BuildDedupKey(item), type |-> type, severity |-> DeriveSeverity(matches, item.urgent),
   confidence |-> DeriveConfidence(matches, item.urgent), impact |-> AssessMarketEventImpact(item), alertSentAt |-> {}]

(* Items without a keyword or a readable date fall out, as do repetitions   *)
(* of a key in the same answer.                                            *)
ClassifyGlobalNews(items) ==
  LET usable == SelectSeq(items, LAMBDA item : ClassifyText(item.matches) # None)
      First(i) == \A j \in 1..(i - 1) : BuildDedupKey(usable[j]) # BuildDedupKey(usable[i]) IN
  [i \in 1..Cardinality({j \in DOMAIN usable : First(j)}) |->
     ClassifyGlobalNewsItem(usable[SetToSortSeq({j \in DOMAIN usable : First(j)}, <)[i]])]

----------------------------------------------------------------------------
(* A run                                                                   *)

StartMonitor ==
  /\ monitor.at = "off" /\ runs < MaxRuns
  /\ monitor' = [Off EXCEPT !.at = "fetch", !.feeds = Categories]
  /\ runs' = runs + 1
  /\ UNCHANGED <<clock, stored, outcomes, posts, early, faults>>

(* The feed answers with some of its items, or not at all: a limit, an      *)
(* error and an exception are counted, and the next feed is read.          *)
FetchGeneralNews(items, answered) ==
  /\ monitor.at = "fetch" /\ monitor.feeds # <<>> /\ monitor.todo = <<>>
  /\ \A i \in DOMAIN items : items[i].category = Head(monitor.feeds)
  /\ monitor' = [monitor EXCEPT !.feeds = Tail(@), !.failed = @ \/ ~answered,
                                !.todo = IF answered THEN ClassifyGlobalNews(items) ELSE <<>>]
  /\ UNCHANGED <<clock, stored, outcomes, posts, early, faults, runs>>

Known(candidate) == \E event \in stored : event.key = candidate.key

(* One candidate: nothing beyond the events of one run, nothing known; what *)
(* is stored gets its impact with it.                                      *)
StoreCandidate ==
  LET candidate == Head(monitor.todo) IN
  /\ monitor.at = "fetch" /\ monitor.todo # <<>>
  /\ IF Cardinality(monitor.fresh) >= EventsPerRun
     THEN monitor' = [monitor EXCEPT !.todo = <<>>] /\ UNCHANGED stored
     ELSE IF Known(candidate)
     THEN monitor' = [monitor EXCEPT !.todo = Tail(@)] /\ UNCHANGED stored
     ELSE /\ stored' = stored \cup {candidate}
          /\ monitor' = [monitor EXCEPT !.todo = Tail(@), !.fresh = @ \cup {candidate}]
  /\ UNCHANGED <<clock, outcomes, posts, early, faults, runs>>

AllRead ==
  /\ monitor.at = "fetch" /\ monitor.feeds = <<>> /\ monitor.todo = <<>>
  /\ monitor' = [monitor EXCEPT !.at = "alert", !.since = clock - NewsCooldown]
  /\ UNCHANGED <<clock, stored, outcomes, posts, early, faults, runs>>

----------------------------------------------------------------------------
(* Its alerts                                                              *)

Gravest == {e \in monitor.fresh : \A o \in monitor.fresh : RadarSeverityRank(o.severity) <= RadarSeverityRank(e.severity)}

ForgetsTheType(event) == \E e \in stored : e.key = event.key /\ \E t \in e.alertSentAt : t >= monitor.since
RecentAlertForType(event) == \E e \in stored : e.type = event.type /\ \E t \in e.alertSentAt : t >= monitor.since

Due(event) ==
  /\ RadarSeverityRank(event.severity) >= RadarSeverityRank(MinSeverity)
  /\ monitor.sent < AlertsPerRun
  /\ ~RecentAlertForType(event)

SkipAlert(event) ==
  /\ monitor.at = "alert" /\ event \in Gravest /\ ~Due(event)
  /\ monitor' = [monitor EXCEPT !.fresh = @ \ {event}]
  /\ UNCHANGED <<clock, stored, outcomes, posts, early, faults, runs>>

Deliver(event) ==
  /\ posts' = {p \in posts : p.type # event.type} \cup {[key |-> event.key, type |-> event.type, at |-> clock]}
  /\ early' = IF \E p \in posts : p.type = event.type /\ (p.key = event.key \/ clock - p.at < NewsCooldown)
              THEN early + 1 ELSE early

(* One dispatch, which SignalAlerts models post by post.                   *)
SendMarketEventAlert(event, delivered) ==
  /\ monitor.at = "alert" /\ event \in Gravest /\ Due(event)
  /\ IF delivered
     THEN Deliver(event) /\ monitor' = [monitor EXCEPT !.at = "sent", !.sent = @ + 1, !.fresh = @ \ {event}, !.todo = <<event>>]
     ELSE UNCHANGED <<posts, early>> /\ monitor' = [monitor EXCEPT !.fresh = @ \ {event}]
  /\ UNCHANGED <<clock, stored, outcomes, faults, runs>>

MarkSentAt ==
  LET event == Head(monitor.todo) IN
  /\ monitor.at = "sent"
  /\ stored' = (stored \ {event}) \cup {[event EXCEPT !.alertSentAt = {clock}]}
  /\ monitor' = [monitor EXCEPT !.at = "alert", !.todo = <<>>]
  /\ UNCHANGED <<clock, outcomes, posts, early, faults, runs>>

(* The run ends FAILED if any feed failed, whatever it stored and sent.     *)
FinishMonitor ==
  /\ monitor.at = "alert" /\ monitor.fresh = {}
  /\ outcomes' = outcomes \cup {IF monitor.failed THEN "FAILED" ELSE "SUCCESS"}
  /\ monitor' = Off
  /\ UNCHANGED <<clock, stored, posts, early, faults, runs>>

(* The process dies or a call on the database fails: the events stored in   *)
(* this run are known from now on, and nobody is told of them.             *)
MonitorBreaks ==
  /\ monitor.at \in {"fetch", "alert", "sent"}
  /\ IF monitor.at = "sent" THEN faults < MaxFaults /\ faults' = faults + 1 ELSE UNCHANGED faults
  /\ outcomes' = outcomes \cup {"FAILED"}
  /\ monitor' = Off
  /\ UNCHANGED <<clock, stored, posts, early, runs>>

NewsTick ==
  /\ clock < MaxClock
  /\ clock' = clock + 1
  /\ UNCHANGED <<stored, monitor, outcomes, posts, early, faults, runs>>

Answers == {<<>>} \cup {<<a>> : a \in News} \cup {<<a, b>> : a \in News, b \in News}
NewsNext ==
  \/ NewsTick \/ StartMonitor \/ StoreCandidate \/ AllRead \/ MarkSentAt \/ FinishMonitor \/ MonitorBreaks
  \/ \E items \in Answers : FetchGeneralNews(items, TRUE)
  \/ FetchGeneralNews(<<>>, FALSE)
  \/ \E event \in monitor.fresh : SkipAlert(event) \/ SendMarketEventAlert(event, TRUE) \/ SendMarketEventAlert(event, FALSE)

NewsSpec == NewsInit /\ [][NewsNext]_newsVars

----------------------------------------------------------------------------
NewsTypeOK ==
  /\ monitor.at \in {"off", "fetch", "alert", "sent"} /\ monitor.sent \in 0..AlertsPerRun
  /\ \A e \in stored : e.severity \in {"INFO", "WATCH", "IMPORTANT", "CRITICAL"} /\ e.confidence \in 30..60
  /\ faults \in 0..MaxFaults /\ runs \in 0..MaxRuns /\ outcomes \subseteq {"SUCCESS", "FAILED"}

(* Two alerts of one event type lie a cooldown apart and none tells of an    *)
(* event already told, though runs come back to the same feeds, break off   *)
(* and start again (globalEventMonitor.ts:229-241,454-475).  The exception  *)
(* is a run that breaks between a post and the note of it.                  *)
NewsAlertsAreEarned == early <= faults

=============================================================================
