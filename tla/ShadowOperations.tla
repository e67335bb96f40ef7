-------------------------- MODULE ShadowOperations --------------------------
(***************************************************************************)
(* What watches over the running system from outside: the watch of the      *)
(* host's cron, which alerts when the worker cannot; the retention of       *)
(* technical rows, on which the watch's judgement rests; and the check that *)
(* compares the books before and after a restart.  The restart is a part of *)
(* its own: part says which a behaviour is about.                          *)
(***************************************************************************)
EXTENDS Integers, Sequences, FiniteSets, FiniteSetsExt, SequencesExt

CONSTANTS
  Parts,          \* subset of {"watch", "restart"}
  WatchedJobs,    \* OPS_JOB_EXPECTATIONS, one age for all
  OldRows,        \* technical rows of before
  JobAge,         \* maxAgeMs
  DataAge,        \* MARKET_DATA_MAX_AGE_MS
  PathAge,        \* ALERT_PATH_MAX_AGE_MS
  ResendAfter,    \* RESEND_AFTER_MS
  Retained,       \* the days of RetentionPolicy
  MaxTick, MaxLooks, MaxTroubles, MaxBookings   \* bounds

VARIABLES
  part,
  tick,       \* the time
  technical,  \* rows of BotRun, BotLog and TradingAlertOutboxAttempt
  outside,    \* what the watch looks at beside them
  looks,      \* the last look of the watch, its state file, what it has sent
  cleaning,   \* the retention job
  ran,        \* of each job, its last success: what no retention removes
  books,      \* a portfolio's books, session and candles
  check       \* the two snapshots and the verdict

operationsVars == <<part, tick, technical, outside, looks, cleaning, ran, books, check>>

Never == -1
Row(table, job, status, at) == [table |-> table, job |-> job, status |-> status, at |-> at]
AlertPath == "trading:alert-outbox"
ExpectedJobs == WatchedJobs \cup {AlertPath}

----------------------------------------------------------------------------
(* The health that persisted state shows                                   *)

RunsOf(job) == {r \in technical : r.table = "BotRun" /\ r.job = job}
LastSuccess(job) == Max({Never} \cup {r.at : r \in {r \in RunsOf(job) : r.status = "SUCCESS"}})
Stalled(job) == RunsOf(job) # {} /\ (LastSuccess(job) = Never \/ tick - LastSuccess(job) > JobAge)
DataProblem ==
  CASE outside.candle = Never -> "MARKET_DATA_MISSING"
    [] outside.candle # Never /\ ~outside.genuine -> "MARKET_DATA_NOT_BINANCE"
    [] outside.candle # Never /\ outside.genuine -> IF tick - outside.candle > DataAge THEN "MARKET_DATA_STALE" ELSE "none"
PathAlive == LastSuccess(AlertPath) # Never /\ tick - LastSuccess(AlertPath) <= PathAge

\* A stop that a rule set has a reason; the state of the bootstrap has none.
SessionProblems ==
  (IF outside.critical > 0 THEN {<<"CRITICAL_RISK_EVENTS", "p">>} ELSE {})
  \cup (IF outside.killReason THEN {<<"KILL_SWITCH", "p">>} ELSE {})

HealthProblems ==
  (IF DataProblem = "none" THEN {} ELSE {<<DataProblem, "btc">>})
  \cup {<<"JOB_STALE", job>> : job \in {job \in WatchedJobs : Stalled(job)}} \cup SessionProblems

ContainerProblems == {<<"CONTAINER", c>> : c \in outside.containers}
Problems ==
  ContainerProblems \cup
  (IF ~outside.database THEN {<<"DATABASE_UNREACHABLE", "db">>}
   ELSE HealthProblems \cup IF PathAlive THEN {} ELSE {<<"ALERT_PATH_DOWN", "worker">>})
AlertWorthy == IF outside.database /\ PathAlive THEN ContainerProblems ELSE Problems

\* The classes of the problems with how often each occurs: not which ones they are.
Signature(problems) == [c \in {p[1] : p \in problems} |-> Cardinality({p \in problems : p[1] = c})]
ShouldSend(signature) ==
  looks.file = {} \/ \E s \in looks.file : s.signature # signature \/ tick - s.at >= ResendAfter

----------------------------------------------------------------------------
(* The watch, and what happens around it                                   *)

\* One run of the watch; the webhook may refuse.  The state file is written only of what
\* was sent.
Look ==
  /\ looks.count < MaxLooks
  /\ LET worthy == AlertWorthy
         note == [signature |-> Signature(worthy), at |-> tick] IN
     \E delivery \in IF worthy = {} THEN {"none"} ELSE IF ShouldSend(Signature(worthy)) THEN {"SENT", "HTTP_500"} ELSE {"THROTTLED"} :
       looks' = [count |-> looks.count + 1, problems |-> Problems, worthy |-> worthy, delivery |-> delivery, at |-> tick,
                 file |-> IF delivery = "SENT" THEN {note} ELSE looks.file,
                 sent |-> IF delivery = "SENT" THEN looks.sent \cup {note} ELSE looks.sent]
  /\ UNCHANGED <<tick, technical, outside, cleaning, ran>>

\* Time passes; a worker that lives ran its jobs, and its alert path with success.
WorkAndTick ==
  /\ tick < MaxTick /\ tick' = tick + 1
  /\ \/ /\ outside.worker
        /\ \E good \in SUBSET WatchedJobs :
             LET succeeded == good \cup {AlertPath} IN
             /\ technical' = technical \cup {Row("BotRun", j, IF j \in succeeded THEN "SUCCESS" ELSE "FAILED", tick + 1) : j \in ExpectedJobs}
             /\ ran' = [j \in ExpectedJobs |-> IF j \in succeeded THEN tick + 1 ELSE ran[j]]
     \/ ~outside.worker /\ UNCHANGED <<technical, ran>>
  /\ outside' = [outside EXCEPT !.candle = IF outside.fetching THEN tick + 1 ELSE @]
  /\ UNCHANGED <<looks, cleaning>>

\* Something fails, or a risk rule engages the kill switch.
Trouble ==
  /\ outside.troubles < MaxTroubles
  /\ \/ outside.worker /\ outside' = [outside EXCEPT !.worker = FALSE, !.troubles = @ + 1]
     \/ outside.database /\ outside' = [outside EXCEPT !.database = FALSE, !.troubles = @ + 1]
     \/ outside.fetching /\ outside' = [outside EXCEPT !.fetching = FALSE, !.containers = {"data-worker"}, !.troubles = @ + 1]
     \/ outside.genuine /\ outside' = [outside EXCEPT !.genuine = FALSE, !.troubles = @ + 1]
     \/ ~outside.killReason /\ outside' = [outside EXCEPT !.killReason = TRUE, !.critical = 1, !.troubles = @ + 1]
  /\ UNCHANGED <<tick, technical, looks, cleaning, ran>>

----------------------------------------------------------------------------
(* Retention: successful runs, informational logs and the attempts of sent  *)
(* alerts that are older than the cutoff, each with a call of its own.     *)

Targets == <<"BotRun", "BotLog", "Attempt">>
Expendable == [BotRun |-> "SUCCESS", BotLog |-> "info", Attempt |-> "SENT"]
Matching(table, asOf) == {r \in technical : r.table = table /\ r.status = Expendable[table] /\ r.at < asOf - Retained}
RetentionRow(status, at) == Row("BotRun", "trading:retention", status, at)

StartRetention ==
  /\ cleaning.status = "none"
  /\ \E allowed \in BOOLEAN : \E apply \in IF allowed THEN BOOLEAN ELSE {FALSE} :
       /\ cleaning' = [cleaning EXCEPT !.status = IF allowed THEN "RUNNING" ELSE "FAILED", !.asOf = tick, !.apply = apply]
       /\ technical' = technical \cup {RetentionRow(IF allowed THEN "RUNNING" ELSE "FAILED", tick)}
  /\ UNCHANGED <<tick, outside, looks, ran>>
CleanTarget ==
  /\ cleaning.status = "RUNNING" /\ cleaning.next <= 3
  /\ LET rows == Matching(Targets[cleaning.next], cleaning.asOf) IN
     /\ technical' = IF cleaning.apply THEN technical \ rows ELSE technical
     /\ cleaning' = [cleaning EXCEPT !.next = @ + 1, !.matched = @ + Cardinality(rows)]
  /\ UNCHANGED <<tick, outside, looks, ran>>
\* The log; then, of a run that applied, the audit event; then the end of the run.
EndRetention ==
  /\ cleaning.status = "RUNNING" /\ cleaning.next = 4
  /\ cleaning' = [cleaning EXCEPT !.status = "SUCCESS", !.audited = cleaning.apply]
  /\ technical' = (technical \ {RetentionRow("RUNNING", cleaning.asOf)})
                  \cup {RetentionRow("SUCCESS", cleaning.asOf), Row("BotLog", "trading-worker", "info", tick)}
  /\ UNCHANGED <<tick, outside, looks, ran>>

WatchNext ==
  /\ part = "watch" /\ UNCHANGED <<part, books, check>>
  /\ Look \/ WorkAndTick \/ Trouble \/ StartRetention \/ CleanTarget \/ EndRetention

----------------------------------------------------------------------------
(* The restart check.  A snapshot reads the portfolio's row, then the rest  *)
(* beside what the worker books; the candle that opened at hour h is there  *)
(* from h + 1 on, and asked for from h + 2 on.                              *)

\* An evaluation of the arena carries a hash of itself and of the one before it.
OutputHash(result, previous) == Append(previous, result)
LastHash(evaluations) == IF evaluations = <<>> THEN <<>> ELSE Last(evaluations).hash
Evaluation(result, previous) == [result |-> result, previous |-> previous, hash |-> OutputHash(result, previous)]
ChainHolds(evaluations) ==
  \A i \in DOMAIN evaluations :
    /\ evaluations[i].previous = LastHash(SubSeq(evaluations, 1, i - 1))
    /\ evaluations[i].hash = OutputHash(evaluations[i].result, evaluations[i].previous)

Missing(b) == (0..(tick - 2)) \ b.hours
Duplicates(b) == {f \in b.fills : \E g \in b.fills : g # f /\ g.order = f.order /\ g.candle = f.candle}
Snapshot(row, b) ==
  [sequence |-> row.sequence, cache |-> row.cache, entries |-> Cardinality(b.entries),
   cash |-> MapThenSumSet(LAMBDA e : e.cash, b.entries), fills |-> Cardinality(b.fills), duplicates |-> Cardinality(Duplicates(b)),
   session |-> b.session, versions |-> b.versions, evaluations |-> Len(b.evaluations), chain |-> ChainHolds(b.evaluations),
   standing |-> b.standing, missing |-> Missing(b)]

\* compareConsistency: the checks that fail.
FailedChecks(before, after) ==
  {c \in {"LEDGER_GROWS", "LEDGER_IS_CACHE", "NO_DUPLICATES", "FILLS_GROW", "SESSION", "VERSIONS", "APART", "ARENA", "CANDLES"} :
     CASE c = "LEDGER_GROWS" -> after.sequence < before.sequence \/ after.entries < before.entries
       [] c = "LEDGER_IS_CACHE" -> after.cash # after.cache
       [] c = "NO_DUPLICATES" -> after.duplicates # 0
       [] c = "FILLS_GROW" -> after.fills < before.fills
       [] c = "SESSION" -> after.session # before.session
       [] c = "VERSIONS" -> after.versions # before.versions
       [] c = "APART" -> after.versions.champion \cap after.versions.challenger # {}
       [] c = "ARENA" -> ~after.chain \/ after.evaluations < before.evaluations \/ after.standing # before.standing
       [] c = "CANDLES" -> after.missing # {}}

ReadRow ==
  /\ check.row = {} /\ check' = [check EXCEPT !.row = {books}] /\ UNCHANGED <<tick, books>>
ReadRest ==
  /\ \E row \in check.row :
       LET taken == Snapshot(row, books) IN
       check' = IF check.before = {} THEN [check EXCEPT !.before = {taken}, !.then = {books}, !.row = {}]
                ELSE [check EXCEPT !.verdict = {[failed |-> FailedChecks(CHOOSE b \in check.before : TRUE, taken), torn |-> row # books]}]
  /\ UNCHANGED <<tick, books>>

\* MaxBookings bounds the fills and the evaluations together.
MayRecord == books.sequence + Len(books.evaluations) < MaxBookings

\* A fill with its booking, an evaluation, an hour whose candle may not be fetched, the
\* backfill, the operator.
WorkGoesOn ==
  /\ \/ /\ MayRecord /\ UNCHANGED tick
        /\ books' = [books EXCEPT !.sequence = @ + 1, !.cache = @ + 1, !.entries = @ \cup {[id |-> books.sequence + 1, cash |-> 1]},
                                  !.fills = @ \cup {[id |-> books.sequence + 1, order |-> "o", candle |-> books.sequence + 1]}]
     \/ /\ MayRecord /\ UNCHANGED tick
        /\ books' = [books EXCEPT !.evaluations = Append(@, Evaluation("PROBATION", LastHash(@)))]
     \/ /\ tick < MaxTick /\ tick' = tick + 1
        /\ \E fetched \in BOOLEAN : books' = [books EXCEPT !.hours = IF fetched THEN @ \cup {tick} ELSE @]
     \/ books.hours # 0..(tick - 1) /\ books' = [books EXCEPT !.hours = 0..(tick - 1)] /\ UNCHANGED tick
     \/ ~books.session.killed /\ books' = [books EXCEPT !.session.killed = TRUE] /\ UNCHANGED tick
     \/ books.standing = "ACTIVE" /\ books' = [books EXCEPT !.standing = "PROVEN"] /\ UNCHANGED tick
  /\ UNCHANGED check

\* What a restart might do wrong, at most once.
Damage ==
  /\ check.damage = {} /\ check.before # {}
  /\ \E kind \in {"ENTRY_LOST", "FILL_LOST", "FILL_REPEATED", "KILL_DROPPED", "VERSION_SHARED", "VERSION_LOST", "REWRITTEN", "EVALUATION_LOST"} :
       /\ books' = CASE kind = "ENTRY_LOST" -> [books EXCEPT !.entries = {e \in @ : e.id # 1}]
                     [] kind = "FILL_LOST" -> [books EXCEPT !.fills = {f \in @ : f.id # 1}]
                     [] kind = "FILL_REPEATED" -> [books EXCEPT !.fills = @ \cup {[id |-> 0, order |-> "o", candle |-> 1]}]
                     [] kind = "KILL_DROPPED" -> [books EXCEPT !.session.killed = FALSE]
                     [] kind = "VERSION_SHARED" -> [books EXCEPT !.versions.challenger = @ \cup books.versions.champion]
                     [] kind = "VERSION_LOST" -> [books EXCEPT !.versions.challenger = {}]
                     [] kind = "EVALUATION_LOST" -> [books EXCEPT !.evaluations = Tail(@)]
                     [] kind = "REWRITTEN" -> [books EXCEPT !.evaluations[1].result = "CHAMPION"]
       /\ check' = [check EXCEPT !.damage = {kind}]
  /\ UNCHANGED tick

RestartNext ==
  /\ part = "restart" /\ check.verdict = {} /\ UNCHANGED <<part, technical, outside, looks, cleaning, ran>>
  /\ ReadRow \/ ReadRest \/ WorkGoesOn \/ Damage

----------------------------------------------------------------------------

OperationsInit ==
  /\ part \in Parts /\ tick = 1 /\ technical = IF part = "watch" THEN OldRows ELSE {}
  /\ outside = [worker |-> TRUE, database |-> TRUE, fetching |-> TRUE, genuine |-> TRUE, candle |-> 1, critical |-> 0,
                killReason |-> FALSE, containers |-> {}, troubles |-> 0]
  /\ looks = [count |-> 0, problems |-> {}, worthy |-> {}, delivery |-> "none", at |-> Never, file |-> {}, sent |-> {}]
  /\ cleaning = [status |-> "none", next |-> 1, asOf |-> 0, apply |-> FALSE, matched |-> 0, audited |-> FALSE]
  /\ ran = [j \in ExpectedJobs |-> Max({Never} \cup {r.at : r \in {r \in OldRows : r.job = j /\ r.status = "SUCCESS"}})]
  /\ books = [sequence |-> 1, cache |-> 1, entries |-> {[id |-> 1, cash |-> 1]}, fills |-> {[id |-> 1, order |-> "o", candle |-> 1]},
              session |-> [status |-> "SHADOW_ACTIVE", killed |-> part = "restart"], evaluations |-> <<Evaluation("ACTIVE", <<>>)>>, standing |-> "ACTIVE",
              versions |-> [champion |-> {"v1"}, challenger |-> {"v2"}], hours |-> {0}]
  /\ check = [row |-> {}, before |-> {}, then |-> {}, verdict |-> {}, damage |-> {}]

OperationsNext == WatchNext \/ RestartNext

OperationsTypeOK ==
  /\ part \in Parts /\ tick \in 1..MaxTick /\ looks.count \in 0..MaxLooks /\ cleaning.next \in 1..4
  /\ books.sequence \in 1..MaxBookings /\ books.hours \subseteq 0..MaxTick

----------------------------------------------------------------------------
(* Properties                                                              *)

Looked == looks.count > 0 /\ looks.at = tick

\* runOpsWatch: a watch that keeps quiet of problems it should send does so within
\* ResendAfter of an alert that was really delivered and told as many problems of the
\* same classes; it never alerts of what a living worker reports, and of all that a dead one
\* does not.
QuietOnlyWhenTold ==
  /\ looks.delivery = "THROTTLED" =>
       \E told \in looks.sent : told.signature = Signature(looks.worthy) /\ looks.at - told.at < ResendAfter
  /\ \A told, later \in looks.sent : told.at < later.at /\ told.signature = later.signature =>
       later.at - told.at >= ResendAfter \/ \E other \in looks.sent : other.at \in told.at..later.at /\ other.signature # told.signature
  /\ Looked /\ <<"DATABASE_UNREACHABLE", "db">> \notin looks.problems /\ <<"ALERT_PATH_DOWN", "worker">> \notin looks.problems =>
       \A p \in looks.worthy : p[1] = "CONTAINER"
  /\ <<"ALERT_PATH_DOWN", "worker">> \in looks.problems => looks.worthy = looks.problems

\* collectOpsHealth with runTradingRetention: a job whose last success is long ago is
\* reported, as long as one row of it is left.
StalledJobsAreReported ==
  Looked /\ outside.database =>
    \A job \in WatchedJobs : ran[job] # Never /\ tick - ran[job] > JobAge /\ RunsOf(job) # {} =>
      <<"JOB_STALE", job>> \in looks.problems

\* runShadowRetention: failed runs, warnings and attempts of undelivered alerts stay, and
\* so does everything that is younger than the cutoff; a run without --apply or behind a
\* closed gate removes nothing.
RetentionKeepsEvidence ==
  part = "watch" => \A row \in OldRows :
    row \in technical \/ /\ cleaning.status # "FAILED" /\ cleaning.apply
                         /\ row.status = Expendable[row.table] /\ row.at < cleaning.asOf - Retained
RecentRunsStay ==
  part = "watch" => \A job \in WatchedJobs : ran[job] # Never /\ tick - ran[job] <= Retained =>
    Row("BotRun", job, "SUCCESS", ran[job]) \in technical

\* compareConsistency: a verdict without a failed check means that none of this happened
\* between the snapshots.  A lost fill or evaluation is noticed unless another came since,
\* a lost entry unless something is booked while the snapshot is read.
SoundVerdicts ==
  \A verdict \in check.verdict : verdict.failed = {} =>
    LET was == CHOOSE b \in check.then : TRUE IN
    /\ ~verdict.torn /\ "FILL_LOST" \notin check.damage => was.entries \subseteq books.entries /\ was.fills \subseteq books.fills
    /\ "FILL_LOST" \in check.damage => Cardinality(books.fills) >= Cardinality(was.fills)
    /\ Duplicates(books) = {} /\ books.session = was.session /\ books.versions = was.versions /\ books.standing = was.standing
    /\ Missing(books) = {} /\ Len(books.evaluations) >= Len(was.evaluations)
    /\ "EVALUATION_LOST" \notin check.damage => IsPrefix(was.evaluations, books.evaluations)

=============================================================================
