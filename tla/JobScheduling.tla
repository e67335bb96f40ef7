---------------------------- MODULE JobScheduling ----------------------------
(***************************************************************************)
(* One scheduled job of the trading worker: the cron fires, the circuit    *)
(* breaker is derived from the job's latest runs and from open CRITICAL    *)
(* findings, an entry job asks the workflow guard which portfolios it may  *)
(* work on, and the attempt writes a BotRun row that the next evaluation   *)
(* reads.  The lease (module JobLease) is taken to be free: attempts of    *)
(* this job do not overlap here.  Time is kept as ages, in units of the    *)
(* duration that counts as unexpectedly long.                              *)
(***************************************************************************)
EXTENDS Integers, Sequences, FiniteSets, SequencesExt

CONSTANTS
  Portfolios,      \* the portfolios that are not archived
  Scopes,          \* scopes the job may have: "ENTRY", "MONITORING"
  LookbackRuns,    \* lookbackRuns: rows the breaker reads
  FailureLimit,    \* consecutiveJobFailures
  Cooldown,        \* cooldownMs, in units of maxJobDurationMs
  MaxFindings,     \* bound on the findings raised, for model checking
  MaxDeaths        \* bound on the processes that die, for model checking

VARIABLES
  scope,      \* the job's scope; an ENTRY job also asks the workflow guard
  botRuns,    \* BotRun rows of the job, latest start first
  findings,   \* ages of the unacknowledged CRITICAL risk events of the entry-trip types
  raised,     \* how many findings were raised
  deaths,     \* how many processes died
  shut,       \* portfolios the workflow guard refuses
  attempt,    \* what the job's process is doing
  served      \* portfolios of the last attempt that went to work

jobVars == <<scope, botRuns, findings, raised, deaths, shut, attempt, served>>

Ages == 0..Cooldown   \* an age of Cooldown stands for every greater one
Older(age) == IF age < Cooldown THEN age + 1 ELSE age

NoAttempt == [at |-> "idle", portfolios |-> {}]

JobTypeOK ==
  /\ scope \in Scopes
  /\ \A i \in DOMAIN botRuns :
       /\ botRuns[i].status \in {"RUNNING", "SUCCESS", "FAILED"}
       /\ botRuns[i].age \in Ages /\ botRuns[i].lasted \in 0..1
       /\ botRuns[i].finished \in BOOLEAN
  /\ Len(botRuns) <= LookbackRuns
  /\ findings \subseteq Ages
  /\ shut \subseteq Portfolios /\ served \subseteq Portfolios
  /\ attempt.at \in {"idle", "guard", "lease", "run"}
  /\ attempt.portfolios \subseteq Portfolios

JobInit ==
  /\ scope \in Scopes
  /\ botRuns = <<>> /\ findings = {} /\ raised = 0 /\ deaths = 0
  /\ shut \in SUBSET Portfolios /\ (scope = "MONITORING" => shut = {})
  /\ attempt = NoAttempt /\ served = {}

----------------------------------------------------------------------------
(* The circuit breaker                                                     *)

\* How many of the latest rows are FAILED in a row; any other row, one left
\* RUNNING by a process that died included, ends the count.
ConsecutiveFailures ==
  LET other == {i \in DOMAIN botRuns : botRuns[i].status # "FAILED"}
  IN IF other = {} THEN Len(botRuns) ELSE (CHOOSE i \in other : \A j \in other : i <= j) - 1

LongRuns == {i \in DOMAIN botRuns : botRuns[i].finished /\ botRuns[i].lasted >= 1}

\* The findings are counted per portfolio and reason and every threshold is one,
\* so the latest decides.  (Older than riskEventLookbackMs, it has cooled down.)
Latest(found) == CHOOSE a \in found : \A b \in found : a <= b

NoTrip == -1
\* How long ago the signal that decides tripped the breaker.  The signals are
\* tried in this order and the first that tripped decides, cooled down or not.
TrippedAgo ==
  IF ConsecutiveFailures >= FailureLimit THEN botRuns[1].age
  ELSE IF LongRuns # {} THEN botRuns[CHOOSE i \in LongRuns : \A j \in LongRuns : i <= j].age
  ELSE IF scope = "ENTRY" /\ findings # {} THEN Latest(findings)
  ELSE NoTrip

\* Mutant: a breaker that has tripped has no half-open state.
BreakerWithoutHalfOpen == TrippedAgo = NoTrip

\* CLOSED, or HALF_OPEN after the cooldown.
BreakerAllows == TrippedAgo = NoTrip \/ TrippedAgo >= Cooldown

----------------------------------------------------------------------------
(* An attempt                                                              *)

\* Mutant: one row more than the breaker reads.
WithRowTooMany(row) == SubSeq(<<row>> \o botRuns, 1,
                        IF Len(botRuns) <= LookbackRuns THEN Len(botRuns) + 1 ELSE LookbackRuns)

\* The rows the breaker still reads after one more.
WithRow(row) == SubSeq(<<row>> \o botRuns, 1,
                        IF Len(botRuns) < LookbackRuns THEN Len(botRuns) + 1 ELSE LookbackRuns)
NewRow(status, finished) == [status |-> status, age |-> 0, lasted |-> 0, finished |-> finished]

\* The cron fires: runScheduledJob evaluates the breaker.
CronFires ==
  /\ attempt.at = "idle" /\ BreakerAllows
  /\ attempt' = [NoAttempt EXCEPT !.at = IF scope = "ENTRY" THEN "guard" ELSE "lease"]
  /\ UNCHANGED <<scope, botRuns, findings, raised, deaths, shut, served>>

\* resolveEntryWorkflowGuard: the portfolios that pass, or the attempt is skipped.
\* The verdict is not taken again.
AskGuard ==
  /\ attempt.at = "guard"
  /\ attempt' = IF Portfolios \subseteq shut THEN NoAttempt
                ELSE [at |-> "lease", portfolios |-> Portfolios \ shut]
  /\ UNCHANGED <<scope, botRuns, findings, raised, deaths, shut, served>>
\* Mutant: the verdict on the oldest portfolio is taken for all of them.
AskGuardForOne ==
  /\ attempt.at = "guard"
  /\ LET oldest == CHOOSE p \in Portfolios : TRUE IN
     attempt' = IF oldest \in shut THEN NoAttempt
                ELSE [at |-> "lease", portfolios |-> Portfolios \ shut]
  /\ UNCHANGED <<scope, botRuns, findings, raised, deaths, shut, served>>

\* The job begins and writes its row.
Begin ==
  /\ attempt.at = "lease"
  /\ attempt' = [attempt EXCEPT !.at = "run"]
  /\ botRuns' = WithRow(NewRow("RUNNING", FALSE))
  /\ served' = attempt.portfolios
  /\ UNCHANGED <<scope, findings, raised, deaths, shut>>

Finished(status) == [botRuns EXCEPT ![1] = [@ EXCEPT !.status = status, !.age = 0, !.finished = TRUE]]

Finish(status) ==
  /\ attempt.at = "run"
  /\ botRuns' = Finished(status)
  /\ attempt' = NoAttempt
  /\ UNCHANGED <<scope, findings, raised, deaths, shut, served>>

\* recordUncaughtJobError: the RUNNING row fails and a second FAILED row is added.
Throw ==
  /\ attempt.at = "run"
  /\ botRuns' = LET failed == Finished("FAILED")
                IN SubSeq(<<NewRow("FAILED", TRUE)>> \o failed, 1,
                          IF Len(failed) < LookbackRuns THEN Len(failed) + 1 ELSE LookbackRuns)
  /\ attempt' = NoAttempt
  /\ UNCHANGED <<scope, findings, raised, deaths, shut, served>>

\* The process dies; its row stays RUNNING.
Die ==
  /\ attempt.at # "idle" /\ deaths < MaxDeaths
  /\ attempt' = NoAttempt
  /\ deaths' = deaths + 1
  /\ UNCHANGED <<scope, botRuns, findings, raised, shut, served>>

----------------------------------------------------------------------------
(* The rest of the system                                                  *)

\* What the breaker of a monitoring job and its attempts never read is left alone
\* beside one: findings and the verdicts of the guard.

\* Reconciliation, the risk engine or a persistence path raises a finding, about
\* whichever portfolio.
Raise ==
  /\ scope = "ENTRY" /\ raised < MaxFindings
  /\ findings' = findings \cup {0}
  /\ raised' = raised + 1
  /\ UNCHANGED <<scope, botRuns, deaths, shut, attempt, served>>

Acknowledge(f) ==
  /\ f \in findings
  /\ findings' = findings \ {f}
  /\ UNCHANGED <<scope, botRuns, raised, deaths, shut, attempt, served>>

\* A portfolio's status, session, kill switch, reconciliation or day snapshot changes.
Shut(p) ==
  /\ scope = "ENTRY" /\ p \notin shut
  /\ shut' = shut \cup {p}
  /\ UNCHANGED <<scope, botRuns, findings, raised, deaths, attempt, served>>

Reopen(p) ==
  /\ p \in shut
  /\ shut' = shut \ {p}
  /\ UNCHANGED <<scope, botRuns, findings, raised, deaths, attempt, served>>

\* A unit of time passes: rows and findings age, a run at work gets long.
Tick ==
  /\ botRuns' = [i \in DOMAIN botRuns |->
       IF attempt.at = "run" /\ i = 1 THEN [botRuns[i] EXCEPT !.lasted = 1]
       ELSE IF botRuns[i].finished THEN [botRuns[i] EXCEPT !.age = Older(@)]
       ELSE botRuns[i]]
  /\ findings' = {Older(f) : f \in findings}
  /\ UNCHANGED <<scope, raised, deaths, shut, attempt, served>>

AttemptStep == AskGuard \/ Begin \/ Throw \/ \E status \in {"SUCCESS", "FAILED"} : Finish(status)

JobNext ==
  \/ CronFires \/ AttemptStep \/ Die \/ Tick \/ Raise
  \/ \E p \in Portfolios : Shut(p) \/ Reopen(p)
  \/ \E f \in findings : Acknowledge(f)

\* Time passes and the cron fires whenever it may; an attempt goes on.
JobFairness == WF_jobVars(Tick) /\ SF_jobVars(CronFires) /\ WF_jobVars(AttemptStep) /\ SF_jobVars(Begin)

JobSpec == JobInit /\ [][JobNext]_jobVars /\ JobFairness

----------------------------------------------------------------------------
(* Properties                                                              *)

\* The breaker never wedges a job and one portfolio never keeps another from its
\* entries: with finitely many findings, a portfolio the guard passes from some
\* point on is worked on again and again, whatever happens to the others and
\* however often the attempts fail, once processes stop dying.
OpenPortfolioIsServed(p) ==
  (scope = "ENTRY" /\ <>[](p \notin shut)) => []<>(attempt.at = "run" /\ p \in served)
OpenPortfoliosAreServed == \A p \in Portfolios : OpenPortfolioIsServed(p)

\* A tripped breaker never blocks the monitoring and reconciliation jobs.
MonitoringIsNeverBlocked == scope = "MONITORING" => BreakerAllows

=============================================================================
