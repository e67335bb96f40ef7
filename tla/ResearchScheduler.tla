------------------------- MODULE ResearchScheduler -------------------------
(***************************************************************************)
(* The scheduler of the research worker (apps/worker/src/scheduler.ts) and  *)
(* the pipelines it starts (jobs/runCryptoSignalPipeline.ts,                *)
(* runEquitySignalPipeline.ts, runAssetDiscoveryPipeline.ts).  One process: *)
(* a flag per job keeps a cron tick from starting a job that still runs.    *)
(* A pipeline runs its children one after another; a child that reports     *)
(* FAILED lets the others go on, one that throws ends the pipeline.  Every   *)
(* step writes a log entry, and that may fail too.                         *)
(***************************************************************************)
EXTENDS Integers, Sequences, SequencesExt, FiniteSetsExt

CONSTANTS
  Jobs,        \* the pipelines that are scheduled, of Pipelines
  Switches,    \* [paper, regime, news, events]: which children the settings add
  OnStart,     \* jobs that also run when the scheduler starts
  Valid,       \* jobs whose cron expression is valid
  MaxInFlight, MaxRows, MaxProcesses   \* bounds

VARIABLES
  process,     \* "off", "up", "stopping", and how often it was started
  flags,       \* isRunning of each job
  inFlight,    \* runs between their start and their end
  botRuns,     \* the BotRun rows the pipelines write; whole: every child ran and none FAILED
  switches     \* the settings the pipelines read when they start

schedulerVars == <<process, flags, inFlight, botRuns, switches>>

Pipelines == {"crypto", "equity", "discovery"}

(* What a pipeline does, in order.                                         *)
Steps(job, s) ==
  LET if(on, step) == IF on THEN <<step>> ELSE <<>> IN
  CASE job = "crypto" ->
         <<"fetchCryptoCandles">> \o if(s.regime, "calculateMarketRegime") \o <<"analyzeCryptoSignals">>
         \o if(s.paper, "createPaperEvaluations") \o if(s.paper, "evaluatePaperSignals")
    [] job = "equity" ->
         <<"fetchEquityCandles">> \o if(s.news, "fetchEquityNews") \o if(s.events, "fetchEquityEvents")
         \o if(s.regime, "calculateMarketRegime") \o <<"analyzeEquitySignals">>
         \o if(s.paper, "createPaperEvaluations") \o if(s.paper, "evaluatePaperSignals")
    [] OTHER -> <<"universeRefresh", "discoveryScan", "selectActiveUniverse", "reconcileActiveUniverse">>

SchedulerInit ==
  /\ process = [at |-> "off", starts |-> 0]
  /\ flags = [job \in Jobs |-> FALSE]
  /\ inFlight = {} /\ botRuns = {}
  /\ switches \in Switches

Begun(job) == [job |-> job, id |-> 0, todo |-> <<>>, failed |-> FALSE, at |-> "flagged"]

----------------------------------------------------------------------------
(* The process                                                             *)

(* An expression that is not valid ends the start before a task exists.     *)
StartScheduler ==
  /\ process.at = "off" /\ process.starts < MaxProcesses
  /\ process' = [at |-> IF Jobs \subseteq Valid THEN "up" ELSE "off", starts |-> process.starts + 1]
  /\ inFlight' = IF Jobs \subseteq Valid THEN {Begun(job) : job \in OnStart} ELSE {}
  /\ flags' = [job \in Jobs |-> Jobs \subseteq Valid /\ job \in OnStart]
  /\ UNCHANGED <<botRuns, switches>>

OverlapsItself(job) ==
  /\ process.at = "up" /\ Cardinality(inFlight) < MaxInFlight
  /\ inFlight' = inFlight \cup {Begun(job)}
  /\ flags' = [flags EXCEPT ![job] = TRUE]
  /\ UNCHANGED <<process, botRuns, switches>>

(* runScheduledJob: a tick while the job runs is logged and skipped.        *)
CronTick(job) ==
  /\ process.at = "up" /\ Cardinality(inFlight) < MaxInFlight
  /\ ~flags[job]
  /\ flags' = [flags EXCEPT ![job] = TRUE]
  /\ inFlight' = inFlight \cup {Begun(job)}
  /\ UNCHANGED <<process, botRuns, switches>>

(* The log entry before the job is written outside of the try, the one      *)
(* after a failure in the catch: when either fails nobody handles it, and   *)
(* the process ends with everything it runs.                               *)
(* SIGTERM ends it as well: the tasks are stopped, what runs is not awaited. *)
Shutdown ==
  /\ process.at = "up"
  /\ process' = [process EXCEPT !.at = "stopping"]
  /\ UNCHANGED <<flags, inFlight, botRuns, switches>>

ProcessEnds ==
  /\ process.at = "stopping" \/ \E run \in inFlight : run.at \in {"flagged", "left"}
  /\ process' = [process EXCEPT !.at = "off"]
  /\ flags' = [job \in Jobs |-> FALSE]
  /\ inFlight' = {}
  /\ UNCHANGED <<botRuns, switches>>

----------------------------------------------------------------------------
(* A pipeline                                                              *)

Replace(run, changed) == inFlight' = (inFlight \ {run}) \cup {changed}
NextId == 1 + Max({0} \cup {row.id : row \in botRuns})
SetRow(id, status, run) ==
  botRuns' = {row \in botRuns : row.id # id}
            \cup {[id |-> id, job |-> run.job, status |-> status, whole |-> run.todo = <<>> /\ ~run.failed]}

StartPipeline(run) ==
  LET todo == Steps(run.job, switches) IN
  /\ run \in inFlight /\ run.at = "flagged" /\ Cardinality(botRuns) < MaxRows
  /\ Replace(run, [run EXCEPT !.at = "step", !.id = NextId, !.todo = todo])
  /\ SetRow(NextId, "RUNNING", [run EXCEPT !.todo = todo])
  /\ UNCHANGED <<process, flags, switches>>

(* A child reports SUCCESS or FAILED, and the next one starts either way.   *)
RunChild(run, status) ==
  /\ run \in inFlight /\ run.at = "step" /\ run.todo # <<>>
  /\ Replace(run, [run EXCEPT !.todo = Tail(@), !.failed = @ \/ status = "FAILED"])
  /\ UNCHANGED <<process, flags, botRuns, switches>>

(* A child, or a log entry around it, throws: the rest is not run.          *)
ChildThrows(run) ==
  /\ run \in inFlight /\ run.at = "step"
  /\ Replace(run, [run EXCEPT !.at = "threw"])
  /\ UNCHANGED <<process, flags, botRuns, switches>>

FinalStatus(run) == IF run.failed THEN "FAILED" ELSE "SUCCESS"

FinishCryptoPipeline(run) ==
  /\ run.job = "crypto" /\ run.at = "step" /\ run.todo = <<>>
  /\ SetRow(run.id, FinalStatus(run), run)
  /\ Replace(run, [run EXCEPT !.at = "ended"])
  /\ UNCHANGED <<process, flags, switches>>
FinishEquityPipeline(run) ==
  /\ run.job = "equity" /\ run.at = "step" /\ run.todo = <<>>
  /\ SetRow(run.id, FinalStatus(run), run)
  /\ Replace(run, [run EXCEPT !.at = "ended"])
  /\ UNCHANGED <<process, flags, switches>>
FinishDiscoveryPipeline(run) ==
  /\ run.job = "discovery" /\ run.at = "step" /\ run.todo = <<>>
  /\ SetRow(run.id, FinalStatus(run), run)
  /\ Replace(run, [run EXCEPT !.at = "ended"])
  /\ UNCHANGED <<process, flags, switches>>

(* The last log entry stands inside the try as well: when it fails, the     *)
(* catch overwrites the row that was just written.                         *)
LastLogFails(run) ==
  /\ run \in inFlight /\ run.at = "ended"
  /\ Replace(run, [run EXCEPT !.at = "threw"])
  /\ UNCHANGED <<process, flags, botRuns, switches>>

CatchCryptoPipeline(run) ==
  /\ run.job = "crypto" /\ run.at = "threw"
  /\ SetRow(run.id, "FAILED", run) /\ Replace(run, [run EXCEPT !.at = "left"])
  /\ UNCHANGED <<process, flags, switches>>
CatchEquityPipeline(run) ==
  /\ run.job = "equity" /\ run.at = "threw"
  /\ SetRow(run.id, "FAILED", run) /\ Replace(run, [run EXCEPT !.at = "left"])
  /\ UNCHANGED <<process, flags, switches>>
CatchDiscoveryPipeline(run) ==
  /\ run.job = "discovery" /\ run.at = "threw"
  /\ SetRow(run.id, "FAILED", run) /\ Replace(run, [run EXCEPT !.at = "left"])
  /\ UNCHANGED <<process, flags, switches>>

(* Writing the row, the first log entry, or the row in the catch fails: the  *)
(* row is missing or stays RUNNING.                                        *)
PipelineLost(run) ==
  /\ run \in inFlight
  /\ \/ run.at \in {"flagged", "threw"}
     \/ run.at = "step" /\ run.todo = Steps(run.job, switches)
  /\ Replace(run, [run EXCEPT !.at = "left"])
  /\ UNCHANGED <<process, flags, botRuns, switches>>

(* Whatever happened, the flag is taken back.                              *)
ReleaseJob(run) ==
  /\ run \in inFlight /\ run.at \in {"ended", "left"}
  /\ flags' = [flags EXCEPT ![run.job] = FALSE]
  /\ inFlight' = inFlight \ {run}
  /\ UNCHANGED <<process, botRuns, switches>>

SchedulerNext ==
  \/ StartScheduler \/ Shutdown \/ ProcessEnds
  \/ \E job \in Jobs : CronTick(job)
  \/ \E run \in inFlight :
       \/ StartPipeline(run) \/ ChildThrows(run) \/ PipelineLost(run) \/ LastLogFails(run) \/ ReleaseJob(run)
       \/ RunChild(run, "SUCCESS") \/ RunChild(run, "FAILED")
       \/ FinishCryptoPipeline(run) \/ FinishEquityPipeline(run) \/ FinishDiscoveryPipeline(run)
       \/ CatchCryptoPipeline(run) \/ CatchEquityPipeline(run) \/ CatchDiscoveryPipeline(run)

SchedulerSpec == SchedulerInit /\ [][SchedulerNext]_schedulerVars

----------------------------------------------------------------------------
SchedulerTypeOK ==
  /\ process.at \in {"off", "up", "stopping"} /\ process.starts \in 0..MaxProcesses
  /\ \A run \in inFlight : run.job \in Jobs /\ run.at \in {"flagged", "step", "threw", "ended", "left"}
  /\ \A row \in botRuns : row.status \in {"RUNNING", "SUCCESS", "FAILED"}

(* No pipeline runs beside itself, through ticks, failures and restarts, a  *)
(* job whose flag is down does not run, and a row says SUCCESS only of a    *)
(* run whose every child ran and reported SUCCESS                           *)
(* (scheduler.ts:149-192, runCryptoSignalPipeline.ts:138-146).              *)
PipelinesAreHonest ==
  /\ \A a \in inFlight, b \in inFlight : a # b => a.job # b.job
  /\ \A row \in botRuns : row.status = "SUCCESS" => row.whole
  /\ \A job \in Jobs : ~flags[job] => \A run \in inFlight : run.job # job

=============================================================================
