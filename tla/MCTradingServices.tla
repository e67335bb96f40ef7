-------------------------- MODULE MCTradingServices --------------------------
(***************************************************************************)
(* Instances for TLC of the jobs and scripts of the trading worker that are  *)
(* modelled on their own.  A behaviour belongs to one of them: service names it,    *)
(* the variables of the others keep their initial values.                  *)
(***************************************************************************)
EXTENDS AlertOutbox, StrategySetup, ShadowBootstrap, Integers, FiniteSets, Sequences

CONSTANTS Services   \* the components of the run

VARIABLES
  service,
  scope, botRuns, findings, raised, deaths, shut, attempt, served,
  clock, assessed, open, missing, held, owed, riskRun, orderJob, changes, riskDeaths,
  now, stored, data, occupied, cands, refused, skipped, conflicts, cursor, scans, handRuns, scanDeaths

----------------------------------------------------------------------------
(* The alert outbox: module AlertOutbox itself, with the constants of the  *)
(* configuration: one alert, two runs of the dispatcher.                   *)

(* The scheduled jobs: two portfolios, both kinds of job                   *)

Jobs == INSTANCE JobScheduling WITH Portfolios <- {"p", "q"}, Scopes <- {"ENTRY", "MONITORING"},
          LookbackRuns <- 2, FailureLimit <- 2, Cooldown <- 1, MaxFindings <- 1, MaxDeaths <- 1

(* Candidates up to their order: two, of two portfolios or of one; and a  *)
(* queue of three before a batch of two, none of which gets any capital    *)

TwoCandidates == {"a", "b"}
ThreeCandidates == {"a", "b", "c"}
Own == [k \in TwoCandidates |-> k]
Shared == [k \in TwoCandidates |-> "a"]
TwoBooks == [k \in ThreeCandidates |-> IF k = "c" THEN "q" ELSE "p"]
TwoAssets == [k \in ThreeCandidates |-> IF k = "a" THEN "x" ELSE "y"]
Decision == INSTANCE CandidateDecision WITH cands <- assessed, risk <- riskRun, session <- held, Keys <- TwoCandidates,
          PortfolioOf <- Own, AssetOf <- Shared, AssetCap <- 1, GroupCap <- 1, Ttl <- 1, BatchSize <- 2,
          Obstacles <- {<<"LIMITS", "a">>}, MaxTime <- 1, MaxChanges <- 1, MaxDeaths <- 1
Queue == INSTANCE CandidateDecision WITH cands <- assessed, risk <- riskRun, session <- held, Keys <- ThreeCandidates,
          PortfolioOf <- TwoBooks, AssetOf <- TwoAssets, AssetCap <- 0, GroupCap <- 0, Ttl <- 1, BatchSize <- 2,
          Obstacles <- {<<"MARK", "q">>, <<"PROFILE", "x">>},
          MaxTime <- 1, MaxChanges <- 0, MaxDeaths <- 1
\* The queue's candidates, in the states of the other services too.
Queued == IF service = "Queue" THEN assessed ELSE [k \in ThreeCandidates |-> [status |-> "NONE", at |-> 0]]
QueueSeen == INSTANCE CandidateDecision WITH cands <- Queued, risk <- riskRun, session <- held,
          Keys <- ThreeCandidates, PortfolioOf <- TwoBooks, AssetOf <- TwoAssets, AssetCap <- 0, GroupCap <- 0,
          Ttl <- 1, BatchSize <- 2, Obstacles <- {}, MaxTime <- 1, MaxChanges <- 0, MaxDeaths <- 1
SameBook == INSTANCE CandidateDecision WITH cands <- assessed, risk <- riskRun, session <- held, Keys <- TwoCandidates,
          PortfolioOf <- Shared, AssetOf <- Own, AssetCap <- 2, GroupCap <- 3, Ttl <- 1, BatchSize <- 2,
          Obstacles <- {}, MaxTime <- 1, MaxChanges <- 1, MaxDeaths <- 1

(* The candidate scan of the schedule, which dies once                     *)

Scan == INSTANCE CandidateScan WITH Strategies <- {"s"}, ScanRuns <- {"cron"}, ByHand <- {},
          TicksPerAnchor <- 2, Ttl <- 3, MaxTime <- 3, MaxRevisions <- 1, MaxHandRuns <- 0, MaxDeaths <- 1

(* The bootstrap and the setup of two builds: modules ShadowBootstrap and  *)
(* StrategySetup themselves, beside what else writes their rows.           *)

----------------------------------------------------------------------------

On(s) == service = s
Rest(s) ==
  /\ On(s) /\ UNCHANGED service
  /\ ~On("Outbox") => UNCHANGED <<entries, attempts, delivered, overtaken, alertRuns, crashes>>
  /\ ~On("Jobs") => UNCHANGED <<scope, botRuns, findings, raised, deaths, shut, attempt, served>>
  /\ s \notin {"Decision", "Queue", "SameBook"} =>
       UNCHANGED <<clock, assessed, open, missing, held, owed, riskRun, orderJob, changes, riskDeaths>>
  /\ ~On("Scan") => UNCHANGED <<now, stored, data, occupied, cands, refused, skipped, conflicts, cursor, scans,
                                handRuns, scanDeaths>>
  /\ ~On("Setup") => UNCHANGED setupVars
  /\ ~On("Bootstrap") => UNCHANGED bootstrapVars

\* A component that is not the chosen one starts in one of its initial states.
Init ==
  /\ service \in Services
  /\ OutboxInit
  /\ Jobs!JobInit /\ (~On("Jobs") => scope = "ENTRY" /\ shut = {})
  /\ CASE On("SameBook") -> SameBook!DecisionInit [] On("Queue") -> Queue!DecisionInit
       [] OTHER -> Decision!DecisionInit
  /\ Scan!ScanInit /\ (~On("Scan") => ~occupied)
  /\ SetupInit /\ BootstrapInit

Next ==
  \/ Rest("Outbox") /\ OutboxNext
  \/ Rest("Jobs") /\ Jobs!JobNext
  \/ Rest("Decision") /\ Decision!DecisionNext
  \/ Rest("Queue") /\ Queue!DecisionNext
  \/ Rest("Scan") /\ Scan!ScanNext
  \/ Rest("Setup") /\ SetupNext
  \/ Rest("Bootstrap") /\ BootstrapNext

vars == <<service, outboxVars, Jobs!jobVars, Decision!decisionVars, Scan!scanVars, setupVars, bootstrapVars>>

\* The fairness of each component, for the behaviours that belong to it.  Starting
\* a run and its steps are never enabled together, nor are the end of a backoff
\* and of a claim: fairness of their disjunction is fairness of each.
Fairness ==
  /\ \A r \in AlertRuns : WF_outboxVars(On("Outbox") /\ (StartRun(r) \/ RunStep(r)))
  /\ \A k \in Keys : WF_outboxVars(On("Outbox") /\ (BackoffEnds(k) \/ ClaimExpires(k)))
  /\ WF_Jobs!jobVars(On("Jobs") /\ Jobs!Tick) /\ WF_Jobs!jobVars(On("Jobs") /\ Jobs!AttemptStep)
  /\ SF_Jobs!jobVars(On("Jobs") /\ Jobs!CronFires) /\ SF_Jobs!jobVars(On("Jobs") /\ Jobs!Begin)
  /\ WF_Queue!decisionVars(On("Queue") /\ (Queue!RiskStart \/ Queue!RiskStep))
  /\ WF_Scan!scanVars(On("Scan") /\ (Scan!ScanStart("cron") \/ Scan!ScanStep("cron")))
  /\ SF_Scan!scanVars(On("Scan") /\ (Scan!Refuse("cron") \/ Scan!Propose("cron")))
  /\ WF_Scan!scanVars(On("Scan") /\ Scan!Tick) /\ WF_Scan!scanVars(On("Scan") /\ Scan!StoreCandle)

Spec == Init /\ [][Next]_vars /\ Fairness

\* Candidates of one portfolio, on their own.
SameBookSpec == Init /\ [][Rest("SameBook") /\ SameBook!DecisionNext]_vars

----------------------------------------------------------------------------
(* Properties: those of the components, stated in their modules.           *)

TypeOK ==
  CASE On("Outbox") -> OutboxTypeOK [] On("Jobs") -> Jobs!JobTypeOK [] On("Scan") -> Scan!ScanTypeOK
    [] On("SameBook") -> SameBook!DecisionTypeOK [] On("Queue") -> Queue!DecisionTypeOK [] On("Setup") -> SetupTypeOK
    [] On("Bootstrap") -> BootstrapTypeOK [] OTHER -> Decision!DecisionTypeOK

\* What has ended stays as it ended: a delivered or dead alert unless its claim
\* expired under a run, and a decided candidate, by the guards of its transitions.
EndsAreFinal == FinalUnlessOvertaken /\ Decision!DecisionsFollowGuards

\* Every alert is received or uses up its attempts.
AlertsEnd == On("Outbox") => EveryAlertEnds

\* Neither the circuit breaker nor another portfolio stops entry work for ever.
\* (The module treats the portfolios alike; one of them is enough.)
OpenPortfoliosAreServed == On("Jobs") => Jobs!OpenPortfolioIsServed("q")


\* A portfolio's orders and positions stay within the cap of the correlation group.
ExposureStaysCapped == On("SameBook") => SameBook!ExposureStaysCapped

\* The candidate scan reaches the latest anchor.
AnchorsAreReached == On("Scan") => Scan!AnchorsAreReached

=============================================================================
