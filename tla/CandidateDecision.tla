-------------------------- MODULE CandidateDecision --------------------------
(***************************************************************************)
(* What becomes of a stored candidate: the risk run decides the oldest     *)
(* undecided candidates and carries out the directive of a verdict, the    *)
(* order run turns approved candidates into entry orders.  The verdicts    *)
(* of the risk engine are any it can give (module RiskEngine).  Where the  *)
(* candidates come from is module CandidateScan, the steps of an order's   *)
(* creation are in ShadowExecution.                                        *)
(***************************************************************************)
EXTENDS Integers, FiniteSetsExt, TradingStateMachines

CONSTANTS
  Keys,          \* candidate keys
  PortfolioOf,   \* the portfolio of each of them
  AssetOf,       \*   and the asset, all of one correlation group
  AssetCap, GroupCap, \* maxAssetExposurePct, maxCorrelatedExposurePct, in tenths of equity
  Obstacles,     \* what may be missing: <<"MARK", p>>, <<"LIMITS", p>>, <<"PROFILE", a>>
  Ttl,           \* how long a candidate is valid, in ticks
  BatchSize,     \* DEFAULT_BATCH_SIZE of the risk and order jobs
  MaxTime,       \* bounds for model checking: the clock,
  MaxChanges,    \*   changes of the session by others,
  MaxDeaths      \*   runs that die

VARIABLES
  clock,
  cands,         \* TradeCandidate: status, decision time, approved size, time of its entry order
  open,          \* candidates whose entry order or position is alive
  missing,       \* the marks of a portfolio's positions, its limit set, an asset's
                 \* approved execution profile, as far as they are not there
  session,       \* the latest session of each portfolio: status, kill switch, version
  owed,          \* decisions whose ENGAGE_KILL_SWITCH directive was not carried out
  risk, orderJob,\* what each run is doing
  changes, riskDeaths

decisionVars == <<clock, cands, open, missing, session, owed, risk, orderJob, changes, riskDeaths>>
world == <<clock, open, missing, changes, riskDeaths>>

Portfolios == {PortfolioOf[k] : k \in Keys}
Earlier(a, b) == IF a < b THEN a ELSE b
ExpiresAt(k) == cands[k].at + Ttl

\* One order or position per portfolio and asset.
SlotTaken(k) == \E o \in open : PortfolioOf[o] = PortfolioOf[k] /\ AssetOf[o] = AssetOf[k]
\* What the open orders and positions of a portfolio expose.
Exposure(p) == MapThenSumSet(LAMBDA k : cands[k].size, {k \in open : PortfolioOf[k] = p})

\* No session of the candidate's portfolio lets it trade.
Blocked(k) == session[PortfolioOf[k]].status # "OPEN" \/ session[PortfolioOf[k]].kill

NoCandidate == [status |-> "NONE", at |-> 0, size |-> 0, orderedAt |-> -1]
AnyKey == CHOOSE k \in Keys : TRUE
NoRisk == [at |-> "idle", asOf |-> 0, todo |-> {}, key |-> AnyKey, size |-> 0,
           kill |-> FALSE, version |-> 0]
NoOrders == [at |-> "idle", asOf |-> 0, todo |-> {}]

DecisionTypeOK ==
  /\ clock \in 0..MaxTime
  /\ cands \in [Keys -> [status : {"NONE", "CREATED", "APPROVED_FOR_SHADOW", "RISK_REJECTED"},
                         at : 0..MaxTime, size : 0..AssetCap, orderedAt : -1..MaxTime]]
  /\ owed \subseteq Keys /\ open \subseteq Keys /\ missing \subseteq Obstacles
  /\ session \in [Portfolios -> [status : {"OPEN", "ERROR_LOCKED", "CLOSED"}, kill : BOOLEAN,
                               version : Nat]]
  /\ risk.at \in {"idle", "next", "store", "session", "engage"} /\ risk.todo \subseteq Keys
  /\ orderJob.at \in {"idle", "next"} /\ orderJob.todo \subseteq Keys

DecisionInit ==
  /\ clock = 0
  /\ cands = [k \in Keys |-> NoCandidate]
  /\ open = {} /\ missing = {} /\ owed = {}
  /\ session = [p \in Portfolios |-> [status |-> "OPEN", kill |-> FALSE, version |-> 0]]
  /\ risk = NoRisk /\ orderJob = NoOrders
  /\ changes = 0 /\ riskDeaths = 0

----------------------------------------------------------------------------
(* The risk run                                                            *)

RiskGoes(at) == risk' = [risk EXCEPT !.at = at]
RiskDone == risk' = [risk EXCEPT !.at = "next", !.todo = @ \ {risk.key}]

MarksOf(k) == <<"MARK", PortfolioOf[k]>>
ProfileOf(k) == <<"PROFILE", AssetOf[k]>>
LimitsOf(k) == <<"LIMITS", PortfolioOf[k]>>
Assessable(k) == {MarksOf(k), ProfileOf(k), LimitsOf(k)} \cap missing = {}

\* The candidate whose turn it is: the oldest left of the batch.
Turn(k) ==
  risk.at = "next" /\ k \in risk.todo /\ \A j \in risk.todo : cands[k].at <= cands[j].at

\* Up to BatchSize of the keys, the earliest decision times first.
Oldest(keys) ==
  {B \in SUBSET keys :
     /\ Cardinality(B) = Earlier(BatchSize, Cardinality(keys))
     /\ \A b \in B, k \in keys \ B : cands[b].at <= cands[k].at}

Undecided == {k \in Keys : cands[k].status = "CREATED"}

RiskStart ==
  /\ risk.at = "idle" /\ Undecided # {}
  /\ \E B \in Oldest(Undecided) : risk' = [NoRisk EXCEPT !.at = "next", !.asOf = clock, !.todo = B]
  /\ UNCHANGED <<world, cands, session, owed, orderJob>>

RiskEnds ==
  /\ risk.at = "next" /\ risk.todo = {}
  /\ risk' = NoRisk
  /\ UNCHANGED <<world, cands, session, owed, orderJob>>


\* POSITION_MARK_UNAVAILABLE: this candidate is left for a later run.
Unmarked(k) ==
  /\ Turn(k) /\ MarksOf(k) \in missing
  /\ risk' = [risk EXCEPT !.todo = @ \ {k}]
  /\ UNCHANGED <<world, cands, session, owed, orderJob>>

\* The asset's execution profile is not the approved one: the portfolio's session is
\* locked, unless it is already, another writer wins or the audit insert throws (module
\* SessionControl), and the candidate is left undecided.
InvalidProfile(k) ==
  /\ Turn(k) /\ MarksOf(k) \notin missing /\ ProfileOf(k) \in missing
  /\ risk' = [risk EXCEPT !.todo = @ \ {k}]
  /\ LET now == session[PortfolioOf[k]] IN
     \/ now.status = "OPEN" /\ session' = [session EXCEPT ![PortfolioOf[k]] =
                          [status |-> "ERROR_LOCKED", kill |-> TRUE, version |-> now.version + 1]]
     \/ UNCHANGED session
  /\ UNCHANGED <<world, cands, owed, orderJob>>

\* No active limit set: the verdict cannot be stored, the candidate is left.
NoLimits(k) ==
  /\ Turn(k) /\ {MarksOf(k), ProfileOf(k)} \cap missing = {} /\ LimitsOf(k) \in missing
  /\ risk' = [risk EXCEPT !.todo = @ \ {k}]
  /\ UNCHANGED <<world, cands, session, owed, orderJob>>

\* evaluateRisk: a size within the caps, given the orders and positions there are,
\* or 0 for a refusal, which may carry the directive to engage the kill switch.
Assess(k, size, kill) ==
  /\ Turn(k) /\ Assessable(k)
  /\ size > 0 => /\ risk.asOf < ExpiresAt(k) /\ ~Blocked(k) /\ ~kill /\ ~SlotTaken(k)
                 /\ Exposure(PortfolioOf[k]) + size <= GroupCap
  /\ risk' = [risk EXCEPT !.at = "store", !.key = k, !.size = size, !.kill = kill]
  /\ UNCHANGED <<world, cands, session, owed, orderJob>>

\* persistRiskAssessment: assessment, decision and the candidate's three hops are
\* one transaction; a candidate that left CREATED makes it throw.
Decide ==
  /\ risk.at = "store"
  /\ IF cands[risk.key].status = "CREATED"
       THEN /\ cands' = [cands EXCEPT ![risk.key].size = risk.size, ![risk.key].status =
                           IF risk.size > 0 THEN "APPROVED_FOR_SHADOW" ELSE "RISK_REJECTED"]
            /\ IF risk.kill
                 THEN RiskGoes("session") /\ owed' = owed \cup {risk.key}
                 ELSE RiskDone /\ UNCHANGED owed
       ELSE RiskDone /\ UNCHANGED <<cands, owed>>
  /\ UNCHANGED <<world, session, orderJob>>

\* applyRiskDirective reads the session; without one there is nothing to engage, and
\* an engaged switch is left alone.
ReadSession ==
  /\ risk.at = "session"
  /\ LET now == session[PortfolioOf[risk.key]] IN
     IF Blocked(risk.key)
       THEN RiskDone /\ owed' = IF now.kill THEN owed \ {risk.key} ELSE owed
       ELSE risk' = [risk EXCEPT !.at = "engage", !.version = now.version] /\ UNCHANGED owed
  /\ UNCHANGED <<world, cands, session, orderJob>>

\* The compare-and-swap on the version; when it misses, nothing is retried.
Engage ==
  /\ risk.at = "engage"
  /\ IF session[PortfolioOf[risk.key]].version = risk.version
       THEN /\ session' = [session EXCEPT ![PortfolioOf[risk.key]] =
                             [@ EXCEPT !.kill = TRUE, !.version = @ + 1]]
            /\ owed' = owed \ {risk.key}
       ELSE UNCHANGED <<session, owed>>
  /\ RiskDone
  /\ UNCHANGED <<world, cands, orderJob>>

RiskStep ==
  \/ RiskEnds \/ Decide \/ ReadSession \/ Engage
  \/ \E k \in Keys : Unmarked(k) \/ InvalidProfile(k) \/ NoLimits(k)
  \/ \E k \in Keys, size \in 0..AssetCap, kill \in BOOLEAN : Assess(k, size, kill)

----------------------------------------------------------------------------
(* The order run                                                           *)

Ordered(k) == cands[k].orderedAt >= 0
Unordered == {k \in Keys : cands[k].status = "APPROVED_FOR_SHADOW" /\ ~Ordered(k)}

OrderStart ==
  /\ orderJob.at = "idle" /\ Unordered # {}
  /\ \E B \in Oldest(Unordered) : orderJob' = [at |-> "next", asOf |-> clock, todo |-> B]
  /\ UNCHANGED <<world, cands, session, owed, risk>>

OrderEnds ==
  /\ orderJob.at = "next" /\ orderJob.todo = {}
  /\ orderJob' = NoOrders
  /\ UNCHANGED <<world, cands, session, owed, risk>>

\* createShadowOrderForCandidate, as one step (module ShadowExecution has its own
\* steps): a session or slot that blocks leaves the candidate approved.
CreateOrder(k) ==
  /\ orderJob.at = "next" /\ k \in orderJob.todo
  /\ orderJob' = [orderJob EXCEPT !.todo = @ \ {k}]
  /\ IF Blocked(k) \/ SlotTaken(k) \/ Ordered(k)
       THEN UNCHANGED <<cands, open>>
       ELSE /\ cands' = [cands EXCEPT ![k].orderedAt = orderJob.asOf]
            /\ open' = open \cup {k}
  /\ UNCHANGED <<clock, missing, changes, riskDeaths, session, owed, risk>>

OrderStep == OrderEnds \/ \E k \in Keys : CreateOrder(k)

----------------------------------------------------------------------------
(* The rest of the system                                                  *)

runs == <<risk, orderJob>>

\* The scan stores a candidate while the slot is free.
Arrive(k) ==
  /\ cands[k].status = "NONE" /\ ~SlotTaken(k)
  /\ cands' = [cands EXCEPT ![k].status = "CREATED", ![k].at = clock]
  /\ UNCHANGED <<world, session, owed, runs>>

Tick == clock < MaxTime /\ clock' = clock + 1
        /\ UNCHANGED <<open, missing, changes, riskDeaths, cands, session, owed, runs>>

\* The order or position of a candidate ends.
Close(k) ==
  /\ k \in open /\ open' = open \ {k}
  /\ UNCHANGED <<clock, missing, changes, riskDeaths, cands, session, owed, runs>>

\* Marks, a limit set or a profile go missing or come back.
MissingChanges(x) ==
  /\ missing' = IF x \in missing THEN missing \ {x} ELSE missing \cup {x}
  /\ UNCHANGED <<clock, open, changes, riskDeaths, cands, session, owed, runs>>

\* An operator pauses or activates a session, releases the switch, or closes it.
SessionChanges(p) ==
  /\ changes < MaxChanges /\ changes' = changes + 1
  /\ \E status \in {"OPEN", "CLOSED"} :
       session' = [session EXCEPT ![p] =
                     [status |-> status, kill |-> FALSE, version |-> session[p].version + 1]]
  /\ UNCHANGED <<clock, open, missing, riskDeaths, cands, owed, runs>>

RiskDies ==
  /\ risk.at # "idle" /\ riskDeaths < MaxDeaths /\ riskDeaths' = riskDeaths + 1
  /\ risk' = NoRisk
  /\ UNCHANGED <<clock, open, missing, changes, cands, session, owed, orderJob>>

DecisionNext ==
  \/ RiskStart \/ RiskStep \/ RiskDies \/ OrderStart \/ OrderStep
  \/ Tick
  \/ \E k \in Keys : Arrive(k) \/ Close(k)
  \/ \E p \in Portfolios : SessionChanges(p)
  \/ \E x \in Obstacles : MissingChanges(x)

\* The cron keeps starting the jobs and a run goes on.
DecisionFairness ==
  WF_decisionVars(RiskStart) /\ WF_decisionVars(RiskStep)

DecisionSpec == DecisionInit /\ [][DecisionNext]_decisionVars /\ DecisionFairness

----------------------------------------------------------------------------
(* Properties                                                              *)

\* A stored candidate is decided although those of passed, too few to fill a batch,
\* may never be assessable, if from some point on every other one is: the run passes
\* over them.  Only the oldest are ever looked at (runShadowAssessRisk), so a batch
\* full of them would keep every younger candidate waiting for ever.
DecidedDespite(k, passed) ==
  <>[](\A j \in Undecided \ passed : Assessable(j))
    => [](cands[k].status # "NONE" => <>(k \notin Undecided))

\* A decision goes through the three hops of one transaction, each of which the
\* guards of the domain package let pass on the verdict and the decision stored with
\* it; nothing decides a candidate again, whichever run still holds it.  (The session
\* is looked at when the snapshot is taken, not at the hops.)
DecisionsFollowGuards ==
  [][\A k \in Keys :
       LET result   == IF cands'[k].size > 0 THEN "PASS" ELSE "FAIL"
           facts    == [claimed |-> TRUE, permits |-> TRUE, snapshotComplete |-> TRUE,
                        riskAssessmentStatus |-> result, decisionPresent |-> TRUE]
           decision == [decidedBefore |-> cands[k].status # "CREATED", candidateStatus |-> "READY_FOR_RISK",
                        riskAssessmentStatus |-> result,
                        outcome |-> IF cands'[k].size > 0 THEN "APPROVE_SHADOW" ELSE "REJECT"]
       IN  /\ cands[k].status \notin {"NONE", cands'[k].status} =>
                /\ CheckCandidateTransition(cands[k].status, "VALIDATING", facts)
                /\ CheckCandidateTransition("VALIDATING", "READY_FOR_RISK", facts)
                /\ CheckDecision(decision)
                /\ CheckCandidateTransition("READY_FOR_RISK", cands'[k].status, facts)
                /\ cands'[k].status = CandidateStatusForRiskStatus(result)
           /\ cands[k].status \in TerminalCandidateStatuses => cands'[k].size = cands[k].size]_decisionVars

\* No late entry on an old signal: an order is created while its candidate is valid.
NoLateOrder == \A k \in Keys : Ordered(k) => cands[k].orderedAt < ExpiresAt(k)

\* The orders and positions of a portfolio together stay within the cap of the
\* correlation group (R-015), whatever the order of approvals and order creations.
ExposureStaysCapped == \A p \in Portfolios : Exposure(p) <= GroupCap

\* The risk engine's directive to engage the kill switch is carried out.
DirectiveIsCarriedOut == owed # {} ~> owed = {}

=============================================================================
