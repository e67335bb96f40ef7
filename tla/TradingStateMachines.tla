------------------------ MODULE TradingStateMachines ------------------------
(***************************************************************************)
(* The transition tables and guards of packages/trading-domain, as         *)
(* relations and predicates.  Only the session operations of the trading   *)
(* worker call these guards; the persistence code of candidates, orders,   *)
(* positions and exit plans writes statuses directly, so for those the     *)
(* tables are what the execution modules are checked AGAINST.              *)
(***************************************************************************)
EXTENDS Naturals

----------------------------------------------------------------------------
(* Trading session                                                         *)

SessionStatuses ==
  {"STOPPED", "SHADOW_ACTIVE", "PAUSED", "KILLED", "ERROR_LOCKED", "CLOSED"}

SessionTransitions ==
  ({"STOPPED"} \X {"SHADOW_ACTIVE", "KILLED", "ERROR_LOCKED"})
    \cup ({"SHADOW_ACTIVE"} \X {"PAUSED", "KILLED", "ERROR_LOCKED", "CLOSED"})
    \cup ({"PAUSED"} \X {"SHADOW_ACTIVE", "KILLED", "ERROR_LOCKED", "CLOSED"})
    \cup ({"KILLED", "ERROR_LOCKED"} \X {"STOPPED", "CLOSED"})

\* Nothing of the trading worker runs unless the build, the mode and the master flag
\* say shadow, and live trading is off.
CheckShadowOnlyCapability(capability) ==
  /\ capability.build = "SHADOW_ONLY"
  /\ ~capability.enableLiveTrading
  /\ capability.mode = "SHADOW"
  /\ capability.masterFlag

\* Only an active session whose kill switch is released creates candidates,
\* approves and reserves, or fills entries.
PermitsEntries(status, killSwitchEngaged) ==
  status = "SHADOW_ACTIVE" /\ ~killSwitchEngaged

\* The sessions in which open entry orders have to be cancelled.
MustCancelOpenEntryOrders(status, killSwitchEngaged) ==
  \/ status \in {"PAUSED", "KILLED", "ERROR_LOCKED"}
  \/ status = "SHADOW_ACTIVE" /\ killSwitchEngaged

\* Mutant: only a locked portfolio stops the activation.
CheckActivationSkipsDraft(facts) ==
  /\ ~facts.killSwitchEngaged
  /\ facts.portfolioStatus # "ERROR_LOCKED"
  /\ facts.reconcileSucceeded
  /\ facts.reconcileFresh
  /\ facts.prerequisitesMet
  /\ facts.unacknowledgedCriticalRiskEventCount = 0

\* What a caller of activateSession has established: facts is a record of the
\* values read from the database.
CheckSessionActivation(facts) ==
  /\ ~facts.killSwitchEngaged
  /\ facts.portfolioStatus = "ACTIVE"
  /\ facts.reconcileSucceeded
  /\ facts.reconcileFresh
  /\ facts.prerequisitesMet
  /\ facts.unacknowledgedCriticalRiskEventCount = 0

CheckSessionUnlock(facts) ==
  /\ facts.killCauseResolved
  /\ facts.riskEventsAcknowledged
  /\ facts.reconcileSucceeded
  /\ facts.unclearOrderCount = 0

\* Mutant: the kill switch can be released in any status.
CheckReleaseAnywhere(status, reconcileSucceeded) == reconcileSucceeded

\* The kill switch is released only from STOPPED, after a reconciliation; it
\* is engaged from every status but CLOSED.
CheckKillSwitchRelease(status, reconcileSucceeded) ==
  status = "STOPPED" /\ reconcileSucceeded

CheckKillSwitchEngage(status) == status # "CLOSED"

----------------------------------------------------------------------------
(* Trade candidate                                                         *)

CandidateTransitions ==
  ({"CREATED"} \X {"VALIDATING", "EXPIRED", "CANCELLED"})
    \cup ({"VALIDATING"} \X {"READY_FOR_RISK", "INVALID", "EXPIRED", "CANCELLED"})
    \cup ({"READY_FOR_RISK"} \X
            {"APPROVED_FOR_SHADOW", "RISK_REJECTED", "EXPIRED", "CANCELLED"})

TerminalCandidateStatuses ==
  {"APPROVED_FOR_SHADOW", "INVALID", "RISK_REJECTED", "EXPIRED", "CANCELLED"}

\* What the caller has to have established for the hop: an expiry needs the
\* deadline to have passed and no entry order, an approval a PASS and a decision
\* written with it.  permits: the session permits entries.
CheckCandidateTransition(from, to, facts) ==
  /\ <<from, to>> \in CandidateTransitions
  /\ CASE to = "VALIDATING" -> facts.claimed /\ facts.permits
       [] to = "READY_FOR_RISK" -> facts.permits /\ facts.snapshotComplete
       [] to = "APPROVED_FOR_SHADOW" ->
            facts.permits /\ facts.riskAssessmentStatus = "PASS" /\ facts.decisionPresent
       [] to = "RISK_REJECTED" -> facts.decisionPresent
       [] to = "EXPIRED" -> facts.isExpired /\ ~facts.hasEntryOrder
       [] OTHER -> TRUE

\* A decision is final, is made on a candidate that is ready and says what the
\* stored assessment implies.
CheckDecision(facts) ==
  /\ ~facts.decidedBefore
  /\ facts.candidateStatus = "READY_FOR_RISK"
  /\ facts.outcome =
       CASE facts.riskAssessmentStatus = "PASS" -> "APPROVE_SHADOW"
         [] facts.riskAssessmentStatus = "FAIL" -> "REJECT"
         [] OTHER -> "ERROR"

CandidateStatusForRiskStatus(status) ==
  IF status = "PASS" THEN "APPROVED_FOR_SHADOW" ELSE "RISK_REJECTED"

----------------------------------------------------------------------------
(* Shadow order                                                            *)

OrderStatuses ==
  {"PROPOSED", "ACCEPTED", "WAITING_FOR_ENTRY", "PARTIALLY_FILLED",
   "FILLED", "REJECTED", "CANCELLED", "EXPIRED"}

OrderTransitions ==
  ({"PROPOSED"} \X {"ACCEPTED", "REJECTED"})
    \cup ({"ACCEPTED"} \X {"WAITING_FOR_ENTRY", "CANCELLED"})
    \cup ({"WAITING_FOR_ENTRY", "PARTIALLY_FILLED"} \X
            {"PARTIALLY_FILLED", "FILLED", "CANCELLED", "EXPIRED"})

TerminalOrderStatuses == {"FILLED", "REJECTED", "CANCELLED", "EXPIRED"}

\* An order is FILLED exactly when nothing of it remains; an entry order is
\* accepted with its reserve, and filled while the session permits it.
CheckOrderTransition(from, to, facts) ==
  /\ <<from, to>> \in OrderTransitions
  /\ CASE to = "ACCEPTED" -> IF facts.isEntry THEN facts.permits /\ facts.reserved
                             ELSE facts.portfolioConsistent
       [] to = "WAITING_FOR_ENTRY" -> facts.earliestFillAtSet
       [] to = "PARTIALLY_FILLED" -> (facts.isEntry => facts.permits) /\ facts.remaining # 0
       [] to = "FILLED" -> (facts.isEntry => facts.permits) /\ facts.remaining = 0
       [] OTHER -> TRUE

----------------------------------------------------------------------------
(* Shadow position and exit plan                                           *)

PositionStatuses ==
  {"OPENING", "OPEN", "PARTIALLY_CLOSED",
   "CLOSED", "STOPPED_OUT", "INVALIDATED", "ERROR"}

PositionTransitions ==
  ({"OPENING"} \X {"OPEN", "ERROR"})
    \cup ({"OPEN", "PARTIALLY_CLOSED"} \X
            {"PARTIALLY_CLOSED", "CLOSED", "STOPPED_OUT", "INVALIDATED", "ERROR"})

TerminalPositionStatuses == {"CLOSED", "STOPPED_OUT", "INVALIDATED", "ERROR"}

Triggers ==
  {"STOP", "TAKE_PROFIT", "TIME_EXIT", "INVALIDATION", "MANUAL_RISK_CLOSE"}

\* The final triggers that a terminal position status admits.
FinalTriggerForStatus(status) ==
  CASE status = "CLOSED"      -> {"TAKE_PROFIT", "TIME_EXIT", "MANUAL_RISK_CLOSE"}
    [] status = "STOPPED_OUT" -> {"STOP"}
    [] status = "INVALIDATED" -> {"INVALIDATION"}
    [] OTHER                  -> {}

\* A position opens when its entry order has ended and something was filled, and
\* ends when nothing is open, in the status its last trigger admits; but for the
\* way into ERROR an exit plan covers it.
CheckPositionTransition(from, to, facts) ==
  /\ <<from, to>> \in PositionTransitions
  /\ to # "ERROR" =>
       /\ facts.exitPlanPresent
       /\ CASE to = "OPEN" -> facts.entryOrderSettled /\ facts.open > 0
            [] to = "PARTIALLY_CLOSED" -> facts.open > 0
            [] OTHER -> facts.open = 0 /\ facts.finalTrigger \in FinalTriggerForStatus(to)

ExitPlanTransitions ==
  ({"ACTIVE"} \X {"TRIGGERED", "CANCELLED"}) \cup {<<"TRIGGERED", "COMPLETED">>}

\* A plan is triggered by one reason and one candle, and completed after its
\* position and the last of its exit fills.
CheckExitPlanTransition(from, to, facts) ==
  /\ <<from, to>> \in ExitPlanTransitions
  /\ CASE to = "TRIGGERED" -> facts.triggeredBy \in Triggers /\ facts.sourceCandle # 0
       [] to = "COMPLETED" -> facts.positionTerminal /\ ~facts.openExitsRemain
       [] OTHER -> ~facts.positionHasExposure

=============================================================================
