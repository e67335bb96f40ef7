------------------------ MODULE SessionControlProofs ------------------------
(***************************************************************************)
(* What holds of SessionControl for any callers, findings, prerequisites   *)
(* and any bound on the version: its type, the soundness of its optimistic *)
(* reads, the completeness of its locks, and that it implements the        *)
(* abstract SessionMachine.                                                *)
(***************************************************************************)
EXTENDS SessionControl, TLAPS

(* The inductive invariant.  Every caller's read lies in the past, a read  *)
(* whose version still matches is current, and what a caller's guard has   *)
(* established of its read is remembered by the step it is in.             *)

ReadInPast ==
  \A c \in Callers :
    /\ callers[c].seen.version <= session.version
    /\ callers[c].seenPortfolio <= portfolio.version
    /\ callers[c].seen.reconciled => session.reconciled

\* Idle callers hold FirstSession, so version 0 has to mean that row.
FirstVersion ==
  session.version = 0 => session.status = "STOPPED" /\ session.killSwitchEngaged

Reachable == session.status \in {"STOPPED", "SHADOW_ACTIVE", "PAUSED", "ERROR_LOCKED"}

GuardsHeld ==
  \A c \in Callers :
    /\ callers[c].op = "RELEASE" => callers[c].seen.status = "STOPPED"
    /\ callers[c].op = "PAUSE" => callers[c].seen.status = "SHADOW_ACTIVE"
    /\ At(c, "ACTIVATE", "checked") =>
         /\ callers[c].seen.status \in {"STOPPED", "PAUSED"}
         /\ ~callers[c].seen.killSwitchEngaged
         /\ callers[c].seen.reconciled
         /\ portfolio.status # "DRAFT"
    /\ At(c, "UNLOCK", "checked") => callers[c].seen.status \in {"KILLED", "ERROR_LOCKED"}
    /\ callers[c].op = "ACTIVATE_PORTFOLIO" /\ callers[c].seenPortfolio = portfolio.version
         => portfolio.status = "DRAFT"

IInv ==
  /\ TypeOK
  /\ ReadIsCurrent
  /\ LockIsComplete
  /\ TradesOnlyWhenPrepared
  /\ ReadInPast
  /\ FirstVersion
  /\ Reachable
  /\ GuardsHeld

----------------------------------------------------------------------------

LEMMA Transitions ==
  /\ \A s : <<s, "PAUSED">> \in SessionTransitions <=> s = "SHADOW_ACTIVE"
  /\ \A s : <<s, "SHADOW_ACTIVE">> \in SessionTransitions <=> s \in {"STOPPED", "PAUSED"}
  /\ \A s : <<s, "STOPPED">> \in SessionTransitions <=> s \in {"KILLED", "ERROR_LOCKED"}
  /\ \A s : s \in {"STOPPED", "SHADOW_ACTIVE", "PAUSED"} =>
       <<s, "ERROR_LOCKED">> \in SessionTransitions
BY DEF SessionTransitions

(* The building blocks of a step: what reading, finishing, writing and     *)
(* locking do to the typed state.                                          *)

LEMMA IdleTyped == Idle \in Caller
BY DEF Idle, Caller, FirstSession, Session, SessionStatuses

LEMMA CallerUpdate ==
  ASSUME callers \in [Callers -> Caller], NEW c \in Callers, NEW x \in Caller,
         callers' = [callers EXCEPT ![c] = x]
  PROVE  /\ callers' \in [Callers -> Caller]
         /\ callers'[c] = x
         /\ \A d \in Callers \ {c} : callers'[d] = callers[d]
OBVIOUS

LEMMA DoneEffect ==
  ASSUME callers \in [Callers -> Caller], NEW c \in Callers, Done(c)
  PROVE  /\ callers' \in [Callers -> Caller]
         /\ callers'[c] = Idle
         /\ \A d \in Callers \ {c} : callers'[d] = callers[d]
BY IdleTyped, CallerUpdate DEF Done

LEMMA ReadEffect ==
  ASSUME TypeOK, NEW c \in Callers, NEW op \in SessionOps,
         ReadSession(c, op) \/ ReadBoth(c, op)
  PROVE  /\ callers' \in [Callers -> Caller]
         /\ callers'[c].op = op
         /\ callers'[c].step = "read"
         /\ callers'[c].seen = session
         /\ callers'[c].seenPortfolio \in {0, portfolio.version}
         /\ \A d \in Callers \ {c} : callers'[d] = callers[d]
         /\ UNCHANGED rows
<1> DEFINE read(v) == [op |-> op, step |-> "read", seen |-> session, seenPortfolio |-> v]
<1>1. \A v \in Nat : read(v) \in Caller
  BY DEF TypeOK, Caller
<1>2. portfolio.version \in Nat
  BY DEF TypeOK, Portfolio
<1>3. CASE ReadSession(c, op)
  <2>1. callers' = [callers EXCEPT ![c] = read(0)]
    BY <1>3 DEF ReadSession
  <2>2. callers' \in [Callers -> Caller] /\ callers'[c] = read(0)
        /\ \A d \in Callers \ {c} : callers'[d] = callers[d]
    BY <1>1, <2>1, CallerUpdate DEF TypeOK
  <2>3. QED
    BY <1>3, <2>2 DEF ReadSession
<1>4. CASE ReadBoth(c, op)
  <2>1. callers' = [callers EXCEPT ![c] = read(portfolio.version)]
    BY <1>4 DEF ReadBoth
  <2>2. callers' \in [Callers -> Caller] /\ callers'[c] = read(portfolio.version)
        /\ \A d \in Callers \ {c} : callers'[d] = callers[d]
    BY <1>1, <1>2, <2>1, CallerUpdate DEF TypeOK
  <2>3. QED
    BY <1>4, <2>2 DEF ReadBoth
<1>5. QED
  BY <1>3, <1>4

LEMMA CheckEffect ==
  ASSUME TypeOK, NEW c \in Callers, callers' = [callers EXCEPT ![c].step = "checked"]
  PROVE  /\ callers' \in [Callers -> Caller]
         /\ callers'[c] = [callers[c] EXCEPT !.step = "checked"]
         /\ \A d \in Callers \ {c} : callers'[d] = callers[d]
<1>1. [callers[c] EXCEPT !.step = "checked"] \in Caller
  BY DEF TypeOK, Caller
<1>2. callers' = [callers EXCEPT ![c] = [callers[c] EXCEPT !.step = "checked"]]
  BY DEF TypeOK
<1>3. QED
  BY <1>1, <1>2, CallerUpdate DEF TypeOK

LEMMA WriteEffect ==
  ASSUME session \in Session, NEW status \in SessionStatuses, NEW kill \in BOOLEAN,
         Write(status, kill)
  PROVE  /\ session' \in Session
         /\ session'.status = status
         /\ session'.killSwitchEngaged = kill
         /\ session'.version = session.version + 1
         /\ session'.reconciled = session.reconciled
<1>1. session' = [session EXCEPT !.status = status, !.killSwitchEngaged = kill,
                                 !.version = session.version + 1]
  BY DEF Write
<1>2. session.version + 1 \in Nat
  BY DEF Session
<1>3. session' \in Session
  BY <1>1, <1>2 DEF Session
<1>4. /\ session'.status = status
      /\ session'.version = session.version + 1
      /\ session'.reconciled = session.reconciled
  BY <1>1 DEF Session
<1>5. session'.killSwitchEngaged = kill
  BY <1>1 DEF Session
<1>6. QED
  BY <1>3, <1>4, <1>5

LEMMA LockSessionEffect ==
  ASSUME session \in Session, LockSession
  PROVE  /\ session' \in Session
         /\ session'.status = "ERROR_LOCKED"
         /\ session'.reconciled = session.reconciled
         /\ \/ session' = session
            \/ /\ session'.version = session.version + 1
               /\ session'.killSwitchEngaged
<1>1. CASE session.status # "ERROR_LOCKED"
  <2>1. Write("ERROR_LOCKED", TRUE)
    BY <1>1 DEF LockSession
  <2>2. QED
    BY <2>1, WriteEffect DEF SessionStatuses
<1>2. CASE session.status = "ERROR_LOCKED"
  BY <1>2 DEF LockSession
<1>3. QED
  BY <1>1, <1>2

LEMMA LockPortfolioEffect ==
  ASSUME portfolio \in Portfolio, LockPortfolio
  PROVE  /\ portfolio' \in Portfolio
         /\ portfolio'.status = "ERROR_LOCKED"
         /\ portfolio' = portfolio \/ portfolio'.version = portfolio.version + 1
BY DEF LockPortfolio, Portfolio

LEMMA UpsertEffect ==
  ASSUME events \in [Findings -> {"absent", "open", "acknowledged"}], NEW f, Upsert(f)
  PROVE  events' \in [Findings -> {"absent", "open", "acknowledged"}]
BY DEF Upsert

LEMMA LockIfAsReadEffect ==
  ASSUME session \in Session, NEW c \in Callers, LockSessionIfAsRead(c)
  PROVE  \/ session' = session
         \/ /\ session' \in Session
            /\ session'.status = "ERROR_LOCKED"
            /\ session'.killSwitchEngaged
            /\ session'.version = session.version + 1
            /\ session'.reconciled = session.reconciled
            /\ callers[c].seen.status # "ERROR_LOCKED"
            /\ SessionAsRead(c)
<1>1. CASE UNCHANGED session
  BY <1>1
<1>2. CASE Write("ERROR_LOCKED", TRUE) /\ callers[c].seen.status # "ERROR_LOCKED"
           /\ SessionAsRead(c)
  BY <1>2, WriteEffect DEF SessionStatuses
<1>3. QED
  BY <1>1, <1>2 DEF LockSessionIfAsRead

----------------------------------------------------------------------------
(* Every caller step is a read, a check, a finish without effect, or one   *)
(* of the commits.                                                         *)

Reads(c) ==
  \/ ActivatePortfolioRead(c) \/ ReleaseKillSwitchRead(c) \/ EngageKillSwitchRead(c)
  \/ PauseSessionRead(c) \/ ActivateSessionRead(c) \/ UnlockSessionRead(c)
  \/ RiskDirectiveRead(c) \/ LimitSetLockRead(c) \/ ProfileLockRead(c) \/ ReconcileRead(c)

Checks(c) == ActivateSessionCheck(c) \/ UnlockSessionCheck(c)

Finishes(c) == ProfileLockThrows(c) \/ Conflict(c) \/ Refused(c) \/ Crash(c)

Writes(c) ==
  \/ ReleaseKillSwitchCommit(c) \/ EngageKillSwitchCommit(c) \/ PauseSessionCommit(c)
  \/ ActivateSessionCommit(c) \/ UnlockSessionCommit(c) \/ RiskDirectiveCommit(c)

Locks(c) ==
  \/ LimitSetLockCommit(c) \/ ProfileLockCommit(c)
  \/ \E f \in OtherFindings : ReconcileMismatch(c, f)

LEMMA StepKinds ==
  ASSUME NEW c \in Callers,
         OperatorCommand(c) \/ JobStep(c) \/ Conflict(c) \/ Refused(c) \/ Crash(c)
  PROVE  \/ Reads(c) \/ Checks(c) \/ Finishes(c) \/ Writes(c) \/ Locks(c)
         \/ ActivatePortfolioCommit(c) \/ ReconcileConsistent(c)
BY DEF OperatorCommand, JobStep, Reads, Checks, Finishes, Writes, Locks

LEMMA ReadsEffect ==
  ASSUME TypeOK, NEW c \in Callers, Reads(c)
  PROVE  \E op \in SessionOps :
           /\ ReadSession(c, op) \/ ReadBoth(c, op)
           /\ op = "RELEASE" => session.status = "STOPPED"
           /\ op = "PAUSE" => session.status = "SHADOW_ACTIVE"
           /\ op = "ACTIVATE_PORTFOLIO" => portfolio.status = "DRAFT"
BY Transitions DEF Reads, SessionOps, CheckKillSwitchRelease,
   ActivatePortfolioRead, ReleaseKillSwitchRead, EngageKillSwitchRead, PauseSessionRead,
   ActivateSessionRead, UnlockSessionRead, RiskDirectiveRead, LimitSetLockRead,
   ProfileLockRead, ReconcileRead

LEMMA FinishesEffect ==
  ASSUME NEW c \in Callers, Finishes(c)
  PROVE  Done(c) /\ UNCHANGED rows
BY DEF Finishes, ProfileLockThrows, Conflict, Refused, Crash

LEMMA WritesEffect ==
  ASSUME TypeOK, NEW c \in Callers, Writes(c)
  PROVE  /\ Done(c)
         /\ SessionAsRead(c)
         /\ UNCHANGED <<portfolio, events, auditKeys, satisfied, fresh>>
         /\ session' \in Session
         /\ session'.version = session.version + 1
         /\ session'.reconciled = session.reconciled
<1>1. session \in Session /\ session.status \in SessionStatuses
      /\ session.killSwitchEngaged \in BOOLEAN
  BY DEF TypeOK, Session
<1>2. \E status \in SessionStatuses, kill \in BOOLEAN : Write(status, kill)
  <2>1. CASE ReleaseKillSwitchCommit(c)
    BY <1>1, <2>1 DEF ReleaseKillSwitchCommit
  <2>2. CASE EngageKillSwitchCommit(c)
    BY <1>1, <2>2 DEF EngageKillSwitchCommit
  <2>3. CASE PauseSessionCommit(c)
    BY <1>1, <2>3 DEF PauseSessionCommit, SessionStatuses
  <2>4. CASE ActivateSessionCommit(c)
    BY <1>1, <2>4 DEF ActivateSessionCommit, SessionStatuses
  <2>5. CASE UnlockSessionCommit(c)
    BY <1>1, <2>5 DEF UnlockSessionCommit, SessionStatuses
  <2>6. CASE RiskDirectiveCommit(c)
    BY <1>1, <2>6 DEF RiskDirectiveCommit
  <2>7. QED
    BY <2>1, <2>2, <2>3, <2>4, <2>5, <2>6 DEF Writes
<1>3. Done(c) /\ SessionAsRead(c)
      /\ UNCHANGED <<portfolio, events, auditKeys, satisfied, fresh>>
  BY DEF Writes, ReleaseKillSwitchCommit, EngageKillSwitchCommit, PauseSessionCommit,
    ActivateSessionCommit, UnlockSessionCommit, RiskDirectiveCommit
<1>4. QED
  BY <1>1, <1>2, <1>3, WriteEffect

LEMMA LocksEffect ==
  ASSUME TypeOK, NEW c \in Callers, Locks(c)
  PROVE  /\ Done(c)
         /\ LockPortfolio
         /\ LockSession \/ LockSessionIfAsRead(c)
         /\ events' \in [Findings -> {"absent", "open", "acknowledged"}]
         /\ auditKeys' \subseteq Findings
         /\ UNCHANGED <<satisfied, fresh>>
<1>1. CASE LimitSetLockCommit(c)
  BY <1>1 DEF LimitSetLockCommit, TypeOK
<1>2. CASE ProfileLockCommit(c)
  BY <1>2, UpsertEffect, ControlAssumption DEF ProfileLockCommit, TypeOK
<1>3. CASE \E f \in OtherFindings : ReconcileMismatch(c, f)
  BY <1>3, UpsertEffect DEF ReconcileMismatch, TypeOK
<1>4. QED
  BY <1>1, <1>2, <1>3 DEF Locks

LEMMA ReconcileEffect ==
  ASSUME TypeOK, NEW c \in Callers, ReconcileConsistent(c)
  PROVE  /\ session' \in Session
         /\ session'.status = session.status
         /\ session'.killSwitchEngaged = session.killSwitchEngaged
         /\ session'.version = session.version + 1
         /\ session'.reconciled
         /\ portfolio' \in Portfolio
         /\ portfolio'.status = portfolio.status
         /\ portfolio'.version = portfolio.version + 1
<1>1. /\ session' = [session EXCEPT !.reconciled = TRUE, !.version = session.version + 1]
      /\ portfolio' = [portfolio EXCEPT !.version = portfolio.version + 1]
  BY DEF ReconcileConsistent
<1>2. session.version + 1 \in Nat /\ portfolio.version + 1 \in Nat
  BY DEF TypeOK, Session, Portfolio
<1>3. session' \in Session
  BY <1>1, <1>2 DEF TypeOK, Session
<1>4. portfolio' \in Portfolio
  BY <1>1, <1>2 DEF TypeOK, Portfolio
<1>5. session'.status = session.status /\ session'.version = session.version + 1
  BY <1>1 DEF TypeOK, Session
<1>6. session'.killSwitchEngaged = session.killSwitchEngaged
  BY <1>1 DEF TypeOK, Session
<1>7. session'.reconciled
  BY <1>1 DEF TypeOK, Session
<1>8. portfolio'.status = portfolio.status /\ portfolio'.version = portfolio.version + 1
  BY <1>1 DEF TypeOK, Portfolio
<1>9. QED
  BY <1>3, <1>4, <1>5, <1>6, <1>7, <1>8

----------------------------------------------------------------------------
(* Type correctness                                                        *)

LEMMA InitTyped == Init => TypeOK
<1> SUFFICES ASSUME Init PROVE TypeOK
  OBVIOUS
<1>1. session \in Session /\ portfolio \in Portfolio
  BY DEF Init, Session, Portfolio, FirstSession, SessionStatuses
<1>2. callers \in [Callers -> Caller]
  BY IdleTyped DEF Init
<1>3. QED
  BY <1>1, <1>2 DEF Init, TypeOK

LEMMA TypeStep == ASSUME TypeOK, [Next]_vars PROVE TypeOK'
<1>1. ASSUME NEW c \in Callers, Reads(c) PROVE TypeOK'
  BY <1>1, ReadsEffect, ReadEffect DEF TypeOK, rows
<1>2. ASSUME NEW c \in Callers, Checks(c) PROVE TypeOK'
  BY <1>2, CheckEffect DEF Checks, ActivateSessionCheck, UnlockSessionCheck, TypeOK, rows
<1>3. ASSUME NEW c \in Callers, Finishes(c) PROVE TypeOK'
  BY <1>3, FinishesEffect, DoneEffect DEF TypeOK, rows
<1>4. ASSUME NEW c \in Callers, Writes(c) PROVE TypeOK'
  BY <1>4, WritesEffect, DoneEffect DEF TypeOK
<1>5. ASSUME NEW c \in Callers, Locks(c) PROVE TypeOK'
  BY <1>5, LocksEffect, DoneEffect, LockSessionEffect, LockIfAsReadEffect,
     LockPortfolioEffect DEF TypeOK
<1>6. ASSUME NEW c \in Callers, ActivatePortfolioCommit(c) PROVE TypeOK'
  BY <1>6, DoneEffect DEF ActivatePortfolioCommit, TypeOK, Portfolio
<1>7. ASSUME NEW c \in Callers, ReconcileConsistent(c) PROVE TypeOK'
  <2>1. callers' \in [Callers -> Caller]
    BY <1>7, DoneEffect DEF ReconcileConsistent, TypeOK
  <2>2. session' \in Session /\ portfolio' \in Portfolio
    BY <1>7, ReconcileEffect
  <2>3. QED
    BY <1>7, <2>1, <2>2 DEF ReconcileConsistent, TypeOK
<1>8. ASSUME NEW f \in Findings, ErrorLock(f) \/ RaiseEvent(f) \/ Acknowledge(f)
      PROVE TypeOK'
  <2>1. CASE ErrorLock(f)
    BY <2>1, LockSessionEffect, LockPortfolioEffect, UpsertEffect DEF ErrorLock, TypeOK
  <2>2. CASE RaiseEvent(f)
    BY <2>2, UpsertEffect DEF RaiseEvent, TypeOK
  <2>3. CASE Acknowledge(f)
    BY <2>3 DEF Acknowledge, TypeOK
  <2>4. QED
    BY <1>8, <2>1, <2>2, <2>3
<1>9. CASE FiveMinutesPass \/ (\E p \in Prerequisites : PrerequisiteChanges(p))
           \/ UNCHANGED vars
  BY <1>9 DEF FiveMinutesPass, PrerequisiteChanges, vars, TypeOK
<1>10. ASSUME NEW c \in Callers,
              OperatorCommand(c) \/ JobStep(c) \/ Conflict(c) \/ Refused(c) \/ Crash(c)
       PROVE TypeOK'
  BY <1>1, <1>2, <1>3, <1>4, <1>5, <1>6, <1>7, <1>10, StepKinds
<1>11. QED
  BY <1>8, <1>9, <1>10 DEF Next, OtherFindings

\* The rows and everything the callers hold keep their types, whatever the
\* interleaving of commands and jobs.
THEOREM TypeCorrect == Spec => []TypeOK
BY InitTyped, TypeStep, PTL DEF Spec

----------------------------------------------------------------------------
(* The inductive invariant is preserved                                    *)

LEMMA IdleFacts ==
  /\ Idle.op = "NONE" /\ Idle.seenPortfolio = 0
  /\ Idle.seen.version = 0 /\ Idle.seen.status = "STOPPED"
  /\ Idle.seen.killSwitchEngaged /\ ~Idle.seen.reconciled
BY DEF Idle, FirstSession

LEMMA InitInvariant == Init => IInv
<1> SUFFICES ASSUME Init PROVE IInv
  OBVIOUS
<1>1. session = FirstSession /\ \A c \in Callers : callers[c] = Idle
  BY DEF Init
<1>2. GuardsHeld
  BY <1>1, IdleFacts DEF At, GuardsHeld
<1>3. ReadIsCurrent
  <2>1. \A c \in Callers : callers[c].seen = session
    BY <1>1 DEF Idle
  <2>2. QED
    BY <2>1 DEF ReadIsCurrent
<1>4. ReadInPast
  BY <1>1, IdleFacts DEF Init, FirstSession, ReadInPast
<1>5. LockIsComplete /\ TradesOnlyWhenPrepared /\ FirstVersion /\ Reachable
  BY <1>1 DEF FirstSession, LockIsComplete, TradesOnlyWhenPrepared, FirstVersion, Reachable
<1>6. QED
  BY <1>2, <1>3, <1>4, <1>5, InitTyped DEF IInv

LEMMA VersionsTyped ==
  ASSUME TypeOK
  PROVE  session.version \in Nat /\ portfolio.version \in Nat
BY DEF TypeOK, Session, Portfolio

LEMMA ReadsStep ==
  ASSUME IInv, TypeOK', NEW c \in Callers, Reads(c) PROVE IInv'
<1>1. PICK op \in SessionOps :
        /\ ReadSession(c, op) \/ ReadBoth(c, op)
        /\ op = "RELEASE" => session.status = "STOPPED"
        /\ op = "PAUSE" => session.status = "SHADOW_ACTIVE"
        /\ op = "ACTIVATE_PORTFOLIO" => portfolio.status = "DRAFT"
  BY ReadsEffect DEF IInv
<1>2. /\ callers'[c].op = op
      /\ callers'[c].step = "read"
      /\ callers'[c].seen = session
      /\ callers'[c].seenPortfolio \in {0, portfolio.version}
      /\ \A d \in Callers \ {c} : callers'[d] = callers[d]
      /\ session' = session /\ portfolio' = portfolio
  BY <1>1, ReadEffect DEF IInv, rows
<1>3. ReadIsCurrent'
  BY <1>2 DEF IInv, ReadIsCurrent
<1>4. ReadInPast'
  BY <1>2, VersionsTyped DEF IInv, ReadInPast
<1>5. GuardsHeld'
  BY <1>1, <1>2 DEF IInv, GuardsHeld, At
<1>6. QED
  BY <1>2, <1>3, <1>4, <1>5
  DEF IInv, LockIsComplete, TradesOnlyWhenPrepared, FirstVersion, Reachable

LEMMA ChecksStep ==
  ASSUME IInv, TypeOK', NEW c \in Callers, Checks(c) PROVE IInv'
<1>1. /\ session' = session /\ portfolio' = portfolio
      /\ callers' = [callers EXCEPT ![c].step = "checked"]
  BY DEF Checks, ActivateSessionCheck, UnlockSessionCheck, rows
<1>2. /\ callers'[c] = [callers[c] EXCEPT !.step = "checked"]
      /\ \A d \in Callers \ {c} : callers'[d] = callers[d]
  BY <1>1, CheckEffect DEF IInv
<1>3. /\ callers'[c].op = callers[c].op
      /\ callers'[c].seen = callers[c].seen
      /\ callers'[c].seenPortfolio = callers[c].seenPortfolio
  BY <1>2 DEF IInv, TypeOK, Caller
<1>4. callers[c].op = "ACTIVATE" =>
        /\ callers[c].seen.status \in {"STOPPED", "PAUSED"}
        /\ ~callers[c].seen.killSwitchEngaged
        /\ callers[c].seen.reconciled
        /\ portfolio.status # "DRAFT"
  BY Transitions DEF Checks, ActivateSessionCheck, UnlockSessionCheck, At,
     CheckSessionActivation, ActivationFacts
<1>5. callers[c].op = "UNLOCK" => callers[c].seen.status \in {"KILLED", "ERROR_LOCKED"}
  BY Transitions DEF Checks, ActivateSessionCheck, UnlockSessionCheck, At
<1>6. ReadIsCurrent' /\ ReadInPast'
  BY <1>1, <1>2, <1>3 DEF IInv, ReadIsCurrent, ReadInPast
<1>7. GuardsHeld'
  BY <1>1, <1>2, <1>3, <1>4, <1>5 DEF IInv, GuardsHeld, At
<1>8. QED
  BY <1>1, <1>6, <1>7
  DEF IInv, LockIsComplete, TradesOnlyWhenPrepared, FirstVersion, Reachable

\* Callers that stay or go idle have read the past while the session stays and
\* the portfolio's version does not go back.
LEMMA PastFrame ==
  ASSUME IInv, TypeOK',
         \A d \in Callers : callers'[d] = Idle \/ callers'[d] = callers[d],
         session' = session,
         portfolio' = portfolio \/ portfolio'.version = portfolio.version + 1
  PROVE  ReadInPast'
<1> SUFFICES ASSUME NEW d \in Callers
             PROVE  /\ callers'[d].seen.version <= session.version
                    /\ callers'[d].seenPortfolio <= portfolio'.version
                    /\ callers'[d].seen.reconciled => session.reconciled
  BY DEF ReadInPast
<1>1. /\ session.version \in Nat /\ portfolio.version \in Nat /\ portfolio'.version \in Nat
      /\ callers[d].seenPortfolio \in Nat
      /\ portfolio.version <= portfolio'.version
  BY DEF IInv, TypeOK, Caller, Session, Portfolio
<1>2. CASE callers'[d] = Idle
  BY <1>1, <1>2 DEF Idle, FirstSession
<1>3. CASE callers'[d] = callers[d]
  BY <1>1, <1>3 DEF IInv, ReadInPast
<1>4. QED
  BY <1>2, <1>3

\* Reads of a row that has not changed stay current.
LEMMA CurrentStays ==
  ASSUME IInv, session' = session,
         \A d \in Callers : callers'[d] = Idle \/ callers'[d] = callers[d]
  PROVE  ReadIsCurrent'
<1> SUFFICES ASSUME NEW d \in Callers, callers'[d].seen.version = session.version
             PROVE  /\ callers'[d].seen.status = session.status
                    /\ callers'[d].seen.killSwitchEngaged = session.killSwitchEngaged
  BY DEF ReadIsCurrent
<1>1. CASE callers'[d] = callers[d]
  BY <1>1 DEF IInv, ReadIsCurrent
<1>2. CASE callers'[d] = Idle
  <2>1. session.version = 0
    BY <1>2, IdleFacts
  <2>2. session.status = "STOPPED" /\ session.killSwitchEngaged = TRUE
    BY <2>1 DEF IInv, FirstVersion, TypeOK, Session
  <2>3. callers'[d].seen.status = "STOPPED" /\ callers'[d].seen.killSwitchEngaged = TRUE
    BY <1>2 DEF Idle, FirstSession
  <2>4. QED
    BY <2>2, <2>3
<1>3. QED
  BY <1>1, <1>2

LEMMA FinishesStep ==
  ASSUME IInv, TypeOK', NEW c \in Callers, Finishes(c) PROVE IInv'
<1>1. /\ session' = session /\ portfolio' = portfolio
      /\ callers'[c] = Idle
      /\ \A d \in Callers \ {c} : callers'[d] = callers[d]
  BY FinishesEffect, DoneEffect DEF IInv, TypeOK, rows
<1>2. \A d \in Callers : callers'[d] = Idle \/ callers'[d] = callers[d]
  BY <1>1
<1>3. ReadIsCurrent'
  BY <1>1, <1>2, CurrentStays
<1>4. ReadInPast'
  BY <1>1, <1>2, PastFrame, ZenonT(40)
<1>5. GuardsHeld'
  BY <1>1, IdleFacts DEF IInv, GuardsHeld, At
<1>6. QED
  BY <1>1, <1>3, <1>4, <1>5
  DEF IInv, LockIsComplete, TradesOnlyWhenPrepared, FirstVersion, Reachable

\* What the guards of the callers that have not moved say survives any step
\* that leaves the portfolio's version behind or the portfolio alone.
LEMMA GuardsFrame ==
  ASSUME IInv, NEW c \in Callers,
         callers'[c] = Idle,
         \A d \in Callers \ {c} : callers'[d] = callers[d],
         \/ portfolio' = portfolio
         \/ /\ portfolio'.version = portfolio.version + 1
            /\ portfolio.status # "DRAFT" => portfolio'.status # "DRAFT"
  PROVE  GuardsHeld'
<1> SUFFICES ASSUME NEW d \in Callers PROVE
      /\ callers'[d].op = "RELEASE" => callers'[d].seen.status = "STOPPED"
      /\ callers'[d].op = "PAUSE" => callers'[d].seen.status = "SHADOW_ACTIVE"
      /\ At(d, "ACTIVATE", "checked")' =>
           /\ callers'[d].seen.status \in {"STOPPED", "PAUSED"}
           /\ ~callers'[d].seen.killSwitchEngaged
           /\ callers'[d].seen.reconciled
           /\ portfolio'.status # "DRAFT"
      /\ At(d, "UNLOCK", "checked")' =>
           callers'[d].seen.status \in {"KILLED", "ERROR_LOCKED"}
      /\ callers'[d].op = "ACTIVATE_PORTFOLIO" /\ callers'[d].seenPortfolio = portfolio'.version
           => portfolio'.status = "DRAFT"
  BY DEF GuardsHeld
<1>1. CASE d = c
  BY <1>1, IdleFacts DEF At
<1>2. CASE d # c
  <2>1. callers'[d] = callers[d]
    BY <1>2
  <2>2. callers[d].seenPortfolio <= portfolio.version /\ callers[d].seenPortfolio \in Nat
    BY DEF IInv, ReadInPast, TypeOK, Caller
  <2>3. QED
    BY <2>1, <2>2, VersionsTyped DEF IInv, GuardsHeld, At
<1>3. QED
  BY <1>1, <1>2

\* A session that moved to its next version leaves every read behind.
LEMMA NextVersion ==
  ASSUME IInv, NEW c \in Callers,
         callers'[c] = Idle,
         \A d \in Callers \ {c} : callers'[d] = callers[d],
         session'.version = session.version + 1,
         session.reconciled => session'.reconciled,
         portfolio' = portfolio \/ portfolio'.version = portfolio.version + 1
  PROVE  ReadIsCurrent' /\ ReadInPast' /\ FirstVersion'
<1>1. \A d \in Callers :
        /\ callers[d].seen.version \in Nat /\ callers[d].seenPortfolio \in Nat
        /\ callers[d].seen.version <= session.version
        /\ callers[d].seenPortfolio <= portfolio.version
        /\ callers[d].seen.reconciled => session.reconciled
  BY DEF IInv, ReadInPast, TypeOK, Caller, Session
<1>2. \A d \in Callers : callers'[d] = Idle \/ callers'[d] = callers[d]
  OBVIOUS
<1>3. session.version \in Nat /\ portfolio.version \in Nat
  BY VersionsTyped DEF IInv
<1>4. \A d \in Callers : callers'[d].seen.version < session'.version
  BY <1>1, <1>2, <1>3, IdleFacts
<1>5. ReadIsCurrent'
  BY <1>1, <1>2, <1>3, <1>4, IdleFacts DEF ReadIsCurrent
<1>6. \A d \in Callers : /\ callers'[d].seenPortfolio <= portfolio'.version
                         /\ callers'[d].seen.reconciled => session'.reconciled
  BY <1>1, <1>2, <1>3, IdleFacts
<1>7. \A d \in Callers : callers'[d].seen.version \in Nat
  BY <1>1, <1>2, IdleFacts
<1>8. ReadInPast'
  BY <1>3, <1>4, <1>6, <1>7 DEF ReadInPast
<1>9. FirstVersion'
  BY <1>3 DEF FirstVersion
<1>10. QED
  BY <1>5, <1>8, <1>9

LEMMA WritesStep ==
  ASSUME IInv, TypeOK', NEW c \in Callers, Writes(c) PROVE IInv'
<1>1. /\ callers'[c] = Idle
      /\ \A d \in Callers \ {c} : callers'[d] = callers[d]
      /\ portfolio' = portfolio
      /\ session'.version = session.version + 1
      /\ session'.reconciled = session.reconciled
      /\ SessionAsRead(c)
  BY WritesEffect, DoneEffect DEF IInv, TypeOK
<1>2. ReadIsCurrent' /\ ReadInPast' /\ FirstVersion' /\ GuardsHeld'
  BY <1>1, NextVersion, GuardsFrame
<1>3. /\ session.status = callers[c].seen.status
      /\ session.killSwitchEngaged = callers[c].seen.killSwitchEngaged
  BY <1>1 DEF IInv, ReadIsCurrent, SessionAsRead
<1>4. session \in Session /\ session.status \in SessionStatuses
      /\ session.killSwitchEngaged \in BOOLEAN
  BY DEF IInv, TypeOK, Session
<1>5. LockIsComplete' /\ TradesOnlyWhenPrepared' /\ Reachable'
  <2>1. CASE ReleaseKillSwitchCommit(c)
    <3>1. session'.status = "STOPPED"
      BY <1>3, <1>4, <2>1, WriteEffect DEF ReleaseKillSwitchCommit, IInv, GuardsHeld, At
    <3>2. QED
      BY <3>1 DEF LockIsComplete, TradesOnlyWhenPrepared, Reachable
  <2>2. CASE EngageKillSwitchCommit(c) \/ RiskDirectiveCommit(c)
    <3>1. session'.status = session.status /\ session'.killSwitchEngaged
      BY <1>4, <2>2, WriteEffect DEF EngageKillSwitchCommit, RiskDirectiveCommit
    <3>2. QED
      BY <1>1, <3>1 DEF IInv, LockIsComplete, TradesOnlyWhenPrepared, Reachable
  <2>3. CASE PauseSessionCommit(c)
    <3>1. session'.status = "PAUSED" /\ session.status = "SHADOW_ACTIVE"
      BY <1>3, <1>4, <2>3, WriteEffect
      DEF PauseSessionCommit, SessionStatuses, IInv, GuardsHeld, At
    <3>2. QED
      BY <1>1, <3>1 DEF IInv, LockIsComplete, TradesOnlyWhenPrepared, Reachable
  <2>4. CASE ActivateSessionCommit(c)
    <3>1. session'.status = "SHADOW_ACTIVE"
      BY <1>4, <2>4, WriteEffect DEF ActivateSessionCommit, SessionStatuses
    <3>2. session.reconciled /\ portfolio.status # "DRAFT"
      BY <2>4 DEF ActivateSessionCommit, IInv, GuardsHeld, ReadInPast
    <3>3. QED
      BY <1>1, <3>1, <3>2 DEF LockIsComplete, TradesOnlyWhenPrepared, Reachable
  <2>5. CASE UnlockSessionCommit(c)
    <3>1. session'.status = "STOPPED"
      BY <1>4, <2>5, WriteEffect DEF UnlockSessionCommit, SessionStatuses
    <3>2. QED
      BY <3>1 DEF LockIsComplete, TradesOnlyWhenPrepared, Reachable
  <2>6. QED
    BY <2>1, <2>2, <2>3, <2>4, <2>5 DEF Writes
<1>6. QED
  BY <1>2, <1>5 DEF IInv

\* A lock: the portfolio ends locked, the session ends locked or is the very
\* row it was.
LEMMA LockedStep ==
  ASSUME IInv, TypeOK', NEW c \in Callers,
         callers'[c] = Idle,
         \A d \in Callers \ {c} : callers'[d] = callers[d],
         portfolio'.status = "ERROR_LOCKED",
         portfolio' = portfolio \/ portfolio'.version = portfolio.version + 1,
         \/ session' = session
         \/ /\ session'.status = "ERROR_LOCKED"
            /\ session'.killSwitchEngaged
            /\ session'.version = session.version + 1
            /\ session'.reconciled = session.reconciled
  PROVE  IInv'
<1>1. GuardsHeld'
  BY GuardsFrame
<1>2. LockIsComplete' /\ TradesOnlyWhenPrepared' /\ Reachable'
  BY DEF IInv, LockIsComplete, TradesOnlyWhenPrepared, Reachable
<1>3. CASE session'.version = session.version + 1 /\ session'.reconciled = session.reconciled
  <2>1. ReadIsCurrent' /\ ReadInPast' /\ FirstVersion'
    BY <1>3, NextVersion
  <2>2. QED
    BY <1>1, <1>2, <2>1 DEF IInv
<1>4. CASE session' = session
  <2>1. \A d \in Callers : callers'[d] = Idle \/ callers'[d] = callers[d]
    OBVIOUS
  <2>2. ReadIsCurrent' /\ FirstVersion'
    BY <1>4, <2>1, CurrentStays DEF IInv, FirstVersion
  <2>3. ReadInPast'
    BY <1>4, <2>1, PastFrame, ZenonT(40)
  <2>4. QED
    BY <1>1, <1>2, <2>2, <2>3 DEF IInv
<1>5. QED
  BY <1>3, <1>4

LEMMA LocksStep ==
  ASSUME IInv, TypeOK', NEW c \in Callers, Locks(c) PROVE IInv'
<1>1. /\ Done(c)
      /\ LockPortfolio
      /\ LockSession \/ LockSessionIfAsRead(c)
  BY LocksEffect DEF IInv
<1>2. session \in Session /\ portfolio \in Portfolio /\ callers \in [Callers -> Caller]
  BY DEF IInv, TypeOK
<1>3. callers'[c] = Idle /\ \A d \in Callers \ {c} : callers'[d] = callers[d]
  BY <1>1, <1>2, DoneEffect
<1>4. /\ portfolio'.status = "ERROR_LOCKED"
      /\ portfolio' = portfolio \/ portfolio'.version = portfolio.version + 1
  BY <1>1, <1>2, LockPortfolioEffect
<1>5. \/ session' = session
      \/ /\ session'.status = "ERROR_LOCKED"
         /\ session'.killSwitchEngaged
         /\ session'.version = session.version + 1
         /\ session'.reconciled = session.reconciled
  BY <1>1, <1>2, LockSessionEffect, LockIfAsReadEffect
<1>6. QED
  BY <1>3, <1>4, <1>5, LockedStep

LEMMA ActivatePortfolioStep ==
  ASSUME IInv, TypeOK', NEW c \in Callers, ActivatePortfolioCommit(c) PROVE IInv'
<1>1. /\ callers'[c] = Idle
      /\ \A d \in Callers \ {c} : callers'[d] = callers[d]
      /\ session' = session
      /\ portfolio'.status = "ACTIVE"
      /\ portfolio'.version = portfolio.version + 1
  BY DoneEffect DEF ActivatePortfolioCommit, IInv, TypeOK
<1>2. portfolio.status = "DRAFT"
  BY DEF ActivatePortfolioCommit, At, IInv, GuardsHeld
<1>3. GuardsHeld'
  BY <1>1, GuardsFrame
<1>4. LockIsComplete' /\ TradesOnlyWhenPrepared' /\ Reachable' /\ FirstVersion'
  BY <1>1, <1>2 DEF IInv, LockIsComplete, TradesOnlyWhenPrepared, Reachable, FirstVersion
<1>5. \A d \in Callers : callers'[d] = Idle \/ callers'[d] = callers[d]
  BY <1>1
<1>6. ReadIsCurrent'
  BY <1>1, <1>5, CurrentStays
<1>7. ReadInPast'
  BY <1>1, <1>5, PastFrame, ZenonT(40)
<1>8. QED
  BY <1>3, <1>4, <1>6, <1>7 DEF IInv

LEMMA ReconcileStep ==
  ASSUME IInv, TypeOK', NEW c \in Callers, ReconcileConsistent(c) PROVE IInv'
<1>1. callers'[c] = Idle /\ \A d \in Callers \ {c} : callers'[d] = callers[d]
  BY DoneEffect DEF ReconcileConsistent, IInv, TypeOK
<1>2. /\ session'.status = session.status
      /\ session'.killSwitchEngaged = session.killSwitchEngaged
      /\ session'.version = session.version + 1
      /\ session'.reconciled
      /\ portfolio'.status = portfolio.status
      /\ portfolio'.version = portfolio.version + 1
  BY ReconcileEffect DEF IInv
<1>3. ReadIsCurrent' /\ ReadInPast' /\ FirstVersion' /\ GuardsHeld'
  BY <1>1, <1>2, NextVersion, GuardsFrame
<1>4. LockIsComplete' /\ TradesOnlyWhenPrepared' /\ Reachable'
  BY <1>2 DEF IInv, LockIsComplete, TradesOnlyWhenPrepared, Reachable
<1>5. QED
  BY <1>3, <1>4 DEF IInv

\* The error locks of the jobs move no caller.
LEMMA ErrorLockStep ==
  ASSUME IInv, TypeOK', NEW f, ErrorLock(f) PROVE IInv'
<1>1. session \in Session /\ portfolio \in Portfolio
  BY DEF IInv, TypeOK
<1>2. /\ callers' = callers
      /\ portfolio'.status = "ERROR_LOCKED"
      /\ portfolio' = portfolio \/ portfolio'.version = portfolio.version + 1
  BY <1>1, LockPortfolioEffect DEF ErrorLock
<1>3. /\ session'.status = "ERROR_LOCKED"
      /\ session'.reconciled = session.reconciled
      /\ \/ session' = session
         \/ session'.version = session.version + 1 /\ session'.killSwitchEngaged
  BY <1>1, LockSessionEffect DEF ErrorLock
<1>4. \A d \in Callers :
        /\ callers[d].seen.version \in Nat /\ callers[d].seenPortfolio \in Nat
        /\ callers[d].seen.version <= session.version
        /\ callers[d].seenPortfolio <= portfolio.version
        /\ callers[d].seen.reconciled => session.reconciled
  BY DEF IInv, ReadInPast, TypeOK, Caller, Session
<1>5. session.version \in Nat /\ portfolio.version \in Nat
  BY VersionsTyped DEF IInv
<1>6. ReadInPast'
  BY <1>2, <1>3, <1>4, <1>5 DEF ReadInPast
<1>7. ReadIsCurrent' /\ FirstVersion'
  BY <1>2, <1>3, <1>4, <1>5 DEF IInv, ReadIsCurrent, FirstVersion
<1>8. LockIsComplete' /\ TradesOnlyWhenPrepared' /\ Reachable'
  BY <1>2, <1>3 DEF IInv, LockIsComplete, TradesOnlyWhenPrepared, Reachable
<1>9. GuardsHeld'
  BY <1>2, <1>4, <1>5 DEF IInv, GuardsHeld, At
<1>10. QED
  BY <1>6, <1>7, <1>8, <1>9 DEF IInv

\* Events, prerequisites and the passing of time concern no row of the
\* invariant.
LEMMA QuietStep ==
  ASSUME IInv, TypeOK', session' = session, portfolio' = portfolio, callers' = callers
  PROVE  IInv'
BY DEF IInv, ReadIsCurrent, LockIsComplete, TradesOnlyWhenPrepared, ReadInPast,
   FirstVersion, Reachable, GuardsHeld, At

LEMMA InvariantStep == ASSUME IInv, [Next]_vars PROVE IInv'
<1>1. TypeOK'
  BY TypeStep DEF IInv
<1>2. ASSUME NEW c \in Callers,
             OperatorCommand(c) \/ JobStep(c) \/ Conflict(c) \/ Refused(c) \/ Crash(c)
      PROVE  IInv'
  BY <1>1, <1>2, StepKinds, ReadsStep, ChecksStep, FinishesStep, WritesStep, LocksStep,
     ActivatePortfolioStep, ReconcileStep
<1>3. ASSUME NEW f \in Findings, ErrorLock(f) \/ RaiseEvent(f) \/ Acknowledge(f)
      PROVE  IInv'
  BY <1>1, <1>3, ErrorLockStep, QuietStep DEF RaiseEvent, Acknowledge
<1>4. CASE FiveMinutesPass \/ (\E p \in Prerequisites : PrerequisiteChanges(p))
           \/ UNCHANGED vars
  BY <1>1, <1>4, QuietStep DEF FiveMinutesPass, PrerequisiteChanges, vars
<1>5. QED
  BY <1>2, <1>3, <1>4 DEF Next, OtherFindings

----------------------------------------------------------------------------
(* The theorems                                                            *)

THEOREM Invariant == Spec => []IInv
BY InitInvariant, InvariantStep, PTL DEF Spec

\* Optimistic reads are sound: a caller whose version still matches decides on
\* the status and the kill switch that are in the database.
THEOREM ReadsAreCurrent == Spec => []ReadIsCurrent
BY Invariant, PTL DEF IInv

\* Every error lock is complete: kill switch engaged, portfolio locked.
THEOREM LocksAreComplete == Spec => []LockIsComplete
BY Invariant, PTL DEF IInv

\* No session trades before a reconciliation and a portfolio activation.
THEOREM TradingIsPrepared == Spec => []TradesOnlyWhenPrepared
BY Invariant, PTL DEF IInv

\* The table the abstract machine moves by, entry by entry.
LEMMA MachineTransitions ==
  /\ <<"STOPPED", "SHADOW_ACTIVE">> \in Machine!SessionTransitions
  /\ <<"STOPPED", "ERROR_LOCKED">> \in Machine!SessionTransitions
  /\ <<"SHADOW_ACTIVE", "PAUSED">> \in Machine!SessionTransitions
  /\ <<"SHADOW_ACTIVE", "ERROR_LOCKED">> \in Machine!SessionTransitions
  /\ <<"PAUSED", "SHADOW_ACTIVE">> \in Machine!SessionTransitions
  /\ <<"PAUSED", "ERROR_LOCKED">> \in Machine!SessionTransitions
  /\ <<"ERROR_LOCKED", "STOPPED">> \in Machine!SessionTransitions
BY DEF Machine!SessionTransitions

\* Every step of the session's writers is a step of the abstract machine or
\* leaves status and kill switch alone.
LEMMA MachineStep ==
  ASSUME IInv, IInv', [Next]_vars PROVE [Machine!MachineNext]_(Machine!machine)
<1> DEFINE Stutter == session'.status = session.status
                      /\ session'.killSwitchEngaged = session.killSwitchEngaged
           Locked == session.status \in {"STOPPED", "SHADOW_ACTIVE", "PAUSED"}
                     /\ session'.status = "ERROR_LOCKED" /\ session'.killSwitchEngaged = TRUE
<1>1. Stutter => [Machine!MachineNext]_(Machine!machine)
  BY DEF Machine!machine
<1>2. Locked => [Machine!MachineNext]_(Machine!machine)
  BY MachineTransitions DEF Machine!MachineNext, Machine!Lock, Machine!Move
<1>3. session \in Session /\ session.status \in SessionStatuses
      /\ session.killSwitchEngaged \in BOOLEAN /\ session' \in Session
      /\ session'.killSwitchEngaged \in BOOLEAN
  BY DEF IInv, TypeOK, Session
<1>4. ASSUME NEW c \in Callers, Writes(c) PROVE [Machine!MachineNext]_(Machine!machine)
  <2>1. SessionAsRead(c)
    BY <1>4, WritesEffect DEF IInv
  <2>2. /\ session.status = callers[c].seen.status
        /\ session.killSwitchEngaged = callers[c].seen.killSwitchEngaged
    BY <2>1 DEF IInv, ReadIsCurrent, SessionAsRead
  <2>3. CASE ReleaseKillSwitchCommit(c)
    <3>1. session.status = "STOPPED"
      BY <2>2, <2>3 DEF ReleaseKillSwitchCommit, At, IInv, GuardsHeld
    <3>2. session'.status = session.status /\ session'.killSwitchEngaged = FALSE
      BY <1>3, <2>3, WriteEffect DEF ReleaseKillSwitchCommit
    <3>3. QED
      BY <3>1, <3>2 DEF Machine!MachineNext, Machine!Release
  <2>4. CASE EngageKillSwitchCommit(c) \/ RiskDirectiveCommit(c)
    <3>1. session'.status = session.status /\ session'.killSwitchEngaged = TRUE
      BY <1>3, <2>4, WriteEffect DEF EngageKillSwitchCommit, RiskDirectiveCommit
    <3>2. session.status # "CLOSED"
      BY DEF IInv, Reachable
    <3>3. QED
      BY <3>1, <3>2 DEF Machine!MachineNext, Machine!Engage
  <2>5. CASE PauseSessionCommit(c)
    <3>1. session.status = "SHADOW_ACTIVE"
      BY <2>2, <2>5 DEF PauseSessionCommit, At, IInv, GuardsHeld
    <3>2. session'.status = "PAUSED"
          /\ session'.killSwitchEngaged = session.killSwitchEngaged
      BY <1>3, <2>5, WriteEffect DEF PauseSessionCommit, SessionStatuses
    <3>3. QED
      BY <3>1, <3>2, MachineTransitions DEF Machine!MachineNext, Machine!Pause, Machine!Move
  <2>6. CASE ActivateSessionCommit(c)
    <3>1. session.status \in {"STOPPED", "PAUSED"} /\ ~session.killSwitchEngaged
      BY <2>2, <2>6 DEF ActivateSessionCommit, IInv, GuardsHeld
    <3>2. session'.status = "SHADOW_ACTIVE"
          /\ session'.killSwitchEngaged = session.killSwitchEngaged
      BY <1>3, <2>6, WriteEffect DEF ActivateSessionCommit, SessionStatuses
    <3>3. QED
      BY <3>1, <3>2, MachineTransitions DEF Machine!MachineNext, Machine!Activate, Machine!Move
  <2>7. CASE UnlockSessionCommit(c)
    <3>1. session.status = "ERROR_LOCKED" /\ session.killSwitchEngaged
      BY <2>2, <2>7 DEF UnlockSessionCommit, IInv, GuardsHeld, Reachable, LockIsComplete
    <3>2. session'.status = "STOPPED"
          /\ session'.killSwitchEngaged = session.killSwitchEngaged
      BY <1>3, <2>7, WriteEffect DEF UnlockSessionCommit, SessionStatuses
    <3>3. QED
      BY <3>1, <3>2, MachineTransitions DEF Machine!MachineNext, Machine!Unlock, Machine!Move
  <2>8. QED
    BY <1>4, <2>3, <2>4, <2>5, <2>6, <2>7 DEF Writes
<1>5. ASSUME NEW c \in Callers,
             OperatorCommand(c) \/ JobStep(c) \/ Conflict(c) \/ Refused(c) \/ Crash(c)
      PROVE  [Machine!MachineNext]_(Machine!machine)
  <2>1. CASE Reads(c)
    <3>1. session' = session
      BY <2>1, ReadsEffect, ReadEffect DEF IInv, rows
    <3>2. QED
      BY <1>1, <3>1
  <2>2. CASE Checks(c) \/ Finishes(c)
    <3>1. session' = session
      BY <2>2, FinishesEffect DEF Checks, ActivateSessionCheck, UnlockSessionCheck, rows
    <3>2. QED
      BY <1>1, <3>1
  <2>3. CASE Locks(c)
    <3>1. LockSession \/ LockSessionIfAsRead(c)
      BY <2>3, LocksEffect DEF IInv
    <3>2. session' = session \/ Locked
      <4>1. CASE LockSession
        BY <1>3, <4>1, LockSessionEffect DEF LockSession, IInv, Reachable
      <4>2. CASE LockSessionIfAsRead(c)
        <5>1. session' = session
              \/ /\ session'.status = "ERROR_LOCKED" /\ session'.killSwitchEngaged
                 /\ callers[c].seen.status # "ERROR_LOCKED"
                 /\ SessionAsRead(c)
          BY <1>3, <4>2, LockIfAsReadEffect
        <5>2. SessionAsRead(c) => session.status = callers[c].seen.status
          BY DEF IInv, ReadIsCurrent, SessionAsRead
        <5>3. QED
          BY <1>3, <5>1, <5>2 DEF IInv, Reachable
      <4>3. QED
        BY <3>1, <4>1, <4>2
    <3>3. QED
      BY <1>1, <1>2, <3>2
  <2>4. CASE ActivatePortfolioCommit(c)
    BY <1>1, <2>4 DEF ActivatePortfolioCommit
  <2>5. CASE ReconcileConsistent(c)
    BY <1>1, <2>5, ReconcileEffect DEF IInv
  <2>6. QED
    BY <1>4, <1>5, <2>1, <2>2, <2>3, <2>4, <2>5, StepKinds
<1>6. ASSUME NEW f \in Findings, ErrorLock(f) \/ RaiseEvent(f) \/ Acknowledge(f)
      PROVE  [Machine!MachineNext]_(Machine!machine)
  <2>1. CASE ErrorLock(f)
    <3>1. LockSession
      BY <2>1 DEF ErrorLock
    <3>2. session' = session \/ Locked
      BY <1>3, <3>1, LockSessionEffect DEF LockSession, IInv, Reachable
    <3>3. QED
      BY <1>1, <1>2, <3>2
  <2>2. CASE RaiseEvent(f) \/ Acknowledge(f)
    BY <1>1, <2>2 DEF RaiseEvent, Acknowledge
  <2>3. QED
    BY <1>6, <2>1, <2>2
<1>7. CASE FiveMinutesPass \/ (\E p \in Prerequisites : PrerequisiteChanges(p))
           \/ UNCHANGED vars
  BY <1>1, <1>7 DEF FiveMinutesPass, PrerequisiteChanges, vars
<1>8. QED
  BY <1>5, <1>6, <1>7 DEF Next, OtherFindings

\* The concurrent session implements the three-step way back to trading.
THEOREM Implements == Spec => ImplementsMachine
<1>1. Init => Machine!MachineInit
  BY DEF Init, FirstSession, Machine!MachineInit
<1>2. QED
  BY <1>1, Invariant, MachineStep, PTL DEF Spec, ImplementsMachine, Machine!MachineSpec

\* Of all steps only the commit of an activation makes a session permit entries that did
\* not: the others leave status and kill switch alone, engage it or leave for a status
\* that permits none.
LEMMA ResumeStep ==
  ASSUME IInv, [Next]_vars,
         ~PermitsEntries(session.status, session.killSwitchEngaged),
         PermitsEntries(session'.status, session'.killSwitchEngaged)
  PROVE  \E c \in Callers : ActivateSessionCommit(c)
<1>1. session \in Session /\ session.status \in SessionStatuses
      /\ session.killSwitchEngaged \in BOOLEAN
  BY DEF IInv, TypeOK, Session
<1>2. session'.status = "SHADOW_ACTIVE" /\ ~session'.killSwitchEngaged
  BY DEF PermitsEntries
<1>3. ~(session'.status = session.status /\ session'.killSwitchEngaged = session.killSwitchEngaged)
  BY <1>2 DEF PermitsEntries
<1>4. session' # session
  BY <1>3
<1>5. ASSUME NEW c \in Callers, Writes(c) PROVE ActivateSessionCommit(c)
  <2>1. ~ReleaseKillSwitchCommit(c)
    <3>1. SUFFICES ASSUME ReleaseKillSwitchCommit(c) PROVE FALSE
      OBVIOUS
    <3>2. session.status = "STOPPED"
      BY <3>1 DEF ReleaseKillSwitchCommit, At, IInv, GuardsHeld, ReadIsCurrent, SessionAsRead
    <3>3. session'.status = session.status
      BY <1>1, <3>1, WriteEffect DEF ReleaseKillSwitchCommit
    <3>4. QED
      BY <1>2, <3>2, <3>3
  <2>2. ~EngageKillSwitchCommit(c) /\ ~RiskDirectiveCommit(c)
    BY <1>1, <1>2, WriteEffect DEF EngageKillSwitchCommit, RiskDirectiveCommit
  <2>3. ~PauseSessionCommit(c) /\ ~UnlockSessionCommit(c)
    BY <1>1, <1>2, WriteEffect DEF PauseSessionCommit, UnlockSessionCommit, SessionStatuses
  <2>4. QED
    BY <1>5, <2>1, <2>2, <2>3 DEF Writes
<1>6. ASSUME NEW c \in Callers,
             OperatorCommand(c) \/ JobStep(c) \/ Conflict(c) \/ Refused(c) \/ Crash(c)
      PROVE  ActivateSessionCommit(c)
  <2>1. ~Reads(c)
    BY <1>4, ReadsEffect, ReadEffect DEF IInv, rows
  <2>2. ~Checks(c) /\ ~Finishes(c) /\ ~ActivatePortfolioCommit(c)
    BY <1>4, FinishesEffect DEF Checks, ActivateSessionCheck, UnlockSessionCheck,
      ActivatePortfolioCommit, rows
  <2>3. ~Locks(c)
    BY <1>1, <1>2, <1>4, LocksEffect, LockSessionEffect, LockIfAsReadEffect DEF IInv
  <2>4. ~ReconcileConsistent(c)
    BY <1>3, ReconcileEffect DEF IInv
  <2>5. QED
    BY <1>5, <1>6, <2>1, <2>2, <2>3, <2>4, StepKinds
<1>7. ASSUME NEW f \in Findings PROVE ~ErrorLock(f) /\ ~RaiseEvent(f) /\ ~Acknowledge(f)
  BY <1>1, <1>2, <1>4, LockSessionEffect DEF ErrorLock, RaiseEvent, Acknowledge
<1>8. ~FiveMinutesPass /\ (\A p \in Prerequisites : ~PrerequisiteChanges(p)) /\ ~UNCHANGED vars
  BY <1>4 DEF FiveMinutesPass, PrerequisiteChanges, vars
<1>9. QED
  BY <1>6, <1>7, <1>8 DEF Next, OtherFindings

\* What such a commit compares: version and status of the row; that its kill switch and
\* reconciliation are as they were seen follows from the invariant.
LEMMA ActivationHasSeen ==
  ASSUME IInv, NEW c \in Callers, ActivateSessionCommit(c)
  PROVE  /\ At(c, "ACTIVATE", "checked")
         /\ callers'[c] = Idle
         /\ callers[c].seen = session
<1>1. At(c, "ACTIVATE", "checked") /\ Done(c) /\ callers[c].seen.version = session.version
  BY DEF ActivateSessionCommit, SessionAsRead
<1>2. callers'[c] = Idle
  BY <1>1, DoneEffect DEF IInv, TypeOK
<1>3. /\ callers[c].seen.status = session.status
      /\ callers[c].seen.killSwitchEngaged = session.killSwitchEngaged
  BY <1>1 DEF IInv, ReadIsCurrent
<1>4. callers[c].seen.reconciled /\ session.reconciled
  BY <1>1 DEF IInv, GuardsHeld, ReadInPast
<1>5. session \in Session /\ callers[c].seen \in Session
  BY DEF IInv, TypeOK, Caller
<1>6. callers[c].seen.reconciled = session.reconciled
  BY <1>4, <1>5 DEF Session
<1>7. callers[c].seen = session
  BY <1>1, <1>3, <1>5, <1>6 DEF Session
<1>8. QED
  BY <1>1, <1>2, <1>7

\* After a pause, a lock or a kill switch entries resume only by the commit of an
\* activation that saw this very session.
THEOREM EntriesResume == Spec => EntriesResumeByActivation
<1>1. ASSUME IInv, [Next]_vars
      PROVE  [ ~PermitsEntries(session.status, session.killSwitchEngaged)
                 /\ PermitsEntries(session.status, session.killSwitchEngaged)' =>
               \E c \in Callers : /\ At(c, "ACTIVATE", "checked")
                                  /\ callers'[c] = Idle
                                  /\ callers[c].seen = session ]_vars
  BY <1>1, ResumeStep, ActivationHasSeen DEF PermitsEntries
<1>2. QED
  BY <1>1, Invariant, PTL DEF Spec, EntriesResumeByActivation

=============================================================================
