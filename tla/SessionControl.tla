--------------------------- MODULE SessionControl ---------------------------
(***************************************************************************)
(* The trading session of one shadow portfolio and everything that writes  *)
(* it: the operator commands of shadowSessionOps.ts, the risk directive    *)
(* and the risk-limit-set lock of shadowRiskPersistence.ts, the execution  *)
(* profile lock, the error locks of the fill and monitor jobs and the      *)
(* reconciliation.  Each caller reads the session, decides, and commits in *)
(* a later transaction; between the two any other caller may commit.  Most *)
(* commits are compare-and-swap updates on session.version; the error      *)
(* locks and the reconciliation write without one.                         *)
(***************************************************************************)
EXTENDS Naturals, FiniteSets, TradingStateMachines

CONSTANTS
  Callers,        \* concurrent callers: operator commands and jobs
  Findings,       \* event keys of CRITICAL risk events
  ProfileFinding, \* the key of one execution profile deviation
  Prerequisites,  \* activation facts decided outside the session tables
  Ops,            \* the operations this instance runs
  MayCrash,       \* whether a caller may die between read and commit
  MaxVersion      \* bound on session.version, for model checking

\* The activation fact that also drives the execution profile lock.
Profiles == "EXECUTION_PROFILES"

SessionOps ==
  {"ACTIVATE_PORTFOLIO", "RELEASE", "ENGAGE", "PAUSE", "ACTIVATE", "UNLOCK",
   "DIRECTIVE", "LIMIT_SET_LOCK", "PROFILE_LOCK", "ERROR_LOCK", "RECONCILE",
   "RAISE_EVENT", "ACKNOWLEDGE"}

ASSUME ControlAssumption ==
  /\ ProfileFinding \in Findings
  /\ Profiles \in Prerequisites
  /\ Ops \subseteq SessionOps
  /\ MayCrash \in BOOLEAN
  /\ MaxVersion \in Nat

VARIABLES
  session,    \* the TradingSession row
  portfolio,  \* the Portfolio row
  events,     \* CRITICAL RiskEvents by key: absent, open or acknowledged
  auditKeys,  \* findings whose lock has written its TradingAuditEvent
  satisfied,  \* the prerequisites that presently hold
  fresh,      \* the last reconciliation is at most five minutes old
  callers     \* what every caller has read and not yet committed

vars == <<session, portfolio, events, auditKeys, satisfied, fresh, callers>>

Session == [status: SessionStatuses, killSwitchEngaged: BOOLEAN,
            version: Nat, reconciled: BOOLEAN]

Portfolio == [status: {"DRAFT", "ACTIVE", "ERROR_LOCKED"}, version: Nat]

\* seen is the session row a caller has read, seenPortfolio the portfolio
\* version (for the operations that compare it); step says how far it got.
Caller == [op: SessionOps \cup {"NONE"}, step: {"read", "checked"},
           seen: Session, seenPortfolio: Nat]

FirstSession == [status |-> "STOPPED", killSwitchEngaged |-> TRUE,
                 version |-> 0, reconciled |-> FALSE]

Idle == [op |-> "NONE", step |-> "read", seen |-> FirstSession, seenPortfolio |-> 0]

TypeOK ==
  /\ session \in Session
  /\ portfolio \in Portfolio
  /\ events \in [Findings -> {"absent", "open", "acknowledged"}]
  /\ auditKeys \subseteq Findings
  /\ satisfied \subseteq Prerequisites
  /\ fresh \in BOOLEAN
  /\ callers \in [Callers -> Caller]

Init ==
  /\ session = FirstSession
  /\ portfolio = [status |-> "DRAFT", version |-> 0]
  /\ events = [f \in Findings |-> "absent"]
  /\ auditKeys = {}
  /\ satisfied = Prerequisites
  /\ fresh = FALSE
  /\ callers = [c \in Callers |-> Idle]

----------------------------------------------------------------------------
(* Reading and committing                                                  *)

rows == <<session, portfolio, events, auditKeys, satisfied, fresh>>

\* Every kind of event has keys of its own.
OtherFindings == Findings \ {ProfileFinding}

OpenCriticalEvents == {f \in Findings : events[f] = "open"}

Starts(c, op) == op \in Ops /\ callers[c] = Idle

\* Caller c has read the rows and goes on to decide.
ReadSession(c, op) ==
  /\ callers' = [callers EXCEPT ![c] =
       [op |-> op, step |-> "read", seen |-> session, seenPortfolio |-> 0]]
  /\ UNCHANGED rows

ReadBoth(c, op) ==
  /\ callers' = [callers EXCEPT ![c] =
       [op |-> op, step |-> "read", seen |-> session,
        seenPortfolio |-> portfolio.version]]
  /\ UNCHANGED rows

At(c, op, step) == callers[c].op = op /\ callers[c].step = step

Done(c) == callers' = [callers EXCEPT ![c] = Idle]

\* UPDATE ... WHERE version = the version that was read.
SessionAsRead(c) == session.version = callers[c].seen.version

Write(status, kill) ==
  /\ session.version < MaxVersion
  /\ session' = [session EXCEPT !.status = status, !.killSwitchEngaged = kill,
                                !.version = @ + 1]

\* Mutant: the unconditional lock forgets to bump the version.
LockSessionSilently ==
  session' = [session EXCEPT !.status = "ERROR_LOCKED", !.killSwitchEngaged = TRUE]

\* UPDATE ... SET status = ERROR_LOCKED WHERE status <> ERROR_LOCKED
LockSession ==
  \/ session.status # "ERROR_LOCKED" /\ Write("ERROR_LOCKED", TRUE)
  \/ session.status = "ERROR_LOCKED" /\ UNCHANGED session

\* Mutant: a status the column does not know.
LockPortfolioMisspelled ==
  portfolio' = [status |-> "LOCKED", version |-> portfolio.version + 1]

LockPortfolio ==
  portfolio' = IF portfolio.status = "ERROR_LOCKED" THEN portfolio
               ELSE [status |-> "ERROR_LOCKED", version |-> portfolio.version + 1]

\* An upsert with an empty update: a key that exists keeps its acknowledgement.
Upsert(f) ==
  events' = [events EXCEPT ![f] = IF @ = "absent" THEN "open" ELSE @]

----------------------------------------------------------------------------
(* Operator commands: shadowSessionOps.ts                                  *)

ActivatePortfolioRead(c) ==
  /\ Starts(c, "ACTIVATE_PORTFOLIO")
  /\ portfolio.status = "DRAFT"
  /\ ReadBoth(c, "ACTIVATE_PORTFOLIO")

\* Mutant: the activation does not compare the version it read.
ActivatePortfolioBlindly(c) ==
  /\ At(c, "ACTIVATE_PORTFOLIO", "read")
  /\ portfolio' = [status |-> "ACTIVE", version |-> portfolio.version + 1]
  /\ Done(c)
  /\ UNCHANGED <<session, events, auditKeys, satisfied, fresh>>

ActivatePortfolioCommit(c) ==
  /\ At(c, "ACTIVATE_PORTFOLIO", "read")
  /\ portfolio.version = callers[c].seenPortfolio
  /\ portfolio' = [status |-> "ACTIVE", version |-> portfolio.version + 1]
  /\ Done(c)
  /\ UNCHANGED <<session, events, auditKeys, satisfied, fresh>>

ReleaseKillSwitchRead(c) ==
  /\ Starts(c, "RELEASE")
  /\ session.killSwitchEngaged
  /\ CheckKillSwitchRelease(session.status, session.reconciled /\ fresh)
  /\ ReadSession(c, "RELEASE")

ReleaseKillSwitchCommit(c) ==
  /\ At(c, "RELEASE", "read")
  /\ SessionAsRead(c)
  /\ Write(session.status, FALSE)
  /\ Done(c)
  /\ UNCHANGED <<portfolio, events, auditKeys, satisfied, fresh>>

\* Engaging sets the flag and leaves the status alone; nothing is cancelled.
EngageKillSwitchRead(c) ==
  /\ Starts(c, "ENGAGE")
  /\ ~session.killSwitchEngaged
  /\ CheckKillSwitchEngage(session.status)
  /\ ReadSession(c, "ENGAGE")

EngageKillSwitchCommit(c) ==
  /\ At(c, "ENGAGE", "read")
  /\ SessionAsRead(c)
  /\ Write(session.status, TRUE)
  /\ Done(c)
  /\ UNCHANGED <<portfolio, events, auditKeys, satisfied, fresh>>

PauseSessionRead(c) ==
  /\ Starts(c, "PAUSE")
  /\ <<session.status, "PAUSED">> \in SessionTransitions
  /\ ReadSession(c, "PAUSE")

PauseSessionCommit(c) ==
  /\ At(c, "PAUSE", "read")
  /\ SessionAsRead(c)
  /\ session.status = callers[c].seen.status
  /\ Write("PAUSED", session.killSwitchEngaged)
  /\ Done(c)
  /\ UNCHANGED <<portfolio, events, auditKeys, satisfied, fresh>>

ActivateSessionRead(c) ==
  /\ Starts(c, "ACTIVATE")
  /\ ReadSession(c, "ACTIVATE")

\* The portfolio, the risk events and the rest are read after the session.
ActivationFacts(c) ==
  [killSwitchEngaged |-> callers[c].seen.killSwitchEngaged,
   portfolioStatus |-> portfolio.status,
   reconcileSucceeded |-> callers[c].seen.reconciled,
   reconcileFresh |-> fresh,
   prerequisitesMet |-> satisfied = Prerequisites,
   unacknowledgedCriticalRiskEventCount |-> Cardinality(OpenCriticalEvents)]

ActivateSessionCheck(c) ==
  /\ At(c, "ACTIVATE", "read")
  /\ <<callers[c].seen.status, "SHADOW_ACTIVE">> \in SessionTransitions
  /\ CheckSessionActivation(ActivationFacts(c))
  /\ callers' = [callers EXCEPT ![c].step = "checked"]
  /\ UNCHANGED rows

ActivateSessionCommit(c) ==
  /\ At(c, "ACTIVATE", "checked")
  /\ SessionAsRead(c)
  /\ session.status = callers[c].seen.status
  /\ Write("SHADOW_ACTIVE", session.killSwitchEngaged)
  /\ Done(c)
  /\ UNCHANGED <<portfolio, events, auditKeys, satisfied, fresh>>

UnlockSessionRead(c) ==
  /\ Starts(c, "UNLOCK")
  /\ ReadSession(c, "UNLOCK")

\* Any reconciliation, however old, counts; PROPOSED and ACCEPTED orders are
\* never written, so none is unclear.
UnlockFacts(c) ==
  [killCauseResolved |-> TRUE,
   riskEventsAcknowledged |-> OpenCriticalEvents = {},
   reconcileSucceeded |-> callers[c].seen.reconciled,
   unclearOrderCount |-> 0]

UnlockSessionCheck(c) ==
  /\ At(c, "UNLOCK", "read")
  /\ <<callers[c].seen.status, "STOPPED">> \in SessionTransitions
  /\ CheckSessionUnlock(UnlockFacts(c))
  /\ callers' = [callers EXCEPT ![c].step = "checked"]
  /\ UNCHANGED rows

\* Mutant: the unlock releases the kill switch as well.
UnlockAndRelease(c) ==
  /\ At(c, "UNLOCK", "checked")
  /\ SessionAsRead(c)
  /\ session.status = callers[c].seen.status
  /\ Write("STOPPED", FALSE)
  /\ Done(c)
  /\ UNCHANGED <<portfolio, events, auditKeys, satisfied, fresh>>

UnlockSessionCommit(c) ==
  /\ At(c, "UNLOCK", "checked")
  /\ SessionAsRead(c)
  /\ session.status = callers[c].seen.status
  /\ Write("STOPPED", session.killSwitchEngaged)
  /\ Done(c)
  /\ UNCHANGED <<portfolio, events, auditKeys, satisfied, fresh>>

----------------------------------------------------------------------------
(* Jobs that write the session                                             *)

\* Assessments, fills and monitored positions exist only on a portfolio that
\* has left DRAFT.
HasTraded == portfolio.status # "DRAFT"

\* The ENGAGE_KILL_SWITCH directive of a committed risk assessment.
RiskDirectiveRead(c) ==
  /\ Starts(c, "DIRECTIVE")
  /\ HasTraded
  /\ ~session.killSwitchEngaged
  /\ session.status # "CLOSED"
  /\ ReadSession(c, "DIRECTIVE")

RiskDirectiveCommit(c) ==
  /\ At(c, "DIRECTIVE", "read")
  /\ SessionAsRead(c)
  /\ ~session.killSwitchEngaged
  /\ Write(session.status, TRUE)
  /\ Done(c)
  /\ UNCHANGED <<portfolio, events, auditKeys, satisfied, fresh>>

\* Lock the session if it is still the row that was read: the two integrity
\* locks commit with or without it.
LockSessionIfAsRead(c) ==
  \/ /\ callers[c].seen.status # "ERROR_LOCKED"
     /\ SessionAsRead(c)
     /\ session.killSwitchEngaged = callers[c].seen.killSwitchEngaged
     /\ Write("ERROR_LOCKED", TRUE)
  \/ /\ \/ callers[c].seen.status = "ERROR_LOCKED"
        \/ ~SessionAsRead(c)
        \/ session.killSwitchEngaged # callers[c].seen.killSwitchEngaged
     /\ UNCHANGED session

LimitSetLockRead(c) ==
  /\ Starts(c, "LIMIT_SET_LOCK")
  /\ HasTraded
  /\ ReadSession(c, "LIMIT_SET_LOCK")

LimitSetLockCommit(c) ==
  /\ At(c, "LIMIT_SET_LOCK", "read")
  /\ LockSessionIfAsRead(c)
  /\ LockPortfolio
  /\ Done(c)
  /\ UNCHANGED <<events, auditKeys, satisfied, fresh>>

\* The read is the first statement of the lock's own transaction.
ProfileLockRead(c) ==
  /\ Starts(c, "PROFILE_LOCK")
  /\ HasTraded
  /\ Profiles \notin satisfied
  /\ ReadSession(c, "PROFILE_LOCK")

NothingLocked == session' = session /\ portfolio' = portfolio

\* The audit row is written only when something was locked, under a key that
\* depends on portfolio, session and deviation alone and has to be unique.
ProfileLockCommit(c) ==
  /\ At(c, "PROFILE_LOCK", "read")
  /\ LockSessionIfAsRead(c)
  /\ LockPortfolio
  /\ Upsert(ProfileFinding)
  /\ \/ NothingLocked /\ UNCHANGED auditKeys
     \/ /\ ~NothingLocked
        /\ ProfileFinding \notin auditKeys
        /\ auditKeys' = auditKeys \cup {ProfileFinding}
  /\ Done(c)
  /\ UNCHANGED <<satisfied, fresh>>

\* The second audit row of a finding violates the unique key: the transaction
\* rolls back and the error leaves the calling job.
ProfileLockThrows(c) ==
  /\ At(c, "PROFILE_LOCK", "read")
  /\ ProfileFinding \in auditKeys
  /\ \/ portfolio.status # "ERROR_LOCKED"
     \/ callers[c].seen.status # "ERROR_LOCKED" /\ SessionAsRead(c)
  /\ Done(c)
  /\ UNCHANGED rows

\* The error lock of the fill job and of the position monitor.
ErrorLock(f) ==
  /\ "ERROR_LOCK" \in Ops
  /\ HasTraded
  /\ Upsert(f)
  /\ LockSession
  /\ LockPortfolio
  /\ UNCHANGED <<auditKeys, satisfied, fresh, callers>>

\* A reconciliation compares one snapshot of the books and commits later.
ReconcileRead(c) == Starts(c, "RECONCILE") /\ ReadBoth(c, "RECONCILE")

ReconcileMismatch(c, f) ==
  /\ At(c, "RECONCILE", "read")
  /\ Upsert(f)
  /\ LockSession
  /\ LockPortfolio
  /\ Done(c)
  /\ UNCHANGED <<auditKeys, satisfied, fresh>>

ReconcileConsistent(c) ==
  /\ At(c, "RECONCILE", "read")
  /\ portfolio.version = callers[c].seenPortfolio
  /\ portfolio' = [portfolio EXCEPT !.version = @ + 1]
  /\ session.version < MaxVersion
  /\ session' = [session EXCEPT !.reconciled = TRUE, !.version = @ + 1]
  /\ fresh' = TRUE
  /\ Done(c)
  /\ UNCHANGED <<events, auditKeys, satisfied>>

\* A CRITICAL event that locks nothing: a failed risk rule, a hash conflict, a
\* scale-in conflict, a post-fill shortfall, a requested manual close.
RaiseEvent(f) ==
  /\ "RAISE_EVENT" \in Ops
  /\ HasTraded
  /\ Upsert(f)
  /\ UNCHANGED <<session, portfolio, auditKeys, satisfied, fresh, callers>>

----------------------------------------------------------------------------
(* Lost races, refusals, crashes and the environment                       *)

ComparesSession ==
  {"RELEASE", "ENGAGE", "PAUSE", "ACTIVATE", "UNLOCK", "DIRECTIVE"}

\* A caller whose update matches no row gives up: the operator command throws,
\* the directive returns without having engaged anything.
Conflict(c) ==
  /\ \/ callers[c].op \in ComparesSession /\ ~SessionAsRead(c)
     \/ /\ callers[c].op \in {"ACTIVATE_PORTFOLIO", "RECONCILE"}
        /\ portfolio.version # callers[c].seenPortfolio
  /\ Done(c)
  /\ UNCHANGED rows

Refused(c) ==
  /\ \/ /\ At(c, "ACTIVATE", "read")
        /\ \/ <<callers[c].seen.status, "SHADOW_ACTIVE">> \notin SessionTransitions
           \/ ~CheckSessionActivation(ActivationFacts(c))
     \/ /\ At(c, "UNLOCK", "read")
        /\ \/ <<callers[c].seen.status, "STOPPED">> \notin SessionTransitions
           \/ ~CheckSessionUnlock(UnlockFacts(c))
  /\ Done(c)
  /\ UNCHANGED rows

Crash(c) == MayCrash /\ callers[c] # Idle /\ Done(c) /\ UNCHANGED rows

\* No code acknowledges an event: an operator does it in the database.
Acknowledge(f) ==
  /\ "ACKNOWLEDGE" \in Ops
  /\ events[f] = "open"
  /\ events' = [events EXCEPT ![f] = "acknowledged"]
  /\ UNCHANGED <<session, portfolio, auditKeys, satisfied, fresh, callers>>

\* Limit sets, profiles, assignments and claims change underneath the session.
PrerequisiteChanges(p) ==
  /\ satisfied' = IF p \in satisfied THEN satisfied \ {p} ELSE satisfied \cup {p}
  /\ UNCHANGED <<session, portfolio, events, auditKeys, fresh, callers>>

FiveMinutesPass ==
  fresh /\ fresh' = FALSE
  /\ UNCHANGED <<session, portfolio, events, auditKeys, satisfied, callers>>

OperatorCommand(c) ==
  \/ ActivatePortfolioRead(c) \/ ActivatePortfolioCommit(c)
  \/ ReleaseKillSwitchRead(c) \/ ReleaseKillSwitchCommit(c)
  \/ EngageKillSwitchRead(c) \/ EngageKillSwitchCommit(c)
  \/ PauseSessionRead(c) \/ PauseSessionCommit(c)
  \/ ActivateSessionRead(c) \/ ActivateSessionCheck(c) \/ ActivateSessionCommit(c)
  \/ UnlockSessionRead(c) \/ UnlockSessionCheck(c) \/ UnlockSessionCommit(c)

JobStep(c) ==
  \/ RiskDirectiveRead(c) \/ RiskDirectiveCommit(c)
  \/ LimitSetLockRead(c) \/ LimitSetLockCommit(c)
  \/ ProfileLockRead(c) \/ ProfileLockCommit(c) \/ ProfileLockThrows(c)
  \/ ReconcileRead(c) \/ ReconcileConsistent(c)
  \/ \E f \in OtherFindings : ReconcileMismatch(c, f)

Next ==
  \/ \E c \in Callers :
       OperatorCommand(c) \/ JobStep(c) \/ Conflict(c) \/ Refused(c) \/ Crash(c)
  \/ \E f \in OtherFindings : ErrorLock(f) \/ RaiseEvent(f)
  \/ \E f \in Findings : Acknowledge(f)
  \/ \E p \in Prerequisites : PrerequisiteChanges(p)
  \/ FiveMinutesPass

Spec == Init /\ [][Next]_vars

----------------------------------------------------------------------------
(* Properties                                                              *)

\* Optimistic concurrency is sound: a caller whose version still matches has
\* read the status and the kill switch that are in the database.  Every writer
\* has to bump the version for that (shadowSessionOps.ts, the locks and the
\* reconciliation, which writes by id alone).
ReadIsCurrent ==
  \A c \in Callers :
    callers[c].seen.version = session.version =>
      /\ callers[c].seen.status = session.status
      /\ callers[c].seen.killSwitchEngaged = session.killSwitchEngaged

\* An error-locked session has its kill switch engaged and a locked portfolio,
\* whichever of the four locks put it there and whoever raced with it.
LockIsComplete ==
  session.status = "ERROR_LOCKED" =>
    session.killSwitchEngaged /\ portfolio.status = "ERROR_LOCKED"

\* No session trades, or is paused from trading, on a portfolio that has never
\* been activated, and none was activated without a reconciliation.
TradesOnlyWhenPrepared ==
  session.status \in {"SHADOW_ACTIVE", "PAUSED"} =>
    session.reconciled /\ portfolio.status # "DRAFT"

\* The session implements the three-step way back to trading.
Machine == INSTANCE SessionMachine
  WITH status <- session.status, killSwitchEngaged <- session.killSwitchEngaged

ImplementsMachine == Machine!MachineSpec

\* Entries are permitted again only by the commit of an activation whose caller
\* had seen this very session with its kill switch released.
EntriesResumeByActivation ==
  [][ ~PermitsEntries(session.status, session.killSwitchEngaged)
        /\ PermitsEntries(session.status, session.killSwitchEngaged)' =>
      \E c \in Callers : /\ At(c, "ACTIVATE", "checked")
                         /\ callers'[c] = Idle
                         /\ callers[c].seen = session ]_vars

----------------------------------------------------------------------------
(* What the documents say and the code does not do                         *)

\* executionProfileIntegrity.ts: the lock stops new entries of a portfolio
\* whose profile deviates.  Once it has written the audit row of a deviation,
\* the next lock for the same deviation fails on the row's unique key, even
\* when nobody else touches the session.
ProfileLockLocks ==
  [][ \A c \in Callers :
        /\ callers[c].op = "PROFILE_LOCK"
        /\ callers'[c] = Idle
        /\ SessionAsRead(c)
        => session'.status = "ERROR_LOCKED" ]_vars

=============================================================================
