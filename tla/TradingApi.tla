----------------------------- MODULE TradingApi -----------------------------
(***************************************************************************)
(* The operator commands of the trading API.  A command carries an         *)
(* idempotency key and the version of the row its operator looked at; the  *)
(* handler looks the key up, compares the version, and calls an operation  *)
(* of the trading worker, which reads the row again and commits row and    *)
(* audit event together.  Commands run side by side, a handler may die, an *)
(* answer may be lost and the command sent again with the same key and     *)
(* version, and jobs change the rows in between.                           *)
(***************************************************************************)
EXTENDS TradingStateMachines, FiniteSets

CONSTANTS
  Requests,    \* deliveries of commands at one time
  IdempotencyKeys,
  Sent,        \* the commands the operators send
  FirstStatus, FirstKill,   \* the session when they start
  MaxChanges,  \* bound on the commits, for model checking
  MaxLost      \* bound on handlers and answers that are lost

VARIABLES
  rows,      \* the TradingSession, Portfolio, StrategyAssignment and ShadowPosition rows
  audits,    \* TradingAuditEvent: one per command that was carried out
  requests,
  jobRuns,   \* how often a job ran by hand
  commits, lost

apiVars == <<rows, audits, requests, jobRuns, commits, lost>>

SessionCommands == {"PAUSE", "ACTIVATE", "ENGAGE", "RELEASE", "UNLOCK"}
AssignmentCommands == {"ENABLE", "DISABLE"}
Commands == SessionCommands \cup AssignmentCommands \cup {"ACTIVATE_PORTFOLIO", "CLOSE", "RUN_JOB"}

\* The aggregate a command is about; a job has no row.
AggregateOf(command) ==
  CASE command \in SessionCommands -> "session"
    [] command \in AssignmentCommands -> "assignment"
    [] command = "ACTIVATE_PORTFOLIO" -> "portfolio"
    [] command = "CLOSE" -> "position"
    [] OTHER -> "job"

FirstRows ==
  [session |-> [status |-> FirstStatus, flag |-> FirstKill, version |-> 0],
   portfolio |-> [status |-> "DRAFT", flag |-> FALSE, version |-> 0],
   assignment |-> [status |-> "PINNED", flag |-> FALSE, version |-> 0],
   position |-> [status |-> "OPEN", flag |-> FALSE, version |-> 0],
   job |-> [status |-> "NONE", flag |-> FALSE, version |-> 0]]

\* flag is killSwitchEngaged of the session and enabled of the assignment.
Changed(row, status, flag) == [status |-> status, flag |-> flag, version |-> row.version + 1]

SomeKey == CHOOSE k \in IdempotencyKeys : TRUE
NoRequest == [at |-> "idle", command |-> "PAUSE", key |-> SomeKey, expected |-> 0,
              seen |-> 0, repeats |-> FALSE, answer |-> "none"]

ApiTypeOK ==
  /\ \A a \in DOMAIN rows : rows[a].status \in SessionStatuses \cup {"DRAFT", "ACTIVE", "PINNED", "OPEN",
                                                                    "CLOSED", "NONE"}
  /\ \A a \in DOMAIN rows : rows[a].flag \in BOOLEAN /\ rows[a].version \in Nat
  /\ \A e \in audits : e.command \in Commands /\ e.key \in IdempotencyKeys
  /\ \A r \in Requests :
       /\ requests[r].at \in {"idle", "lookup", "version", "read", "commit", "answered"}
       /\ requests[r].answer \in {"none", "executed", "replayed", "version_conflict", "guard_failed", "error"}

ApiInit ==
  /\ rows = FirstRows /\ audits = {} /\ jobRuns = 0 /\ commits = 0 /\ lost = 0
  /\ requests = [r \in Requests |-> NoRequest]

\* The audit event of a command with a key, whose eventKey is unique.
CarriedOut(command, key) == \E e \in audits : e.command = command /\ e.key = key

----------------------------------------------------------------------------
(* What the operations of the worker do with the row they read             *)

\* The row is as the command wants it: the operation answers and writes nothing.
AlreadyDone(command, key, row) ==
  CASE command = "ENGAGE" -> row.flag
    [] command = "RELEASE" -> row.status = "STOPPED" /\ ~row.flag
    [] command = "ACTIVATE_PORTFOLIO" -> row.status = "ACTIVE"
    [] command = "ENABLE" -> row.flag
    [] command = "DISABLE" -> ~row.flag
    [] command = "CLOSE" -> row.status = "OPEN" /\ CarriedOut(command, key)
    [] OTHER -> FALSE

\* The guard of the operation, as far as it reads this row.
Permitted(command, row) ==
  CASE command = "PAUSE" -> <<row.status, "PAUSED">> \in SessionTransitions
    [] command = "ACTIVATE" -> <<row.status, "SHADOW_ACTIVE">> \in SessionTransitions /\ ~row.flag
    [] command = "ENGAGE" -> row.status # "CLOSED"
    [] command = "RELEASE" -> row.status = "STOPPED"
    [] command = "UNLOCK" -> <<row.status, "STOPPED">> \in SessionTransitions
    [] command = "ACTIVATE_PORTFOLIO" -> row.status = "DRAFT"
    [] command = "CLOSE" -> row.status = "OPEN"
    [] OTHER -> TRUE

Outcome(command, row) ==
  CASE command = "PAUSE" -> Changed(row, "PAUSED", row.flag)
    [] command = "ACTIVATE" -> Changed(row, "SHADOW_ACTIVE", row.flag)
    [] command = "ENGAGE" -> Changed(row, row.status, TRUE)
    [] command = "RELEASE" -> Changed(row, row.status, FALSE)
    [] command = "UNLOCK" -> Changed(row, "STOPPED", row.flag)
    [] command = "ACTIVATE_PORTFOLIO" -> Changed(row, "ACTIVE", row.flag)
    [] command = "ENABLE" -> Changed(row, row.status, TRUE)
    [] command = "DISABLE" -> Changed(row, row.status, FALSE)
    [] OTHER -> row      \* a risk event for the position, a job: no row

----------------------------------------------------------------------------
(* The handler                                                             *)

At(r, at) == requests[r].at = at
Row(r) == rows[AggregateOf(requests[r].command)]
Go(r, at) == requests' = [requests EXCEPT ![r].at = at]
Answer(r, answer) == requests' = [requests EXCEPT ![r].at = "answered", ![r].answer = answer]

\* An operator sends a command for the row on the screen.
Submit(r, command, key) ==
  /\ At(r, "idle")
  /\ requests' = [requests EXCEPT ![r] =
       [NoRequest EXCEPT !.at = "lookup", !.command = command, !.key = key,
                         !.expected = rows[AggregateOf(command)].version,
                         !.repeats = CarriedOut(command, key)]]
  /\ UNCHANGED <<rows, audits, jobRuns, commits, lost>>

\* findIdempotentReplay: any audit event of the same aggregate with this key.
Replayed(r) ==
  \E e \in audits : /\ AggregateOf(e.command) = AggregateOf(requests[r].command)
                    /\ e.key = requests[r].key

LookUp(r) ==
  /\ At(r, "lookup")
  /\ IF Replayed(r) THEN Answer(r, "replayed") ELSE Go(r, "version")
  /\ UNCHANGED <<rows, audits, jobRuns, commits, lost>>

\* A job has no version to compare.
CheckVersion(r) ==
  /\ At(r, "version")
  /\ IF requests[r].command # "RUN_JOB" /\ Row(r).version # requests[r].expected
     THEN Answer(r, "version_conflict") ELSE Go(r, "read")
  /\ UNCHANGED <<rows, audits, jobRuns, commits, lost>>

\* Mutant: the compare in the handler is held to be enough.
ComparedOnce(r) == FALSE

\* setStrategyAssignmentEnabled compares with the row it read again: the operator's
\* version, and his confirmation, which spells the version out.
ComparedAgain(r) ==
  requests[r].command \in AssignmentCommands /\ Row(r).version # requests[r].expected

\* The operation reads the row, or the job runs.  Facts of other tables may
\* forbid an activation, a release or an unlock.
ReadRow(r) ==
  LET command == requests[r].command
      done == AlreadyDone(command, requests[r].key, Row(r)) IN
  /\ At(r, "read")
  /\ \/ command = "RUN_JOB" /\ jobRuns' = jobRuns + 1 /\ Go(r, "commit")
     \/ /\ command # "RUN_JOB" /\ UNCHANGED jobRuns
        /\ \/ /\ \/ ComparedAgain(r)
                 \/ ~done /\ ~Permitted(command, Row(r))
                 \/ ~done /\ command \in {"ACTIVATE", "RELEASE", "UNLOCK"}
              /\ Answer(r, "guard_failed")
           \/ ~ComparedAgain(r) /\ done /\ Answer(r, "executed")
           \/ /\ ~ComparedAgain(r) /\ ~done /\ Permitted(command, Row(r))
              /\ requests' = [requests EXCEPT ![r].at = "commit", ![r].seen = Row(r).version]
  /\ UNCHANGED <<rows, audits, commits, lost>>

\* The transaction: the row as it was read, and an audit event of a new key.
\* A risk event of the same key answers without a second one.
Commit(r) ==
  LET command == requests[r].command
      asRead == command \in {"CLOSE", "RUN_JOB"} \/ Row(r).version = requests[r].seen IN
  /\ At(r, "commit") /\ commits < MaxChanges
  /\ IF ~asRead \/ CarriedOut(command, requests[r].key)
     THEN /\ Answer(r, "error") /\ UNCHANGED <<rows, audits>>
     ELSE /\ rows' = [rows EXCEPT ![AggregateOf(command)] = Outcome(command, @)]
          /\ audits' = audits \cup {[command |-> command, key |-> requests[r].key,
                                     expected |-> requests[r].expected, found |-> Row(r).version]}
          /\ Answer(r, "executed")
  /\ commits' = commits + 1
  /\ UNCHANGED <<jobRuns, lost>>

\* The operator has the answer.
Receive(r) ==
  /\ At(r, "answered")
  /\ requests' = [requests EXCEPT ![r] = NoRequest]
  /\ UNCHANGED <<rows, audits, jobRuns, commits, lost>>

\* The handler dies or its answer is lost: the dashboard sends the command again.
Resend(r) ==
  /\ ~At(r, "idle") /\ lost < MaxLost
  /\ requests' = [requests EXCEPT ![r].at = "lookup", ![r].answer = "none",
                                  ![r].repeats = CarriedOut(requests[r].command, requests[r].key)]
  /\ lost' = lost + 1
  /\ UNCHANGED <<rows, audits, jobRuns, commits>>

----------------------------------------------------------------------------
(* One operation per route: the same steps for its own commands            *)

Operation(r, commands) ==
  requests[r].command \in commands /\ (LookUp(r) \/ CheckVersion(r) \/ ReadRow(r) \/ Commit(r))

SetAssignmentOperation(r) == Operation(r, AssignmentCommands)
ActivatePortfolioOperation(r) == Operation(r, {"ACTIVATE_PORTFOLIO"})
ReleaseKillSwitchOperation(r) == Operation(r, {"RELEASE"})
ActivateSessionOperation(r) == Operation(r, {"ACTIVATE"})
PauseSessionOperation(r) == Operation(r, {"PAUSE"})
EngageKillSwitchOperation(r) == Operation(r, {"ENGAGE"})
UnlockSessionOperation(r) == Operation(r, {"UNLOCK"})
ManualRiskCloseOperation(r) == Operation(r, {"CLOSE"})
RunJobOperation(r) == Operation(r, {"RUN_JOB"})

HandlerStep(r) ==
  \/ SetAssignmentOperation(r) \/ ActivatePortfolioOperation(r)
  \/ ReleaseKillSwitchOperation(r) \/ EngageKillSwitchOperation(r)
  \/ ActivateSessionOperation(r) \/ PauseSessionOperation(r) \/ UnlockSessionOperation(r)
  \/ ManualRiskCloseOperation(r) \/ RunJobOperation(r)
  \/ Receive(r) \/ Resend(r)

----------------------------------------------------------------------------
(* The jobs of the worker                                                  *)

\* An error lock, a fill that closes the position, another operator's assignment.
JobWrites ==
  /\ commits < MaxChanges /\ commits' = commits + 1
  /\ \/ rows.session.status # "CLOSED"
        /\ rows' = [rows EXCEPT !.session = Changed(@, "ERROR_LOCKED", TRUE)]
     \/ rows.position.status = "OPEN"
        /\ rows' = [rows EXCEPT !.position = Changed(@, "CLOSED", FALSE)]
  /\ UNCHANGED <<audits, requests, jobRuns, lost>>

ApiNext ==
  \/ \E r \in Requests, command \in Sent, key \in IdempotencyKeys : Submit(r, command, key)
  \/ \E r \in Requests : HandlerStep(r)
  \/ JobWrites

ApiSpec == ApiInit /\ [][ApiNext]_apiVars

----------------------------------------------------------------------------
(* Properties                                                              *)

\* A command sent again after it was carried out is told so: never that its
\* version is stale, that a guard forbids it or that it failed, whatever the
\* rows have become (findIdempotentReplay comes before every check).
RepeatIsRecognised ==
  \A r \in Requests : requests[r].repeats => requests[r].answer \in {"none", "replayed"}

\* An assignment is switched on or off only in the version its operator looked
\* at, however many commands and jobs run between the handler's check and the
\* transaction (setStrategyAssignmentEnabled).
AssignmentsChangeAsSeen ==
  \A e \in audits : e.command \in AssignmentCommands => e.found = e.expected

\* A command that was carried out is recognised when it is sent again, and an
\* assignment changes only in the version its operator looked at.
CommandsAreSafe == RepeatIsRecognised /\ AssignmentsChangeAsSeen

\* The same of the session does not hold: its operations compare with the
\* version they read themselves.
SessionsChangeAsSeen ==
  \A e \in audits : e.command \in SessionCommands => e.found = e.expected

\* Nor is a replayed answer always about the command that was sent: the key may
\* belong to another command on the same aggregate.
ReplayIsOfTheCommand ==
  \A r \in Requests : requests[r].answer = "replayed" => CarriedOut(requests[r].command, requests[r].key)
=============================================================================
