---------------------------- MODULE AlertOutbox ----------------------------
(***************************************************************************)
(* The trading alert outbox: runs of the alert job collect conditions      *)
(* persisted by trading into outbox entries and deliver the entries that   *)
(* are due.  Runs may overlap: the scheduler's run holds the job's lease,  *)
(* a run started by hand holds none, and a lease may run out under its     *)
(* holder.  A claim on an entry expires, also under a run that is merely   *)
(* slow.  Time appears as two facts of an entry: its backoff is over, its  *)
(* claim has expired.                                                      *)
(***************************************************************************)
EXTENDS Naturals, Functions

CONSTANTS
  Keys,         \* idempotency keys of the conditions that hold
  AlertRuns,    \* runs of the alert job
  MaxAttempts,  \* the entry's maxAttempts
  MaxCrashes    \* bound on the runs that die, for model checking

VARIABLES
  entries,    \* TradingAlertOutbox, by idempotency key
  attempts,   \* TradingAlertOutboxAttempt: [key, attempt], unique
  delivered,  \* the alerts the webhook has received
  overtaken,  \* keys whose claim expired under a run that was still at work
  alertRuns,  \* what each run is doing
  crashes     \* how many runs have died

outboxVars == <<entries, attempts, delivered, overtaken, alertRuns, crashes>>

EntryStatuses == {"NONE", "PENDING", "PROCESSING", "SENT", "FAILED", "DEAD"}
Claimable == {"PENDING", "FAILED"}
Final == {"SENT", "DEAD"}

NoEntry ==
  [status |-> "NONE", attempt |-> 0, due |-> FALSE, expired |-> FALSE, version |-> 0]
NewEntry == [NoEntry EXCEPT !.status = "PENDING", !.due = TRUE]

\* A key, for the records of runs that work on none.
AnyKey == CHOOSE k \in Keys : TRUE
NothingDue == [k \in {} |-> 0]
NoRun == [at |-> "idle", todo |-> {}, key |-> AnyKey, due |-> NothingDue, attempt |-> 0,
          answer |-> FALSE]

OutboxTypeOK ==
  /\ entries \in [Keys ->
       [status : EntryStatuses, attempt : Nat, due : BOOLEAN, expired : BOOLEAN, version : Nat]]
  /\ attempts \subseteq [key : Keys, attempt : Nat]
  /\ delivered \subseteq Keys /\ overtaken \subseteq Keys
  /\ \A r \in AlertRuns :
       /\ alertRuns[r].at \in {"idle", "collect", "insert", "read", "dispatch", "send", "finish"}
       /\ alertRuns[r].todo \subseteq Keys
       /\ alertRuns[r].key \in Keys
       /\ DOMAIN alertRuns[r].due \subseteq Keys
  /\ crashes \in 0..MaxCrashes

OutboxInit ==
  /\ entries = [k \in Keys |-> NoEntry]
  /\ attempts = {} /\ delivered = {} /\ overtaken = {}
  /\ alertRuns = [r \in AlertRuns |-> NoRun]
  /\ crashes = 0

At(r, at) == alertRuns[r].at = at
Go(r, at) == alertRuns' = [alertRuns EXCEPT ![r].at = at]

----------------------------------------------------------------------------
(* Collecting                                                              *)

\* The run starts and lists the conditions.  Delivery is allowed.
StartRun(r) ==
  /\ At(r, "idle")
  /\ alertRuns' = [alertRuns EXCEPT ![r] = [NoRun EXCEPT !.at = "collect", !.todo = Keys]]
  /\ UNCHANGED <<entries, attempts, delivered, overtaken, crashes>>

\* enqueueTradingAlert looks the key up; an entry of any status ends the matter.
CollectLookup(r, k) ==
  /\ At(r, "collect") /\ k \in alertRuns[r].todo
  /\ alertRuns' = IF entries[k].status = "NONE"
                    THEN [alertRuns EXCEPT ![r].at = "insert", ![r].key = k]
                    ELSE [alertRuns EXCEPT ![r].todo = @ \ {k}]
  /\ UNCHANGED <<entries, attempts, delivered, overtaken, crashes>>

\* The insert wins the unique key, or fails in its transaction: the lookup of
\* the winner in the aborted transaction throws, and collecting ends early.
CollectInsert(r) ==
  LET k == alertRuns[r].key IN
  /\ At(r, "insert")
  /\ IF entries[k].status = "NONE"
       THEN /\ entries' = [entries EXCEPT ![k] = NewEntry]
            /\ alertRuns' = [alertRuns EXCEPT ![r].at = "collect", ![r].todo = @ \ {k}]
       ELSE /\ entries' = entries
            /\ Go(r, "read")
  /\ UNCHANGED <<attempts, delivered, overtaken, crashes>>

CollectEnds(r) ==
  /\ At(r, "collect") /\ alertRuns[r].todo = {}
  /\ Go(r, "read")
  /\ UNCHANGED <<entries, attempts, delivered, overtaken, crashes>>

----------------------------------------------------------------------------
(* Dispatching                                                             *)

Due(k) == entries[k].status \in Claimable /\ entries[k].due

\* Mutant: only entries that failed are looked at for a claim that expired.
StrandedIfFailed(k) == entries[k].status \in Claimable /\ entries[k].expired

Stranded(k) == entries[k].status = "PROCESSING" /\ entries[k].expired

\* The due entries are read with their versions; then claims that have expired
\* are given back, each by a compare-and-swap, for a later run to take.
ReadDue(r) ==
  /\ At(r, "read")
  /\ alertRuns' = [alertRuns EXCEPT
       ![r].at = "dispatch", ![r].key = AnyKey,
       ![r].due = [k \in {k \in Keys : Due(k)} |->
                     [version |-> entries[k].version, attempt |-> entries[k].attempt]]]
  /\ entries' = [k \in Keys |->
       IF Stranded(k)
         THEN [entries[k] EXCEPT !.status = "FAILED", !.due = TRUE, !.expired = FALSE,
                                 !.version = @ + 1]
         ELSE entries[k]]
  /\ UNCHANGED <<attempts, delivered, overtaken, crashes>>

\* Mutant: the claim does not check the version it read.
ClaimWithoutVersion(r, k) == entries[k].status \in Claimable

\* Mutant: what was due when the run read it is claimed by id.
ClaimById(r, k) == TRUE

\* claim(): a compare-and-swap on version and status, which numbers the attempt.
CanClaim(r, k) ==
  /\ entries[k].version = alertRuns[r].due[k].version
  /\ entries[k].status \in Claimable

Claim(r, k) ==
  LET attempt == alertRuns[r].due[k].attempt + 1 IN
  /\ At(r, "dispatch") /\ k \in DOMAIN alertRuns[r].due
  /\ IF CanClaim(r, k)
       THEN /\ entries' = [entries EXCEPT ![k] =
                 [@ EXCEPT !.status = "PROCESSING", !.attempt = attempt,
                           !.expired = FALSE, !.version = alertRuns[r].due[k].version + 1]]
            /\ alertRuns' = [alertRuns EXCEPT
                 ![r].at = "send", ![r].key = k, ![r].attempt = attempt,
                 ![r].due = Restrict(@, DOMAIN @ \ {k})]
       ELSE /\ alertRuns' = [alertRuns EXCEPT ![r].due = Restrict(@, DOMAIN @ \ {k})]
            /\ entries' = entries
  /\ UNCHANGED <<attempts, delivered, overtaken, crashes>>

\* The n8n transport posts up to three times and answers whether its last post
\* went well and was recorded; a post that is counted as failed may have arrived.
Transport(r) ==
  /\ At(r, "send")
  /\ \E ok, arrived \in BOOLEAN :
       /\ ok => arrived
       /\ delivered' = IF arrived THEN delivered \cup {alertRuns[r].key} ELSE delivered
       /\ alertRuns' = [alertRuns EXCEPT ![r].at = "finish", ![r].answer = ok]
  /\ UNCHANGED <<entries, attempts, overtaken, crashes>>

Outcome(answer, attempt) ==
  IF answer THEN "SENT" ELSE IF attempt >= MaxAttempts THEN "DEAD" ELSE "FAILED"

\* The outcome is written by id, whatever has become of the entry meanwhile.
Finish(r) ==
  LET k == alertRuns[r].key
      status == Outcome(alertRuns[r].answer, alertRuns[r].attempt) IN
  /\ At(r, "finish")
  /\ attempts' = attempts \cup {[key |-> k, attempt |-> alertRuns[r].attempt]}
  /\ entries' = [entries EXCEPT
       ![k].status = status, ![k].expired = FALSE, ![k].version = @ + 1,
       ![k].due = IF status = "FAILED" THEN FALSE ELSE @]
  /\ alertRuns' = [alertRuns EXCEPT ![r].at = "dispatch", ![r].key = AnyKey]
  /\ UNCHANGED <<delivered, overtaken, crashes>>

RunEnds(r) ==
  /\ At(r, "dispatch") /\ DOMAIN alertRuns[r].due = {}
  /\ alertRuns' = [alertRuns EXCEPT ![r] = NoRun]
  /\ UNCHANGED <<entries, attempts, delivered, overtaken, crashes>>

Dies(r) ==
  /\ ~At(r, "idle") /\ crashes < MaxCrashes
  /\ alertRuns' = [alertRuns EXCEPT ![r] = NoRun]
  /\ crashes' = crashes + 1
  /\ UNCHANGED <<entries, attempts, delivered, overtaken>>

----------------------------------------------------------------------------
(* Time                                                                    *)

BackoffEnds(k) ==
  /\ entries[k].status \in Claimable /\ ~entries[k].due
  /\ entries' = [entries EXCEPT ![k].due = TRUE]
  /\ UNCHANGED <<attempts, delivered, overtaken, alertRuns, crashes>>

ClaimExpires(k) ==
  /\ entries[k].status = "PROCESSING" /\ ~entries[k].expired
  /\ entries' = [entries EXCEPT ![k].expired = TRUE]
  /\ overtaken' = IF \E r \in AlertRuns : alertRuns[r].at \in {"send", "finish"} /\ alertRuns[r].key = k
                    THEN overtaken \cup {k} ELSE overtaken
  /\ UNCHANGED <<attempts, delivered, alertRuns, crashes>>

RunStep(r) ==
  \/ \E k \in Keys : CollectLookup(r, k) \/ Claim(r, k)
  \/ CollectInsert(r) \/ CollectEnds(r) \/ ReadDue(r) \/ Transport(r) \/ Finish(r) \/ RunEnds(r)

OutboxNext ==
  \/ \E r \in AlertRuns : StartRun(r) \/ RunStep(r) \/ Dies(r)
  \/ \E k \in Keys : BackoffEnds(k) \/ ClaimExpires(k)

\* Runs are started again and again and go on to their end; time passes.
OutboxFairness ==
  /\ \A r \in AlertRuns : WF_outboxVars(StartRun(r)) /\ WF_outboxVars(RunStep(r))
  /\ \A k \in Keys : WF_outboxVars(BackoffEnds(k)) /\ WF_outboxVars(ClaimExpires(k))

OutboxSpec == OutboxInit /\ [][OutboxNext]_outboxVars /\ OutboxFairness

----------------------------------------------------------------------------
(* Properties                                                              *)

\* An attempt number is used by one claim only: runs at work on one entry have
\* different numbers, and none that the attempt log holds already, whose unique
\* key would make the outcome's transaction fail (claim, dispatchPendingAlerts).
AttemptsAreDistinct ==
  \A r \in AlertRuns : alertRuns[r].at \in {"send", "finish"} =>
    /\ [key |-> alertRuns[r].key, attempt |-> alertRuns[r].attempt] \notin attempts
    /\ \A q \in AlertRuns \ {r} :
         (alertRuns[q].at \in {"send", "finish"} /\ alertRuns[q].key = alertRuns[r].key)
           => alertRuns[q].attempt # alertRuns[r].attempt

\* The state machine of the entry: DEAD is never picked up again and a SENT
\* alert is not sent again.
FinalIsFinal ==
  [][\A k \in Keys : entries[k].status \in Final => entries'[k].status = entries[k].status]_outboxVars

\* The same of entries whose claim never expired under a run at work: neither a
\* race for the claim nor a crash brings a final entry back.
FinalUnlessOvertaken ==
  [][\A k \in Keys : (entries[k].status \in Final /\ k \notin overtaken)
       => entries'[k].status = entries[k].status]_outboxVars

\* Every condition ends as an alert that was received or as one that used up its
\* attempts, although runs die between any two steps and overtake each other.
EveryAlertEnds ==
  <>[](\A k \in Keys : \/ entries[k].status = "SENT" /\ k \in delivered
                       \/ entries[k].status = "DEAD" /\ entries[k].attempt >= MaxAttempts)

=============================================================================
