-------------------------- MODULE AlertOutboxProofs --------------------------
(***************************************************************************)
(* Two dispatchers never take the same attempt number, and an alert that   *)
(* has ended stays as it ended unless its claim expired under a run at     *)
(* work: for any number of alerts, overlapping runs, attempts and deaths.  *)
(* The claim is a compare-and-swap, but the outcome is written by id, so   *)
(* both rest on what a run at work knows of its entry.                     *)
(***************************************************************************)
EXTENDS AlertOutbox, TLAPS

\* There is a condition to alert; the bounds are numbers.
OutboxConstants == Keys # {} /\ MaxAttempts \in Nat /\ MaxCrashes \in Nat

Entry == [status : EntryStatuses, attempt : Nat, due : BOOLEAN, expired : BOOLEAN, version : Nat]
Seen == [version : Nat, attempt : Nat]
Run == [at : {"idle", "collect", "insert", "read", "dispatch", "send", "finish"},
        todo : SUBSET Keys, key : Keys, due : UNION {[K -> Seen] : K \in SUBSET Keys},
        attempt : Nat, answer : BOOLEAN]

Types ==
  /\ entries \in [Keys -> Entry]
  /\ attempts \in SUBSET [key : Keys, attempt : Nat]
  /\ delivered \in SUBSET Keys /\ overtaken \in SUBSET Keys
  /\ alertRuns \in [AlertRuns -> Run]
  /\ crashes \in 0..MaxCrashes

\* A run at work: it has claimed the entry of its key and not written the outcome.
AtWork(r) == alertRuns[r].at \in {"send", "finish"}

\* What a run read of an entry stands while the version does.
DueIsPast ==
  \A r \in AlertRuns : \A k \in DOMAIN alertRuns[r].due :
    /\ alertRuns[r].due[k].version <= entries[k].version
    /\ alertRuns[r].due[k].version = entries[k].version
         => alertRuns[r].due[k].attempt = entries[k].attempt

\* The entry has counted every attempt that is under way or logged.
NumbersTaken ==
  /\ \A r \in AlertRuns : AtWork(r) => alertRuns[r].attempt <= entries[alertRuns[r].key].attempt
  /\ \A a \in attempts : a.attempt <= entries[a.key].attempt

\* A run whose claim has never expired under it has its entry for itself.
WorkersHold ==
  \A r \in AlertRuns : (AtWork(r) /\ alertRuns[r].key \notin overtaken) =>
    /\ entries[alertRuns[r].key].status = "PROCESSING"
    /\ ~entries[alertRuns[r].key].expired
    /\ \A q \in AlertRuns \ {r} : AtWork(q) => alertRuns[q].key # alertRuns[r].key

\* A row that is not there yet has counted nothing.
NewIsBlank == \A k \in Keys : entries[k].status = "NONE" => entries[k].attempt = 0 /\ entries[k].version = 0

IInv == /\ Types /\ DueIsPast /\ NumbersTaken /\ AttemptsAreDistinct /\ WorkersHold
        /\ NewIsBlank

----------------------------------------------------------------------------
(* The shapes of a step                                                    *)

\* What a run remembers of due entries is at most what it remembered.
Remembers(before, after) ==
  /\ DOMAIN after.due \subseteq DOMAIN before.due
  /\ \A k \in DOMAIN after.due : after.due[k] = before.due[k]

LEMMA NoRunTyped ==
  ASSUME OutboxConstants
  PROVE  NoRun \in Run /\ NoRun.at = "idle" /\ DOMAIN NoRun.due = {} /\ NoEntry \in Entry
<1>1. AnyKey \in Keys
  BY DEF AnyKey, OutboxConstants
<1>2. NothingDue \in [{} -> Seen] /\ DOMAIN NothingDue = {}
  BY DEF NothingDue
<1> HIDE DEF AnyKey
<1>3. NothingDue \in UNION {[K -> Seen] : K \in SUBSET Keys}
  BY <1>2
<1>4. NoEntry \in Entry
  BY DEF NoEntry, Entry, EntryStatuses
<1> HIDE DEF NothingDue
<1>5. QED
  BY <1>1, <1>2, <1>3, <1>4 DEF NoRun, Run

LEMMA RunUpdate ==
  ASSUME Types, NEW q \in AlertRuns, NEW x \in Run, alertRuns' = [alertRuns EXCEPT ![q] = x]
  PROVE  /\ alertRuns' \in [AlertRuns -> Run] /\ alertRuns'[q] = x
         /\ \A r \in AlertRuns \ {q} : alertRuns'[r] = alertRuns[r]
BY DEF Types

\* Runs may move, but none takes work on or reads anything.
RunsQuiet ==
  \A r \in AlertRuns :
    /\ Remembers(alertRuns[r], alertRuns'[r])
    /\ AtWork(r)' => /\ AtWork(r) /\ alertRuns'[r].key = alertRuns[r].key
                     /\ alertRuns'[r].attempt = alertRuns[r].attempt

\* One run moves so.
LEMMA OneQuiet ==
  ASSUME Types, NEW q \in AlertRuns, NEW x \in Run, alertRuns' = [alertRuns EXCEPT ![q] = x],
         Remembers(alertRuns[q], x),
         x.at \in {"send", "finish"} =>
           AtWork(q) /\ x.key = alertRuns[q].key /\ x.attempt = alertRuns[q].attempt
  PROVE  RunsQuiet /\ alertRuns' \in [AlertRuns -> Run] /\ alertRuns'[q] = x
<1>1. /\ alertRuns' \in [AlertRuns -> Run] /\ alertRuns'[q] = x
      /\ \A r \in AlertRuns \ {q} : alertRuns'[r] = alertRuns[r]
  BY RunUpdate
<1>2. QED
  BY <1>1 DEF RunsQuiet, Remembers, AtWork

\* A row that changes what a claim compares also changes its version.
RowsGrow ==
  /\ entries' \in [Keys -> Entry]
  /\ \A k \in Keys :
       /\ entries[k].attempt <= entries'[k].attempt
       /\ \/ entries[k].version < entries'[k].version
          \/ entries[k].version = entries'[k].version /\ entries[k].attempt = entries'[k].attempt

LEMMA RunFields ==
  ASSUME Types, NEW r \in AlertRuns
  PROVE  /\ alertRuns[r].key \in Keys /\ alertRuns[r].attempt \in Nat
         /\ DOMAIN alertRuns[r].due \subseteq Keys
         /\ \A k \in DOMAIN alertRuns[r].due :
              alertRuns[r].due[k].version \in Nat /\ alertRuns[r].due[k].attempt \in Nat
<1>1. alertRuns[r] \in Run
  BY DEF Types
<1>2. PICK K \in SUBSET Keys : alertRuns[r].due \in [K -> Seen]
  BY <1>1 DEF Run
<1>3. DOMAIN alertRuns[r].due = K /\ \A k \in K : alertRuns[r].due[k] \in Seen
  BY <1>2
<1>4. QED
  BY <1>1, <1>3 DEF Run, Seen

LEMMA EntryFields ==
  ASSUME Types, NEW k \in Keys
  PROVE  entries[k] \in Entry /\ entries[k].attempt \in Nat /\ entries[k].version \in Nat
BY DEF Types, Entry

\* What runs remember and the numbers they have taken survive any growth of the rows.
LEMMA GrowthKeeps ==
  ASSUME IInv, Types', RunsQuiet, RowsGrow, attempts' = attempts
  PROVE  DueIsPast' /\ NumbersTaken' /\ AttemptsAreDistinct'
<1>1. Types
  BY DEF IInv
<1>2. ASSUME NEW k \in Keys
      PROVE  /\ entries[k].attempt \in Nat /\ entries'[k].attempt \in Nat
             /\ entries[k].version \in Nat /\ entries'[k].version \in Nat
  BY <1>1, EntryFields DEF RowsGrow, Entry
<1>3. DueIsPast'
  <2> SUFFICES ASSUME NEW r \in AlertRuns, NEW k \in DOMAIN alertRuns'[r].due
               PROVE  /\ alertRuns'[r].due[k].version <= entries'[k].version
                      /\ alertRuns'[r].due[k].version = entries'[k].version
                           => alertRuns'[r].due[k].attempt = entries'[k].attempt
    BY DEF DueIsPast
  <2>1. k \in DOMAIN alertRuns[r].due /\ alertRuns'[r].due[k] = alertRuns[r].due[k]
    BY DEF RunsQuiet, Remembers
  <2>2. /\ k \in Keys /\ alertRuns[r].due[k].version \in Nat
        /\ alertRuns[r].due[k].version <= entries[k].version
        /\ alertRuns[r].due[k].version = entries[k].version
             => alertRuns[r].due[k].attempt = entries[k].attempt
    BY <1>1, <2>1, RunFields DEF IInv, DueIsPast
  <2>3. \/ entries[k].version < entries'[k].version
        \/ entries[k].version = entries'[k].version /\ entries[k].attempt = entries'[k].attempt
    BY <2>2 DEF RowsGrow
  <2>4. QED
    BY <1>2, <2>1, <2>2, <2>3
<1>4. NumbersTaken'
  <2>1. ASSUME NEW r \in AlertRuns, AtWork(r)'
        PROVE  alertRuns'[r].attempt <= entries'[alertRuns'[r].key].attempt
    <3>1. /\ alertRuns'[r].key = alertRuns[r].key /\ alertRuns'[r].attempt = alertRuns[r].attempt
          /\ alertRuns[r].attempt <= entries[alertRuns[r].key].attempt
      BY <2>1 DEF RunsQuiet, IInv, NumbersTaken
    <3>2. alertRuns[r].key \in Keys /\ alertRuns[r].attempt \in Nat
      BY <1>1, RunFields
    <3>3. QED
      BY <1>2, <3>1, <3>2 DEF RowsGrow
  <2>2. ASSUME NEW a \in attempts PROVE a.attempt <= entries'[a.key].attempt
    <3>1. a.key \in Keys /\ a.attempt \in Nat /\ a.attempt <= entries[a.key].attempt
      BY <1>1 DEF Types, IInv, NumbersTaken
    <3>2. QED
      BY <1>2, <3>1 DEF RowsGrow
  <2>3. QED
    BY <2>1, <2>2 DEF NumbersTaken
<1>5. AttemptsAreDistinct'
  BY DEF IInv, AttemptsAreDistinct, AtWork, RunsQuiet
<1>6. QED
  BY <1>3, <1>4, <1>5

\* A step that touches no row and starts no work.
LEMMA QuietKeeps ==
  ASSUME IInv, Types', RunsQuiet, UNCHANGED <<entries, attempts, overtaken>>
  PROVE  IInv'
<1>1. RowsGrow
  BY EntryFields DEF RowsGrow, IInv, Types
<1>2. DueIsPast' /\ NumbersTaken' /\ AttemptsAreDistinct'
  BY <1>1, GrowthKeeps
<1>3. WorkersHold' /\ NewIsBlank'
  BY DEF IInv, WorkersHold, RunsQuiet, NewIsBlank
<1>4. QED
  BY <1>2, <1>3 DEF IInv

----------------------------------------------------------------------------
(* The steps                                                               *)

LEMMA StartRunKeeps ==
  ASSUME OutboxConstants, IInv, NEW q \in AlertRuns,
         StartRun(q) \/ RunEnds(q) \/ Dies(q)
  PROVE  IInv'
<1>1. PICK x \in Run : /\ alertRuns' = [alertRuns EXCEPT ![q] = x]
                       /\ x.at \in {"idle", "collect"} /\ DOMAIN x.due = {}
  <2>1. CASE StartRun(q)
    <3> DEFINE y == [NoRun EXCEPT !.at = "collect", !.todo = Keys]
    <3>1. y \in Run /\ y.at = "collect" /\ DOMAIN y.due = {}
      BY NoRunTyped DEF Run
    <3>2. alertRuns' = [alertRuns EXCEPT ![q] = y]
      BY <2>1 DEF StartRun
    <3> HIDE DEF y
    <3>3. QED BY <3>1, <3>2
  <2>2. CASE RunEnds(q) \/ Dies(q)
    BY <2>2, NoRunTyped DEF RunEnds, Dies
  <2>3. QED BY <2>1, <2>2
<1>2. Remembers(alertRuns[q], x)
  BY <1>1 DEF Remembers
<1>3. Types
  BY DEF IInv
<1>4. RunsQuiet /\ alertRuns' \in [AlertRuns -> Run]
  BY <1>1, <1>2, <1>3, OneQuiet
<1>5. UNCHANGED <<entries, attempts, delivered, overtaken>> /\ crashes' \in 0..MaxCrashes
  BY <1>3 DEF StartRun, RunEnds, Dies, Types, OutboxConstants
<1>6. Types'
  BY <1>3, <1>4, <1>5 DEF Types
<1>7. QED
  BY <1>4, <1>5, <1>6, QuietKeeps

LEMMA CollectKeeps ==
  ASSUME IInv, NEW q \in AlertRuns,
         (\E k \in Keys : CollectLookup(q, k)) \/ CollectEnds(q) \/ Transport(q)
  PROVE  IInv'
<1> DEFINE run == alertRuns[q]
<1>1. run \in Run /\ Types
  BY DEF IInv, Types
<1>2. PICK x \in Run :
        /\ alertRuns' = [alertRuns EXCEPT ![q] = x] /\ x.due = run.due
        /\ x.at \in {"send", "finish"} =>
             AtWork(q) /\ x.key = run.key /\ x.attempt = run.attempt
  <2>1. ASSUME NEW k \in Keys, CollectLookup(q, k)
        PROVE  \E x \in Run :
                 /\ alertRuns' = [alertRuns EXCEPT ![q] = x] /\ x.due = run.due
                 /\ x.at \in {"insert", "collect"}
    <3> DEFINE y == [run EXCEPT !.at = "insert", !.key = k]
               z == [run EXCEPT !.todo = @ \ {k}]
    <3>1. /\ y \in Run /\ y.due = run.due /\ y.at = "insert"
          /\ z \in Run /\ z.due = run.due /\ z.at = run.at
      BY <1>1 DEF Run
    <3>2. /\ run.at = "collect"
          /\ \/ alertRuns' = [alertRuns EXCEPT ![q] = y]
             \/ alertRuns' = [alertRuns EXCEPT ![q] = z]
      BY <1>1, <2>1 DEF CollectLookup, At, Types
    <3> HIDE DEF y, z
    <3>3. QED BY <3>1, <3>2
  <2>2. CASE CollectEnds(q)
    <3> DEFINE y == [run EXCEPT !.at = "read"]
    <3>1. y \in Run /\ y.due = run.due /\ y.at = "read"
      BY <1>1 DEF Run
    <3>2. alertRuns' = [alertRuns EXCEPT ![q] = y]
      BY <1>1, <2>2 DEF CollectEnds, Go, Types
    <3> HIDE DEF y
    <3>3. QED BY <3>1, <3>2
  <2>3. CASE Transport(q)
    <3>1. PICK ok \in BOOLEAN :
            alertRuns' = [alertRuns EXCEPT ![q].at = "finish", ![q].answer = ok]
      BY <2>3 DEF Transport
    <3> DEFINE y == [run EXCEPT !.at = "finish", !.answer = ok]
    <3>2. y \in Run /\ y.due = run.due /\ y.key = run.key /\ y.attempt = run.attempt
      BY <1>1 DEF Run
    <3>3. alertRuns' = [alertRuns EXCEPT ![q] = y]
      BY <1>1, <3>1 DEF Types
    <3>4. AtWork(q)
      BY <2>3 DEF Transport, At, AtWork
    <3> HIDE DEF y
    <3>5. QED BY <3>2, <3>3, <3>4
  <2>4. QED BY <2>1, <2>2, <2>3
<1>3. Remembers(run, x)
  BY <1>2 DEF Remembers
<1>4. RunsQuiet /\ alertRuns' \in [AlertRuns -> Run]
  BY <1>1, <1>2, <1>3, OneQuiet
<1>5. /\ UNCHANGED <<entries, attempts, overtaken, crashes>>
      /\ delivered' \in SUBSET Keys
  BY <1>1, RunFields DEF CollectLookup, CollectEnds, Transport, Types
<1>6. Types'
  BY <1>1, <1>4, <1>5 DEF Types
<1>7. QED
  BY <1>4, <1>5, <1>6, QuietKeeps

\* The insert either makes a row that has counted nothing, or changes none.
LEMMA InsertKeeps ==
  ASSUME IInv, NEW q \in AlertRuns, CollectInsert(q)
  PROVE  IInv'
<1> DEFINE run == alertRuns[q]
           k == run.key
<1>1. run \in Run /\ Types /\ k \in Keys
  BY RunFields DEF IInv, Types
<1>2. PICK x \in Run :
        /\ alertRuns' = [alertRuns EXCEPT ![q] = x] /\ x.due = run.due
        /\ x.at \in {"collect", "read"}
  <2> DEFINE y == [run EXCEPT !.at = "collect", !.todo = @ \ {k}]
             z == [run EXCEPT !.at = "read"]
  <2>1. /\ y \in Run /\ y.due = run.due /\ y.at = "collect"
        /\ z \in Run /\ z.due = run.due /\ z.at = "read"
    BY <1>1 DEF Run
  <2>2. \/ alertRuns' = [alertRuns EXCEPT ![q] = y]
        \/ alertRuns' = [alertRuns EXCEPT ![q] = z]
    BY <1>1 DEF CollectInsert, Go, Types
  <2> HIDE DEF y, z
  <2>3. QED BY <2>1, <2>2
<1>3. RunsQuiet /\ alertRuns' \in [AlertRuns -> Run]
  <2>1. Remembers(run, x)
    BY <1>2 DEF Remembers
  <2>2. QED
    BY <1>1, <1>2, <2>1, OneQuiet
<1>4. UNCHANGED <<attempts, delivered, overtaken, crashes>>
  BY DEF CollectInsert
<1>5. CASE entries[k].status # "NONE"
  <2>1. entries' = entries
    BY <1>5 DEF CollectInsert
  <2>2. Types'
    BY <1>1, <1>3, <1>4, <2>1 DEF Types
  <2>3. QED
    BY <1>3, <1>4, <2>1, <2>2, QuietKeeps
<1>6. CASE entries[k].status = "NONE"
  <2>1. entries' = [entries EXCEPT ![k] = NewEntry]
    BY <1>6 DEF CollectInsert
  <2>2. /\ NewEntry \in Entry /\ NewEntry.status = "PENDING"
        /\ NewEntry.attempt = 0 /\ NewEntry.version = 0
    BY DEF NewEntry, NoEntry, Entry, EntryStatuses
  <2>3. /\ entries' \in [Keys -> Entry] /\ entries'[k] = NewEntry
        /\ \A l \in Keys \ {k} : entries'[l] = entries[l]
    BY <1>1, <2>1, <2>2 DEF Types
  <2>4. entries[k].attempt = 0 /\ entries[k].version = 0
    BY <1>1, <1>6 DEF IInv, NewIsBlank
  <2>5. RowsGrow
    BY <1>1, <2>2, <2>3, <2>4, EntryFields DEF RowsGrow
  <2>6. Types'
    BY <1>1, <1>3, <1>4, <2>3 DEF Types
  <2>7. DueIsPast' /\ NumbersTaken' /\ AttemptsAreDistinct'
    BY <1>3, <1>4, <2>5, <2>6, GrowthKeeps
  <2>8. WorkersHold'
    <3> SUFFICES ASSUME NEW r \in AlertRuns, AtWork(r)', alertRuns'[r].key \notin overtaken
                 PROVE  /\ entries'[alertRuns'[r].key].status = "PROCESSING"
                        /\ ~entries'[alertRuns'[r].key].expired
                        /\ \A p \in AlertRuns \ {r} :
                             AtWork(p)' => alertRuns'[p].key # alertRuns'[r].key
      BY <1>4 DEF WorkersHold
    <3>1. AtWork(r) /\ alertRuns'[r].key = alertRuns[r].key
      BY <1>3 DEF RunsQuiet
    <3>2. /\ entries[alertRuns[r].key].status = "PROCESSING" /\ ~entries[alertRuns[r].key].expired
          /\ \A p \in AlertRuns \ {r} : AtWork(p) => alertRuns[p].key # alertRuns[r].key
      BY <3>1 DEF IInv, WorkersHold
    <3>3. alertRuns[r].key \in Keys \ {k}
      BY <1>1, <1>6, <3>2, RunFields
    <3>4. QED
      BY <1>3, <2>3, <3>1, <3>2, <3>3 DEF RunsQuiet
  <2>9. NewIsBlank'
    BY <2>2, <2>3 DEF IInv, NewIsBlank
  <2>10. QED
    BY <2>6, <2>7, <2>8, <2>9 DEF IInv
<1>7. QED BY <1>5, <1>6

\* Time: the rows keep what a claim compares.
LEMMA TimeKeeps ==
  ASSUME IInv, NEW k \in Keys, BackoffEnds(k) \/ ClaimExpires(k)
  PROVE  IInv'
<1>1. Types /\ entries[k] \in Entry
  BY DEF IInv, Types
<1>2. PICK e \in Entry :
        /\ entries' = [entries EXCEPT ![k] = e]
        /\ e.status = entries[k].status /\ e.attempt = entries[k].attempt
        /\ e.version = entries[k].version
        /\ e.expired => entries[k].expired \/ ClaimExpires(k)
  <2> DEFINE y == [entries[k] EXCEPT !.due = TRUE]
             z == [entries[k] EXCEPT !.expired = TRUE]
  <2>1. /\ y \in Entry /\ y.status = entries[k].status /\ y.attempt = entries[k].attempt
        /\ y.version = entries[k].version /\ y.expired = entries[k].expired
    BY <1>1 DEF Entry
  <2>2. /\ z \in Entry /\ z.status = entries[k].status /\ z.attempt = entries[k].attempt
        /\ z.version = entries[k].version
    BY <1>1 DEF Entry
  <2>3. \/ entries' = [entries EXCEPT ![k] = y]
        \/ ClaimExpires(k) /\ entries' = [entries EXCEPT ![k] = z]
    BY <1>1 DEF BackoffEnds, ClaimExpires, Types
  <2> HIDE DEF y, z
  <2>4. QED BY <2>1, <2>2, <2>3
<1>3. /\ entries' \in [Keys -> Entry] /\ entries'[k] = e
      /\ \A l \in Keys \ {k} : entries'[l] = entries[l]
  BY <1>1, <1>2 DEF Types
<1>4. /\ UNCHANGED <<attempts, delivered, alertRuns, crashes>>
      /\ overtaken \subseteq overtaken' /\ overtaken' \in SUBSET Keys
  BY <1>1 DEF BackoffEnds, ClaimExpires, Types
<1>5. RowsGrow
  BY <1>1, <1>2, <1>3, EntryFields DEF RowsGrow
<1>6. RunsQuiet
  BY <1>4 DEF RunsQuiet, Remembers, AtWork
<1>7. Types'
  BY <1>1, <1>3, <1>4 DEF Types
<1>8. DueIsPast' /\ NumbersTaken' /\ AttemptsAreDistinct'
  BY <1>4, <1>5, <1>6, <1>7, GrowthKeeps
<1>9. WorkersHold'
  <2> SUFFICES ASSUME NEW r \in AlertRuns, AtWork(r)', alertRuns'[r].key \notin overtaken'
               PROVE  /\ entries'[alertRuns'[r].key].status = "PROCESSING"
                      /\ ~entries'[alertRuns'[r].key].expired
                      /\ \A p \in AlertRuns \ {r} :
                           AtWork(p)' => alertRuns'[p].key # alertRuns'[r].key
    BY DEF WorkersHold
  <2>1. AtWork(r) /\ alertRuns[r].key \notin overtaken /\ alertRuns[r].key \in Keys
    BY <1>1, <1>4, RunFields DEF AtWork
  <2>2. /\ entries[alertRuns[r].key].status = "PROCESSING" /\ ~entries[alertRuns[r].key].expired
        /\ \A p \in AlertRuns \ {r} : AtWork(p) => alertRuns[p].key # alertRuns[r].key
    BY <2>1 DEF IInv, WorkersHold
  <2>3. alertRuns[r].key = k => ~ClaimExpires(k)
    BY <1>4, <2>1 DEF ClaimExpires, AtWork
  <2>4. QED
    BY <1>2, <1>3, <1>4, <2>1, <2>2, <2>3 DEF AtWork
<1>10. NewIsBlank'
  BY <1>2, <1>3 DEF IInv, NewIsBlank
<1>11. QED
  BY <1>7, <1>8, <1>9, <1>10 DEF IInv

\* Reading what is due: claims that have expired are given back under a new version.
LEMMA ReadDueKeeps ==
  ASSUME IInv, NEW q \in AlertRuns, OutboxConstants, ReadDue(q)
  PROVE  IInv'
<1> DEFINE run == alertRuns[q]
           D == {k \in Keys : Due(k)}
           due == [k \in D |-> [version |-> entries[k].version, attempt |-> entries[k].attempt]]
           x == [run EXCEPT !.at = "dispatch", !.key = AnyKey, !.due = due]
<1>1. run \in Run /\ Types
  BY DEF IInv, Types
<1>2. AnyKey \in Keys
  BY DEF AnyKey, OutboxConstants
<1>3. due \in UNION {[K -> Seen] : K \in SUBSET Keys}
  <2>1. \A k \in D : [version |-> entries[k].version, attempt |-> entries[k].attempt] \in Seen
    BY <1>1, EntryFields DEF Seen
  <2>2. due \in [D -> Seen] /\ D \in SUBSET Keys
    BY <2>1
  <2> HIDE DEF due, D
  <2>3. QED BY <2>2
<1>4. DOMAIN due = D /\ D \subseteq Keys /\ \A k \in D :
        due[k].version = entries[k].version /\ due[k].attempt = entries[k].attempt
  OBVIOUS
<1>5. alertRuns' = [alertRuns EXCEPT ![q] = x]
  BY <1>1 DEF ReadDue, Types
<1> HIDE DEF due, D, AnyKey
<1>6. x \in Run /\ x.at = "dispatch" /\ x.due = due
  BY <1>1, <1>2, <1>3 DEF Run
<1> HIDE DEF x
<1>7. /\ alertRuns' \in [AlertRuns -> Run] /\ alertRuns'[q] = x
      /\ \A r \in AlertRuns \ {q} : alertRuns'[r] = alertRuns[r]
  BY <1>1, <1>5, <1>6, RunUpdate
<1>8. /\ entries' \in [Keys -> Entry]
      /\ \A k \in Keys : IF Stranded(k)
           THEN /\ entries'[k].status = "FAILED" /\ entries'[k].attempt = entries[k].attempt
                /\ entries'[k].version = entries[k].version + 1
           ELSE entries'[k] = entries[k]
  <2> DEFINE Freed(k) == [entries[k] EXCEPT !.status = "FAILED", !.due = TRUE,
                                            !.expired = FALSE, !.version = @ + 1]
  <2>1. ASSUME NEW k \in Keys
        PROVE  /\ Freed(k) \in Entry /\ Freed(k).status = "FAILED"
               /\ Freed(k).attempt = entries[k].attempt
               /\ Freed(k).version = entries[k].version + 1
    <3>1. entries[k] \in Entry /\ entries[k].version + 1 \in Nat
      BY <1>1, EntryFields
    <3>2. QED
      BY <3>1 DEF Entry, EntryStatuses
  <2>2. entries' = [k \in Keys |-> IF Stranded(k) THEN Freed(k) ELSE entries[k]]
    BY DEF ReadDue
  <2>3. \A k \in Keys : entries[k] \in Entry
    BY <1>1 DEF Types
  <2> HIDE DEF Freed
  <2>4. QED BY <2>1, <2>2, <2>3
<1>9. UNCHANGED <<attempts, delivered, overtaken, crashes>>
  BY DEF ReadDue
<1>10. RowsGrow
  BY <1>1, <1>8, EntryFields DEF RowsGrow
<1>11. Types'
  BY <1>1, <1>7, <1>8, <1>9 DEF Types
<1>12. ~AtWork(q)'
  BY <1>6, <1>7 DEF AtWork
<1>13. DueIsPast'
  <2> SUFFICES ASSUME NEW r \in AlertRuns, NEW k \in DOMAIN alertRuns'[r].due
               PROVE  /\ alertRuns'[r].due[k].version <= entries'[k].version
                      /\ alertRuns'[r].due[k].version = entries'[k].version
                           => alertRuns'[r].due[k].attempt = entries'[k].attempt
    BY DEF DueIsPast
  <2>1. /\ k \in Keys /\ alertRuns'[r].due[k].version \in Nat
        /\ alertRuns'[r].due[k].version <= entries[k].version
        /\ alertRuns'[r].due[k].version = entries[k].version
             => alertRuns'[r].due[k].attempt = entries[k].attempt
    <3>1. CASE r = q
      BY <1>1, <1>4, <1>6, <1>7, <3>1, EntryFields
    <3>2. CASE r # q
      BY <1>1, <1>7, <3>2, RunFields DEF IInv, DueIsPast
    <3>3. QED BY <3>1, <3>2
  <2>2. /\ entries[k].version \in Nat /\ entries'[k].version \in Nat
        /\ \/ entries[k].version < entries'[k].version
           \/ entries[k].version = entries'[k].version /\ entries[k].attempt = entries'[k].attempt
    BY <1>1, <1>10, <2>1, EntryFields DEF RowsGrow, Entry
  <2>3. QED
    BY <2>1, <2>2
<1>14. NumbersTaken'
  <2>1. \A r \in AlertRuns : AtWork(r)' => AtWork(r) /\ alertRuns'[r] = alertRuns[r]
    BY <1>7, <1>12 DEF AtWork
  <2>2. \A k \in Keys : entries'[k].attempt = entries[k].attempt
    BY <1>8
  <2>3. QED
    BY <1>1, <1>9, <2>1, <2>2, RunFields DEF IInv, NumbersTaken, Types
<1>15. AttemptsAreDistinct'
  BY <1>7, <1>9, <1>12 DEF IInv, AttemptsAreDistinct, AtWork
<1>16. WorkersHold'
  <2> SUFFICES ASSUME NEW r \in AlertRuns, AtWork(r)', alertRuns'[r].key \notin overtaken
               PROVE  /\ entries'[alertRuns'[r].key].status = "PROCESSING"
                      /\ ~entries'[alertRuns'[r].key].expired
                      /\ \A p \in AlertRuns \ {r} :
                           AtWork(p)' => alertRuns'[p].key # alertRuns'[r].key
    BY <1>9 DEF WorkersHold
  <2>1. r # q /\ AtWork(r) /\ alertRuns'[r] = alertRuns[r] /\ alertRuns[r].key \in Keys
    BY <1>1, <1>7, <1>12, RunFields DEF AtWork
  <2>2. /\ entries[alertRuns[r].key].status = "PROCESSING" /\ ~entries[alertRuns[r].key].expired
        /\ \A p \in AlertRuns \ {r} : AtWork(p) => alertRuns[p].key # alertRuns[r].key
    BY <2>1 DEF IInv, WorkersHold
  <2>3. entries'[alertRuns[r].key] = entries[alertRuns[r].key]
    BY <1>8, <2>1, <2>2 DEF Stranded
  <2>4. \A p \in AlertRuns \ {r} : AtWork(p)' => alertRuns'[p].key # alertRuns[r].key
    BY <1>7, <1>12, <2>2 DEF AtWork
  <2>5. QED
    BY <2>1, <2>2, <2>3, <2>4
<1>17. NewIsBlank'
  BY <1>8 DEF IInv, NewIsBlank
<1>18. QED
  BY <1>11, <1>13, <1>14, <1>15, <1>16, <1>17 DEF IInv

\* What is left of the due entries when one is handled.
LEMMA RestrictTyped ==
  ASSUME NEW run \in Run, NEW k
  PROVE  LET due == Restrict(run.due, DOMAIN run.due \ {k}) IN
         /\ due \in UNION {[K -> Seen] : K \in SUBSET Keys}
         /\ DOMAIN due \subseteq DOMAIN run.due
         /\ \A l \in DOMAIN due : due[l] = run.due[l]
<1>1. PICK K \in SUBSET Keys : run.due \in [K -> Seen]
  BY DEF Run
<1> DEFINE L == DOMAIN run.due \ {k}
           due == [l \in L |-> run.due[l]]
<1>2. L \in SUBSET Keys /\ L \subseteq K /\ DOMAIN run.due = K
  BY <1>1
<1>3. due \in [L -> Seen]
  BY <1>1, <1>2
<1>4. Restrict(run.due, L) = due
  BY DEF Restrict
<1> HIDE DEF L
<1>5. due \in UNION {[M -> Seen] : M \in SUBSET Keys}
  <2> HIDE DEF due
  <2>1. QED BY <1>2, <1>3
<1>6. QED
  BY <1>2, <1>4, <1>5 DEF L

\* A run loses its claim, or drops what it has handled.
LEMMA ForgetKeeps ==
  ASSUME IInv, NEW q \in AlertRuns, NEW k \in DOMAIN alertRuns[q].due,
         alertRuns' = [alertRuns EXCEPT ![q].due = Restrict(@, DOMAIN @ \ {k})],
         alertRuns[q].at = "dispatch",
         UNCHANGED <<entries, attempts, delivered, overtaken, crashes>>
  PROVE  IInv'
<1> DEFINE run == alertRuns[q]
           due == Restrict(run.due, DOMAIN run.due \ {k})
           x == [run EXCEPT !.due = due]
<1>1. run \in Run /\ Types
  BY DEF IInv, Types
<1>2. /\ due \in UNION {[K -> Seen] : K \in SUBSET Keys}
      /\ DOMAIN due \subseteq DOMAIN run.due
      /\ \A l \in DOMAIN due : due[l] = run.due[l]
  BY <1>1, RestrictTyped
<1>3. alertRuns' = [alertRuns EXCEPT ![q] = x]
  BY <1>1 DEF Types
<1> HIDE DEF due
<1>4. x \in Run /\ x.at = "dispatch" /\ x.due = due
  BY <1>1, <1>2 DEF Run
<1>5. Remembers(run, x)
  BY <1>2, <1>4 DEF Remembers
<1> HIDE DEF x
<1>6. RunsQuiet /\ alertRuns' \in [AlertRuns -> Run]
  BY <1>1, <1>3, <1>4, <1>5, OneQuiet
<1>7. Types'
  BY <1>1, <1>6 DEF Types
<1>8. QED
  BY <1>6, <1>7, QuietKeeps

\* The claim: what it compares is what was read, so its number is a new one.
LEMMA ClaimKeeps ==
  ASSUME IInv, NEW q \in AlertRuns, NEW k \in Keys, Claim(q, k)
  PROVE  IInv'
<1> DEFINE run == alertRuns[q]
           n == run.due[k].attempt + 1
           due == Restrict(run.due, DOMAIN run.due \ {k})
           x == [run EXCEPT !.at = "send", !.key = k, !.attempt = n, !.due = due]
           e == [entries[k] EXCEPT !.status = "PROCESSING", !.attempt = n, !.expired = FALSE,
                                   !.version = run.due[k].version + 1]
<1>1. /\ run \in Run /\ Types /\ k \in DOMAIN run.due /\ run.at = "dispatch"
      /\ UNCHANGED <<attempts, delivered, overtaken, crashes>>
  BY DEF Claim, At, IInv, Types
<1>2. CASE ~CanClaim(q, k)
  <2>1. /\ entries' = entries
        /\ alertRuns' = [alertRuns EXCEPT ![q].due = Restrict(@, DOMAIN @ \ {k})]
    BY <1>2 DEF Claim
  <2>2. QED
    BY <1>1, <2>1, ForgetKeeps
<1>3. CASE CanClaim(q, k)
  <2>1. /\ entries' = [entries EXCEPT ![k] = e] /\ alertRuns' = [alertRuns EXCEPT ![q] = x]
    BY <1>1, <1>3 DEF Claim, Types
  <2>2. /\ run.due[k].version = entries[k].version /\ run.due[k].attempt = entries[k].attempt
        /\ entries[k].version \in Nat /\ entries[k].attempt \in Nat
        /\ entries[k] \in Entry /\ entries[k].status \in {"PENDING", "FAILED"}
    BY <1>1, <1>3, EntryFields DEF CanClaim, Claimable, IInv, DueIsPast
  <2>3. n \in Nat /\ n = entries[k].attempt + 1
    BY <2>2
  <2>4. /\ due \in UNION {[K -> Seen] : K \in SUBSET Keys}
        /\ DOMAIN due \subseteq DOMAIN run.due
        /\ \A l \in DOMAIN due : due[l] = run.due[l]
    BY <1>1, RestrictTyped
  <2>5. /\ e \in Entry /\ e.status = "PROCESSING" /\ e.attempt = n /\ ~e.expired
        /\ e.version = entries[k].version + 1
    <3>1. run.due[k].version + 1 \in Nat /\ run.due[k].version + 1 = entries[k].version + 1
      BY <2>2
    <3>2. QED
      BY <2>2, <2>3, <3>1 DEF Entry, EntryStatuses
  <2> HIDE DEF due, n, e
  <2>6. /\ x \in Run /\ x.at = "send" /\ x.key = k /\ x.attempt = n /\ x.due = due
    BY <1>1, <2>3, <2>4 DEF Run
  <2> HIDE DEF x
  <2>7. /\ alertRuns' \in [AlertRuns -> Run] /\ alertRuns'[q] = x
        /\ \A r \in AlertRuns \ {q} : alertRuns'[r] = alertRuns[r]
    BY <1>1, <2>1, <2>6, RunUpdate
  <2>8. /\ entries' \in [Keys -> Entry] /\ entries'[k] = e
        /\ \A l \in Keys \ {k} : entries'[l] = entries[l]
    BY <1>1, <2>1, <2>5 DEF Types
  <2>9. Types'
    BY <1>1, <2>7, <2>8 DEF Types
  <2>10. DueIsPast'
    <3> SUFFICES ASSUME NEW r \in AlertRuns, NEW l \in DOMAIN alertRuns'[r].due
                 PROVE  /\ alertRuns'[r].due[l].version <= entries'[l].version
                        /\ alertRuns'[r].due[l].version = entries'[l].version
                             => alertRuns'[r].due[l].attempt = entries'[l].attempt
      BY DEF DueIsPast
    <3>1. l \in DOMAIN alertRuns[r].due /\ alertRuns'[r].due[l] = alertRuns[r].due[l]
      BY <2>4, <2>6, <2>7
    <3>2. /\ l \in Keys /\ alertRuns[r].due[l].version \in Nat
          /\ alertRuns[r].due[l].version <= entries[l].version
          /\ alertRuns[r].due[l].version = entries[l].version
               => alertRuns[r].due[l].attempt = entries[l].attempt
      BY <1>1, <3>1, RunFields DEF IInv, DueIsPast
    <3>3. CASE l = k
      BY <2>2, <2>5, <2>8, <3>1, <3>2, <3>3
    <3>4. CASE l # k
      BY <2>8, <3>1, <3>2, <3>4
    <3>5. QED BY <3>3, <3>4
  <2>11. \A r \in AlertRuns : AtWork(r) =>
           alertRuns[r].attempt \in Nat /\ (alertRuns[r].key = k => alertRuns[r].attempt < n)
    BY <1>1, <2>2, <2>3, RunFields DEF IInv, NumbersTaken
  <2>12. \A a \in attempts : a.attempt \in Nat /\ (a.key = k => a.attempt < n)
    BY <1>1, <2>2, <2>3 DEF IInv, NumbersTaken, Types
  <2>13. NumbersTaken'
    <3>1. ASSUME NEW r \in AlertRuns, AtWork(r)'
          PROVE  alertRuns'[r].attempt <= entries'[alertRuns'[r].key].attempt
      <4>1. CASE r = q
        BY <2>3, <2>5, <2>6, <2>7, <2>8, <4>1
      <4>2. CASE r # q
        <5>1. AtWork(r) /\ alertRuns'[r] = alertRuns[r] /\ alertRuns[r].key \in Keys
          BY <1>1, <2>7, <3>1, <4>2, RunFields DEF AtWork
        <5>2. alertRuns[r].attempt <= entries[alertRuns[r].key].attempt
          BY <5>1 DEF IInv, NumbersTaken
        <5>3. QED
          BY <2>3, <2>5, <2>8, <2>11, <5>1, <5>2
      <4>3. QED BY <4>1, <4>2
    <3>2. ASSUME NEW a \in attempts PROVE a.attempt <= entries'[a.key].attempt
      <4>1. a.key \in Keys /\ a.attempt <= entries[a.key].attempt
        BY <1>1 DEF IInv, NumbersTaken, Types
      <4>2. QED
        BY <2>3, <2>5, <2>8, <2>12, <4>1
    <3>3. QED
      BY <1>1, <3>1, <3>2 DEF NumbersTaken
  <2>14. AttemptsAreDistinct'
    <3> SUFFICES ASSUME NEW r \in AlertRuns, AtWork(r)'
                 PROVE  /\ [key |-> alertRuns'[r].key, attempt |-> alertRuns'[r].attempt] \notin attempts
                        /\ \A p \in AlertRuns \ {r} :
                             AtWork(p)' /\ alertRuns'[p].key = alertRuns'[r].key
                               => alertRuns'[p].attempt # alertRuns'[r].attempt
      BY <1>1 DEF AttemptsAreDistinct, AtWork
    <3>1. \A p \in AlertRuns \ {q} : AtWork(p)' => AtWork(p) /\ alertRuns'[p] = alertRuns[p]
      BY <2>7 DEF AtWork
    <3>2. CASE r = q
      <4>1. alertRuns'[r].key = k /\ alertRuns'[r].attempt = n
        BY <2>6, <2>7, <3>2
      <4>2. [key |-> k, attempt |-> n] \notin attempts
        <5> SUFFICES ASSUME [key |-> k, attempt |-> n] \in attempts PROVE FALSE
          OBVIOUS
        <5>1. QED
          BY <2>3, <2>12
      <4>3. QED
        BY <2>3, <2>11, <3>1, <3>2, <4>1, <4>2
    <3>3. CASE r # q
      <4>1. AtWork(r) /\ alertRuns'[r] = alertRuns[r]
        BY <3>1, <3>3
      <4>2. /\ [key |-> alertRuns[r].key, attempt |-> alertRuns[r].attempt] \notin attempts
            /\ \A p \in AlertRuns \ {r} :
                 AtWork(p) /\ alertRuns[p].key = alertRuns[r].key
                   => alertRuns[p].attempt # alertRuns[r].attempt
        BY <4>1 DEF IInv, AttemptsAreDistinct, AtWork
      <4>3. alertRuns'[q].key = alertRuns[r].key => alertRuns'[q].attempt # alertRuns[r].attempt
        BY <2>3, <2>6, <2>7, <2>11, <4>1
      <4>4. QED
        BY <3>1, <4>1, <4>2, <4>3
    <3>4. QED BY <3>2, <3>3
  <2>15. WorkersHold'
    <3> SUFFICES ASSUME NEW r \in AlertRuns, AtWork(r)', alertRuns'[r].key \notin overtaken
                 PROVE  /\ entries'[alertRuns'[r].key].status = "PROCESSING"
                        /\ ~entries'[alertRuns'[r].key].expired
                        /\ \A p \in AlertRuns \ {r} :
                             AtWork(p)' => alertRuns'[p].key # alertRuns'[r].key
      BY <1>1 DEF WorkersHold
    <3>1. \A p \in AlertRuns \ {q} : AtWork(p)' => AtWork(p) /\ alertRuns'[p] = alertRuns[p]
      BY <2>7 DEF AtWork
    <3>2. \A p \in AlertRuns : AtWork(p) /\ k \notin overtaken => alertRuns[p].key # k
      BY <2>2 DEF IInv, WorkersHold
    <3>3. CASE r = q
      BY <2>5, <2>6, <2>7, <2>8, <3>1, <3>2, <3>3
    <3>4. CASE r # q
      <4>1. AtWork(r) /\ alertRuns'[r] = alertRuns[r] /\ alertRuns[r].key \in Keys
        BY <1>1, <3>1, <3>4, RunFields
      <4>2. /\ entries[alertRuns[r].key].status = "PROCESSING" /\ ~entries[alertRuns[r].key].expired
            /\ \A p \in AlertRuns \ {r} : AtWork(p) => alertRuns[p].key # alertRuns[r].key
        BY <4>1 DEF IInv, WorkersHold
      <4>3. alertRuns[r].key # k
        BY <2>2, <4>2
      <4>4. QED
        BY <2>6, <2>7, <2>8, <3>1, <4>1, <4>2, <4>3
    <3>5. QED BY <3>3, <3>4
  <2>16. NewIsBlank'
    BY <2>5, <2>8 DEF IInv, NewIsBlank
  <2>17. QED
    BY <2>9, <2>10, <2>13, <2>14, <2>15, <2>16 DEF IInv
<1>4. QED BY <1>2, <1>3

\* The outcome writes the row under a new version, and its number to the log.
LEMMA FinishEffect ==
  ASSUME IInv, NEW q \in AlertRuns, Finish(q)
  PROVE  LET k == alertRuns[q].key IN
         /\ AtWork(q) /\ k \in Keys
         /\ attempts' = attempts \cup {[key |-> k, attempt |-> alertRuns[q].attempt]}
         /\ entries' \in [Keys -> Entry]
         /\ entries'[k].attempt = entries[k].attempt
         /\ entries'[k].version = entries[k].version + 1
         /\ entries'[k].status # "NONE"
         /\ \A l \in Keys \ {k} : entries'[l] = entries[l]
         /\ alertRuns' \in [AlertRuns -> Run]
         /\ alertRuns'[q].at = "dispatch" /\ alertRuns'[q].due = alertRuns[q].due
         /\ \A r \in AlertRuns \ {q} : alertRuns'[r] = alertRuns[r]
         /\ UNCHANGED <<delivered, overtaken, crashes>>
<1> DEFINE run == alertRuns[q]
           k == run.key
           status == Outcome(run.answer, run.attempt)
           e == [entries[k] EXCEPT !.status = status, !.expired = FALSE, !.version = @ + 1,
                                   !.due = IF status = "FAILED" THEN FALSE ELSE @]
           x == [run EXCEPT !.at = "dispatch", !.key = AnyKey]
<1>1. run \in Run /\ Types /\ k \in Keys /\ entries[k] \in Entry /\ entries[k].version + 1 \in Nat
  BY RunFields, EntryFields DEF IInv, Types
<1>2. status \in {"SENT", "DEAD", "FAILED"}
  BY DEF Outcome
<1>3. AnyKey \in Keys
  BY <1>1 DEF AnyKey
<1>4. entries[k].due \in BOOLEAN
  BY <1>1 DEF Entry
<1>5. entries' = [entries EXCEPT ![k] = e]
  BY Zenon DEF Finish
<1>6. alertRuns' = [alertRuns EXCEPT ![q] = x]
  BY <1>1 DEF Finish, Types
<1> HIDE DEF status, AnyKey
<1>7. /\ e \in Entry /\ e.attempt = entries[k].attempt /\ e.version = entries[k].version + 1
      /\ e.status = status
  BY <1>1, <1>2, <1>4 DEF Entry, EntryStatuses
<1>8. x \in Run /\ x.at = "dispatch" /\ x.due = run.due
  BY <1>1, <1>3 DEF Run
<1> HIDE DEF e, x
<1>9. /\ entries' \in [Keys -> Entry] /\ entries'[k] = e
      /\ \A l \in Keys \ {k} : entries'[l] = entries[l]
  BY <1>1, <1>5, <1>7 DEF Types
<1>10. /\ alertRuns' \in [AlertRuns -> Run] /\ alertRuns'[q] = x
       /\ \A r \in AlertRuns \ {q} : alertRuns'[r] = alertRuns[r]
  BY <1>1, <1>6, <1>8, RunUpdate
<1>11. /\ AtWork(q) /\ UNCHANGED <<delivered, overtaken, crashes>>
       /\ attempts' = attempts \cup {[key |-> k, attempt |-> run.attempt]}
  BY DEF Finish, At, AtWork
<1>12. QED
  BY <1>1, <1>2, <1>7, <1>8, <1>9, <1>10, <1>11

LEMMA FinishKeeps ==
  ASSUME IInv, NEW q \in AlertRuns, Finish(q)
  PROVE  IInv'
<1> DEFINE k == alertRuns[q].key
           n == alertRuns[q].attempt
<1>1. /\ AtWork(q) /\ k \in Keys /\ attempts' = attempts \cup {[key |-> k, attempt |-> n]}
      /\ entries' \in [Keys -> Entry] /\ entries'[k].attempt = entries[k].attempt
      /\ entries'[k].version = entries[k].version + 1 /\ entries'[k].status # "NONE"
      /\ \A l \in Keys \ {k} : entries'[l] = entries[l]
      /\ alertRuns' \in [AlertRuns -> Run]
      /\ alertRuns'[q].at = "dispatch" /\ alertRuns'[q].due = alertRuns[q].due
      /\ \A r \in AlertRuns \ {q} : alertRuns'[r] = alertRuns[r]
      /\ UNCHANGED <<delivered, overtaken, crashes>>
  BY FinishEffect
<1>2. Types /\ n \in Nat
  BY RunFields DEF IInv
<1>3. \A r \in AlertRuns : AtWork(r)' => r # q /\ AtWork(r) /\ alertRuns'[r] = alertRuns[r]
  BY <1>1 DEF AtWork
<1>4. Types'
  <2>1. [key |-> k, attempt |-> n] \in [key : Keys, attempt : Nat]
    BY <1>1, <1>2
  <2>2. QED
    BY <1>1, <1>2, <2>1 DEF Types
<1>5. DueIsPast'
  <2> SUFFICES ASSUME NEW r \in AlertRuns, NEW l \in DOMAIN alertRuns'[r].due
               PROVE  /\ alertRuns'[r].due[l].version <= entries'[l].version
                      /\ alertRuns'[r].due[l].version = entries'[l].version
                           => alertRuns'[r].due[l].attempt = entries'[l].attempt
    BY DEF DueIsPast
  <2>1. alertRuns'[r].due = alertRuns[r].due
    BY <1>1
  <2>2. /\ l \in Keys /\ alertRuns[r].due[l].version \in Nat
        /\ alertRuns[r].due[l].version <= entries[l].version
        /\ alertRuns[r].due[l].version = entries[l].version
             => alertRuns[r].due[l].attempt = entries[l].attempt
    BY <1>2, <2>1, RunFields DEF IInv, DueIsPast
  <2>3. CASE l = k
    <3>1. entries[k].version \in Nat
      BY <1>1, <1>2, EntryFields
    <3>2. QED
      BY <1>1, <2>1, <2>2, <2>3, <3>1
  <2>4. CASE l # k
    BY <1>1, <2>1, <2>2, <2>4
  <2>5. QED BY <2>3, <2>4
<1>6. \A l \in Keys : entries'[l].attempt = entries[l].attempt
  BY <1>1
<1>7. NumbersTaken'
  <2>1. ASSUME NEW r \in AlertRuns, AtWork(r)'
        PROVE  alertRuns'[r].attempt <= entries'[alertRuns'[r].key].attempt
    BY <1>2, <1>3, <1>6, <2>1, RunFields DEF IInv, NumbersTaken
  <2>2. ASSUME NEW a \in attempts' PROVE a.attempt <= entries'[a.key].attempt
    <3>1. CASE a \in attempts
      BY <1>2, <1>6, <3>1 DEF IInv, NumbersTaken, Types
    <3>2. CASE a = [key |-> k, attempt |-> n]
      <4>1. n <= entries[k].attempt
        BY <1>1 DEF IInv, NumbersTaken
      <4>2. a.key = k /\ a.attempt = n
        BY <3>2
      <4>3. QED
        BY <1>1, <4>1, <4>2
    <3>3. QED BY <1>1, <2>2, <3>1, <3>2
  <2>3. QED
    BY <2>1, <2>2 DEF NumbersTaken
<1>8. AttemptsAreDistinct'
  <2> SUFFICES ASSUME NEW r \in AlertRuns, AtWork(r)'
               PROVE  /\ [key |-> alertRuns'[r].key, attempt |-> alertRuns'[r].attempt] \notin attempts'
                      /\ \A p \in AlertRuns \ {r} :
                           AtWork(p)' /\ alertRuns'[p].key = alertRuns'[r].key
                             => alertRuns'[p].attempt # alertRuns'[r].attempt
    BY DEF AttemptsAreDistinct, AtWork
  <2>1. r # q /\ AtWork(r) /\ alertRuns'[r] = alertRuns[r]
    BY <1>3
  <2>2. /\ [key |-> alertRuns[r].key, attempt |-> alertRuns[r].attempt] \notin attempts
        /\ \A p \in AlertRuns \ {r} :
             AtWork(p) /\ alertRuns[p].key = alertRuns[r].key
               => alertRuns[p].attempt # alertRuns[r].attempt
    BY <2>1 DEF IInv, AttemptsAreDistinct, AtWork
  <2>3. [key |-> alertRuns[r].key, attempt |-> alertRuns[r].attempt] # [key |-> k, attempt |-> n]
    BY <1>1, <2>1, <2>2
  <2>4. QED
    BY <1>1, <1>3, <2>1, <2>2, <2>3
<1>9. WorkersHold'
  <2> SUFFICES ASSUME NEW r \in AlertRuns, AtWork(r)', alertRuns'[r].key \notin overtaken
               PROVE  /\ entries'[alertRuns'[r].key].status = "PROCESSING"
                      /\ ~entries'[alertRuns'[r].key].expired
                      /\ \A p \in AlertRuns \ {r} :
                           AtWork(p)' => alertRuns'[p].key # alertRuns'[r].key
    BY <1>1 DEF WorkersHold
  <2>1. r # q /\ AtWork(r) /\ alertRuns'[r] = alertRuns[r] /\ alertRuns[r].key \in Keys
    BY <1>2, <1>3, RunFields
  <2>2. /\ entries[alertRuns[r].key].status = "PROCESSING" /\ ~entries[alertRuns[r].key].expired
        /\ \A p \in AlertRuns \ {r} : AtWork(p) => alertRuns[p].key # alertRuns[r].key
    BY <2>1 DEF IInv, WorkersHold
  <2>3. alertRuns[r].key # k
    BY <1>1, <2>1, <2>2
  <2>4. QED
    BY <1>1, <1>3, <2>1, <2>2, <2>3
<1>10. NewIsBlank'
  BY <1>1 DEF IInv, NewIsBlank
<1>11. QED
  BY <1>4, <1>5, <1>7, <1>8, <1>9, <1>10 DEF IInv

----------------------------------------------------------------------------
(* The theorems                                                            *)

LEMMA InitHolds == OutboxConstants /\ OutboxInit => IInv
<1> SUFFICES ASSUME OutboxConstants, OutboxInit PROVE IInv
  OBVIOUS
<1>1. NoRun \in Run /\ NoRun.at = "idle" /\ DOMAIN NoRun.due = {} /\ NoEntry \in Entry
  BY NoRunTyped
<1>2. /\ \A r \in AlertRuns : alertRuns[r] = NoRun
      /\ \A k \in Keys : entries[k] = NoEntry
      /\ attempts = {} /\ delivered = {} /\ overtaken = {} /\ crashes = 0
  BY DEF OutboxInit
<1>3. NoEntry.attempt = 0 /\ NoEntry.version = 0
  BY DEF NoEntry
<1>4. Types
  BY <1>1 DEF OutboxInit, Types, OutboxConstants
<1>5. \A r \in AlertRuns : ~AtWork(r) /\ DOMAIN alertRuns[r].due = {}
  BY <1>1, <1>2 DEF AtWork
<1>6. QED
  BY <1>2, <1>3, <1>4, <1>5
  DEF IInv, DueIsPast, NumbersTaken, AttemptsAreDistinct, AtWork, WorkersHold, NewIsBlank

LEMMA StepKeeps ==
  ASSUME OutboxConstants, IInv, [OutboxNext]_outboxVars
  PROVE  IInv'
<1>1. ASSUME NEW q \in AlertRuns, StartRun(q) \/ RunStep(q) \/ Dies(q) PROVE IInv'
  BY <1>1, StartRunKeeps, CollectKeeps, InsertKeeps, ReadDueKeeps, ClaimKeeps, FinishKeeps
  DEF RunStep
<1>2. ASSUME NEW k \in Keys, BackoffEnds(k) \/ ClaimExpires(k) PROVE IInv'
  BY <1>2, TimeKeeps
<1>3. CASE UNCHANGED outboxVars
  BY <1>3 DEF outboxVars, IInv, Types, DueIsPast, NumbersTaken, AttemptsAreDistinct, WorkersHold,
     NewIsBlank, AtWork
<1>4. QED
  BY <1>1, <1>2, <1>3 DEF OutboxNext

\* What a run read of an entry stands while its version does, the entry counts every
\* attempt, and who works on an unexpired claim has the entry for itself.
THEOREM OutboxInvariant ==
  ASSUME OutboxConstants
  PROVE  OutboxSpec => []IInv
<1>1. IInv /\ [OutboxNext]_outboxVars => IInv'
  BY StepKeeps
<1>2. QED
  BY <1>1, InitHolds, PTL DEF OutboxSpec

\* The entries, the log and the runs are well typed.
THEOREM OutboxTypeCorrect ==
  ASSUME OutboxConstants
  PROVE  OutboxSpec => []OutboxTypeOK
<1>1. IInv => OutboxTypeOK
  <2> SUFFICES ASSUME IInv PROVE OutboxTypeOK
    OBVIOUS
  <2>1. Types
    BY DEF IInv
  <2>2. \A r \in AlertRuns : alertRuns[r] \in Run /\ DOMAIN alertRuns[r].due \subseteq Keys
    BY <2>1, RunFields DEF Types
  <2>3. QED
    BY <2>1, <2>2 DEF OutboxTypeOK, Types, Run, Entry
<1>2. QED
  BY <1>1, OutboxInvariant, PTL

\* No two runs take the same attempt number, and none that the log holds: the unique
\* key of TradingAlertOutboxAttempt never makes an outcome's transaction fail.
THEOREM NumbersAreDistinct ==
  ASSUME OutboxConstants
  PROVE  OutboxSpec => []AttemptsAreDistinct
<1>1. IInv => AttemptsAreDistinct
  BY DEF IInv
<1>2. QED
  BY <1>1, OutboxInvariant, PTL

LEMMA FinalStays ==
  ASSUME OutboxConstants, IInv, [OutboxNext]_outboxVars, NEW k \in Keys,
         entries[k].status \in Final, k \notin overtaken
  PROVE  entries'[k].status = entries[k].status
<1>1. Types /\ entries[k].status \notin {"NONE", "PENDING", "FAILED", "PROCESSING"}
  BY DEF IInv, Final
<1>2. \A r \in AlertRuns : AtWork(r) => alertRuns[r].key # k
  BY <1>1 DEF IInv, WorkersHold
<1>3. ASSUME NEW q \in AlertRuns, CollectInsert(q) PROVE entries'[k] = entries[k]
  BY <1>1, <1>3, RunFields DEF CollectInsert, Types
<1>4. ASSUME NEW q \in AlertRuns, ReadDue(q) PROVE entries'[k] = entries[k]
  BY <1>1, <1>4 DEF ReadDue, Stranded
<1>5. ASSUME NEW q \in AlertRuns, NEW l \in Keys, Claim(q, l) PROVE entries'[k] = entries[k]
  BY <1>1, <1>5 DEF Claim, CanClaim, Claimable, Types
<1>6. ASSUME NEW q \in AlertRuns, Finish(q) PROVE entries'[k] = entries[k]
  BY <1>2, <1>6, FinishEffect
<1>7. ASSUME NEW l \in Keys, BackoffEnds(l) \/ ClaimExpires(l) PROVE entries'[k] = entries[k]
  BY <1>1, <1>7 DEF BackoffEnds, ClaimExpires, Claimable, Types
<1>8. ASSUME NEW q \in AlertRuns,
             StartRun(q) \/ (\E l \in Keys : CollectLookup(q, l)) \/ CollectEnds(q)
               \/ Transport(q) \/ RunEnds(q) \/ Dies(q)
      PROVE  entries' = entries
  BY <1>8 DEF StartRun, CollectLookup, CollectEnds, Transport, RunEnds, Dies
<1>9. CASE UNCHANGED outboxVars
  BY <1>9 DEF outboxVars
<1>10. QED
  BY <1>3, <1>4, <1>5, <1>6, <1>7, <1>8, <1>9 DEF OutboxNext, RunStep

\* An alert that was sent or has died stays so, unless its claim expired while a run
\* was still at work on it: no race and no crash brings it back.
THEOREM FinalEntriesStay ==
  ASSUME OutboxConstants
  PROVE  OutboxSpec => FinalUnlessOvertaken
<1>1. IInv /\ [OutboxNext]_outboxVars =>
        [\A k \in Keys : (entries[k].status \in Final /\ k \notin overtaken)
           => entries'[k].status = entries[k].status]_outboxVars
  BY FinalStays
<1>2. QED
  BY <1>1, OutboxInvariant, PTL DEF OutboxSpec, FinalUnlessOvertaken

=============================================================================
