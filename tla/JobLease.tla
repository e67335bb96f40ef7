------------------------------ MODULE JobLease ------------------------------
(***************************************************************************)
(* The lease of one scheduled job: a row of TradingJobCursor with an       *)
(* owner, an expiry and a version, which runs of the job in one or more    *)
(* worker processes acquire, renew by heartbeats and release.  All runs of *)
(* a process have the process's owner id.  A run that has ended starts     *)
(* anew as the next tick of the job's cron expression.                     *)
(***************************************************************************)
EXTENDS Integers

CONSTANTS
  Runs,        \* runs of the job that may be under way at once
  Owners,      \* worker processes
  Owner,       \* [Runs -> Owners]
  Nobody,      \* the null of claimedBy
  Duration,    \* LEASE_DURATION_MS
  Interval,    \* HEARTBEAT_INTERVAL_MS
  FixedClock,  \* TRUE: every now() of a run is the asOf it was started with
  MaxBeats,    \* heartbeats of a run on their way at once
  Faults,      \* the failures this instance exercises
  MaxTime,     \* bounds on the clock and on the row's version, for model
  MaxVersion   \* checking

AllFaults == {"CRASH", "STALL", "LONG_RUN"}

ASSUME LeaseAssumption ==
  /\ Owner \in [Runs -> Owners]
  /\ Nobody \notin Owners /\ Nobody \notin Runs
  /\ Duration \in Nat /\ Interval \in Nat \ {0}
  /\ FixedClock \in BOOLEAN
  /\ MaxBeats \in Nat /\ MaxTime \in Nat /\ MaxVersion \in Nat
  /\ Faults \subseteq AllFaults

VARIABLES
  clock,
  cursor,  \* the row; version -1 while it does not exist
  holder,  \* the run that made the row's claim (history)
  runs,    \* the runs
  beats,   \* their heartbeats
  overran, \* processes in which a run has outlived its lease (history)
  spoiled, \* runs whose claim such a process released or renewed by another
           \* of its runs (history)
  raced    \* runs that had a second heartbeat under way when one renewed
           \* their claim (history)

history == <<overran, spoiled, raced>>
vars == <<clock, cursor, holder, runs, beats, history>>

Slots == 1..MaxBeats

Cursor == [claimedBy : Owners \cup {Nobody}, expires : Nat, version : Nat \cup {-1}]
Run == [at : {"idle", "asked", "claimed", "running", "releasing"},
        asOf : Nat, version : Int, lost : BOOLEAN, due : Nat]
\* sent: on its way to the database; ok, lost: the answer is on its way back;
\* late: on its way for a run that has ended.
Beat == [at : {"none", "sent", "ok", "lost", "late"}, version : Int, until : Nat]

NewRun(at, asOf) ==
  [at |-> at, asOf |-> asOf, version |-> 0, lost |-> FALSE, due |-> 0]
IdleRun == NewRun("idle", 0)
NoBeat == [at |-> "none", version |-> 0, until |-> 0]
NoCursor == [claimedBy |-> Nobody, expires |-> 0, version |-> -1]

\* Mutant: the expiry is nulled like the owner.
UnclaimedNull(version) == [claimedBy |-> Nobody, expires |-> Nobody, version |-> version]

Unclaimed(version) == [claimedBy |-> Nobody, expires |-> 0, version |-> version]

TypeOK ==
  /\ clock \in Nat
  /\ cursor \in Cursor
  /\ holder \in Runs \cup {Nobody}
  /\ runs \in [Runs -> Run]
  /\ beats \in [Runs -> [Slots -> Beat]]
  /\ overran \subseteq Owners /\ spoiled \subseteq Runs /\ raced \subseteq Runs

Init ==
  /\ clock = 0
  /\ cursor = NoCursor
  /\ holder = Nobody
  /\ runs = [r \in Runs |-> IdleRun]
  /\ beats = [r \in Runs |-> [i \in Slots |-> NoBeat]]
  /\ overran = {} /\ spoiled = {} /\ raced = {}

Now(r) == IF FixedClock THEN runs[r].asOf ELSE clock

Working(r) == runs[r].at \in {"claimed", "running", "releasing"}

Goes(r, at) == runs' = [runs EXCEPT ![r].at = at]

\* The claim r is about to write is that of another run of its process, in
\* which a run has outlived its lease.
Interferes(r) == holder # r /\ Working(holder) /\ Owner[r] \in overran

\* What is left of a run's heartbeats when it ends: requests under way.
Outlive(slots) ==
  [i \in Slots |-> IF slots[i].at \in {"sent", "late"} THEN [slots[i] EXCEPT !.at = "late"]
                   ELSE NoBeat]

----------------------------------------------------------------------------

\* The cron expression fires; asOf is taken before the circuit breaker and the
\* entry workflow are asked.
Start(r) ==
  /\ runs[r].at = "idle"
  /\ cursor.version < MaxVersion
  /\ runs' = [runs EXCEPT ![r] = NewRun("asked", clock)]
  /\ UNCHANGED <<clock, cursor, holder, beats, history>>

\* The breaker is open, the workflow is blocked, or the lease is held.
Skip(r) ==
  /\ runs[r].at = "asked"
  /\ runs' = [runs EXCEPT ![r] = IdleRun]
  /\ UNCHANGED <<clock, cursor, holder, beats, history>>

\* Mutant: a claim may be taken over in the moment it expires.
ClaimableAtExpiry(r) == cursor.claimedBy = Nobody \/ cursor.expires <= Now(r)

Claimable(r) == cursor.claimedBy = Nobody \/ cursor.expires < Now(r)

\* acquireLease: one INSERT, or one UPDATE of a row that may be claimed.
Acquire(r) ==
  /\ runs[r].at = "asked"
  /\ Claimable(r)
  /\ cursor' = [claimedBy |-> Owner[r], expires |-> Now(r) + Duration,
                version |-> cursor.version + 1]
  /\ holder' = r
  /\ Goes(r, "claimed")
  /\ UNCHANGED <<clock, beats, history>>

\* Its version is read by a query of its own; then the job runs.
ReadVersion(r) ==
  /\ runs[r].at = "claimed"
  /\ runs' = [runs EXCEPT ![r].at = "running", ![r].version = cursor.version,
                          ![r].due = clock + Interval]
  /\ UNCHANGED <<clock, cursor, holder, beats, history>>

\* The interval timer fires.  (A slot is a name only: the lowest free one.)
SendBeat(r, i) ==
  /\ runs[r].at = "running"
  /\ runs[r].due <= clock
  /\ beats[r][i].at = "none" /\ \A j \in Slots : j < i => beats[r][j].at # "none"
  /\ beats' = [beats EXCEPT ![r][i] =
       [at |-> "sent", version |-> runs[r].version, until |-> Now(r) + Duration]]
  /\ runs' = [runs EXCEPT ![r].due = clock + Interval]
  /\ raced' = IF \E j \in Slots : beats[r][j].at = "ok" THEN raced \cup {r} ELSE raced
  /\ UNCHANGED <<clock, cursor, holder, overran, spoiled>>

Extends(r, beat) == cursor.claimedBy = Owner[r] /\ cursor.version = beat.version

\* heartbeatLease at the database.
ExecuteBeat(r, i) ==
  LET beat == beats[r][i] IN
  /\ beat.at \in {"sent", "late"}
  /\ cursor' = IF Extends(r, beat)
               THEN [cursor EXCEPT !.expires = beat.until, !.version = @ + 1] ELSE cursor
  /\ beats' = [beats EXCEPT ![r][i] =
       IF beat.at = "late" THEN NoBeat
       ELSE [beat EXCEPT !.at = IF Extends(r, beat) THEN "ok" ELSE "lost"]]
  /\ spoiled' = IF Extends(r, beat) /\ Interferes(r) THEN spoiled \cup {holder} ELSE spoiled
  /\ raced' = IF /\ Extends(r, beat)
                 /\ \E j \in Slots \ {i} : beats[r][j].at = "sent"
              THEN raced \cup {r} ELSE raced
  /\ UNCHANGED <<clock, holder, runs, overran>>

\* Mutant: the next heartbeat expects the version of the first.
SameVersion(beat) == beat.version

NextVersion(beat) == beat.version + 1

AnswerBeat(r, i) ==
  LET beat == beats[r][i] IN
  /\ beat.at \in {"ok", "lost"}
  /\ runs' = [runs EXCEPT ![r] =
       IF beat.at = "ok" THEN [@ EXCEPT !.version = NextVersion(beat)]
       ELSE [@ EXCEPT !.lost = TRUE]]
  /\ beats' = [beats EXCEPT ![r][i] = NoBeat]
  /\ UNCHANGED <<clock, cursor, holder, history>>

\* The job returns or throws.  A run that lost its lease releases nothing.
Finish(r) ==
  /\ runs[r].at = "running"
  /\ IF runs[r].lost
     THEN /\ runs' = [runs EXCEPT ![r] = IdleRun]
          /\ beats' = [beats EXCEPT ![r] = Outlive(@)]
          /\ spoiled' = spoiled \ {r} /\ raced' = raced \ {r}
     ELSE Goes(r, "releasing") /\ UNCHANGED <<beats, spoiled, raced>>
  /\ UNCHANGED <<clock, cursor, holder, overran>>

\* releaseLease compares the owner, not the version.
Release(r) ==
  /\ runs[r].at = "releasing"
  /\ IF cursor.claimedBy = Owner[r]
     THEN /\ cursor' = Unclaimed(cursor.version + 1) /\ holder' = Nobody
          /\ spoiled' = (IF Interferes(r) THEN spoiled \cup {holder} ELSE spoiled) \ {r}
     ELSE spoiled' = spoiled \ {r} /\ UNCHANGED <<cursor, holder>>
  /\ runs' = [runs EXCEPT ![r] = IdleRun]
  /\ beats' = [beats EXCEPT ![r] = Outlive(@)]
  /\ raced' = raced \ {r}
  /\ UNCHANGED <<clock, overran>>

\* A process dies, or stops without waiting for its jobs.
Crash(o) ==
  /\ "CRASH" \in Faults
  /\ runs' = [r \in Runs |-> IF Owner[r] = o THEN IdleRun ELSE runs[r]]
  /\ beats' = [r \in Runs |-> IF Owner[r] = o THEN Outlive(beats[r]) ELSE beats[r]]
  /\ spoiled' = {r \in spoiled : Owner[r] # o} /\ raced' = {r \in raced : Owner[r] # o}
  /\ UNCHANGED <<clock, cursor, holder, overran>>

\* Without STALL timers fire in time and the database answers at once; without
\* LONG_RUN a run ends before the lease it was started with would expire.
Timely(r) ==
  /\ "STALL" \notin Faults =>
       /\ runs[r].at \notin {"asked", "claimed", "releasing"}
       /\ runs[r].at = "running" => clock < runs[r].due
       /\ \A i \in Slots : beats[r][i].at = "none"
  /\ "LONG_RUN" \notin Faults /\ runs[r].at # "idle" => clock < runs[r].asOf + Duration

\* The run will have outlived the lease it was started with.
Outlives(r) == runs[r].at # "idle" /\ clock + 1 > runs[r].asOf + Duration

Tick ==
  /\ clock < MaxTime
  /\ \A r \in Runs : Timely(r)
  /\ clock' = clock + 1
  /\ overran' = overran \cup {Owner[r] : r \in {q \in Runs : Outlives(q)}}
  /\ UNCHANGED <<cursor, holder, runs, beats, spoiled, raced>>

RunStep(r) ==
  \/ Start(r) \/ Skip(r) \/ Acquire(r) \/ ReadVersion(r) \/ Finish(r) \/ Release(r)
  \/ \E i \in Slots : SendBeat(r, i) \/ ExecuteBeat(r, i) \/ AnswerBeat(r, i)

Next == Tick \/ (\E o \in Owners : Crash(o)) \/ (\E r \in Runs : RunStep(r))

Spec == Init /\ [][Next]_vars

----------------------------------------------------------------------------
(* Properties                                                              *)

Overrun(r) == clock > runs[r].asOf + Duration

\* The job has no overlapping runs.
NoOverlap ==
  \A r, s \in Runs : r # s => ~(runs[r].at = "running" /\ runs[s].at = "running")

\* Two fresh runs work at once only when the claim of one of them was released
\* or renewed by another run of its own process, in which a run had outlived its
\* lease: no crash, late heartbeat, stalled timer or take-over does it, and no
\* process takes the claim of another's fresh run (leases.ts:96-101, 177).
NoFreshOverlap ==
  \A r, s \in Runs : r # s /\ Working(r) /\ Working(s) =>
    \/ Overrun(r) \/ Overrun(s)
    \/ r \in spoiled \/ s \in spoiled

\* A run is told that its lease is lost only when another run has it (the
\* comment at JobLeaseContext.isLeaseLost), when its process has outlived a
\* lease and meddled with the claim, or when a second heartbeat of its own was
\* on its way while the first renewed the lease (leases.ts:234-245).
LossIsReal ==
  \A r \in Runs : runs[r].lost => holder # r \/ r \in spoiled \/ r \in raced

=============================================================================
