--------------------------- MODULE JobLeaseProofs ---------------------------
(***************************************************************************)
(* Two fresh runs of a job never work at once (NoFreshOverlap), for any    *)
(* number of runs and processes, either clock and every failure JobLease   *)
(* has, unless a process in which a run has outlived its lease meddled     *)
(* with the claim of another of its runs; and a run is told of a loss      *)
(* wrongly only then, or when two of its heartbeats were under way at      *)
(* once.  In a process in which no run has outlived its lease the fresh    *)
(* run that has the claim is the only one, which is the argument.          *)
(***************************************************************************)
EXTENDS JobLease, TLAPS

ShortJobs == "LONG_RUN" \notin Faults

\* The process has meddled with no claim: none of its runs outlived its lease.
InTime(r) == Owner[r] \notin overran

\* The row carries the owner of the run that claimed it.
ClaimIsHolders ==
  /\ holder = Nobody => cursor.claimedBy = Nobody
  /\ holder # Nobody => cursor.claimedBy = Owner[holder]

\* Starts lie in the past; the processes whose runs outlived a lease are known.
StartsInPast ==
  \A r \in Runs : runs[r].at # "idle" =>
    /\ runs[r].asOf <= clock
    /\ InTime(r) => ~Overrun(r)

\* Only such a process has meddled with claims, and short jobs make none.
SpoiledByOverrun ==
  /\ \A r \in spoiled : ~InTime(r)
  /\ ShortJobs => overran = {}

\* A working run that has not overrun has the claim, for long enough, unless
\* its own process spoiled it.
FreshHolds ==
  \A r \in Runs : Working(r) /\ ~Overrun(r) /\ r \notin spoiled =>
    /\ holder = r
    /\ cursor.expires >= runs[r].asOf + Duration

\* A heartbeat under way belongs to a working run and would not shorten its
\* lease.
SentBeats ==
  \A r \in Runs, i \in Slots : beats[r][i].at = "sent" =>
    /\ Working(r)
    /\ beats[r][i].until >= runs[r].asOf + Duration

\* No heartbeat expects a version that was never written.
VersionsWritten ==
  \A r \in Runs :
    /\ runs[r].at = "running" => runs[r].version <= cursor.version
    /\ \A i \in Slots :
         /\ beats[r][i].at \in {"sent", "late"} => beats[r][i].version <= cursor.version
         /\ beats[r][i].at = "ok" => beats[r][i].version + 1 <= cursor.version

\* A heartbeat that outlived its run cannot touch a later claim of that run, nor
\* one of its process while no run there has outlived its lease.
LateIsStale ==
  \A r \in Runs, i \in Slots :
    beats[r][i].at = "late" /\ holder # Nobody /\ Working(holder)
        /\ Owner[holder] = Owner[r] /\ (holder = r \/ InTime(r)) =>
      beats[r][i].version < cursor.version

IInv == TypeOK /\ ClaimIsHolders /\ StartsInPast /\ SpoiledByOverrun /\ FreshHolds
          /\ SentBeats /\ VersionsWritten /\ LateIsStale

----------------------------------------------------------------------------
(* What the actions do, run by run and heartbeat by heartbeat.             *)

LEMMA RunUpdate ==
  ASSUME TypeOK, NEW q \in Runs, NEW x \in Run, runs' = [runs EXCEPT ![q] = x]
  PROVE  /\ runs' \in [Runs -> Run]
         /\ runs'[q] = x
         /\ \A r \in Runs \ {q} : runs'[r] = runs[r]
BY DEF TypeOK

LEMMA IdleTyped == IdleRun \in Run /\ NoBeat \in Beat
BY DEF IdleRun, NewRun, Run, NoBeat, Beat

LEMMA OutliveEffect ==
  ASSUME NEW slots \in [Slots -> Beat]
  PROVE  /\ Outlive(slots) \in [Slots -> Beat]
         /\ \A i \in Slots :
              /\ Outlive(slots)[i].at \in {"none", "late"}
              /\ Outlive(slots)[i].at = "late" =>
                   /\ slots[i].at \in {"sent", "late"}
                   /\ Outlive(slots)[i].version = slots[i].version
<1>1. \A i \in Slots : [slots[i] EXCEPT !.at = "late"] \in Beat
  BY DEF Beat
<1>2. \A i \in Slots : slots[i] \in Beat
  OBVIOUS
<1>3. Outlive(slots) \in [Slots -> Beat]
  BY <1>1, IdleTyped DEF Outlive
<1>4. QED
  BY <1>2, <1>3 DEF Outlive, NoBeat, Beat

LEMMA GoesEffect ==
  ASSUME TypeOK, NEW q \in Runs,
         NEW at \in {"idle", "asked", "claimed", "running", "releasing"}, Goes(q, at)
  PROVE  /\ runs' \in [Runs -> Run]
         /\ runs'[q].at = at /\ runs'[q].asOf = runs[q].asOf
         /\ runs'[q].version = runs[q].version
         /\ \A r \in Runs \ {q} : runs'[r] = runs[r]
<1> DEFINE x == [runs[q] EXCEPT !.at = at]
<1>1. x \in Run /\ x.at = at /\ x.asOf = runs[q].asOf /\ x.version = runs[q].version
  BY DEF TypeOK, Run
<1>2. runs' = [runs EXCEPT ![q] = x]
  BY DEF Goes, TypeOK
<1> HIDE DEF x
<1>3. QED
  BY <1>1, <1>2, RunUpdate

LEMMA StartEffect ==
  ASSUME TypeOK, NEW q \in Runs, Start(q)
  PROVE  /\ runs' \in [Runs -> Run]
         /\ runs'[q].at = "asked" /\ runs'[q].asOf = clock
         /\ \A r \in Runs \ {q} : runs'[r] = runs[r]
<1> DEFINE x == NewRun("asked", clock)
<1>1. x \in Run /\ x.at = "asked" /\ x.asOf = clock
  BY DEF TypeOK, Run, NewRun
<1>2. runs' = [runs EXCEPT ![q] = x]
  BY DEF Start
<1> HIDE DEF x
<1>3. QED
  BY <1>1, <1>2, RunUpdate

LEMMA ReadVersionEffect ==
  ASSUME TypeOK, NEW q \in Runs, ReadVersion(q)
  PROVE  /\ runs' \in [Runs -> Run]
         /\ runs'[q].at = "running" /\ runs'[q].asOf = runs[q].asOf
         /\ runs'[q].version = cursor.version
         /\ \A r \in Runs \ {q} : runs'[r] = runs[r]
<1> DEFINE x == [runs[q] EXCEPT !.at = "running", !.version = cursor.version,
                                !.due = clock + Interval]
<1>1. clock + Interval \in Nat /\ cursor.version \in Int /\ runs[q] \in Run
  BY LeaseAssumption DEF TypeOK, Cursor
<1>2. x \in Run /\ x.at = "running" /\ x.asOf = runs[q].asOf /\ x.version = cursor.version
  BY <1>1 DEF Run
<1>3. runs' = [runs EXCEPT ![q] = x]
  BY DEF ReadVersion, TypeOK
<1> HIDE DEF x
<1>4. QED
  BY <1>2, <1>3, RunUpdate

LEMMA SendBeatEffect ==
  ASSUME TypeOK, NEW q \in Runs, NEW j \in Slots, SendBeat(q, j)
  PROVE  /\ runs' \in [Runs -> Run]
         /\ runs'[q].at = "running" /\ runs'[q].asOf = runs[q].asOf
         /\ runs'[q].version = runs[q].version
         /\ \A r \in Runs \ {q} : runs'[r] = runs[r]
         /\ beats' \in [Runs -> [Slots -> Beat]]
         /\ beats'[q][j] = [at |-> "sent", version |-> runs[q].version,
                            until |-> Now(q) + Duration]
         /\ \A r \in Runs, i \in Slots : r # q \/ i # j => beats'[r][i] = beats[r][i]
<1> DEFINE x == [runs[q] EXCEPT !.due = clock + Interval]
           b == [at |-> "sent", version |-> runs[q].version, until |-> Now(q) + Duration]
<1>1. clock + Interval \in Nat /\ runs[q] \in Run /\ runs[q].at = "running"
  BY LeaseAssumption DEF TypeOK, SendBeat
<1>2. x \in Run /\ x.at = "running" /\ x.asOf = runs[q].asOf /\ x.version = runs[q].version
  BY <1>1 DEF Run
<1>3. Now(q) \in Nat /\ runs[q].version \in Int
  BY <1>1 DEF Now, TypeOK, Run
<1>4. b \in Beat
  BY <1>3, LeaseAssumption DEF Beat
<1>5. runs' = [runs EXCEPT ![q] = x]
  BY DEF SendBeat, TypeOK
<1>5a. beats' = [beats EXCEPT ![q][j] = b]
  BY DEF SendBeat
<1> HIDE DEF x, b
<1>6. /\ runs' \in [Runs -> Run] /\ runs'[q] = x
      /\ \A r \in Runs \ {q} : runs'[r] = runs[r]
  BY <1>2, <1>5, RunUpdate
<1>7. /\ beats' \in [Runs -> [Slots -> Beat]] /\ beats'[q][j] = b
      /\ \A r \in Runs, i \in Slots : r # q \/ i # j => beats'[r][i] = beats[r][i]
  BY <1>4, <1>5a DEF TypeOK
<1>8. QED
  BY <1>2, <1>6, <1>7 DEF b

LEMMA ExecuteBeatEffect ==
  ASSUME TypeOK, NEW q \in Runs, NEW j \in Slots, ExecuteBeat(q, j)
  PROVE  /\ cursor' \in Cursor
         /\ cursor'.claimedBy = cursor.claimedBy
         /\ \/ cursor' = cursor /\ ~Extends(q, beats[q][j])
            \/ /\ Extends(q, beats[q][j])
               /\ cursor'.expires = beats[q][j].until
               /\ cursor'.version = cursor.version + 1
         /\ beats' \in [Runs -> [Slots -> Beat]]
         /\ beats'[q][j].at \in {"none", "ok", "lost"}
         /\ beats'[q][j].at = "ok" =>
              /\ Extends(q, beats[q][j])
              /\ beats'[q][j].version = beats[q][j].version
         /\ \A r \in Runs, i \in Slots : r # q \/ i # j => beats'[r][i] = beats[r][i]
<1> DEFINE beat == beats[q][j]
           b == IF beat.at = "late" THEN NoBeat
                ELSE [beat EXCEPT !.at = IF Extends(q, beat) THEN "ok" ELSE "lost"]
<1>1. beat \in Beat /\ cursor \in Cursor /\ Nobody \notin Owners
  BY LeaseAssumption DEF TypeOK
<1>2. /\ b \in Beat /\ b.at \in {"none", "ok", "lost"}
      /\ b.at = "ok" => Extends(q, beat) /\ b.version = beat.version
  BY <1>1 DEF Beat, NoBeat
<1>3. beats' = [beats EXCEPT ![q][j] = b]
  BY DEF ExecuteBeat
<1>4. /\ cursor' \in Cursor
      /\ cursor'.claimedBy = cursor.claimedBy
      /\ \/ cursor' = cursor /\ ~Extends(q, beat)
         \/ /\ Extends(q, beat)
            /\ cursor'.expires = beat.until
            /\ cursor'.version = cursor.version + 1
  <2>1. beat.until \in Nat /\ cursor.version + 1 \in Nat
    BY <1>1 DEF Beat, Cursor
  <2>2. CASE Extends(q, beat)
    BY <1>1, <2>1, <2>2 DEF ExecuteBeat, Cursor
  <2>3. CASE ~Extends(q, beat)
    BY <1>1, <2>3 DEF ExecuteBeat
  <2>4. QED
    BY <2>2, <2>3
<1> HIDE DEF b
<1>5. /\ beats' \in [Runs -> [Slots -> Beat]] /\ beats'[q][j] = b
      /\ \A r \in Runs, i \in Slots : r # q \/ i # j => beats'[r][i] = beats[r][i]
  BY <1>2, <1>3 DEF TypeOK
<1>6. QED
  BY <1>2, <1>4, <1>5

LEMMA AnswerBeatEffect ==
  ASSUME TypeOK, NEW q \in Runs, NEW j \in Slots, AnswerBeat(q, j)
  PROVE  /\ runs' \in [Runs -> Run]
         /\ runs'[q].at = runs[q].at /\ runs'[q].asOf = runs[q].asOf
         /\ \/ runs'[q].version = runs[q].version
            \/ beats[q][j].at = "ok" /\ runs'[q].version = beats[q][j].version + 1
         /\ \A r \in Runs \ {q} : runs'[r] = runs[r]
         /\ beats' \in [Runs -> [Slots -> Beat]]
         /\ beats'[q][j].at = "none"
         /\ \A r \in Runs, i \in Slots : r # q \/ i # j => beats'[r][i] = beats[r][i]
<1> DEFINE beat == beats[q][j]
           x == IF beat.at = "ok" THEN [runs[q] EXCEPT !.version = beat.version + 1]
                ELSE [runs[q] EXCEPT !.lost = TRUE]
           b == NoBeat
<1>1. runs[q] \in Run /\ beat \in Beat
  BY DEF TypeOK
<1>2. /\ x \in Run /\ x.at = runs[q].at /\ x.asOf = runs[q].asOf
      /\ x.version = runs[q].version \/ (beat.at = "ok" /\ x.version = beat.version + 1)
  <2>1. beat.version + 1 \in Int
    BY <1>1 DEF Beat
  <2>2. CASE beat.at = "ok"
    BY <1>1, <2>1, <2>2 DEF Run
  <2>3. CASE beat.at # "ok"
    <3> DEFINE y == [runs[q] EXCEPT !.lost = TRUE]
    <3>1. x = y
      BY <2>3
    <3>2. /\ y \in Run /\ y.at = runs[q].at /\ y.asOf = runs[q].asOf
          /\ y.version = runs[q].version
      BY <1>1 DEF Run
    <3> HIDE DEF x, y
    <3>3. QED
      BY <3>1, <3>2
  <2>4. QED
    BY <2>2, <2>3
<1>3. runs' = [runs EXCEPT ![q] = x]
  BY DEF AnswerBeat, NextVersion, TypeOK
<1>3a. beats' = [beats EXCEPT ![q][j] = b]
  BY DEF AnswerBeat
<1> HIDE DEF x, b
<1>4. /\ runs' \in [Runs -> Run] /\ runs'[q] = x
      /\ \A r \in Runs \ {q} : runs'[r] = runs[r]
  BY <1>2, <1>3, RunUpdate
<1>5. b \in Beat /\ b.at = "none"
  BY IdleTyped DEF b, NoBeat
<1>6. /\ beats' \in [Runs -> [Slots -> Beat]] /\ beats'[q][j] = b
      /\ \A r \in Runs, i \in Slots : r # q \/ i # j => beats'[r][i] = beats[r][i]
  BY <1>3a, <1>5 DEF TypeOK
<1>7. QED
  BY <1>2, <1>4, <1>5, <1>6

----------------------------------------------------------------------------
(* Each action keeps the invariant.                                        *)

LEMMA StartKeeps ==
  ASSUME IInv, NEW q \in Runs, Start(q)
  PROVE  IInv'
<1>1. /\ runs' \in [Runs -> Run] /\ runs'[q].at = "asked" /\ runs'[q].asOf = clock
      /\ \A r \in Runs \ {q} : runs'[r] = runs[r]
  BY StartEffect DEF IInv
<1>2. runs[q].at = "idle" /\ UNCHANGED <<clock, cursor, holder, beats, overran, spoiled, raced>>
  BY DEF Start, history
<1>3. TypeOK'
  BY <1>1, <1>2, LeaseAssumption DEF TypeOK, IInv
<1>4. ClaimIsHolders'
  BY <1>1, <1>2, LeaseAssumption DEF ClaimIsHolders, TypeOK, IInv
<1>5. StartsInPast'
  BY <1>1, <1>2, LeaseAssumption DEF StartsInPast, InTime, Overrun, TypeOK, Run, IInv
<1>6a. SpoiledByOverrun'
  BY <1>1, <1>2 DEF IInv, SpoiledByOverrun, InTime
<1>6. FreshHolds'
  BY <1>1, <1>2, LeaseAssumption DEF FreshHolds, Working, Overrun, TypeOK, Run, Cursor, IInv
<1>7. SentBeats'
  BY <1>1, <1>2, LeaseAssumption DEF SentBeats, Working, TypeOK, Run, Beat, IInv
<1>8. VersionsWritten'
  BY <1>1, <1>2, LeaseAssumption DEF VersionsWritten, TypeOK, Run, Cursor, Beat, IInv
<1>9. LateIsStale'
  BY <1>1, <1>2, LeaseAssumption DEF LateIsStale, InTime, Working, TypeOK, Cursor, Beat, VersionsWritten, IInv
<1>10. QED BY <1>3, <1>4, <1>5, <1>6, <1>7, <1>8, <1>9, <1>6a DEF IInv

LEMMA SkipKeeps ==
  ASSUME IInv, NEW q \in Runs, Skip(q)
  PROVE  IInv'
<1>1. /\ runs' \in [Runs -> Run] /\ runs'[q].at = "idle"
      /\ \A r \in Runs \ {q} : runs'[r] = runs[r]
  BY RunUpdate, IdleTyped DEF IInv, Skip, IdleRun, NewRun
<1>2. runs[q].at = "asked" /\ UNCHANGED <<clock, cursor, holder, beats, overran, spoiled, raced>>
  BY DEF Skip, history
<1>3. TypeOK'
  BY <1>1, <1>2, LeaseAssumption DEF TypeOK, IInv
<1>4. ClaimIsHolders'
  BY <1>1, <1>2, LeaseAssumption DEF ClaimIsHolders, TypeOK, IInv
<1>5. StartsInPast'
  BY <1>1, <1>2, LeaseAssumption DEF StartsInPast, InTime, Overrun, TypeOK, Run, IInv
<1>6a. SpoiledByOverrun'
  BY <1>1, <1>2 DEF IInv, SpoiledByOverrun, InTime
<1>6. FreshHolds'
  BY <1>1, <1>2, LeaseAssumption DEF FreshHolds, Working, Overrun, TypeOK, Run, Cursor, IInv
<1>7. SentBeats'
  BY <1>1, <1>2, LeaseAssumption DEF SentBeats, Working, TypeOK, Run, Beat, IInv
<1>8. VersionsWritten'
  BY <1>1, <1>2, LeaseAssumption DEF VersionsWritten, TypeOK, Run, Cursor, Beat, IInv
<1>9. LateIsStale'
  BY <1>1, <1>2, LeaseAssumption DEF LateIsStale, InTime, Working, TypeOK, Cursor, Beat, VersionsWritten, IInv
<1>10. QED BY <1>3, <1>4, <1>5, <1>6, <1>7, <1>8, <1>9, <1>6a DEF IInv

LEMMA AcquireKeeps ==
  ASSUME IInv, NEW q \in Runs, Acquire(q)
  PROVE  IInv'
<1>1. /\ runs' \in [Runs -> Run] /\ runs'[q].at = "claimed" /\ runs'[q].asOf = runs[q].asOf
      /\ \A r \in Runs \ {q} : runs'[r] = runs[r]
  BY GoesEffect DEF IInv, Acquire
<1>2. /\ runs[q].at = "asked" /\ UNCHANGED <<clock, beats, overran, spoiled, raced>>
      /\ holder' = q
      /\ cursor' = [claimedBy |-> Owner[q], expires |-> Now(q) + Duration,
                    version |-> cursor.version + 1]
      /\ cursor.claimedBy = Nobody \/ cursor.expires < Now(q)
  BY DEF Acquire, Claimable, history
<1>3. Now(q) \in Nat /\ runs[q].asOf <= Now(q) /\ Now(q) <= clock
  BY <1>2 DEF Now, IInv, TypeOK, Run, StartsInPast
<1>4. cursor' \in Cursor /\ cursor'.claimedBy = Owner[q] /\ cursor'.expires = Now(q) + Duration
      /\ cursor'.version = cursor.version + 1
  BY <1>2, <1>3, LeaseAssumption DEF IInv, TypeOK, Cursor
<1>5. TypeOK'
  BY <1>1, <1>2, <1>3, <1>4, LeaseAssumption DEF TypeOK, IInv
<1>6. ClaimIsHolders'
  BY <1>1, <1>2, <1>3, <1>4, LeaseAssumption DEF ClaimIsHolders, TypeOK, IInv
<1>7. StartsInPast'
  BY <1>1, <1>2, <1>3, <1>4, LeaseAssumption DEF StartsInPast, InTime, Overrun, TypeOK, Run, IInv
<1>8a. SpoiledByOverrun'
  BY <1>1, <1>2, <1>3, <1>4 DEF IInv, SpoiledByOverrun, InTime
<1>8. FreshHolds'
  <2> SUFFICES ASSUME NEW r \in Runs, Working(r)', ~Overrun(r)', r \notin spoiled
               PROVE  holder' = r /\ cursor'.expires >= runs'[r].asOf + Duration
    BY <1>2 DEF FreshHolds
  <2>1. CASE r = q
    BY <1>1, <1>2, <1>3, <1>4, <2>1, LeaseAssumption DEF IInv, TypeOK, Run
  <2>2. CASE r # q
    <3>1. Working(r) /\ ~Overrun(r)
      BY <1>1, <1>2, <2>2 DEF Working, Overrun
    <3>2. holder = r /\ cursor.expires >= runs[r].asOf + Duration
      BY <3>1 DEF IInv, FreshHolds
    <3>3. cursor.claimedBy # Nobody
      BY <3>2, LeaseAssumption DEF IInv, ClaimIsHolders
    <3>4. clock <= runs[r].asOf + Duration
      BY <3>1, LeaseAssumption DEF Overrun, IInv, TypeOK, Run
    <3>5. QED
      BY <1>2, <1>3, <3>2, <3>3, <3>4, LeaseAssumption DEF IInv, TypeOK, Cursor, Run
  <2>3. QED BY <2>1, <2>2
<1>9. SentBeats'
  BY <1>1, <1>2, <1>3, <1>4, LeaseAssumption DEF SentBeats, Working, TypeOK, Run, Beat, IInv
<1>10. VersionsWritten'
  <2> SUFFICES ASSUME NEW r \in Runs
               PROVE  /\ runs'[r].at = "running" => runs'[r].version <= cursor'.version
                      /\ \A i \in Slots :
                           /\ beats'[r][i].at \in {"sent", "late"} =>
                                beats'[r][i].version <= cursor'.version
                           /\ beats'[r][i].at = "ok" =>
                                beats'[r][i].version + 1 <= cursor'.version
    BY DEF VersionsWritten
  <2>1. /\ runs[r].at = "running" => runs[r].version <= cursor.version
        /\ \A i \in Slots :
             /\ beats[r][i].at \in {"sent", "late"} => beats[r][i].version <= cursor.version
             /\ beats[r][i].at = "ok" => beats[r][i].version + 1 <= cursor.version
    BY DEF IInv, VersionsWritten
  <2>2. cursor.version \in Int /\ (\A i \in Slots : beats[r][i].version \in Int)
        /\ runs[r].version \in Int
    BY DEF IInv, TypeOK, Cursor, Beat, Run
  <2>3. runs'[r].at = "running" => runs'[r].version <= cursor'.version
    BY <1>1, <1>2, <1>4, <2>1, <2>2
  <2>4. ASSUME NEW i \in Slots
        PROVE  /\ beats'[r][i].at \in {"sent", "late"} =>
                    beats'[r][i].version <= cursor'.version
               /\ beats'[r][i].at = "ok" => beats'[r][i].version + 1 <= cursor'.version
    BY <1>2, <1>4, <2>1, <2>2
  <2>5. QED BY <2>3, <2>4
<1>11. LateIsStale'
  BY <1>1, <1>2, <1>3, <1>4, LeaseAssumption DEF LateIsStale, InTime, Working, TypeOK, Cursor, Beat, VersionsWritten, IInv
<1>12. QED BY <1>5, <1>6, <1>7, <1>8, <1>9, <1>10, <1>11, <1>8a DEF IInv

LEMMA ReadVersionKeeps ==
  ASSUME IInv, NEW q \in Runs, ReadVersion(q)
  PROVE  IInv'
<1>1. /\ runs' \in [Runs -> Run] /\ runs'[q].at = "running" /\ runs'[q].asOf = runs[q].asOf
      /\ runs'[q].version = cursor.version
      /\ \A r \in Runs \ {q} : runs'[r] = runs[r]
  BY ReadVersionEffect DEF IInv
<1>2. runs[q].at = "claimed" /\ UNCHANGED <<clock, cursor, holder, beats, overran, spoiled, raced>>
  BY DEF ReadVersion, history
<1>3. TypeOK'
  BY <1>1, <1>2, LeaseAssumption DEF TypeOK, IInv
<1>4. ClaimIsHolders'
  BY <1>1, <1>2, LeaseAssumption DEF ClaimIsHolders, TypeOK, IInv
<1>5. StartsInPast'
  BY <1>1, <1>2, LeaseAssumption DEF StartsInPast, InTime, Overrun, TypeOK, Run, IInv
<1>6a. SpoiledByOverrun'
  BY <1>1, <1>2 DEF IInv, SpoiledByOverrun, InTime
<1>6. FreshHolds'
  BY <1>1, <1>2, LeaseAssumption DEF FreshHolds, Working, Overrun, TypeOK, Run, Cursor, IInv
<1>7. SentBeats'
  BY <1>1, <1>2, LeaseAssumption DEF SentBeats, Working, TypeOK, Run, Beat, IInv
<1>8. VersionsWritten'
  <2> SUFFICES ASSUME NEW r \in Runs
               PROVE  /\ runs'[r].at = "running" => runs'[r].version <= cursor'.version
                      /\ \A i \in Slots :
                           /\ beats'[r][i].at \in {"sent", "late"} =>
                                beats'[r][i].version <= cursor'.version
                           /\ beats'[r][i].at = "ok" =>
                                beats'[r][i].version + 1 <= cursor'.version
    BY DEF VersionsWritten
  <2>1. /\ runs[r].at = "running" => runs[r].version <= cursor.version
        /\ \A i \in Slots :
             /\ beats[r][i].at \in {"sent", "late"} => beats[r][i].version <= cursor.version
             /\ beats[r][i].at = "ok" => beats[r][i].version + 1 <= cursor.version
    BY DEF IInv, VersionsWritten
  <2>2. cursor.version \in Int /\ (\A i \in Slots : beats[r][i].version \in Int)
        /\ runs[r].version \in Int
    BY DEF IInv, TypeOK, Cursor, Beat, Run
  <2>3. runs'[r].at = "running" => runs'[r].version <= cursor'.version
    BY <1>1, <1>2, <2>1, <2>2
  <2>4. ASSUME NEW i \in Slots
        PROVE  /\ beats'[r][i].at \in {"sent", "late"} =>
                    beats'[r][i].version <= cursor'.version
               /\ beats'[r][i].at = "ok" => beats'[r][i].version + 1 <= cursor'.version
    BY <1>2, <2>1, <2>2
  <2>5. QED BY <2>3, <2>4
<1>9. LateIsStale'
  BY <1>1, <1>2, LeaseAssumption DEF LateIsStale, InTime, Working, TypeOK, Cursor, Beat, VersionsWritten, IInv
<1>10. QED BY <1>3, <1>4, <1>5, <1>6, <1>7, <1>8, <1>9, <1>6a DEF IInv

LEMMA SendBeatKeeps ==
  ASSUME IInv, NEW q \in Runs, NEW j \in Slots, SendBeat(q, j)
  PROVE  IInv'
<1>1. /\ runs' \in [Runs -> Run] /\ runs'[q].at = "running" /\ runs'[q].asOf = runs[q].asOf
      /\ runs'[q].version = runs[q].version
      /\ \A r \in Runs \ {q} : runs'[r] = runs[r]
      /\ beats' \in [Runs -> [Slots -> Beat]]
      /\ beats'[q][j] = [at |-> "sent", version |-> runs[q].version, until |-> Now(q) + Duration]
      /\ \A r \in Runs, i \in Slots : r # q \/ i # j => beats'[r][i] = beats[r][i]
  BY SendBeatEffect DEF IInv
<1>2. runs[q].at = "running" /\ UNCHANGED <<clock, cursor, holder, overran, spoiled>>
  BY DEF SendBeat
<1>3. Now(q) \in Nat /\ runs[q].asOf <= Now(q)
  BY <1>2 DEF Now, IInv, TypeOK, Run, StartsInPast
<1>4. /\ beats'[q][j].at = "sent" /\ beats'[q][j].version = runs[q].version
      /\ beats'[q][j].until = Now(q) + Duration
  BY <1>1
<1>4a. raced' \subseteq Runs
  BY DEF SendBeat, IInv, TypeOK
<1>5. TypeOK'
  BY <1>4a, <1>1, <1>2, <1>3, <1>4, LeaseAssumption DEF TypeOK, IInv
<1>6. ClaimIsHolders'
  BY <1>1, <1>2, <1>3, <1>4, LeaseAssumption DEF ClaimIsHolders, TypeOK, IInv
<1>7. StartsInPast'
  BY <1>1, <1>2, <1>3, <1>4, LeaseAssumption DEF StartsInPast, InTime, Overrun, TypeOK, Run, IInv
<1>8a. SpoiledByOverrun'
  BY <1>1, <1>2, <1>3, <1>4 DEF IInv, SpoiledByOverrun, InTime
<1>8. FreshHolds'
  BY <1>1, <1>2, <1>3, <1>4, LeaseAssumption DEF FreshHolds, Working, Overrun, TypeOK, Run, Cursor, IInv
<1>9. SentBeats'
  <2> SUFFICES ASSUME NEW r \in Runs, NEW i \in Slots, beats'[r][i].at = "sent"
               PROVE  Working(r)' /\ beats'[r][i].until >= runs'[r].asOf + Duration
    BY DEF SentBeats
  <2>1. CASE r = q /\ i = j
    BY <1>1, <1>2, <1>3, <1>4, <2>1, LeaseAssumption DEF Working, IInv, TypeOK, Run
  <2>2. CASE r # q \/ i # j
    <3>1. beats'[r][i] = beats[r][i] /\ beats[r][i].at = "sent"
      BY <1>1, <1>2, <1>3, <1>4, <2>2
    <3>2. Working(r) /\ beats[r][i].until >= runs[r].asOf + Duration
      BY <3>1 DEF IInv, SentBeats
    <3>3. QED
      BY <1>1, <1>2, <1>3, <1>4, <3>1, <3>2 DEF Working
  <2>3. QED BY <2>1, <2>2
<1>10. VersionsWritten'
  <2> SUFFICES ASSUME NEW r \in Runs
               PROVE  /\ runs'[r].at = "running" => runs'[r].version <= cursor'.version
                      /\ \A i \in Slots :
                           /\ beats'[r][i].at \in {"sent", "late"} =>
                                beats'[r][i].version <= cursor'.version
                           /\ beats'[r][i].at = "ok" =>
                                beats'[r][i].version + 1 <= cursor'.version
    BY DEF VersionsWritten
  <2>1. /\ runs[r].at = "running" => runs[r].version <= cursor.version
        /\ \A i \in Slots :
             /\ beats[r][i].at \in {"sent", "late"} => beats[r][i].version <= cursor.version
             /\ beats[r][i].at = "ok" => beats[r][i].version + 1 <= cursor.version
    BY DEF IInv, VersionsWritten
  <2>2. cursor.version \in Int /\ (\A i \in Slots : beats[r][i].version \in Int)
        /\ runs[r].version \in Int
    BY DEF IInv, TypeOK, Cursor, Beat, Run
  <2>3. runs'[r].at = "running" => runs'[r].version <= cursor'.version
    BY <1>1, <1>2, <1>4, <2>1, <2>2
  <2>4. ASSUME NEW i \in Slots
        PROVE  /\ beats'[r][i].at \in {"sent", "late"} =>
                    beats'[r][i].version <= cursor'.version
               /\ beats'[r][i].at = "ok" => beats'[r][i].version + 1 <= cursor'.version
    <3>1. CASE r = q /\ i = j
      BY <1>1, <1>2, <1>4, <2>1, <2>2, <3>1
    <3>2. CASE r # q \/ i # j
      <4>1. beats'[r][i] = beats[r][i]
        BY <1>1, <1>2, <1>4, <3>2
      <4>2. QED
        BY <1>1, <1>2, <1>4, <2>1, <2>2, <4>1
    <3>3. QED BY <3>1, <3>2
  <2>5. QED BY <2>3, <2>4
<1>11. LateIsStale'
  <2> SUFFICES ASSUME NEW r \in Runs, NEW i \in Slots, beats'[r][i].at = "late",
                      holder # Nobody, Working(holder)', Owner[holder] = Owner[r],
                      holder = r \/ InTime(r)
               PROVE  beats'[r][i].version < cursor'.version
    BY <1>1, <1>2, <1>4 DEF LateIsStale, InTime
  <2>1. holder \in Runs
    BY DEF IInv, TypeOK
  <2>2. Working(holder)
    BY <1>1, <1>2, <1>4, <2>1 DEF Working
  <2>3. beats'[r][i] = beats[r][i]
    BY <1>1, <1>2, <1>4
  <2>4. QED
    BY <1>1, <1>2, <1>4, <2>2, <2>3 DEF IInv, LateIsStale
<1>12. QED BY <1>5, <1>6, <1>7, <1>8, <1>9, <1>10, <1>11, <1>8a DEF IInv

LEMMA AnswerBeatKeeps ==
  ASSUME IInv, NEW q \in Runs, NEW j \in Slots, AnswerBeat(q, j)
  PROVE  IInv'
<1>1. /\ runs' \in [Runs -> Run] /\ runs'[q].at = runs[q].at /\ runs'[q].asOf = runs[q].asOf
      /\ \/ runs'[q].version = runs[q].version
         \/ beats[q][j].at = "ok" /\ runs'[q].version = beats[q][j].version + 1
      /\ \A r \in Runs \ {q} : runs'[r] = runs[r]
      /\ beats' \in [Runs -> [Slots -> Beat]] /\ beats'[q][j].at = "none"
      /\ \A r \in Runs, i \in Slots : r # q \/ i # j => beats'[r][i] = beats[r][i]
  BY AnswerBeatEffect DEF IInv
<1>2. UNCHANGED <<clock, cursor, holder, overran, spoiled, raced>>
  BY DEF AnswerBeat, history
<1>3. TypeOK'
  BY <1>1, <1>2, LeaseAssumption DEF TypeOK, IInv
<1>4. ClaimIsHolders'
  BY <1>1, <1>2, LeaseAssumption DEF ClaimIsHolders, TypeOK, IInv
<1>5. StartsInPast'
  BY <1>1, <1>2, LeaseAssumption DEF StartsInPast, InTime, Overrun, TypeOK, Run, IInv
<1>6a. SpoiledByOverrun'
  BY <1>1, <1>2 DEF IInv, SpoiledByOverrun, InTime
<1>6. FreshHolds'
  BY <1>1, <1>2, LeaseAssumption DEF FreshHolds, Working, Overrun, TypeOK, Run, Cursor, IInv
<1>7. SentBeats'
  <2> SUFFICES ASSUME NEW r \in Runs, NEW i \in Slots, beats'[r][i].at = "sent"
               PROVE  Working(r)' /\ beats'[r][i].until >= runs'[r].asOf + Duration
    BY DEF SentBeats
  <2>1. CASE r = q /\ i = j
    BY <1>1, <1>2, <2>1, LeaseAssumption DEF Working, IInv, TypeOK, Run
  <2>2. CASE r # q \/ i # j
    <3>1. beats'[r][i] = beats[r][i] /\ beats[r][i].at = "sent"
      BY <1>1, <1>2, <2>2
    <3>2. Working(r) /\ beats[r][i].until >= runs[r].asOf + Duration
      BY <3>1 DEF IInv, SentBeats
    <3>3. QED
      BY <1>1, <1>2, <3>1, <3>2 DEF Working
  <2>3. QED BY <2>1, <2>2
<1>8. VersionsWritten'
  <2> SUFFICES ASSUME NEW r \in Runs
               PROVE  /\ runs'[r].at = "running" => runs'[r].version <= cursor'.version
                      /\ \A i \in Slots :
                           /\ beats'[r][i].at \in {"sent", "late"} =>
                                beats'[r][i].version <= cursor'.version
                           /\ beats'[r][i].at = "ok" =>
                                beats'[r][i].version + 1 <= cursor'.version
    BY DEF VersionsWritten
  <2>1. /\ runs[r].at = "running" => runs[r].version <= cursor.version
        /\ \A i \in Slots :
             /\ beats[r][i].at \in {"sent", "late"} => beats[r][i].version <= cursor.version
             /\ beats[r][i].at = "ok" => beats[r][i].version + 1 <= cursor.version
    BY DEF IInv, VersionsWritten
  <2>2. cursor.version \in Int /\ (\A i \in Slots : beats[r][i].version \in Int)
        /\ runs[r].version \in Int
    BY DEF IInv, TypeOK, Cursor, Beat, Run
  <2>3. runs'[r].at = "running" => runs'[r].version <= cursor'.version
    BY <1>1, <1>2, <2>1, <2>2
  <2>4. ASSUME NEW i \in Slots
        PROVE  /\ beats'[r][i].at \in {"sent", "late"} =>
                    beats'[r][i].version <= cursor'.version
               /\ beats'[r][i].at = "ok" => beats'[r][i].version + 1 <= cursor'.version
    <3>1. CASE r = q /\ i = j
      BY <1>1, <1>2, <2>1, <2>2, <3>1
    <3>2. CASE r # q \/ i # j
      <4>1. beats'[r][i] = beats[r][i]
        BY <1>1, <1>2, <3>2
      <4>2. QED
        BY <1>1, <1>2, <2>1, <2>2, <4>1
    <3>3. QED BY <3>1, <3>2
  <2>5. QED BY <2>3, <2>4
<1>9. LateIsStale'
  <2> SUFFICES ASSUME NEW r \in Runs, NEW i \in Slots, beats'[r][i].at = "late",
                      holder # Nobody, Working(holder)', Owner[holder] = Owner[r],
                      holder = r \/ InTime(r)
               PROVE  beats'[r][i].version < cursor'.version
    BY <1>1, <1>2 DEF LateIsStale, InTime
  <2>1. holder \in Runs
    BY DEF IInv, TypeOK
  <2>2. Working(holder)
    BY <1>1, <1>2, <2>1 DEF Working
  <2>3. beats'[r][i] = beats[r][i]
    BY <1>1, <1>2
  <2>4. QED
    BY <1>1, <1>2, <2>2, <2>3 DEF IInv, LateIsStale
<1>10. QED BY <1>3, <1>4, <1>5, <1>6, <1>7, <1>8, <1>9, <1>6a DEF IInv

\* While none of a process's runs has outlived its lease, only the run that
\* made the claim works there.
LEMMA FreshAlone ==
  ASSUME IInv, NEW r \in Runs, NEW q \in Runs, Working(q), Owner[q] = Owner[r],
         q = r \/ InTime(q), holder = r
  PROVE  q = r
<1> SUFFICES ASSUME InTime(q) PROVE q = r
  OBVIOUS
<1>1. ~Overrun(q)
  BY DEF IInv, StartsInPast, Working
<1>2. q \notin spoiled
  BY DEF IInv, SpoiledByOverrun
<1>3. QED
  BY <1>1, <1>2 DEF IInv, FreshHolds

LEMMA ExecuteBeatKeeps ==
  ASSUME IInv, NEW q \in Runs, NEW j \in Slots, ExecuteBeat(q, j)
  PROVE  IInv'
<1>1. /\ cursor' \in Cursor /\ cursor'.claimedBy = cursor.claimedBy
      /\ \/ cursor' = cursor /\ ~Extends(q, beats[q][j])
         \/ /\ Extends(q, beats[q][j]) /\ cursor'.expires = beats[q][j].until
            /\ cursor'.version = cursor.version + 1
      /\ beats' \in [Runs -> [Slots -> Beat]] /\ beats'[q][j].at \in {"none", "ok", "lost"}
      /\ beats'[q][j].at = "ok" =>
           Extends(q, beats[q][j]) /\ beats'[q][j].version = beats[q][j].version
      /\ \A r \in Runs, i \in Slots : r # q \/ i # j => beats'[r][i] = beats[r][i]
  BY ExecuteBeatEffect DEF IInv
<1>2. beats[q][j].at \in {"sent", "late"} /\ UNCHANGED <<clock, holder, runs, overran>>
      /\ spoiled' = IF Extends(q, beats[q][j]) /\ Interferes(q)
                    THEN spoiled \cup {holder} ELSE spoiled
  BY DEF ExecuteBeat
<1>3. cursor.version \in Int /\ cursor'.version \in Int /\ cursor.version <= cursor'.version
  BY <1>1 DEF IInv, TypeOK, Cursor
<1>3a. Extends(q, beats[q][j]) => holder \in Runs /\ Owner[holder] = Owner[q]
  BY LeaseAssumption DEF Extends, IInv, TypeOK, ClaimIsHolders
<1>3b. raced' \subseteq Runs /\ spoiled' \subseteq Runs
  BY <1>2, <1>3a DEF ExecuteBeat, IInv, TypeOK
<1>4. TypeOK'
  BY <1>3b, <1>1, <1>2, <1>3, LeaseAssumption DEF TypeOK, IInv
<1>5. ClaimIsHolders'
  BY <1>1, <1>2, <1>3, LeaseAssumption DEF ClaimIsHolders, TypeOK, IInv
<1>6. StartsInPast'
  BY <1>1, <1>2, <1>3, LeaseAssumption DEF StartsInPast, InTime, Overrun, TypeOK, Run, IInv
<1>7a. SpoiledByOverrun'
  <2>1. \A r \in spoiled' : r \in spoiled \/ (Owner[r] = Owner[q] /\ ~InTime(q))
    BY <1>2, <1>3a DEF Interferes, InTime
  <2>2. QED
    BY <1>2, <2>1 DEF IInv, SpoiledByOverrun, InTime
<1>7. FreshHolds'
  <2> SUFFICES ASSUME NEW r \in Runs, Working(r)', ~Overrun(r)', r \notin spoiled'
               PROVE  holder' = r /\ cursor'.expires >= runs'[r].asOf + Duration
    BY DEF FreshHolds
  <2>1. Working(r) /\ ~Overrun(r) /\ r \notin spoiled
    BY <1>2 DEF Working, Overrun
  <2>2. holder = r /\ cursor.expires >= runs[r].asOf + Duration /\ Owner[r] = cursor.claimedBy
    BY <2>1, LeaseAssumption DEF IInv, FreshHolds, ClaimIsHolders
  <2>3. CASE cursor' = cursor
    BY <1>2, <2>2, <2>3
  <2>4. CASE Extends(q, beats[q][j]) /\ cursor'.expires = beats[q][j].until
    <3>1. Owner[q] = Owner[r] /\ beats[q][j].version = cursor.version
      BY <2>2, <2>4 DEF Extends
    <3>1a. q = r \/ InTime(q)
      BY <1>2, <2>1, <2>2, <2>4 DEF Interferes, InTime
    <3>2. beats[q][j].at # "late"
      BY <2>1, <2>2, <3>1, <3>1a, LeaseAssumption DEF IInv, TypeOK, Cursor, LateIsStale
    <3>3. Working(q) /\ beats[q][j].until >= runs[q].asOf + Duration
      BY <1>2, <3>2 DEF IInv, SentBeats
    <3>4. q = r
      BY <2>2, <3>1, <3>1a, <3>3, FreshAlone
    <3>5. QED
      BY <1>2, <2>2, <2>4, <3>3, <3>4
  <2>5. QED BY <1>1, <2>3, <2>4
<1>8. SentBeats'
  <2> SUFFICES ASSUME NEW r \in Runs, NEW i \in Slots, beats'[r][i].at = "sent"
               PROVE  Working(r)' /\ beats'[r][i].until >= runs'[r].asOf + Duration
    BY DEF SentBeats
  <2>1. beats'[r][i] = beats[r][i]
    BY <1>1
  <2>2. QED
    BY <1>2, <2>1 DEF IInv, SentBeats, Working
<1>9. VersionsWritten'
  <2> SUFFICES ASSUME NEW r \in Runs
               PROVE  /\ runs'[r].at = "running" => runs'[r].version <= cursor'.version
                      /\ \A i \in Slots :
                           /\ beats'[r][i].at \in {"sent", "late"} =>
                                beats'[r][i].version <= cursor'.version
                           /\ beats'[r][i].at = "ok" =>
                                beats'[r][i].version + 1 <= cursor'.version
    BY DEF VersionsWritten
  <2>1. /\ runs[r].at = "running" => runs[r].version <= cursor.version
        /\ \A i \in Slots :
             /\ beats[r][i].at \in {"sent", "late"} => beats[r][i].version <= cursor.version
             /\ beats[r][i].at = "ok" => beats[r][i].version + 1 <= cursor.version
    BY DEF IInv, VersionsWritten
  <2>2. cursor.version \in Int /\ (\A i \in Slots : beats[r][i].version \in Int)
        /\ runs[r].version \in Int
    BY DEF IInv, TypeOK, Cursor, Beat, Run
  <2>3. runs'[r].at = "running" => runs'[r].version <= cursor'.version
    BY <1>1, <1>2, <1>3, <2>1, <2>2
  <2>4. ASSUME NEW i \in Slots
        PROVE  /\ beats'[r][i].at \in {"sent", "late"} =>
                    beats'[r][i].version <= cursor'.version
               /\ beats'[r][i].at = "ok" => beats'[r][i].version + 1 <= cursor'.version
    <3>1. CASE r = q /\ i = j
      BY <1>1, <1>3, <2>1, <2>2, <3>1 DEF Extends
    <3>2. CASE r # q \/ i # j
      <4>1. beats'[r][i] = beats[r][i]
        BY <1>1, <3>2
      <4>2. QED
        BY <1>3, <2>1, <2>2, <4>1
    <3>3. QED BY <3>1, <3>2
  <2>5. QED BY <2>3, <2>4
<1>10. LateIsStale'
  <2> SUFFICES ASSUME NEW r \in Runs, NEW i \in Slots, beats'[r][i].at = "late",
                      holder # Nobody, Working(holder)', Owner[holder] = Owner[r],
                      holder = r \/ InTime(r)
               PROVE  beats'[r][i].version < cursor'.version
    BY <1>2 DEF LateIsStale, InTime
  <2>1. Working(holder)
    BY <1>2 DEF Working
  <2>2. beats'[r][i] = beats[r][i] /\ beats[r][i].version \in Int
    BY <1>1 DEF IInv, TypeOK, Beat
  <2>3. QED
    BY <1>3, <2>1, <2>2 DEF IInv, LateIsStale
<1>11. QED BY <1>4, <1>5, <1>6, <1>7, <1>8, <1>9, <1>10, <1>7a DEF IInv

\* The runs in E end; X was spoiled until then.
Ends(E, X) ==
  /\ runs' \in [Runs -> Run] /\ beats' \in [Runs -> [Slots -> Beat]]
  /\ \A r \in E : runs'[r].at = "idle"
  /\ \A r \in Runs \ E : runs'[r] = runs[r] /\ beats'[r] = beats[r]
  /\ \A r \in E, i \in Slots :
       /\ beats'[r][i].at \in {"none", "late"}
       /\ beats'[r][i].at = "late" =>
            beats[r][i].at \in {"sent", "late"} /\ beats'[r][i].version = beats[r][i].version
  /\ overran' = overran /\ spoiled' = X \ E /\ raced' \subseteq raced

LEMMA OneEnds ==
  ASSUME TypeOK, NEW q \in Runs,
         runs' = [runs EXCEPT ![q] = IdleRun], beats' = [beats EXCEPT ![q] = Outlive(@)],
         NEW X, overran' = overran, spoiled' = X \ {q}, raced' = raced \ {q}
  PROVE  Ends({q}, X)
<1>1. beats[q] \in [Slots -> Beat]
  BY DEF TypeOK
<1>2. beats' \in [Runs -> [Slots -> Beat]] /\ beats'[q] = Outlive(beats[q])
      /\ \A r \in Runs \ {q} : beats'[r] = beats[r]
  BY <1>1, OutliveEffect DEF TypeOK
<1>3. runs' \in [Runs -> Run] /\ runs'[q] = IdleRun
      /\ \A r \in Runs \ {q} : runs'[r] = runs[r]
  BY RunUpdate, IdleTyped
<1>4. IdleRun.at = "idle"
  BY DEF IdleRun, NewRun
<1>5. QED
  BY <1>1, <1>2, <1>3, <1>4, OutliveEffect DEF Ends

LEMMA CrashEnds ==
  ASSUME TypeOK, NEW o \in Owners, Crash(o)
  PROVE  Ends({r \in Runs : Owner[r] = o}, spoiled)
<1> DEFINE E == {r \in Runs : Owner[r] = o}
<1>1. \A r \in Runs : beats[r] \in [Slots -> Beat] /\ Outlive(beats[r]) \in [Slots -> Beat]
  BY OutliveEffect DEF TypeOK
<1>2. beats' \in [Runs -> [Slots -> Beat]] /\ runs' \in [Runs -> Run]
  BY <1>1, IdleTyped DEF Crash, TypeOK
<1>3. \A r \in E : runs'[r] = IdleRun /\ beats'[r] = Outlive(beats[r])
  BY DEF Crash
<1>4. \A r \in Runs \ E : runs'[r] = runs[r] /\ beats'[r] = beats[r]
  BY DEF Crash
<1>5. IdleRun.at = "idle"
  BY DEF IdleRun, NewRun
<1>6. \A r \in E, i \in Slots :
        /\ beats'[r][i].at \in {"none", "late"}
        /\ beats'[r][i].at = "late" =>
             beats[r][i].at \in {"sent", "late"} /\ beats'[r][i].version = beats[r][i].version
  BY <1>1, <1>3, OutliveEffect
<1>7. overran' = overran /\ spoiled' = spoiled \ E /\ raced' \subseteq raced
  BY DEF Crash, TypeOK
<1>8. QED
  BY <1>2, <1>3, <1>4, <1>5, <1>6, <1>7 DEF Ends

LEMMA EndsKeepsBeats ==
  ASSUME IInv, NEW E \in SUBSET Runs, NEW X, Ends(E, X), clock' = clock,
         cursor'.version \in Int, cursor.version <= cursor'.version
  PROVE  StartsInPast' /\ SentBeats' /\ VersionsWritten'
<1>1. StartsInPast'
  BY DEF Ends, IInv, StartsInPast, Overrun, InTime
<1>2. SentBeats'
  <2> SUFFICES ASSUME NEW r \in Runs, NEW i \in Slots, beats'[r][i].at = "sent"
               PROVE  Working(r)' /\ beats'[r][i].until >= runs'[r].asOf + Duration
    BY DEF SentBeats
  <2>1. r \notin E
    BY DEF Ends
  <2>2. runs'[r] = runs[r] /\ beats'[r] = beats[r]
    BY <2>1 DEF Ends
  <2>3. QED
    BY <2>2 DEF IInv, SentBeats, Working
<1>3. VersionsWritten'
  <2> SUFFICES ASSUME NEW r \in Runs
               PROVE  /\ runs'[r].at = "running" => runs'[r].version <= cursor'.version
                      /\ \A i \in Slots :
                           /\ beats'[r][i].at \in {"sent", "late"} =>
                                beats'[r][i].version <= cursor'.version
                           /\ beats'[r][i].at = "ok" =>
                                beats'[r][i].version + 1 <= cursor'.version
    BY DEF VersionsWritten
  <2>1. /\ runs[r].at = "running" => runs[r].version <= cursor.version
        /\ \A i \in Slots :
             /\ beats[r][i].at \in {"sent", "late"} => beats[r][i].version <= cursor.version
             /\ beats[r][i].at = "ok" => beats[r][i].version + 1 <= cursor.version
    BY DEF IInv, VersionsWritten
  <2>2. cursor.version \in Int /\ (\A i \in Slots : beats[r][i].version \in Int)
        /\ runs[r].version \in Int
    BY DEF IInv, TypeOK, Cursor, Beat, Run
  <2>3. CASE r \in E
    BY <2>1, <2>2, <2>3 DEF Ends
  <2>4. CASE r \notin E
    <3>1. runs'[r] = runs[r] /\ beats'[r] = beats[r]
      BY <2>4 DEF Ends
    <3>2. QED
      BY <2>1, <2>2, <3>1
  <2>5. QED BY <2>3, <2>4
<1>4. QED BY <1>1, <1>2, <1>3

LEMMA EndsKeeps ==
  ASSUME IInv, NEW E \in SUBSET Runs, Ends(E, spoiled), UNCHANGED <<clock, cursor, holder>>
  PROVE  IInv'
<1>1. TypeOK' /\ ClaimIsHolders' /\ SpoiledByOverrun'
  BY DEF Ends, IInv, TypeOK, ClaimIsHolders, SpoiledByOverrun, InTime
<1>2. cursor.version \in Int
  BY DEF IInv, TypeOK, Cursor
<1>3. StartsInPast' /\ SentBeats' /\ VersionsWritten'
  BY <1>2, EndsKeepsBeats
<1>4. FreshHolds'
  <2> SUFFICES ASSUME NEW r \in Runs, Working(r)', ~Overrun(r)', r \notin spoiled'
               PROVE  holder' = r /\ cursor'.expires >= runs'[r].asOf + Duration
    BY DEF FreshHolds
  <2>1. r \notin E
    BY DEF Ends, Working
  <2>2. runs'[r] = runs[r] /\ r \notin spoiled
    BY <2>1 DEF Ends
  <2>3. QED
    BY <2>2 DEF IInv, FreshHolds, Working, Overrun
<1>5. LateIsStale'
  <2> SUFFICES ASSUME NEW r \in Runs, NEW i \in Slots, beats'[r][i].at = "late",
                      holder # Nobody, Working(holder)', Owner[holder] = Owner[r],
                      holder = r \/ InTime(r)
               PROVE  beats'[r][i].version < cursor'.version
    BY DEF LateIsStale, InTime, Ends
  <2>1. holder \in Runs
    BY DEF IInv, TypeOK
  <2>2. holder \notin E /\ Working(holder)
    BY <2>1 DEF Ends, Working
  <2>3. beats[r][i].at \in {"sent", "late"} /\ beats'[r][i].version = beats[r][i].version
    BY DEF Ends
  <2>4. CASE beats[r][i].at = "late"
    BY <2>2, <2>3, <2>4 DEF IInv, LateIsStale
  <2>5. CASE beats[r][i].at = "sent"
    <3>1. r \in E
      BY <2>5 DEF Ends
    <3>2. Working(r)
      BY <2>5 DEF IInv, SentBeats
    <3>3. r = holder
      BY <2>1, <3>2, FreshAlone
    <3>4. QED
      BY <2>2, <3>1, <3>3
  <2>6. QED BY <2>3, <2>4, <2>5
<1>6. QED BY <1>1, <1>3, <1>4, <1>5 DEF IInv

LEMMA FinishKeeps ==
  ASSUME IInv, NEW q \in Runs, Finish(q)
  PROVE  IInv'
<1>1. CASE runs[q].lost
  <2>1. Ends({q}, spoiled)
    BY <1>1, OneEnds DEF Finish, IInv
  <2>2. QED
    BY <2>1, EndsKeeps DEF Finish
<1>2. CASE ~runs[q].lost
  <2>1. /\ runs' \in [Runs -> Run] /\ runs'[q].at = "releasing" /\ runs'[q].asOf = runs[q].asOf
        /\ \A r \in Runs \ {q} : runs'[r] = runs[r]
    BY <1>2, GoesEffect DEF IInv, Finish
  <2>2. runs[q].at = "running" /\ UNCHANGED <<clock, cursor, holder, beats, overran, spoiled, raced>>
    BY <1>2 DEF Finish
  <2>3. \A r \in Runs : /\ runs'[r].asOf = runs[r].asOf /\ (Working(r)' <=> Working(r))
                        /\ runs'[r].at # "idle" => runs[r].at # "idle"
    BY <2>1, <2>2 DEF Working
  <2>4. TypeOK' /\ ClaimIsHolders' /\ SpoiledByOverrun'
    BY <2>1, <2>2 DEF IInv, TypeOK, ClaimIsHolders, SpoiledByOverrun, InTime
  <2>5. StartsInPast' /\ FreshHolds' /\ SentBeats'
    BY <2>2, <2>3 DEF IInv, StartsInPast, InTime, FreshHolds, SentBeats, Overrun
  <2>6. VersionsWritten'
    <3>1. \A r \in Runs : runs'[r].at = "running" => runs'[r] = runs[r]
      BY <2>1
    <3>2. QED
      BY <2>2, <3>1 DEF IInv, VersionsWritten
  <2>7. LateIsStale'
    BY <2>2, <2>3 DEF IInv, TypeOK, LateIsStale, InTime
  <2>8. QED BY <2>4, <2>5, <2>6, <2>7 DEF IInv
<1>3. QED BY <1>1, <1>2

LEMMA ReleaseKeeps ==
  ASSUME IInv, NEW q \in Runs, Release(q)
  PROVE  IInv'
<1>2. CASE cursor.claimedBy # Owner[q]
  <2>1. Ends({q}, spoiled)
    BY <1>2, OneEnds DEF Release, IInv
  <2>2. QED
    BY <1>2, <2>1, EndsKeeps DEF Release
<1>3. CASE cursor.claimedBy = Owner[q]
  <2> DEFINE X == IF Interferes(q) THEN spoiled \cup {holder} ELSE spoiled
  <2>0. Ends({q}, X)
    <3>1. spoiled' = X \ {q} /\ overran' = overran /\ raced' = raced \ {q}
      BY <1>3 DEF Release
    <3> HIDE DEF X
    <3>2. QED
      BY <3>1, OneEnds DEF Release, IInv
  <2>1. cursor' = Unclaimed(cursor.version + 1) /\ holder' = Nobody /\ clock' = clock
        /\ Working(q)
    BY <1>3 DEF Release, Working
  <2>2. /\ cursor' \in Cursor /\ cursor'.claimedBy = Nobody
        /\ cursor'.version \in Int /\ cursor.version <= cursor'.version
    BY <2>1 DEF IInv, TypeOK, Cursor, Unclaimed
  <2>1a. holder \in Runs /\ Owner[holder] = Owner[q]
    BY <1>3, LeaseAssumption DEF IInv, TypeOK, ClaimIsHolders
  <2>2a. /\ X \subseteq Runs /\ spoiled \subseteq X
         /\ \A r \in X : r \in spoiled \/ (Owner[r] = Owner[q] /\ ~InTime(q))
    BY <2>1a DEF IInv, TypeOK, Interferes, InTime
  <2>2b. Working(holder) => holder \in X \/ holder = q \/ InTime(q)
    BY <2>1a DEF Interferes, InTime
  <2> HIDE DEF X
  <2>3. TypeOK' /\ ClaimIsHolders' /\ LateIsStale' /\ SpoiledByOverrun'
    <3>1. TypeOK' /\ ClaimIsHolders' /\ LateIsStale'
      BY <2>0, <2>1, <2>2, <2>2a DEF Ends, IInv, TypeOK, ClaimIsHolders, LateIsStale
    <3>2. SpoiledByOverrun'
      BY <2>0, <2>2a DEF Ends, IInv, SpoiledByOverrun, InTime
    <3>3. QED BY <3>1, <3>2
  <2>4. StartsInPast' /\ SentBeats' /\ VersionsWritten'
    BY <2>0, <2>1, <2>2, EndsKeepsBeats
  <2>5. FreshHolds'
    <3> SUFFICES ASSUME NEW r \in Runs, Working(r)', ~Overrun(r)', r \notin spoiled'
                 PROVE  FALSE
      BY DEF FreshHolds
    <3>1. r # q
      BY <2>0 DEF Ends, Working
    <3>2. Working(r) /\ ~Overrun(r) /\ r \notin X /\ r \notin spoiled
      BY <2>0, <2>1, <2>2a, <3>1 DEF Ends, Working, Overrun
    <3>3. holder = r /\ Owner[r] = cursor.claimedBy
      BY <3>2, LeaseAssumption DEF IInv, FreshHolds, ClaimIsHolders
    <3>4. q = r
      BY <1>3, <2>1, <2>2b, <3>2, <3>3, FreshAlone
    <3>5. QED BY <3>1, <3>4
  <2>6. QED BY <2>3, <2>4, <2>5 DEF IInv
<1>4. QED BY <1>2, <1>3

LEMMA CrashKeeps ==
  ASSUME IInv, NEW o \in Owners, Crash(o)
  PROVE  IInv'
<1>1. Ends({r \in Runs : Owner[r] = o}, spoiled)
  BY CrashEnds DEF IInv
<1>2. QED
  BY <1>1, EndsKeeps DEF Crash

LEMMA TickKeeps ==
  ASSUME IInv, Tick
  PROVE  IInv'
<1>1. clock' = clock + 1 /\ clock \in Nat /\ UNCHANGED <<cursor, holder, runs, beats, spoiled, raced>>
      /\ overran' = overran \cup {Owner[r] : r \in {q \in Runs : Outlives(q)}}
  BY DEF Tick, IInv, TypeOK
<1>2. \A r \in Runs : runs[r].asOf \in Nat
  BY DEF IInv, TypeOK, Run
<1>3. TypeOK' /\ ClaimIsHolders' /\ SentBeats' /\ VersionsWritten' /\ LateIsStale'
  <2>1. overran' \subseteq Owners /\ overran \subseteq overran'
    BY <1>1, LeaseAssumption DEF IInv, TypeOK
  <2>2. TypeOK' /\ ClaimIsHolders' /\ SentBeats' /\ VersionsWritten'
    BY <1>1, <2>1 DEF IInv, TypeOK, ClaimIsHolders, SentBeats, VersionsWritten, Working
  <2>3. LateIsStale'
    BY <1>1, <2>1 DEF IInv, LateIsStale, InTime, Working
  <2>4. QED BY <2>2, <2>3
<1>4. StartsInPast'
  BY <1>1, <1>2, LeaseAssumption DEF IInv, StartsInPast, InTime, Outlives, Overrun
<1>4a. SpoiledByOverrun'
  <2>1. \A r \in spoiled' : ~InTime(r)'
    BY <1>1 DEF IInv, SpoiledByOverrun, InTime
  <2>2. ASSUME ShortJobs PROVE overran' = {}
    <3>1. \A r \in Runs : ~Outlives(r)
      BY <1>1, <1>2, <2>2, LeaseAssumption DEF Tick, Timely, ShortJobs, Outlives
    <3>2. QED
      BY <1>1, <2>2, <3>1 DEF IInv, SpoiledByOverrun
  <2>3. QED BY <2>1, <2>2 DEF SpoiledByOverrun
<1>5. FreshHolds'
  <2>1. \A r \in Runs : ~Overrun(r)' => ~Overrun(r)
    BY <1>1, <1>2, LeaseAssumption DEF Overrun
  <2>2. QED
    BY <1>1, <2>1 DEF IInv, FreshHolds, Working
<1>6. QED BY <1>3, <1>4, <1>4a, <1>5 DEF IInv

----------------------------------------------------------------------------

LEMMA InitKeeps == Init => IInv
<1> SUFFICES ASSUME Init PROVE IInv
  OBVIOUS
<1>1. \A r \in Runs : runs[r] = IdleRun /\ \A i \in Slots : beats[r][i] = NoBeat
  BY DEF Init
<1>2. IdleRun.at = "idle" /\ NoBeat.at = "none"
  BY DEF IdleRun, NewRun, NoBeat
<1>3. NoCursor \in Cursor /\ NoCursor.claimedBy = Nobody
  BY DEF NoCursor, Cursor
<1>4. TypeOK
  BY <1>3, IdleTyped DEF Init, TypeOK
<1>5. QED
  BY <1>1, <1>2, <1>3, <1>4 DEF Init, IInv, ClaimIsHolders, StartsInPast, SpoiledByOverrun, FreshHolds,
     SentBeats, VersionsWritten, LateIsStale, Working

LEMMA StepKeeps ==
  ASSUME IInv, [Next]_vars
  PROVE  IInv'
<1>1. ASSUME NEW q \in Runs, RunStep(q) PROVE IInv'
  BY <1>1, StartKeeps, SkipKeeps, AcquireKeeps, ReadVersionKeeps, FinishKeeps, ReleaseKeeps,
     SendBeatKeeps, ExecuteBeatKeeps, AnswerBeatKeeps DEF RunStep
<1>2. ASSUME NEW o \in Owners, Crash(o) PROVE IInv'
  BY <1>2, CrashKeeps
<1>3. CASE UNCHANGED vars
  <2>1. UNCHANGED <<clock, cursor, holder, runs, beats, overran, spoiled, raced>>
    BY <1>3 DEF vars, history
  <2>2. TypeOK' /\ ClaimIsHolders' /\ StartsInPast' /\ SpoiledByOverrun'
    BY <2>1 DEF IInv, TypeOK, ClaimIsHolders, StartsInPast, SpoiledByOverrun, InTime, Overrun
  <2>3. FreshHolds' /\ SentBeats' /\ VersionsWritten' /\ LateIsStale'
    BY <2>1 DEF IInv, FreshHolds, SentBeats, VersionsWritten, LateIsStale, InTime, Working,
       Overrun
  <2>4. QED BY <2>2, <2>3 DEF IInv
<1>4. QED
  BY <1>1, <1>2, <1>3, TickKeeps DEF Next

\* The invariant: who is fresh has the claim, and no heartbeat under way can
\* touch the claim of another run.
THEOREM LeaseInvariant == Spec => []IInv
<1>1. IInv /\ [Next]_vars => IInv'
  BY StepKeeps
<1>2. QED
  BY <1>1, InitKeeps, PTL DEF Spec

\* The lease is well typed in every reachable state.
THEOREM LeaseTypeCorrect == Spec => []TypeOK
<1>1. IInv => TypeOK
  BY DEF IInv
<1>2. QED
  BY <1>1, LeaseInvariant, PTL

\* Two runs of a job work at once only when one of them has outlived the lease
\* it was started with, or another run of their process has meddled with its
\* claim after a run there outlived its lease.
THEOREM FreshRunsAreAlone == Spec => []NoFreshOverlap
<1>1. IInv => NoFreshOverlap
  BY DEF IInv, FreshHolds, NoFreshOverlap
<1>2. QED
  BY <1>1, LeaseInvariant, PTL

\* Jobs that end before their lease never overlap.
THEOREM ShortJobsNeverOverlap ==
  ASSUME ShortJobs
  PROVE  Spec => []NoOverlap
<1>1. IInv => NoOverlap
  BY DEF IInv, StartsInPast, SpoiledByOverrun, InTime, FreshHolds, NoOverlap, Working
<1>2. QED
  BY <1>1, LeaseInvariant, PTL

----------------------------------------------------------------------------
(* A loss that is reported is real, unless a second heartbeat of the run   *)
(* was under way when one renewed, or its own process spoiled its claim.   *)

UnderWay(r, i) == beats[r][i].at \in {"sent", "ok", "lost"}

Renewing(r) == runs[r].at \in {"running", "releasing"}

\* A run that has not read its version yet has neither sent a heartbeat nor
\* been told of a loss.
StartsAfresh(r) == ~Renewing(r) => ~runs[r].lost /\ \A i \in Slots : ~UnderWay(r, i)

\* The run that has the claim knows the version of the row, or will when its
\* heartbeat is answered.
KnowsVersion(r) ==
  /\ ~runs[r].lost
  /\ (\A i \in Slots : beats[r][i].at # "ok") => runs[r].version = cursor.version
  /\ \A i \in Slots :
       /\ beats[r][i].at # "lost"
       /\ beats[r][i].at = "sent" => beats[r][i].version = cursor.version
       /\ beats[r][i].at = "ok" =>
            /\ beats[r][i].version + 1 = cursor.version
            /\ \A j \in Slots \ {i} : ~UnderWay(r, j)

Undisturbed(r) == r \notin spoiled /\ r \notin raced

HolderKnows(r) ==
  StartsAfresh(r) /\ (holder = r /\ Renewing(r) /\ Undisturbed(r) => KnowsVersion(r))

\* A run is untouched by what the others do, unless they move the version of
\* its claim.
LEMMA OthersKeep ==
  ASSUME NEW r \in Runs, HolderKnows(r), runs'[r] = runs[r], beats'[r] = beats[r],
         Undisturbed(r)' => Undisturbed(r),
         holder' = r /\ Undisturbed(r)' => holder = r /\ cursor'.version = cursor.version
  PROVE  HolderKnows(r)'
BY DEF HolderKnows, StartsAfresh, KnowsVersion, Renewing, UnderWay

\* A run that ends leaves nothing but late heartbeats.
LEMMA EndKeeps ==
  ASSUME TypeOK, NEW r \in Runs, runs'[r] = IdleRun, beats'[r] = Outlive(beats[r])
  PROVE  HolderKnows(r)'
<1>1. \A i \in Slots : beats'[r][i].at \in {"none", "late"}
  BY OutliveEffect DEF TypeOK
<1>2. runs'[r].at = "idle" /\ ~runs'[r].lost
  BY DEF IdleRun, NewRun
<1>3. QED
  BY <1>1, <1>2 DEF HolderKnows, StartsAfresh, Renewing, UnderWay

LEMMA StartKnows ==
  ASSUME TypeOK, NEW q \in Runs, NEW r \in Runs, HolderKnows(r), Start(q) \/ Skip(q)
  PROVE  HolderKnows(r)'
<1>1. CASE r # q
  BY <1>1, OthersKeep DEF Start, Skip, TypeOK, Undisturbed, history
<1>2. CASE r = q
  <2>1. runs'[q].at \in {"idle", "asked"} /\ ~runs'[q].lost /\ beats' = beats
    BY DEF Start, Skip, IdleRun, NewRun, TypeOK
  <2>2. ~Renewing(q)
    BY DEF Start, Skip, Renewing
  <2>3. QED
    BY <1>2, <2>1, <2>2 DEF HolderKnows, StartsAfresh, Renewing, UnderWay
<1>3. QED BY <1>1, <1>2

LEMMA AcquireKnows ==
  ASSUME TypeOK, NEW q \in Runs, NEW r \in Runs, HolderKnows(r), Acquire(q)
  PROVE  HolderKnows(r)'
<1>1. CASE r # q
  BY <1>1, OthersKeep DEF Acquire, Goes, TypeOK, Undisturbed, history
<1>2. CASE r = q
  <2>1. runs'[q].at = "claimed" /\ runs'[q].lost = runs[q].lost /\ beats' = beats
    BY DEF Acquire, Goes, TypeOK, Run
  <2>2. ~Renewing(q)
    BY DEF Acquire, Renewing
  <2>3. QED
    BY <1>2, <2>1, <2>2 DEF HolderKnows, StartsAfresh, Renewing, UnderWay
<1>3. QED BY <1>1, <1>2

LEMMA ReadVersionKnows ==
  ASSUME TypeOK, NEW q \in Runs, NEW r \in Runs, HolderKnows(r), ReadVersion(q)
  PROVE  HolderKnows(r)'
<1>1. CASE r # q
  BY <1>1, OthersKeep DEF ReadVersion, TypeOK, Undisturbed, history
<1>2. CASE r = q
  <2>1. /\ runs'[q].at = "running" /\ runs'[q].lost = runs[q].lost
        /\ runs'[q].version = cursor.version
        /\ UNCHANGED <<cursor, beats>>
    BY DEF ReadVersion, TypeOK, Run
  <2>2. ~runs[q].lost /\ \A i \in Slots : ~UnderWay(q, i)
    BY <1>2 DEF ReadVersion, HolderKnows, StartsAfresh, Renewing
  <2>3. KnowsVersion(q)' /\ StartsAfresh(q)'
    BY <2>1, <2>2 DEF KnowsVersion, StartsAfresh, Renewing, UnderWay
  <2>4. QED
    BY <1>2, <2>3 DEF HolderKnows
<1>3. QED BY <1>1, <1>2

\* Unless a heartbeat's answer is on its way, the version the run knows is the
\* row's.
LEMMA SendBeatKnows ==
  ASSUME TypeOK, NEW q \in Runs, NEW r \in Runs, HolderKnows(r),
         NEW j \in Slots, SendBeat(q, j)
  PROVE  HolderKnows(r)'
<1>1. CASE r # q
  BY <1>1, OthersKeep DEF SendBeat, TypeOK, Undisturbed
<1>2. CASE r = q
  <2>1. /\ beats'[q][j].at = "sent" /\ beats'[q][j].version = runs[q].version
        /\ \A i \in Slots \ {j} : beats'[q][i] = beats[q][i]
    <3>1. /\ beats'[q][j] = [at |-> "sent", version |-> runs[q].version,
                             until |-> Now(q) + Duration]
          /\ \A s \in Runs, i \in Slots : s # q \/ i # j => beats'[s][i] = beats[s][i]
      BY SendBeatEffect
    <3>2. QED
      BY <3>1
  <2>2. /\ runs'[q].at = "running" /\ runs'[q].lost = runs[q].lost
        /\ runs'[q].version = runs[q].version
        /\ UNCHANGED <<cursor, holder>> /\ Renewing(q) /\ beats[q][j].at = "none"
    BY DEF SendBeat, TypeOK, Run, Renewing
  <2>3. ASSUME Undisturbed(q)'
        PROVE  Undisturbed(q) /\ \A i \in Slots : beats[q][i].at # "ok"
    BY <2>3 DEF SendBeat, Undisturbed
  <2>4. ASSUME holder = q, Undisturbed(q)' PROVE KnowsVersion(q)'
    <3>0. KnowsVersion(q) /\ \A i \in Slots : beats[q][i].at # "ok"
      BY <1>2, <2>2, <2>3, <2>4 DEF HolderKnows
    <3>1. ~runs[q].lost /\ runs[q].version = cursor.version
      BY <3>0 DEF KnowsVersion
    <3>2. QED
      BY <2>1, <2>2, <3>0, <3>1 DEF KnowsVersion, UnderWay
  <2>5. QED
    BY <1>2, <2>2, <2>4 DEF HolderKnows, StartsAfresh, Renewing
<1>3. QED BY <1>1, <1>2

\* Only the holder's own heartbeat renews its claim, and it always does.
LEMMA ExecuteBeatKnows ==
  ASSUME IInv, NEW q \in Runs, NEW r \in Runs, HolderKnows(r),
         NEW j \in Slots, ExecuteBeat(q, j)
  PROVE  HolderKnows(r)'
<1> DEFINE beat == beats[q][j]
<1>1. /\ TypeOK /\ beat.at \in {"sent", "late"} /\ UNCHANGED <<clock, holder, runs>>
      /\ cursor.version \in Int /\ beat \in Beat
  BY DEF ExecuteBeat, IInv, TypeOK, Cursor
<1>2. /\ \A s \in Runs, i \in Slots : s # q \/ i # j => beats'[s][i] = beats[s][i]
      /\ beats' \in [Runs -> [Slots -> Beat]]
      /\ Extends(q, beat) => cursor'.version = cursor.version + 1
      /\ ~Extends(q, beat) => cursor' = cursor
  BY <1>1, ExecuteBeatEffect DEF Extends
<1>3. /\ beat.at = "late" => beats'[q][j].at = "none"
      /\ beat.at = "sent" => /\ beats'[q][j].version = beat.version
                             /\ beats'[q][j].at = IF Extends(q, beat) THEN "ok" ELSE "lost"
  <2>1. beats'[q][j] = IF beat.at = "late" THEN NoBeat
                       ELSE [beat EXCEPT !.at = IF Extends(q, beat) THEN "ok" ELSE "lost"]
    BY <1>1 DEF ExecuteBeat, TypeOK
  <2>2. QED
    BY <1>1, <2>1 DEF NoBeat, Beat
<1>3a. ASSUME Undisturbed(r)'
       PROVE  /\ Undisturbed(r)
              /\ holder = r /\ Renewing(r) /\ Extends(q, beat) => q = r \/ InTime(q)
  BY <1>1, <1>3a DEF ExecuteBeat, Undisturbed, Interferes, InTime, Renewing, Working
<1>4. ASSUME holder = r, Renewing(r), Undisturbed(r)', Extends(q, beat)
      PROVE  q = r /\ beat.at = "sent"
  <2>1. Owner[q] = Owner[r] /\ beat.version = cursor.version /\ Working(r)
    BY <1>4, LeaseAssumption DEF Extends, IInv, ClaimIsHolders, Working, Renewing
  <2>1a. q = r \/ InTime(q)
    BY <1>3a, <1>4
  <2>2. beat.at # "late"
    BY <1>1, <1>4, <2>1, <2>1a, LeaseAssumption DEF IInv, LateIsStale
  <2>3. Working(q)
    BY <1>1, <2>2 DEF IInv, SentBeats
  <2>4. QED
    BY <1>1, <1>4, <2>1, <2>1a, <2>2, <2>3, FreshAlone
<1>5. CASE r # q
  <2>1. beats'[r] = beats[r]
    BY <1>1, <1>2, <1>5 DEF TypeOK
  <2>2. CASE ~Renewing(r)
    BY <1>1, <2>1, <2>2 DEF HolderKnows, StartsAfresh, Renewing, UnderWay
  <2>3. CASE Renewing(r)
    BY <1>1, <1>2, <1>3a, <1>4, <1>5, <2>1, <2>3, OthersKeep
  <2>4. QED BY <2>2, <2>3
<1>6. CASE r = q
  <2>1. StartsAfresh(q)'
    <3>1. CASE Renewing(q)
      BY <1>1, <3>1 DEF StartsAfresh, Renewing
    <3>2. CASE ~Renewing(q)
      <4>1. beat.at = "late" /\ \A i \in Slots : ~UnderWay(q, i)
        BY <1>1, <1>6, <3>2 DEF HolderKnows, StartsAfresh, UnderWay
      <4>2. \A i \in Slots : ~UnderWay(q, i)'
        BY <1>2, <1>3, <4>1 DEF UnderWay
      <4>3. QED
        BY <1>1, <1>6, <4>2, <3>2 DEF HolderKnows, StartsAfresh, Renewing
    <3>3. QED BY <3>1, <3>2
  <2>2. ASSUME holder = q, Renewing(q), Undisturbed(q)' PROVE KnowsVersion(q)'
    <3>1. KnowsVersion(q)
      BY <1>3a, <1>6, <2>2 DEF HolderKnows
    <3>2. CASE beat.at = "late"
      <4>1. ~Extends(q, beat)
        BY <1>4, <1>6, <2>2, <3>2
      <4>2. QED
        BY <1>1, <1>2, <1>3, <3>1, <3>2, <4>1 DEF KnowsVersion, UnderWay
    <3>3. CASE beat.at = "sent"
      <4>1. Extends(q, beat)
        BY <2>2, <3>1, <3>3, LeaseAssumption DEF Extends, IInv, ClaimIsHolders, KnowsVersion
      <4>2. \A i \in Slots \ {j} : ~UnderWay(q, i)'
        <5>1. \A i \in Slots \ {j} : beats[q][i].at # "sent"
          BY <2>2, <4>1 DEF ExecuteBeat, Undisturbed
        <5>2. \A i \in Slots \ {j} : beats[q][i].at \notin {"ok", "lost"}
          BY <3>1, <3>3 DEF KnowsVersion, UnderWay
        <5>3. QED
          BY <1>2, <5>1, <5>2 DEF UnderWay
      <4>3. /\ beats'[q][j].at = "ok"
            /\ beats'[q][j].version + 1 = cursor'.version
        BY <1>2, <1>3, <3>3, <4>1 DEF Extends
      <4>4. QED
        BY <1>1, <3>1, <4>2, <4>3 DEF KnowsVersion, UnderWay
    <3>4. QED BY <1>1, <3>2, <3>3
  <2>3. QED
    BY <1>1, <1>6, <2>1, <2>2 DEF HolderKnows, Renewing
<1>7. QED BY <1>5, <1>6

LEMMA AnswerBeatKnows ==
  ASSUME TypeOK, NEW q \in Runs, NEW r \in Runs, HolderKnows(r),
         NEW j \in Slots, AnswerBeat(q, j)
  PROVE  HolderKnows(r)'
<1> DEFINE beat == beats[q][j]
<1>1. CASE r # q
  BY <1>1, OthersKeep DEF AnswerBeat, TypeOK, Undisturbed, history
<1>2. CASE r = q
  <2>1. /\ beat.at \in {"ok", "lost"} /\ UNCHANGED <<cursor, holder>> /\ beat \in Beat
    BY DEF AnswerBeat, TypeOK
  <2>2. /\ beats'[q][j].at = "none" /\ runs'[q].at = runs[q].at
        /\ \A i \in Slots \ {j} : beats'[q][i] = beats[q][i]
    BY AnswerBeatEffect
  <2>4. Renewing(q)
    BY <1>2, <2>1 DEF HolderKnows, StartsAfresh, UnderWay
  <2>5. ASSUME holder = q, Undisturbed(q)' PROVE KnowsVersion(q)'
    <3>1. KnowsVersion(q)
      BY <1>2, <2>4, <2>5 DEF HolderKnows, AnswerBeat, Undisturbed, history
    <3>2. beat.at = "ok" /\ beat.version + 1 = cursor.version
      BY <2>1, <3>1 DEF KnowsVersion
    <3>2a. \A i \in Slots \ {j} : ~UnderWay(q, i)
      BY <3>1, <3>2 DEF KnowsVersion
    <3>3. runs'[q].version = cursor'.version /\ runs'[q].lost = runs[q].lost
      BY <2>1, <3>2 DEF AnswerBeat, NextVersion, TypeOK, Run
    <3>4. QED
      BY <2>2, <3>1, <3>2a, <3>3 DEF KnowsVersion, UnderWay
  <2>6. QED
    BY <1>2, <2>1, <2>2, <2>4, <2>5 DEF HolderKnows, StartsAfresh, Renewing
<1>3. QED BY <1>1, <1>2

LEMMA FinishKnows ==
  ASSUME TypeOK, NEW q \in Runs, NEW r \in Runs, HolderKnows(r), Finish(q)
  PROVE  HolderKnows(r)'
<1>1. CASE r # q
  BY <1>1, OthersKeep DEF Finish, Goes, TypeOK, Undisturbed
<1>2. CASE r = q /\ runs[q].lost
  BY <1>2, EndKeeps DEF Finish, TypeOK
<1>3. CASE r = q /\ ~runs[q].lost
  <2>1. /\ runs'[q].at = "releasing" /\ runs'[q].lost = runs[q].lost
        /\ runs'[q].version = runs[q].version /\ Renewing(q)
        /\ UNCHANGED <<cursor, holder, beats, spoiled, raced>>
    BY <1>3 DEF Finish, Goes, TypeOK, Run, Renewing
  <2>2. QED
    BY <1>3, <2>1 DEF HolderKnows, StartsAfresh, KnowsVersion, Renewing, UnderWay, Undisturbed
<1>4. QED BY <1>1, <1>2, <1>3

LEMMA ReleaseKnows ==
  ASSUME TypeOK, NEW q \in Runs, NEW r \in Runs, HolderKnows(r), Release(q)
  PROVE  HolderKnows(r)'
<1>1. CASE r # q
  BY <1>1, OthersKeep, LeaseAssumption DEF Release, TypeOK, Undisturbed
<1>2. CASE r = q
  BY <1>2, EndKeeps DEF Release, TypeOK
<1>3. QED BY <1>1, <1>2

LEMMA CrashKnows ==
  ASSUME TypeOK, NEW o \in Owners, NEW r \in Runs, HolderKnows(r), Crash(o)
  PROVE  HolderKnows(r)'
<1>1. CASE Owner[r] = o
  BY <1>1, EndKeeps DEF Crash
<1>2. CASE Owner[r] # o
  BY <1>2, OthersKeep DEF Crash, Undisturbed
<1>3. QED BY <1>1, <1>2

LEMMA StepKnows ==
  ASSUME IInv, NEW r \in Runs, HolderKnows(r),
         [Next]_vars
  PROVE  HolderKnows(r)'
<1>1. TypeOK
  BY DEF IInv
<1>2. ASSUME NEW q \in Runs, RunStep(q) PROVE HolderKnows(r)'
  BY <1>1, <1>2, StartKnows, AcquireKnows, ReadVersionKnows, FinishKnows, ReleaseKnows,
     SendBeatKnows, ExecuteBeatKnows, AnswerBeatKnows DEF RunStep
<1>3. ASSUME NEW o \in Owners, Crash(o) PROVE HolderKnows(r)'
  BY <1>1, <1>3, CrashKnows
<1>4. CASE Tick \/ UNCHANGED vars
  BY <1>4, OthersKeep DEF Tick, vars, history, Undisturbed
<1>5. QED
  BY <1>2, <1>3, <1>4 DEF Next

\* A run is told of a loss only when it has lost its claim, its own process has
\* spoiled it, or two of its heartbeats were under way at once (leases.ts:234).
THEOREM LossesAreReal == Spec => []LossIsReal
<1> DEFINE Knows == \A r \in Runs : HolderKnows(r)
<1>1. Init => Knows
  <2>1. IdleRun.at = "idle" /\ ~IdleRun.lost /\ NoBeat.at = "none"
    BY DEF IdleRun, NewRun, NoBeat
  <2>1a. ASSUME Init
         PROVE  /\ \A r \in Runs : runs[r] = IdleRun
                /\ \A r \in Runs : \A i \in Slots : beats[r][i] = NoBeat
    BY <2>1a DEF Init
  <2>2. Init => \A r \in Runs : /\ ~Renewing(r) /\ ~runs[r].lost
                              /\ \A i \in Slots : ~UnderWay(r, i)
    BY <2>1, <2>1a DEF Renewing, UnderWay
  <2>3. QED
    BY <2>2 DEF HolderKnows, StartsAfresh
<1>2. IInv /\ Knows /\ [Next]_vars => Knows'
  <2> SUFFICES ASSUME IInv, Knows, [Next]_vars, NEW r \in Runs
               PROVE  HolderKnows(r)'
    OBVIOUS
  <2>1. QED
    BY StepKnows
<1>3. Knows => LossIsReal
  BY DEF HolderKnows, StartsAfresh, KnowsVersion, LossIsReal, Undisturbed
<1> HIDE DEF Knows
<1>4. QED
  BY <1>1, <1>2, <1>3, LeaseInvariant, PTL DEF Spec

=============================================================================
