------------------------ MODULE TradingDecisionsProofs ------------------------
(***************************************************************************)
(* Proofs about what decides on trades and what watches over the books,    *)
(* each part for itself and for any number of its actors.                  *)
(*  - Candidates: no scan passes over an anchor undecided, whether scans,  *)
(*    by cron or by hand, overlap, fail, conflict or die.  The cursor is   *)
(*    written from what the run read at its start, and may even go back,   *)
(*    so the proof follows what a run knows from there on.                 *)
(*  - The API, whatever is lost: a command sent again is told so, an       *)
(*    assignment changes in the version its operator looked at, and no key *)
(*    is carried out twice.                                                *)
(*  - Reconciliation: the cache is what the books say; what is found is    *)
(*    damage, an exit that filled in parts or a position without a value;  *)
(*    and R-003 refuses only when a job committed between its queries or a *)
(*    candle is not booked yet.                                            *)
(***************************************************************************)
EXTENDS CandidateScan, TradingApi, Reconciliation, TLAPS

----------------------------------------------------------------------------
(* Candidate generation                                                    *)

\* There is a strategy; anchors are some ticks apart; the bounds are numbers.
ScanConstants ==
  /\ Strategies # {} /\ TicksPerAnchor \in Nat \ {0}
  /\ MaxTime \in Nat /\ MaxRevisions \in Nat

ScanRun == [at : {"idle", "next", "assemble", "lookup", "store", "cursor"}, asOf : 0..MaxTime,
            anchor : {-1} \cup Anchors, todo : SUBSET Strategies, key : CandidateKeys, revision : 0..MaxRevisions]
Candidate == [at : -1..MaxTime, revision : 0..MaxRevisions]

ScanTypes ==
  /\ now \in 0..MaxTime /\ stored \in Anchors
  /\ data \in 0..MaxRevisions /\ occupied \in BOOLEAN
  /\ cands \in [CandidateKeys -> Candidate]
  /\ refused \in SUBSET CandidateKeys /\ skipped \in SUBSET CandidateKeys /\ conflicts \in SUBSET CandidateKeys
  /\ cursor \in [Strategies -> {-1} \cup Anchors]
  /\ scans \in [ScanRuns -> ScanRun]

\* A decision on the anchor, or on a later one, is recorded.
Recorded(k) == Stored(k) \/ k \in refused \cup skipped
Handled(s, anchor) == \E a \in Anchors : a >= anchor /\ Recorded(<<s, a>>)

\* What a run has in hand: its anchor was stored and closed when it started, the
\* snapshot it looks up is of this anchor or a later one, and it comes to the
\* cursor only when the anchor is decided.
RunsKnow ==
  \A r \in ScanRuns : scans[r].at # "idle" =>
    /\ scans[r].anchor \in Anchors
    /\ scans[r].anchor <= stored /\ scans[r].anchor <= AnchorAt(scans[r].asOf)
    /\ scans[r].at \in {"lookup", "store"} => scans[r].anchor <= scans[r].key[2]
    /\ scans[r].at = "cursor" => Handled(scans[r].key[1], scans[r].anchor)

ScanIInv == ScanTypes /\ RunsKnow /\ CursorIsHonest

----------------------------------------------------------------------------
(* Anchors                                                                 *)

\* Later ticks have no earlier anchor.
LEMMA AnchorsAscend ==
  ASSUME TicksPerAnchor \in Nat \ {0}, NEW x \in Nat, NEW y \in Nat, x <= y
  PROVE  x \div TicksPerAnchor \in Nat /\ x \div TicksPerAnchor <= y \div TicksPerAnchor
<1> DEFINE p == x \div TicksPerAnchor
           q == y \div TicksPerAnchor
<1>1. /\ p \in Int /\ q \in Int
      /\ TicksPerAnchor * p <= x /\ x < TicksPerAnchor * p + TicksPerAnchor
      /\ TicksPerAnchor * q <= y /\ y < TicksPerAnchor * q + TicksPerAnchor
  OBVIOUS
<1> HIDE DEF p, q
<1>2. TicksPerAnchor * p < TicksPerAnchor * (q + 1)
  BY <1>1
<1>3. 0 < TicksPerAnchor * (p + 1)
  BY <1>1
<1>4. p < q + 1 /\ 0 < p + 1
  BY <1>1, <1>2, <1>3
<1>5. QED
  BY <1>1, <1>4 DEF p, q

LEMMA AnchorsAreNumbers ==
  ASSUME ScanConstants
  PROVE  /\ Anchors \subseteq Nat /\ 0 \in Anchors
         /\ \A t \in 0..MaxTime : AnchorAt(t) \in Anchors
         /\ \A a \in Anchors, b \in Nat : b <= a => b \in Anchors
<1> DEFINE last == MaxTime \div TicksPerAnchor
<1>1. last \in Nat
  BY AnchorsAscend DEF ScanConstants
<1>2. \A t \in 0..MaxTime : AnchorAt(t) \in Nat /\ AnchorAt(t) <= last
  BY AnchorsAscend DEF ScanConstants, AnchorAt
<1>3. Anchors = 0..last
  BY DEF Anchors
<1> HIDE DEF last
<1>4. QED
  BY <1>1, <1>2, <1>3

LEMMA KeyIsPair ==
  ASSUME NEW k \in CandidateKeys
  PROVE  k[1] \in Strategies /\ k[2] \in Anchors /\ k = <<k[1], k[2]>>
BY DEF CandidateKeys

LEMMA PairIsKey ==
  ASSUME NEW s \in Strategies, NEW a \in Anchors
  PROVE  <<s, a>> \in CandidateKeys /\ <<s, a>>[1] = s /\ <<s, a>>[2] = a
BY DEF CandidateKeys

LEMMA NoScanTyped ==
  ASSUME ScanConstants
  PROVE  NoScan \in ScanRun /\ NoScan.at = "idle"
<1>1. AnyKey \in CandidateKeys
  <2>1. \E k \in CandidateKeys : TRUE
    BY AnchorsAreNumbers, PairIsKey DEF ScanConstants
  <2>2. QED
    BY <2>1 DEF AnyKey
<1> HIDE DEF AnyKey
<1>2. 0 \in 0..MaxTime /\ 0 \in 0..MaxRevisions /\ -1 \in {-1} \cup Anchors /\ {} \in SUBSET Strategies
  BY DEF ScanConstants
<1>3. QED
  BY <1>1, <1>2 DEF NoScan, ScanRun

----------------------------------------------------------------------------
(* What no step takes away                                                 *)

\* What is recorded after the step.
RecordedNext(k) == cands'[k] # NoCandidate \/ k \in refused' \cup skipped'

\* Records are only added, and candles only come.
Grows ==
  /\ \A k \in CandidateKeys : Recorded(k) => RecordedNext(k)
  /\ stored <= stored'

\* One run moves to x; the rest of the system only grows.
LEMMA OneMoves ==
  ASSUME ScanConstants, ScanIInv, ScanTypes', Grows, NEW r \in ScanRuns, NEW x \in ScanRun,
         scans' = [scans EXCEPT ![r] = x],
         x.at # "idle" =>
           /\ x.anchor \in Anchors /\ x.anchor <= stored' /\ x.anchor <= AnchorAt(x.asOf)
           /\ x.at \in {"lookup", "store"} => x.anchor <= x.key[2]
           /\ x.at = "cursor" => \E a \in Anchors : a >= x.anchor /\ RecordedNext(<<x.key[1], a>>)
  PROVE  RunsKnow'
<1> SUFFICES ASSUME NEW q \in ScanRuns, scans'[q].at # "idle"
             PROVE  /\ scans'[q].anchor \in Anchors
                    /\ scans'[q].anchor <= stored' /\ scans'[q].anchor <= AnchorAt(scans'[q].asOf)
                    /\ scans'[q].at \in {"lookup", "store"} => scans'[q].anchor <= scans'[q].key[2]
                    /\ scans'[q].at = "cursor" =>
                         \E a \in Anchors : a >= scans'[q].anchor /\ RecordedNext(<<scans'[q].key[1], a>>)
  BY DEF RunsKnow, Handled, Recorded, RecordedNext, Stored
<1>1. CASE q = r
  <2>1. scans'[q] = x
    BY <1>1 DEF ScanIInv, ScanTypes
  <2>2. QED
    BY <2>1
<1>2. CASE q # r
  <2>1. scans'[q] = scans[q] /\ scans[q] \in ScanRun
    BY <1>2 DEF ScanIInv, ScanTypes
  <2>2. /\ scans[q].anchor \in Anchors
        /\ scans[q].anchor <= stored /\ scans[q].anchor <= AnchorAt(scans[q].asOf)
        /\ scans[q].at \in {"lookup", "store"} => scans[q].anchor <= scans[q].key[2]
        /\ scans[q].at = "cursor" => Handled(scans[q].key[1], scans[q].anchor)
    BY <2>1 DEF ScanIInv, RunsKnow
  <2>3. scans[q].anchor \in Nat /\ stored \in Nat /\ stored' \in Nat /\ stored <= stored'
    BY <2>2, AnchorsAreNumbers DEF ScanIInv, ScanTypes, Grows
  <2>4. ASSUME scans[q].at = "cursor"
        PROVE  \E a \in Anchors : a >= scans[q].anchor /\ RecordedNext(<<scans[q].key[1], a>>)
    <3>1. PICK a \in Anchors : a >= scans[q].anchor /\ Recorded(<<scans[q].key[1], a>>)
      BY <2>2, <2>4 DEF Handled
    <3>2. <<scans[q].key[1], a>> \in CandidateKeys
      BY <2>1, KeyIsPair, PairIsKey DEF ScanRun
    <3>3. QED
      BY <3>1, <3>2 DEF Grows
  <2>5. scans[q].anchor <= stored'
    BY <2>2, <2>3
  <2>6. QED
    BY <2>1, <2>2, <2>4, <2>5, Zenon
<1>3. QED
  BY <1>1, <1>2

\* A cursor that stays is as honest as it was.
LEMMA CursorStays ==
  ASSUME ScanConstants, ScanIInv, Grows, cursor' = cursor
  PROVE  CursorIsHonest'
<1> SUFFICES ASSUME NEW s \in Strategies, cursor[s] >= 0
             PROVE  \E a \in Anchors : a >= cursor[s] /\ RecordedNext(<<s, a>>)
  BY DEF CursorIsHonest, RecordedNext, Stored
<1>1. PICK a \in Anchors : a >= cursor[s] /\ Recorded(<<s, a>>)
  BY DEF ScanIInv, CursorIsHonest, Recorded
<1>2. <<s, a>> \in CandidateKeys
  BY PairIsKey
<1>3. QED
  BY <1>1, <1>2 DEF Grows

----------------------------------------------------------------------------
(* The steps of a run                                                      *)

\* A run that is under way, with what it knows.
LEMMA RunFields ==
  ASSUME ScanConstants, ScanIInv, NEW r \in ScanRuns
  PROVE  /\ scans[r] \in ScanRun /\ scans[r].key \in CandidateKeys /\ scans[r].asOf \in 0..MaxTime
         /\ scans[r].at # "idle" =>
              /\ scans[r].anchor \in Anchors
              /\ scans[r].anchor <= stored /\ scans[r].anchor <= AnchorAt(scans[r].asOf)
              /\ scans[r].at \in {"lookup", "store"} => scans[r].anchor <= scans[r].key[2]
              /\ scans[r].at = "cursor" => Handled(scans[r].key[1], scans[r].anchor)
<1>1. scans[r] \in ScanRun
  BY DEF ScanIInv, ScanTypes
<1>2. QED
  BY <1>1 DEF ScanIInv, RunsKnow, ScanRun

\* The snapshot of a run is of its anchor or a later one.
LEMMA SnapshotIsLate ==
  ASSUME ScanConstants, ScanIInv, NEW r \in ScanRuns, scans[r].at # "idle"
  PROVE  /\ SnapshotKey(r) \in CandidateKeys /\ SnapshotKey(r)[1] = scans[r].key[1]
         /\ scans[r].anchor <= SnapshotKey(r)[2]
<1> DEFINE a == Earlier(stored, AnchorAt(scans[r].asOf))
<1>1. /\ scans[r].key \in CandidateKeys /\ scans[r].anchor \in Anchors
      /\ scans[r].anchor <= stored /\ scans[r].anchor <= AnchorAt(scans[r].asOf)
      /\ stored \in Anchors /\ AnchorAt(scans[r].asOf) \in Anchors
  BY RunFields, AnchorsAreNumbers DEF ScanIInv, ScanTypes
<1>2. a \in Anchors /\ scans[r].anchor <= a
  BY <1>1 DEF Earlier
<1> HIDE DEF a
<1>3. SnapshotKey(r) = <<scans[r].key[1], a>>
  BY DEF SnapshotKey, a
<1>4. QED
  BY <1>1, <1>2, <1>3, KeyIsPair, PairIsKey

\* A run that goes on without writing anything.
LEMMA QuietMove ==
  ASSUME ScanConstants, ScanIInv, NEW r \in ScanRuns, NEW x \in ScanRun,
         scans' = [scans EXCEPT ![r] = x],
         x.at # "idle" =>
           /\ x.anchor \in Anchors /\ x.anchor <= stored /\ x.anchor <= AnchorAt(x.asOf)
           /\ x.at \in {"lookup", "store"} => x.anchor <= x.key[2]
           /\ x.at = "cursor" => Handled(x.key[1], x.anchor),
         UNCHANGED <<now, stored, data, occupied, cands, refused, skipped, cursor>>,
         conflicts' \in SUBSET CandidateKeys
  PROVE  ScanIInv'
<1>1. Grows
  BY AnchorsAreNumbers DEF ScanIInv, ScanTypes, Grows, Recorded, RecordedNext, Stored
<1>2. ScanTypes'
  BY DEF ScanIInv, ScanTypes
<1>3. x.at = "cursor" => \E a \in Anchors : a >= x.anchor /\ RecordedNext(<<x.key[1], a>>)
  BY DEF Handled, Recorded, RecordedNext, Stored
<1>4. RunsKnow'
  BY <1>1, <1>2, <1>3, OneMoves
<1>5. QED
  BY <1>1, <1>2, <1>4, CursorStays DEF ScanIInv

LEMMA StartKeeps ==
  ASSUME ScanConstants, ScanIInv, NEW r \in ScanRuns, ScanStart(r)
  PROVE  ScanIInv'
<1> DEFINE anchor == Earlier(stored, AnchorAt(now))
           x == [NoScan EXCEPT !.at = "next", !.asOf = now, !.todo = Strategies, !.anchor = anchor]
<1>1. /\ now \in 0..MaxTime /\ stored \in Anchors /\ AnchorAt(now) \in Anchors /\ Anchors \subseteq Nat
      /\ NoScan \in ScanRun
  BY AnchorsAreNumbers, NoScanTyped DEF ScanIInv, ScanTypes
<1>2. anchor \in Anchors /\ anchor <= stored /\ anchor <= AnchorAt(now)
  <2>1. stored \in Nat /\ AnchorAt(now) \in Nat
    BY <1>1
  <2>2. QED
    BY <1>1, <2>1 DEF Earlier
<1>3. scans' = [scans EXCEPT ![r] = x]
  BY Zenon DEF ScanStart
<1> HIDE DEF anchor
<1>4. x \in ScanRun /\ x.at = "next" /\ x.anchor = anchor /\ x.asOf = now
  BY <1>1, <1>2 DEF ScanRun
<1>5. UNCHANGED <<now, stored, data, occupied, cands, refused, skipped, cursor, conflicts>>
  BY DEF ScanStart, records
<1> HIDE DEF x
<1>6. QED
  BY <1>2, <1>3, <1>4, <1>5, QuietMove DEF ScanIInv, ScanTypes

LEMMA PickKeeps ==
  ASSUME ScanConstants, ScanIInv, NEW r \in ScanRuns, NEW s \in Strategies, ScanPick(r, s)
  PROVE  ScanIInv'
<1> DEFINE x == [scans[r] EXCEPT !.todo = @ \ {s}]
           y == [scans[r] EXCEPT !.at = "assemble", !.key = <<s, 0>>]
<1>1. /\ scans[r] \in ScanRun /\ scans[r].at = "next" /\ <<s, 0>> \in CandidateKeys
      /\ scans[r].anchor \in Anchors
      /\ scans[r].anchor <= stored /\ scans[r].anchor <= AnchorAt(scans[r].asOf)
  BY RunFields, AnchorsAreNumbers, PairIsKey DEF ScanPick
<1>2. UNCHANGED <<now, stored, data, occupied, cands, refused, skipped, cursor, conflicts>>
  BY DEF ScanPick, world, records
<1>3. scans' = [scans EXCEPT ![r] = x] \/ scans' = [scans EXCEPT ![r] = y]
  BY DEF ScanPick, ScanIInv, ScanTypes
<1>4. /\ x \in ScanRun /\ x.at = "next" /\ x.anchor = scans[r].anchor /\ x.asOf = scans[r].asOf
      /\ y \in ScanRun /\ y.at = "assemble" /\ y.anchor = scans[r].anchor /\ y.asOf = scans[r].asOf
  BY <1>1 DEF ScanRun
<1> HIDE DEF x, y
<1>5. conflicts' \in SUBSET CandidateKeys
  BY <1>2 DEF ScanIInv, ScanTypes
<1>6. CASE scans' = [scans EXCEPT ![r] = x]
  BY <1>1, <1>2, <1>4, <1>5, <1>6, QuietMove
<1>7. CASE scans' = [scans EXCEPT ![r] = y]
  BY <1>1, <1>2, <1>4, <1>5, <1>7, QuietMove
<1>8. QED
  BY <1>3, <1>6, <1>7

\* A run ends, or dies.
LEMMA EndKeeps ==
  ASSUME ScanConstants, ScanIInv, NEW r \in ScanRuns, ScanEnds(r) \/ ScanDies(r)
  PROVE  ScanIInv'
<1>1. /\ scans' = [scans EXCEPT ![r] = NoScan]
      /\ UNCHANGED <<now, stored, data, occupied, cands, refused, skipped, cursor, conflicts>>
  BY DEF ScanEnds, ScanDies, world, records
<1>2. conflicts' \in SUBSET CandidateKeys
  BY <1>1 DEF ScanIInv, ScanTypes
<1>3. QED
  BY <1>1, <1>2, NoScanTyped, QuietMove

\* On to the next strategy.
LEMMA DoneMove ==
  ASSUME ScanConstants, ScanIInv, NEW r \in ScanRuns, ScanDone(r), scans[r].at # "idle"
  PROVE  \E x \in ScanRun : /\ scans' = [scans EXCEPT ![r] = x]
                         /\ x.at = "next" /\ x.anchor = scans[r].anchor /\ x.asOf = scans[r].asOf
<1> DEFINE todo == scans[r].todo \ {scans[r].key[1]}
           x == [scans[r] EXCEPT !.at = "next", !.todo = todo]
<1>1. scans[r] \in ScanRun
  BY RunFields
<1>2. scans' = [scans EXCEPT ![r] = x]
  BY DEF ScanDone, ScanIInv, ScanTypes
<1>3. todo \in SUBSET Strategies
  BY <1>1 DEF ScanRun
<1> HIDE DEF todo
<1>4. x \in ScanRun /\ x.at = "next" /\ x.anchor = scans[r].anchor /\ x.asOf = scans[r].asOf
  BY <1>1, <1>3 DEF ScanRun
<1> HIDE DEF x
<1>5. QED
  BY <1>2, <1>4

\* On to another state of the same snapshot.
LEMMA GoMove ==
  ASSUME ScanConstants, ScanIInv, NEW r \in ScanRuns, scans[r].at # "idle",
         NEW at \in {"store", "cursor"}, ScanGoes(r, at)
  PROVE  \E x \in ScanRun : /\ scans' = [scans EXCEPT ![r] = x]
                         /\ x.at = at /\ x.anchor = scans[r].anchor /\ x.asOf = scans[r].asOf
                         /\ x.key = scans[r].key
<1> DEFINE x == [scans[r] EXCEPT !.at = at]
<1>1. scans[r] \in ScanRun
  BY RunFields
<1>2. scans' = [scans EXCEPT ![r] = x]
  BY DEF ScanGoes, ScanIInv, ScanTypes
<1>3. x \in ScanRun /\ x.at = at /\ x.anchor = scans[r].anchor /\ x.asOf = scans[r].asOf /\ x.key = scans[r].key
  BY <1>1 DEF ScanRun
<1> HIDE DEF x
<1>4. QED
  BY <1>2, <1>3

LEMMA AssembleFailsKeeps ==
  ASSUME ScanConstants, ScanIInv, NEW r \in ScanRuns, AssembleFails(r)
  PROVE  ScanIInv'
<1>1. scans[r].at # "idle" /\ ScanDone(r)
  BY DEF AssembleFails
<1>2. PICK x \in ScanRun : /\ scans' = [scans EXCEPT ![r] = x]
                       /\ x.at = "next" /\ x.anchor = scans[r].anchor /\ x.asOf = scans[r].asOf
  BY <1>1, DoneMove
<1>3. UNCHANGED <<now, stored, data, occupied, cands, refused, skipped, cursor, conflicts>>
  BY DEF AssembleFails, world, records
<1>4. conflicts' \in SUBSET CandidateKeys
  BY <1>3 DEF ScanIInv, ScanTypes
<1>5. QED
  BY <1>1, <1>2, <1>3, <1>4, RunFields, QuietMove

LEMMA RefuseKeeps ==
  ASSUME ScanConstants, ScanIInv, NEW r \in ScanRuns, Refuse(r)
  PROVE  ScanIInv'
<1> DEFINE k == SnapshotKey(r)
<1>1. /\ scans[r].at # "idle" /\ ScanGoes(r, "cursor") /\ refused' = refused \cup {k}
      /\ UNCHANGED <<now, stored, data, occupied, cands, skipped, conflicts, cursor>>
  BY DEF Refuse, world
<1>2. /\ k \in CandidateKeys /\ k[1] = scans[r].key[1] /\ scans[r].anchor <= k[2]
  BY <1>1, SnapshotIsLate
<1> HIDE DEF k
<1>3. PICK x \in ScanRun : /\ scans' = [scans EXCEPT ![r] = x]
                       /\ x.at = "cursor" /\ x.anchor = scans[r].anchor /\ x.asOf = scans[r].asOf
                       /\ x.key = scans[r].key
  BY <1>1, GoMove
<1>4. Grows
  BY <1>1, AnchorsAreNumbers DEF ScanIInv, ScanTypes, Grows, Recorded, RecordedNext, Stored
<1>5. ScanTypes'
  BY <1>1, <1>2, <1>3 DEF ScanIInv, ScanTypes
<1>6. \E a \in Anchors : a >= x.anchor /\ RecordedNext(<<x.key[1], a>>)
  <2>1. k[2] \in Anchors /\ k = <<x.key[1], k[2]>> /\ k[2] >= x.anchor
    BY <1>2, <1>3, KeyIsPair, RunFields, <1>1, AnchorsAreNumbers
  <2>2. RecordedNext(k)
    BY <1>1 DEF RecordedNext
  <2>3. QED
    BY <2>1, <2>2
<1>7. RunsKnow'
  BY <1>1, <1>3, <1>4, <1>5, <1>6, RunFields, OneMoves
<1>8. QED
  BY <1>1, <1>4, <1>5, <1>7, CursorStays DEF ScanIInv

LEMMA ProposeKeeps ==
  ASSUME ScanConstants, ScanIInv, NEW r \in ScanRuns, Propose(r)
  PROVE  ScanIInv'
<1> DEFINE k == SnapshotKey(r)
           x == [scans[r] EXCEPT !.at = "lookup", !.key = k, !.revision = data]
<1>1. /\ scans[r].at # "idle"
      /\ UNCHANGED <<now, stored, data, occupied, cands, refused, skipped, cursor, conflicts>>
  BY DEF Propose, world, records
<1>2. scans' = [scans EXCEPT ![r] = x]
  BY DEF Propose, ScanIInv, ScanTypes
<1>3. k \in CandidateKeys /\ scans[r].anchor <= k[2] /\ scans[r] \in ScanRun /\ data \in 0..MaxRevisions
  BY <1>1, SnapshotIsLate, RunFields DEF ScanIInv, ScanTypes
<1> HIDE DEF k
<1>4. /\ x \in ScanRun /\ x.at = "lookup" /\ x.key = k /\ x.anchor = scans[r].anchor
      /\ x.asOf = scans[r].asOf
  BY <1>3 DEF ScanRun
<1> HIDE DEF x
<1>5. conflicts' \in SUBSET CandidateKeys
  BY <1>1 DEF ScanIInv, ScanTypes
<1>6. QED
  BY <1>1, <1>2, <1>3, <1>4, <1>5, RunFields, QuietMove

LEMMA LookupKeeps ==
  ASSUME ScanConstants, ScanIInv, NEW r \in ScanRuns, Lookup(r)
  PROVE  ScanIInv'
<1> DEFINE k == scans[r].key
<1>1. /\ scans[r].at = "lookup"
      /\ UNCHANGED <<now, stored, data, occupied, cands, refused, skipped, cursor>>
  BY DEF Lookup, world
<1>2. /\ k \in CandidateKeys /\ scans[r].anchor \in Anchors /\ scans[r].anchor <= k[2]
      /\ scans[r].anchor <= stored /\ scans[r].anchor <= AnchorAt(scans[r].asOf)
  BY <1>1, RunFields
<1>3. conflicts' \in SUBSET CandidateKeys
  BY <1>2 DEF Lookup, RecordHashConflict, ScanIInv, ScanTypes
<1>4. CASE ScanDone(r)
  <2>1. PICK x \in ScanRun : /\ scans' = [scans EXCEPT ![r] = x]
                         /\ x.at = "next" /\ x.anchor = scans[r].anchor /\ x.asOf = scans[r].asOf
    BY <1>1, <1>4, DoneMove
  <2>2. QED
    BY <1>1, <1>2, <1>3, <2>1, QuietMove
<1>5. CASE ScanGoes(r, "cursor") /\ (Stored(k) \/ k \in skipped)
  <2>1. PICK x \in ScanRun : /\ scans' = [scans EXCEPT ![r] = x]
                         /\ x.at = "cursor" /\ x.anchor = scans[r].anchor /\ x.asOf = scans[r].asOf
                         /\ x.key = scans[r].key
    BY <1>1, <1>5, GoMove
  <2>2. Handled(x.key[1], x.anchor)
    <3>1. k[2] \in Anchors /\ k = <<x.key[1], k[2]>> /\ k[2] >= x.anchor
      BY <1>2, <2>1, KeyIsPair, AnchorsAreNumbers
    <3>2. Recorded(k)
      BY <1>5 DEF Recorded
    <3>3. QED
      BY <3>1, <3>2 DEF Handled
  <2>3. QED
    BY <1>1, <1>2, <1>3, <2>1, <2>2, QuietMove
<1>6. CASE ScanGoes(r, "store")
  <2>1. PICK x \in ScanRun : /\ scans' = [scans EXCEPT ![r] = x]
                         /\ x.at = "store" /\ x.anchor = scans[r].anchor /\ x.asOf = scans[r].asOf
                         /\ x.key = scans[r].key
    BY <1>1, <1>6, GoMove
  <2>2. QED
    BY <1>1, <1>2, <1>3, <2>1, QuietMove
<1>7. QED
  BY <1>4, <1>5, <1>6 DEF Lookup

LEMMA StoreKeeps ==
  ASSUME ScanConstants, ScanIInv, NEW r \in ScanRuns, Store(r)
  PROVE  ScanIInv'
<1> DEFINE k == scans[r].key
           c == [at |-> scans[r].asOf, revision |-> scans[r].revision]
<1>1. /\ scans[r].at = "store"
      /\ UNCHANGED <<now, stored, data, occupied, refused, conflicts, cursor>>
  BY DEF Store, world
<1>2. /\ k \in CandidateKeys /\ scans[r].anchor \in Anchors /\ scans[r].anchor <= k[2]
      /\ scans[r].anchor <= stored /\ scans[r].anchor <= AnchorAt(scans[r].asOf)
      /\ scans[r] \in ScanRun
  BY <1>1, RunFields
<1>3. c \in Candidate /\ c # NoCandidate
  BY <1>2 DEF ScanRun, Candidate, NoCandidate, ScanConstants
<1>4. \/ ScanGoes(r, "cursor") /\ skipped' = skipped \cup {k} /\ cands' = cands
      \/ ScanDone(r) /\ skipped' = skipped /\ cands' = cands
      \/ /\ ScanGoes(r, "cursor") /\ skipped' = skipped
         /\ ~Stored(k) /\ cands' = [cands EXCEPT ![k] = c]
  BY DEF Store, RecordSkip
<1> HIDE DEF c
<1>5. CASE ScanDone(r) /\ skipped' = skipped /\ cands' = cands
  <2>1. PICK x \in ScanRun : /\ scans' = [scans EXCEPT ![r] = x]
                         /\ x.at = "next" /\ x.anchor = scans[r].anchor /\ x.asOf = scans[r].asOf
    BY <1>1, <1>5, DoneMove
  <2>2. conflicts' \in SUBSET CandidateKeys
    BY <1>1 DEF ScanIInv, ScanTypes
  <2>3. QED
    BY <1>1, <1>2, <1>5, <2>1, <2>2, QuietMove
<1>6. ASSUME ScanGoes(r, "cursor"),
             cands' \in [CandidateKeys -> Candidate], skipped' \in SUBSET CandidateKeys, RecordedNext(k),
             \A l \in CandidateKeys : Recorded(l) => RecordedNext(l)
      PROVE  ScanIInv'
  <2>1. PICK x \in ScanRun : /\ scans' = [scans EXCEPT ![r] = x]
                         /\ x.at = "cursor" /\ x.anchor = scans[r].anchor /\ x.asOf = scans[r].asOf
                         /\ x.key = scans[r].key
    BY <1>1, <1>6, GoMove
  <2>2. Grows
    BY <1>1, <1>6, AnchorsAreNumbers DEF ScanIInv, ScanTypes, Grows
  <2>3. ScanTypes'
    BY <1>1, <1>6, <2>1 DEF ScanIInv, ScanTypes
  <2>4. \E a \in Anchors : a >= x.anchor /\ RecordedNext(<<x.key[1], a>>)
    <3>1. k[2] \in Anchors /\ k = <<x.key[1], k[2]>> /\ k[2] >= x.anchor
      BY <1>2, <2>1, KeyIsPair, AnchorsAreNumbers
    <3>2. QED
      BY <1>6, <3>1
  <2>5. RunsKnow'
    BY <1>1, <1>2, <2>1, <2>2, <2>3, <2>4, OneMoves
  <2>6. QED
    BY <1>1, <2>2, <2>3, <2>5, CursorStays DEF ScanIInv
<1>7. CASE ScanGoes(r, "cursor") /\ skipped' = skipped \cup {k} /\ cands' = cands
  BY <1>1, <1>2, <1>6, <1>7 DEF ScanIInv, ScanTypes, Recorded, RecordedNext, Stored
<1>8. CASE /\ ScanGoes(r, "cursor") /\ skipped' = skipped
           /\ ~Stored(k) /\ cands' = [cands EXCEPT ![k] = c]
  <2>1. /\ cands' \in [CandidateKeys -> Candidate] /\ cands'[k] = c
        /\ \A l \in CandidateKeys \ {k} : cands'[l] = cands[l]
    BY <1>2, <1>3, <1>8 DEF ScanIInv, ScanTypes
  <2>2. RecordedNext(k)
    BY <1>3, <2>1 DEF RecordedNext
  <2>3. \A l \in CandidateKeys : Recorded(l) => RecordedNext(l)
    BY <1>1, <1>8, <2>1, <2>2 DEF Recorded, RecordedNext, Stored
  <2>4. skipped' \in SUBSET CandidateKeys
    BY <1>8 DEF ScanIInv, ScanTypes
  <2>5. QED
    BY <1>6, <1>8, <2>1, <2>2, <2>3, <2>4
<1>9. QED
  BY <1>4, <1>5, <1>7, <1>8

\* The cursor may go back; what it is set to is handled.
LEMMA CursorKeeps ==
  ASSUME ScanConstants, ScanIInv, NEW r \in ScanRuns, AdvanceCursor(r)
  PROVE  ScanIInv'
<1> DEFINE s == scans[r].key[1]
           anchor == scans[r].anchor
<1>1. /\ scans[r].at = "cursor" /\ ScanDone(r)
      /\ UNCHANGED <<now, stored, data, occupied, cands, refused, skipped, conflicts>>
      /\ cursor' = cursor \/ cursor' = [cursor EXCEPT ![s] = anchor]
  BY DEF AdvanceCursor, world
<1>2. /\ s \in Strategies /\ anchor \in Anchors /\ Handled(s, anchor)
      /\ anchor <= stored /\ anchor <= AnchorAt(scans[r].asOf)
  BY <1>1, RunFields, KeyIsPair
<1>3. PICK x \in ScanRun : /\ scans' = [scans EXCEPT ![r] = x]
                       /\ x.at = "next" /\ x.anchor = scans[r].anchor /\ x.asOf = scans[r].asOf
  BY <1>1, DoneMove
<1> HIDE DEF s, anchor
<1>4. Grows
  BY <1>1, AnchorsAreNumbers DEF ScanIInv, ScanTypes, Grows, Recorded, RecordedNext, Stored
<1>5. ScanTypes'
  BY <1>1, <1>2, <1>3 DEF ScanIInv, ScanTypes
<1>6. RunsKnow'
  BY <1>2, <1>3, <1>4, <1>5, <1>1, OneMoves DEF anchor
<1>7. CASE cursor' = cursor
  BY <1>4, <1>5, <1>6, <1>7, CursorStays DEF ScanIInv
<1>8. CASE cursor' = [cursor EXCEPT ![s] = anchor]
  <2> SUFFICES ASSUME NEW q \in Strategies, cursor'[q] >= 0
               PROVE  \E a \in Anchors : a >= cursor'[q] /\ RecordedNext(<<q, a>>)
    BY <1>5, <1>6 DEF ScanIInv, CursorIsHonest, RecordedNext, Stored
  <2>1. CASE q = s
    <3>1. cursor'[q] = anchor
      BY <1>8, <2>1 DEF ScanIInv, ScanTypes
    <3>2. QED
      BY <1>1, <1>2, <2>1, <3>1 DEF Handled, Recorded, RecordedNext, Stored
  <2>2. CASE q # s
    <3>1. cursor'[q] = cursor[q]
      BY <1>8, <2>2 DEF ScanIInv, ScanTypes
    <3>2. \E a \in Anchors : a >= cursor[q] /\ Recorded(<<q, a>>)
      BY <3>1 DEF ScanIInv, CursorIsHonest, Recorded
    <3>3. QED
      BY <1>1, <3>1, <3>2 DEF Recorded, RecordedNext, Stored
  <2>3. QED
    BY <2>1, <2>2
<1>9. QED
  BY <1>1, <1>7, <1>8

\* The clock, the candles, the data and the slot.
LEMMA WorldKeeps ==
  ASSUME ScanConstants, ScanIInv, Tick \/ StoreCandle \/ Revise \/ SlotChanges
  PROVE  ScanIInv'
<1>1. /\ UNCHANGED <<scans, cands, refused, skipped, conflicts, cursor>>
      /\ stored' = stored \/ (stored' = stored + 1 /\ stored < AnchorAt(now))
      /\ now' = now \/ (now' = now + 1 /\ now < MaxTime)
      /\ data' = data \/ (data' = data + 1 /\ data < MaxRevisions)
      /\ occupied' \in {occupied, ~occupied}
  BY DEF Tick, StoreCandle, Revise, SlotChanges, records
<1>2. stored' \in Anchors /\ stored <= stored' /\ stored \in Nat /\ stored' \in Nat
  <2>1. stored \in Nat /\ AnchorAt(now) \in Anchors /\ AnchorAt(now) \in Nat
    BY AnchorsAreNumbers DEF ScanIInv, ScanTypes
  <2>2. stored \in Anchors
    BY DEF ScanIInv, ScanTypes
  <2>3. stored' = stored + 1 /\ stored < AnchorAt(now) => stored' \in Nat /\ stored' <= AnchorAt(now)
    BY <2>1
  <2>4. QED
    BY <1>1, <2>1, <2>2, <2>3, AnchorsAreNumbers
<1>3. now' \in 0..MaxTime /\ data' \in 0..MaxRevisions /\ occupied' \in BOOLEAN
  <2>1. now' \in 0..MaxTime /\ data' \in 0..MaxRevisions
    BY <1>1 DEF ScanIInv, ScanTypes, ScanConstants
  <2>2. occupied \in BOOLEAN
    BY DEF ScanIInv, ScanTypes
  <2>3. occupied' \in BOOLEAN
    BY <1>1, <2>2, Zenon
  <2>4. QED
    BY <2>1, <2>3
<1>4. ScanTypes'
  BY <1>1, <1>2, <1>3 DEF ScanIInv, ScanTypes
<1>5. Grows
  BY <1>1, <1>2 DEF Grows, Recorded, RecordedNext, Stored
<1>6. RunsKnow'
  <2> SUFFICES ASSUME NEW r \in ScanRuns, scans[r].at # "idle"
               PROVE  /\ scans[r].anchor \in Anchors
                      /\ scans[r].anchor <= stored' /\ scans[r].anchor <= AnchorAt(scans[r].asOf)
                      /\ scans[r].at \in {"lookup", "store"} => scans[r].anchor <= scans[r].key[2]
                      /\ scans[r].at = "cursor" =>
                           \E a \in Anchors : a >= scans[r].anchor /\ RecordedNext(<<scans[r].key[1], a>>)
    BY <1>1 DEF RunsKnow, Handled, Recorded, RecordedNext, Stored
  <2>1. scans[r].anchor \in Nat /\ scans[r].anchor <= stored
    BY RunFields, AnchorsAreNumbers
  <2>2. scans[r].anchor <= stored'
    BY <1>2, <2>1
  <2>3. Handled(scans[r].key[1], scans[r].anchor) =>
          \E a \in Anchors : a >= scans[r].anchor /\ RecordedNext(<<scans[r].key[1], a>>)
    BY <1>1 DEF Handled, Recorded, RecordedNext, Stored
  <2>4. QED
    BY <2>2, <2>3, RunFields
<1>7. QED
  BY <1>1, <1>4, <1>5, <1>6, CursorStays DEF ScanIInv

----------------------------------------------------------------------------
(* The theorems                                                            *)

LEMMA ScanInitially == ScanConstants /\ ScanInit => ScanIInv
<1> SUFFICES ASSUME ScanConstants, ScanInit PROVE ScanIInv
  OBVIOUS
<1>1. NoScan \in ScanRun /\ NoScan.at = "idle" /\ 0 \in Anchors
  BY NoScanTyped, AnchorsAreNumbers
<1>2. 0 \in 0..MaxTime /\ 0 \in 0..MaxRevisions /\ -1 \in -1..MaxTime
  BY DEF ScanConstants
<1>3. NoCandidate \in Candidate
  BY <1>2 DEF NoCandidate, Candidate
<1>4. ScanTypes
  BY <1>1, <1>2, <1>3 DEF ScanInit, ScanTypes
<1>5. RunsKnow
  BY <1>1 DEF ScanInit, RunsKnow
<1>6. CursorIsHonest
  BY DEF ScanInit, CursorIsHonest
<1>7. QED
  BY <1>4, <1>5, <1>6 DEF ScanIInv

LEMMA ScanNextStep ==
  ASSUME ScanConstants, ScanIInv, [ScanNext]_scanVars
  PROVE  ScanIInv'
<1>1. ASSUME NEW r \in ScanRuns, ScanStart(r) \/ ScanStep(r) \/ ScanDies(r) PROVE ScanIInv'
  BY <1>1, StartKeeps, PickKeeps, EndKeeps, AssembleFailsKeeps, RefuseKeeps, ProposeKeeps,
     LookupKeeps, StoreKeeps, CursorKeeps DEF ScanStep
<1>2. CASE Tick \/ StoreCandle \/ Revise \/ SlotChanges
  BY <1>2, WorldKeeps
<1>3. CASE UNCHANGED scanVars
  BY <1>3 DEF scanVars, ScanIInv, ScanTypes, RunsKnow, CursorIsHonest, Handled, Recorded, Stored, AnchorAt,
     Anchors, CandidateKeys
<1>4. QED
  BY <1>1, <1>2, <1>3 DEF ScanNext

\* A run's anchor was there when it started, the snapshot it judges is of this anchor or
\* a later one, and it comes to the cursor only when the anchor is decided.
THEOREM ScanInvariant ==
  ASSUME ScanConstants
  PROVE  ScanSpec => []ScanIInv
<1>1. ScanIInv /\ [ScanNext]_scanVars => ScanIInv'
  BY ScanNextStep
<1>2. QED
  BY <1>1, ScanInitially, PTL DEF ScanSpec

\* The clock, the records, the cursors and the runs are well typed.
THEOREM ScanTypeCorrect ==
  ASSUME ScanConstants
  PROVE  ScanSpec => []ScanTypeOK
<1>1. ScanIInv => ScanTypeOK
  BY DEF ScanIInv, ScanTypes, ScanTypeOK, ScanRun, Candidate
<1>2. QED
  BY <1>1, ScanInvariant, PTL

\* A cursor at an anchor means that a decision on it, or on a later one, is recorded
\* (the cursor runShadowGenerateCandidates upserts).
THEOREM CursorsAreHonest ==
  ASSUME ScanConstants
  PROVE  ScanSpec => []CursorIsHonest
<1>1. ScanIInv => CursorIsHonest
  BY DEF ScanIInv
<1>2. QED
  BY <1>1, ScanInvariant, PTL

----------------------------------------------------------------------------
(* The trading API                                                         *)

----------------------------------------------------------------------------
(* The invariant                                                           *)

Aggregate == {"session", "portfolio", "assignment", "position", "job"}
RowStatus == SessionStatuses \cup {"DRAFT", "ACTIVE", "PINNED", "OPEN", "CLOSED", "NONE"}
StoredRow == [status : RowStatus, flag : BOOLEAN, version : Nat]
Request ==
  [at : {"idle", "lookup", "version", "read", "commit", "answered"}, command : Commands,
   key : IdempotencyKeys, expected : Nat, seen : Nat, repeats : BOOLEAN,
   answer : {"none", "executed", "replayed", "version_conflict", "guard_failed", "error"}]
AuditEvent == [command : Commands, key : IdempotencyKeys, expected : Nat, found : Nat]

ApiTypes ==
  /\ DOMAIN rows = Aggregate /\ \A a \in Aggregate : rows[a] \in StoredRow
  /\ requests \in [Requests -> Request]
  /\ audits \subseteq AuditEvent

\* A delivery of a command that was carried out before has not passed the lookup,
\* or was stopped by it: no audit event ever goes.
RepeatStops(q) ==
  /\ q.at = "lookup" => q.answer = "none"
  /\ q.repeats => /\ CarriedOut(q.command, q.key)
                  /\ \/ q.at = "lookup"
                     \/ q.at = "answered" /\ q.answer = "replayed"

\* The handler's check may be old when the operation reads, but the operation of an
\* assignment compares again: what it read is the version the operator looked at.
ReadAsExpected(q) ==
  q.at = "commit" /\ q.command \in AssignmentCommands => q.seen = q.expected

RequestsStand == \A r \in Requests : RepeatStops(requests[r]) /\ ReadAsExpected(requests[r])

\* A key of a command is carried out once.
CarriedOutOnce ==
  \A e, f \in audits : e.command = f.command /\ e.key = f.key => e = f

ApiIInv == ApiTypes /\ RequestsStand /\ AssignmentsChangeAsSeen /\ CarriedOutOnce

----------------------------------------------------------------------------
(* Rows and requests                                                       *)

LEMMA AggregateTyped == ASSUME NEW command \in Commands PROVE AggregateOf(command) \in Aggregate
BY DEF AggregateOf, Aggregate, Commands

\* An outcome is a row.
LEMMA OutcomeTyped ==
  ASSUME NEW command \in Commands, NEW row \in StoredRow
  PROVE  Outcome(command, row) \in StoredRow
<1>1. \A status \in RowStatus, flag \in BOOLEAN : Changed(row, status, flag) \in StoredRow
  BY DEF Changed, StoredRow
<1>2. /\ row.status \in RowStatus /\ row.flag \in BOOLEAN
      /\ {"PAUSED", "SHADOW_ACTIVE", "STOPPED", "ACTIVE"} \subseteq RowStatus
  BY DEF StoredRow, RowStatus, SessionStatuses
<1>3. QED
  BY <1>1, <1>2, Zenon DEF Outcome

\* A step that touches one request, and leaves the audit log as it is: what holds of
\* the others stays.
LEMMA OneRequest ==
  ASSUME ApiIInv, UNCHANGED <<rows, audits>>, NEW r \in Requests, NEW q \in Request,
         requests' = [requests EXCEPT ![r] = q], RepeatStops(q), ReadAsExpected(q)
  PROVE  ApiIInv'
<1>1. ApiTypes'
  BY DEF ApiIInv, ApiTypes
<1>2. \A o \in Requests : requests'[o] = IF o = r THEN q ELSE requests[o]
  BY DEF ApiIInv, ApiTypes
<1>3. ASSUME NEW o \in Requests PROVE RepeatStops(requests[o])' /\ ReadAsExpected(requests[o])'
  <2>1. CASE o = r
    BY <1>2, <2>1 DEF RepeatStops, ReadAsExpected, CarriedOut
  <2>2. CASE o # r
    <3>1. requests'[o] = requests[o] /\ RepeatStops(requests[o]) /\ ReadAsExpected(requests[o])
      BY <1>2, <2>2 DEF ApiIInv, RequestsStand
    <3>2. QED BY <3>1 DEF RepeatStops, ReadAsExpected, CarriedOut
  <2>3. QED BY <2>1, <2>2
<1>4. RequestsStand' /\ AssignmentsChangeAsSeen' /\ CarriedOutOnce'
  BY <1>3 DEF RequestsStand, ApiIInv, AssignmentsChangeAsSeen, CarriedOutOnce
<1>5. QED BY <1>1, <1>4 DEF ApiIInv

----------------------------------------------------------------------------
(* The steps                                                               *)

LEMMA BlankRequestTyped ==
  ASSUME IdempotencyKeys # {}
  PROVE  /\ NoRequest \in Request /\ NoRequest.at = "idle" /\ NoRequest.repeats = FALSE
         /\ NoRequest.answer = "none"
<1>1. SomeKey \in IdempotencyKeys
  BY DEF SomeKey
<1>2. QED
  BY <1>1 DEF NoRequest, Request, Commands, SessionCommands

LEMMA SubmitStep ==
  ASSUME ApiIInv, Sent \subseteq Commands, NEW r \in Requests, NEW command \in Sent, NEW key \in IdempotencyKeys,
         Submit(r, command, key)
  PROVE  ApiIInv'
<1> DEFINE known == CarriedOut(command, key)
           version == rows[AggregateOf(command)].version
           q == [NoRequest EXCEPT !.at = "lookup", !.command = command, !.key = key,
                                  !.expected = version, !.repeats = known]
<1>1. requests' = [requests EXCEPT ![r] = q] /\ UNCHANGED <<rows, audits>>
  BY DEF Submit
<1>2. version \in Nat
  BY AggregateTyped DEF ApiIInv, ApiTypes, StoredRow
<1>3. known \in BOOLEAN
  BY DEF CarriedOut
<1>4. /\ q \in Request /\ q.at = "lookup" /\ q.answer = "none" /\ q.repeats = known
      /\ q.command = command /\ q.key = key
  <2> HIDE DEF known, version
  <2> QED BY BlankRequestTyped, <1>2, <1>3 DEF Request
<1>5. QED
  <2> HIDE DEF q
  <2>1. RepeatStops(q) /\ ReadAsExpected(q)
    BY <1>4, Zenon DEF RepeatStops, ReadAsExpected
  <2>2. QED BY <1>1, <1>4, <2>1, OneRequest

\* A handler's step that sets the answer, or goes on.
LEMMA AnswerStep ==
  ASSUME ApiIInv, UNCHANGED <<rows, audits>>, NEW r \in Requests,
         NEW a \in {"executed", "replayed", "version_conflict", "guard_failed", "error"},
         Answer(r, a), requests[r].repeats => requests[r].at = "lookup" /\ a = "replayed"
  PROVE  ApiIInv'
<1> DEFINE q == [requests[r] EXCEPT !.at = "answered", !.answer = a]
<1>1. requests[r] \in Request /\ RepeatStops(requests[r])
  BY DEF ApiIInv, ApiTypes, RequestsStand
<1>2. requests' = [requests EXCEPT ![r] = q]
  BY DEF Answer, ApiIInv, ApiTypes
<1>3. /\ q \in Request /\ q.at = "answered" /\ q.answer = a /\ q.repeats = requests[r].repeats
      /\ q.command = requests[r].command /\ q.key = requests[r].key
  BY <1>1 DEF Request
<1>4. QED
  <2> HIDE DEF q
  <2>1. RepeatStops(q) /\ ReadAsExpected(q)
    BY <1>1, <1>3 DEF RepeatStops, ReadAsExpected
  <2>2. QED BY <1>2, <1>3, <2>1, OneRequest

LEMMA GoStep ==
  ASSUME ApiIInv, UNCHANGED <<rows, audits>>, NEW r \in Requests, NEW at \in {"version", "read", "commit"}, Go(r, at),
         ~requests[r].repeats,
         at = "commit" /\ requests[r].command \in AssignmentCommands => requests[r].seen = requests[r].expected
  PROVE  ApiIInv'
<1> DEFINE q == [requests[r] EXCEPT !.at = at]
<1>1. requests[r] \in Request
  BY DEF ApiIInv, ApiTypes
<1>2. requests' = [requests EXCEPT ![r] = q]
  BY DEF Go, ApiIInv, ApiTypes
<1>3. /\ q \in Request /\ q.at = at /\ q.repeats = requests[r].repeats
      /\ q.command = requests[r].command /\ q.seen = requests[r].seen /\ q.expected = requests[r].expected
  BY <1>1 DEF Request
<1>4. QED
  <2> HIDE DEF q
  <2>1. RepeatStops(q) /\ ReadAsExpected(q)
    BY <1>3 DEF RepeatStops, ReadAsExpected
  <2>2. QED BY <1>2, <1>3, <2>1, OneRequest

\* The lookup stops every repeated command, because its own audit event is of the
\* aggregate and the key.
LEMMA LookUpStep ==
  ASSUME ApiIInv, NEW r \in Requests, LookUp(r)
  PROVE  ApiIInv'
<1>1. requests[r].at = "lookup" /\ UNCHANGED <<rows, audits>>
  BY DEF LookUp, At
<1>2. CASE Replayed(r)
  BY <1>1, <1>2, AnswerStep DEF LookUp
<1>3. CASE ~Replayed(r)
  <2>1. ~requests[r].repeats
    BY <1>3 DEF Replayed, ApiIInv, RequestsStand, RepeatStops, CarriedOut
  <2>2. QED
    BY <1>1, <1>3, <2>1, GoStep DEF LookUp
<1>4. QED BY <1>2, <1>3

\* No repeated command gets past the lookup.
LEMMA PastLookup ==
  ASSUME ApiIInv, NEW r \in Requests, requests[r].at \in {"version", "read", "commit"}
  PROVE  ~requests[r].repeats
BY DEF ApiIInv, RequestsStand, RepeatStops

LEMMA CheckVersionStep ==
  ASSUME ApiIInv, NEW r \in Requests, CheckVersion(r)
  PROVE  ApiIInv'
<1>1. requests[r].at = "version" /\ UNCHANGED <<rows, audits>> /\ ~requests[r].repeats
  BY PastLookup DEF CheckVersion, At
<1>2. Answer(r, "version_conflict") \/ Go(r, "read")
  BY DEF CheckVersion
<1>3. QED
  BY <1>1, <1>2, AnswerStep, GoStep

\* An operation that goes on to commit has read the row its operator looked at, when
\* it is one of an assignment.
LEMMA ReadRowStep ==
  ASSUME ApiIInv, NEW r \in Requests, ReadRow(r)
  PROVE  ApiIInv'
<1> DEFINE row == Row(r)
           q == [requests[r] EXCEPT !.at = "commit", !.seen = row.version]
<1>1. requests[r].at = "read" /\ UNCHANGED <<rows, audits>> /\ ~requests[r].repeats
  BY PastLookup DEF ReadRow, At
<1>2. requests[r] \in Request /\ row \in StoredRow
  BY AggregateTyped DEF ApiIInv, ApiTypes, Row, Request
<1>3. CASE requests[r].command = "RUN_JOB" /\ Go(r, "commit")
  BY <1>1, <1>3, GoStep DEF AssignmentCommands
<1>4. CASE Answer(r, "guard_failed") \/ Answer(r, "executed")
  BY <1>1, <1>4, AnswerStep
<1>5. CASE /\ ~ComparedAgain(r)
           /\ requests' = [requests EXCEPT ![r].at = "commit", ![r].seen = Row(r).version]
  <2>1. requests' = [requests EXCEPT ![r] = q]
    BY <1>5 DEF ApiIInv, ApiTypes
  <2>2. row.version \in Nat
    BY <1>2 DEF StoredRow
  <2>3. /\ q \in Request /\ q.at = "commit" /\ q.seen = row.version /\ q.repeats = requests[r].repeats
        /\ q.command = requests[r].command /\ q.expected = requests[r].expected
    BY <1>2, <2>2 DEF Request
  <2>4. q.command \in AssignmentCommands => q.seen = q.expected
    BY <2>3, <1>5 DEF ComparedAgain
  <2>5. QED
    <3> HIDE DEF q
    <3>1. RepeatStops(q) /\ ReadAsExpected(q)
      BY <1>1, <2>3, <2>4 DEF RepeatStops, ReadAsExpected
    <3>2. QED BY <1>1, <2>1, <2>3, <3>1, OneRequest
<1>6. QED
  BY <1>3, <1>4, <1>5 DEF ReadRow

\* The transaction: the audit event records the version of the row it was committed
\* on, which is the one that was read.
LEMMA CommitStep ==
  ASSUME ApiIInv, NEW r \in Requests, Commit(r)
  PROVE  ApiIInv'
<1> DEFINE command == requests[r].command
           key == requests[r].key
           row == Row(r)
           a == AggregateOf(command)
           event == [command |-> command, key |-> key, expected |-> requests[r].expected, found |-> row.version]
<1>1. requests[r].at = "commit" /\ ~requests[r].repeats
  BY PastLookup DEF Commit, At
<1>2. requests[r] \in Request /\ row \in StoredRow /\ a \in Aggregate /\ row = rows[a]
  BY AggregateTyped DEF ApiIInv, ApiTypes, Row, Request
<1>3. CASE Answer(r, "error") /\ UNCHANGED <<rows, audits>>
  BY <1>1, <1>3, AnswerStep
<1>4. CASE /\ command \in {"CLOSE", "RUN_JOB"} \/ row.version = requests[r].seen
           /\ ~CarriedOut(command, key)
           /\ rows' = [rows EXCEPT ![a] = Outcome(command, @)]
           /\ audits' = audits \cup {event}
           /\ Answer(r, "executed")
  <2>1. event \in AuditEvent /\ event.command = command /\ event.key = key
        /\ event.found = row.version /\ event.expected = requests[r].expected
    BY <1>2 DEF AuditEvent, Request, StoredRow
  <2> HIDE DEF event
  <2>2. DOMAIN rows' = Aggregate /\ \A b \in Aggregate : rows'[b] = IF b = a THEN Outcome(command, row) ELSE rows[b]
    BY <1>2, <1>4 DEF ApiIInv, ApiTypes
  <2>3. Outcome(command, row) \in StoredRow
    BY <1>2, OutcomeTyped DEF Request
  <2>4. \A b \in Aggregate : rows'[b] \in StoredRow
    BY <2>2, <2>3 DEF ApiIInv, ApiTypes
  <2> DEFINE q == [requests[r] EXCEPT !.at = "answered", !.answer = "executed"]
  <2>5. requests' = [requests EXCEPT ![r] = q]
    BY <1>4 DEF Answer, ApiIInv, ApiTypes
  <2>6. q \in Request /\ q.at = "answered" /\ q.repeats = requests[r].repeats
    BY <1>2 DEF Request
  <2> HIDE DEF q
  <2>7. ApiTypes'
    BY <1>4, <2>1, <2>2, <2>4, <2>5, <2>6 DEF ApiIInv, ApiTypes
  <2>8. AssignmentsChangeAsSeen'
    <3>1. command \in AssignmentCommands => event.found = event.expected
      BY <1>1, <1>4, <2>1 DEF ApiIInv, RequestsStand, ReadAsExpected, AssignmentCommands
    <3>2. QED
      BY <1>4, <2>1, <3>1 DEF ApiIInv, AssignmentsChangeAsSeen
  <2>9. CarriedOutOnce'
    BY <1>4, <2>1 DEF CarriedOutOnce, ApiIInv, CarriedOut
  <2>10. ASSUME NEW o \in Requests PROVE RepeatStops(requests[o])' /\ ReadAsExpected(requests[o])'
    <3>1. CASE o = r
      <4>1. requests'[o] = q
        BY <2>5, <3>1 DEF ApiIInv, ApiTypes
      <4>2. QED BY <4>1, <2>6, <1>1 DEF RepeatStops, ReadAsExpected
    <3>2. CASE o # r
      <4>1. requests'[o] = requests[o] /\ RepeatStops(requests[o]) /\ ReadAsExpected(requests[o])
        BY <2>5, <3>2 DEF ApiIInv, ApiTypes, RequestsStand
      <4>2. QED BY <4>1, <1>4 DEF RepeatStops, ReadAsExpected, CarriedOut
    <3>3. QED BY <3>1, <3>2
  <2>11. QED
    BY <2>7, <2>8, <2>9, <2>10 DEF ApiIInv, RequestsStand
<1>5. QED
  BY <1>3, <1>4 DEF Commit

LEMMA ReceiveStep ==
  ASSUME ApiIInv, NEW r \in Requests, Receive(r)
  PROVE  ApiIInv'
<1>1. requests[r] \in Request
  BY DEF ApiIInv, ApiTypes
<1>2. IdempotencyKeys # {}
  BY <1>1 DEF Request
<1>3. UNCHANGED <<rows, audits>> /\ requests' = [requests EXCEPT ![r] = NoRequest]
  BY DEF Receive
<1>4. RepeatStops(NoRequest) /\ ReadAsExpected(NoRequest)
  BY <1>2, BlankRequestTyped DEF RepeatStops, ReadAsExpected
<1>5. QED
  BY <1>2, <1>3, <1>4, BlankRequestTyped, OneRequest

\* A command that is sent again looks its key up again.
LEMMA ResendStep ==
  ASSUME ApiIInv, NEW r \in Requests, Resend(r)
  PROVE  ApiIInv'
<1> DEFINE known == CarriedOut(requests[r].command, requests[r].key)
           q == [requests[r] EXCEPT !.at = "lookup", !.answer = "none", !.repeats = known]
<1>1. requests[r] \in Request /\ UNCHANGED <<rows, audits>>
  BY DEF ApiIInv, ApiTypes, Resend
<1>2. known \in BOOLEAN
  BY DEF CarriedOut
<1>3. requests' = [requests EXCEPT ![r] = q]
  BY DEF Resend, ApiIInv, ApiTypes
<1>4. /\ q \in Request /\ q.at = "lookup" /\ q.answer = "none" /\ q.repeats = known
      /\ q.command = requests[r].command /\ q.key = requests[r].key
  <2> HIDE DEF known
  <2> QED BY <1>1, <1>2 DEF Request
<1>5. QED
  <2> HIDE DEF q
  <2>1. RepeatStops(q) /\ ReadAsExpected(q)
    BY <1>4, Zenon DEF RepeatStops, ReadAsExpected
  <2>2. QED BY <1>1, <1>3, <1>4, <2>1, OneRequest

\* A job changes rows only.
LEMMA JobStep ==
  ASSUME ApiIInv, JobWrites
  PROVE  ApiIInv'
<1>1. UNCHANGED <<audits, requests>>
  BY DEF JobWrites
<1>2. \A row \in StoredRow : /\ Changed(row, "ERROR_LOCKED", TRUE) \in StoredRow
                             /\ Changed(row, "CLOSED", FALSE) \in StoredRow
  BY DEF Changed, StoredRow, RowStatus, SessionStatuses
<1>3. DOMAIN rows' = Aggregate /\ \A a \in Aggregate : rows'[a] \in StoredRow
  BY <1>2 DEF ApiIInv, ApiTypes, JobWrites, Aggregate
<1>4. ApiTypes'
  BY <1>1, <1>3 DEF ApiIInv, ApiTypes
<1>5. RequestsStand' /\ AssignmentsChangeAsSeen' /\ CarriedOutOnce'
  BY <1>1 DEF ApiIInv, RequestsStand, RepeatStops, ReadAsExpected, CarriedOut, AssignmentsChangeAsSeen, CarriedOutOnce
<1>6. QED BY <1>4, <1>5 DEF ApiIInv

----------------------------------------------------------------------------
(* The theorems                                                            *)

LEMMA ApiInitially ==
  ASSUME IdempotencyKeys # {}, FirstStatus \in SessionStatuses, FirstKill \in BOOLEAN, ApiInit
  PROVE  ApiIInv
<1>1. NoRequest \in Request /\ NoRequest.at = "idle" /\ NoRequest.repeats = FALSE
  BY BlankRequestTyped
<1>2. DOMAIN FirstRows = Aggregate /\ \A a \in Aggregate : FirstRows[a] \in StoredRow
  BY DEF FirstRows, Aggregate, StoredRow, RowStatus
<1>3. ApiTypes
  BY <1>1, <1>2 DEF ApiInit, ApiTypes
<1>4. RequestsStand /\ AssignmentsChangeAsSeen /\ CarriedOutOnce
  BY <1>1 DEF ApiInit, RequestsStand, RepeatStops, ReadAsExpected, AssignmentsChangeAsSeen, CarriedOutOnce
<1>5. QED BY <1>3, <1>4 DEF ApiIInv

LEMMA ApiNextStep ==
  ASSUME ApiIInv, Sent \subseteq Commands, [ApiNext]_apiVars
  PROVE  ApiIInv'
<1>1. ASSUME NEW r \in Requests, NEW command \in Sent, NEW key \in IdempotencyKeys, Submit(r, command, key)
      PROVE  ApiIInv'
  BY <1>1, SubmitStep
<1>2. ASSUME NEW r \in Requests, HandlerStep(r) PROVE ApiIInv'
  <2>1. LookUp(r) \/ CheckVersion(r) \/ ReadRow(r) \/ Commit(r) \/ Receive(r) \/ Resend(r)
    BY <1>2 DEF HandlerStep, Operation, SetAssignmentOperation, ActivatePortfolioOperation,
      ReleaseKillSwitchOperation, EngageKillSwitchOperation, ActivateSessionOperation,
      PauseSessionOperation, UnlockSessionOperation, ManualRiskCloseOperation, RunJobOperation
  <2>2. QED  BY <2>1, LookUpStep, CheckVersionStep, ReadRowStep, CommitStep, ReceiveStep, ResendStep
<1>3. CASE JobWrites
  BY <1>3, JobStep
<1>4. CASE UNCHANGED apiVars
  BY <1>4 DEF apiVars, ApiIInv, ApiTypes, RequestsStand, RepeatStops, ReadAsExpected, CarriedOut,
              AssignmentsChangeAsSeen, CarriedOutOnce
<1>5. QED
  BY <1>1, <1>2, <1>3, <1>4 DEF ApiNext

\* The invariant: a repeated command waits at the lookup or was stopped by it, an
\* assignment's operation commits what its operator looked at, and a key is carried
\* out once (operationsService.ts, idempotency.ts, setStrategyAssignmentEnabled).
THEOREM ApiInvariant ==
  ASSUME IdempotencyKeys # {}, Sent \subseteq Commands, FirstStatus \in SessionStatuses, FirstKill \in BOOLEAN
  PROVE  ApiSpec => []ApiIInv
<1>1. ApiInit => ApiIInv
  BY ApiInitially
<1>2. ApiIInv /\ [ApiNext]_apiVars => ApiIInv'
  BY ApiNextStep
<1>3. QED
  BY <1>1, <1>2, PTL DEF ApiSpec

\* A command carried out before is recognised when it is sent again, whatever the rows
\* have become and whatever was lost, and an assignment is switched in the version its
\* operator looked at.
THEOREM RepeatsAreRecognised ==
  ASSUME IdempotencyKeys # {}, Sent \subseteq Commands, FirstStatus \in SessionStatuses, FirstKill \in BOOLEAN
  PROVE  ApiSpec => []CommandsAreSafe
<1>1. ASSUME ApiIInv PROVE RepeatIsRecognised
  BY <1>1 DEF ApiIInv, RequestsStand, RepeatStops, RepeatIsRecognised
<1>2. ApiIInv => CommandsAreSafe
  BY <1>1 DEF ApiIInv, CommandsAreSafe
<1>3. QED
  BY <1>2, ApiInvariant, PTL

\* However often handlers die, answers are lost and commands are sent again or side by
\* side, the audit log holds one event per command and key (eventKey is unique).
THEOREM KeysAreCarriedOutOnce ==
  ASSUME IdempotencyKeys # {}, Sent \subseteq Commands, FirstStatus \in SessionStatuses, FirstKill \in BOOLEAN
  PROVE  ApiSpec => []CarriedOutOnce
<1>1. ApiIInv => CarriedOutOnce
  BY DEF ApiIInv
<1>2. QED
  BY <1>1, ApiInvariant, PTL

\* Rows, requests and audit events keep their types.
THEOREM ApiTypeCorrect ==
  ASSUME IdempotencyKeys # {}, Sent \subseteq Commands, FirstStatus \in SessionStatuses, FirstKill \in BOOLEAN
  PROVE  ApiSpec => []ApiTypeOK
<1>1. ASSUME ApiTypes PROVE ApiTypeOK
  <2>1. \A a \in DOMAIN rows : rows[a].status \in RowStatus /\ rows[a].flag \in BOOLEAN /\ rows[a].version \in Nat
    BY <1>1 DEF ApiTypes, StoredRow
  <2>2. \A e \in audits : e.command \in Commands /\ e.key \in IdempotencyKeys
    BY <1>1 DEF ApiTypes, AuditEvent
  <2>3. \A r \in Requests :
          /\ requests[r].at \in {"idle", "lookup", "version", "read", "commit", "answered"}
          /\ requests[r].answer \in {"none", "executed", "replayed", "version_conflict", "guard_failed", "error"}
    BY <1>1 DEF ApiTypes, Request
  <2>4. QED
    BY <2>1, <2>2, <2>3 DEF ApiTypeOK, RowStatus
<1>2. ApiIInv => ApiTypeOK
  BY <1>1 DEF ApiIInv
<1>3. QED
  BY <1>2, ApiInvariant, PTL

----------------------------------------------------------------------------
(* Reconciliation                                                          *)

----------------------------------------------------------------------------
(* The invariant                                                           *)

Jobs == [kind : {"fill", "monitor", "day"}, asset : Assets]

\* What the instance has to give: jobs of the three kinds, and bounds.
Setting ==
  /\ Writers \subseteq Jobs
  /\ Lots \in Nat \ {0} /\ MaxLedger \in Nat \ {0} /\ MaxDefects \in Nat

Candles == [Assets -> Nat]
HeldRow == [left : 0..Lots, charged : 0..Lots, fills : Nat]
ClosedRow == [left : {0}, charged : Lots..2*Lots, fills : Nat \ {0}]
Write ==
  [at : {"idle", "commit"}, fresh : BOOLEAN, booked : Candles, cached : 0..MaxLedger, row : HeldRow]
Findings ==
  {"EQUITY_MISMATCH", "INVALID_AMOUNT", "SEQUENCE_NOT_CONTIGUOUS", "PNL_SIGN_MISMATCH"} \cup AllDefects
Cause == Kinds \cup {"UNVALUED", "CLOSED_IN_PARTS"}
Check == [at : {"idle", "decide"}, fresh : BOOLEAN, violations : SUBSET Findings, cause : SUBSET Cause]
Assembly ==
  [at : {"idle", "rest", "marks", "done"}, torn : BOOLEAN, equity : Candles, cached : 0..MaxLedger,
   held : SUBSET Assets, ledger : 0..MaxLedger, finding : BOOLEAN, behind : BOOLEAN]

BooksTypes ==
  /\ newest \in Candles /\ booked \in Candles /\ equity \in Candles
  /\ ledger \in 0..MaxLedger /\ cached \in 0..MaxLedger
  /\ defects \subseteq Kinds /\ locked \in BOOLEAN /\ appeared \in 0..MaxDefects
  /\ writing \in [Writers -> Write]
  /\ recon \in Check /\ risk \in Assembly

\* An open position has been charged the entry fee of the lots it has left behind, and
\* so has a closed one whose exit filled at once.
Sound(row) == row.left # 0 /\ FeesAgree(row) /\ (row.fills = 0 => row.left = Lots)
RowsAgree ==
  /\ holding \in [Assets -> HeldRow] /\ settled \subseteq ClosedRow
  /\ \A a \in Assets : booked[a] > 0 => Sound(holding[a])
  /\ \A row \in settled : row.fills = 1 => FeesAgree(row)

\* A position is booked on a candle that is stored.
BookedIsStored == \A a \in Assets : booked[a] <= newest[a]

\* A writer whose version still holds has read what is stored; the monitor's candle
\* is still there and not booked.
WriterHolds(w) ==
  writing[w].at = "commit" /\ writing[w].fresh =>
    /\ writing[w].booked = booked /\ writing[w].cached = cached /\ writing[w].row = holding[w.asset]
    /\ w.kind = "monitor" => 0 < booked[w.asset] /\ booked[w.asset] < newest[w.asset]

\* The assembler's reads are of one moment unless something has committed since the
\* first of them.
AssemblyHolds ==
  /\ risk.at \in {"rest", "marks"} /\ ~risk.torn => risk.equity = equity /\ risk.cached = cached
  /\ risk.at = "marks" /\ ~risk.torn => risk.held = Open /\ risk.ledger = ledger

BooksIInv ==
  /\ BooksTypes /\ RowsAgree /\ BookedIsStored /\ \A w \in Writers : WriterHolds(w)
  /\ AssemblyHolds /\ BooksStayTrue

----------------------------------------------------------------------------
(* The steps                                                               *)

\* The records of a writer, and of an assembler, that have begun nothing.
LEMMA BlankWriteTyped ==
  ASSUME Setting
  PROVE  /\ Unvalued \in Candles
         /\ NotWriting \in Write /\ NotWriting.at = "idle"
         /\ NoAssembly \in Assembly /\ NoAssembly.at = "idle"
         /\ NoSnapshot \in Check /\ NoSnapshot.violations = {}
         /\ NoHolding \in HeldRow
<1>1. Unvalued \in Candles /\ 0 \in 0..MaxLedger /\ NoHolding \in HeldRow
  BY DEF Setting, Unvalued, Candles, NoHolding, HeldRow
<1>2. QED
  BY <1>1 DEF NotWriting, NoAssembly, NoSnapshot, Write, Assembly, Check

LEMMA OutdatedTyped ==
  ASSUME writing \in [Writers -> Write]
  PROVE  /\ Outdated \in [Writers -> Write]
         /\ \A w \in Writers : Outdated[w].fresh = FALSE
<1>1. ASSUME NEW w \in Writers
      PROVE  [writing[w] EXCEPT !.fresh = FALSE] \in Write /\ [writing[w] EXCEPT !.fresh = FALSE].fresh = FALSE
  BY DEF Write
<1>2. QED
  BY <1>1 DEF Outdated

\* What a commit does to the assembler: nothing but to tear its reads.
LEMMA Torn ==
  ASSUME BooksIInv, SomethingCommits
  PROVE  /\ risk' \in Assembly /\ recon' \in Check
         /\ recon'.violations = recon.violations /\ recon'.cause = recon.cause
         /\ risk'.at = risk.at /\ risk'.finding = risk.finding /\ risk'.behind = risk.behind
         /\ risk'.torn = (risk.at \in {"rest", "marks"} \/ risk.torn)
<1> DEFINE torn == risk.at \in {"rest", "marks"} \/ risk.torn
<1>1. risk \in Assembly /\ recon \in Check
  BY DEF BooksIInv, BooksTypes
<1>2. risk' = [risk EXCEPT !.torn = torn] /\ recon' = [recon EXCEPT !.fresh = FALSE]
  BY DEF SomethingCommits
<1>3. torn \in BOOLEAN
  BY <1>1 DEF Assembly
<1>4. /\ recon' \in Check /\ recon'.violations = recon.violations /\ recon'.cause = recon.cause
  BY <1>1, <1>2 DEF Check
<1>5. /\ risk' \in Assembly /\ risk'.at = risk.at /\ risk'.finding = risk.finding
      /\ risk'.behind = risk.behind /\ risk'.torn = torn
  <2> HIDE DEF torn
  <2> QED BY <1>1, <1>2, <1>3 DEF Assembly
<1>6. QED
  BY <1>4, <1>5

\* A step that only moves the writers, whose versions it may end: what they have read
\* still stands.
LEMMA WritersMove ==
  ASSUME BooksIInv, writing' \in [Writers -> Write],
         UNCHANGED <<newest, booked, equity, holding, settled, ledger, cached, defects, appeared>>,
         locked' \in BOOLEAN, recon' \in Check, NoFalseLock',
         risk' \in Assembly, AssemblyHolds', RefusalHasCause',
         \A w \in Writers : WriterHolds(w)'
  PROVE  BooksIInv'
<1>1. BooksTypes'
  BY DEF BooksIInv, BooksTypes
<1>2. BookedIsStored' /\ RowsAgree' /\ BooksStayTrue'
  BY DEF BooksIInv, BookedIsStored, RowsAgree, BooksStayTrue, CacheFollowsBooks
<1>3. QED
  BY <1>1, <1>2 DEF BooksIInv

\* A transaction that books: the cache follows, whoever read before is out of date.
LEMMA Booking ==
  ASSUME BooksIInv, booked' \in Candles, equity' = booked', ledger' \in 0..MaxLedger, cached' = ledger',
         \A a \in Assets : booked'[a] <= newest[a], RowsAgree',
         UNCHANGED <<newest, defects, locked, appeared>>, SomethingCommits,
         writing' \in [Writers -> Write],
         \A w \in Writers : writing'[w].at = "idle" \/ writing'[w].fresh = FALSE
  PROVE  BooksIInv'
<1>1. BooksTypes'
  BY Torn DEF BooksIInv, BooksTypes
<1>2. BookedIsStored' /\ CacheFollowsBooks' /\ \A w \in Writers : WriterHolds(w)'
  BY DEF BooksIInv, BookedIsStored, CacheFollowsBooks, WriterHolds
<1>3. AssemblyHolds' /\ RefusalHasCause' /\ NoFalseLock'
  BY Torn DEF BooksIInv, BooksStayTrue, AssemblyHolds, RefusalHasCause, NoFalseLock
<1>4. QED
  BY <1>1, <1>2, <1>3 DEF BooksIInv, BooksStayTrue

LEMMA IngestStep ==
  ASSUME BooksIInv, Setting, NEW a \in Assets, Ingest(a)
  PROVE  BooksIInv'
<1>1. /\ newest' = [newest EXCEPT ![a] = @ + 1]
      /\ UNCHANGED <<booked, equity, holding, settled, ledger, cached, defects, writing, recon, locked, risk, appeared>>
  BY DEF Ingest
<1>2. newest' \in Candles /\ \A b \in Assets : newest[b] <= newest'[b]
  BY <1>1 DEF BooksIInv, BooksTypes, Candles, Setting
<1>3. BooksTypes'
  BY <1>1, <1>2 DEF BooksIInv, BooksTypes
<1>4. BookedIsStored'
  BY <1>1, <1>2 DEF BooksIInv, BooksTypes, BookedIsStored, Candles
<1>5. ASSUME NEW w \in Writers PROVE WriterHolds(w)'
  BY <1>1, <1>2, <1>5 DEF BooksIInv, BooksTypes, WriterHolds, Candles, Jobs, Setting
<1>6. RowsAgree' /\ AssemblyHolds' /\ BooksStayTrue'
  BY <1>1 DEF BooksIInv, RowsAgree, AssemblyHolds, Open, BooksStayTrue, CacheFollowsBooks, NoFalseLock, RefusalHasCause
<1>7. QED
  BY <1>3, <1>4, <1>5, <1>6 DEF BooksIInv

\* A writer reads what is stored; the monitor begins on a candle that is not booked.
LEMMA StartWriteStep ==
  ASSUME BooksIInv, Setting, NEW w \in Writers, StartWrite(w)
  PROVE  BooksIInv'
<1> DEFINE new == [at |-> "commit", fresh |-> TRUE, booked |-> booked, cached |-> cached,
                   row |-> holding[w.asset]]
<1>1. /\ writing' = [writing EXCEPT ![w] = new]
      /\ UNCHANGED <<newest, booked, equity, holding, settled, ledger, cached, defects, recon, locked, risk, appeared>>
  BY DEF StartWrite
<1>2. new \in Write
  BY DEF BooksIInv, BooksTypes, RowsAgree, Write, Setting, Jobs
<1>3. w \in Jobs /\ (w.kind = "monitor" => 0 < booked[w.asset] /\ booked[w.asset] < newest[w.asset])
  BY DEF StartWrite, HasWork, Setting, Jobs
<1>4. writing' \in [Writers -> Write] /\ \A x \in Writers : writing'[x] = IF x = w THEN new ELSE writing[x]
  BY <1>1, <1>2 DEF BooksIInv, BooksTypes
<1>5. ASSUME NEW x \in Writers PROVE WriterHolds(x)'
  BY <1>1, <1>3, <1>4 DEF BooksIInv, WriterHolds
<1>6. AssemblyHolds' /\ RefusalHasCause'
  BY <1>1 DEF BooksIInv, BooksStayTrue, AssemblyHolds, Open, RefusalHasCause
<1>7. recon' \in Check /\ NoFalseLock' /\ risk' \in Assembly /\ locked' \in BOOLEAN
  BY <1>1 DEF BooksIInv, BooksTypes, BooksStayTrue, NoFalseLock
<1>8. QED
  BY <1>1, <1>4, <1>5, <1>6, <1>7, WritersMove

\* What an exit fill leaves: of a part, a position that has been charged its share; of
\* the rest, a closed row whose fee agrees unless it had filled in part before.
LEMMA ExitLeaves ==
  ASSUME Setting, NEW row \in HeldRow, Sound(row), NEW lots \in 1..row.left
  PROVE  /\ lots < row.left => AfterExit(row, lots) \in HeldRow /\ Sound(AfterExit(row, lots))
         /\ lots = row.left =>
              /\ AfterExit(row, lots) \in ClosedRow
              /\ AfterExit(row, lots).fills = 1 => FeesAgree(AfterExit(row, lots))
<1>1. /\ row.left \in 1..Lots /\ row.charged = Lots - row.left /\ row.fills \in Nat /\ Lots \in Nat \ {0}
      /\ row.fills = 0 => row.left = Lots
  BY DEF HeldRow, Sound, FeesAgree, Setting
<1>2. CASE lots < row.left
  <2>1. AfterExit(row, lots) = [left |-> row.left - lots, charged |-> row.charged + lots, fills |-> row.fills + 1]
    BY <1>1, <1>2 DEF AfterExit, EntryFee
  <2>2. row.left - lots \in 1..Lots /\ row.charged + lots = Lots - (row.left - lots) /\ row.fills + 1 \in Nat \ {0}
    BY <1>1, <1>2
  <2>3. row.charged + lots \in 0..Lots
    BY <1>1, <1>2
  <2>4. QED
    BY <1>2, <2>1, <2>2, <2>3 DEF HeldRow, Sound, FeesAgree
<1>3. CASE lots = row.left
  <2>1. AfterExit(row, lots) = [left |-> 0, charged |-> row.charged + Lots, fills |-> row.fills + 1]
    BY <1>1, <1>3 DEF AfterExit, EntryFee
  <2>2. row.charged + Lots \in Lots..2*Lots /\ row.fills + 1 \in Nat \ {0}
    BY <1>1
  <2>3. row.fills + 1 = 1 => row.charged + Lots = Lots - 0
    BY <1>1
  <2>4. QED
    BY <1>3, <2>1, <2>2, <2>3 DEF ClosedRow, FeesAgree
<1>4. QED
  BY <1>2, <1>3

\* What a writer books, by version, is what stands with its own position changed.
LEMMA CommitWriteStep ==
  ASSUME BooksIInv, Setting, NEW w \in Writers, CommitWrite(w)
  PROVE  BooksIInv'
<1> DEFINE a == w.asset
<1>1. /\ writing[w].booked = booked /\ writing[w].cached = cached /\ cached = ledger /\ equity = booked
      /\ writing[w].row = holding[a] /\ w \in Jobs
      /\ w.kind = "monitor" => 0 < booked[a] /\ booked[a] < newest[a]
  BY DEF CommitWrite, VersionHolds, BooksIInv, WriterHolds, BooksStayTrue, CacheFollowsBooks, Setting
<1>2. booked \in Candles /\ newest \in Candles /\ ledger \in 0..MaxLedger /\ a \in Assets
  BY <1>1 DEF BooksIInv, BooksTypes, Jobs
<1>3. /\ holding \in [Assets -> HeldRow] /\ settled \subseteq ClosedRow
      /\ \A b \in Assets : booked[b] > 0 => Sound(holding[b])
      /\ \A row \in settled : row.fills = 1 => FeesAgree(row)
  BY DEF BooksIInv, RowsAgree
<1>4. writing' \in [Writers -> Write] /\ \A x \in Writers : writing'[x].at = "idle" \/ writing'[x].fresh = FALSE
  <2>1. writing' = [Outdated EXCEPT ![w] = NotWriting]
    BY DEF CommitWrite
  <2>2. Outdated \in [Writers -> Write] /\ \A x \in Writers : Outdated[x].fresh = FALSE
    BY OutdatedTyped DEF BooksIInv, BooksTypes
  <2>3. QED
    BY <2>1, <2>2, BlankWriteTyped
<1>5. UNCHANGED <<newest, defects, locked, appeared>> /\ SomethingCommits
  BY DEF CommitWrite
<1>6. ASSUME NEW c \in Nat, c <= newest[a], NEW n \in {0, 1}, Book(w, c, n), RowsAgree'
      PROVE  BooksIInv'
  <2>1. booked' = [booked EXCEPT ![a] = c] /\ equity' = booked'
    BY <1>1, <1>6 DEF Book, ValueForCache, ValueOnBooked
  <2>2. booked' \in Candles /\ \A b \in Assets : booked'[b] <= newest[b]
    BY <1>2, <1>6, <2>1 DEF Candles, BooksIInv, BookedIsStored
  <2>3. ledger' \in 0..MaxLedger /\ cached' = ledger'
    BY <1>1, <1>2, <1>6 DEF Book, Setting
  <2>4. QED
    BY <1>4, <1>5, <1>6, <2>1, <2>2, <2>3, Booking
<1>7. ASSUME NEW c \in Nat, NEW n \in {0, 1}, Book(w, c, n)
      PROVE  \A b \in Assets : booked'[b] = IF b = a THEN c ELSE booked[b]
  BY <1>2, <1>7 DEF Book, Candles
<1>8. newest[a] \in Nat /\ booked[a] \in Nat
  BY <1>2 DEF Candles
<1>9. CASE BookEntry(w)
  <2>1. PICK c \in 1..newest[a] : Book(w, c, 1)
    BY <1>9 DEF BookEntry
  <2>2. NewHolding \in HeldRow /\ Sound(NewHolding)
    BY DEF NewHolding, NoHolding, HeldRow, Sound, FeesAgree, Setting
  <2>3. holding' = [holding EXCEPT ![a] = NewHolding] /\ settled' = settled
    BY <1>9 DEF BookEntry
  <2>4. c \in Nat /\ c <= newest[a]
    BY <1>8
  <2>5. RowsAgree'
    BY <1>2, <1>3, <1>7, <2>1, <2>2, <2>3, <2>4 DEF RowsAgree
  <2>6. QED
    BY <1>6, <2>1, <2>4, <2>5
<1>10. CASE BookMark(w)
  <2>1. w.kind = "monitor" /\ Book(w, booked[a] + 1, 0) /\ UNCHANGED <<holding, settled>>
    BY <1>1, <1>10 DEF BookMark
  <2>2. booked[a] + 1 \in Nat /\ booked[a] + 1 <= newest[a] /\ booked[a] > 0
    BY <1>1, <1>8, <2>1
  <2>3. RowsAgree'
    BY <1>2, <1>3, <1>7, <2>1, <2>2 DEF RowsAgree
  <2>4. QED
    BY <1>6, <2>1, <2>2, <2>3
<1>11. CASE BookExit(w)
  <2> DEFINE row == holding[a]
  <2>1. w.kind = "monitor" /\ row \in HeldRow /\ Sound(row) /\ booked[a] > 0 /\ row.left \in 1..Lots
    BY <1>1, <1>2, <1>3, <1>8, <1>11 DEF BookExit, HeldRow, Sound
  <2>2. CASE /\ \E lots \in 1..(row.left - 1) : holding' = [holding EXCEPT ![a] = AfterExit(row, lots)]
             /\ Book(w, booked[a] + 1, 1) /\ settled' = settled
    <3>1. PICK lots \in 1..(row.left - 1) : holding' = [holding EXCEPT ![a] = AfterExit(row, lots)]
      BY <2>2
    <3>2. lots \in 1..row.left /\ lots < row.left
      BY <2>1 DEF Setting
    <3>3. AfterExit(row, lots) \in HeldRow /\ Sound(AfterExit(row, lots))
      BY <2>1, <3>2, ExitLeaves
    <3>4. booked[a] + 1 \in Nat /\ booked[a] + 1 <= newest[a]
      BY <1>1, <1>8, <2>1
    <3>5. RowsAgree'
      <4> HIDE DEF row
      <4> QED BY <1>2, <1>3, <1>7, <2>2, <3>1, <3>3, <3>4 DEF RowsAgree
    <3>6. QED
      BY <1>6, <2>2, <3>4, <3>5
  <2>3. CASE /\ Book(w, 0, 1) /\ holding' = [holding EXCEPT ![a] = NoHolding]
             /\ settled' = settled \cup {AfterExit(row, row.left)}
    <3>1. /\ AfterExit(row, row.left) \in ClosedRow
          /\ AfterExit(row, row.left).fills = 1 => FeesAgree(AfterExit(row, row.left))
      BY <2>1, ExitLeaves DEF Setting
    <3>2. 0 \in Nat /\ 0 <= newest[a]
      BY <1>8
    <3>3. RowsAgree'
      <4> DEFINE left == AfterExit(row, row.left)
      <4>1. settled' = settled \cup {left} /\ left \in ClosedRow /\ (left.fills = 1 => FeesAgree(left))
        BY <2>3, <3>1
      <4> HIDE DEF left
      <4> QED BY <1>2, <1>3, <1>7, <2>3, <3>2, <4>1, BlankWriteTyped DEF RowsAgree
    <3>4. QED
      BY <1>6, <2>3, <3>2, <3>3
  <2>4. QED
    BY <1>1, <1>11, <2>2, <2>3 DEF BookExit
<1>12. CASE BookDay(w)
  <2>1. /\ equity' = booked' /\ booked' = booked /\ ledger' = ledger /\ cached' = ledger'
        /\ UNCHANGED <<holding, settled>>
    BY <1>1, <1>12 DEF BookDay, ValueForCache, ValueOnBooked
  <2>2. RowsAgree' /\ \A b \in Assets : booked'[b] <= newest[b]
    BY <2>1 DEF BooksIInv, BookedIsStored, RowsAgree
  <2>3. QED
    BY <1>2, <1>4, <1>5, <2>1, <2>2, Booking
<1>13. QED
  BY <1>9, <1>10, <1>11, <1>12 DEF CommitWrite

LEMMA AbortWriteStep ==
  ASSUME BooksIInv, Setting, NEW w \in Writers, AbortWrite(w)
  PROVE  BooksIInv'
<1>1. /\ writing' = [writing EXCEPT ![w] = NotWriting]
      /\ UNCHANGED <<newest, booked, equity, holding, settled, ledger, cached, defects, recon, locked, risk, appeared>>
  BY DEF AbortWrite
<1>2. writing' \in [Writers -> Write] /\ \A x \in Writers : writing'[x] = IF x = w THEN NotWriting ELSE writing[x]
  BY <1>1, BlankWriteTyped DEF BooksIInv, BooksTypes
<1>3. ASSUME NEW x \in Writers PROVE WriterHolds(x)'
  BY <1>1, <1>2, BlankWriteTyped DEF BooksIInv, WriterHolds
<1>4. AssemblyHolds' /\ RefusalHasCause'
  BY <1>1 DEF BooksIInv, BooksStayTrue, AssemblyHolds, Open, RefusalHasCause
<1>5. recon' \in Check /\ NoFalseLock' /\ risk' \in Assembly /\ locked' \in BOOLEAN
  BY <1>1 DEF BooksIInv, BooksTypes, BooksStayTrue, NoFalseLock
<1>6. QED
  BY <1>1, <1>2, <1>3, <1>4, <1>5, WritersMove

LEMMA MoveReserveStep ==
  ASSUME BooksIInv, Setting, MoveReserve
  PROVE  BooksIInv'
<1>1. /\ ledger' = ledger + 1 /\ cached' = cached + 1 /\ ledger < MaxLedger /\ writing' = Outdated
      /\ SomethingCommits /\ UNCHANGED <<newest, booked, equity, holding, settled, defects, locked, appeared>>
  BY DEF MoveReserve
<1>2. /\ booked' \in Candles /\ equity' = booked' /\ ledger' \in 0..MaxLedger /\ cached' = ledger'
      /\ \A a \in Assets : booked'[a] <= newest[a]
      /\ RowsAgree'
  BY <1>1 DEF BooksIInv, BooksTypes, BooksStayTrue, CacheFollowsBooks, BookedIsStored, RowsAgree, Setting
<1>3. writing' \in [Writers -> Write] /\ \A x \in Writers : writing'[x].fresh = FALSE
  BY <1>1, OutdatedTyped DEF BooksIInv, BooksTypes
<1>4. QED
  BY <1>1, <1>2, <1>3, Booking

\* Damage touches no cache; the snapshot read before it knows nothing of it.
LEMMA DamageStep ==
  ASSUME BooksIInv, Setting, NEW kind \in Kinds, Damage(kind)
  PROVE  BooksIInv'
<1>1. /\ defects' = defects \cup {kind} /\ appeared' = appeared + 1 /\ appeared < MaxDefects
      /\ UNCHANGED <<newest, booked, equity, holding, settled, ledger, cached, writing, recon, locked, risk>>
  BY DEF Damage
<1>2. BooksTypes'
  BY <1>1 DEF BooksIInv, BooksTypes, Setting
<1>3. BookedIsStored' /\ RowsAgree' /\ AssemblyHolds' /\ BooksStayTrue' /\ \A w \in Writers : WriterHolds(w)'
  BY <1>1 DEF BooksIInv, BookedIsStored, RowsAgree, AssemblyHolds, Open, BooksStayTrue, CacheFollowsBooks, NoFalseLock,
              RefusalHasCause, WriterHolds
<1>4. QED
  BY <1>2, <1>3 DEF BooksIInv

----------------------------------------------------------------------------
(* The reconciliation                                                      *)

\* The snapshot is of one moment, at which the cache is what the books say: a finding
\* has a cause that is there.
LEMMA FindingsExplained ==
  ASSUME BooksIInv, NEW valued \in BOOLEAN
  PROVE  /\ Violations(valued) \in SUBSET Findings /\ Causes(valued) \in SUBSET Cause
         /\ Violations(valued) \subseteq Explained(Causes(valued))
<1>1. equity = booked /\ cached = ledger
  BY DEF BooksIInv, BooksStayTrue, CacheFollowsBooks
<1>2. (\E row \in RowsInBooks : ~FeesAgree(row)) => ClosedInParts
  <2>1. ASSUME NEW row \in RowsInBooks, ~FeesAgree(row) PROVE row \in settled /\ row.fills # 1
    BY <2>1 DEF RowsInBooks, Open, BooksIInv, RowsAgree, Sound
  <2>2. ASSUME NEW row \in settled, row.fills # 1 PROVE row.fills > 1
    <3>1. row.fills \in Nat \ {0}
      BY DEF BooksIInv, RowsAgree, ClosedRow
    <3>2. QED BY <2>2, <3>1
  <2>3. QED
    BY <2>1, <2>2 DEF ClosedInParts
<1>3. /\ ~valued => "UNVALUED" \in Causes(valued)
      /\ ClosedInParts => "CLOSED_IN_PARTS" \in Causes(valued)
      /\ defects \subseteq Causes(valued)
  BY DEF Causes
<1>4. equity = ValueForCheck(booked) /\ LedgerReplays
  BY <1>1 DEF ValueForCheck, ValueOnBooked, LedgerReplays
<1>5. ASSUME NEW v \in Violations(valued) PROVE v \in Explained(Causes(valued)) /\ v \in Findings
  <2>1. \/ v \in {"EQUITY_MISMATCH", "INVALID_AMOUNT"} /\ ~valued
        \/ v = "PNL_SIGN_MISMATCH" /\ \E row \in RowsInBooks : ~FeesAgree(row)
        \/ v \in defects \cap AllDefects
    BY <1>4, <1>5 DEF Violations
  <2>2. QED
    BY <1>2, <1>3, <2>1 DEF Explained, Findings
<1>6. Causes(valued) \in SUBSET Cause
  BY DEF Causes, Cause, BooksIInv, BooksTypes
<1>7. QED
  BY <1>5, <1>6

LEMMA ReadSnapshotStep ==
  ASSUME BooksIInv, ReadSnapshot
  PROVE  BooksIInv'
<1>1. UNCHANGED <<newest, booked, equity, holding, settled, ledger, cached, defects, writing, locked, risk, appeared>>
  BY DEF ReadSnapshot
<1>2. PICK valued \in BOOLEAN :
        recon' = [at |-> "decide", fresh |-> TRUE, violations |-> Violations(valued), cause |-> Causes(valued)]
  BY DEF ReadSnapshot
<1>3. /\ Violations(valued) \in SUBSET Findings /\ Causes(valued) \in SUBSET Cause
      /\ Violations(valued) \subseteq Explained(Causes(valued))
  BY FindingsExplained
<1>4. recon' \in Check /\ recon'.violations = Violations(valued) /\ recon'.cause = Causes(valued)
  BY <1>2, <1>3 DEF Check
<1>5. recon' \in Check /\ NoFalseLock'
  BY <1>3, <1>4 DEF NoFalseLock
<1>6. \A w \in Writers : WriterHolds(w)'
  BY <1>1 DEF BooksIInv, WriterHolds
<1>7. AssemblyHolds' /\ RefusalHasCause'
  BY <1>1 DEF BooksIInv, BooksStayTrue, AssemblyHolds, Open, RefusalHasCause
<1>8. risk' \in Assembly /\ locked' \in BOOLEAN /\ writing' \in [Writers -> Write]
  BY <1>1 DEF BooksIInv, BooksTypes
<1>9. QED
  BY <1>1, <1>5, <1>6, <1>7, <1>8, WritersMove

\* The outcome of a check is written, or nothing when a commit came in between: the
\* versions of the writers end, the assembler's reads are torn.
LEMMA OutcomeStep ==
  ASSUME BooksIInv, Setting, Mismatch \/ Consistent \/ VersionConflict
  PROVE  BooksIInv'
<1> DEFINE torn == risk.at \in {"rest", "marks"} \/ risk.torn
<1>1. /\ recon' = NoSnapshot /\ locked' \in BOOLEAN
      /\ UNCHANGED <<newest, booked, equity, holding, settled, ledger, cached, defects, appeared>>
      /\ \/ writing' = Outdated /\ risk' = [risk EXCEPT !.torn = torn]
         \/ UNCHANGED <<writing, risk>>
  BY DEF Mismatch, Consistent, VersionConflict, BooksIInv, BooksTypes
<1>2. recon' \in Check /\ NoFalseLock'
  BY <1>1, BlankWriteTyped DEF NoFalseLock
<1>3. CASE writing' = Outdated /\ risk' = [risk EXCEPT !.torn = torn]
  <2>1. writing' \in [Writers -> Write] /\ \A w \in Writers : writing'[w].fresh = FALSE
    BY <1>3, OutdatedTyped DEF BooksIInv, BooksTypes
  <2>2. risk \in Assembly /\ torn \in BOOLEAN
    BY DEF BooksIInv, BooksTypes, Assembly
  <2>3. /\ risk' \in Assembly /\ risk'.at = risk.at /\ risk'.finding = risk.finding
        /\ risk'.behind = risk.behind /\ risk'.torn = torn
    <3> HIDE DEF torn
    <3> QED BY <1>3, <2>2 DEF Assembly
  <2>4. AssemblyHolds' /\ RefusalHasCause'
    BY <2>3 DEF BooksIInv, BooksStayTrue, AssemblyHolds, RefusalHasCause
  <2>5. \A w \in Writers : WriterHolds(w)'
    BY <2>1 DEF WriterHolds
  <2>6. QED
    BY <1>1, <1>2, <2>1, <2>3, <2>4, <2>5, WritersMove
<1>4. CASE UNCHANGED <<writing, risk>>
  <2>1. AssemblyHolds' /\ RefusalHasCause' /\ \A w \in Writers : WriterHolds(w)'
    BY <1>1, <1>4 DEF BooksIInv, BooksStayTrue, AssemblyHolds, Open, RefusalHasCause, WriterHolds
  <2>2. risk' \in Assembly /\ writing' \in [Writers -> Write]
    BY <1>4 DEF BooksIInv, BooksTypes
  <2>3. QED
    BY <1>1, <1>2, <2>1, <2>2, WritersMove
<1>5. QED
  BY <1>1, <1>3, <1>4

----------------------------------------------------------------------------
(* The assembler                                                           *)

\* A step of the assembler alone.
LEMMA AssemblerMoves ==
  ASSUME BooksIInv, risk' \in Assembly, AssemblyHolds', RefusalHasCause',
         UNCHANGED <<newest, booked, equity, holding, settled, ledger, cached, defects, writing, recon, locked, appeared>>
  PROVE  BooksIInv'
<1>1. \A w \in Writers : WriterHolds(w)'
  BY DEF BooksIInv, WriterHolds
<1>2. /\ recon' \in Check /\ NoFalseLock' /\ locked' \in BOOLEAN
      /\ writing' \in [Writers -> Write]
  BY DEF BooksIInv, BooksTypes, BooksStayTrue, NoFalseLock
<1>3. QED
  BY <1>1, <1>2, WritersMove

LEMMA ReadsStep ==
  ASSUME BooksIInv, Setting, ReadPortfolio \/ ReadLedgerAndPositions \/ NextAssessment
  PROVE  BooksIInv'
<1>1. UNCHANGED <<newest, booked, equity, holding, settled, ledger, cached, defects, writing, recon, locked, appeared>>
  BY DEF ReadPortfolio, ReadLedgerAndPositions, NextAssessment
<1>2. CASE ReadPortfolio
  <2>1. equity \in Candles /\ cached \in 0..MaxLedger
    BY DEF BooksIInv, BooksTypes
  <2>2. /\ risk' \in Assembly /\ risk'.at = "rest" /\ risk'.equity = equity /\ risk'.cached = cached
    BY <1>2, <2>1, BlankWriteTyped DEF ReadPortfolio, Assembly
  <2>3. QED
    BY <1>1, <2>2, AssemblerMoves DEF AssemblyHolds, RefusalHasCause
<1>3. CASE ReadLedgerAndPositions
  <2>1. risk \in Assembly /\ Open \in SUBSET Assets /\ ledger \in 0..MaxLedger /\ risk.at = "rest"
    BY <1>3 DEF BooksIInv, BooksTypes, Open, ReadLedgerAndPositions
  <2>2. /\ risk' \in Assembly /\ risk'.at = "marks" /\ risk'.held = Open /\ risk'.ledger = ledger
        /\ risk'.torn = risk.torn /\ risk'.equity = risk.equity /\ risk'.cached = risk.cached
    BY <1>3, <2>1 DEF ReadLedgerAndPositions, Assembly
  <2>3. AssemblyHolds' /\ RefusalHasCause'
    BY <1>1, <2>1, <2>2 DEF BooksIInv, AssemblyHolds, Open, RefusalHasCause
  <2>4. QED
    BY <1>1, <2>2, <2>3, AssemblerMoves
<1>4. CASE NextAssessment
  <2>1. risk' = NoAssembly
    BY <1>4 DEF NextAssessment
  <2>2. QED
    BY <1>1, <2>1, BlankWriteTyped, AssemblerMoves DEF AssemblyHolds, RefusalHasCause
<1>5. QED
  BY <1>2, <1>3, <1>4

\* Untorn reads of books whose newest candles are all booked agree.
LEMMA AssessStep ==
  ASSUME BooksIInv, Setting, AssessConsistency
  PROVE  BooksIInv'
<1> DEFINE finding == ~PortfolioConsistency
           behind == \E a \in Open : booked[a] < newest[a]
<1>1. /\ risk.at = "marks"
      /\ risk' = [NoAssembly EXCEPT !.at = "done", !.torn = risk.torn, !.finding = finding, !.behind = behind]
      /\ UNCHANGED <<newest, booked, equity, holding, settled, ledger, cached, defects, writing, recon, locked, appeared>>
  BY DEF AssessConsistency
<1>2. risk \in Assembly /\ finding \in BOOLEAN /\ behind \in BOOLEAN
  BY DEF BooksIInv, BooksTypes
<1>3. /\ risk' \in Assembly /\ risk'.at = "done" /\ risk'.torn = risk.torn /\ risk'.finding = finding
      /\ risk'.behind = behind
  <2> HIDE DEF finding, behind
  <2>1. risk.torn \in BOOLEAN
    BY <1>2 DEF Assembly
  <2>2. QED BY <1>1, <1>2, <2>1, BlankWriteTyped DEF Assembly
<1>4. ASSUME ~risk.torn, ~behind PROVE PortfolioConsistency
  <2>1. /\ risk.equity = booked /\ risk.cached = risk.ledger /\ risk.held = Open
    BY <1>1, <1>4 DEF BooksIInv, AssemblyHolds, BooksStayTrue, CacheFollowsBooks
  <2>2. booked \in Candles /\ newest \in Candles
    BY DEF BooksIInv, BooksTypes
  <2>3. \A a \in Assets : booked[a] \in Nat /\ newest[a] \in Nat
    BY <2>2 DEF Candles, Setting
  <2>4. \A a \in Assets : booked[a] > 0 => newest[a] = booked[a]
    BY <1>4, <2>3 DEF BooksIInv, BookedIsStored, Open
  <2>5. ASSUME NEW a \in Assets
        PROVE  booked[a] = IF a \in risk.held THEN ValueOnNewest(booked)[a] ELSE 0
    <3>1. ValueOnNewest(booked)[a] = IF booked[a] > 0 THEN newest[a] ELSE 0
      BY DEF ValueOnNewest
    <3>2. QED BY <2>1, <2>3, <2>4, <3>1 DEF Open
  <2>6. booked = [a \in Assets |-> IF a \in risk.held THEN ValueOnNewest(booked)[a] ELSE 0]
    BY <2>2, <2>5 DEF Candles
  <2>7. QED
    BY <2>1, <2>6 DEF PortfolioConsistency
<1>5. risk'.finding => risk'.torn \/ risk'.behind
  BY <1>2, <1>3, <1>4, Zenon
<1>6. QED
  BY <1>1, <1>3, <1>5, AssemblerMoves DEF AssemblyHolds, RefusalHasCause

----------------------------------------------------------------------------
(* The theorems                                                            *)

LEMMA BooksInitially ==
  ASSUME Setting, BooksInit
  PROVE  BooksIInv
<1>1. /\ newest = Unvalued /\ booked = Unvalued /\ equity = Unvalued /\ ledger = 1 /\ cached = 1
      /\ defects = {} /\ locked = FALSE /\ appeared = 0
      /\ writing = [w \in Writers |-> NotWriting] /\ recon = NoSnapshot /\ risk = NoAssembly
  BY DEF BooksInit
<1>2. BooksTypes
  <2>1. 1 \in 0..MaxLedger /\ 0 \in 0..MaxDefects
    BY DEF Setting
  <2>2. writing \in [Writers -> Write]
    BY <1>1, BlankWriteTyped
  <2>3. newest \in Candles /\ booked \in Candles /\ equity \in Candles /\ recon \in Check /\ risk \in Assembly
    BY <1>1, BlankWriteTyped
  <2>4. QED
    BY <1>1, <2>1, <2>2, <2>3 DEF BooksTypes
<1>3. BookedIsStored /\ RowsAgree
  <2>1. holding = [a \in Assets |-> NoHolding] /\ settled = {}
    BY DEF BooksInit
  <2>2. QED
    BY <1>1, <2>1, BlankWriteTyped DEF BookedIsStored, RowsAgree, Unvalued
<1>4. AssemblyHolds /\ BooksStayTrue /\ \A w \in Writers : WriterHolds(w)
  BY <1>1, BlankWriteTyped DEF AssemblyHolds, BooksStayTrue, CacheFollowsBooks, NoFalseLock, RefusalHasCause, WriterHolds
<1>5. QED
  BY <1>2, <1>3, <1>4 DEF BooksIInv

LEMMA BooksNextStep ==
  ASSUME BooksIInv, Setting, [BooksNext]_booksVars
  PROVE  BooksIInv'
<1>1. ASSUME NEW a \in Assets, Ingest(a) PROVE BooksIInv'
  BY <1>1, IngestStep
<1>2. ASSUME NEW w \in Writers, StartWrite(w) \/ CommitWrite(w) \/ AbortWrite(w) PROVE BooksIInv'
  BY <1>2, StartWriteStep, CommitWriteStep, AbortWriteStep
<1>3. CASE MoveReserve
  BY <1>3, MoveReserveStep
<1>4. ASSUME NEW kind \in Kinds, Damage(kind) PROVE BooksIInv'
  BY <1>4, DamageStep
<1>5. CASE Reconcile
  BY <1>5, ReadSnapshotStep, OutcomeStep DEF Reconcile
<1>6. CASE Assess
  BY <1>6, ReadsStep, AssessStep DEF Assess
<1>7. CASE UNCHANGED booksVars
  BY <1>7 DEF booksVars, BooksIInv, BooksTypes, RowsAgree, BookedIsStored, AssemblyHolds, Open, WriterHolds, BooksStayTrue,
              CacheFollowsBooks, NoFalseLock, RefusalHasCause
<1>8. QED
  BY <1>1, <1>2, <1>3, <1>4, <1>5, <1>6, <1>7 DEF BooksNext

\* The invariant: a writer whose version holds has read what is stored, a position has
\* been charged its entry fee for the lots that are closed unless its exit filled in
\* parts to the end, and untorn reads of the assembler are of one moment (the portfolio's version in
\* shadowFillPersistence.ts, shadowPositionMonitor.ts and shadowTradingDay.ts).
THEOREM BooksInvariant ==
  ASSUME Setting
  PROVE  BooksSpec => []BooksIInv
<1>1. BooksInit => BooksIInv
  BY BooksInitially
<1>2. BooksIInv /\ [BooksNext]_booksVars => BooksIInv'
  BY BooksNextStep
<1>3. QED
  BY <1>1, <1>2, PTL DEF BooksSpec

\* The cached equity and sequence are those of the stored books after every commit;
\* what the reconciliation finds is damage that was there, an exit that filled in parts
\* (shadowPositionMonitor.ts:642) or a position it could not value; and R-003 refuses
\* the books only when a job committed between its queries or a candle is not booked yet.
THEOREM BooksAreTrue ==
  ASSUME Setting
  PROVE  BooksSpec => []BooksStayTrue
<1>1. BooksIInv => BooksStayTrue
  BY DEF BooksIInv
<1>2. QED
  BY <1>1, BooksInvariant, PTL

\* The rows, the readers and the writers keep their types; no candle is booked that
\* is not stored.
THEOREM BooksTypeCorrect ==
  ASSUME Setting
  PROVE  BooksSpec => []BooksTypeOK
<1>1. ASSUME BooksTypes, RowsAgree PROVE BooksTypeOK
  <2>1. \A w \in Writers : writing[w].at \in {"idle", "commit"}
    BY <1>1 DEF BooksTypes, Write
  <2>2. recon.at \in {"idle", "decide"} /\ risk.at \in {"idle", "rest", "marks", "done"}
    BY <1>1 DEF BooksTypes, Check, Assembly
  <2>3. QED
    BY <1>1, <2>1, <2>2 DEF BooksTypes, RowsAgree, HeldRow, ClosedRow, BooksTypeOK, Candles
<1>2. BooksIInv => BooksTypeOK
  BY <1>1 DEF BooksIInv
<1>3. QED
  BY <1>2, BooksInvariant, PTL

===============================================================================
