---------------------------- MODULE CandidateScan ----------------------------
(***************************************************************************)
(* The candidate scan: runs evaluate each strategy of an asset on the      *)
(* latest closed candle and store a candidate, a refusal or a skip.  Runs  *)
(* may overlap: one started by hand holds no lease and keeps no cursor.    *)
(* The verdict of the strategy engine is any it can give; what becomes of  *)
(* a stored candidate is module CandidateDecision.                         *)
(***************************************************************************)
EXTENDS Integers

CONSTANTS
  Strategies,    \* strategies with an enabled assignment on the asset, in one portfolio
  ScanRuns,      \* runs of the candidate scan
  ByHand,        \* those of them started by hand, without the anchor cursor
  TicksPerAnchor,\* scans between two anchor candles
  Ttl,           \* candidateTtlMs, in ticks from the anchor's close
  MaxTime,       \* bounds for model checking: the clock,
  MaxRevisions,  \*   revisions of the data behind a snapshot,
  MaxHandRuns,   \*   scans by hand,
  MaxDeaths      \*   runs that die

VARIABLES
  now, stored,   \* the clock; the latest anchor candle that is stored
  data,          \* revision of the inputs of a snapshot
  occupied,      \* the portfolio's slot for the asset is taken
  cands,         \* TradeCandidate, by candidateKey: [revision, at] of its snapshot
  refused,       \* keys with an EVALUATION_REJECTED audit event
  skipped,       \* keys with a CANDIDATE_SKIPPED audit event
  conflicts,     \* keys with a CRITICAL hash-conflict event
  cursor,        \* TradingJobCursor, per strategy: the last anchor handled
  scans,         \* what each run is doing
  handRuns, scanDeaths

scanVars == <<now, stored, data, occupied, cands, refused, skipped, conflicts, cursor, scans,
              handRuns, scanDeaths>>
world == <<now, stored, data, occupied, handRuns, scanDeaths>>
records == <<cands, refused, skipped, conflicts, cursor>>

Anchors == 0..(MaxTime \div TicksPerAnchor)
CandidateKeys == Strategies \X Anchors
AnchorAt(t) == t \div TicksPerAnchor
Earlier(a, b) == IF a < b THEN a ELSE b
ExpiresAt(k) == k[2] * TicksPerAnchor + Ttl

NoCandidate == [at |-> -1, revision |-> 0]
Stored(k) == cands[k] # NoCandidate

AnyKey == CHOOSE k \in CandidateKeys : TRUE
NoScan == [at |-> "idle", asOf |-> 0, anchor |-> -1, todo |-> {}, key |-> AnyKey, revision |-> 0]

ScanTypeOK ==
  /\ now \in 0..MaxTime /\ stored \in Anchors
  /\ data \in 0..MaxRevisions /\ occupied \in BOOLEAN
  /\ cands \in [CandidateKeys -> [at : -1..MaxTime, revision : 0..MaxRevisions]]
  /\ refused \subseteq CandidateKeys /\ skipped \subseteq CandidateKeys /\ conflicts \subseteq CandidateKeys
  /\ cursor \in [Strategies -> {-1} \cup Anchors]
  /\ \A r \in ScanRuns : scans[r].at \in {"idle", "next", "assemble", "lookup", "store", "cursor"}

ScanInit ==
  /\ now = 0 /\ stored = 0 /\ data = 0 /\ occupied \in BOOLEAN
  /\ cands = [k \in CandidateKeys |-> NoCandidate]
  /\ refused = {} /\ skipped = {} /\ conflicts = {}
  /\ cursor = [s \in Strategies |-> -1]
  /\ scans = [r \in ScanRuns |-> NoScan]
  /\ handRuns = 0 /\ scanDeaths = 0

ScanGoes(r, at) == scans' = [scans EXCEPT ![r].at = at]
\* On to the next strategy.
ScanDone(r) == scans' = [scans EXCEPT ![r].at = "next", ![r].todo = @ \ {scans[r].key[1]}]

----------------------------------------------------------------------------
(* A run                                                                   *)

\* The run starts: the anchor is the latest stored candle closed by asOf.
ScanStart(r) ==
  /\ scans[r].at = "idle" /\ (r \in ByHand => handRuns < MaxHandRuns)
  /\ scans' = [scans EXCEPT ![r] = [NoScan EXCEPT !.at = "next", !.asOf = now, !.todo = Strategies,
                                      !.anchor = Earlier(stored, AnchorAt(now))]]
  /\ handRuns' = IF r \in ByHand THEN handRuns + 1 ELSE handRuns
  /\ UNCHANGED <<now, stored, data, occupied, scanDeaths, records>>

\* The catch-up scan passes over a strategy whose cursor has reached the anchor.
ScanPick(r, s) ==
  /\ scans[r].at = "next" /\ s \in scans[r].todo
  /\ scans' = IF r \notin ByHand /\ cursor[s] >= scans[r].anchor
                THEN [scans EXCEPT ![r].todo = @ \ {s}]
                ELSE [scans EXCEPT ![r].at = "assemble", ![r].key = <<s, 0>>]
  /\ UNCHANGED <<world, records>>

ScanEnds(r) ==
  /\ scans[r].at = "next" /\ scans[r].todo = {}
  /\ scans' = [scans EXCEPT ![r] = NoScan]
  /\ UNCHANGED <<world, records>>

\* Mutant: the cursor moves although nothing was decided.
AssembleFailsIntoCursor(r) ==
  /\ scans[r].at = "assemble"
  /\ ScanGoes(r, "cursor")
  /\ UNCHANGED <<world, records>>

\* assembleStrategyInput cannot build a snapshot; the cursor stays.
AssembleFails(r) ==
  /\ scans[r].at = "assemble"
  /\ ScanDone(r)
  /\ UNCHANGED <<world, records>>

\* The snapshot is taken now, up to asOf: its anchor may be later than the run's.
SnapshotKey(r) == <<scans[r].key[1], Earlier(stored, AnchorAt(scans[r].asOf))>>

\* The strategy refuses; persistRejection records it.
Refuse(r) ==
  /\ scans[r].at = "assemble"
  /\ refused' = refused \cup {SnapshotKey(r)}
  /\ ScanGoes(r, "cursor")
  /\ UNCHANGED <<world, cands, skipped, conflicts, cursor>>

\* The strategy proposes a candidate that is still valid.
Propose(r) ==
  /\ scans[r].at = "assemble" /\ scans[r].asOf < ExpiresAt(SnapshotKey(r))
  /\ scans' = [scans EXCEPT ![r].at = "lookup", ![r].key = SnapshotKey(r),
                            ![r].revision = data]
  /\ UNCHANGED <<world, records>>

\* Mutant: any other snapshot of the anchor is a conflict.
ConflictingAtAnyTime(r) ==
  LET k == scans[r].key IN
  Stored(k) /\ (cands[k].at # scans[r].asOf \/ cands[k].revision # scans[r].revision)

\* persistCandidate, before its transaction.  A candidate of the key decided at
\* another time, or by the same snapshot, and a recorded skip end the matter; the
\* same time with another snapshot is a conflict, after which the cursor stays.
Conflicting(r) ==
  LET k == scans[r].key IN
  Stored(k) /\ cands[k].at = scans[r].asOf /\ cands[k].revision # scans[r].revision

\* One CRITICAL event per key, however often it is found.
RecordHashConflict(k) == conflicts' = conflicts \cup {k}

Lookup(r) ==
  LET k == scans[r].key IN
  /\ scans[r].at = "lookup"
  /\ IF Conflicting(r)
       THEN RecordHashConflict(k) /\ ScanDone(r)
       ELSE /\ ScanGoes(r, IF Stored(k) \/ k \in skipped THEN "cursor" ELSE "store")
            /\ UNCHANGED conflicts
  /\ UNCHANGED <<world, cands, refused, skipped, cursor>>

\* One audit event per key tells of the skip.
RecordSkip(k) == skipped' = skipped \cup {k}

\* The transaction: the slot decides between a skip and the insert.  An insert
\* that loses the unique key throws, and the cursor stays.
Store(r) ==
  LET k == scans[r].key IN
  /\ scans[r].at = "store"
  /\ IF occupied
       THEN RecordSkip(k) /\ ScanGoes(r, "cursor") /\ UNCHANGED cands
     ELSE IF Stored(k)
       THEN ScanDone(r) /\ UNCHANGED <<skipped, cands>>
     ELSE /\ cands' = [cands EXCEPT ![k] = [at |-> scans[r].asOf, revision |-> scans[r].revision]]
          /\ ScanGoes(r, "cursor") /\ UNCHANGED skipped
  /\ UNCHANGED <<world, refused, conflicts, cursor>>

\* Mutant: the cursor is set to the time of the scan.
AdvanceCursorToNow(r) ==
  /\ scans[r].at = "cursor"
  /\ cursor' = IF r \in ByHand THEN cursor
               ELSE [cursor EXCEPT ![scans[r].key[1]] = scans[r].asOf]
  /\ ScanDone(r)
  /\ UNCHANGED <<world, cands, refused, skipped, conflicts>>

\* The cursor is set to the anchor read at the start, also when it is behind.
AdvanceCursor(r) ==
  /\ scans[r].at = "cursor"
  /\ cursor' = IF r \in ByHand THEN cursor
               ELSE [cursor EXCEPT ![scans[r].key[1]] = scans[r].anchor]
  /\ ScanDone(r)
  /\ UNCHANGED <<world, cands, refused, skipped, conflicts>>

ScanStep(r) ==
  \/ (\E s \in Strategies : ScanPick(r, s)) \/ ScanEnds(r) \/ AssembleFails(r) \/ Refuse(r)
  \/ Propose(r) \/ Lookup(r) \/ Store(r) \/ AdvanceCursor(r)

----------------------------------------------------------------------------
(* The rest of the system                                                  *)

Tick == now < MaxTime /\ now' = now + 1
        /\ UNCHANGED <<stored, data, occupied, handRuns, scanDeaths, scans, records>>

\* The data worker stores the next anchor candle, when it has closed.
StoreCandle ==
  /\ stored < AnchorAt(now) /\ stored' = stored + 1
  /\ UNCHANGED <<now, data, occupied, handRuns, scanDeaths, scans, records>>

\* A late row changes what a snapshot of the same asOf contains.  (At the bound of the
\* clock every run has the same asOf; nothing is revised there.)
Revise ==
  /\ now < MaxTime /\ data < MaxRevisions /\ data' = data + 1
  /\ UNCHANGED <<now, stored, occupied, handRuns, scanDeaths, scans, records>>

\* An order or position takes the slot, or ends.
SlotChanges ==
  /\ occupied' = ~occupied
  /\ UNCHANGED <<now, stored, data, handRuns, scanDeaths, scans, records>>

ScanDies(r) ==
  /\ scans[r].at # "idle" /\ scanDeaths < MaxDeaths /\ scanDeaths' = scanDeaths + 1
  /\ scans' = [scans EXCEPT ![r] = NoScan]
  /\ UNCHANGED <<now, stored, data, occupied, handRuns, records>>

ScanNext ==
  \/ \E r \in ScanRuns : ScanStart(r) \/ ScanStep(r) \/ ScanDies(r)
  \/ Tick \/ StoreCandle \/ Revise \/ SlotChanges

\* The cron keeps starting the scan and a run goes on; time passes, the data
\* worker catches up, and the inputs of a snapshot are not missing for ever.
ScanFairness ==
  /\ \A r \in ScanRuns \ ByHand : WF_scanVars(ScanStart(r)) /\ WF_scanVars(ScanStep(r))
       /\ SF_scanVars(Refuse(r) \/ Propose(r))
  /\ WF_scanVars(Tick) /\ WF_scanVars(StoreCandle)

ScanSpec == ScanInit /\ [][ScanNext]_scanVars /\ ScanFairness

----------------------------------------------------------------------------
(* Properties                                                              *)

\* A cursor at an anchor means that a decision on it, or on a later one, is
\* recorded: no scan, failure, conflict or restart lets a strategy pass over an
\* anchor undecided (the catch-up of runShadowGenerateCandidates).
CursorIsHonest ==
  \A s \in Strategies : cursor[s] >= 0 =>
    \E a \in Anchors : a >= cursor[s] /\ (Stored(<<s, a>>) \/ <<s, a>> \in refused \cup skipped)

\* Every strategy's scan reaches the latest anchor, whatever a scan by hand, a
\* revision of the data, a conflict or a death did on the way.
AnchorsAreReached == \A s \in Strategies : <>[](cursor[s] = AnchorAt(MaxTime))

\* An anchor once skipped for an occupied slot stays decided, even when the slot
\* frees later: no candidate of it is stored, whichever runs overlap.
SkippedStaysSkipped == \A k \in skipped : ~Stored(k)

=============================================================================
