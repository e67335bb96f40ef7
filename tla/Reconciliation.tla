--------------------------- MODULE Reconciliation ---------------------------
(***************************************************************************)
(* The books of one portfolio and those who check them.  Every fill, mark, *)
(* exit and day start writes the cached equity together with the candle    *)
(* each open position is booked on; the reconciliation and the risk rule   *)
(* R-003 compare the cache with the ledger and the open positions while    *)
(* new candles arrive and other jobs commit.                               *)
(*                                                                         *)
(* A candle is a number per asset, in order of its close time.  An amount  *)
(* is represented by what it was computed from: the equity by the candle   *)
(* of each position that it contains, which every change of the open       *)
(* quantity moves; quantities and entry fees by lots, each of which bears  *)
(* the same share of the entry fee.                                        *)
(***************************************************************************)
EXTENDS Naturals, FiniteSets, Functions

CONSTANTS
  Assets,      \* assets the portfolio trades; one position at most on each
  Writers,     \* jobs that book: [kind |-> "fill" | "monitor" | "day", asset]
  Kinds,       \* the defects of the stored books that appear in the model
  Lots,        \* the size of a position: an exit fills in as many parts at most
  MaxCandles,  \* bound on the candles of each asset, for model checking
  MaxJobs,     \* bound on the jobs under way at one time, for model checking
  MaxLedger,   \* bound on the ledger's entries, for model checking
  MaxDefects   \* bound on the defects that appear, for model checking

VARIABLES
  newest,   \* the newest closed candle of each asset, 0 before the first
  booked,   \* the candle each open position is booked on, 0 without a position
  equity,   \* what the cached equity contains: the candle of each position
  holding,  \* the row of each open position: lots left, entry fee charged, exit fills
  settled,  \* the rows of the closed positions
  ledger,   \* how many entries the ledger has
  cached,   \* Portfolio.ledgerSequence
  defects,  \* defects of the stored books that no write of the system makes
  writing,  \* what each writer has read, and whether it is still current
  recon,    \* the reconciliation: its snapshot, and whether it is still current
  locked,   \* session and portfolio are ERROR_LOCKED
  risk,     \* the risk assembly: what it has read so far
  appeared  \* how many defects have appeared

booksVars == <<newest, booked, equity, holding, settled, ledger, cached, defects, writing,
               recon, locked, risk, appeared>>

\* What the reconciliation looks for besides the equity and the sequence: in
\* the sums of the ledger, in each position, and in the scopes of an asset.
CashDefects == {"NEGATIVE_CASH", "ORPHAN_LEDGER_REFERENCE",
                "CACHE_MISMATCH_LEDGER_REPLAY", "RESERVATION_MISMATCH"}
PositionDefects == {"DIRECTION_MISMATCH", "COLLATERAL_MISMATCH", "PNL_SIGN_MISMATCH"}
ScopeDefects == {"DUPLICATE_ENTRY_ORDER_SCOPE", "DUPLICATE_ASSET_POSITION_SCOPE",
                 "OPPOSING_ACTIVE_SCOPE"}
AllDefects == CashDefects \cup PositionDefects \cup ScopeDefects

Unvalued == [a \in Assets |-> 0]
NoHolding == [left |-> 0, charged |-> 0, fills |-> 0]
NewHolding == [NoHolding EXCEPT !.left = Lots]
NotWriting == [at |-> "idle", fresh |-> FALSE, booked |-> Unvalued, cached |-> 0, row |-> NoHolding]
NoSnapshot == [at |-> "idle", fresh |-> FALSE, violations |-> {}, cause |-> {}]
NoAssembly == [at |-> "idle", torn |-> FALSE, equity |-> Unvalued, cached |-> 0,
               held |-> {}, ledger |-> 0, finding |-> FALSE, behind |-> FALSE]

BooksTypeOK ==
  /\ newest \in [Assets -> Nat] /\ booked \in [Assets -> Nat] /\ equity \in [Assets -> Nat]
  /\ holding \in [Assets -> [left : 0..Lots, charged : 0..Lots, fills : Nat]]
  /\ settled \subseteq [left : {0}, charged : Lots..2*Lots, fills : Nat \ {0}]
  /\ ledger \in 0..MaxLedger /\ cached \in 0..MaxLedger
  /\ defects \subseteq Kinds /\ locked \in BOOLEAN /\ appeared \in 0..MaxDefects
  /\ \A w \in Writers : writing[w].at \in {"idle", "commit"}
  /\ recon.at \in {"idle", "decide"}
  /\ risk.at \in {"idle", "rest", "marks", "done"}

BooksInit ==
  /\ newest = Unvalued /\ booked = Unvalued /\ equity = Unvalued
  /\ holding = [a \in Assets |-> NoHolding] /\ settled = {}
  /\ ledger = 1 /\ cached = 1     \* the ledger starts with INITIAL_BALANCE
  /\ defects = {} /\ locked = FALSE /\ appeared = 0
  /\ writing = [w \in Writers |-> NotWriting]
  /\ recon = NoSnapshot /\ risk = NoAssembly

Open == {a \in Assets : booked[a] > 0}
UnderWay ==
  Cardinality({w \in Writers : writing[w].at # "idle"})
    + (IF recon.at = "decide" THEN 1 ELSE 0) + (IF risk.at \in {"rest", "marks"} THEN 1 ELSE 0)

(***************************************************************************)
(* A commit to the portfolio row moves its version, so whoever read the    *)
(* row before and writes by that version will find nothing to update.      *)
(***************************************************************************)
Outdated == [w \in Writers |-> [writing[w] EXCEPT !.fresh = FALSE]]
SomethingCommits ==
  /\ recon' = [recon EXCEPT !.fresh = FALSE]
  /\ risk' = [risk EXCEPT !.torn = risk.at \in {"rest", "marks"} \/ risk.torn]

\* The data worker stores the next closed candle of an asset.
Ingest(a) ==
  /\ newest[a] < MaxCandles[a]
  /\ newest' = [newest EXCEPT ![a] = @ + 1]
  /\ UNCHANGED <<booked, equity, holding, settled, ledger, cached, defects, writing, recon, locked, risk, appeared>>

\* The entry job works on a candle of an asset without a position, the monitor
\* on the candle after the booked one, the day start needs neither.
HasWork(w) ==
  CASE w.kind = "fill"    -> booked[w.asset] = 0 /\ newest[w.asset] > 0
    [] w.kind = "monitor" -> booked[w.asset] > 0 /\ booked[w.asset] < newest[w.asset]
    [] w.kind = "day"     -> TRUE

StartWrite(w) ==
  /\ writing[w].at = "idle" /\ HasWork(w)
  /\ UnderWay < MaxJobs
  /\ w.kind = "fill" => ~locked     \* the entry guard of the fill job
  /\ writing' = [writing EXCEPT ![w] =
       [at |-> "commit", fresh |-> TRUE, booked |-> booked, cached |-> cached, row |-> holding[w.asset]]]
  /\ UNCHANGED <<newest, booked, equity, holding, settled, ledger, cached, defects, recon, locked, risk, appeared>>

\* loadShadowPortfolioValuation with basis BOOKED_CANDLE, and with the default
\* NEWEST_CANDLE: the candle that prices each open position.
ValueOnBooked(positions) == positions
ValueOnNewest(positions) == [a \in Assets |-> IF positions[a] > 0 THEN newest[a] ELSE 0]
ValueForCache(positions) == ValueOnBooked(positions)

VersionIgnored(w) == TRUE

\* The version of the portfolio row is the one that was read.
VersionHolds(w) == writing[w].fresh

\* The day start books the equity as it values the positions, and no entry.
BookDay(w) ==
  /\ w.kind = "day"
  /\ equity' = ValueForCache(writing[w].booked)
  /\ UNCHANGED <<booked, holding, settled, ledger, cached>>

\* The job's own position on a candle, with the ledger entries of its fill.
Book(w, candle, entries) ==
  LET positions == [writing[w].booked EXCEPT ![w.asset] = candle]
  IN /\ ledger + entries <= MaxLedger
     /\ booked' = [booked EXCEPT ![w.asset] = candle]
     /\ equity' = ValueForCache(positions)
     /\ ledger' = ledger + entries
     /\ cached' = writing[w].cached + entries

BookEntry(w) ==
  /\ w.kind = "fill"
  /\ \E c \in 1..newest[w.asset] : Book(w, c, 1)
  /\ holding' = [holding EXCEPT ![w.asset] = NewHolding]
  /\ UNCHANGED settled

\* No trigger, or no liquidity for the exit.
BookMark(w) ==
  /\ w.kind = "monitor"
  /\ Book(w, writing[w].booked[w.asset] + 1, 0)
  /\ UNCHANGED <<holding, settled>>

\* The entry fee a fill charges to the realized result: the fill that closes the
\* position all of it, for the monitor remembers nothing of what earlier fills were
\* charged; any other fill the share of its lots.
EntryFee(row, lots) == IF lots = row.left THEN Lots ELSE lots
AfterExit(row, lots) ==
  [left |-> row.left - lots, charged |-> row.charged + EntryFee(row, lots), fills |-> row.fills + 1]

\* An exit fills what the candle's liquidity allows: the position, or a part of it.
BookExit(w) ==
  LET row == writing[w].row
  IN /\ w.kind = "monitor"
     /\ \/ /\ \E lots \in 1..(row.left - 1) : holding' = [holding EXCEPT ![w.asset] = AfterExit(row, lots)]
           /\ Book(w, writing[w].booked[w.asset] + 1, 1)
           /\ UNCHANGED settled
        \/ /\ Book(w, 0, 1)
           /\ holding' = [holding EXCEPT ![w.asset] = NoHolding]
           /\ settled' = settled \cup {AfterExit(row, row.left)}

\* One transaction: ledger entries, positions, and the portfolio by version.
CommitWrite(w) ==
  /\ writing[w].at = "commit" /\ VersionHolds(w)
  /\ BookEntry(w) \/ BookMark(w) \/ BookExit(w) \/ BookDay(w)
  /\ writing' = [Outdated EXCEPT ![w] = NotWriting]
  /\ SomethingCommits
  /\ UNCHANGED <<newest, defects, locked, appeared>>

\* The version moved or a position cannot be valued: the transaction throws, and the
\* job's next run tries again.
AbortWrite(w) ==
  /\ writing[w].at = "commit"
  /\ writing' = [writing EXCEPT ![w] = NotWriting]
  /\ UNCHANGED <<newest, booked, equity, holding, settled, ledger, cached, defects, recon, locked, risk, appeared>>

\* Reserve, release or expiry: cash moves, the equity does not.
MoveReserve ==
  /\ ~locked /\ ledger < MaxLedger
  /\ ledger' = ledger + 1 /\ cached' = cached + 1
  /\ writing' = Outdated
  /\ SomethingCommits
  /\ UNCHANGED <<newest, booked, equity, holding, settled, defects, locked, appeared>>

\* The stored books are damaged by something outside the system.
Damage(kind) ==
  /\ appeared < MaxDefects /\ kind \notin defects
  /\ defects' = defects \cup {kind} /\ appeared' = appeared + 1
  /\ UNCHANGED <<newest, booked, equity, holding, settled, ledger, cached, writing, recon, locked, risk>>

(***************************************************************************)
(* The reconciliation reads everything from one snapshot of the database.  *)
(***************************************************************************)
ValueForCheck(positions) == ValueOnBooked(positions)

\* replayLedger over every entry ends at the cached sequence, without a gap.
LedgerReplays == cached = ledger

\* The realized result of a position, open or closed, bears the entry fee of the lots
\* that are closed, once.
FeesAgree(row) == row.charged = Lots - row.left
RowsInBooks == {holding[a] : a \in Open} \cup settled

\* checkPortfolioInvariants and the checks of direction, collateral, result and scope.
\* When a position cannot be valued, none counts, and that is a finding of its own.
Violations(valued) ==
  (IF equity # (IF valued THEN ValueForCheck(booked) ELSE Unvalued) THEN {"EQUITY_MISMATCH"} ELSE {})
    \cup (IF ~valued THEN {"INVALID_AMOUNT"} ELSE {})
    \cup (IF ~LedgerReplays THEN {"SEQUENCE_NOT_CONTIGUOUS"} ELSE {})
    \cup (IF \E row \in RowsInBooks : ~FeesAgree(row) THEN {"PNL_SIGN_MISMATCH"} ELSE {})
    \cup (defects \cap AllDefects)

\* What there is to find at this moment, besides an open position without a value.
ClosedInParts == \E row \in settled : row.fills > 1
Causes(valued) ==
  defects \cup (IF valued THEN {} ELSE {"UNVALUED"}) \cup (IF ClosedInParts THEN {"CLOSED_IN_PARTS"} ELSE {})

\* The mark of a position needs its stored candle and the active execution profile of
\* its asset; without them the valuation throws.
ReadSnapshot ==
  /\ recon.at = "idle" /\ UnderWay < MaxJobs
  /\ \E valued \in BOOLEAN :
       /\ valued \/ Open # {}
       /\ recon' = [at |-> "decide", fresh |-> TRUE, violations |-> Violations(valued), cause |-> Causes(valued)]
  /\ UNCHANGED <<newest, booked, equity, holding, settled, ledger, cached, defects, writing, locked, risk, appeared>>

\* The lock taken by the version of the snapshot, as the success is recorded.
MismatchByVersion ==
  /\ recon.at = "decide" /\ recon.violations # {}
  /\ IF recon.fresh THEN locked' = TRUE /\ writing' = Outdated ELSE UNCHANGED <<locked, writing>>
  /\ recon' = NoSnapshot
  /\ UNCHANGED <<newest, booked, equity, holding, settled, ledger, cached, defects, risk, appeared>>

\* A finding locks session and portfolio without looking at the version again.
Mismatch ==
  /\ recon.at = "decide" /\ recon.violations # {}
  /\ locked' = TRUE
  /\ recon' = NoSnapshot
  /\ writing' = Outdated
  /\ risk' = [risk EXCEPT !.torn = risk.at \in {"rest", "marks"} \/ risk.torn]
  /\ UNCHANGED <<newest, booked, equity, holding, settled, ledger, cached, defects, appeared>>

Consistent ==
  /\ recon.at = "decide" /\ recon.violations = {} /\ recon.fresh
  /\ recon' = NoSnapshot
  /\ writing' = Outdated
  /\ risk' = [risk EXCEPT !.torn = risk.at \in {"rest", "marks"} \/ risk.torn]
  /\ UNCHANGED <<newest, booked, equity, holding, settled, ledger, cached, defects, locked, appeared>>

VersionConflict ==
  /\ recon.at = "decide" /\ recon.violations = {} /\ ~recon.fresh
  /\ recon' = NoSnapshot
  /\ UNCHANGED <<newest, booked, equity, holding, settled, ledger, cached, defects, writing, locked, risk, appeared>>

(***************************************************************************)
(* The assembler of the risk input reads the portfolio, then sums of the   *)
(* ledger and the positions, then values the positions on the newest       *)
(* candle, each with a query of its own; R-003 compares them.              *)
(***************************************************************************)
ReadPortfolio ==
  /\ risk.at = "idle" /\ UnderWay < MaxJobs
  /\ risk' = [NoAssembly EXCEPT !.at = "rest", !.equity = equity, !.cached = cached]
  /\ UNCHANGED <<newest, booked, equity, holding, settled, ledger, cached, defects, writing, recon, locked, appeared>>

ReadLedgerAndPositions ==
  /\ risk.at = "rest"
  /\ risk' = [risk EXCEPT !.at = "marks", !.held = Open, !.ledger = ledger]
  /\ UNCHANGED <<newest, booked, equity, holding, settled, ledger, cached, defects, writing, recon, locked, appeared>>

PortfolioConsistencyOfCash == risk.cached = risk.ledger /\ risk.equity = Unvalued

\* A position that is gone when the marks are read contributes nothing.
PortfolioConsistency ==
  LET marks == ValueOnNewest(booked)
      contributed == [a \in Assets |-> IF a \in risk.held THEN marks[a] ELSE 0]
  IN risk.cached = risk.ledger /\ risk.equity = contributed

AssessConsistency ==
  /\ risk.at = "marks"
  /\ risk' = [NoAssembly EXCEPT !.at = "done", !.torn = risk.torn,
       !.finding = ~PortfolioConsistency,
       !.behind = \E a \in Open : booked[a] < newest[a]]
  /\ UNCHANGED <<newest, booked, equity, holding, settled, ledger, cached, defects, writing, recon, locked, appeared>>

\* The next candidate, after an assessment or when a position could not be valued.
NextAssessment ==
  /\ risk.at \in {"marks", "done"} /\ risk' = NoAssembly
  /\ UNCHANGED <<newest, booked, equity, holding, settled, ledger, cached, defects, writing, recon, locked, appeared>>

Reconcile == ReadSnapshot \/ Mismatch \/ Consistent \/ VersionConflict
Assess == ReadPortfolio \/ ReadLedgerAndPositions \/ AssessConsistency \/ NextAssessment
BooksNext ==
  \/ \E a \in Assets : Ingest(a)
  \/ \E w \in Writers : StartWrite(w) \/ CommitWrite(w) \/ AbortWrite(w)
  \/ MoveReserve
  \/ \E kind \in Kinds : Damage(kind)
  \/ Reconcile
  \/ Assess

BooksSpec == BooksInit /\ [][BooksNext]_booksVars

-----------------------------------------------------------------------------
(***************************************************************************)
(* However candles, fills, marks, exits, day starts and reconciliations    *)
(* interleave, each finding has its own cause: the damage it names, a      *)
(* position that could not be valued at that moment, or a position whose   *)
(* exit filled in parts, the last of which is charged the entry fee again  *)
(* (shadowPositionMonitor.ts:642).  The check sees the cache and the       *)
(* candles it was valued on in one snapshot (shadowReconciliation.ts:85,   *)
(* shadowPortfolioValuation.ts:38), so no interleaving is a cause.         *)
(***************************************************************************)
Explained(cause) ==
  (cause \cap AllDefects)
    \cup (IF "UNVALUED" \in cause THEN {"INVALID_AMOUNT", "EQUITY_MISMATCH"} ELSE {})
    \cup (IF "CLOSED_IN_PARTS" \in cause THEN {"PNL_SIGN_MISMATCH"} ELSE {})

NoFalseLock == recon.violations \subseteq Explained(recon.cause)

(***************************************************************************)
(* The cached equity is always the valuation of the open positions on the  *)
(* candles they are booked on, and the cached sequence is the ledger's:    *)
(* no writer overwrites what another one committed since it read           *)
(* (shadowFillPersistence.ts:1002, shadowPositionMonitor.ts:886,           *)
(* shadowTradingDay.ts:151).                                               *)
(***************************************************************************)
CacheFollowsBooks == equity = booked /\ cached = ledger

(***************************************************************************)
(* R-003 refuses sound books only for a reason: a job committed while the  *)
(* snapshot was read, or an open position waits for its newest candle      *)
(* (riskInputAssembler.ts:156, :259; rules.ts:370).                        *)
(***************************************************************************)
RefusalHasCause == (risk.at = "done" /\ risk.finding) => (risk.torn \/ risk.behind)

\* No job overwrites what another one booked, every finding of the reconciliation has
\* its cause, and R-003 refuses no books without one.
BooksStayTrue == CacheFollowsBooks /\ NoFalseLock /\ RefusalHasCause
=============================================================================
