-------------------------- MODULE ShadowExecution --------------------------
(***************************************************************************)
(* From an approved candidate to a closed position in one shadow           *)
(* portfolio: the order, fill and monitor jobs of the trading worker.      *)
(* Every candidate has at most one entry order, position and exit plan, so *)
(* all of them are indexed by candidate; a position has at most one exit   *)
(* order.  A job reads rows, decides, and commits in a later transaction;  *)
(* jobs interleave, and their only common guard is the compare-and-swap on *)
(* portfolio.version.  The session is seen through its entry gate, which   *)
(* SessionControl models in full.                                          *)
(***************************************************************************)
EXTENDS Integers, FiniteSets, Functions, TradingStateMachines, FillLedger

CONSTANTS
  Candidates,     \* trade candidates
  Asset,          \* [Candidates -> asset]
  Direction,      \* [Candidates -> {"LONG", "SHORT"}]
  Quantity,       \* [Candidates -> approved quantity]
  ReservePerUnit, \* reserved quote amount of one unit
  FeePerUnit,     \* fee of one unit
  Prices,         \* prices a candle can fill at
  EntryBound,     \* planned entry maximum (LONG) or minimum (SHORT)
  InitialCash,
  CreateRuns,     \* concurrent runs of the order job
  FillRuns,       \* concurrent runs of the fill job
  Faults,         \* the failures this instance exercises
  MaxCandle       \* bound on the number of closed candles, for model checking

AllFaults ==
  {"CRASH", "GATE_CLOSES", "PROFILE", "LIMIT_SET", "NO_LIQUIDITY", "EXIT_LOCK", "FORCED_EXIT"}

ASSUME ExecutionAssumption ==
  /\ Candidates # {} /\ IsFiniteSet(Candidates)
  /\ Direction \in [Candidates -> {"LONG", "SHORT"}]
  /\ Quantity \in [Candidates -> Nat \ {0}]
  /\ ReservePerUnit \in Nat /\ FeePerUnit \in Nat /\ FeePerUnit < ReservePerUnit
  /\ Prices \subseteq Nat \ {0}
  /\ EntryBound \in Nat /\ InitialCash \in Nat /\ MaxCandle \in Nat \ {0}
  /\ Faults \subseteq AllFaults

VARIABLES
  now,        \* the number of the last closed candle
  gate,       \* entries: open, closed (paused, killed, stale), or locked for good
  approved,   \* 0, or the first candle an approved candidate may fill in
  orders,     \* entry orders
  positions,  \* positions
  plans,      \* exit plans
  exits,      \* exit orders
  forced,     \* CRITICAL events that force an exit
  portfolio,  \* the portfolio's cached balance and its version
  ledger,     \* the sum of the ledger entries
  released,   \* candidates whose order has used its expiry-release ledger key
  creating, filling, monitoring  \* what each job run has read

rows == <<now, gate, approved, orders, positions, plans, exits, forced,
          portfolio, ledger, released>>
runs == <<creating, filling, monitoring>>
vars == <<rows, runs>>

Reserve(c) == Quantity[c] * ReservePerUnit

Balance == [available : Int, reserved : Int, realized : Int]
Portfolio == [balance : Balance, version : Nat]

\* cursor is the number of the last processed candle, 0 when there is none.
Order == [status : OrderStatuses \cup {"NONE"}, remaining : Nat, reserve : Int,
          cursor : Nat]
Position == [status : PositionStatuses \cup {"NONE"}, initial : Nat, open : Int,
             paid : Nat, received : Nat, entryFees : Nat, exitFees : Nat,
             realized : Int, collateral : Int, cursor : Nat]
Plan == [status : {"NONE", "ACTIVE", "TRIGGERED", "COMPLETED"},
         triggeredBy : Triggers \cup {"NONE"}, triggeredAt : Nat]
Exit == [status : OrderStatuses \cup {"NONE"}, remaining : Int]

NoOrder == [status |-> "NONE", remaining |-> 0, reserve |-> 0, cursor |-> 0]
NoPosition ==
  [status |-> "NONE", initial |-> 0, open |-> 0, paid |-> 0, received |-> 0,
   entryFees |-> 0, exitFees |-> 0, realized |-> 0, collateral |-> 0, cursor |-> 0]
NoPlan == [status |-> "NONE", triggeredBy |-> "NONE", triggeredAt |-> 0]
NoExit == [status |-> "NONE", remaining |-> 0]

FirstPortfolio ==
  [balance |-> Movement(InitialCash, 0, 0), version |-> 0]

\* A candidate, for the records of runs that work on none.
AnyCandidate == CHOOSE c \in Candidates : TRUE

CreateIdle == [at |-> "idle", c |-> AnyCandidate, portfolio |-> FirstPortfolio]
FillIdle == [at |-> "idle", c |-> AnyCandidate, order |-> NoOrder, candle |-> 0,
             portfolio |-> FirstPortfolio]
MonitorIdle == [at |-> "idle", c |-> AnyCandidate, position |-> NoPosition,
                candle |-> 0, portfolio |-> FirstPortfolio, trigger |-> "NONE"]

TypeOK ==
  /\ now \in 1..MaxCandle
  /\ gate \in {"open", "closed", "locked"}
  /\ approved \in [Candidates -> Nat]
  /\ orders \in [Candidates -> Order]
  /\ positions \in [Candidates -> Position]
  /\ plans \in [Candidates -> Plan]
  /\ exits \in [Candidates -> Exit]
  /\ forced \in [Candidates -> {"none", "open", "acknowledged"}]
  /\ portfolio \in Portfolio
  /\ ledger \in Balance
  /\ released \subseteq Candidates
  /\ creating \in [CreateRuns ->
       [at : {"idle", "read", "checked"}, c : Candidates, portfolio : Portfolio]]
  /\ filling \in [FillRuns ->
       [at : {"idle", "running", "read", "locking"}, c : Candidates, order : Order,
        candle : Nat, portfolio : Portfolio]]
  /\ monitoring \in
       [at : {"idle", "read", "triggered", "ordered"}, c : Candidates,
        position : Position, candle : Nat, portfolio : Portfolio,
        trigger : Triggers \cup {"NONE"}]

Init ==
  /\ now = 1
  /\ gate = "open"
  /\ approved = [c \in Candidates |-> 0]
  /\ orders = [c \in Candidates |-> NoOrder]
  /\ positions = [c \in Candidates |-> NoPosition]
  /\ plans = [c \in Candidates |-> NoPlan]
  /\ exits = [c \in Candidates |-> NoExit]
  /\ forced = [c \in Candidates |-> "none"]
  /\ portfolio = FirstPortfolio
  /\ ledger = FirstPortfolio.balance
  /\ released = {}
  /\ creating = [r \in CreateRuns |-> CreateIdle]
  /\ filling = [r \in FillRuns |-> FillIdle]
  /\ monitoring = MonitorIdle

OpenOrder(c) == orders[c].status \in {"WAITING_FOR_ENTRY", "PARTIALLY_FILLED"}
OpenExit(c) == exits[c].status \in {"WAITING_FOR_ENTRY", "PARTIALLY_FILLED"}
Live(c) == positions[c].status \in {"OPENING", "OPEN", "PARTIALLY_CLOSED"}
Exposed(c) == OpenOrder(c) \/ Live(c)

SameAsset(c, d) == c # d /\ Asset[c] = Asset[d]

----------------------------------------------------------------------------
(* Transactions                                                            *)

\* Mutant: the balance is written without comparing the version.
BookUnconditionally(seen, movement) ==
  /\ portfolio' = [balance |-> Book(seen.balance, movement),
                   version |-> portfolio.version + 1]
  /\ ledger' = Book(ledger, movement)

\* The ledger rows, and the balance computed from the portfolio that was read:
\* the update applies only to the version that was read.
BookOn(seen, movement) ==
  /\ portfolio.version = seen.version
  /\ portfolio' = [balance |-> Book(seen.balance, movement),
                   version |-> portfolio.version + 1]
  /\ ledger' = Book(ledger, movement)

\* The error locks of the fill and monitor jobs, and the integrity lock.
LockPortfolio ==
  /\ gate' = "locked"
  /\ portfolio' = IF gate = "locked" THEN portfolio
                  ELSE [portfolio EXCEPT !.version = @ + 1]

----------------------------------------------------------------------------
(* Candidates, the entry gate and the candles                              *)

\* The risk pipeline approves a candidate; it may fill from the next candle on.
Approve(c) ==
  /\ gate = "open"
  /\ approved[c] = 0
  /\ approved' = [approved EXCEPT ![c] = now + 1]
  /\ UNCHANGED <<now, gate, orders, positions, plans, exits, forced, portfolio,
                 ledger, released, runs>>

\* A pause, a kill or a stale reconciliation, and the way back.
GateChanges ==
  /\ "GATE_CLOSES" \in Faults
  /\ gate # "locked"
  /\ gate' = IF gate = "open" THEN "closed" ELSE "open"
  /\ UNCHANGED <<now, approved, orders, positions, plans, exits, forced, portfolio,
                 ledger, released, runs>>

CandleCloses ==
  /\ now < MaxCandle
  /\ now' = now + 1
  /\ UNCHANGED <<gate, approved, orders, positions, plans, exits, forced, portfolio,
                 ledger, released, runs>>

RequestManualRiskClose(c) ==
  /\ "FORCED_EXIT" \in Faults
  /\ positions[c].status \in {"OPEN", "PARTIALLY_CLOSED"}
  /\ forced' = [forced EXCEPT ![c] = "open"]
  /\ UNCHANGED <<now, gate, approved, orders, positions, plans, exits, portfolio,
                 ledger, released, runs>>

AcknowledgeEvent(c) ==
  /\ forced[c] = "open"
  /\ forced' = [forced EXCEPT ![c] = "acknowledged"]
  /\ UNCHANGED <<now, gate, approved, orders, positions, plans, exits, portfolio,
                 ledger, released, runs>>

----------------------------------------------------------------------------
(* The order job: createShadowOrderForCandidate                            *)

CreateRead(r, c) ==
  /\ creating[r].at = "idle"
  /\ approved[c] # 0
  /\ orders[c].status = "NONE"
  /\ gate = "open"
  /\ creating' = [creating EXCEPT ![r] = [at |-> "read", c |-> c, portfolio |-> portfolio]]
  /\ UNCHANGED <<rows, filling, monitoring>>

\* Mutant: only orders are looked at.
NoConflictingOrder(c) == \A d \in Candidates : SameAsset(c, d) => ~OpenOrder(d)

NoConflict(c) == \A d \in Candidates : SameAsset(c, d) => ~Exposed(d)

\* A conflict is recorded as a scale-in attempt; both refusals end here.
CreateCheck(r) ==
  LET run == creating[r] IN
  /\ run.at = "read"
  /\ creating' = [creating EXCEPT ![r] =
       IF NoConflict(run.c) /\ CanReserve(run.portfolio.balance, Reserve(run.c))
       THEN [run EXCEPT !.at = "checked"] ELSE CreateIdle]
  /\ UNCHANGED <<rows, filling, monitoring>>

\* The scope key admits one open entry order per asset.
CreateCommit(r) ==
  LET run == creating[r]  c == run.c IN
  /\ run.at = "checked"
  /\ orders[c].status = "NONE"
  /\ NoConflictingOrder(c)
  /\ BookOn(run.portfolio, ReserveMovement(Reserve(c)))
  /\ orders' = [orders EXCEPT ![c] =
       [status |-> "WAITING_FOR_ENTRY", remaining |-> Quantity[c],
        reserve |-> Reserve(c), cursor |-> 0]]
  /\ creating' = [creating EXCEPT ![r] = CreateIdle]
  /\ UNCHANGED <<now, gate, approved, positions, plans, exits, forced, released,
                 filling, monitoring>>

\* The transaction rolls back and the run fails; or the process dies.
CreateAborts(r) ==
  /\ \/ creating[r].at = "checked" /\ portfolio.version # creating[r].portfolio.version
     \/ creating[r].at # "idle" /\ "CRASH" \in Faults
  /\ creating' = [creating EXCEPT ![r] = CreateIdle]
  /\ UNCHANGED <<rows, filling, monitoring>>

----------------------------------------------------------------------------
(* The fill job: processEntryOrderFillForCandle                            *)

Filling(r, run) == filling' = [filling EXCEPT ![r] = run]
Goes(r, at) == Filling(r, [filling[r] EXCEPT !.at = at])

\* The scheduler evaluates the entry workflow once, before the run.
FillStarts(r) ==
  /\ filling[r].at = "idle"
  /\ gate = "open"
  /\ Goes(r, "running")
  /\ UNCHANGED <<rows, creating, monitoring>>

NextCandle(c) == IF orders[c].cursor = 0 THEN approved[c] ELSE orders[c].cursor + 1

FillRead(r, c) ==
  /\ filling[r].at = "running"
  /\ OpenOrder(c)
  /\ NextCandle(c) <= now
  /\ Filling(r, [at |-> "read", c |-> c, order |-> orders[c],
                 candle |-> NextCandle(c), portfolio |-> portfolio])
  /\ UNCHANGED <<rows, creating, monitoring>>

IsFirstCandle(run) == run.order.cursor = 0

GapTooLarge(c, price) ==
  IF Direction[c] = "LONG" THEN price > EntryBound ELSE price < EntryBound

\* Mutant: the position of a partly filled order stays OPENING.
LeaveOpening(run) == UNCHANGED positions

\* Mutant: it is closed with its order.
CloseInstead(run) ==
  positions' = [positions EXCEPT ![run.c].status =
    IF run.order.remaining < Quantity[run.c] /\ @ = "OPENING" THEN "CLOSED" ELSE @]

\* openPositionAfterTerminalEntry
OpenPosition(run) ==
  positions' = [positions EXCEPT ![run.c].status =
    IF run.order.remaining < Quantity[run.c] /\ @ = "OPENING" THEN "OPEN" ELSE @]

\* The order ends and what it still reserved is released: the order is the one
\* that was read, the portfolio is read in the transaction.
EndOrder(run, status) ==
  /\ CanRelease(portfolio.balance, run.order.reserve)
  /\ BookOn(portfolio, ReleaseMovement(run.order.reserve))
  /\ orders' = [orders EXCEPT ![run.c] =
       [@ EXCEPT !.status = status, !.reserve = 0, !.cursor = run.candle]]
  /\ OpenPosition(run)

\* expireOrderAndReleaseReserve: its ledger key exists once per order.
ExpireOrder(run) ==
  /\ run.c \notin released
  /\ released' = released \cup {run.c}
  /\ EndOrder(run, "EXPIRED")

FillGapExpire(r) ==
  LET run == filling[r] IN
  /\ run.at = "read"
  /\ IsFirstCandle(run)
  /\ \E price \in Prices : GapTooLarge(run.c, price)
  /\ ExpireOrder(run)
  /\ Goes(r, "running")
  /\ UNCHANGED <<now, gate, approved, plans, exits, forced, creating, monitoring>>

\* stopEntryOrderOnInvalidProfile; the integrity lock follows.
FillProfileInvalid(r) ==
  LET run == filling[r] IN
  /\ run.at = "read"
  /\ "PROFILE" \in Faults
  /\ IF run.order.remaining < Quantity[run.c]
     THEN EndOrder(run, "CANCELLED") /\ UNCHANGED released
     ELSE ExpireOrder(run)
  /\ Goes(r, "locking")
  /\ UNCHANGED <<now, gate, approved, plans, exits, forced, creating, monitoring>>

FillLocks(r) ==
  /\ filling[r].at = "locking"
  /\ LockPortfolio
  /\ Goes(r, "running")
  /\ UNCHANGED <<now, approved, orders, positions, plans, exits, forced, ledger,
                 released, creating, monitoring>>

\* No liquidity: the first candle is only marked, a later one ends the order.
FillUnfillable(r) ==
  LET run == filling[r] IN
  /\ run.at = "read"
  /\ "NO_LIQUIDITY" \in Faults
  /\ IF IsFirstCandle(run)
     THEN /\ orders' = [orders EXCEPT ![run.c].cursor = run.candle]
          /\ UNCHANGED <<positions, portfolio, ledger, released>>
     ELSE ExpireOrder(run)
  /\ Goes(r, "running")
  /\ UNCHANGED <<now, gate, approved, plans, exits, forced, creating, monitoring>>

\* What the candle offers: on the first candle a gap has been ruled out.
FillsOffered(run) ==
  {[quantity |-> q, price |-> p, fee |-> q * FeePerUnit] :
     q \in 1..run.order.remaining,
     p \in {p \in Prices : IsFirstCandle(run) => ~GapTooLarge(run.c, p)}}

\* The fill costs more than the whole remaining reserve: nothing but the lock
\* is written.
FillReserveExceeded(r) ==
  LET run == filling[r] IN
  /\ run.at = "read"
  /\ \E fill \in FillsOffered(run) :
       RequiredReserve(Direction[run.c], fill) > run.order.reserve
  /\ LockPortfolio
  /\ Goes(r, "running")
  /\ UNCHANGED <<now, approved, orders, positions, plans, exits, forced, ledger,
                 released, creating, monitoring>>

\* The status of the order and of its position after a fill; recheck is the
\* post-fill reward/risk check.
StatusAfterFill(final, recheck) ==
  CASE final                     -> [order |-> "FILLED", position |-> "OPEN"]
    [] ~final /\ recheck = "ok"  -> [order |-> "PARTIALLY_FILLED", position |-> "OPENING"]
    [] OTHER                     -> [order |-> "CANCELLED", position |-> "OPEN"]

\* Everything a fill books, in one transaction: it fails as a whole when the
\* share of the reserve does not cover the fill or the portfolio has moved.
CommitFill(run, fill, recheck) ==
  LET c        == run.c
      direct   == Direction[c]
      final    == fill.quantity >= run.order.remaining
      after    == StatusAfterFill(final, recheck)
      share    == ReservedForFill(run.order.reserve, fill.quantity, run.order.remaining)
      kept     == run.order.reserve - share
      entry    == EntryMovement(direct, share, fill)
      movement == IF after.order = "CANCELLED"
                  THEN Book(entry, ReleaseMovement(kept)) ELSE entry
  IN
  /\ RequiredReserve(direct, fill) <= share
  /\ \A d \in Candidates : SameAsset(c, d) => ~Live(d)
  /\ BookOn(run.portfolio, movement)
  /\ orders' = [orders EXCEPT ![c] =
       [status |-> after.order, remaining |-> run.order.remaining - fill.quantity,
        reserve |-> IF after.order = "PARTIALLY_FILLED" THEN kept ELSE 0,
        cursor |-> run.candle]]
  /\ positions' = [positions EXCEPT ![c] =
       [ApplyEntryFill(@, fill, CollateralForFill(direct, share, fill))
          EXCEPT !.status = after.position, !.cursor = run.candle]]
  /\ plans' = [plans EXCEPT ![c] =
       IF @.status = "NONE" THEN [@ EXCEPT !.status = "ACTIVE"] ELSE @]
  /\ forced' = [forced EXCEPT ![c] = IF recheck = "short" THEN "open" ELSE @]

\* An invalid risk limit set stops the rest of the order like a short reward,
\* and is followed by the error lock.
FillCommit(r) ==
  LET run == filling[r] IN
  /\ run.at = "read"
  /\ \E fill \in FillsOffered(run),
        recheck \in {"ok"} \cup (IF "FORCED_EXIT" \in Faults THEN {"short"} ELSE {})
                      \cup (IF "LIMIT_SET" \in Faults THEN {"invalid"} ELSE {}) :
       /\ RequiredReserve(Direction[run.c], fill) <= run.order.reserve
       /\ CommitFill(run, fill, recheck)
       /\ Goes(r, IF recheck = "invalid" THEN "locking" ELSE "running")
  /\ UNCHANGED <<now, gate, approved, exits, released, creating, monitoring>>

\* The transaction throws and with it the run, also when the share of a partial
\* fill does not cover it; or the process dies.
FillAborts(r) ==
  LET run == filling[r] IN
  /\ \/ run.at = "read" /\ portfolio.version # run.portfolio.version
     \/ /\ run.at = "read"
        /\ \E fill \in FillsOffered(run) :
             /\ RequiredReserve(Direction[run.c], fill) <= run.order.reserve
             /\ RequiredReserve(Direction[run.c], fill) >
                  ReservedForFill(run.order.reserve, fill.quantity, run.order.remaining)
     \/ run.at # "idle" /\ "CRASH" \in Faults
  /\ Filling(r, FillIdle)
  /\ UNCHANGED <<rows, creating, monitoring>>

FillEnds(r) ==
  /\ filling[r].at = "running"
  /\ Filling(r, FillIdle)
  /\ UNCHANGED <<rows, creating, monitoring>>

----------------------------------------------------------------------------
(* The monitor job: monitorPositionForCandle                               *)

PriceTriggers == {"STOP", "TAKE_PROFIT", "TIME_EXIT"}

\* Mutant: a partly closed position is taken for a closed one.
MonitorReadOpenOnly(c) ==
  /\ monitoring.at = "idle"
  /\ positions[c].status = "OPEN"
  /\ positions[c].cursor < now
  /\ monitoring' =
       [at |-> IF OpenExit(c) THEN "ordered" ELSE "read", c |-> c,
        position |-> positions[c], candle |-> positions[c].cursor + 1,
        portfolio |-> portfolio,
        trigger |-> IF OpenExit(c) THEN plans[c].triggeredBy ELSE "NONE"]
  /\ UNCHANGED <<rows, creating, filling>>

\* An exit order that is still open is resumed with the plan's trigger.
MonitorRead(c) ==
  /\ monitoring.at = "idle"
  /\ positions[c].status \in {"OPEN", "PARTIALLY_CLOSED"}
  /\ positions[c].cursor < now
  /\ monitoring' =
       [at |-> IF OpenExit(c) THEN "ordered" ELSE "read", c |-> c,
        position |-> positions[c], candle |-> positions[c].cursor + 1,
        portfolio |-> portfolio,
        trigger |-> IF OpenExit(c) THEN plans[c].triggeredBy ELSE "NONE"]
  /\ UNCHANGED <<rows, creating, filling>>

\* What resolveCandleExit, the forced exit and the regime gate may say of a
\* candle.  A candle that was evaluated before evaluates the same.
Resolutions(c, candle) ==
  LET plan  == plans[c]
      again == plan.triggeredAt = candle
      other == IF forced[c] = "open" THEN {"MANUAL_RISK_CLOSE"}
               ELSE IF again /\ plan.triggeredBy = "INVALIDATION" THEN {"INVALIDATION"}
               ELSE {"INVALIDATION", "NONE"}
  IN  IF again /\ plan.triggeredBy \in PriceTriggers THEN {plan.triggeredBy}
      ELSE IF again THEN other ELSE PriceTriggers \cup other

\* The plan is written first, on its own.
MonitorTrigger ==
  LET c == monitoring.c IN
  /\ monitoring.at = "read"
  /\ \E trigger \in Resolutions(c, monitoring.candle) \ {"NONE"} :
       /\ plans' = [plans EXCEPT ![c] =
            IF @.status = "ACTIVE"
            THEN [status |-> "TRIGGERED", triggeredBy |-> trigger,
                  triggeredAt |-> monitoring.candle]
            ELSE @]
       /\ monitoring' = [monitoring EXCEPT !.at = "triggered", !.trigger = trigger]
  /\ UNCHANGED <<now, gate, approved, orders, positions, exits, forced, portfolio,
                 ledger, released, creating, filling>>

MonitorOrder ==
  /\ monitoring.at = "triggered"
  /\ exits' = [exits EXCEPT ![monitoring.c] =
       [status |-> "WAITING_FOR_ENTRY", remaining |-> monitoring.position.open]]
  /\ monitoring' = [monitoring EXCEPT !.at = "ordered"]
  /\ UNCHANGED <<now, gate, approved, orders, positions, plans, forced, portfolio,
                 ledger, released, creating, filling>>

\* Nothing triggered, or no liquidity for the exit: the candle is marked and
\* the portfolio revalued.
MonitorMark ==
  LET c == monitoring.c IN
  /\ \/ monitoring.at = "read" /\ "NONE" \in Resolutions(c, monitoring.candle)
     \/ monitoring.at = "ordered" /\ "NO_LIQUIDITY" \in Faults
  /\ positions' = [positions EXCEPT ![c].cursor = monitoring.candle]
  /\ portfolio' = [portfolio EXCEPT !.version = @ + 1]
  /\ monitoring' = MonitorIdle
  /\ UNCHANGED <<now, gate, approved, orders, plans, exits, forced, ledger, released,
                 creating, filling>>

\* Mutant: the trigger itself is written as the status.
TriggerAsStatus(trigger) == trigger

FinalStatusForTrigger(trigger) ==
  CASE trigger = "STOP"         -> "STOPPED_OUT"
    [] trigger = "INVALIDATION" -> "INVALIDATED"
    [] OTHER                    -> "CLOSED"

MonitorFill ==
  LET c == monitoring.c  seen == monitoring.position IN
  /\ monitoring.at = "ordered"
  /\ \E q \in 1..exits[c].remaining, p \in Prices :
       LET fill   == [quantity |-> q, price |-> p, fee |-> q * FeePerUnit]
           closed == q = seen.open
       IN
       /\ BookOn(monitoring.portfolio, ExitMovement(Direction[c], seen, fill))
       /\ positions' = [positions EXCEPT ![c] =
            [ApplyExitFill(Direction[c], seen, fill) EXCEPT
               !.status = IF closed THEN FinalStatusForTrigger(monitoring.trigger)
                          ELSE "PARTIALLY_CLOSED",
               !.cursor = monitoring.candle]]
       /\ exits' = [exits EXCEPT ![c] =
            [status |-> IF closed THEN "FILLED" ELSE "PARTIALLY_FILLED",
             remaining |-> seen.open - q]]
       /\ plans' = [plans EXCEPT ![c].status = IF closed THEN "COMPLETED" ELSE @]
  /\ monitoring' = MonitorIdle
  /\ UNCHANGED <<now, gate, approved, orders, forced, released, creating, filling>>

\* No usable execution profile, or an invalid candle or fill.
MonitorLocks ==
  /\ monitoring.at \in {"read", "ordered"}
  /\ "EXIT_LOCK" \in Faults
  /\ LockPortfolio
  /\ monitoring' = MonitorIdle
  /\ UNCHANGED <<now, approved, orders, positions, plans, exits, forced, ledger,
                 released, creating, filling>>

MonitorAborts ==
  /\ \/ monitoring.at = "ordered" /\ portfolio.version # monitoring.portfolio.version
     \/ monitoring.at # "idle" /\ "CRASH" \in Faults
  /\ monitoring' = MonitorIdle
  /\ UNCHANGED <<rows, creating, filling>>

----------------------------------------------------------------------------

OrderJob == \E r \in CreateRuns :
  \/ \E c \in Candidates : CreateRead(r, c)
  \/ CreateCheck(r) \/ CreateCommit(r) \/ CreateAborts(r)

FillStep(r) ==
  \/ FillGapExpire(r) \/ FillProfileInvalid(r) \/ FillLocks(r) \/ FillUnfillable(r)
  \/ FillReserveExceeded(r) \/ FillCommit(r) \/ FillAborts(r)

FillJob == \E r \in FillRuns :
  \/ FillStarts(r) \/ FillEnds(r) \/ FillStep(r)
  \/ \E c \in Candidates : FillRead(r, c)

MonitorStep ==
  MonitorTrigger \/ MonitorOrder \/ MonitorMark \/ MonitorFill
    \/ MonitorLocks \/ MonitorAborts

MonitorJob == MonitorStep \/ \E c \in Candidates : MonitorRead(c)

Environment ==
  \/ \E c \in Candidates : Approve(c) \/ RequestManualRiskClose(c) \/ AcknowledgeEvent(c)
  \/ GateChanges \/ CandleCloses

Next == OrderJob \/ FillJob \/ MonitorJob \/ Environment

Spec == Init /\ [][Next]_vars

----------------------------------------------------------------------------
(* Properties                                                              *)

\* The portfolio's cached balance is what its ledger adds up to, whatever jobs
\* booked between the read and the commit of another (shadowReconciliation
\* replays the ledger to find the contrary).
CacheIsLedger == portfolio.balance = ledger

\* What a candidate holds back of the cash.
Held(c) == (IF OpenOrder(c) THEN orders[c].reserve ELSE 0)
             + (IF Live(c) THEN positions[c].collateral ELSE 0)

\* Reserved cash is exactly what open entry orders hold back plus the
\* collateral of live SHORT positions: no ended order and no closed position
\* keeps any, and none is released twice.
ReservesAreHeld ==
  /\ portfolio.balance.reserved = SumFunctionOnSet([c \in Candidates |-> Held(c)], Candidates)
  /\ \A c \in Candidates : ~OpenOrder(c) => orders[c].reserve = 0
  /\ \A c \in Candidates : ~Live(c) => positions[c].collateral = 0

\* What a position has brought in, less what it has cost.
ClosedGross(p) == (p.initial - p.open) * AverageEntryPrice(p) - p.received
Flow(direction, p) ==
  (IF p.initial = 0 THEN 0
   ELSE IF direction = "LONG" THEN p.received - p.paid ELSE ClosedGross(p))
    - p.entryFees - p.exitFees

\* No cash appears or disappears: what is left and what is reserved is the
\* initial cash, less what LONG positions paid, plus what they received, plus
\* the gross result of what SHORT positions closed, less every fee.
CashIsConserved ==
  portfolio.balance.available + portfolio.balance.reserved
    = InitialCash + SumFunctionOnSet(
        [c \in Candidates |-> Flow(Direction[c], positions[c])], Candidates)

\* An asset has one exposure at a time: while a candidate has an open order or
\* a live position, no other candidate of its asset has either (no scale-in),
\* also when two order jobs run at once.
OneExposurePerAsset ==
  \A c, d \in Candidates : SameAsset(c, d) => ~(Exposed(c) /\ Exposed(d))

\* Order, position, plan and exit order move together: a position is OPENING
\* exactly while its order may fill on, what is open and closed of it is what
\* the order filled, it has a live plan exactly while it is live, and an exit
\* order is open only under a triggered plan and for what is left.
LifecyclesAgree ==
  \A c \in Candidates :
    /\ positions[c].status = "OPENING" <=> orders[c].status = "PARTIALLY_FILLED"
    /\ orders[c].status # "NONE" =>
         positions[c].initial = Quantity[c] - orders[c].remaining
    /\ Live(c) <=> plans[c].status \in {"ACTIVE", "TRIGGERED"}
    /\ Live(c) <=> positions[c].open > 0
    /\ OpenExit(c) => /\ plans[c].status = "TRIGGERED"
                      /\ exits[c].remaining = positions[c].open
    /\ plans[c].status = "COMPLETED" <=> exits[c].status = "FILLED"

\* The guards of the domain package on a change a step makes to a candidate's rows,
\* asked of the rows as they are after it.
GuardsPass(c) ==
  /\ orders[c].status \notin {"NONE", orders'[c].status} =>
       CheckOrderTransition(orders[c].status, orders'[c].status,
         [isEntry |-> TRUE, permits |-> TRUE, remaining |-> orders'[c].remaining])
  /\ exits[c].status \notin {"NONE", exits'[c].status} =>
       CheckOrderTransition(exits[c].status, exits'[c].status,
         [isEntry |-> FALSE, remaining |-> exits'[c].remaining])
  /\ positions[c].status \notin {"NONE", positions'[c].status} =>
       CheckPositionTransition(positions[c].status, positions'[c].status,
         [exitPlanPresent |-> plans'[c].status # "NONE", open |-> positions'[c].open,
          entryOrderSettled |-> orders'[c].status \in TerminalOrderStatuses,
          finalTrigger |-> monitoring.trigger])
  /\ plans[c].status \notin {"NONE", plans'[c].status} =>
       CheckExitPlanTransition(plans[c].status, plans'[c].status,
         [triggeredBy |-> plans'[c].triggeredBy, sourceCandle |-> plans'[c].triggeredAt,
          positionTerminal |-> positions'[c].status \in TerminalPositionStatuses,
          openExitsRemain |-> exits'[c].status # "FILLED"])

\* The jobs write statuses without asking the guards of the domain package; every
\* change they make is nevertheless one the guards let pass on the rows as they are
\* after it: no ended order, position or plan comes back, a position ends with
\* nothing open and in the status of the trigger its exit was filled for, and the
\* plan is completed with it.  (Whether the session permits an entry is left out:
\* the gate is read once per job, before the fills.)
FollowsTables == [][\A c \in Candidates : GuardsPass(c)]_vars

\* Realised profit is the gross result less the fees of what was closed: a
\* closed position has been charged each of its fees once.
RealizedIsNetOfFees ==
  \A c \in Candidates : positions[c].status \in TerminalPositionStatuses =>
    positions[c].realized =
      (IF Direction[c] = "LONG" THEN positions[c].received - positions[c].paid
       ELSE positions[c].paid - positions[c].received)
        - positions[c].entryFees - positions[c].exitFees

\* No path makes the available cash negative.
NoNegativeCash == portfolio.balance.available >= 0

\* After two candles the unfilled rest of an order has ended.
TwoCandlesPerOrder ==
  \A c \in Candidates :
    OpenOrder(c) /\ orders[c].cursor # 0 => orders[c].cursor - approved[c] < 1

\* The final status of a position is one the trigger of its plan admits.
StatusMatchesTrigger ==
  \A c \in Candidates : plans[c].status = "COMPLETED" =>
    plans[c].triggeredBy \in FinalTriggerForStatus(positions[c].status)

----------------------------------------------------------------------------
(* Liveness.  The scheduler starts the jobs again and again and a started  *)
(* run goes on (weak fairness of the job as a whole); candles keep closing.*)

Fairness ==
  /\ WF_vars(CandleCloses)
  /\ \A r \in FillRuns : WF_vars(FillStep(r)) /\ WF_vars(FillEnds(r))
  /\ \A r \in FillRuns : SF_vars(FillStarts(r))
  /\ \A r \in FillRuns, c \in Candidates : SF_vars(FillRead(r, c))
  /\ WF_vars(MonitorStep)
  /\ \A c \in Candidates : SF_vars(MonitorRead(c))

FairSpec == Spec /\ Fairness

\* Every candle reaches every position the monitor watches: a position that is
\* open with a closed candle ahead of its cursor gets to it or ends.
EveryCandleIsMonitored ==
  \A c \in Candidates : \A k \in 1..MaxCandle :
    (positions[c].status \in {"OPEN", "PARTIALLY_CLOSED"} /\ k <= now)
      ~> (positions[c].cursor >= k \/ positions[c].status \in TerminalPositionStatuses)

\* Every candle reaches every exposure, an OPENING position by way of its order.
ExposureIsMonitored ==
  \A c \in Candidates : \A k \in 1..MaxCandle :
    (Live(c) /\ k <= now)
      ~> (positions[c].cursor >= k \/ orders[c].cursor >= k \/ ~Live(c))

=============================================================================
