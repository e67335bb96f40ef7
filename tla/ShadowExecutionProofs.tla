----------------------- MODULE ShadowExecutionProofs -----------------------
(***************************************************************************)
(* Proofs about ShadowExecution, for every set of candidates and every     *)
(* number of concurrent order and fill runs: types, one exposure per       *)
(* asset, and, with one fill job at a time, the agreement of the           *)
(* lifecycles and the guards of the domain package on every change.        *)
(*                                                                         *)
(* A job decides on what it read and commits later.  The invariant says    *)
(* what still holds of what was read: the compare-and-swap on              *)
(* portfolio.version protects everything a booking touches (PastReads,     *)
(* OrderAsRead, CheckStands), and only the monitor writes positions whose  *)
(* entry order has ended (PositionAsRead).                                 *)
(*                                                                         *)
(* First the types of the amounts a fill computes and what each            *)
(* transaction does to the rows, which need no more than type correctness; *)
(* then the invariant, a lemma per step, and the theorems.                 *)
(***************************************************************************)
EXTENDS ShadowExecution, TLAPS

----------------------------------------------------------------------------
(* Arithmetic of fills                                                     *)

\* An execution, of an entry or an exit order.
Fill == [quantity : Nat \ {0}, price : Nat \ {0}, fee : Nat]

\* Integer division: typed, and no less than every quotient that fits.
LEMMA Division ==
  ASSUME NEW a \in Int, NEW b \in Nat \ {0}
  PROVE  /\ a \div b \in Int
         /\ a \in Nat => a \div b \in Nat
         /\ \A k \in Int : k * b <= a => k <= a \div b
OBVIOUS

\* A fill's amounts are natural numbers.
LEMMA FillTyped ==
  ASSUME NEW fill \in Fill
  PROVE  Notional(fill) \in Nat /\ fill.quantity \in Nat \ {0} /\ fill.fee \in Nat
BY DEF Fill, Notional

\* The part of a reserve that belongs to a fill is an integer.
LEMMA ShareTyped ==
  ASSUME NEW reserve \in Int, NEW q \in Nat \ {0}, NEW n \in Nat \ {0}
  PROVE  ReservedForFill(reserve, q, n) \in Int
<1> DEFINE a == reserve * q
<1>1. a \in Int /\ (a + n - 1) \div n \in Int
  OBVIOUS
<1>2. QED
  BY <1>1 DEF ReservedForFill, CeilDiv

\* applyLedgerEntry: a movement of a balance is a balance.
LEMMA BookTyped ==
  ASSUME NEW balance \in Balance, NEW movement \in Balance
  PROVE  Book(balance, movement) \in Balance
BY DEF Book, Balance

\* A movement of integers has the shape of a balance.
LEMMA MovementTyped ==
  ASSUME NEW a \in Int, NEW b \in Int, NEW d \in Int
  PROVE  Movement(a, b, d) \in Balance
BY DEF Movement, Balance

\* A position with something open has an average price, and an exit fill of it
\* a result and a release.
Closable(position) ==
  position \in Position /\ 0 < position.open /\ position.open <= position.initial

\* The average price, the result and the release of an exit fill are integers.
LEMMA ExitTyped ==
  ASSUME NEW direction \in {"LONG", "SHORT"}, NEW position, Closable(position),
         NEW fill \in Fill, fill.quantity <= position.open
  PROVE  /\ AverageEntryPrice(position) \in Nat
         /\ RealizedPnl(direction, position, fill) \in Int
         /\ ReleasedCollateral(direction, position, fill) \in Int
<1>1. /\ position.paid \in Nat /\ position.initial \in Nat \ {0}
      /\ position.open \in Nat \ {0} /\ position.collateral \in Int /\ position.entryFees \in Nat
      /\ fill.quantity \in Nat \ {0} /\ fill.price \in Nat /\ fill.fee \in Nat
  BY DEF Closable, Position, Fill
<1>2. AverageEntryPrice(position) \in Nat
  BY <1>1, Division DEF AverageEntryPrice
<1>3. GrossPnl(direction, position, fill) \in Int
  BY <1>1, <1>2 DEF GrossPnl
<1>4. AllocatedEntryFees(position, fill) \in Int
  <2> DEFINE a == position.entryFees * fill.quantity
  <2>1. a \in Int /\ (a + position.initial - 1) \div position.initial \in Int
    BY <1>1
  <2>2. QED
    BY <1>1, <2>1 DEF AllocatedEntryFees, CeilDiv
<1>5. ReleasedCollateral(direction, position, fill) \in Int
  <2> DEFINE a == position.collateral * fill.quantity
  <2>1. a \in Int /\ a \div position.open \in Int
    BY <1>1
  <2>2. QED
    BY <1>1, <2>1 DEF ReleasedCollateral
<1>6. QED
  BY <1>1, <1>2, <1>3, <1>4, <1>5 DEF RealizedPnl

\* What an entry fill does to a position, amount by amount.
LEMMA EntryApplied ==
  ASSUME NEW position \in Position, NEW fill \in Fill, NEW collateral \in Int,
         position.open + fill.quantity \in Int
  PROVE  /\ ApplyEntryFill(position, fill, collateral) \in Position
         /\ ApplyEntryFill(position, fill, collateral).status = position.status
         /\ ApplyEntryFill(position, fill, collateral).initial = position.initial + fill.quantity
         /\ ApplyEntryFill(position, fill, collateral).open = position.open + fill.quantity
         /\ ApplyEntryFill(position, fill, collateral).paid = position.paid + Notional(fill)
         /\ ApplyEntryFill(position, fill, collateral).received = position.received
         /\ ApplyEntryFill(position, fill, collateral).entryFees = position.entryFees + fill.fee
         /\ ApplyEntryFill(position, fill, collateral).exitFees = position.exitFees
         /\ ApplyEntryFill(position, fill, collateral).collateral = position.collateral + collateral
<1>1. Notional(fill) \in Nat /\ fill.quantity \in Nat \ {0} /\ fill.fee \in Nat
  BY FillTyped
<1> DEFINE paid == Notional(fill)
           held == [position EXCEPT !.initial = @ + fill.quantity,
                                    !.open = @ + fill.quantity,
                                    !.paid = @ + paid,
                                    !.entryFees = @ + fill.fee,
                                    !.collateral = @ + collateral]
<1>2. ApplyEntryFill(position, fill, collateral) = held
  BY DEF ApplyEntryFill
<1>3. paid \in Nat
  BY <1>1
<1> HIDE DEF paid
<1>4. held \in Position
  <2>1. /\ position.initial + fill.quantity \in Nat
        /\ position.open + fill.quantity \in Int
        /\ position.paid + paid \in Nat
        /\ position.entryFees + fill.fee \in Nat
        /\ position.collateral + collateral \in Int
    BY <1>1, <1>3 DEF Position
  <2>2. QED
    BY <2>1 DEF Position
<1>5. /\ held.status = position.status
      /\ held.initial = position.initial + fill.quantity
      /\ held.open = position.open + fill.quantity
      /\ held.paid = position.paid + paid
      /\ held.received = position.received
      /\ held.entryFees = position.entryFees + fill.fee
      /\ held.exitFees = position.exitFees
      /\ held.collateral = position.collateral + collateral
  BY DEF Position
<1>6. QED
  BY <1>2, <1>4, <1>5 DEF paid

\* What an exit fill does to a position, amount by amount.
LEMMA ExitApplied ==
  ASSUME NEW direction \in {"LONG", "SHORT"}, NEW position, Closable(position),
         NEW fill \in Fill, fill.quantity <= position.open
  PROVE  LET left == ApplyExitFill(direction, position, fill) IN
         /\ left \in Position
         /\ left.initial = position.initial
         /\ left.open = position.open - fill.quantity
         /\ left.paid = position.paid
         /\ left.received = position.received + Notional(fill)
         /\ left.entryFees = position.entryFees
         /\ left.exitFees = position.exitFees + fill.fee
         /\ left.collateral =
              position.collateral - ReleasedCollateral(direction, position, fill)
<1>1. Notional(fill) \in Nat /\ fill.quantity \in Nat \ {0} /\ fill.fee \in Nat
  BY FillTyped
<1>2. /\ RealizedPnl(direction, position, fill) \in Int
      /\ ReleasedCollateral(direction, position, fill) \in Int
  BY ExitTyped
<1> DEFINE paidOut == Notional(fill)
           gained == RealizedPnl(direction, position, fill)
           freed == ReleasedCollateral(direction, position, fill)
           left == [position EXCEPT !.open = @ - fill.quantity,
                                    !.received = @ + paidOut,
                                    !.exitFees = @ + fill.fee,
                                    !.realized = @ + gained,
                                    !.collateral = @ - freed]
<1>3. ApplyExitFill(direction, position, fill) = left
  BY DEF ApplyExitFill
<1>4. paidOut \in Nat /\ gained \in Int /\ freed \in Int
  BY <1>1, <1>2
<1> HIDE DEF paidOut, gained, freed
<1>5. left \in Position
  <2>1. /\ position.open - fill.quantity \in Int
        /\ position.received + paidOut \in Nat
        /\ position.exitFees + fill.fee \in Nat
        /\ position.realized + gained \in Int
        /\ position.collateral - freed \in Int
    BY <1>1, <1>4 DEF Position, Closable
  <2>2. QED
    BY <2>1 DEF Position, Closable
<1>6. /\ left.initial = position.initial
      /\ left.open = position.open - fill.quantity
      /\ left.paid = position.paid
      /\ left.received = position.received + paidOut
      /\ left.entryFees = position.entryFees
      /\ left.exitFees = position.exitFees + fill.fee
      /\ left.collateral = position.collateral - freed
  BY DEF Position, Closable
<1>7. QED
  BY <1>3, <1>5, <1>6 DEF paidOut, freed

----------------------------------------------------------------------------
(* Types                                                                   *)

\* The rows before anything happened have their types.
LEMMA InitTyped ==
  /\ FirstPortfolio \in Portfolio
  /\ AnyCandidate \in Candidates
  /\ NoOrder \in Order /\ NoPosition \in Position /\ NoPlan \in Plan /\ NoExit \in Exit
<1>1. AnyCandidate \in Candidates
  BY ExecutionAssumption DEF AnyCandidate
<1>2. FirstPortfolio \in Portfolio
  BY ExecutionAssumption DEF FirstPortfolio, Movement, Portfolio, Balance
<1>3. QED
  BY <1>1, <1>2 DEF NoOrder, Order, NoPosition, Position, NoPlan, Plan, NoExit, Exit

\* A booking leaves a portfolio and a ledger.
LEMMA BookOnTyped ==
  ASSUME TypeOK, NEW seen \in Portfolio, NEW movement \in Balance, BookOn(seen, movement)
  PROVE  portfolio' \in Portfolio /\ ledger' \in Balance
<1>1. Book(seen.balance, movement) \in Balance /\ Book(ledger, movement) \in Balance
  BY BookTyped DEF TypeOK, Portfolio
<1>2. QED
  BY <1>1 DEF BookOn, TypeOK, Portfolio

\* The error lock leaves a portfolio and a gate.
LEMMA LockTyped ==
  ASSUME TypeOK, LockPortfolio
  PROVE  portfolio' \in Portfolio /\ gate' \in {"open", "closed", "locked"}
BY DEF TypeOK, LockPortfolio, Portfolio

\* A fill run that goes on keeps its record.
LEMMA GoesTyped ==
  ASSUME TypeOK, NEW r \in FillRuns, NEW at \in {"idle", "running", "read", "locking"},
         Goes(r, at)
  PROVE  filling' \in [FillRuns ->
           [at : {"idle", "running", "read", "locking"}, c : Candidates, order : Order,
            candle : Nat, portfolio : Portfolio]]
BY DEF TypeOK, Goes, Filling

\* Opening a position after its order ended leaves a position.
LEMMA OpenPositionTyped ==
  ASSUME TypeOK, NEW run, run.c \in Candidates, OpenPosition(run)
  PROVE  positions' \in [Candidates -> Position]
<1>1. \A p \in Position : [p EXCEPT !.status = "OPEN"] \in Position
  BY DEF Position, PositionStatuses
<1>2. QED
  BY <1>1 DEF TypeOK, OpenPosition, Position

\* An order that ends stays an order.
LEMMA EndedOrder ==
  ASSUME NEW o \in Order, NEW status \in OrderStatuses, NEW reserve \in Int,
         NEW candle \in Nat
  PROVE  [o EXCEPT !.status = status, !.reserve = reserve, !.cursor = candle] \in Order
BY DEF Order

\* An order that ends and reserves nothing any more stays an order.
LEMMA ReleasedOrder ==
  ASSUME NEW o \in Order, NEW status \in OrderStatuses, NEW candle \in Nat
  PROVE  [o EXCEPT !.status = status, !.reserve = 0, !.cursor = candle] \in Order
<1>1. 0 \in Int
  OBVIOUS
<1>2. QED
  BY <1>1, EndedOrder, Zenon

\* The end of an order leaves orders, positions, a portfolio and a ledger.
LEMMA EndOrderTyped ==
  ASSUME TypeOK, NEW r \in FillRuns, NEW status \in OrderStatuses,
         EndOrder(filling[r], status)
  PROVE  /\ orders' \in [Candidates -> Order] /\ positions' \in [Candidates -> Position]
         /\ portfolio' \in Portfolio /\ ledger' \in Balance
<1> DEFINE run == filling[r]
<1>1. /\ run.c \in Candidates /\ run.order \in Order /\ run.candle \in Nat
      /\ run.order.reserve \in Int /\ run.portfolio \in Portfolio
  BY DEF TypeOK, Order
<1>2. positions' \in [Candidates -> Position]
  BY <1>1, OpenPositionTyped DEF EndOrder
<1>3. ReleaseMovement(run.order.reserve) \in Balance
  BY <1>1, MovementTyped DEF ReleaseMovement
<1>4. portfolio' \in Portfolio /\ ledger' \in Balance
  <2>1. portfolio \in Portfolio /\ BookOn(portfolio, ReleaseMovement(run.order.reserve))
    BY DEF EndOrder, TypeOK
  <2>2. QED
    BY <1>3, <2>1, BookOnTyped
<1>5. orders' \in [Candidates -> Order]
  <2>1. \A o \in Order :
          [o EXCEPT !.status = status, !.reserve = 0, !.cursor = run.candle] \in Order
    BY <1>1, ReleasedOrder
  <2>2. orders \in [Candidates -> Order]
    BY DEF TypeOK
  <2>3. QED
    BY <1>1, <2>1, <2>2 DEF EndOrder
<1>6. QED
  BY <1>2, <1>4, <1>5

\* An entry fill and the record it leaves.
LEMMA OfferTyped ==
  ASSUME TypeOK, NEW r \in FillRuns, NEW fill \in FillsOffered(filling[r])
  PROVE  fill \in Fill /\ fill.quantity <= filling[r].order.remaining
<1>1. filling[r].order.remaining \in Nat
  BY DEF TypeOK, Order
<1>2. PICK q \in 1..filling[r].order.remaining, p \in Prices :
        fill = [quantity |-> q, price |-> p, fee |-> q * FeePerUnit]
  BY DEF FillsOffered
<1>3. q * FeePerUnit \in Nat /\ q \in Nat \ {0} /\ p \in Nat \ {0}
  BY <1>1, ExecutionAssumption
<1>4. QED
  BY <1>1, <1>2, <1>3 DEF Fill

\* What an entry fill moves is a movement.
LEMMA EntryMovementTyped ==
  ASSUME NEW direction, NEW share \in Int, NEW fill \in Fill
  PROVE  EntryMovement(direction, share, fill) \in Balance
<1>1. Notional(fill) \in Nat /\ fill.fee \in Nat
  BY FillTyped
<1>2. /\ share - Notional(fill) - fill.fee \in Int /\ -share \in Int /\ -fill.fee \in Int
      /\ 0 \in Int
  BY <1>1
<1>3. QED
  BY <1>2, MovementTyped DEF EntryMovement

\* What CommitFill books.
FillShare(run, fill) == ReservedForFill(run.order.reserve, fill.quantity, run.order.remaining)
FillStatus(run, fill, recheck) ==
  StatusAfterFill(fill.quantity >= run.order.remaining, recheck)
FillMovement(run, fill, recheck) ==
  LET share == FillShare(run, fill)
      entry == EntryMovement(Direction[run.c], share, fill)
  IN  IF FillStatus(run, fill, recheck).order = "CANCELLED"
      THEN Book(entry, ReleaseMovement(run.order.reserve - share)) ELSE entry

\* What the commit of a fill moves is a movement, of an integer share.
LEMMA FillMovementTyped ==
  ASSUME TypeOK, NEW r \in FillRuns, NEW fill \in FillsOffered(filling[r]), NEW recheck
  PROVE  /\ FillShare(filling[r], fill) \in Int
         /\ FillMovement(filling[r], fill, recheck) \in Balance
<1> DEFINE run == filling[r]
           share == FillShare(run, fill)
           entry == EntryMovement(Direction[run.c], share, fill)
<1>1. fill \in Fill /\ fill.quantity <= run.order.remaining
  BY OfferTyped
<1>2. /\ run.order.reserve \in Int /\ run.order.remaining \in Nat
      /\ fill.quantity \in Nat \ {0}
  BY <1>1, FillTyped DEF TypeOK, Order
<1>3. share \in Int
  <2>1. run.order.remaining \in Nat \ {0}
    BY <1>1, <1>2
  <2>2. QED
    BY <1>2, <2>1, ShareTyped DEF FillShare
<1>4. entry \in Balance
  BY <1>1, <1>3, EntryMovementTyped
<1>5. ReleaseMovement(run.order.reserve - share) \in Balance
  <2>1. /\ run.order.reserve - share \in Int /\ -(run.order.reserve - share) \in Int
        /\ 0 \in Int
    BY <1>2, <1>3
  <2> HIDE DEF share
  <2>2. QED
    BY <2>1, MovementTyped DEF ReleaseMovement
<1>6. Book(entry, ReleaseMovement(run.order.reserve - share)) \in Balance
  <2> HIDE DEF entry, share
  <2> QED BY <1>4, <1>5, BookTyped
<1>7. QED
  BY <1>3, <1>4, <1>6 DEF FillMovement

\* The rows of a candidate after a fill of its order.
OrderFilled(run, fill, recheck) ==
  LET c == run.c
      o1 == orders'[c]  p == positions[c]  p1 == positions'[c]
      share == FillShare(run, fill)
      after == FillStatus(run, fill, recheck)
  IN
  /\ \A d \in Candidates \ {c} :
       orders'[d] = orders[d] /\ positions'[d] = positions[d] /\ plans'[d] = plans[d]
  /\ o1.status = after.order
  /\ o1.remaining = run.order.remaining - fill.quantity
  /\ o1.reserve = IF after.order = "PARTIALLY_FILLED"
                  THEN run.order.reserve - share ELSE 0
  /\ p1.status = after.position
  /\ p1.initial = p.initial + fill.quantity
  /\ p1.open = p.open + fill.quantity
  /\ p1.paid = p.paid + Notional(fill)
  /\ p1.received = p.received
  /\ p1.entryFees = p.entryFees + fill.fee
  /\ p1.exitFees = p.exitFees
  /\ p1.collateral = p.collateral + CollateralForFill(Direction[c], share, fill)
  /\ plans'[c] = IF plans[c].status = "NONE" THEN [plans[c] EXCEPT !.status = "ACTIVE"]
                 ELSE plans[c]

\* The commit of a fill leaves typed rows, changed as OrderFilled says.
LEMMA FillEffect ==
  ASSUME TypeOK, NEW r \in FillRuns, NEW fill \in FillsOffered(filling[r]),
         NEW recheck, CommitFill(filling[r], fill, recheck)
  PROVE  /\ orders' \in [Candidates -> Order]
         /\ positions' \in [Candidates -> Position]
         /\ plans' \in [Candidates -> Plan]
         /\ portfolio' \in Portfolio /\ ledger' \in Balance
         /\ OrderFilled(filling[r], fill, recheck)
<1> DEFINE run == filling[r]
           c == run.c
           share == FillShare(run, fill)
           after == FillStatus(run, fill, recheck)
           coll == CollateralForFill(Direction[c], share, fill)
           o1 == [status |-> after.order, remaining |-> run.order.remaining - fill.quantity,
                  reserve |-> IF after.order = "PARTIALLY_FILLED"
                              THEN run.order.reserve - share ELSE 0,
                  cursor |-> run.candle]
           p0 == ApplyEntryFill(positions[c], fill, coll)
           p1 == [p0 EXCEPT !.status = after.position, !.cursor = run.candle]
           l1 == IF plans[c].status = "NONE" THEN [plans[c] EXCEPT !.status = "ACTIVE"]
                 ELSE plans[c]
<1>1. /\ c \in Candidates /\ run.candle \in Nat /\ run.portfolio \in Portfolio
      /\ run.order.remaining \in Nat /\ run.order.reserve \in Int
      /\ orders \in [Candidates -> Order] /\ positions \in [Candidates -> Position]
      /\ plans \in [Candidates -> Plan]
  BY DEF TypeOK, Order
<1>2. fill \in Fill /\ fill.quantity <= run.order.remaining /\ fill.quantity \in Nat \ {0}
      /\ fill.fee \in Nat
  BY OfferTyped, FillTyped
<1>3. share \in Int /\ FillMovement(run, fill, recheck) \in Balance
  BY FillMovementTyped
<1>4. /\ orders' = [orders EXCEPT ![c] = o1]
      /\ positions' = [positions EXCEPT ![c] = p1]
      /\ plans' = [plans EXCEPT ![c] = l1]
      /\ BookOn(run.portfolio, FillMovement(run, fill, recheck))
  <2>1. CommitFill(run, fill, recheck)
    OBVIOUS
  <2> HIDE DEF run
  <2>2. QED
    BY <1>1, <2>1 DEF CommitFill, FillMovement, FillShare, FillStatus
<1>5. portfolio' \in Portfolio /\ ledger' \in Balance
  BY <1>1, <1>3, <1>4, BookOnTyped
<1>6. /\ after.order \in OrderStatuses /\ after.position \in PositionStatuses
  BY DEF FillStatus, StatusAfterFill, OrderStatuses, PositionStatuses
<1>7. coll \in Int
  BY <1>2, <1>3 DEF CollateralForFill
<1> HIDE DEF coll, after, share
<1>8. o1 \in Order
  <2>1. run.order.remaining - fill.quantity \in Nat /\ run.order.reserve - share \in Int
        /\ 0 \in Int
    BY <1>1, <1>2, <1>3
  <2>2. QED
    BY <1>1, <1>6, <2>1 DEF Order
<1>9. /\ p0 \in Position
      /\ p0.initial = positions[c].initial + fill.quantity
      /\ p0.open = positions[c].open + fill.quantity
      /\ p0.paid = positions[c].paid + Notional(fill)
      /\ p0.received = positions[c].received
      /\ p0.entryFees = positions[c].entryFees + fill.fee
      /\ p0.exitFees = positions[c].exitFees
      /\ p0.collateral = positions[c].collateral + coll
  <2>1. positions[c] \in Position
    BY <1>1
  <2>2. positions[c].open + fill.quantity \in Int
    BY <2>1, <1>2 DEF Position
  <2>3. QED
    BY <1>2, <1>7, <2>1, <2>2, EntryApplied
<1> HIDE DEF p0
<1>10. /\ p1 \in Position
       /\ p1.status = after.position
       /\ p1.initial = p0.initial /\ p1.open = p0.open /\ p1.paid = p0.paid
       /\ p1.received = p0.received /\ p1.entryFees = p0.entryFees
       /\ p1.exitFees = p0.exitFees /\ p1.collateral = p0.collateral
  BY <1>1, <1>6, <1>9 DEF Position
<1>11. l1 \in Plan
  BY <1>1 DEF Plan
<1> HIDE DEF o1, p1, l1
<1>12. /\ orders'[c] = o1 /\ orders' \in [Candidates -> Order]
       /\ positions'[c] = p1 /\ positions' \in [Candidates -> Position]
       /\ plans'[c] = l1 /\ plans' \in [Candidates -> Plan]
       /\ \A d \in Candidates \ {c} :
            orders'[d] = orders[d] /\ positions'[d] = positions[d] /\ plans'[d] = plans[d]
  BY <1>1, <1>4, <1>8, <1>10, <1>11
<1>13. OrderFilled(run, fill, recheck)
  BY <1>9, <1>10, <1>12 DEF o1, l1, coll, after, share, OrderFilled
<1>14. QED
  BY <1>5, <1>12, <1>13

\* The rows of a candidate after its order ended.
OrderEnded(run, status) ==
  LET c == run.c IN
  /\ \A d \in Candidates \ {c} : orders'[d] = orders[d] /\ positions'[d] = positions[d]
  /\ orders'[c].status = status
  /\ orders'[c].reserve = 0
  /\ orders'[c].remaining = orders[c].remaining
  /\ positions'[c] =
       IF run.order.remaining < Quantity[c] /\ positions[c].status = "OPENING"
       THEN [positions[c] EXCEPT !.status = "OPEN"] ELSE positions[c]

\* The end of an order changes the rows as OrderEnded says.
LEMMA EndEffect ==
  ASSUME TypeOK, NEW r \in FillRuns, NEW status \in OrderStatuses,
         EndOrder(filling[r], status)
  PROVE  OrderEnded(filling[r], status)
<1> DEFINE run == filling[r]
           c == run.c
<1>1. /\ c \in Candidates /\ orders \in [Candidates -> Order]
      /\ positions \in [Candidates -> Position]
  BY DEF TypeOK
<1>2. orders' = [orders EXCEPT ![c] =
        [orders[c] EXCEPT !.status = status, !.reserve = 0, !.cursor = run.candle]]
  BY <1>1 DEF EndOrder
<1>3. positions' = [positions EXCEPT ![c] = [positions[c] EXCEPT !.status =
        IF run.order.remaining < Quantity[c] /\ positions[c].status = "OPENING"
        THEN "OPEN" ELSE positions[c].status]]
  BY <1>1 DEF EndOrder, OpenPosition
<1>4. positions[c] \in Position /\ orders[c] \in Order
  BY <1>1
<1>5. [positions[c] EXCEPT !.status = positions[c].status] = positions[c]
  BY <1>4 DEF Position
<1>6. QED
  BY <1>1, <1>2, <1>3, <1>4, <1>5 DEF Order, OrderEnded

\* What an exit fill books, and the rows it leaves.
MonitorFills(fill) ==
  LET c == monitoring.c  seen == monitoring.position
      closed == fill.quantity = seen.open
  IN
  /\ BookOn(monitoring.portfolio, ExitMovement(Direction[c], seen, fill))
  /\ positions' = [positions EXCEPT ![c] =
       [ApplyExitFill(Direction[c], seen, fill) EXCEPT
          !.status = IF closed THEN FinalStatusForTrigger(monitoring.trigger)
                     ELSE "PARTIALLY_CLOSED",
          !.cursor = monitoring.candle]]
  /\ exits' = [exits EXCEPT ![c] =
       [status |-> IF closed THEN "FILLED" ELSE "PARTIALLY_FILLED",
        remaining |-> seen.open - fill.quantity]]
  /\ plans' = [plans EXCEPT ![c].status = IF closed THEN "COMPLETED" ELSE @]

\* An exit fill is one of some quantity of the exit order at a candle's price.
LEMMA MonitorFillCases ==
  ASSUME TypeOK, MonitorFill
  PROVE  \E fill \in Fill : /\ fill.quantity <= exits[monitoring.c].remaining
                            /\ fill.fee = fill.quantity * FeePerUnit
                            /\ fill.price \in Prices
                            /\ MonitorFills(fill)
<1>1. PICK q \in 1..exits[monitoring.c].remaining, p \in Prices :
        MonitorFills([quantity |-> q, price |-> p, fee |-> q * FeePerUnit])
  BY DEF MonitorFill, MonitorFills
<1>2. q \in Nat \ {0} /\ p \in Nat \ {0} /\ q * FeePerUnit \in Nat
      /\ q <= exits[monitoring.c].remaining
  <2>1. exits[monitoring.c].remaining \in Int
    BY DEF TypeOK, Exit
  <2>2. QED
    BY <2>1, ExecutionAssumption
<1>3. QED
  BY <1>1, <1>2 DEF Fill

\* What an exit fill moves is a movement.
LEMMA ExitMovementTyped ==
  ASSUME NEW direction \in {"LONG", "SHORT"}, NEW position, Closable(position),
         NEW fill \in Fill, fill.quantity <= position.open
  PROVE  ExitMovement(direction, position, fill) \in Balance
<1> DEFINE freed == ReleasedCollateral(direction, position, fill)
           gained == RealizedPnl(direction, position, fill)
           gross == GrossPnl(direction, position, fill)
<1>1. Notional(fill) \in Nat /\ fill.fee \in Nat /\ fill.quantity \in Nat
  BY FillTyped
<1>2. freed \in Int /\ gained \in Int /\ AverageEntryPrice(position) \in Nat
  BY ExitTyped
<1>3. gross \in Int
  <2>1. fill.price \in Nat /\ fill.price - AverageEntryPrice(position) \in Int
        /\ AverageEntryPrice(position) - fill.price \in Int
    BY <1>2 DEF Fill
  <2>2. QED
    BY <1>1, <2>1 DEF GrossPnl
<1> HIDE DEF freed, gained, gross
<1> DEFINE paidOut == (IF direction = "LONG" THEN Notional(fill) ELSE freed + gross) - fill.fee
<1>4. paidOut \in Int /\ -freed \in Int
  BY <1>1, <1>2, <1>3
<1>5. ExitMovement(direction, position, fill) = Movement(paidOut, -freed, gained)
  BY DEF ExitMovement, freed, gained, gross
<1> HIDE DEF paidOut
<1>6. QED
  BY <1>2, <1>4, <1>5, MovementTyped

\* The rows of a candidate after an exit fill of what was seen.
PositionReduced(fill) ==
  LET c == monitoring.c  seen == monitoring.position
      closed == fill.quantity = seen.open
      p1 == positions'[c]
  IN
  /\ \A d \in Candidates \ {c} :
       positions'[d] = positions[d] /\ plans'[d] = plans[d] /\ exits'[d] = exits[d]
  /\ p1.status = IF closed THEN FinalStatusForTrigger(monitoring.trigger)
                 ELSE "PARTIALLY_CLOSED"
  /\ p1.initial = seen.initial
  /\ p1.open = seen.open - fill.quantity
  /\ p1.paid = seen.paid
  /\ p1.received = seen.received + Notional(fill)
  /\ p1.entryFees = seen.entryFees
  /\ p1.exitFees = seen.exitFees + fill.fee
  /\ p1.collateral = seen.collateral - ReleasedCollateral(Direction[c], seen, fill)
  /\ exits'[c].status = IF closed THEN "FILLED" ELSE "PARTIALLY_FILLED"
  /\ exits'[c].remaining = seen.open - fill.quantity
  /\ plans'[c] = [plans[c] EXCEPT !.status = IF closed THEN "COMPLETED" ELSE @]

\* An exit fill leaves typed rows, changed as PositionReduced says.
LEMMA ExitEffect ==
  ASSUME TypeOK, NEW fill \in Fill, MonitorFills(fill), monitoring.trigger \in Triggers,
         Closable(monitoring.position), fill.quantity <= monitoring.position.open
  PROVE  /\ positions' \in [Candidates -> Position]
         /\ plans' \in [Candidates -> Plan] /\ exits' \in [Candidates -> Exit]
         /\ portfolio' \in Portfolio /\ ledger' \in Balance
         /\ PositionReduced(fill)
<1> DEFINE c == monitoring.c
           seen == monitoring.position
           closed == fill.quantity = seen.open
           p0 == ApplyExitFill(Direction[c], seen, fill)
           p1 == [p0 EXCEPT !.status = IF closed THEN FinalStatusForTrigger(monitoring.trigger)
                                       ELSE "PARTIALLY_CLOSED",
                            !.cursor = monitoring.candle]
           x1 == [status |-> IF closed THEN "FILLED" ELSE "PARTIALLY_FILLED",
                  remaining |-> seen.open - fill.quantity]
           l1 == [plans[c] EXCEPT !.status = IF closed THEN "COMPLETED" ELSE @]
<1>1. /\ c \in Candidates /\ monitoring.candle \in Nat /\ monitoring.portfolio \in Portfolio
      /\ exits \in [Candidates -> Exit] /\ positions \in [Candidates -> Position]
      /\ plans \in [Candidates -> Plan]
      /\ Direction[c] \in {"LONG", "SHORT"}
  BY ExecutionAssumption DEF TypeOK
<1>2. /\ positions' = [positions EXCEPT ![c] = p1]
      /\ exits' = [exits EXCEPT ![c] = x1]
      /\ plans' = [plans EXCEPT ![c] = l1]
      /\ BookOn(monitoring.portfolio, ExitMovement(Direction[c], seen, fill))
  BY <1>1 DEF MonitorFills
<1>3. portfolio' \in Portfolio /\ ledger' \in Balance
  BY <1>1, <1>2, ExitMovementTyped, BookOnTyped
<1>4. /\ p0 \in Position
      /\ p0.initial = seen.initial
      /\ p0.open = seen.open - fill.quantity
      /\ p0.paid = seen.paid
      /\ p0.received = seen.received + Notional(fill)
      /\ p0.entryFees = seen.entryFees
      /\ p0.exitFees = seen.exitFees + fill.fee
      /\ p0.collateral = seen.collateral - ReleasedCollateral(Direction[c], seen, fill)
  BY <1>1, ExitApplied
<1>5. FinalStatusForTrigger(monitoring.trigger) \in PositionStatuses
      /\ "PARTIALLY_CLOSED" \in PositionStatuses
  BY DEF FinalStatusForTrigger, PositionStatuses
<1> HIDE DEF p0, closed
<1>6. /\ p1 \in Position
      /\ p1.status = IF closed THEN FinalStatusForTrigger(monitoring.trigger)
                     ELSE "PARTIALLY_CLOSED"
      /\ p1.initial = p0.initial /\ p1.open = p0.open /\ p1.paid = p0.paid
      /\ p1.received = p0.received /\ p1.entryFees = p0.entryFees
      /\ p1.exitFees = p0.exitFees /\ p1.collateral = p0.collateral
  BY <1>1, <1>4, <1>5 DEF Position
<1>7. x1 \in Exit
  BY DEF Exit, OrderStatuses, Closable, Position, Fill
<1>8. l1 \in Plan
  BY <1>1 DEF Plan
<1> HIDE DEF p1, x1, l1
<1>9. /\ positions'[c] = p1 /\ positions' \in [Candidates -> Position]
      /\ exits'[c] = x1 /\ exits' \in [Candidates -> Exit]
      /\ plans'[c] = l1 /\ plans' \in [Candidates -> Plan]
      /\ \A d \in Candidates \ {c} :
           positions'[d] = positions[d] /\ plans'[d] = plans[d] /\ exits'[d] = exits[d]
  BY <1>1, <1>2, <1>6, <1>7, <1>8
<1>10. PositionReduced(fill)
  BY <1>4, <1>6, <1>9 DEF x1, l1, closed, PositionReduced
<1>11. QED
  BY <1>3, <1>9, <1>10

----------------------------------------------------------------------------
(* What a step does, seen from the rows and from the runs                  *)

\* The rows the invariants are about.
Rows == <<orders, positions, plans, exits, portfolio, ledger>>

\* The ways a fill run changes them: it ends an order, marks it or fills it.
Ends(r) ==
  /\ filling[r].at = "read" /\ filling'[r].at # "read"
  /\ \E status \in {"EXPIRED", "CANCELLED"} : EndOrder(filling[r], status)
  /\ UNCHANGED <<plans, exits>>
MarksOrder(r) ==
  /\ filling[r].at = "read" /\ filling'[r].at # "read"
  /\ orders' = [orders EXCEPT ![filling[r].c].cursor = filling[r].candle]
  /\ UNCHANGED <<positions, plans, exits, portfolio, ledger>>
Commits(r, fill, recheck) ==
  /\ filling[r].at = "read" /\ filling'[r].at # "read"
  /\ CommitFill(filling[r], fill, recheck)
  /\ UNCHANGED exits
\* The error and integrity locks change the portfolio's version only.
Locks == LockPortfolio /\ UNCHANGED <<orders, positions, plans, exits, ledger>>

\* The steps of Next as the rows see them.
RowStep ==
  \/ UNCHANGED Rows
  \/ \E r \in CreateRuns : CreateCommit(r)
  \/ Locks
  \/ \E r \in FillRuns :
       \/ Ends(r) \/ MarksOrder(r)
       \/ \E fill \in FillsOffered(filling[r]), recheck \in {"ok", "short", "invalid"} :
            Commits(r, fill, recheck)
  \/ MonitorTrigger \/ MonitorOrder \/ MonitorMark \/ MonitorFill

\* Every step of Next changes the rows as RowStep says.
LEMMA RowSteps ==
  ASSUME TypeOK, Next
  PROVE  RowStep
<1> USE DEF RowStep
<1>1. CASE Environment
  BY <1>1 DEF Environment, Approve, RequestManualRiskClose, AcknowledgeEvent, GateChanges,
              CandleCloses, Rows
<1>2. CASE OrderJob
  BY <1>2 DEF OrderJob, CreateRead, CreateCheck, CreateAborts, rows, Rows
<1>3. CASE FillJob
  <2>1. PICK r \in FillRuns :
          FillStarts(r) \/ FillEnds(r) \/ FillStep(r) \/ \E c \in Candidates : FillRead(r, c)
    BY <1>3 DEF FillJob
  <2>2. CASE FillStarts(r) \/ FillEnds(r) \/ FillAborts(r) \/ \E c \in Candidates : FillRead(r, c)
    BY <2>2 DEF FillStarts, FillEnds, FillAborts, FillRead, rows, Rows
  <2>3. CASE FillLocks(r) \/ FillReserveExceeded(r)
    BY <2>3 DEF FillLocks, FillReserveExceeded, Locks
  <2>4. ASSUME NEW at \in {"running", "locking"}, Goes(r, at) PROVE filling'[r].at # "read"
    BY <2>4 DEF Goes, Filling, TypeOK
  <2>5. CASE FillGapExpire(r)
    BY <2>4, <2>5 DEF FillGapExpire, ExpireOrder, Ends
  <2>6. CASE FillProfileInvalid(r)
    BY <2>4, <2>6 DEF FillProfileInvalid, ExpireOrder, Ends
  <2>7. CASE FillUnfillable(r)
    BY <2>4, <2>7 DEF FillUnfillable, ExpireOrder, Ends, MarksOrder
  <2>8. CASE FillCommit(r)
    <3>1. PICK fill \in FillsOffered(filling[r]), recheck \in {"ok", "short", "invalid"} :
            /\ CommitFill(filling[r], fill, recheck)
            /\ Goes(r, IF recheck = "invalid" THEN "locking" ELSE "running")
      BY <2>8 DEF FillCommit
    <3>2. filling'[r].at # "read"
      BY <2>4, <3>1
    <3>3. Commits(r, fill, recheck)
      BY <2>8, <3>1, <3>2 DEF FillCommit, Commits
    <3>4. QED BY <3>3
  <2>9. QED
    BY <2>1, <2>2, <2>3, <2>5, <2>6, <2>7, <2>8 DEF FillStep
<1>4. CASE MonitorJob
  <2>1. CASE MonitorAborts \/ \E c \in Candidates : MonitorRead(c)
    BY <2>1 DEF MonitorAborts, MonitorRead, rows, Rows
  <2>2. CASE MonitorLocks
    BY <2>2 DEF MonitorLocks, Locks
  <2>3. QED
    BY <1>4, <2>1, <2>2 DEF MonitorJob, MonitorStep
<1>5. QED
  BY <1>1, <1>2, <1>3, <1>4 DEF Next

\* A run that has read something has just read it, went on or was left alone.
LEMMA RunSteps ==
  ASSUME TypeOK, Next
  PROVE  /\ \A r \in CreateRuns : creating'[r].at # "idle" =>
              \/ creating'[r] = creating[r]
              \/ \E c \in Candidates : CreateRead(r, c)
              \/ CreateCheck(r)
         /\ \A r \in FillRuns : filling'[r].at = "read" =>
              filling'[r] = filling[r] \/ \E c \in Candidates : FillRead(r, c)
         /\ monitoring'.at # "idle" =>
              \/ monitoring' = monitoring
              \/ \E c \in Candidates : MonitorRead(c)
              \/ MonitorTrigger \/ MonitorOrder
<1>1. ASSUME NEW r \in CreateRuns, creating'[r].at # "idle"
      PROVE  \/ creating'[r] = creating[r]
             \/ \E c \in Candidates : CreateRead(r, c)
             \/ CreateCheck(r)
  <2>1. CASE UNCHANGED creating
    BY <2>1
  <2>2. ASSUME NEW s \in CreateRuns, CreateCommit(s) \/ CreateAborts(s)
        PROVE  creating'[r] = creating[r]
    BY <1>1, <2>2 DEF CreateCommit, CreateAborts, CreateIdle, TypeOK
  <2>3. ASSUME NEW s \in CreateRuns, NEW c \in Candidates, CreateRead(s, c) \/ CreateCheck(s)
        PROVE  r = s \/ creating'[r] = creating[r]
    BY <2>3 DEF CreateRead, CreateCheck, TypeOK
  <2>4. CASE OrderJob
    BY <2>2, <2>3, <2>4, ExecutionAssumption DEF OrderJob
  <2>5. Environment \/ FillJob \/ MonitorJob => UNCHANGED creating
    BY DEF Environment, Approve, RequestManualRiskClose, AcknowledgeEvent, GateChanges,
           CandleCloses, runs, FillJob, FillStep, FillStarts, FillEnds, FillRead,
           FillGapExpire, FillProfileInvalid, FillLocks, FillUnfillable,
           FillReserveExceeded, FillCommit, FillAborts, MonitorJob, MonitorStep,
           MonitorTrigger, MonitorOrder, MonitorMark, MonitorFill, MonitorLocks,
           MonitorAborts, MonitorRead
  <2>6. QED
    BY <2>1, <2>4, <2>5 DEF Next
<1>2. ASSUME NEW r \in FillRuns, filling'[r].at = "read"
      PROVE  filling'[r] = filling[r] \/ \E c \in Candidates : FillRead(r, c)
  <2>1. CASE UNCHANGED filling
    BY <2>1
  <2>2. ASSUME NEW s \in FillRuns, FillStarts(s) \/ FillEnds(s) \/ FillStep(s)
        PROVE  filling'[r] = filling[r]
    <3>1. \/ \E at \in {"running", "locking"} : Goes(s, at)
          \/ Filling(s, FillIdle)
      BY <2>2 DEF FillStarts, FillEnds, FillStep, FillGapExpire, FillProfileInvalid,
                  FillLocks, FillUnfillable, FillReserveExceeded, FillCommit, FillAborts
    <3>2. QED
      BY <1>2, <3>1 DEF Goes, Filling, FillIdle, TypeOK
  <2>3. ASSUME NEW s \in FillRuns, NEW c \in Candidates, FillRead(s, c)
        PROVE  r = s \/ filling'[r] = filling[r]
    BY <2>3 DEF FillRead, Filling, TypeOK
  <2>4. CASE FillJob
    BY <2>2, <2>3, <2>4 DEF FillJob
  <2>5. Environment \/ OrderJob \/ MonitorJob => UNCHANGED filling
    BY DEF Environment, Approve, RequestManualRiskClose, AcknowledgeEvent, GateChanges,
           CandleCloses, runs, OrderJob, CreateRead, CreateCheck, CreateCommit, CreateAborts,
           MonitorJob, MonitorStep, MonitorTrigger, MonitorOrder, MonitorMark, MonitorFill,
           MonitorLocks, MonitorAborts, MonitorRead
  <2>6. QED
    BY <2>1, <2>4, <2>5 DEF Next
<1>3. ASSUME monitoring'.at # "idle"
      PROVE  \/ monitoring' = monitoring
             \/ \E c \in Candidates : MonitorRead(c)
             \/ MonitorTrigger \/ MonitorOrder
  <2>1. Environment \/ OrderJob \/ FillJob => UNCHANGED monitoring
    BY DEF Environment, Approve, RequestManualRiskClose, AcknowledgeEvent, GateChanges,
           CandleCloses, runs, OrderJob, CreateRead, CreateCheck, CreateCommit, CreateAborts,
           FillJob, FillStep, FillStarts, FillEnds, FillRead,
           FillGapExpire, FillProfileInvalid, FillLocks, FillUnfillable,
           FillReserveExceeded, FillCommit, FillAborts
  <2>2. CASE MonitorJob
    <3>1. MonitorMark \/ MonitorFill \/ MonitorLocks \/ MonitorAborts =>
            monitoring' = MonitorIdle
      BY DEF MonitorMark, MonitorFill, MonitorLocks, MonitorAborts
    <3>2. MonitorIdle.at = "idle"
      BY DEF MonitorIdle
    <3>3. QED
      BY <1>3, <2>2, <3>1, <3>2 DEF MonitorJob, MonitorStep
  <2>3. QED
    BY <2>1, <2>2 DEF Next
<1>4. QED
  BY <1>1, <1>2, <1>3

\* Every transaction moves the portfolio's version: as long as it stands, nothing
\* was booked, no position was written and no order but its cursor.
LEMMA Advances ==
  ASSUME TypeOK, RowStep
  PROVE  /\ portfolio.version <= portfolio'.version
         /\ portfolio'.version = portfolio.version =>
              /\ portfolio'.balance = portfolio.balance
              /\ positions' = positions
              /\ \A c \in Candidates :
                   /\ orders'[c].status = orders[c].status
                   /\ orders'[c].remaining = orders[c].remaining
                   /\ orders'[c].reserve = orders[c].reserve
<1> DEFINE Moved == portfolio'.version = portfolio.version + 1
           Stood == /\ portfolio' = portfolio /\ positions' = positions
                    /\ \A c \in Candidates :
                         /\ orders'[c].status = orders[c].status
                         /\ orders'[c].remaining = orders[c].remaining
                         /\ orders'[c].reserve = orders[c].reserve
<1>1. portfolio.version \in Nat
  BY DEF TypeOK, Portfolio
<1>2. SUFFICES Moved \/ Stood
  <2>1. Moved => portfolio.version <= portfolio'.version /\ portfolio'.version # portfolio.version
    BY <1>1
  <2>2. Stood => portfolio.version <= portfolio'.version
    BY <1>1
  <2>3. QED
    BY <2>1, <2>2
<1>3. \A seen, movement : BookOn(seen, movement) => Moved
  BY DEF BookOn
<1>4. CASE UNCHANGED Rows
  BY <1>4 DEF Rows
<1>5. ASSUME NEW r \in CreateRuns, CreateCommit(r) PROVE Moved
  BY <1>3, <1>5 DEF CreateCommit
<1>6. CASE Locks
  BY <1>6 DEF Locks, LockPortfolio, TypeOK, Portfolio
<1>7. ASSUME NEW r \in FillRuns, Ends(r) PROVE Moved
  BY <1>3, <1>7 DEF Ends, EndOrder
<1>8. ASSUME NEW r \in FillRuns, MarksOrder(r) PROVE Stood
  BY <1>8 DEF MarksOrder, TypeOK, Order
<1>9. ASSUME NEW r \in FillRuns, NEW fill, NEW recheck, Commits(r, fill, recheck) PROVE Moved
  BY <1>3, <1>9 DEF Commits, CommitFill
<1>10. CASE MonitorTrigger \/ MonitorOrder
  BY <1>10 DEF MonitorTrigger, MonitorOrder
<1>11. CASE MonitorMark
  BY <1>11 DEF MonitorMark, TypeOK, Portfolio
<1>12. CASE MonitorFill
  BY <1>3, <1>12 DEF MonitorFill
<1>13. QED
  BY <1>4, <1>5, <1>6, <1>7, <1>8, <1>9, <1>10, <1>11, <1>12 DEF RowStep

----------------------------------------------------------------------------
(* The invariant                                                           *)

\* A portfolio that was read: an older version, or the one that is stored.
Past(seen) ==
  /\ seen.version <= portfolio.version
  /\ seen.version = portfolio.version => seen.balance = portfolio.balance

\* Every run holds such a portfolio: whatever it read, no booking can have
\* happened when the version is still the one it read.
PastReads ==
  /\ \A r \in CreateRuns : creating[r].at # "idle" => Past(creating[r].portfolio)
  /\ \A r \in FillRuns : filling[r].at = "read" => Past(filling[r].portfolio)
  /\ monitoring.at # "idle" => Past(monitoring.portfolio)

OpenEntry == {"WAITING_FOR_ENTRY", "PARTIALLY_FILLED"}
LivePosition == {"OPENING", "OPEN", "PARTIALLY_CLOSED"}

\* An entry order and its position: nothing is open before the order, an open
\* order has something left and its position has not been opened, an ended one
\* reserves nothing, and what was bought is what the order has filled.
Entered(c, o, p) ==
  /\ o.status = "NONE" => o.reserve = 0 /\ p.status = "NONE"
  /\ o.status = "WAITING_FOR_ENTRY" => p.status = "NONE"
  /\ o.status \in OpenEntry => p.status \in {"NONE", "OPENING"} /\ 0 < o.remaining
  /\ o.status \notin OpenEntry => o.reserve = 0
  /\ o.status # "NONE" => p.initial = Quantity[c] - o.remaining

\* A position by itself: nothing of it is closed before its order ended, it is
\* live exactly while something is open, and an ended one has no collateral.
Holding(c, p) ==
  /\ p.status = "NONE" => p = NoPosition
  /\ p.status \in {"NONE", "OPENING"} => p.open = p.initial /\ p.received = 0
  /\ p.status \in LivePosition => 0 < p.open
  /\ p.status \notin LivePosition => p.open = 0 /\ p.collateral = 0
  /\ p.open <= p.initial
  /\ Direction[c] = "LONG" => p.collateral = 0

\* A position, its exit plan and its exit order: the plan is live with the
\* position, an exit order is open only under a triggered plan, for all that is
\* left, and filled when the plan is completed.
Leaving(p, l, x) ==
  /\ p.status \in LivePosition <=> l.status \in {"ACTIVE", "TRIGGERED"}
  /\ p.status = "NONE" => l.status = "NONE"
  /\ p.status = "OPENING" => l.status = "ACTIVE"
  /\ l.status \in {"TRIGGERED", "COMPLETED"} => l.triggeredBy \in Triggers
  /\ x.status \in {"NONE", "FILLED"} \cup OpenEntry
  /\ x.status \in OpenEntry =>
       /\ l.status = "TRIGGERED"
       /\ x.remaining = p.open
       /\ p.status \in {"OPEN", "PARTIALLY_CLOSED"}
  /\ l.status = "COMPLETED" <=> x.status = "FILLED"

CandidateOK(c) ==
  /\ Entered(c, orders[c], positions[c])
  /\ Holding(c, positions[c])
  /\ Leaving(positions[c], plans[c], exits[c])
CandidatesOK == \A c \in Candidates : CandidateOK(c)

\* As long as the portfolio is the one a fill run read, the order it read is
\* open and has filled and reserved no more and no less.
OrderAsRead ==
  \A r \in FillRuns :
    LET run == filling[r] IN
    run.at = "read" =>
      /\ orders[run.c].status # "NONE"
      /\ run.portfolio.version = portfolio.version =>
           /\ OpenOrder(run.c)
           /\ orders[run.c].remaining = run.order.remaining
           /\ orders[run.c].reserve = run.order.reserve

\* The position the monitor read is still the stored one, whatever the portfolio:
\* only the monitor writes positions whose order has ended.
PositionAsRead ==
  LET c == monitoring.c IN
  monitoring.at # "idle" =>
    /\ positions[c] = monitoring.position
    /\ positions[c].status \in {"OPEN", "PARTIALLY_CLOSED"}
    /\ monitoring.at # "read" => monitoring.trigger \in Triggers
    /\ monitoring.at = "triggered" => plans[c].status = "TRIGGERED"
    /\ IF monitoring.at = "ordered" THEN OpenExit(c) ELSE ~OpenExit(c)
    /\ monitoring.candle # 0

\* What an order run checked holds until the portfolio is another one.
CheckStands ==
  \A r \in CreateRuns :
    LET run == creating[r] IN
    run.at = "checked" =>
      /\ CanReserve(run.portfolio.balance, Reserve(run.c))
      /\ run.portfolio.version = portfolio.version => NoConflict(run.c)

\* With one fill job: the order it read stays as it was read.
FillerAsRead ==
  \A r \in FillRuns : filling[r].at = "read" =>
    OpenOrder(filling[r].c) /\ orders[filling[r].c] = filling[r].order
\* With one fill job: a position is OPENING exactly while its order fills on.
OpeningWhileFilling ==
  \A c \in Candidates : positions[c].status = "OPENING" <=> orders[c].status = "PARTIALLY_FILLED"

\* The inductive invariant of Spec, for any number of order and fill runs.
IInv ==
  /\ TypeOK /\ PastReads /\ CandidatesOK /\ OrderAsRead /\ PositionAsRead
  /\ CheckStands

\* What the monitor holds can be closed, and an exit order is for all of it.
LEMMA MonitoredIsClosable ==
  ASSUME IInv, monitoring.at # "idle"
  PROVE  LET c == monitoring.c IN
         /\ c \in Candidates
         /\ Closable(monitoring.position) /\ positions[c] = monitoring.position
         /\ monitoring.position.status \in {"OPEN", "PARTIALLY_CLOSED"}
         /\ monitoring.at = "ordered" =>
              /\ monitoring.trigger \in Triggers
              /\ exits[c].remaining = monitoring.position.open
              /\ exits[c].status \in OpenEntry
              /\ plans[c].status = "TRIGGERED"
<1> DEFINE c == monitoring.c
<1>1. c \in Candidates /\ positions[c] \in Position
  BY DEF IInv, TypeOK
<1>2. /\ positions[c] = monitoring.position
      /\ positions[c].status \in {"OPEN", "PARTIALLY_CLOSED"}
      /\ monitoring.at = "ordered" => monitoring.trigger \in Triggers /\ OpenExit(c)
  BY DEF IInv, PositionAsRead
<1>3. Holding(c, positions[c]) /\ Leaving(positions[c], plans[c], exits[c])
  BY <1>1 DEF IInv, CandidatesOK, CandidateOK
<1>4. Closable(positions[c])
  BY <1>1, <1>2, <1>3 DEF Closable, Holding, LivePosition
<1>5. QED
  BY <1>1, <1>2, <1>3, <1>4 DEF Leaving, OpenExit, OpenEntry

\* Every step leaves a state of the right type.
LEMMA TypePreserved ==
  ASSUME IInv, Next
  PROVE  TypeOK'
<1> USE DEF IInv
<1>1. ASSUME NEW c \in Candidates, Approve(c) PROVE TypeOK'
  BY <1>1 DEF Approve, TypeOK, runs
<1>2. CASE GateChanges
  BY <1>2 DEF GateChanges, TypeOK, runs
<1>3. CASE CandleCloses
  BY <1>3, ExecutionAssumption DEF CandleCloses, TypeOK, runs
<1>4. ASSUME NEW c \in Candidates, RequestManualRiskClose(c) PROVE TypeOK'
  BY <1>4 DEF RequestManualRiskClose, TypeOK, runs
<1>5. ASSUME NEW c \in Candidates, AcknowledgeEvent(c) PROVE TypeOK'
  BY <1>5 DEF AcknowledgeEvent, TypeOK, runs
<1>6. ASSUME NEW r \in CreateRuns, NEW c \in Candidates, CreateRead(r, c) PROVE TypeOK'
  BY <1>6 DEF CreateRead, TypeOK, rows
<1>7. ASSUME NEW r \in CreateRuns, CreateCheck(r) PROVE TypeOK'
  <2>1. CreateIdle \in [at : {"idle", "read", "checked"}, c : Candidates, portfolio : Portfolio]
    BY InitTyped DEF CreateIdle
  <2>2. [creating[r] EXCEPT !.at = "checked"] \in
          [at : {"idle", "read", "checked"}, c : Candidates, portfolio : Portfolio]
    BY <1>7 DEF TypeOK
  <2>3. QED
    BY <1>7, <2>1, <2>2 DEF CreateCheck, TypeOK, rows
<1>8. ASSUME NEW r \in CreateRuns, CreateCommit(r) PROVE TypeOK'
  <2> DEFINE c == creating[r].c
  <2>1. c \in Candidates /\ Reserve(c) \in Nat /\ creating[r].portfolio \in Portfolio
    BY <1>8, ExecutionAssumption DEF TypeOK, Reserve
  <2>2. ReserveMovement(Reserve(c)) \in Balance
    <3>1. -Reserve(c) \in Int /\ 0 \in Int
      BY <2>1
    <3>2. QED BY <2>1, <3>1, MovementTyped DEF ReserveMovement
  <2>3. portfolio' \in Portfolio /\ ledger' \in Balance
    BY <1>8, <2>1, <2>2, BookOnTyped DEF CreateCommit
  <2>4. CreateIdle \in [at : {"idle", "read", "checked"}, c : Candidates, portfolio : Portfolio]
    BY InitTyped DEF CreateIdle
  <2>5. [status |-> "WAITING_FOR_ENTRY", remaining |-> Quantity[c],
         reserve |-> Reserve(c), cursor |-> 0] \in Order
    BY <2>1, ExecutionAssumption DEF Order, OrderStatuses
  <2>6. QED
    BY <1>8, <2>1, <2>3, <2>4, <2>5 DEF CreateCommit, TypeOK
<1>9. ASSUME NEW r \in CreateRuns, CreateAborts(r) PROVE TypeOK'
  <2>1. CreateIdle \in [at : {"idle", "read", "checked"}, c : Candidates, portfolio : Portfolio]
    BY InitTyped DEF CreateIdle
  <2>2. QED BY <1>9, <2>1 DEF CreateAborts, TypeOK, rows
<1> DEFINE FillRun == [at : {"idle", "running", "read", "locking"}, c : Candidates,
                       order : Order, candle : Nat, portfolio : Portfolio]
<1>10. ASSUME NEW r \in FillRuns, FillStarts(r) PROVE TypeOK'
  BY <1>10, GoesTyped DEF FillStarts, TypeOK, rows
<1>11. ASSUME NEW r \in FillRuns, NEW c \in Candidates, FillRead(r, c) PROVE TypeOK'
  <2>1. NextCandle(c) \in Nat
    BY DEF TypeOK, NextCandle, Order
  <2>2. [at |-> "read", c |-> c, order |-> orders[c],
         candle |-> NextCandle(c), portfolio |-> portfolio] \in FillRun
    BY <2>1 DEF TypeOK
  <2>3. QED BY <1>11, <2>2 DEF FillRead, Filling, TypeOK, rows
<1>12. FillIdle \in FillRun
  BY InitTyped DEF FillIdle
<1>13. ASSUME NEW r \in FillRuns, FillAborts(r) \/ FillEnds(r) PROVE TypeOK'
  BY <1>13, <1>12 DEF FillAborts, FillEnds, Filling, TypeOK, rows
<1>14. ASSUME NEW r \in FillRuns, NEW at \in {"running", "locking"}, Goes(r, at),
              EndOrder(filling[r], "EXPIRED") \/ EndOrder(filling[r], "CANCELLED"),
              released' \subseteq Candidates,
              UNCHANGED <<now, gate, approved, plans, exits, forced, creating, monitoring>>
       PROVE  TypeOK'
  <2>1. "EXPIRED" \in OrderStatuses /\ "CANCELLED" \in OrderStatuses
    BY DEF OrderStatuses
  <2>2. /\ orders' \in [Candidates -> Order] /\ positions' \in [Candidates -> Position]
        /\ portfolio' \in Portfolio /\ ledger' \in Balance
    BY <1>14, <2>1, EndOrderTyped
  <2>3. filling' \in [FillRuns -> FillRun]
    BY <1>14, GoesTyped
  <2>4. QED BY <1>14, <2>2, <2>3 DEF TypeOK
<1>15. ASSUME NEW r \in FillRuns, FillGapExpire(r) PROVE TypeOK'
  BY <1>15, <1>14 DEF FillGapExpire, ExpireOrder, TypeOK
<1>16. ASSUME NEW r \in FillRuns, FillProfileInvalid(r) PROVE TypeOK'
  BY <1>16, <1>14 DEF FillProfileInvalid, ExpireOrder, TypeOK
<1>17. ASSUME NEW r \in FillRuns, FillUnfillable(r) PROVE TypeOK'
  <2>1. CASE IsFirstCandle(filling[r])
    <3>1. \A o \in Order, k \in Nat : [o EXCEPT !.cursor = k] \in Order
      BY DEF Order
    <3>2. orders' \in [Candidates -> Order]
      <4> DEFINE c == filling[r].c
                 o1 == [orders[c] EXCEPT !.cursor = filling[r].candle]
      <4>1. c \in Candidates /\ orders \in [Candidates -> Order] /\ filling[r].candle \in Nat
        BY DEF TypeOK
      <4>2. o1 \in Order
        BY <3>1, <4>1
      <4>3. orders' = [orders EXCEPT ![c] = o1]
        BY <1>17, <2>1, <4>1 DEF FillUnfillable
      <4> HIDE DEF o1, c
      <4>4. QED BY <4>1, <4>2, <4>3
    <3>3. filling' \in [FillRuns -> FillRun]
      BY <1>17, GoesTyped DEF FillUnfillable
    <3>4. QED BY <1>17, <2>1, <3>2, <3>3 DEF FillUnfillable, TypeOK
  <2>2. CASE ~IsFirstCandle(filling[r])
    BY <1>17, <2>2, <1>14 DEF FillUnfillable, ExpireOrder, TypeOK
  <2>3. QED BY <2>1, <2>2
<1>18. ASSUME NEW r \in FillRuns, FillLocks(r) \/ FillReserveExceeded(r) PROVE TypeOK'
  <2>1. filling' \in [FillRuns -> FillRun]
    BY <1>18, GoesTyped DEF FillLocks, FillReserveExceeded
  <2>2. portfolio' \in Portfolio /\ gate' \in {"open", "closed", "locked"}
    BY <1>18, LockTyped DEF FillLocks, FillReserveExceeded
  <2>3. QED BY <1>18, <2>1, <2>2 DEF FillLocks, FillReserveExceeded, TypeOK
<1>19. ASSUME NEW r \in FillRuns, FillCommit(r) PROVE TypeOK'
  <2>1. PICK fill \in FillsOffered(filling[r]), recheck \in {"ok", "short", "invalid"} :
          /\ CommitFill(filling[r], fill, recheck)
          /\ Goes(r, IF recheck = "invalid" THEN "locking" ELSE "running")
    BY <1>19 DEF FillCommit
  <2>2. /\ orders' \in [Candidates -> Order] /\ positions' \in [Candidates -> Position]
        /\ plans' \in [Candidates -> Plan]
        /\ portfolio' \in Portfolio /\ ledger' \in Balance
    BY <2>1, FillEffect
  <2>3. filling' \in [FillRuns -> FillRun]
    BY <2>1, GoesTyped
  <2>4. forced' \in [Candidates -> {"none", "open", "acknowledged"}]
    BY <2>1 DEF CommitFill, TypeOK
  <2>5. QED BY <1>19, <2>2, <2>3, <2>4 DEF FillCommit, TypeOK
<1> DEFINE MonitorRun == [at : {"idle", "read", "triggered", "ordered"}, c : Candidates,
              position : Position, candle : Nat, portfolio : Portfolio,
              trigger : Triggers \cup {"NONE"}]
<1>20. MonitorIdle \in MonitorRun
  BY InitTyped DEF MonitorIdle
<1>21. ASSUME NEW c \in Candidates, MonitorRead(c) PROVE TypeOK'
  <2>1. positions[c] \in Position /\ positions[c].cursor + 1 \in Nat /\ plans[c] \in Plan
    BY DEF TypeOK, Position
  <2>2. monitoring' \in MonitorRun
    BY <1>21, <2>1 DEF MonitorRead, TypeOK, Plan
  <2>3. QED BY <1>21, <2>2 DEF MonitorRead, TypeOK, rows
<1>22. CASE MonitorTrigger
  <2>1. PICK trigger \in Resolutions(monitoring.c, monitoring.candle) \ {"NONE"} :
          /\ plans' = [plans EXCEPT ![monitoring.c] =
               IF @.status = "ACTIVE"
               THEN [status |-> "TRIGGERED", triggeredBy |-> trigger,
                     triggeredAt |-> monitoring.candle]
               ELSE @]
          /\ monitoring' = [monitoring EXCEPT !.at = "triggered", !.trigger = trigger]
    BY <1>22 DEF MonitorTrigger
  <2>2. trigger \in Triggers
    BY <2>1 DEF Resolutions, PriceTriggers, Triggers
  <2>3. plans' \in [Candidates -> Plan]
    BY <2>1, <2>2 DEF TypeOK, Plan
  <2>4. monitoring' \in MonitorRun
    BY <2>1, <2>2 DEF TypeOK
  <2>5. QED BY <1>22, <2>3, <2>4 DEF MonitorTrigger, TypeOK
<1>23. CASE MonitorOrder
  <2>1. monitoring' \in MonitorRun
    BY <1>23 DEF MonitorOrder, TypeOK
  <2>2. exits' \in [Candidates -> Exit]
    BY <1>23 DEF MonitorOrder, TypeOK, Exit, Position, OrderStatuses
  <2>3. QED BY <1>23, <2>1, <2>2 DEF MonitorOrder, TypeOK
<1>24. CASE MonitorMark
  <2>1. \A p \in Position, k \in Nat : [p EXCEPT !.cursor = k] \in Position
    BY DEF Position
  <2>2. positions' \in [Candidates -> Position]
    BY <1>24, <2>1 DEF MonitorMark, TypeOK
  <2>3. portfolio' \in Portfolio
    BY <1>24 DEF MonitorMark, TypeOK, Portfolio
  <2>4. QED BY <1>24, <1>20, <2>2, <2>3 DEF MonitorMark, TypeOK
<1>25. CASE MonitorFill
  <2>1. monitoring.at = "ordered"
    BY <1>25 DEF MonitorFill
  <2>2. PICK fill \in Fill : /\ fill.quantity <= exits[monitoring.c].remaining
                             /\ MonitorFills(fill)
    BY <1>25, MonitorFillCases
  <2>3. /\ positions' \in [Candidates -> Position]
        /\ plans' \in [Candidates -> Plan] /\ exits' \in [Candidates -> Exit]
        /\ portfolio' \in Portfolio /\ ledger' \in Balance
    BY <2>1, <2>2, MonitoredIsClosable, ExitEffect
  <2>4. QED BY <1>25, <1>20, <2>3 DEF MonitorFill, TypeOK
<1>26. CASE MonitorLocks
  <2>1. portfolio' \in Portfolio /\ gate' \in {"open", "closed", "locked"}
    BY <1>26, LockTyped DEF MonitorLocks
  <2>2. QED BY <1>26, <1>20, <2>1 DEF MonitorLocks, TypeOK
<1>27. CASE MonitorAborts
  BY <1>27, <1>20 DEF MonitorAborts, TypeOK, rows
<1>28. QED
  BY <1>1, <1>2, <1>3, <1>4, <1>5, <1>6, <1>7, <1>8, <1>9, <1>10, <1>11, <1>13, <1>15,
     <1>16, <1>17, <1>18, <1>19, <1>21, <1>22, <1>23, <1>24, <1>25, <1>26, <1>27
  DEF Next, OrderJob, FillJob, FillStep, MonitorJob, MonitorStep, Environment

----------------------------------------------------------------------------
(* What was read                                                           *)

\* What was read stays what was read: a booking moves the version.
LEMMA PastStays ==
  ASSUME TypeOK, TypeOK', RowStep, NEW seen \in Portfolio, Past(seen)
  PROVE  Past(seen)'
<1>1. portfolio.version \in Nat /\ portfolio'.version \in Int /\ seen.version \in Nat
  BY DEF TypeOK, Portfolio
<1>2. QED
  BY <1>1, Advances DEF Past

\* Every run keeps holding a portfolio that was read.
LEMMA PastReadsPreserved ==
  ASSUME IInv, TypeOK', Next
  PROVE  PastReads'
<1>1. RowStep /\ TypeOK /\ PastReads
  BY RowSteps DEF IInv
<1>2. ASSUME NEW seen \in Portfolio, seen = portfolio PROVE Past(seen)'
  <2>1. Past(seen)
    BY <1>2 DEF Past, Portfolio
  <2>2. QED
    BY <1>1, <2>1, PastStays
<1>3. ASSUME NEW r \in CreateRuns, creating'[r].at # "idle" PROVE Past(creating[r].portfolio)'
  <2>1. CASE creating'[r] = creating[r]
    BY <1>1, <1>3, <2>1, PastStays DEF PastReads, TypeOK, Past
  <2>2. ASSUME NEW c \in Candidates, CreateRead(r, c) PROVE creating'[r].portfolio = portfolio
    BY <1>1, <2>2 DEF CreateRead, TypeOK
  <2>3. CASE CreateCheck(r)
    <3>1. creating'[r].portfolio = creating[r].portfolio /\ creating[r].at # "idle"
      BY <1>1, <1>3, <2>3 DEF CreateCheck, CreateIdle, TypeOK
    <3>2. creating[r].portfolio \in Portfolio /\ Past(creating[r].portfolio)
      BY <1>1, <3>1 DEF PastReads, TypeOK
    <3> DEFINE seen == creating[r].portfolio
    <3>3. Past(seen)'
      <4>1. ASSUME NEW x, x = seen PROVE Past(x)'
        BY <1>1, <3>2, <4>1, PastStays
      <4>2. QED BY <3>1, <4>1 DEF Past
    <3>4. QED
      BY <3>1, <3>3 DEF Past
  <2>4. portfolio \in Portfolio
    BY <1>1 DEF TypeOK
  <2>5. QED
    BY <1>1, <1>2, <1>3, <2>1, <2>2, <2>3, <2>4, RunSteps DEF Past
<1>4. ASSUME NEW r \in FillRuns, filling'[r].at = "read" PROVE Past(filling[r].portfolio)'
  <2>1. CASE filling'[r] = filling[r]
    BY <1>1, <1>4, <2>1, PastStays DEF PastReads, TypeOK, Past
  <2>2. ASSUME NEW c \in Candidates, FillRead(r, c) PROVE filling'[r].portfolio = portfolio
    BY <1>1, <2>2 DEF FillRead, Filling, TypeOK
  <2>3. portfolio \in Portfolio
    BY <1>1 DEF TypeOK
  <2>4. QED
    BY <1>1, <1>2, <1>4, <2>1, <2>2, <2>3, RunSteps DEF Past
<1>5. ASSUME monitoring'.at # "idle" PROVE Past(monitoring.portfolio)'
  <2>1. CASE monitoring' = monitoring \/ MonitorTrigger \/ MonitorOrder
    <3>1. monitoring'.portfolio = monitoring.portfolio /\ monitoring.at # "idle"
      BY <1>1, <1>5, <2>1 DEF MonitorTrigger, MonitorOrder, TypeOK
    <3>2. monitoring.portfolio \in Portfolio /\ Past(monitoring.portfolio)
      BY <1>1, <3>1 DEF PastReads, TypeOK
    <3> DEFINE seen == monitoring.portfolio
    <3>3. ASSUME NEW x, x = seen PROVE Past(x)'
      BY <1>1, <3>2, <3>3, PastStays
    <3>4. QED
      BY <3>1, <3>3 DEF Past
  <2>2. ASSUME NEW c \in Candidates, MonitorRead(c) PROVE monitoring'.portfolio = portfolio
    BY <2>2 DEF MonitorRead
  <2>3. portfolio \in Portfolio
    BY <1>1 DEF TypeOK
  <2>4. QED
    BY <1>1, <1>2, <1>5, <2>1, <2>2, <2>3, RunSteps DEF Past
<1>6. QED
  BY <1>3, <1>4, <1>5 DEF PastReads

\* What a fill run read of its order stands while the portfolio does.
LEMMA OrderAsReadPreserved ==
  ASSUME IInv, TypeOK', Next
  PROVE  OrderAsRead'
<1>1. RowStep /\ TypeOK /\ PastReads /\ OrderAsRead
  BY RowSteps DEF IInv
<1>2. ASSUME NEW c \in Candidates, orders[c].status # "NONE" PROVE orders'[c].status # "NONE"
  <2>1. CASE UNCHANGED Rows
    BY <1>2, <2>1 DEF Rows
  <2>2. ASSUME NEW r \in CreateRuns, CreateCommit(r) PROVE orders'[c].status # "NONE"
    BY <1>1, <1>2, <2>2 DEF CreateCommit, TypeOK
  <2>3. ASSUME NEW r \in FillRuns, Ends(r) PROVE orders'[c].status # "NONE"
    <3>1. PICK status \in {"EXPIRED", "CANCELLED"} : EndOrder(filling[r], status)
      BY <2>3 DEF Ends
    <3>2. status \in OrderStatuses
      BY DEF OrderStatuses
    <3>3. OrderEnded(filling[r], status)
      BY <1>1, <3>1, <3>2, EndEffect
    <3>4. QED
      BY <1>2, <3>3 DEF OrderEnded
  <2>4. ASSUME NEW r \in FillRuns, MarksOrder(r) PROVE orders'[c].status # "NONE"
    BY <1>1, <1>2, <2>4 DEF MarksOrder, TypeOK, Order
  <2>5. ASSUME NEW r \in FillRuns, NEW fill \in FillsOffered(filling[r]), NEW recheck,
               Commits(r, fill, recheck)
        PROVE  orders'[c].status # "NONE"
    <3>1. CommitFill(filling[r], fill, recheck)
      BY <2>5 DEF Commits
    <3>2. OrderFilled(filling[r], fill, recheck)
      BY <1>1, <3>1, FillEffect
    <3>3. FillStatus(filling[r], fill, recheck).order # "NONE"
      BY DEF FillStatus, StatusAfterFill
    <3>4. QED
      BY <1>2, <3>2, <3>3 DEF OrderFilled
  <2>6. CASE Locks \/ MonitorTrigger \/ MonitorOrder \/ MonitorMark \/ MonitorFill
    BY <1>2, <2>6 DEF Locks, MonitorTrigger, MonitorOrder, MonitorMark, MonitorFill
  <2>7. QED
    BY <1>1, <2>1, <2>2, <2>3, <2>4, <2>5, <2>6 DEF RowStep
<1> DEFINE Matches(run) ==
             /\ OpenOrder(run.c)
             /\ orders[run.c].remaining = run.order.remaining
             /\ orders[run.c].reserve = run.order.reserve
<1>3. ASSUME NEW r \in FillRuns, filling'[r] = filling[r], filling[r].at = "read"
      PROVE  /\ orders'[filling[r].c].status # "NONE"
             /\ filling[r].portfolio.version = portfolio'.version => Matches(filling[r])'
  <2> DEFINE run == filling[r]
  <2>1. /\ run.portfolio.version <= portfolio.version /\ run.portfolio.version \in Nat
        /\ portfolio.version \in Nat /\ run.c \in Candidates
        /\ portfolio'.version \in Nat
    BY <1>1, <1>3 DEF PastReads, Past, TypeOK, Portfolio
  <2>2. ASSUME run.portfolio.version = portfolio'.version PROVE Matches(run)'
    <3>1. portfolio'.version = portfolio.version
      BY <1>1, <2>1, <2>2, Advances
    <3>2. Matches(run)
      BY <1>1, <1>3, <2>2, <3>1 DEF OrderAsRead
    <3>3. QED
      BY <1>1, <1>3, <2>1, <3>1, <3>2, Advances DEF OpenOrder
  <2>3. QED
    BY <1>1, <1>2, <1>3, <2>1, <2>2 DEF OrderAsRead
<1>4. ASSUME NEW r \in FillRuns, NEW c \in Candidates, FillRead(r, c)
      PROVE  orders'[filling'[r].c].status # "NONE" /\ Matches(filling[r])'
  BY <1>1, <1>4 DEF FillRead, Filling, TypeOK, rows, OpenOrder
<1>5. QED
  BY <1>1, <1>3, <1>4, RunSteps DEF OrderAsRead

----------------------------------------------------------------------------
(* The rows of a candidate                                                 *)

\* The facts of a fill whose order stands as it was read.
LEMMA CommitFacts ==
  ASSUME IInv, NEW r \in FillRuns, NEW fill \in FillsOffered(filling[r]), NEW recheck,
         Commits(r, fill, recheck)
  PROVE  LET run == filling[r]  c == run.c IN
         /\ c \in Candidates
         /\ OrderFilled(run, fill, recheck)
         /\ OpenOrder(c)
         /\ orders[c].remaining = run.order.remaining
         /\ orders[c].reserve = run.order.reserve
         /\ run.portfolio = portfolio
         /\ fill \in Fill /\ fill.quantity <= run.order.remaining
<1> DEFINE run == filling[r]
<1>1. run.c \in Candidates /\ run.portfolio \in Portfolio /\ portfolio \in Portfolio
  BY DEF IInv, TypeOK
<1>2. OrderFilled(run, fill, recheck)
  BY FillEffect DEF IInv, Commits
<1>3. run.portfolio.version = portfolio.version /\ run.at = "read"
  BY DEF Commits, CommitFill, BookOn
<1>4. run.portfolio = portfolio
  BY <1>1, <1>3 DEF IInv, PastReads, Past, Portfolio
<1>5. /\ OpenOrder(run.c) /\ orders[run.c].remaining = run.order.remaining
      /\ orders[run.c].reserve = run.order.reserve
  BY <1>3 DEF IInv, OrderAsRead
<1>6. fill \in Fill /\ fill.quantity <= run.order.remaining
  BY OfferTyped DEF IInv
<1>7. QED
  BY <1>1, <1>2, <1>4, <1>5, <1>6

\* The facts of an exit fill: it reduces the stored position, from the stored
\* portfolio.
LEMMA ExitFacts ==
  ASSUME IInv, MonitorFill
  PROVE  \E fill \in Fill :
           /\ MonitorFills(fill)
           /\ PositionReduced(fill)
           /\ fill.quantity <= monitoring.position.open
           /\ fill.fee = fill.quantity * FeePerUnit
           /\ fill.price \in Prices
           /\ monitoring.portfolio = portfolio
<1>1. monitoring.at = "ordered"
  BY DEF MonitorFill
<1>2. PICK fill \in Fill : /\ fill.quantity <= exits[monitoring.c].remaining
                           /\ fill.fee = fill.quantity * FeePerUnit
                           /\ fill.price \in Prices
                           /\ MonitorFills(fill)
  BY MonitorFillCases DEF IInv
<1>3. PositionReduced(fill) /\ fill.quantity <= monitoring.position.open
  BY <1>1, <1>2, MonitoredIsClosable, ExitEffect DEF IInv
<1>4. monitoring.portfolio = portfolio
  BY <1>1, <1>2 DEF MonitorFills, BookOn, IInv, PastReads, Past, TypeOK, Portfolio
<1>5. QED
  BY <1>2, <1>3, <1>4

\* Every step keeps the rows of every candidate in agreement.
LEMMA CandidatesPreserved ==
  ASSUME IInv, TypeOK', Next
  PROVE  CandidatesOK'
<1> SUFFICES ASSUME NEW c \in Candidates PROVE CandidateOK(c)'
  BY DEF CandidatesOK
<1>1. /\ RowStep /\ TypeOK /\ TypeOK'
      /\ CandidateOK(c)
      /\ orders[c] \in Order /\ positions[c] \in Position
      /\ plans[c] \in Plan /\ exits[c] \in Exit
      /\ orders'[c] \in Order /\ positions'[c] \in Position
      /\ Quantity[c] \in Nat \ {0}
  BY RowSteps, ExecutionAssumption DEF IInv, CandidatesOK, TypeOK
<1>2. ASSUME /\ orders'[c].status = orders[c].status
             /\ orders'[c].remaining = orders[c].remaining
             /\ orders'[c].reserve = orders[c].reserve
             /\ positions'[c] = positions[c]
             /\ plans'[c] = plans[c] /\ exits'[c] = exits[c]
      PROVE  CandidateOK(c)'
  BY <1>1, <1>2 DEF CandidateOK, Entered, Holding, Leaving
<1>3. CASE UNCHANGED Rows \/ Locks
  BY <1>2, <1>3 DEF Rows, Locks
<1>4. ASSUME NEW r \in CreateRuns, CreateCommit(r) PROVE CandidateOK(c)'
  <2>1. CASE c = creating[r].c
    <3>1. /\ orders[c].status = "NONE"
          /\ orders'[c].status = "WAITING_FOR_ENTRY"
          /\ orders'[c].remaining = Quantity[c]
          /\ positions'[c] = positions[c]
          /\ plans'[c] = plans[c] /\ exits'[c] = exits[c]
      BY <1>1, <1>4, <2>1 DEF CreateCommit, TypeOK
    <3>2. positions[c].status = "NONE" /\ positions[c].initial = 0
      BY <1>1, <3>1 DEF CandidateOK, Entered, Holding, NoPosition
    <3>3. QED
      BY <1>1, <3>1, <3>2 DEF CandidateOK, Entered, Holding, Leaving, OpenEntry
  <2>2. CASE c # creating[r].c
    BY <1>1, <1>2, <1>4, <2>2 DEF CreateCommit, TypeOK
  <2>3. QED BY <2>1, <2>2
<1>5. ASSUME NEW r \in FillRuns, Ends(r) PROVE CandidateOK(c)'
  <2>1. PICK status \in {"EXPIRED", "CANCELLED"} : EndOrder(filling[r], status)
    BY <1>5 DEF Ends
  <2>2. OrderEnded(filling[r], status)
    BY <1>1, <2>1, EndEffect DEF OrderStatuses
  <2>3. plans'[c] = plans[c] /\ exits'[c] = exits[c]
    BY <1>5 DEF Ends
  <2>4. CASE c = filling[r].c
    <3>1. /\ orders'[c].status = status /\ orders'[c].reserve = 0
          /\ orders'[c].remaining = orders[c].remaining
      BY <2>2, <2>4 DEF OrderEnded
    <3>2. orders[c].status # "NONE"
      BY <1>5, <2>4 DEF Ends, IInv, OrderAsRead
    <3>3. CASE positions'[c] = positions[c]
      BY <1>1, <2>3, <3>1, <3>2, <3>3 DEF CandidateOK, Entered, Holding, Leaving, OpenEntry
    <3>4. CASE /\ positions[c].status = "OPENING"
               /\ positions'[c] = [positions[c] EXCEPT !.status = "OPEN"]
      <4>1. /\ positions'[c].status = "OPEN"
            /\ positions'[c].initial = positions[c].initial
            /\ positions'[c].open = positions[c].open
            /\ positions'[c].collateral = positions[c].collateral
        BY <1>1, <3>4 DEF Position
      <4>2. Entered(c, orders[c], positions[c])'
        BY <1>1, <3>1, <3>2, <4>1 DEF CandidateOK, Entered, OpenEntry
      <4>3. Holding(c, positions[c])'
        BY <1>1, <3>4, <4>1 DEF CandidateOK, Holding, LivePosition
      <4>4. Leaving(positions[c], plans[c], exits[c])'
        BY <1>1, <2>3, <3>4, <4>1 DEF CandidateOK, Leaving, LivePosition
      <4>5. QED BY <4>2, <4>3, <4>4 DEF CandidateOK
    <3>5. QED
      BY <2>2, <2>4, <3>3, <3>4 DEF OrderEnded
  <2>5. CASE c # filling[r].c
    BY <1>2, <2>2, <2>3, <2>5 DEF OrderEnded
  <2>6. QED BY <2>4, <2>5
<1>6. ASSUME NEW r \in FillRuns, MarksOrder(r) PROVE CandidateOK(c)'
  BY <1>1, <1>2, <1>6 DEF MarksOrder, TypeOK, Order
<1>7. ASSUME NEW r \in FillRuns, NEW fill \in FillsOffered(filling[r]), NEW recheck,
             Commits(r, fill, recheck)
      PROVE  CandidateOK(c)'
  <2> DEFINE run == filling[r]
             after == FillStatus(run, fill, recheck)
  <2>1. /\ OrderFilled(run, fill, recheck)
        /\ OpenOrder(run.c)
        /\ orders[run.c].remaining = run.order.remaining
        /\ orders[run.c].reserve = run.order.reserve
        /\ fill \in Fill /\ fill.quantity <= run.order.remaining
    BY <1>7, CommitFacts
  <2>2. exits'[c] = exits[c]
    BY <1>7 DEF Commits
  <2>3. CASE c = run.c
    <3>1. /\ after.order \in {"FILLED", "PARTIALLY_FILLED", "CANCELLED"}
          /\ after.order = "PARTIALLY_FILLED" =>
               after.position = "OPENING" /\ fill.quantity < orders[c].remaining
          /\ after.order # "PARTIALLY_FILLED" => after.position = "OPEN"
      BY <1>1, <2>1, <2>3 DEF FillStatus, StatusAfterFill, Fill, Order
    <3>2. /\ orders'[c].status = after.order
          /\ orders'[c].remaining = orders[c].remaining - fill.quantity
          /\ after.order # "PARTIALLY_FILLED" => orders'[c].reserve = 0
          /\ positions'[c].status = after.position
          /\ positions'[c].initial = positions[c].initial + fill.quantity
          /\ positions'[c].open = positions[c].open + fill.quantity
          /\ positions'[c].received = positions[c].received
          /\ positions'[c].collateral = positions[c].collateral +
               CollateralForFill(Direction[c], FillShare(run, fill), fill)
          /\ plans'[c] = IF plans[c].status = "NONE"
                         THEN [plans[c] EXCEPT !.status = "ACTIVE"] ELSE plans[c]
      BY <2>1, <2>3 DEF OrderFilled
    <3>3. /\ positions[c].status \in {"NONE", "OPENING"}
          /\ orders[c].status \in OpenEntry
          /\ positions[c].initial = Quantity[c] - orders[c].remaining
          /\ positions[c].open = positions[c].initial /\ positions[c].received = 0
      BY <1>1, <2>1, <2>3 DEF CandidateOK, Entered, Holding, OpenOrder, OpenEntry
    <3>4. fill.quantity \in Nat \ {0}
      BY <2>1, FillTyped
    <3> HIDE DEF after, run
    <3>5. Entered(c, orders[c], positions[c])'
      BY <1>1, <3>1, <3>2, <3>3, <3>4 DEF Entered, OpenEntry, Order, Position
    <3>6. Holding(c, positions[c])'
      <4>1. Direction[c] = "LONG" => positions'[c].collateral = 0
        BY <1>1, <3>2 DEF CandidateOK, Holding, CollateralForFill
      <4>2. QED
        BY <1>1, <3>1, <3>2, <3>3, <3>4, <4>1 DEF Holding, LivePosition, Position
    <3>7. Leaving(positions[c], plans[c], exits[c])'
      <4>1. exits[c].status = "NONE" /\ plans[c].status \in {"NONE", "ACTIVE"}
        BY <1>1, <3>3 DEF CandidateOK, Leaving, OpenEntry, LivePosition
      <4>2. plans'[c].status = "ACTIVE"
        BY <1>1, <3>2, <4>1 DEF Plan
      <4>3. QED
        BY <2>2, <3>1, <3>2, <4>1, <4>2 DEF Leaving, LivePosition, OpenEntry
    <3>8. QED BY <3>5, <3>6, <3>7 DEF CandidateOK
  <2>4. CASE c # run.c
    BY <1>2, <2>1, <2>2, <2>4 DEF OrderFilled
  <2>5. QED BY <2>3, <2>4
<1>8. CASE MonitorTrigger
  <2>1. CASE c = monitoring.c
    <3>1. PICK trigger \in Triggers :
            plans' = [plans EXCEPT ![c] =
              IF @.status = "ACTIVE"
              THEN [status |-> "TRIGGERED", triggeredBy |-> trigger,
                    triggeredAt |-> monitoring.candle]
              ELSE @]
      <4>1. PICK trigger \in Resolutions(c, monitoring.candle) \ {"NONE"} :
              plans' = [plans EXCEPT ![c] =
                IF @.status = "ACTIVE"
                THEN [status |-> "TRIGGERED", triggeredBy |-> trigger,
                      triggeredAt |-> monitoring.candle]
                ELSE @]
        BY <1>8, <2>1 DEF MonitorTrigger
      <4>2. trigger \in Triggers
        BY DEF Resolutions, PriceTriggers, Triggers
      <4>3. QED BY <4>1, <4>2
    <3>2. /\ positions[c].status \in {"OPEN", "PARTIALLY_CLOSED"}
          /\ ~OpenExit(c)
      BY <1>8, <2>1 DEF MonitorTrigger, IInv, PositionAsRead
    <3>3. plans[c].status \in {"ACTIVE", "TRIGGERED"} /\ exits[c].status # "FILLED"
      BY <1>1, <3>2 DEF CandidateOK, Leaving, LivePosition
    <3>4. plans'[c].status = "TRIGGERED" /\ plans'[c].triggeredBy \in Triggers
      BY <1>1, <3>1, <3>3 DEF TypeOK, CandidateOK, Leaving
    <3>5. orders' = orders /\ positions' = positions /\ exits' = exits
      BY <1>8 DEF MonitorTrigger
    <3>6. Leaving(positions[c], plans[c], exits[c])'
      BY <1>1, <3>2, <3>3, <3>4, <3>5 DEF CandidateOK, Leaving, OpenExit, OpenEntry, LivePosition
    <3>7. QED
      BY <1>1, <3>5, <3>6 DEF CandidateOK
  <2>2. CASE c # monitoring.c
    BY <1>1, <1>2, <1>8, <2>2 DEF MonitorTrigger, TypeOK
  <2>3. QED BY <2>1, <2>2
<1>9. CASE MonitorOrder
  <2>1. CASE c = monitoring.c
    <3>1. /\ positions[c].status \in {"OPEN", "PARTIALLY_CLOSED"}
          /\ plans[c].status = "TRIGGERED"
          /\ positions[c] = monitoring.position
      BY <1>9, <2>1 DEF MonitorOrder, IInv, PositionAsRead
    <3>2. exits'[c].status = "WAITING_FOR_ENTRY" /\ exits'[c].remaining = positions[c].open
      BY <1>1, <1>9, <2>1, <3>1 DEF MonitorOrder, TypeOK
    <3>3. orders' = orders /\ positions' = positions /\ plans' = plans
      BY <1>9 DEF MonitorOrder
    <3>4. Leaving(positions[c], plans[c], exits[c])'
      BY <1>1, <3>1, <3>2, <3>3 DEF CandidateOK, Leaving, OpenEntry
    <3>5. QED
      BY <1>1, <3>3, <3>4 DEF CandidateOK
  <2>2. CASE c # monitoring.c
    BY <1>1, <1>2, <1>9, <2>2 DEF MonitorOrder, TypeOK
  <2>3. QED BY <2>1, <2>2
<1>10. CASE MonitorMark
  <2>1. CASE c = monitoring.c
    <3>1. positions[c].status \in {"OPEN", "PARTIALLY_CLOSED"}
      BY <1>10, <2>1 DEF MonitorMark, IInv, PositionAsRead
    <3>2. /\ positions'[c].status = positions[c].status
          /\ positions'[c].initial = positions[c].initial
          /\ positions'[c].open = positions[c].open
          /\ positions'[c].received = positions[c].received
          /\ positions'[c].collateral = positions[c].collateral
      BY <1>1, <1>10, <2>1 DEF MonitorMark, TypeOK, Position
    <3>3. orders' = orders /\ plans' = plans /\ exits' = exits
      BY <1>10 DEF MonitorMark
    <3>4. QED
      BY <1>1, <3>1, <3>2, <3>3 DEF CandidateOK, Entered, Holding, Leaving
  <2>2. CASE c # monitoring.c
    BY <1>1, <1>2, <1>10, <2>2 DEF MonitorMark, TypeOK
  <2>3. QED BY <2>1, <2>2
<1>11. CASE MonitorFill
  <2>1. PICK fill \in Fill : /\ PositionReduced(fill)
                             /\ fill.quantity <= monitoring.position.open
    BY <1>11, ExitFacts
  <2>2. orders' = orders /\ monitoring.at = "ordered"
    BY <1>11 DEF MonitorFill
  <2>3. CASE c = monitoring.c
    <3> DEFINE seen == positions[c]
    <3>1. /\ Closable(seen) /\ seen = monitoring.position
          /\ seen.status \in {"OPEN", "PARTIALLY_CLOSED"}
          /\ monitoring.trigger \in Triggers
          /\ plans[c].status = "TRIGGERED"
      BY <2>2, <2>3, MonitoredIsClosable
    <3>2. /\ positions'[c].status = IF fill.quantity = seen.open
                                    THEN FinalStatusForTrigger(monitoring.trigger)
                                    ELSE "PARTIALLY_CLOSED"
          /\ positions'[c].initial = seen.initial
          /\ positions'[c].open = seen.open - fill.quantity
          /\ positions'[c].collateral =
               seen.collateral - ReleasedCollateral(Direction[c], seen, fill)
          /\ exits'[c].status = IF fill.quantity = seen.open THEN "FILLED"
                                ELSE "PARTIALLY_FILLED"
          /\ exits'[c].remaining = seen.open - fill.quantity
          /\ plans'[c] = [plans[c] EXCEPT !.status =
               IF fill.quantity = seen.open THEN "COMPLETED" ELSE plans[c].status]
      BY <2>1, <2>3, <3>1 DEF PositionReduced
    <3>3. fill.quantity \in Nat \ {0} /\ fill.quantity <= seen.open /\ seen.open \in Nat
          /\ seen.initial \in Nat /\ seen.open <= seen.initial /\ seen.collateral \in Int
      BY <2>1, <3>1, FillTyped DEF Closable, Position
    <3>4. /\ plans'[c].triggeredBy = plans[c].triggeredBy
          /\ plans'[c].status = IF fill.quantity = seen.open THEN "COMPLETED" ELSE "TRIGGERED"
      BY <1>1, <3>1, <3>2 DEF Plan
    <3>5. FinalStatusForTrigger(monitoring.trigger) \in {"STOPPED_OUT", "INVALIDATED", "CLOSED"}
      BY DEF FinalStatusForTrigger
    <3>6. /\ Direction[c] = "LONG" => ReleasedCollateral(Direction[c], seen, fill) = 0
          /\ fill.quantity = seen.open /\ Direction[c] # "LONG" =>
               ReleasedCollateral(Direction[c], seen, fill) = seen.collateral
      BY <3>3 DEF ReleasedCollateral, IsFinalClose
    <3>7. Direction[c] = "LONG" => seen.collateral = 0
      BY <1>1 DEF CandidateOK, Holding
    <3> HIDE DEF seen
    <3>8. /\ orders[c].status # "NONE" => seen.initial = Quantity[c] - orders[c].remaining
          /\ orders[c].status # "NONE" /\ orders[c].status \notin OpenEntry
          /\ orders[c].reserve = 0
      BY <1>1, <3>1 DEF CandidateOK, Entered, OpenEntry, seen
    <3>9. Entered(c, orders[c], positions[c])'
      BY <2>2, <3>2, <3>8 DEF Entered, OpenEntry
    <3>10. Holding(c, positions[c])'
      BY <3>2, <3>3, <3>5, <3>6, <3>7 DEF Holding, LivePosition
    <3>11. Leaving(positions[c], plans[c], exits[c])'
      <4>1. plans'[c].triggeredBy \in Triggers
        BY <1>1, <3>1, <3>4 DEF CandidateOK, Leaving
      <4>2. QED
        BY <3>2, <3>3, <3>4, <3>5, <4>1 DEF Leaving, LivePosition, OpenEntry
    <3>12. QED
      BY <3>9, <3>10, <3>11 DEF CandidateOK
  <2>4. CASE c # monitoring.c
    BY <1>2, <2>1, <2>2, <2>4 DEF PositionReduced
  <2>5. QED BY <2>3, <2>4
<1>12. QED
  BY <1>1, <1>3, <1>4, <1>5, <1>6, <1>7, <1>8, <1>9, <1>10, <1>11 DEF RowStep

----------------------------------------------------------------------------
(* The monitor and the order job                                           *)

\* Only the monitor writes the position, plan and exit order of what is open.
LEMMA OthersLeaveOpenPositions ==
  ASSUME IInv, RowStep, ~MonitorTrigger, ~MonitorOrder, ~MonitorMark, ~MonitorFill,
         NEW c \in Candidates, positions[c].status \in {"OPEN", "PARTIALLY_CLOSED"}
  PROVE  /\ positions'[c] = positions[c] /\ plans'[c] = plans[c] /\ exits'[c] = exits[c]
<1>1. TypeOK /\ CandidateOK(c)
  BY DEF IInv, CandidatesOK
<1>2. CASE UNCHANGED Rows \/ Locks
  BY <1>2 DEF Rows, Locks
<1>3. ASSUME NEW r \in CreateRuns, CreateCommit(r)
      PROVE  positions'[c] = positions[c] /\ plans'[c] = plans[c] /\ exits'[c] = exits[c]
  BY <1>3 DEF CreateCommit
<1>4. ASSUME NEW r \in FillRuns, Ends(r)
      PROVE  positions'[c] = positions[c] /\ plans'[c] = plans[c] /\ exits'[c] = exits[c]
  <2>1. PICK status \in {"EXPIRED", "CANCELLED"} : EndOrder(filling[r], status)
    BY <1>4 DEF Ends
  <2>2. OrderEnded(filling[r], status)
    BY <1>1, <2>1, EndEffect DEF OrderStatuses
  <2>3. QED
    BY <1>4, <2>2 DEF OrderEnded, Ends
<1>5. ASSUME NEW r \in FillRuns, MarksOrder(r)
      PROVE  positions'[c] = positions[c] /\ plans'[c] = plans[c] /\ exits'[c] = exits[c]
  BY <1>5 DEF MarksOrder
<1>6. ASSUME NEW r \in FillRuns, NEW fill \in FillsOffered(filling[r]), NEW recheck,
             Commits(r, fill, recheck)
      PROVE  positions'[c] = positions[c] /\ plans'[c] = plans[c] /\ exits'[c] = exits[c]
  <2>1. OrderFilled(filling[r], fill, recheck) /\ OpenOrder(filling[r].c)
    BY <1>6, CommitFacts
  <2>2. c # filling[r].c
    BY <1>1, <2>1 DEF CandidateOK, Entered, OpenOrder, OpenEntry
  <2>3. QED
    BY <1>6, <2>1, <2>2 DEF OrderFilled, Commits
<1>7. QED
  BY <1>2, <1>3, <1>4, <1>5, <1>6 DEF RowStep

\* The monitor's position stays the stored one.
LEMMA PositionAsReadPreserved ==
  ASSUME IInv, TypeOK', Next
  PROVE  PositionAsRead'
<1>1. /\ RowStep /\ TypeOK /\ TypeOK' /\ PositionAsRead
      /\ monitoring.c \in Candidates
  BY RowSteps DEF IInv, TypeOK
<1> SUFFICES ASSUME monitoring'.at # "idle" PROVE PositionAsRead'
  BY DEF PositionAsRead
<1>2. CASE monitoring' = monitoring
  <2>1. ~MonitorTrigger /\ ~MonitorOrder /\ ~MonitorMark /\ ~MonitorFill
    <3>1. MonitorTrigger => monitoring.at = "read" /\ monitoring'.at = "triggered"
      BY <1>1 DEF MonitorTrigger, TypeOK
    <3>2. MonitorOrder => monitoring.at = "triggered" /\ monitoring'.at = "ordered"
      BY <1>1 DEF MonitorOrder, TypeOK
    <3>3. MonitorMark \/ MonitorFill => monitoring' = MonitorIdle
      BY DEF MonitorMark, MonitorFill
    <3>4. MonitorIdle.at = "idle"
      BY DEF MonitorIdle
    <3>5. QED BY <1>2, <3>1, <3>2, <3>3, <3>4
  <2>2. positions[monitoring.c].status \in {"OPEN", "PARTIALLY_CLOSED"}
    BY <1>1, <1>2 DEF PositionAsRead
  <2>3. /\ positions'[monitoring.c] = positions[monitoring.c]
        /\ plans'[monitoring.c] = plans[monitoring.c]
        /\ exits'[monitoring.c] = exits[monitoring.c]
    BY <1>1, <2>1, <2>2, OthersLeaveOpenPositions
  <2>4. QED
    BY <1>1, <1>2, <2>3 DEF PositionAsRead, OpenExit
<1>3. ASSUME NEW c \in Candidates, MonitorRead(c) PROVE PositionAsRead'
  <2>1. /\ positions[c] \in Position /\ positions[c].cursor + 1 # 0
        /\ CandidateOK(c)
    BY <1>1 DEF TypeOK, Position, IInv, CandidatesOK
  <2>2. OpenExit(c) => plans[c].triggeredBy \in Triggers
    BY <2>1 DEF CandidateOK, Leaving, OpenExit, OpenEntry
  <2>3. UNCHANGED <<positions, plans, exits>>
    BY <1>3 DEF MonitorRead, rows
  <2>4. /\ monitoring'.at = IF OpenExit(c) THEN "ordered" ELSE "read"
        /\ monitoring'.c = c /\ monitoring'.position = positions[c]
        /\ monitoring'.candle = positions[c].cursor + 1
        /\ monitoring'.trigger = IF OpenExit(c) THEN plans[c].triggeredBy ELSE "NONE"
        /\ positions[c].status \in {"OPEN", "PARTIALLY_CLOSED"}
    BY <1>3 DEF MonitorRead
  <2>5. QED
    BY <2>1, <2>2, <2>3, <2>4 DEF PositionAsRead, OpenExit
<1>4. CASE MonitorTrigger
  <2> DEFINE c == monitoring.c
  <2>1. PICK trigger \in Resolutions(c, monitoring.candle) \ {"NONE"} :
          /\ plans' = [plans EXCEPT ![c] =
               IF @.status = "ACTIVE"
               THEN [status |-> "TRIGGERED", triggeredBy |-> trigger,
                     triggeredAt |-> monitoring.candle]
               ELSE @]
          /\ monitoring' = [monitoring EXCEPT !.at = "triggered", !.trigger = trigger]
    BY <1>4 DEF MonitorTrigger
  <2>2. trigger \in Triggers
    BY DEF Resolutions, PriceTriggers, Triggers
  <2>3. /\ positions[c] = monitoring.position
        /\ positions[c].status \in {"OPEN", "PARTIALLY_CLOSED"}
        /\ ~OpenExit(c) /\ monitoring.candle # 0
    BY <1>1, <1>4 DEF MonitorTrigger, PositionAsRead
  <2>4. plans[c].status \in {"ACTIVE", "TRIGGERED"}
    BY <1>1, <2>3 DEF IInv, CandidatesOK, CandidateOK, Leaving, LivePosition
  <2>5. plans'[c].status = "TRIGGERED"
    BY <1>1, <2>1, <2>4 DEF TypeOK
  <2>6. /\ monitoring'.at = "triggered" /\ monitoring'.c = c
        /\ monitoring'.position = monitoring.position
        /\ monitoring'.candle = monitoring.candle /\ monitoring'.trigger = trigger
    BY <1>1, <2>1 DEF TypeOK
  <2>7. UNCHANGED <<positions, exits>>
    BY <1>4 DEF MonitorTrigger
  <2>8. QED
    BY <2>2, <2>3, <2>5, <2>6, <2>7 DEF PositionAsRead, OpenExit
<1>5. CASE MonitorOrder
  <2> DEFINE c == monitoring.c
  <2>1. /\ positions[c] = monitoring.position
        /\ positions[c].status \in {"OPEN", "PARTIALLY_CLOSED"}
        /\ monitoring.trigger \in Triggers
        /\ plans[c].status = "TRIGGERED" /\ monitoring.candle # 0
    BY <1>1, <1>5 DEF MonitorOrder, PositionAsRead
  <2>2. /\ monitoring'.at = "ordered" /\ monitoring'.c = c
        /\ monitoring'.position = monitoring.position
        /\ monitoring'.candle = monitoring.candle
        /\ monitoring'.trigger = monitoring.trigger
    BY <1>1, <1>5 DEF MonitorOrder, TypeOK
  <2>3. exits'[c].status = "WAITING_FOR_ENTRY"
    BY <1>1, <1>5 DEF MonitorOrder, TypeOK
  <2>4. UNCHANGED <<positions, plans>>
    BY <1>5 DEF MonitorOrder
  <2>5. QED
    BY <2>1, <2>2, <2>3, <2>4 DEF PositionAsRead, OpenExit
<1>6. QED
  BY <1>1, <1>2, <1>3, <1>4, <1>5, RunSteps

\* Whoever is exposed after a step was so before it, or its order was created.
LEMMA ExposureIsCreated ==
  ASSUME IInv, RowStep, NEW d \in Candidates, Exposed(d)', ~Exposed(d)
  PROVE  \E r \in CreateRuns : CreateCommit(r) /\ creating[r].c = d
<1>1. /\ TypeOK /\ orders[d] \in Order /\ positions[d] \in Position
  BY DEF IInv, TypeOK
<1>2. CASE UNCHANGED Rows \/ Locks
  BY <1>2 DEF Rows, Locks, Exposed, OpenOrder, Live
<1>3. ASSUME NEW r \in CreateRuns, CreateCommit(r) PROVE creating[r].c = d
  BY <1>1, <1>3 DEF CreateCommit, TypeOK, Exposed, OpenOrder, Live
<1>4. ASSUME NEW r \in FillRuns, Ends(r) PROVE FALSE
  <2>1. PICK status \in {"EXPIRED", "CANCELLED"} : EndOrder(filling[r], status)
    BY <1>4 DEF Ends
  <2>2. OrderEnded(filling[r], status)
    BY <1>1, <2>1, EndEffect DEF OrderStatuses
  <2>3. QED
    BY <1>1, <2>2 DEF OrderEnded, Exposed, OpenOrder, Live, Position
<1>5. ASSUME NEW r \in FillRuns, MarksOrder(r) PROVE FALSE
  BY <1>1, <1>5 DEF MarksOrder, TypeOK, Order, Exposed, OpenOrder, Live
<1>6. ASSUME NEW r \in FillRuns, NEW fill \in FillsOffered(filling[r]), NEW recheck,
             Commits(r, fill, recheck)
      PROVE  FALSE
  <2>1. OrderFilled(filling[r], fill, recheck) /\ OpenOrder(filling[r].c)
    BY <1>6, CommitFacts
  <2>2. d # filling[r].c
    BY <2>1 DEF Exposed
  <2>3. QED
    BY <2>1, <2>2 DEF OrderFilled, Exposed, OpenOrder, Live
<1>7. CASE MonitorTrigger \/ MonitorOrder
  BY <1>7 DEF MonitorTrigger, MonitorOrder, Exposed, OpenOrder, Live
<1>8. CASE MonitorMark
  BY <1>1, <1>8 DEF MonitorMark, TypeOK, Position, Exposed, OpenOrder, Live
<1>9. CASE MonitorFill
  <2>1. PICK fill \in Fill : PositionReduced(fill)
    BY <1>9, ExitFacts
  <2>2. UNCHANGED orders /\ monitoring.at = "ordered"
    BY <1>9 DEF MonitorFill
  <2>3. Live(monitoring.c)
    BY <2>2, MonitoredIsClosable DEF Live
  <2>4. QED
    BY <2>1, <2>2, <2>3 DEF PositionReduced, Exposed, OpenOrder, Live
<1>10. QED
  BY <1>2, <1>3, <1>4, <1>5, <1>6, <1>7, <1>8, <1>9 DEF RowStep

\* What an order run checked stands until somebody books.
LEMMA CheckStandsPreserved ==
  ASSUME IInv, TypeOK', Next
  PROVE  CheckStands'
<1>1. RowStep /\ TypeOK /\ TypeOK' /\ CheckStands /\ PastReads
  BY RowSteps DEF IInv
<1> SUFFICES ASSUME NEW r \in CreateRuns, creating'[r].at = "checked"
             PROVE  /\ CanReserve(creating'[r].portfolio.balance, Reserve(creating'[r].c))
                    /\ creating'[r].portfolio.version = portfolio'.version =>
                         NoConflict(creating[r].c)'
  BY DEF CheckStands
<1>2. CASE creating'[r] = creating[r]
  <2> DEFINE run == creating[r]
  <2>1. /\ run.portfolio.version <= portfolio.version /\ run.portfolio.version \in Nat
        /\ portfolio.version \in Nat /\ portfolio'.version \in Nat /\ run.c \in Candidates
    BY <1>1, <1>2 DEF PastReads, Past, TypeOK, Portfolio
  <2>2. ASSUME run.portfolio.version = portfolio'.version
        PROVE  \A d \in Candidates : SameAsset(run.c, d) => ~Exposed(d)'
    <3>1. portfolio'.version = portfolio.version
      BY <1>1, <2>1, <2>2, Advances
    <3>2. NoConflict(run.c)
      BY <1>1, <1>2, <2>2, <3>1 DEF CheckStands
    <3>3. ~ \E s \in CreateRuns : CreateCommit(s)
      <4>1. \A s \in CreateRuns : CreateCommit(s) => portfolio'.version = portfolio.version + 1
        BY DEF CreateCommit, BookOn
      <4>2. QED BY <2>1, <3>1, <4>1
    <3>4. \A d \in Candidates : Exposed(d)' => Exposed(d)
      BY <1>1, <3>3, ExposureIsCreated
    <3>5. QED
      BY <3>2, <3>4 DEF NoConflict
  <2>3. CanReserve(run.portfolio.balance, Reserve(run.c))
    BY <1>1, <1>2 DEF CheckStands
  <2>4. QED
    BY <1>2, <2>2, <2>3 DEF NoConflict
<1>3. ASSUME NEW c \in Candidates, CreateRead(r, c) PROVE FALSE
  BY <1>1, <1>3 DEF CreateRead, TypeOK
<1>4. CASE CreateCheck(r)
  <2>1. /\ creating'[r].c = creating[r].c
        /\ creating'[r].portfolio = creating[r].portfolio
        /\ NoConflict(creating[r].c)
        /\ CanReserve(creating[r].portfolio.balance, Reserve(creating[r].c))
    BY <1>1, <1>4 DEF CreateCheck, TypeOK, CreateIdle
  <2>2. UNCHANGED <<orders, positions>>
    BY <1>4 DEF CreateCheck, rows
  <2>3. QED
    BY <2>1, <2>2 DEF NoConflict, Exposed, OpenOrder, Live
<1>5. QED
  BY <1>1, <1>2, <1>3, <1>4, RunSteps

----------------------------------------------------------------------------
(* Theorems                                                                *)

\* The invariant holds before anything happened.
LEMMA InitInvariant == Init => IInv
<1> SUFFICES ASSUME Init PROVE IInv
  OBVIOUS
<1> USE DEF Init
<1>1. TypeOK
  <2>1. /\ FirstPortfolio \in Portfolio /\ FirstPortfolio.balance \in Balance
    BY InitTyped DEF Portfolio
  <2>2. QED
    BY <2>1, InitTyped, ExecutionAssumption DEF TypeOK, CreateIdle, FillIdle, MonitorIdle
<1>2. PastReads /\ OrderAsRead /\ PositionAsRead /\ CheckStands
  BY DEF PastReads, OrderAsRead, PositionAsRead, CheckStands, CreateIdle, FillIdle, MonitorIdle
<1>3. CandidatesOK
  BY DEF CandidatesOK, CandidateOK, Entered, Holding, Leaving, NoOrder, NoPosition, NoPlan,
         NoExit, OpenEntry, LivePosition
<1>4. QED
  BY <1>1, <1>2, <1>3 DEF IInv

\* What the jobs read and wrote stays consistent, for any number of order and
\* fill runs: the inductive invariant the other theorems follow from.
THEOREM Invariant == Spec => []IInv
<1>1. Init => IInv
  BY InitInvariant
<1>2. IInv /\ [Next]_vars => IInv'
  <2>1. ASSUME IInv, Next PROVE IInv'
    BY <2>1, TypePreserved, PastReadsPreserved, CandidatesPreserved, OrderAsReadPreserved,
       PositionAsReadPreserved, CheckStandsPreserved DEF IInv
  <2>2. ASSUME IInv, UNCHANGED vars PROVE IInv'
    BY <2>2 DEF IInv, vars, rows, runs, TypeOK, PastReads, Past, CandidatesOK, CandidateOK,
       OrderAsRead, PositionAsRead, CheckStands, NoConflict, Exposed, OpenOrder, OpenExit, Live
  <2>3. QED
    BY <2>1, <2>2
<1>3. QED
  BY <1>1, <1>2, PTL DEF Spec

\* Every state has the types of the model's rows and runs.
THEOREM TypeCorrect == Spec => []TypeOK
BY Invariant, PTL DEF IInv

\* Two order jobs that both found no conflict cannot both create an order of one
\* asset: the second commit fails on the version, so no asset is ever exposed
\* twice.
THEOREM ExposureIsSingle == Spec => []OneExposurePerAsset
<1>1. Init => OneExposurePerAsset
  BY DEF Init, OneExposurePerAsset, Exposed, OpenOrder, Live, NoOrder, NoPosition
<1>2. ASSUME IInv, OneExposurePerAsset, Next PROVE OneExposurePerAsset'
  <2>1. RowStep /\ TypeOK
    BY <1>2, RowSteps DEF IInv
  <2>2. ASSUME NEW c \in Candidates, NEW r \in CreateRuns, CreateCommit(r), creating[r].c = c
        PROVE  \A d \in Candidates : SameAsset(c, d) => ~Exposed(d)
    <3>1. creating[r].at = "checked" /\ creating[r].portfolio.version = portfolio.version
      BY <2>2 DEF CreateCommit, BookOn
    <3>2. QED
      BY <1>2, <2>2, <3>1 DEF IInv, CheckStands, NoConflict
  <2>3. ASSUME NEW r \in CreateRuns, NEW s \in CreateRuns, CreateCommit(r), CreateCommit(s)
        PROVE  r = s
    <3>1. creating[s].at = "checked" /\ creating' = [creating EXCEPT ![r] = CreateIdle]
          /\ creating' = [creating EXCEPT ![s] = CreateIdle]
      BY <2>3 DEF CreateCommit
    <3>2. QED
      BY <2>1, <3>1 DEF TypeOK, CreateIdle
  <2> SUFFICES ASSUME NEW c \in Candidates, NEW d \in Candidates, SameAsset(c, d),
                      Exposed(c)', Exposed(d)'
               PROVE  FALSE
    BY DEF OneExposurePerAsset, SameAsset
  <2>4. SameAsset(d, c) /\ c # d
    BY DEF SameAsset
  <2>5. CASE Exposed(c) /\ Exposed(d)
    BY <1>2, <2>5 DEF OneExposurePerAsset
  <2>6. CASE ~Exposed(c)
    <3>1. PICK r \in CreateRuns : CreateCommit(r) /\ creating[r].c = c
      BY <1>2, <2>1, <2>6, ExposureIsCreated
    <3>2. ~Exposed(d)
      BY <2>2, <3>1
    <3>3. PICK s \in CreateRuns : CreateCommit(s) /\ creating[s].c = d
      BY <1>2, <2>1, <3>2, ExposureIsCreated
    <3>4. QED
      BY <2>3, <2>4, <3>1, <3>3
  <2>7. CASE ~Exposed(d)
    <3>1. PICK r \in CreateRuns : CreateCommit(r) /\ creating[r].c = d
      BY <1>2, <2>1, <2>7, ExposureIsCreated
    <3>2. ~Exposed(c)
      BY <2>2, <2>4, <3>1
    <3>3. PICK s \in CreateRuns : CreateCommit(s) /\ creating[s].c = c
      BY <1>2, <2>1, <3>2, ExposureIsCreated
    <3>4. QED
      BY <2>3, <2>4, <3>1, <3>3
  <2>8. QED
    BY <2>5, <2>6, <2>7
<1>3. OneExposurePerAsset /\ UNCHANGED vars => OneExposurePerAsset'
  BY DEF OneExposurePerAsset, vars, rows, Exposed, OpenOrder, Live
<1>4. QED
  BY <1>1, <1>2, <1>3, Invariant, PTL DEF Spec

----------------------------------------------------------------------------
(* One fill job at a time                                                  *)

\* The lease of the fill job keeps its runs apart.
OneFillJob == \A r, s \in FillRuns : r = s

\* The invariant with one fill job at a time.
SInv == IInv /\ FillerAsRead /\ OpeningWhileFilling

\* The one fill run is the only one to write the order it read.
LEMMA FillerPreserved ==
  ASSUME OneFillJob, SInv, TypeOK', Next
  PROVE  FillerAsRead'
<1>1. RowStep /\ TypeOK /\ IInv
  BY RowSteps DEF SInv, IInv
<1> SUFFICES ASSUME NEW r \in FillRuns, filling'[r].at = "read"
             PROVE  /\ OpenOrder(filling[r].c)'
                    /\ orders'[filling'[r].c] = filling'[r].order
  BY DEF FillerAsRead
<1>2. CASE filling'[r] = filling[r]
  <2> DEFINE c == filling[r].c
  <2>1. c \in Candidates /\ OpenOrder(c) /\ orders[c] = filling[r].order
    BY <1>1, <1>2 DEF SInv, FillerAsRead, TypeOK
  <2>2. orders'[c] = orders[c]
    <3>1. CASE UNCHANGED Rows \/ Locks
      BY <3>1 DEF Rows, Locks
    <3>2. ASSUME NEW s \in CreateRuns, CreateCommit(s) PROVE orders'[c] = orders[c]
      BY <1>1, <2>1, <3>2 DEF CreateCommit, OpenOrder, TypeOK
    <3>3. ASSUME NEW s \in FillRuns, filling'[s].at # "read" PROVE FALSE
      BY <3>3 DEF OneFillJob
    <3>4. CASE MonitorTrigger \/ MonitorOrder \/ MonitorMark \/ MonitorFill
      BY <3>4 DEF MonitorTrigger, MonitorOrder, MonitorMark, MonitorFill
    <3>5. QED
      BY <1>1, <3>1, <3>2, <3>3, <3>4 DEF RowStep, Ends, MarksOrder, Commits
  <2>3. QED
    BY <1>2, <2>1, <2>2 DEF OpenOrder
<1>3. ASSUME NEW c \in Candidates, FillRead(r, c)
      PROVE  OpenOrder(filling[r].c)' /\ orders'[filling'[r].c] = filling'[r].order
  BY <1>1, <1>3 DEF FillRead, Filling, rows, OpenOrder, TypeOK
<1>4. QED
  BY <1>1, <1>2, <1>3, RunSteps

\* With one fill job, the order that ends is the one that was read: a partly
\* filled order opens its position.
LEMMA EndFacts ==
  ASSUME SInv, NEW r \in FillRuns, Ends(r)
  PROVE  LET c == filling[r].c IN
         /\ c \in Candidates
         /\ \E status \in {"EXPIRED", "CANCELLED"} : OrderEnded(filling[r], status)
         /\ UNCHANGED <<plans, exits>>
         /\ OpenOrder(c)
         /\ orders[c] = filling[r].order
         /\ positions'[c].status = IF positions[c].status = "OPENING" THEN "OPEN" ELSE "NONE"
         /\ positions[c].status \in {"NONE", "OPENING"}
         /\ positions'[c].open = positions[c].open
<1> DEFINE c == filling[r].c
<1>1. /\ TypeOK /\ c \in Candidates /\ CandidateOK(c)
      /\ OpenOrder(c) /\ orders[c] = filling[r].order
      /\ positions[c] \in Position /\ orders[c] \in Order /\ Quantity[c] \in Nat
  BY ExecutionAssumption DEF SInv, IInv, TypeOK, CandidatesOK, FillerAsRead, Ends
<1>2. PICK status \in {"EXPIRED", "CANCELLED"} : OrderEnded(filling[r], status)
  BY <1>1, EndEffect DEF Ends, OrderStatuses
<1>3. positions[c].status \in {"NONE", "OPENING"}
  BY <1>1 DEF CandidateOK, Entered, OpenOrder, OpenEntry
<1>4. positions[c].status = "OPENING" => orders[c].remaining < Quantity[c]
  BY <1>1 DEF CandidateOK, Entered, Holding, OpenOrder, LivePosition, Position, Order
<1>5. /\ positions'[c].status = IF positions[c].status = "OPENING" THEN "OPEN" ELSE "NONE"
      /\ positions'[c].open = positions[c].open
  BY <1>1, <1>2, <1>3, <1>4 DEF OrderEnded, Position
<1>6. QED
  BY <1>1, <1>2, <1>3, <1>5 DEF Ends

\* The position of an order that stops filling is opened in the same step.
LEMMA OpeningPreserved ==
  ASSUME SInv, TypeOK', Next
  PROVE  OpeningWhileFilling'
<1> SUFFICES ASSUME NEW c \in Candidates
             PROVE  positions'[c].status = "OPENING" <=> orders'[c].status = "PARTIALLY_FILLED"
  BY DEF OpeningWhileFilling
<1>1. /\ RowStep /\ TypeOK /\ IInv /\ CandidateOK(c)
      /\ positions[c].status = "OPENING" <=> orders[c].status = "PARTIALLY_FILLED"
      /\ orders[c] \in Order /\ positions[c] \in Position
  BY RowSteps DEF SInv, IInv, CandidatesOK, OpeningWhileFilling, TypeOK
<1> DEFINE Goal == positions'[c].status = "OPENING" <=> orders'[c].status = "PARTIALLY_FILLED"
<1>2. CASE UNCHANGED Rows \/ Locks \/ MonitorTrigger \/ MonitorOrder
  BY <1>1, <1>2 DEF Rows, Locks, MonitorTrigger, MonitorOrder
<1>3. ASSUME NEW r \in CreateRuns, CreateCommit(r) PROVE Goal
  BY <1>1, <1>3 DEF CreateCommit, TypeOK, CandidateOK, Entered
<1>4. ASSUME NEW r \in FillRuns, Ends(r) PROVE Goal
  BY <1>1, <1>4, EndFacts DEF OrderEnded
<1>5. ASSUME NEW r \in FillRuns, MarksOrder(r) PROVE Goal
  BY <1>1, <1>5 DEF MarksOrder, TypeOK, Order
<1>6. ASSUME NEW r \in FillRuns, NEW fill \in FillsOffered(filling[r]), NEW recheck,
             Commits(r, fill, recheck)
      PROVE  Goal
  <2>1. OrderFilled(filling[r], fill, recheck)
    BY <1>1, <1>6, CommitFacts
  <2>2. FillStatus(filling[r], fill, recheck).position = "OPENING" <=>
          FillStatus(filling[r], fill, recheck).order = "PARTIALLY_FILLED"
    BY DEF FillStatus, StatusAfterFill
  <2>3. QED
    BY <1>1, <2>1, <2>2 DEF OrderFilled
<1>7. CASE MonitorMark
  <2>1. positions[monitoring.c].status # "OPENING"
    BY <1>1, <1>7 DEF MonitorMark, IInv, PositionAsRead
  <2>2. QED
    BY <1>1, <1>7, <2>1 DEF MonitorMark, TypeOK, Position
<1>8. CASE MonitorFill
  <2>1. PICK fill \in Fill : PositionReduced(fill)
    BY <1>1, <1>8, ExitFacts
  <2>2. UNCHANGED orders /\ monitoring.at = "ordered"
    BY <1>8 DEF MonitorFill
  <2>3. positions[monitoring.c].status \in {"OPEN", "PARTIALLY_CLOSED"}
    BY <1>1, <2>2, MonitoredIsClosable
  <2>4. FinalStatusForTrigger(monitoring.trigger) # "OPENING"
    BY DEF FinalStatusForTrigger
  <2>5. QED
    BY <1>1, <2>1, <2>2, <2>3, <2>4 DEF PositionReduced
<1>9. QED
  BY <1>1, <1>2, <1>3, <1>4, <1>5, <1>6, <1>7, <1>8 DEF RowStep

\* With one fill job at a time the order it read stays as it was read, and a
\* position is OPENING exactly while its order may fill on.
THEOREM SingleFillerInvariant == OneFillJob /\ Spec => []SInv
<1>1. Init => FillerAsRead /\ OpeningWhileFilling
  BY DEF Init, FillerAsRead, OpeningWhileFilling, FillIdle, NoOrder, NoPosition
<1>2. OneFillJob /\ SInv /\ IInv' /\ [Next]_vars => SInv'
  <2>1. ASSUME OneFillJob, SInv, IInv', Next PROVE SInv'
    BY <2>1, FillerPreserved, OpeningPreserved DEF SInv, IInv
  <2>2. ASSUME SInv, IInv', UNCHANGED vars PROVE SInv'
    BY <2>2 DEF SInv, vars, rows, runs, FillerAsRead, OpeningWhileFilling, OpenOrder
  <2>3. QED
    BY <2>1, <2>2
<1>3. IInv /\ FillerAsRead /\ OpeningWhileFilling => SInv
  BY DEF SInv
<1>4. OneFillJob => OneFillJob'
  BY DEF OneFillJob
<1>5. QED
  BY <1>1, <1>2, <1>3, <1>4, Invariant, PTL DEF Spec

\* Order, position, plan and exit order move together, with one fill job at a
\* time (what JobLease's NoFreshOverlap gives jobs that renew their lease).
THEOREM LifecyclesInStep == OneFillJob /\ Spec => []LifecyclesAgree
<1>1. SInv => LifecyclesAgree
  <2> SUFFICES ASSUME SInv, NEW c \in Candidates
               PROVE  /\ positions[c].status = "OPENING" <=> orders[c].status = "PARTIALLY_FILLED"
                      /\ orders[c].status # "NONE" =>
                           positions[c].initial = Quantity[c] - orders[c].remaining
                      /\ Live(c) <=> plans[c].status \in {"ACTIVE", "TRIGGERED"}
                      /\ Live(c) <=> positions[c].open > 0
                      /\ OpenExit(c) => /\ plans[c].status = "TRIGGERED"
                                        /\ exits[c].remaining = positions[c].open
                      /\ plans[c].status = "COMPLETED" <=> exits[c].status = "FILLED"
    BY DEF LifecyclesAgree
  <2>1. CandidateOK(c) /\ positions[c] \in Position
    BY DEF SInv, IInv, CandidatesOK, TypeOK
  <2>2. QED
    BY <2>1 DEF SInv, OpeningWhileFilling, CandidateOK, Entered, Holding, Leaving, Live,
                LivePosition, OpenExit, OpenEntry, Position
<1>2. QED
  BY <1>1, SingleFillerInvariant, PTL

----------------------------------------------------------------------------
(* The guards of the domain package                                        *)

\* Every status a step writes passes the guard of the domain package.
LEMMA GuardsHold ==
  ASSUME SInv, IInv', Next, NEW c \in Candidates
  PROVE  GuardsPass(c)
<1>1. /\ RowStep /\ TypeOK /\ TypeOK' /\ IInv /\ CandidateOK(c)
      /\ orders[c] \in Order /\ positions[c] \in Position
      /\ plans[c] \in Plan /\ exits[c] \in Exit /\ orders'[c] \in Order
  BY RowSteps DEF SInv, IInv, CandidatesOK, OpeningWhileFilling, TypeOK
<1>2. ASSUME orders'[c].status = orders[c].status, exits'[c].status = exits[c].status,
             positions'[c].status = positions[c].status, plans'[c].status = plans[c].status
      PROVE  GuardsPass(c)
  BY <1>2 DEF GuardsPass
<1>3. CASE UNCHANGED Rows \/ Locks
  BY <1>2, <1>3 DEF Rows, Locks
<1>4. ASSUME NEW r \in CreateRuns, CreateCommit(r) PROVE GuardsPass(c)
  BY <1>1, <1>4 DEF CreateCommit, TypeOK, GuardsPass
<1>5. ASSUME NEW r \in FillRuns, Ends(r) PROVE GuardsPass(c)
  <2>1. PICK status \in {"EXPIRED", "CANCELLED"} : OrderEnded(filling[r], status)
    BY <1>5, EndFacts
  <2>2. UNCHANGED <<plans, exits>>
    BY <1>5, EndFacts
  <2>3. CASE c = filling[r].c
    <3>1. /\ OpenOrder(c) /\ orders'[c].status = status
          /\ positions'[c].status = IF positions[c].status = "OPENING" THEN "OPEN" ELSE "NONE"
          /\ positions[c].status \in {"NONE", "OPENING"}
          /\ positions'[c].open = positions[c].open
      BY <1>5, <2>1, <2>3, EndFacts DEF OrderEnded
    <3>2. positions[c].status = "OPENING" => plans[c].status = "ACTIVE" /\ positions[c].open > 0
      BY <1>1 DEF CandidateOK, Leaving, Holding, LivePosition, Position
    <3>3. CheckOrderTransition(orders[c].status, orders'[c].status,
            [isEntry |-> TRUE, permits |-> TRUE, remaining |-> orders'[c].remaining])
      BY <3>1 DEF CheckOrderTransition, OrderTransitions, OpenOrder
    <3>4. positions[c].status = "OPENING" =>
            CheckPositionTransition("OPENING", "OPEN",
              [exitPlanPresent |-> plans'[c].status # "NONE", open |-> positions'[c].open,
               entryOrderSettled |-> orders'[c].status \in TerminalOrderStatuses,
               finalTrigger |-> monitoring.trigger])
      BY <2>2, <3>1, <3>2 DEF CheckPositionTransition, PositionTransitions, TerminalOrderStatuses
    <3>5. QED
      BY <2>2, <3>1, <3>3, <3>4 DEF GuardsPass
  <2>4. CASE c # filling[r].c
    BY <1>2, <2>1, <2>2, <2>4 DEF OrderEnded
  <2>5. QED BY <2>3, <2>4
<1>6. ASSUME NEW r \in FillRuns, MarksOrder(r) PROVE GuardsPass(c)
  BY <1>1, <1>2, <1>6 DEF MarksOrder, TypeOK, Order
<1>7. ASSUME NEW r \in FillRuns, NEW fill \in FillsOffered(filling[r]), NEW recheck,
             Commits(r, fill, recheck)
      PROVE  GuardsPass(c)
  <2> DEFINE run == filling[r]
             after == FillStatus(run, fill, recheck)
  <2>1. /\ OrderFilled(run, fill, recheck)
        /\ OpenOrder(run.c) /\ orders[run.c].remaining = run.order.remaining
        /\ fill \in Fill /\ fill.quantity <= run.order.remaining
    BY <1>1, <1>7, CommitFacts
  <2>2. exits' = exits
    BY <1>7 DEF Commits
  <2>3. CASE c = run.c
    <3>1. /\ after.order \in {"FILLED", "PARTIALLY_FILLED", "CANCELLED"}
          /\ after.position \in {"OPENING", "OPEN"}
          /\ after.position = "OPENING" <=> after.order = "PARTIALLY_FILLED"
          /\ after.order = "FILLED" <=> fill.quantity >= orders[c].remaining
      BY <2>1, <2>3 DEF FillStatus, StatusAfterFill
    <3>2. /\ orders'[c].status = after.order
          /\ orders'[c].remaining = orders[c].remaining - fill.quantity
          /\ positions'[c].status = after.position
          /\ positions'[c].open = positions[c].open + fill.quantity
          /\ plans'[c] = IF plans[c].status = "NONE"
                         THEN [plans[c] EXCEPT !.status = "ACTIVE"] ELSE plans[c]
      BY <2>1, <2>3 DEF OrderFilled
    <3>3. fill.quantity \in Nat \ {0} /\ orders[c].remaining \in Nat
          /\ fill.quantity <= orders[c].remaining /\ positions[c].open \in Int
      BY <1>1, <2>1, <2>3, FillTyped DEF Order, Position
    <3>4. /\ positions[c].status \in {"NONE", "OPENING"}
          /\ positions[c].status = "OPENING" => plans[c].status = "ACTIVE" /\ 0 < positions[c].open
          /\ positions[c].status = "NONE" => plans[c].status = "NONE"
      BY <1>1, <2>1, <2>3
      DEF CandidateOK, Entered, Holding, Leaving, OpenOrder, OpenEntry, LivePosition
    <3>5. plans'[c].status = "ACTIVE"
      BY <1>1, <3>2, <3>4 DEF Plan
    <3>6. orders[c].status # after.order =>
            CheckOrderTransition(orders[c].status, after.order,
              [isEntry |-> TRUE, permits |-> TRUE,
               remaining |-> orders[c].remaining - fill.quantity])
      BY <2>1, <2>3, <3>1, <3>3 DEF CheckOrderTransition, OrderTransitions, OpenOrder
    <3>7. ASSUME positions[c].status = "OPENING", after.position = "OPEN"
           PROVE  CheckPositionTransition("OPENING", "OPEN",
              [exitPlanPresent |-> plans'[c].status # "NONE", open |-> positions'[c].open,
               entryOrderSettled |-> orders'[c].status \in TerminalOrderStatuses,
               finalTrigger |-> monitoring.trigger])
      <4>1. after.order \in TerminalOrderStatuses
        BY <3>1, <3>7 DEF TerminalOrderStatuses
      <4>2. positions'[c].open > 0
        BY <3>2, <3>3, <3>4, <3>7
      <4> HIDE DEF after, run
      <4>3. plans'[c].status # "NONE" /\ orders'[c].status \in TerminalOrderStatuses
        BY <3>2, <3>5, <4>1
      <4>4. QED
        BY <4>2, <4>3 DEF CheckPositionTransition, PositionTransitions
    <3> HIDE DEF after, run
    <3>8. plans[c].status \in {"NONE", plans'[c].status}
      BY <3>4, <3>5
    <3>9. QED
      BY <2>2, <3>1, <3>2, <3>4, <3>6, <3>7, <3>8 DEF GuardsPass
  <2>4. CASE c # run.c
    BY <1>2, <2>1, <2>2, <2>4 DEF OrderFilled
  <2>5. QED BY <2>3, <2>4
<1>8. CASE MonitorTrigger
  <2>1. UNCHANGED <<orders, positions, exits>> /\ monitoring.at = "read"
    BY <1>8 DEF MonitorTrigger
  <2>2. CASE c = monitoring.c
    <3>1. /\ positions[c].status \in {"OPEN", "PARTIALLY_CLOSED"} /\ monitoring.candle # 0
      BY <1>1, <2>1, <2>2 DEF IInv, PositionAsRead
    <3>2. plans[c].status \in {"ACTIVE", "TRIGGERED"}
      BY <1>1, <3>1 DEF CandidateOK, Leaving, LivePosition
    <3>3. PICK trigger \in Triggers :
            plans' = [plans EXCEPT ![c] =
              IF @.status = "ACTIVE"
              THEN [status |-> "TRIGGERED", triggeredBy |-> trigger,
                    triggeredAt |-> monitoring.candle]
              ELSE @]
      <4>1. PICK trigger \in Resolutions(c, monitoring.candle) \ {"NONE"} :
              plans' = [plans EXCEPT ![c] =
                IF @.status = "ACTIVE"
                THEN [status |-> "TRIGGERED", triggeredBy |-> trigger,
                      triggeredAt |-> monitoring.candle]
                ELSE @]
        BY <1>8, <2>2 DEF MonitorTrigger
      <4>2. trigger \in Triggers
        BY DEF Resolutions, PriceTriggers, Triggers
      <4>3. QED BY <4>1, <4>2
    <3>4. CASE plans[c].status = "ACTIVE"
      <4>1. plans'[c] = [status |-> "TRIGGERED", triggeredBy |-> trigger,
                         triggeredAt |-> monitoring.candle]
        BY <1>1, <3>3, <3>4 DEF TypeOK
      <4>2. CheckExitPlanTransition("ACTIVE", "TRIGGERED",
              [triggeredBy |-> trigger, sourceCandle |-> monitoring.candle,
               positionTerminal |-> positions'[c].status \in TerminalPositionStatuses,
               openExitsRemain |-> exits'[c].status # "FILLED"])
        BY <3>1 DEF CheckExitPlanTransition, ExitPlanTransitions
      <4>3. QED
        BY <2>1, <3>4, <4>1, <4>2 DEF GuardsPass
    <3>5. CASE plans[c].status = "TRIGGERED"
      BY <1>1, <1>2, <2>1, <3>3, <3>5 DEF TypeOK
    <3>6. QED BY <3>2, <3>4, <3>5
  <2>3. CASE c # monitoring.c
    BY <1>1, <1>2, <1>8, <2>1, <2>3 DEF MonitorTrigger, TypeOK
  <2>4. QED BY <2>2, <2>3
<1>9. CASE MonitorOrder
  <2>1. UNCHANGED <<orders, positions, plans>> /\ monitoring.at = "triggered"
    BY <1>9 DEF MonitorOrder
  <2>2. CASE c = monitoring.c
    <3>1. plans[c].status = "TRIGGERED" /\ ~OpenExit(c)
      BY <1>1, <2>1, <2>2 DEF IInv, PositionAsRead
    <3>2. exits[c].status = "NONE"
      BY <1>1, <3>1 DEF CandidateOK, Leaving, OpenExit, OpenEntry
    <3>3. QED
      BY <2>1, <3>2 DEF GuardsPass
  <2>3. CASE c # monitoring.c
    BY <1>1, <1>2, <1>9, <2>1, <2>3 DEF MonitorOrder, TypeOK
  <2>4. QED BY <2>2, <2>3
<1>10. CASE MonitorMark
  <2>1. positions'[c].status = positions[c].status
    BY <1>1, <1>10 DEF MonitorMark, TypeOK, Position
  <2>2. QED
    BY <1>2, <1>10, <2>1 DEF MonitorMark
<1>11. CASE MonitorFill
  <2>1. PICK fill \in Fill : /\ PositionReduced(fill)
                             /\ fill.quantity <= monitoring.position.open
    BY <1>1, <1>11, ExitFacts
  <2>2. orders' = orders /\ monitoring.at = "ordered"
    BY <1>11 DEF MonitorFill
  <2>3. CASE c = monitoring.c
    <3> DEFINE seen == positions[c]
               closed == fill.quantity = seen.open
    <3>1. /\ Closable(seen) /\ seen = monitoring.position
          /\ seen.status \in {"OPEN", "PARTIALLY_CLOSED"}
          /\ monitoring.trigger \in Triggers
          /\ plans[c].status = "TRIGGERED"
          /\ exits[c].status \in OpenEntry
      BY <1>1, <2>2, <2>3, MonitoredIsClosable
    <3>2. /\ positions'[c].status = IF closed THEN FinalStatusForTrigger(monitoring.trigger)
                                    ELSE "PARTIALLY_CLOSED"
          /\ positions'[c].open = seen.open - fill.quantity
          /\ exits'[c].status = IF closed THEN "FILLED" ELSE "PARTIALLY_FILLED"
          /\ exits'[c].remaining = seen.open - fill.quantity
          /\ plans'[c] = [plans[c] EXCEPT !.status =
               IF closed THEN "COMPLETED" ELSE plans[c].status]
      BY <2>1, <2>3, <3>1 DEF PositionReduced
    <3>3. fill.quantity \in Nat \ {0} /\ fill.quantity <= seen.open /\ seen.open \in Nat
      BY <2>1, <3>1, FillTyped DEF Closable, Position
    <3>4. plans'[c].status = IF closed THEN "COMPLETED" ELSE "TRIGGERED"
      BY <1>1, <3>1, <3>2 DEF Plan
    <3>5. /\ closed => seen.open - fill.quantity = 0
          /\ ~closed => seen.open - fill.quantity > 0
      BY <3>3
    <3> DEFINE final == FinalStatusForTrigger(monitoring.trigger)
    <3>6. /\ final \in {"STOPPED_OUT", "INVALIDATED", "CLOSED"}
          /\ monitoring.trigger \in FinalTriggerForStatus(final)
      BY <3>1 DEF FinalStatusForTrigger, FinalTriggerForStatus, Triggers
    <3> HIDE DEF seen, closed, final
    <3>7. CheckOrderTransition(exits[c].status, exits'[c].status,
            [isEntry |-> FALSE, remaining |-> exits'[c].remaining])
      BY <3>1, <3>2, <3>5 DEF CheckOrderTransition, OrderTransitions, OpenEntry
    <3>8. CheckPositionTransition(positions[c].status, positions'[c].status,
            [exitPlanPresent |-> plans'[c].status # "NONE", open |-> positions'[c].open,
             entryOrderSettled |-> orders'[c].status \in TerminalOrderStatuses,
             finalTrigger |-> monitoring.trigger])
      <4>1. positions[c].status \in {"OPEN", "PARTIALLY_CLOSED"}
        BY <3>1 DEF seen
      <4>2. CASE closed
        BY <3>2, <3>4, <3>5, <3>6, <4>1, <4>2
        DEF CheckPositionTransition, PositionTransitions, final
      <4>3. CASE ~closed
        BY <3>2, <3>4, <3>5, <4>1, <4>3 DEF CheckPositionTransition, PositionTransitions
      <4>4. QED BY <4>2, <4>3
    <3>9. closed =>
            CheckExitPlanTransition(plans[c].status, plans'[c].status,
              [triggeredBy |-> plans'[c].triggeredBy, sourceCandle |-> plans'[c].triggeredAt,
               positionTerminal |-> positions'[c].status \in TerminalPositionStatuses,
               openExitsRemain |-> exits'[c].status # "FILLED"])
      BY <3>1, <3>2, <3>4, <3>6
      DEF CheckExitPlanTransition, ExitPlanTransitions, TerminalPositionStatuses, final
    <3>10. QED
      BY <2>2, <3>1, <3>4, <3>7, <3>8, <3>9 DEF GuardsPass
  <2>4. CASE c # monitoring.c
    BY <1>2, <2>1, <2>2, <2>4 DEF PositionReduced
  <2>5. QED BY <2>3, <2>4
<1>12. QED
  BY <1>1, <1>3, <1>4, <1>5, <1>6, <1>7, <1>8, <1>9, <1>10, <1>11 DEF RowStep

\* Every status change a job writes is one the guards of the domain package let
\* pass on the rows after it, with one fill job at a time.
THEOREM TablesAreFollowed == OneFillJob /\ Spec => FollowsTables
<1>1. SInv /\ IInv' /\ [Next]_vars => [\A c \in Candidates : GuardsPass(c)]_vars
  BY GuardsHold
<1>2. QED
  BY <1>1, SingleFillerInvariant, Invariant, PTL DEF Spec, FollowsTables

=============================================================================
