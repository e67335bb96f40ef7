----------------------------- MODULE FillLedger -----------------------------
(***************************************************************************)
(* The arithmetic of packages/portfolio and of the fill job: what a fill   *)
(* does to a position and to the portfolio's cash.  Amounts are integers;  *)
(* divisions round as the code's RoundingMode does.  A movement is what    *)
(* one transaction books: the sum of its ledger rows.                      *)
(***************************************************************************)
EXTENDS Integers

CeilDiv(a, b) == (a + b - 1) \div b

\* One execution: quantity units at a price, and the fee charged for it.
Notional(fill) == fill.quantity * fill.price

Movement(available, reserved, realized) ==
  [available |-> available, reserved |-> reserved, realized |-> realized]

\* applyLedgerEntry: the running balance after a movement.
Book(balance, movement) ==
  [available |-> balance.available + movement.available,
   reserved  |-> balance.reserved + movement.reserved,
   realized  |-> balance.realized + movement.realized]

----------------------------------------------------------------------------
(* Reservations                                                            *)

\* Mutant: what is available is not looked at.
CanReserveAnything(balance, amount) == amount > 0

CanReserve(balance, amount) == amount > 0 /\ amount <= balance.available

CanRelease(balance, amount) == amount > 0 /\ amount <= balance.reserved

ReserveMovement(amount) == Movement(-amount, amount, 0)

ReleaseMovement(amount) == Movement(amount, -amount, 0)

\* The part of an order's reserve that belongs to a fill; the last fill takes
\* what is left.
ReservedForFill(reserve, quantity, remaining) ==
  IF quantity >= remaining THEN reserve ELSE CeilDiv(reserve * quantity, remaining)

----------------------------------------------------------------------------
(* Entry fills                                                             *)

\* What the reserve has to cover: a SHORT's notional is not paid for.
RequiredReserve(direction, fill) ==
  IF direction = "LONG" THEN Notional(fill) + fill.fee ELSE fill.fee

\* A SHORT keeps the rest of its share as collateral.
CollateralForFill(direction, share, fill) ==
  IF direction = "SHORT" THEN share - fill.fee ELSE 0

\* Mutant: the excess of the share over the notional stays reserved.
EntryKeepsExcess(direction, share, fill) ==
  IF direction = "LONG"
  THEN Movement(-fill.fee, -Notional(fill), 0)
  ELSE Movement(0, -fill.fee, 0)

EntryMovement(direction, share, fill) ==
  IF direction = "LONG"
  THEN Movement(share - Notional(fill) - fill.fee, -share, 0)
  ELSE Movement(0, -fill.fee, 0)

ApplyEntryFill(position, fill, collateral) ==
  [position EXCEPT !.initial = @ + fill.quantity,
                   !.open = @ + fill.quantity,
                   !.paid = @ + Notional(fill),
                   !.entryFees = @ + fill.fee,
                   !.collateral = @ + collateral]

----------------------------------------------------------------------------
(* Exit fills                                                              *)

AverageEntryPrice(position) == position.paid \div position.initial

GrossPnl(direction, position, fill) ==
  fill.quantity * (IF direction = "LONG"
                   THEN fill.price - AverageEntryPrice(position)
                   ELSE AverageEntryPrice(position) - fill.price)

IsFinalClose(position, fill) ==
  (position.initial - position.open) + fill.quantity >= position.initial

\* No column keeps what earlier exit fills were charged, so the job passes
\* zero for it: the final close is charged all of the entry fees.
AllocatedEntryFees(position, fill) ==
  IF IsFinalClose(position, fill) THEN position.entryFees
  ELSE CeilDiv(position.entryFees * fill.quantity, position.initial)

RealizedPnl(direction, position, fill) ==
  GrossPnl(direction, position, fill) - AllocatedEntryFees(position, fill) - fill.fee

ReleasedCollateral(direction, position, fill) ==
  IF direction = "LONG" THEN 0
  ELSE IF IsFinalClose(position, fill) THEN position.collateral
  ELSE (position.collateral * fill.quantity) \div position.open

\* Mutant: the fee of a SHORT's exit is only taken from its profit.
ExitMovementWithoutShortFee(direction, position, fill) ==
  LET released == ReleasedCollateral(direction, position, fill)
  IN  Movement(IF direction = "LONG" THEN Notional(fill) - fill.fee
               ELSE released + GrossPnl(direction, position, fill),
               -released,
               RealizedPnl(direction, position, fill))

ExitMovement(direction, position, fill) ==
  LET released == ReleasedCollateral(direction, position, fill)
  IN  Movement((IF direction = "LONG" THEN Notional(fill)
                ELSE released + GrossPnl(direction, position, fill)) - fill.fee,
               -released,
               RealizedPnl(direction, position, fill))

ApplyExitFill(direction, position, fill) ==
  [position EXCEPT
     !.open = @ - fill.quantity,
     !.received = @ + Notional(fill),
     !.exitFees = @ + fill.fee,
     !.realized = @ + RealizedPnl(direction, position, fill),
     !.collateral = @ - ReleasedCollateral(direction, position, fill)]

=============================================================================
