---------------------------- MODULE ShadowReplay ----------------------------
(***************************************************************************)
(* The replay of packages/shadow-replay: one sequential loop over the      *)
(* hourly candles of one symbol that fills orders, runs exits, values the  *)
(* portfolio, releases the kill switch after its review, and lets strategy *)
(* and risk engine decide on what had closed by then.  A candle does its   *)
(* work in phases; what it offers is any choice the fill and exit models   *)
(* leave open.  The arithmetic of a fill is module FillLedger, the rules   *)
(* of the risk engine are module RiskEngine.                               *)
(***************************************************************************)
EXTENDS Integers, Sequences, FillLedger

CONSTANTS
  Quantities,     \* sizes the sizing may approve
  ReservePerUnit, \* reserved quote amount of one unit
  FeePerUnit,     \* fee of one unit
  FillPrices,     \* prices a candle can fill at
  StartingCash,
  MaxLosses,      \* maxConsecutiveLosses
  MaxDayLoss,     \* maxDailyLossPct of the start-of-day equity, as an amount
  ReviewHours,    \* killSwitchReviewHours
  HoursPerDay,
  MaxHour         \* bound for model checking: the number of candles

VARIABLES
  mode,      \* "SPEC", or "SIGNAL_EDGE" without the risk engine
  hour,      \* the candle that is replayed
  phase,     \* what of it comes next
  balance,   \* availableCash, reservedCash, realizedPnl
  order,     \* the open entry order, and when it was anchored
  position,  \* the open position
  closed,    \* the closed trades: when, and their net result
  dayStart,  \* startOfDay: its day and equity
  killedAt,  \* killSwitchEngagedAtMs, -1 when released
  releasedAt \* lastKillSwitchReleaseMs, -1 when there was none

replayVars == <<mode, hour, phase, balance, order, position, closed, dayStart, killedAt, releasedAt>>
settled == <<mode, closed, dayStart, killedAt, releasedAt>>

NoOrder == [anchor |-> -1, remaining |-> 0, reserved |-> 0, seen |-> 0]
NoPosition ==
  [initial |-> 0, open |-> 0, paid |-> 0, received |-> 0, entryFees |-> 0, exitFees |-> 0, realized |-> 0,
   collateral |-> 0, anchor |-> -1, openedAt |-> -1, last |-> -1, force |-> FALSE, pending |-> "NONE"]

Exits == {"STOP", "TAKE_PROFIT", "TIME_EXIT", "MANUAL_RISK_CLOSE", "INVALIDATION"}

ReplayTypeOK ==
  /\ mode \in {"SPEC", "SIGNAL_EDGE"} /\ hour \in 0..MaxHour
  /\ phase \in {"entries", "exits", "value", "decide", "thrown"}
  /\ order.seen \in 0..1 /\ order.remaining \in Nat /\ order.reserved \in Nat
  /\ position.open \in 0..position.initial /\ position.pending \in Exits \cup {"NONE"}
  /\ killedAt \in -1..MaxHour /\ releasedAt \in -1..(MaxHour + ReviewHours)

ReplayInit ==
  /\ mode \in {"SPEC", "SIGNAL_EDGE"} /\ hour = 0 /\ phase = "entries"
  /\ balance = Movement(StartingCash, 0, 0)
  /\ order = NoOrder /\ position = NoPosition /\ closed = <<>>
  /\ dayStart = [day |-> -1, equity |-> StartingCash]
  /\ killedAt = -1 /\ releasedAt = -1

Exposed == order # NoOrder \/ position # NoPosition
Day(h) == h \div HoursPerDay

----------------------------------------------------------------------------
(* The entry order                                                         *)

\* Mutant: a released order keeps what it reserved.
EndOrderOnly == order' = NoOrder /\ UNCHANGED balance

\* releaseOrder, on the balance and order as they are: what is still reserved is freed.
ReleaseOrder ==
  /\ order' = NoOrder
  /\ balance' = IF order.reserved > 0 THEN Book(balance, ReleaseMovement(order.reserved)) ELSE balance

\* A gap on the first candle that opens at or after earliestFillAt ends the order.
EntryGap ==
  /\ phase = "entries" /\ order # NoOrder /\ order.seen = 0
  /\ ReleaseOrder /\ phase' = "exits"
  /\ UNCHANGED <<hour, position, settled>>

\* computeMarketFill finds no volume: after two candles the order ends.
EntryUnfillable ==
  /\ phase = "entries" /\ order # NoOrder
  /\ IF order.seen + 1 >= 2 THEN ReleaseOrder
     ELSE order' = [order EXCEPT !.seen = @ + 1] /\ UNCHANGED balance
  /\ phase' = "exits"
  /\ UNCHANGED <<hour, position, settled>>

\* The position of the order's first fill, or the one it has.
Filled ==
  IF position # NoPosition THEN position
  ELSE [NoPosition EXCEPT !.anchor = order.anchor, !.openedAt = hour, !.last = hour]

\* A fill books its share of the reserve.  The last fill, the second candle and a
\* reward too small after the fill (SPEC) end the order; the latter also asks for
\* the position to be closed.
EntryFill(fill, short) ==
  LET final == fill.quantity >= order.remaining
      share == ReservedForFill(order.reserved, fill.quantity, order.remaining)
      entry == Book(balance, EntryMovement("LONG", share, fill))
      kept  == order.reserved - share
  IN  /\ position' = [ApplyEntryFill(Filled, fill, 0) EXCEPT !.force = @ \/ short]
      /\ IF final \/ short \/ order.seen + 1 >= 2
           THEN order' = NoOrder /\ balance' = Book(entry, ReleaseMovement(kept))
           ELSE /\ balance' = entry
                /\ order' = [order EXCEPT !.remaining = @ - fill.quantity, !.reserved = kept, !.seen = @ + 1]

\* What the candle can fill within the reserve.  A share that does not cover a
\* partial fill makes the booking fail, and the replay throws.
EntryOffers ==
  {fill \in {[quantity |-> q, price |-> p, fee |-> q * FeePerUnit] :
               q \in 1..order.remaining, p \in FillPrices} :
     RequiredReserve("LONG", fill) <= order.reserved}

Entries ==
  \/ EntryGap \/ EntryUnfillable
  \/ /\ phase = "entries" /\ order # NoOrder
     /\ \E fill \in EntryOffers, short \in IF mode = "SPEC" THEN BOOLEAN ELSE {FALSE} :
          IF RequiredReserve("LONG", fill) > ReservedForFill(order.reserved, fill.quantity, order.remaining)
          THEN phase' = "thrown" /\ UNCHANGED <<order, position, balance>>
          ELSE EntryFill(fill, short) /\ phase' = "exits"
     /\ UNCHANGED <<hour, settled>>
  \/ /\ phase = "entries" /\ order = NoOrder
     /\ phase' = "exits" /\ UNCHANGED <<hour, balance, order, position, settled>>

----------------------------------------------------------------------------
(* The exits                                                               *)

\* Mutant: the entry candle is searched for an exit too.
DueAtOnce == position # NoPosition

\* A position is looked at once per candle, and not on the candle that opened it.
Due == position # NoPosition /\ hour > position.last

\* An exit found before stays; else the candle's stop, target or time limit comes
\* first, then the forced close, then the regime gate.
ExitsOf(pos) ==
  IF pos.pending # "NONE" THEN {pos.pending}
  ELSE {"STOP", "TAKE_PROFIT", "TIME_EXIT"}
         \cup (IF pos.force THEN {"MANUAL_RISK_CLOSE"} ELSE {"INVALIDATION", "NONE"})

\* closeTrade: the trade with its net result.
CloseTrade(after) ==
  position' = NoPosition /\ closed' = Append(closed, [at |-> hour, net |-> after.realized])

\* An exit without volume stays pending, one that leaves a rest too.
ExitFill(exit, fill) ==
  LET after == ApplyExitFill("LONG", position, fill)
  IN  /\ balance' = Book(balance, ExitMovement("LONG", position, fill))
      /\ IF after.open > 0
           THEN position' = [after EXCEPT !.last = hour, !.pending = exit] /\ UNCHANGED closed
           ELSE CloseTrade(after)

ExitsOfCandle ==
  /\ phase = "exits" /\ phase' = "value"
  /\ IF ~Due THEN UNCHANGED <<balance, position, closed>>
     ELSE \E exit \in ExitsOf(position) :
            \/ /\ position' = [position EXCEPT !.last = hour, !.pending = exit]
               /\ UNCHANGED <<balance, closed>>
            \/ /\ exit # "NONE"
               /\ \E q \in 1..position.open, p \in FillPrices :
                    ExitFill(exit, [quantity |-> q, price |-> p, fee |-> q * FeePerUnit])
  /\ UNCHANGED <<mode, hour, order, dayStart, killedAt, releasedAt>>

----------------------------------------------------------------------------
(* Valuation, kill switch and decision                                     *)

Equity(mark) == balance.available + balance.reserved + position.open * mark

\* The first valuation of a day is its start; the review releases the switch as of
\* its own end, whenever the next candle comes.
ReleaseAsOfReview ==
  releasedAt' = IF killedAt >= 0 /\ hour >= killedAt + ReviewHours THEN killedAt + ReviewHours ELSE releasedAt

Value ==
  /\ phase = "value" /\ phase' = "decide"
  /\ \E mark \in FillPrices :
       dayStart' = IF dayStart.day = Day(hour) THEN dayStart ELSE [day |-> Day(hour), equity |-> Equity(mark)]
  /\ ReleaseAsOfReview
  /\ killedAt' = IF killedAt >= 0 /\ hour >= killedAt + ReviewHours THEN -1 ELSE killedAt
  /\ UNCHANGED <<mode, hour, balance, order, position, closed>>

\* Mutant: only the trades of the day count.
LossesOfToday ==
  LET counts(i) == Day(closed[i].at) = Day(hour) /\ closed[i].net < 0
                     /\ \A j \in i..Len(closed) : closed[j].net <= 0 /\ closed[j].at > releasedAt
  IN  Len(SelectSeq([i \in DOMAIN closed |-> counts(i)], LAMBDA b : b))

\* The losses since the last profit, and since the last release of the switch.
ConsecutiveLosses ==
  LET counts(i) == closed[i].net < 0
                     /\ \A j \in i..Len(closed) : closed[j].net <= 0 /\ closed[j].at > releasedAt
  IN  Len(SelectSeq([i \in DOMAIN closed |-> counts(i)], LAMBDA b : b))

\* buildRiskSnapshot: what changes from one evaluation to the next.
RiskSnapshot(mark) ==
  [killSwitchEngaged |-> killedAt >= 0, exposed |-> Exposed, consecutiveLosses |-> ConsecutiveLosses,
   dailyPnl |-> Equity(mark) - dayStart.equity]

\* evaluateRisk may refuse any snapshot.  Lost runs and lost days engage the switch,
\* unless a directive that locks is stronger, as NoScaleIn's of an exposed asset is;
\* nothing lost, killed or exposed is approved.
Lost(s) == s.consecutiveLosses >= MaxLosses \/ s.dailyPnl <= -MaxDayLoss
MayEngage(s) == Lost(s) /\ ~s.exposed
MayApprove(s) == ~Lost(s) /\ ~s.exposed /\ ~s.killSwitchEngaged

\* The strategy has no candidate, or the risk engine or the sizing refuses it; no
\* directive but the kill switch is carried out.
Refuse == UNCHANGED <<order, balance, killedAt>>
Engage ==
  /\ mode = "SPEC" /\ \E mark \in FillPrices : MayEngage(RiskSnapshot(mark))
  /\ killedAt' = IF killedAt < 0 THEN hour ELSE killedAt
  /\ UNCHANGED <<order, balance>>

\* SPEC asks the risk engine, SIGNAL_EDGE only for one exposure at a time.
Approve ==
  /\ IF mode = "SPEC" THEN \E mark \in FillPrices : MayApprove(RiskSnapshot(mark)) ELSE ~Exposed
  /\ \E q \in Quantities :
       /\ CanReserve(balance, q * ReservePerUnit)
       /\ balance' = Book(balance, ReserveMovement(q * ReservePerUnit))
       /\ order' = [anchor |-> hour, remaining |-> q, reserved |-> q * ReservePerUnit, seen |-> 0]
  /\ UNCHANGED killedAt

Decide ==
  /\ phase = "decide" /\ phase' = "entries"
  /\ hour < MaxHour /\ hour' = hour + 1
  /\ Refuse \/ Engage \/ Approve
  /\ UNCHANGED <<mode, position, closed, dayStart, releasedAt>>

\* All candles are replayed and the result is summed up, or the replay threw.
ReplayOver ==
  /\ phase = "thrown" \/ (phase = "decide" /\ hour = MaxHour)
  /\ UNCHANGED replayVars

ReplayNext == Entries \/ ExitsOfCandle \/ Value \/ Decide \/ ReplayOver

ReplaySpec == ReplayInit /\ [][ReplayNext]_replayVars

----------------------------------------------------------------------------
(* Properties                                                              *)

\* What is reserved is what the open order holds: the replay's own invariant check
\* (checkPortfolioInvariants) never counts a violation, and no candle makes cash
\* negative.
ReplayBooksHold == balance.reserved = order.reserved /\ balance.available >= 0

\* No hindsight: an order anchored on a candle fills on a later one and on no other
\* than the two after it, and a position is not closed on the candle that opened it.
FillsAfterDecisionStep ==
  /\ position'.initial > position.initial =>
       /\ hour > position'.anchor /\ hour <= position'.anchor + 2
       /\ position'.openedAt \in {hour - 1, hour}
  /\ closed' # closed => hour > position.openedAt
FillsAfterDecision == [][FillsAfterDecisionStep]_replayVars

\* A run of losses that neither a profit nor a review of the switch interrupts is
\* never longer than the limit: the risk engine stops the replay in time.
LossRunIsBounded ==
  mode = "SPEC" =>
    \A s \in DOMAIN closed :
      (\A i \in s..Len(closed) : closed[i].net < 0 /\ closed[i].at > releasedAt) =>
        Len(closed) - s + 1 <= MaxLosses

=============================================================================
