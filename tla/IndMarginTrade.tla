--------------------------- MODULE IndMarginTrade ---------------------------
(***************************************************************************)
(* The trade model of an indivisible margin position                       *)
(* (trade/indmargintrade.cpp on top of trade/trade.cpp) as operators on a  *)
(* trade record.  Every operator is one handler or predicate of the class; *)
(* the venue that executes the orders is in the modules that use this one. *)
(*                                                                         *)
(* Quantities are whole lots and prices whole ticks (market->adjustQty and *)
(* market->adjustPrice are the identity on them).  Fees, timestamps and    *)
(* the statistics of the trade are left out: no guard reads them.          *)
(***************************************************************************)
EXTENDS Integers

CONSTANTS OrderIds,  \* identities an order can have (orderId and refId)
          NoId       \* the empty identifier ""

ASSUME NoIdAssumption == NoId \notin OrderIds

-----------------------------------------------------------------------------
(* Data.                                                                   *)

States == {"UNDEFINED", "NEW", "REJECTED", "DELETED", "CANCELED", "OPENED",
           "PARTIALLY_FILLED", "FILLED"}

Events == {"OPENED", "UPDATED", "DELETED", "REJECTED", "CANCELED", "TRADED"}

Ids == OrderIds \cup {NoId}

(* One EntryExit slot.  The entry slot never uses the last three fields.   *)
Slots == [state : States, orderId : Ids, refId : Ids,
          execQty : Int, orderedQty : Int, closing : BOOLEAN]

ResetSlot == [state |-> "UNDEFINED", orderId |-> NoId, refId |-> NoId,
              execQty |-> 0, orderedQty |-> 0, closing |-> FALSE]

TradeRecords ==
  [direction : {-1, 0, 1}, orderQuantity : Int, takeProfit : Nat, stopLoss : Nat,
   entryQty : Int, exitQty : Int, exitPrice : Int,
   entry : Slots, limit : Slots, stop : Slots]

ResetTrade ==
  [direction |-> 0, orderQuantity |-> 0, takeProfit |-> 0, stopLoss |-> 0,
   entryQty |-> 0, exitQty |-> 0, exitPrice |-> 0,
   entry |-> ResetSlot, limit |-> ResetSlot, stop |-> ResetSlot]

(* clear() resets everything but the state.                                *)
Clear(slot, state) == [ResetSlot EXCEPT !.state = state]

HasOrder(slot) == slot.orderId # NoId \/ slot.refId # NoId

(* An order signal; cum and filled are zero unless the event is TRADED.    *)
OrderSignals == [event : Events, orderId : Ids, refId : Ids, cum : Int,
                 filled : Int, price : Nat, completed : BOOLEAN]

-----------------------------------------------------------------------------
(* Predicates.                                                             *)

Filled(slot) == slot.state = "FILLED"

IsClosed(t) == Filled(t.limit) \/ Filled(t.stop)

IsActive(t) == ~IsClosed(t) /\ t.entry.state \in {"PARTIALLY_FILLED", "FILLED"}

IsOpened(t) == t.entry.state = "OPENED"

IsCanceled(t) ==
  \/ t.entry.state = "REJECTED"
  \/ t.entry.state \in {"CANCELED", "DELETED"} /\ t.entryQty = 0

CanDelete(t) == IsClosed(t) \/ IsCanceled(t)

RemainingQty(t) == t.entryQty - t.exitQty

TargetsByOrderId(slot, s) == s.orderId # NoId /\ s.orderId = slot.orderId

Targets(slot, s) ==
  \/ s.orderId # NoId /\ s.orderId = slot.orderId
  \/ s.refId # NoId /\ s.refId = slot.refId

IsTargetOrder(t, s) == \E slot \in {t.entry, t.limit, t.stop} : Targets(slot, s)

(* The local trigger of process(): the order of the slot is not on the     *)
(* exchange and the closing price is beyond the level.                     *)
StopLossHit(t, closePrice) ==
  /\ t.stopLoss > 0
  /\ t.stop.orderId = NoId
  /\ t.direction * (closePrice - t.stopLoss) <= 0

TakeProfitHit(t, closePrice) ==
  /\ t.takeProfit > 0
  /\ t.limit.orderId = NoId
  /\ t.direction * (closePrice - t.takeProfit) >= 0

-----------------------------------------------------------------------------
(* orderSignal().                                                          *)

(* A slot learns its orderId from the first signal that targets it.        *)
Acknowledge(slot, s) ==
  IF slot.orderId = NoId THEN [slot EXCEPT !.orderId = s.orderId] ELSE slot

UntradedIdsOnly(slot, s) ==
  CASE s.event = "REJECTED" ->
         [slot EXCEPT !.orderId = NoId, !.refId = NoId, !.state = "REJECTED"]
    [] s.event = "CANCELED" -> Clear(slot, "CANCELED")
    [] s.event = "DELETED"  -> Clear(slot, slot.state)
    [] OTHER -> slot

(* What every event but TRADED does to the slot it targets.                *)
Untraded(slot, s) ==
  CASE s.event = "OPENED" ->
         [slot EXCEPT !.state = IF slot.state = "NEW" THEN "OPENED" ELSE slot.state]
    [] s.event = "REJECTED" -> Clear(slot, "REJECTED")
    [] s.event = "CANCELED" -> Clear(slot, "CANCELED")
    [] s.event = "DELETED"  -> Clear(slot, slot.state)
    [] OTHER -> slot

EntryTraded(t, s) ==
  LET qty   == IF s.cum > 0 THEN s.cum ELSE t.entryQty + s.filled
      entry == Acknowledge(t.entry, s)
  IN  [t EXCEPT !.entryQty = qty,
                !.entry = IF qty >= t.orderQuantity \/ s.completed
                          THEN Clear(entry, "FILLED")
                          ELSE [entry EXCEPT !.state = "PARTIALLY_FILLED"]]

ExitFillTotal(slot, s) == IF s.cum > 0 THEN s.cum ELSE s.filled

(* _updateExitQty: the quantity executed since the last signal.            *)
ExitFill(slot, s) == IF s.cum > slot.execQty THEN s.cum - slot.execQty ELSE s.filled

(* _updateExitQty: the running average, with the parentheses of the code.  *)
(* No execution leaves a trade with a total that is not positive.          *)
ExitPrice(t, s, fill) ==
  IF s.price = 0 \/ t.exitQty + fill <= 0
  THEN t.exitPrice
  ELSE t.exitPrice * t.exitQty + (s.price * fill) \div (t.exitQty + fill)

(* _updateExitState, on the trade whose exit quantity is already updated.  *)
ExitState(t, exitQty, s) ==
  IF Filled(t.entry)
  THEN IF exitQty > t.entryQty \/ s.completed THEN "FILLED" ELSE "PARTIALLY_FILLED"
  ELSE IF t.entry.orderId # NoId /\ t.entryQty < t.orderQuantity
       THEN "PARTIALLY_FILLED" ELSE "FILLED"

ExitTraded(t, slot, s) ==
  LET fill  == ExitFill(slot, s)
      exec  == slot.execQty + fill
      state == ExitState(t, t.exitQty + fill, s)
  IN  IF exec >= slot.orderedQty \/ s.completed
      THEN Clear(slot, state)
      ELSE [slot EXCEPT !.execQty = exec, !.state = state]

WithExitUnrecorded(t, slot, s) ==
  [t EXCEPT !.exitPrice = ExitPrice(t, s, ExitFill(slot, s))]

WithExit(t, slot, s) ==
  LET fill == ExitFill(slot, s)
  IN  [t EXCEPT !.exitQty = @ + fill, !.exitPrice = ExitPrice(t, s, fill)]

EntrySignal(t, s) ==
  IF s.event = "TRADED" THEN EntryTraded(t, s)
  ELSE [t EXCEPT !.entry = Untraded(Acknowledge(t.entry, s), s)]

LimitSignal(t, s) ==
  LET slot == Acknowledge(t.limit, s)
  IN  IF s.event = "TRADED"
      THEN [WithExit(t, slot, s) EXCEPT !.limit = ExitTraded(t, slot, s)]
      ELSE [t EXCEPT !.limit = Untraded(slot, s)]

StopSignal(t, s) ==
  LET slot == Acknowledge(t.stop, s)
  IN  IF s.event = "TRADED"
      THEN [WithExit(t, slot, s) EXCEPT !.stop = ExitTraded(t, slot, s)]
      ELSE [t EXCEPT !.stop = Untraded(slot, s)]

OrderSignal(t, s) ==
  IF Targets(t.entry, s) THEN EntrySignal(t, s)
  ELSE IF Targets(t.limit, s) THEN LimitSignal(t, s)
  ELSE IF Targets(t.stop, s) THEN StopSignal(t, s)
  ELSE t
=============================================================================
