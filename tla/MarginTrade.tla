---------------------------- MODULE MarginTrade ----------------------------
(***************************************************************************)
(* The trade model of a margin trade (trade/margintrade.cpp), on the trade *)
(* record of IndMarginTrade, next to the handlers of that module: the two  *)
(* classes differ in what they remember of an order and in how they add    *)
(* the executions up.                                                      *)
(***************************************************************************)
EXTENDS IndMarginTrade

(* A margin trade forgets an order by its two identifiers only: closing,   *)
(* execQty and orderedQty stay as they are (and it never sets them).       *)
ForgetIds(slot, state) ==
  [slot EXCEPT !.orderId = NoId, !.refId = NoId, !.state = state]

AccumulatedTwice(qty, s) == qty + IF s.cum > 0 THEN s.cum ELSE s.filled

(* cumulativeFilled replaces the quantity, filled is added to it.          *)
Accumulated(qty, s) == IF s.cum > 0 THEN s.cum ELSE qty + s.filled

MarginUntraded(slot, s) ==
  CASE s.event = "REJECTED" -> ForgetIds(slot, "REJECTED")
    [] s.event = "CANCELED" -> ForgetIds(slot, "CANCELED")
    [] s.event = "DELETED"  -> ForgetIds(slot, slot.state)
    [] OTHER -> slot

(* The entry is OPENED whatever its state was.                             *)
MarginEntrySignal(t, s) ==
  LET entry == Acknowledge(t.entry, s)
      qty   == Accumulated(t.entryQty, s)
  IN  CASE s.event = "TRADED" ->
             [t EXCEPT !.entryQty = qty,
                       !.entry = [entry EXCEPT
                          !.state = IF qty >= t.orderQuantity \/ s.completed
                                    THEN "FILLED" ELSE "PARTIALLY_FILLED"]]
        [] s.event = "OPENED" -> [t EXCEPT !.entry = [entry EXCEPT !.state = "OPENED"]]
        [] OTHER -> [t EXCEPT !.entry = MarginUntraded(entry, s)]

(* An exit is FILLED as soon as the entry is: the test reads entryQty.     *)
MarginExit(t, slot, s) ==
  CASE s.event = "TRADED" ->
         [slot EXCEPT !.state = IF t.entryQty >= t.orderQuantity \/ s.completed
                                THEN "FILLED" ELSE "PARTIALLY_FILLED"]
    [] s.event = "OPENED" ->
         [slot EXCEPT !.state = IF slot.state = "NEW" THEN "OPENED" ELSE @]
    [] OTHER -> MarginUntraded(slot, s)

MarginExitQtySummed(t, s) ==
  IF s.event = "TRADED" THEN t.exitQty + s.cum + s.filled ELSE t.exitQty

(* The executions of both exit orders go to the one exit quantity.         *)
MarginExitQty(t, s) ==
  IF s.event = "TRADED" THEN Accumulated(t.exitQty, s) ELSE t.exitQty

MarginOrderSignal(t, s) ==
  IF Targets(t.entry, s) THEN MarginEntrySignal(t, s)
  ELSE IF Targets(t.limit, s)
  THEN [t EXCEPT !.limit = MarginExit(t, Acknowledge(@, s), s), !.exitQty = MarginExitQty(t, s)]
  ELSE IF Targets(t.stop, s)
  THEN [t EXCEPT !.stop = MarginExit(t, Acknowledge(@, s), s), !.exitQty = MarginExitQty(t, s)]
  ELSE t
=============================================================================
