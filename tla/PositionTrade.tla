---------------------------- MODULE PositionTrade ----------------------------
(***************************************************************************)
(* A position trade (trade/positiontrade.cpp): one entry order that a      *)
(* broker turns into one position, which the trade follows by the signals  *)
(* of the order and of the position, whose levels it modifies and which it *)
(* closes.  The stop policies of the strategy move its stop-loss.          *)
(*                                                                         *)
(* The broker is external: it accepts or refuses the order, executes it in *)
(* parts into the position, reduces the position when a close was asked or *)
(* a level is set, and reports all that later.  Order and position signals *)
(* are one stream or two.                                                  *)
(***************************************************************************)
EXTENDS StopPolicies, Sequences, FiniteSets, SequencesExt

CONSTANTS
  Styles,        \* how quantities are reported: "cumulative" or "filled"
  Averages,      \* whether the broker reports the average price
  Streams,       \* whether both kinds of signals are "one" stream or "two"
  Faults,        \* what may happen to signals: "repeated", "lost"
  Directions,    \* directions of the trade
  EntrySize,     \* quantity of the entry order
  FillPrice,     \* price at which the broker executes the entry
  Prices,        \* prices at which the trade would close
  StopLevels,    \* levels given to open() and modifyStopLoss()
  LimitLevels,   \* levels given to open() and modifyTakeProfit()
  Mods,          \* ModifierType given to the two of them
  MaxSignals     \* bound on the signals on their way

ASSUME PositionAssumption ==
  /\ Styles \subseteq {"cumulative", "filled"} /\ Averages \subseteq BOOLEAN
  /\ Streams \subseteq {"one", "two"} /\ Faults \subseteq {"repeated", "lost"}
  /\ Directions \subseteq {-1, 1} /\ EntrySize \in Nat \ {0}
  /\ FillPrice \in Nat \ {0} /\ Prices \subseteq Nat
  /\ StopLevels \subseteq Nat /\ LimitLevels \subseteq Nat
  /\ Mods \subseteq {"LOCAL", "DISTANT", "PREVIOUS"} /\ MaxSignals \in Nat

VARIABLES
  setting,   \* how the broker reports: style, averages, streams
  trade,     \* the trade
  listed,    \* whether the trade manager still lists the trade
  order,     \* the entry order as the broker knows it
  position,  \* the position as the broker knows it
  signals,   \* the signals on their way to the trade
  faults     \* what happened to the signals so far

vars == <<setting, trade, listed, order, position, signals, faults>>

-----------------------------------------------------------------------------
(* Data.                                                                   *)

Undefined == -1

States == {"UNDEFINED", "REJECTED", "DELETED", "CANCELED", "OPENED",
           "PARTIALLY_FILLED", "FILLED"}

(* There is one order and one position: an identifier is known or not.     *)
TradeRecords ==
  [direction : {-1, 0, 1}, orderQuantity : Nat, entryState : States, exitState : States,
   closing : BOOLEAN, entryQty : Int, exitQty : Int, entryPrice : Int,
   positionQty : Nat, positionStop : Int, positionLimit : Int, stopLoss : Int, takeProfit : Int,
   orderId : BOOLEAN, refId : BOOLEAN, positionId : BOOLEAN]

ResetTrade ==
  [direction |-> 0, orderQuantity |-> 0, entryState |-> "UNDEFINED", exitState |-> "UNDEFINED",
   closing |-> FALSE, entryQty |-> 0, exitQty |-> 0, entryPrice |-> 0,
   positionQty |-> 0, positionStop |-> 0, positionLimit |-> 0, stopLoss |-> 0, takeProfit |-> 0,
   orderId |-> FALSE, refId |-> FALSE, positionId |-> FALSE]

Settings == [style : Styles, averages : Averages, streams : Streams]

Orders == [status : {"none", "sent", "working", "done"}, exec : Nat, revoked : BOOLEAN]

(* asked is the quantity closePosition() asked to close.                   *)
Positions == [status : {"none", "open", "closed"}, quantity : Nat, sold : Nat, asked : Nat,
              stop : Int, limit : Int]

Quantities == Nat \cup {Undefined}

Signals ==
  [kind : {"order", "position"},
   event : {"OPENED", "UPDATED", "DELETED", "REJECTED", "CANCELED", "AMENDED"},
   cum : Quantities, filled : Quantities, quantity : Quantities,
   avgPrice : Int, execPrice : Int, stop : Int, limit : Int]

OrderNews(event) ==
  [kind |-> "order", event |-> event, cum |-> Undefined, filled |-> Undefined,
   quantity |-> Undefined, avgPrice |-> Undefined, execPrice |-> Undefined,
   stop |-> Undefined, limit |-> Undefined]

-----------------------------------------------------------------------------
(* Predicates.                                                             *)

IsActive(t) == t.exitState # "FILLED" /\ t.entryState \in {"PARTIALLY_FILLED", "FILLED"}
IsOpened(t) == t.entryState = "OPENED"
IsClosed(t) == t.exitState = "FILLED"
IsCanceled(t) ==
  \/ t.entryState = "REJECTED"
  \/ t.entryState \in {"CANCELED", "DELETED"} /\ t.entryQty <= 0
CanDelete(t) == IsClosed(t) \/ IsCanceled(t)

IsTargetByRef(t, s) == t.refId \/ (s.kind = "order" /\ t.orderId)

IsTarget(t, s) == IF s.kind = "order" THEN t.orderId \/ t.refId ELSE t.positionId \/ t.refId

-----------------------------------------------------------------------------
(* orderSignal().                                                          *)

(* The order signals come before the position: they name none.             *)
OrderOpened(t) == [t EXCEPT !.orderId = TRUE, !.entryState = "OPENED"]

Forgotten(t) == [t EXCEPT !.orderId = FALSE, !.refId = FALSE]

OrderEnded(t, state) ==
  IF ~t.orderId THEN t
  ELSE [Forgotten(t) EXCEPT !.entryState = IF t.positionId THEN @ ELSE state]

OrderSignal(t, s) ==
  CASE s.event = "OPENED"   -> OrderOpened(t)
    [] s.event = "DELETED"  -> OrderEnded(t, "DELETED")
    [] s.event = "CANCELED" -> OrderEnded(t, "CANCELED")
    [] OTHER -> t

-----------------------------------------------------------------------------
(* positionSignal().                                                       *)

Told(level, old) == IF level # Undefined THEN level ELSE old

(* The levels the broker reports replace those of the position.            *)
WithLevels(t, s) ==
  [t EXCEPT !.positionStop = Told(s.stop, @), !.positionLimit = Told(s.limit, @)]

OpenedQty(s) ==
  IF s.cum # Undefined THEN s.cum ELSE IF s.filled # Undefined THEN s.filled ELSE 0

IncreasedTwice(t, qty) ==
  LET filled == t.entryQty + qty
      u      == [t EXCEPT !.entryQty = filled]
  IN  IF filled >= t.orderQuantity
      THEN [Forgotten(u) EXCEPT !.entryState = "FILLED"]
      ELSE [u EXCEPT !.entryState = "PARTIALLY_FILLED"]

(* A full entry can no longer be canceled: its identifiers are forgotten.  *)
Increased(t, qty) ==
  LET filled == t.entryQty + (qty - t.positionQty)
      u      == [t EXCEPT !.entryQty = filled]
  IN  IF filled >= t.orderQuantity
      THEN [Forgotten(u) EXCEPT !.entryState = "FILLED"]
      ELSE [u EXCEPT !.entryState = "PARTIALLY_FILLED"]

OpenedPrice(t, s) ==
  IF s.avgPrice # Undefined THEN s.avgPrice
  ELSE IF s.execPrice # Undefined THEN s.execPrice ELSE t.entryPrice

PositionOpened(t, s) ==
  LET qty == OpenedQty(s)
      u   == WithLevels([t EXCEPT !.positionId = TRUE, !.entryState = "OPENED"], s)
  IN  IF qty > 0
      THEN [Increased(u, qty) EXCEPT !.positionQty = qty, !.entryPrice = OpenedPrice(t, s)]
      ELSE u

UpdatedQtyAlone(t, s) ==
  IF s.cum # Undefined THEN s.cum
  ELSE IF s.filled # Undefined THEN s.filled
  ELSE IF s.quantity # Undefined THEN s.quantity ELSE t.positionQty

UpdatedQty(t, s) ==
  IF s.cum # Undefined THEN s.cum
  ELSE IF s.filled # Undefined THEN s.filled + t.positionQty
  ELSE IF s.quantity # Undefined THEN s.quantity ELSE t.positionQty

(* The mean is divided by the product of the quantities, as in the code;   *)
(* a first quantity of zero would divide by zero: then the old price.      *)
MeanPrice(t, s, qty) ==
  LET inc == qty - t.positionQty
  IN  IF s.avgPrice # Undefined THEN s.avgPrice
      ELSE IF s.execPrice = Undefined \/ t.entryQty * inc <= 0 THEN t.entryPrice
      ELSE IF t.entryPrice > 0
      THEN (t.entryPrice * t.entryQty + s.execPrice * inc) \div (t.entryQty * inc)
      ELSE s.execPrice

Decreased(t, qty) ==
  LET filled == t.exitQty + (t.positionQty - qty)
  IN  [t EXCEPT !.exitQty = filled,
                !.exitState = IF filled >= t.entryQty THEN "FILLED" ELSE "PARTIALLY_FILLED"]

PositionUpdated(t, s) ==
  LET qty == UpdatedQty(t, s)
      u   == WithLevels(t, s)
      v   == IF qty < t.positionQty THEN Decreased(u, qty)
             ELSE IF qty > t.positionQty
             THEN [Increased(u, qty) EXCEPT !.entryPrice = MeanPrice(t, s, qty)] ELSE u
  IN  [v EXCEPT !.positionQty = qty]

PositionDeletedKept(t) ==
  [Forgotten(t) EXCEPT !.positionId = FALSE, !.exitState = "FILLED",
                       !.exitQty = IF t.exitQty < t.entryQty THEN t.entryQty ELSE t.exitQty]

PositionDeleted(t) ==
  [Forgotten(t) EXCEPT !.positionId = FALSE, !.exitState = "FILLED", !.positionQty = 0,
                       !.exitQty = IF t.exitQty < t.entryQty THEN t.entryQty ELSE t.exitQty]

PositionSignal(t, s) ==
  CASE s.event = "OPENED"  -> PositionOpened(t, s)
    [] s.event = "UPDATED" -> PositionUpdated(t, s)
    [] s.event = "DELETED" -> PositionDeleted(t)
    [] s.event = "AMENDED" -> WithLevels(t, s)
    [] OTHER -> t

-----------------------------------------------------------------------------
(* Operations of the trade on the world of the broker.                     *)

World == [trade |-> trade, order |-> order, position |-> position, signals |-> signals]
Become(w) ==
  trade' = w.trade /\ order' = w.order /\ position' = w.position /\ signals' = w.signals

(* cancelOrder(m_entryOrderId).                                            *)
Cancels(w) == w.trade.orderId /\ w.order.status = "working"

Canceled(w, state) ==
  [w EXCEPT !.order = [w.order EXCEPT !.status = "done", !.revoked = TRUE],
            !.signals = Append(@, OrderNews("CANCELED")),
            !.trade = [Forgotten(w.trade) EXCEPT !.entryState = state]]

CancelEntry(w) == IF Cancels(w) THEN Canceled(w, "CANCELED") ELSE w

CancelOpen(w) == IF IsOpened(w.trade) THEN CancelEntry(w) ELSE w

RemoveEntry(w) ==
  IF ~w.trade.closing /\ Cancels(w)
  THEN Canceled(w, IF w.trade.entryQty <= 0 THEN "CANCELED" ELSE "FILLED") ELSE w

(* closePosition(): only an open position, and only what the trade knows.  *)
CloseAccepted(w, accepted) == accepted /\ w.position.status = "open" /\ w.position.asked = 0

Close(w, accepted) ==
  LET u == CancelEntry(w)
  IN  IF w.trade.closing THEN w
      ELSE IF u.trade.positionId /\ CloseAccepted(u, accepted)
      THEN [u EXCEPT !.trade = [u.trade EXCEPT !.closing = TRUE],
                      !.position = [u.position EXCEPT !.asked = u.trade.positionQty]]
      ELSE u

(* modifyPosition(): the broker confirms the levels it accepts.            *)
Amended(stop, limit) ==
  [OrderNews("AMENDED") EXCEPT !.kind = "position", !.stop = stop, !.limit = limit]

Modified(w, stop, limit) ==
  [w EXCEPT !.position = [w.position EXCEPT !.stop = stop, !.limit = limit],
            !.signals = Append(@, Amended(stop, limit))]

Distant(level, mod) == mod = "DISTANT" \/ (mod = "PREVIOUS" /\ level > 0)

ModifyStopLoss(w, price, mod, accepted) ==
  LET t == w.trade
      u == IF /\ t.positionId /\ Distant(t.positionStop, mod)
              /\ accepted /\ w.position.status = "open" /\ Len(w.signals) < MaxSignals
           THEN [Modified(w, price, t.positionLimit) EXCEPT !.trade.positionStop = price] ELSE w
  IN  IF t.closing \/ price < 0 THEN w ELSE [u EXCEPT !.trade.stopLoss = price]

ModifyTakeProfit(w, price, mod, accepted) ==
  LET t == w.trade
      u == IF /\ t.positionId /\ Distant(t.positionLimit, mod)
              /\ accepted /\ w.position.status = "open" /\ Len(w.signals) < MaxSignals
           THEN [Modified(w, t.positionStop, price) EXCEPT !.trade.positionLimit = price] ELSE w
  IN  IF t.closing \/ price < 0 THEN w ELSE [u EXCEPT !.trade.takeProfit = price]

(* updateTrade(): a policy acts or not, by its timeframe.                  *)
Policies == {"breakeven", "trail"}

Moved(w, stops, accepted) ==
  IF stops = {} THEN w
  ELSE ModifyStopLoss(w, CHOOSE stop \in stops : TRUE, "PREVIOUS", accepted)

UpdateTrade(w, close, acts, accepts) ==
  LET u == Moved(w, IF "breakeven" \in acts THEN BreakevenStops(w.trade, close) ELSE {},
                 "breakeven" \in accepts)
  IN  Moved(u, IF "trail" \in acts THEN DynamicStops(u.trade, close) ELSE {}, "trail" \in accepts)

StopLossHit(t, close) ==
  t.stopLoss > 0 /\ t.positionStop = 0 /\ t.direction * (close - t.stopLoss) <= 0

TakeProfitHit(t, close) ==
  t.takeProfit > 0 /\ t.positionLimit = 0 /\ t.direction * (close - t.takeProfit) >= 0

-----------------------------------------------------------------------------
(* What the strategy does.                                                 *)

Init ==
  /\ setting \in Settings
  /\ trade = ResetTrade /\ listed = FALSE
  /\ order = [status |-> "none", exec |-> 0, revoked |-> FALSE]
  /\ position = [status |-> "none", quantity |-> 0, sold |-> 0, asked |-> 0,
                 stop |-> 0, limit |-> 0]
  /\ signals = <<>> /\ faults = {}

(* addTrade() and open().                                                  *)
Open ==
  /\ trade = ResetTrade
  /\ listed' = TRUE
  /\ \E direction \in Directions, accepted \in BOOLEAN, stop \in StopLevels, limit \in LimitLevels :
       /\ trade' = [trade EXCEPT !.direction = direction, !.orderQuantity = EntrySize,
                      !.stopLoss = stop, !.takeProfit = limit, !.refId = TRUE,
                      !.entryState = IF accepted THEN "UNDEFINED" ELSE "REJECTED"]
       /\ order' = [order EXCEPT !.status = IF accepted THEN "sent" ELSE "none"]
  /\ UNCHANGED <<setting, position, signals, faults>>

(* process(): the policies, then the local levels.                         *)
Process ==
  /\ listed /\ IsActive(trade)
  /\ \E close \in Prices, acts \in SUBSET Policies, accepted \in BOOLEAN :
     \E accepts \in SUBSET acts :
       LET w == UpdateTrade(World, close, acts, accepts)
       IN  Become(IF StopLossHit(w.trade, close) \/ TakeProfitHit(w.trade, close)
                  THEN Close(w, accepted) ELSE w)
  /\ UNCHANGED <<setting, listed, faults>>

(* closeAllByDirection().                                                  *)
CloseAll ==
  /\ listed
  /\ \E accepted \in BOOLEAN :
       Become(IF IsActive(trade) THEN Close(World, accepted) ELSE CancelOpen(World))
  /\ UNCHANGED <<setting, listed, faults>>

(* isEntryTimeout() in StdTradeManager::process().                         *)
EntryTimeout ==
  /\ listed
  /\ Become(CancelOpen(World))
  /\ UNCHANGED <<setting, listed, faults>>

(* The operations a strategy calls of its own.                             *)
RemoveTrade ==
  /\ listed
  /\ Become(RemoveEntry(World))
  /\ UNCHANGED <<setting, listed, faults>>

Modify ==
  /\ listed
  /\ \E mod \in Mods, accepted \in BOOLEAN :
       \/ \E price \in StopLevels : Become(ModifyStopLoss(World, price, mod, accepted))
       \/ \E price \in LimitLevels : Become(ModifyTakeProfit(World, price, mod, accepted))
  /\ UNCHANGED <<setting, listed, faults>>

(* process() of the manager drops a trade that can be deleted.             *)
Purge ==
  /\ listed /\ CanDelete(trade)
  /\ listed' = FALSE
  /\ UNCHANGED <<setting, trade, order, position, signals, faults>>

-----------------------------------------------------------------------------
(* What the broker does.                                                   *)

Accept ==
  /\ order.status = "sent"
  /\ order' = [order EXCEPT !.status = "working"]
  /\ signals' = Append(signals, OrderNews("OPENED"))
  /\ UNCHANGED <<setting, trade, listed, position, faults>>

(* An order can also end without the strategy asking for it.               *)
EndOrder ==
  /\ order.status \in {"sent", "working"}
  /\ order' = [order EXCEPT !.status = "done"]
  /\ \E event \in IF order.status = "sent" THEN {"REJECTED"} ELSE {"CANCELED", "DELETED"} :
       signals' = Append(signals, OrderNews(event))
  /\ UNCHANGED <<setting, trade, listed, position, faults>>

(* The quantities and the price a position signal carries.                 *)
PositionNews(event, total, traded) ==
  [OrderNews(event) EXCEPT
     !.kind = "position",
     !.cum = IF setting.style = "cumulative" THEN total ELSE Undefined,
     !.filled = IF setting.style = "filled" /\ total > position.quantity THEN traded ELSE Undefined,
     !.quantity = total,
     !.avgPrice = IF setting.averages THEN FillPrice ELSE Undefined,
     !.execPrice = FillPrice]

(* The entry fills the position, until that is closed.                     *)
Fill ==
  /\ order.status = "working" /\ position.status # "closed"
  /\ \E q \in 1..(EntrySize - order.exec) :
       LET full  == order.exec + q = EntrySize
           total == position.quantity + q
           news  == PositionNews(IF position.status = "none" THEN "OPENED" ELSE "UPDATED", total, q)
       IN  /\ order' = [order EXCEPT !.exec = order.exec + q,
                                     !.status = IF full THEN "done" ELSE "working"]
           /\ position' = [position EXCEPT !.status = "open", !.quantity = total]
           /\ signals' = signals \o (IF full THEN <<news, OrderNews("DELETED")>> ELSE <<news>>)
  /\ UNCHANGED <<setting, trade, listed, faults>>

Reduced(q) ==
  LET rest == position.quantity - q
  IN  /\ position' = [position EXCEPT
                         !.status = IF rest = 0 THEN "closed" ELSE "open", !.quantity = rest,
                         !.sold = position.sold + q,
                         !.asked = IF position.asked > q THEN position.asked - q ELSE 0]
      /\ signals' = Append(signals,
           PositionNews(IF rest = 0 THEN "DELETED" ELSE "UPDATED", rest, q))
      /\ UNCHANGED <<setting, trade, listed, order, faults>>

(* closePosition() executes, all of it or a part.                          *)
CloseAsked ==
  /\ position.status = "open"
  /\ \E q \in 1..position.quantity : q <= position.asked /\ Reduced(q)

(* A stop or a limit of the position closes it.                            *)
LevelHit ==
  /\ position.status = "open" /\ (position.stop > 0 \/ position.limit > 0)
  /\ Reduced(position.quantity)

-----------------------------------------------------------------------------
(* The way of the signals.                                                 *)

(* StdTradeManager::onOrderSignal() and onPositionSignal().                *)
Handled(t, s) ==
  IF ~listed \/ ~IsTarget(t, s) THEN t
  ELSE IF s.kind = "order" THEN OrderSignal(t, s) ELSE PositionSignal(t, s)

(* The first signal, of one kind when the kinds travel apart.              *)
Deliverable ==
  {i \in DOMAIN signals :
     \/ i = 1
     \/ setting.streams = "two" /\ \A j \in 1..(i - 1) : signals[j].kind # signals[i].kind}

Deliver ==
  /\ \E i \in Deliverable :
       trade' = Handled(trade, signals[i]) /\ signals' = RemoveAt(signals, i)
  /\ UNCHANGED <<setting, listed, order, position, faults>>

(* One fault at most, to bound the states.                                 *)
Fault(f) ==
  /\ f \in Faults /\ faults = {}
  /\ faults' = {f}
  /\ UNCHANGED <<setting, listed, order, position>>

DeliverAgain ==
  /\ Fault("repeated")
  /\ \E i \in Deliverable : trade' = Handled(trade, signals[i])
  /\ UNCHANGED signals

Lose ==
  /\ Fault("lost")
  /\ \E i \in Deliverable : signals' = RemoveAt(signals, i)
  /\ UNCHANGED trade

Next ==
  \/ Open \/ Process \/ CloseAll \/ EntryTimeout \/ RemoveTrade \/ Modify \/ Purge
  \/ Accept \/ EndOrder \/ Fill \/ CloseAsked \/ LevelHit
  \/ Deliver \/ DeliverAgain \/ Lose

Spec == Init /\ [][Next]_vars

(* The manager purges and is called with what arrives at every turn; a     *)
(* broker executes at the market what it accepted to close.                *)
FairSpec == Spec /\ WF_vars(Deliver) /\ WF_vars(Purge) /\ WF_vars(CloseAsked)

-----------------------------------------------------------------------------
(* Properties.                                                             *)

\* The type invariant of the trade, the broker and the signals between them.
TypeOK ==
  /\ setting \in Settings
  /\ trade \in TradeRecords /\ listed \in BOOLEAN
  /\ order \in Orders /\ position \in Positions
  /\ signals \in Seq(Signals) /\ faults \subseteq Faults

\* The books of the trade balance whatever was lost, repeated or overtaken:
\* the position it would close is what it believes entered minus exited.
BooksBalance == trade.entryQty - trade.exitQty = trade.positionQty

\* A lost or a late signal never makes the trade book more than the broker
\* did, on either side; a repeated one neither, when it carries totals.
NotOverbooked ==
  setting.style = "cumulative" \/ "repeated" \notin faults =>
    trade.entryQty <= order.exec /\ trade.exitQty <= position.sold

\* With the signals in order and all delivered, a trade that did not give up
\* its entry order knows the position of the broker.
PositionInStep ==
  /\ listed /\ setting.streams = "one" /\ faults = {} /\ signals = <<>> /\ ~order.revoked
  => /\ trade.positionQty = position.quantity
     /\ trade.positionId <=> position.status = "open"

\* process() never moves the stop-loss away from the market, whichever of the
\* policies act and whatever the broker answers.
StopTightens ==
  [][trade.direction * (trade'.stopLoss - trade.stopLoss) < 0 => ~Process]_vars

\* A closed position ends its trade: with the signals in order, the manager
\* purges the trade, also when the entry was revoked while it filled.
ClosedIsPurged ==
  position.status = "closed" /\ setting.streams = "one" ~> ~listed \/ faults # {}
=============================================================================
