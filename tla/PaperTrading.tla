----------------------------- MODULE PaperTrading -----------------------------
(***************************************************************************)
(* One strategy on one indivisible-margin market, backtested against the   *)
(* paper connector: the single-strategy loop of Backtest::run, the compute *)
(* step the strategies share, StdTradeManager, the IndMarginTrade          *)
(* handlers, and LocalConnector with its virtual orders and the single     *)
(* virtual position of the market.                                         *)
(*                                                                         *)
(* Everything runs on the backtest thread, so each call of a handler is    *)
(* one step, with all the signals it causes: the connector calls           *)
(* onOrderSignal before createOrder, cancelOrder or update returns.        *)
(***************************************************************************)
EXTENDS IndMarginTrade, FiniteSets, FiniteSetsExt

CONSTANTS
  TradeIds,    \* slots of the pool of free trades (bounds the live trades)
  Directions,  \* directions the strategy signals, 1 long and -1 short
  EntryTypes,  \* order types Entry::updateSignal selects
  Quantities,  \* quantities of an entry (baseQuantity)
  MaxPrice,    \* bids are in 1..MaxPrice
  Spread,      \* ask minus bid
  Levels,      \* take-profit and stop-loss levels a signal or update selects
  MaxTrades,   \* max-trades of the strategy parameters
  Reversal,    \* reversal of the strategy parameters
  StopMods,    \* ModifierType given to modifyStopLoss by updateTrade
  ProfitMods   \* ModifierType given to modifyTakeProfit by updateTrade

ASSUME PaperAssumption ==
  /\ Directions \subseteq {-1, 1}
  /\ EntryTypes \subseteq {"MARKET", "LIMIT"}
  /\ Quantities \subseteq Nat \ {0}
  /\ MaxPrice \in Nat /\ Spread \in Nat
  /\ Levels \subseteq Nat
  /\ MaxTrades \in Nat
  /\ Reversal \in BOOLEAN
  /\ StopMods \subseteq {"LOCAL", "DISTANT", "PREVIOUS"}
  /\ ProfitMods \subseteq {"LOCAL", "DISTANT", "PREVIOUS"}

VARIABLES
  trades,     \* the trade in each slot of the pool
  listed,     \* StdTradeManager::m_trades (its order is abstracted)
  book,       \* LocalConnector::m_virtualOrders, NoOrder where absent
  position,   \* LocalConnector::m_virtualPositions[marketId]
  bid,        \* best bid of the market
  phase,      \* where the backtest loop is
  todo,       \* what the current loop still has to visit
  signal,     \* the trade signal of this iteration
  numClosed,  \* numClosed of compute()
  removed     \* removedTrades of StdTradeManager::process

vars == <<trades, listed, book, position, bid, phase, todo, signal, numClosed, removed>>

-----------------------------------------------------------------------------
(* Orders, positions, signals.                                             *)

Orders == [direction : {-1, 0, 1}, quantity : Int, price : Nat, reduceOnly : BOOLEAN]
NoOrder == [direction |-> 0, quantity |-> 0, price |-> 0, reduceOnly |-> FALSE]

Positions == [direction : {-1, 0, 1}, quantity : Int]
NoPosition == [direction |-> 0, quantity |-> 0]

NoSignal == [direction |-> 0, orderType |-> "MARKET", price |-> 0,
             takeProfit |-> 0, stopLoss |-> 0]

(* Entry signals: levels on the right side of each other, 0 when unset.    *)
EntrySignals ==
  {s \in [direction : Directions, orderType : EntryTypes, price : 1..MaxPrice,
          takeProfit : Levels \cup {0}, stopLoss : Levels \cup {0}] :
     /\ s.takeProfit > 0 /\ s.stopLoss > 0 => s.direction * (s.takeProfit - s.stopLoss) > 0
     /\ s.orderType = "MARKET" => s.price = 1}

ask == bid + Spread
OpenExecPrice(direction) == IF direction > 0 THEN ask ELSE bid
CloseExecPrice(direction) == IF direction > 0 THEN bid ELSE ask

(* The state a handler transforms, as one value.                           *)
World == [trades |-> trades, book |-> book, position |-> position]

Resting(w, id) == id \in OrderIds /\ w.book[id] # NoOrder

(* newOrder() names an order with an identifier nothing else refers to.    *)
Refers(t, id) == \E slot \in {t.entry, t.limit, t.stop} : id \in {slot.orderId, slot.refId}

FreshIds(w) ==
  {id \in OrderIds : ~Resting(w, id) /\ \A t \in TradeIds : ~Refers(w.trades[t], id)}

(* Which one does not matter: at most one is offered, to bound the states. *)
NewIds(w) ==
  IF FreshIds(w) = {} THEN {} ELSE {CHOOSE id \in FreshIds(w) : TRUE}

-----------------------------------------------------------------------------
(* LocalConnector.                                                         *)

(* StdTradeManager::onOrderSignal: the first listed trade it targets.      *)
Deliver(w, list, s) ==
  IF \E t \in list : IsTargetOrder(w.trades[t], s)
  THEN LET t == CHOOSE u \in list : IsTargetOrder(w.trades[u], s)
       IN  [w EXCEPT !.trades[t] = OrderSignal(@, s)]
  ELSE w

Announce(id, event) ==
  [event |-> event, orderId |-> id, refId |-> id, cum |-> 0, filled |-> 0,
   price |-> 0, completed |-> FALSE]

ExecutionIncomplete(id, order, price) ==
  [event |-> "TRADED", orderId |-> id, refId |-> id, cum |-> order.quantity,
   filled |-> order.quantity, price |-> price, completed |-> FALSE]

(* Every execution of the paper connector is full and completed.           *)
Execution(id, order, price) ==
  [event |-> "TRADED", orderId |-> id, refId |-> id, cum |-> order.quantity,
   filled |-> order.quantity, price |-> price, completed |-> TRUE]

(* A reduce-only order is refused only when the market has no position.    *)
Accepted(p, order) == p # NoPosition \/ ~order.reduceOnly

Increases(p, order) == p = NoPosition \/ p.direction = order.direction

NextPositionClosesAll(p, order) ==
  IF Increases(p, order)
  THEN [direction |-> order.direction, quantity |-> p.quantity + order.quantity]
  ELSE NoPosition

(* _indMarginOpenPosition, Increase, Close and ReversePosition, and the    *)
(* removal of a position left without quantity.  A reversal keeps the      *)
(* direction of the position it reverses.                                  *)
NextPosition(p, order) ==
  IF p = NoPosition
  THEN [direction |-> order.direction, quantity |-> order.quantity]
  ELSE IF p.direction = order.direction
  THEN [p EXCEPT !.quantity = @ + order.quantity]
  ELSE IF order.quantity < p.quantity
  THEN [p EXCEPT !.quantity = @ - order.quantity]
  ELSE IF order.quantity = p.quantity \/ order.reduceOnly
  THEN NoPosition
  ELSE [p EXCEPT !.quantity = order.quantity - @]

(* Opening and increasing take the opening price of the order's direction; *)
(* closing and reversing take the closing price of that same direction.    *)
ExecPrice(p, order) ==
  IF Increases(p, order) THEN OpenExecPrice(order.direction)
                         ELSE CloseExecPrice(order.direction)

(* _execIndMarginOrder: accepted, traded and deleted signals, in order.    *)
ExecIndMarginOrder(w, list, id, order) ==
  LET traded == Execution(id, order, ExecPrice(w.position, order))
      w1     == Deliver(w, list, Announce(id, "OPENED"))
      w2     == Deliver(w1, list, traded)
      w3     == Deliver(w2, list, Announce(id, "DELETED"))
  IN  IF Accepted(w.position, order)
      THEN [w3 EXCEPT !.position = NextPosition(w.position, order)]
      ELSE w

(* createOrder for an order kept in m_virtualOrders.                       *)
RestOrder(w, list, id, order) ==
  Deliver([w EXCEPT !.book[id] = order], list, Announce(id, "OPENED"))

(* _handleLimitOrder.                                                      *)
LimitReached(order) ==
  IF order.direction > 0 THEN ask <= order.price ELSE bid >= order.price

(* cancelOrder, the CANCELED signal it sends to the trade of the order, and *)
(* the caller's reaction to RET_OK, which clears the slot once more.  The  *)
(* caller keeps the slot when the connector does not know the order.       *)
CanCancel(w, slot) == HasOrder(slot) /\ Resting(w, slot.orderId)
CanceledKept(w, slot) == slot
Canceled(w, slot) == IF CanCancel(w, slot) THEN Clear(slot, "CANCELED") ELSE slot
Forget(w, slot) ==
  IF CanCancel(w, slot) THEN [w.book EXCEPT ![slot.orderId] = NoOrder] ELSE w.book

-----------------------------------------------------------------------------
(* Operations of a trade.                                                  *)

(* A reduce-only market order of the stop slot: close(), or a distant      *)
(* modifyStopLoss().  createOrder() executes it before it returns.         *)
SendStopOrder(w, list, t, id, closing) ==
  LET trade == w.trades[t]
      qty   == RemainingQty(trade)
      order == [direction |-> -trade.direction, quantity |-> qty, price |-> 0,
                reduceOnly |-> TRUE]
      slot  == [trade.stop EXCEPT !.refId = id, !.orderedQty = qty, !.closing = closing]
      sent  == [w EXCEPT !.trades[t].stop = slot]
  IN  IF Accepted(w.position, order)
      THEN ExecIndMarginOrder(sent, list, id, order)
      ELSE [sent EXCEPT !.trades[t].stop = Clear(slot, slot.state)]

CancelStop(w, t) ==
  [w EXCEPT !.book = Forget(w, w.trades[t].stop), !.trades[t].stop = Canceled(w, @)]

CancelLimitDropped(w, t) == w
CancelLimit(w, t) ==
  [w EXCEPT !.book = Forget(w, w.trades[t].limit), !.trades[t].limit = Canceled(w, @)]

Close(w, list, t, id) ==
  IF w.trades[t].stop.closing \/ RemainingQty(w.trades[t]) <= 0
  THEN w
  ELSE SendStopOrder(CancelLimit(CancelStop(w, t), t), list, t, id, TRUE)

(* The modifier once a previous order of the slot is known.                *)
Effective(slot, mod) == IF HasOrder(slot) /\ mod = "PREVIOUS" THEN "DISTANT" ELSE mod

ModifyStopLoss(w, list, t, id, price, mod) ==
  LET slot == w.trades[t].stop
      w1   == CancelStop(w, t)
      w2   == IF Effective(slot, mod) = "DISTANT" /\ price > 0
              THEN SendStopOrder(w1, list, t, id, FALSE) ELSE w1
  IN  IF slot.closing THEN w ELSE [w2 EXCEPT !.trades[t].stopLoss = price]

ModifyTakeProfit(w, list, t, id, price, mod) ==
  LET trade == w.trades[t]
      qty   == RemainingQty(trade)
      order == [direction |-> -trade.direction, quantity |-> qty, price |-> price,
                reduceOnly |-> TRUE]
      w1    == CancelLimit(w, t)
      w2    == [w1 EXCEPT !.trades[t].limit = [@ EXCEPT !.refId = id, !.orderedQty = qty]]
      w3    == IF Effective(trade.limit, mod) = "DISTANT" /\ price > 0
               THEN RestOrder(w2, list, id, order) ELSE w1
  IN  IF trade.stop.closing THEN w ELSE [w3 EXCEPT !.trades[t].takeProfit = price]

(* cancelOpen() reaches the exchange only when the entry isOpened().       *)
CancelOpen(w, t) ==
  IF IsOpened(w.trades[t])
  THEN [w EXCEPT !.book = Forget(w, w.trades[t].entry), !.trades[t].entry = Canceled(w, @)]
  ELSE w

(* open(), once createTrade() has initialised the slot and addTrade() has  *)
(* listed it.                                                              *)
NewTrade(id, s, qty) ==
  [direction |-> s.direction, orderQuantity |-> qty,
   takeProfit |-> s.takeProfit, stopLoss |-> s.stopLoss,
   entryQty |-> 0, exitQty |-> 0, exitPrice |-> 0,
   entry |-> [ResetSlot EXCEPT !.refId = id], limit |-> ResetSlot, stop |-> ResetSlot]

EntryOrder(s, qty) ==
  [direction |-> s.direction, quantity |-> qty,
   price |-> IF s.orderType = "LIMIT" THEN s.price ELSE 0, reduceOnly |-> FALSE]

Open(w, list, t, id, s, qty) ==
  LET w1 == [w EXCEPT !.trades[t] = NewTrade(id, s, qty)]
  IN  IF s.orderType = "MARKET" THEN ExecIndMarginOrder(w1, list, id, EntryOrder(s, qty))
                                ELSE RestOrder(w1, list, id, EntryOrder(s, qty))

-----------------------------------------------------------------------------
(* The backtest loop.                                                      *)

Become(w) == trades' = w.trades /\ book' = w.book /\ position' = w.position

Init ==
  /\ trades = [t \in TradeIds |-> ResetTrade]
  /\ listed = {} /\ removed = {} /\ todo = {}
  /\ book = [id \in OrderIds |-> NoOrder]
  /\ position = NoPosition
  /\ bid \in 1..MaxPrice
  /\ phase = "tick" /\ signal = NoSignal /\ numClosed = 0

(* Ticks are consumed: the market has a new price.                         *)
OnTick ==
  /\ phase = "tick"
  /\ bid' \in 1..MaxPrice
  /\ phase' = "signal"
  /\ UNCHANGED <<trades, listed, book, position, todo, signal, numClosed, removed>>

(* hasTradesByDirection(), and the trades closeAllByDirection() visits.    *)
TradesBySameSide(direction) == {t \in listed : trades[t].direction = -direction}
TradesByDirection(direction) == {t \in listed : trades[t].direction = direction}

(* compute(): the signal, and whether the opposite side is closed first.   *)
ComputeSignal ==
  /\ phase = "signal"
  /\ numClosed' = 0
  /\ \E s \in EntrySignals \cup {NoSignal} :
       LET reverse == s # NoSignal /\ Reversal /\ TradesByDirection(-s.direction) # {}
       IN  /\ signal' = s
           /\ phase' = IF reverse THEN "reverse" ELSE "process"
           /\ todo' = IF reverse THEN TradesByDirection(-s.direction) ELSE listed
  /\ UNCHANGED <<trades, listed, book, position, bid, removed>>

CloseOppositeCancels(t) ==
  /\ phase = "reverse" /\ t \in todo
  /\ Become(CancelOpen(World, t))
  /\ todo' = todo \ {t}
  /\ numClosed' = numClosed + 1
  /\ UNCHANGED <<listed, bid, phase, signal, removed>>

(* One iteration of closeAllByDirection().                                 *)
CloseOpposite(t) ==
  /\ phase = "reverse" /\ t \in todo
  /\ \E id \in NewIds(World) :
       Become(IF IsActive(trades[t]) THEN Close(World, listed, t, id)
                                     ELSE CancelOpen(World, t))
  /\ todo' = todo \ {t}
  /\ numClosed' = numClosed + 1
  /\ UNCHANGED <<listed, bid, phase, signal, removed>>

Reversed ==
  /\ phase = "reverse" /\ todo = {}
  /\ phase' = "process" /\ todo' = listed
  /\ UNCHANGED <<trades, listed, book, position, bid, signal, numClosed, removed>>

(* What one of the policies of updateTrade() may do to an active trade.    *)
OneUpdate(w, t) ==
  {w}
  \cup {ModifyStopLoss(w, listed, t, a[1], a[2], a[3]) :
          a \in NewIds(w) \X Levels \X StopMods}
  \cup {ModifyTakeProfit(w, listed, t, a[1], a[2], a[3]) :
          a \in NewIds(w) \X Levels \X ProfitMods}

(* strategy->updateTrade(): the break-even, then the dynamic stop-loss.    *)
Updates(w, t) == UNION {OneUpdate(v, t) : v \in OneUpdate(w, t)}

(* The local exit conditions of IndMarginTrade::process().                 *)
Triggered(trade) ==
  LET price == CloseExecPrice(trade.direction)
  IN  StopLossHit(trade, price) \/ TakeProfitHit(trade, price)

(* One iteration of StdTradeManager::process(): process(), the entry       *)
(* timeout and the purge test.                                             *)
ProcessTrade(t) ==
  /\ phase = "process" /\ t \in todo
  /\ \E updated \in IF IsActive(trades[t]) THEN Updates(World, t) ELSE {World} :
     \E id \in NewIds(updated), late \in BOOLEAN :
       LET processed == IF IsActive(trades[t]) /\ Triggered(updated.trades[t])
                        THEN Close(updated, listed, t, id) ELSE updated
           expired   == IF late THEN CancelOpen(processed, t) ELSE processed
       IN  /\ Become(expired)
           /\ removed' = IF CanDelete(expired.trades[t]) THEN removed \cup {t} ELSE removed
  /\ todo' = todo \ {t}
  /\ UNCHANGED <<listed, bid, phase, signal, numClosed>>

PurgeTradesNoReset ==
  /\ phase = "process" /\ todo = {}
  /\ listed' = listed \ removed
  /\ trades' = [t \in TradeIds |-> IF t \in removed THEN ResetTrade ELSE trades[t]]
  /\ phase' = "entry"
  /\ UNCHANGED <<book, position, bid, todo, signal, numClosed, removed>>

(* The end of StdTradeManager::process(): the trades to delete leave the   *)
(* list and go back to the pool.                                           *)
PurgeTrades ==
  /\ phase = "process" /\ todo = {}
  /\ listed' = listed \ removed
  /\ trades' = [t \in TradeIds |-> IF t \in removed THEN ResetTrade ELSE trades[t]]
  /\ removed' = {}
  /\ phase' = "entry"
  /\ UNCHANGED <<book, position, bid, todo, signal, numClosed>>

(* The rest of compute(): open a trade unless there are too many.          *)
DoOrder ==
  signal # NoSignal /\ ~(Cardinality(listed) >= MaxTrades /\ numClosed < 1)

RestingIds(w) == {id \in OrderIds : Resting(w, id)}

OrderEntry ==
  /\ phase = "entry" /\ DoOrder
  /\ \E t \in TradeIds \ listed, id \in NewIds(World), qty \in Quantities :
       LET w == Open(World, listed \cup {t}, t, id, signal, qty)
       IN  /\ Become(w)
           /\ listed' = listed \cup {t}
           /\ todo' = RestingIds(w)
  /\ phase' = "update"
  /\ signal' = NoSignal
  /\ UNCHANGED <<bid, numClosed, removed>>

(* allow-short and the trading sessions may withhold any entry, that of a  *)
(* reversal which closed the other side too.                               *)
NoOrderEntry ==
  /\ phase = "entry"
  /\ todo' = RestingIds(World)
  /\ phase' = "update"
  /\ signal' = NoSignal
  /\ UNCHANGED <<trades, listed, book, position, bid, numClosed, removed>>

UpdateOrderKept(id) ==
  /\ phase = "update" /\ id \in todo
  /\ Become(IF LimitReached(book[id])
            THEN ExecIndMarginOrder(World, listed, id, book[id])
            ELSE World)
  /\ todo' = todo \ {id}
  /\ UNCHANGED <<listed, bid, phase, signal, numClosed, removed>>

(* One iteration of LocalConnector::update(): an order whose price is      *)
(* reached is executed, and leaves the book whatever the execution said.   *)
UpdateOrder(id) ==
  /\ phase = "update" /\ id \in todo
  /\ Become(IF LimitReached(book[id])
            THEN ExecIndMarginOrder([World EXCEPT !.book[id] = NoOrder], listed, id, book[id])
            ELSE World)
  /\ todo' = todo \ {id}
  /\ UNCHANGED <<listed, bid, phase, signal, numClosed, removed>>

Updated ==
  /\ phase = "update" /\ todo = {}
  /\ phase' = "tick"
  /\ UNCHANGED <<trades, listed, book, position, bid, todo, signal, numClosed, removed>>

Next ==
  \/ OnTick \/ ComputeSignal \/ Reversed \/ PurgeTrades
  \/ OrderEntry \/ NoOrderEntry \/ Updated
  \/ \E t \in TradeIds : CloseOpposite(t) \/ ProcessTrade(t)
  \/ \E id \in OrderIds : UpdateOrder(id)

Spec == Init /\ [][Next]_vars
-----------------------------------------------------------------------------
(* Properties.                                                             *)

Phases == {"tick", "signal", "reverse", "process", "entry", "update"}

\* The type invariant of the backtest loop, the strategy and the paper connector.
TypeOK ==
  /\ trades \in [TradeIds -> TradeRecords]
  /\ listed \subseteq TradeIds /\ removed \subseteq listed
  /\ book \in [OrderIds -> Orders \cup {NoOrder}]
  /\ position \in Positions
  /\ bid \in 1..MaxPrice
  /\ phase \in Phases
  /\ todo \subseteq TradeIds \cup OrderIds
  /\ signal \in EntrySignals \cup {NoSignal}
  /\ numClosed \in Nat

(* The loops over the trades only visit listed trades.                     *)
TodoListed == phase \in {"reverse", "process"} => todo \subseteq listed

\* Every order resting in the paper connector is referred to by exactly one of
\* the trades the manager lists: no trade goes back to the pool while the
\* connector can still execute an order of it (Trade::close(): "Any others
\* related orders are canceled").
OrdersOwned ==
  \A id \in OrderIds : Resting(World, id) =>
    \E t \in listed : \A u \in listed : Refers(trades[u], id) <=> u = t

\* A trade that keeps the orderId of an exchange side entry or take-profit has
\* that order in the connector: process() trusts the orderId, and never
\* triggers the take-profit locally while it is set.
OrdersRest ==
  \A t \in listed : \A slot \in {trades[t].entry, trades[t].limit} :
    slot.orderId # NoId => Resting(World, slot.orderId)

(* A trade whose exits are managed locally: only its entry order can rest. *)
Idle(slot) == slot.orderId = NoId /\ slot.refId = NoId

LocalExits(w, r) ==
  /\ Idle(r.stop) /\ Idle(r.limit) /\ r.entry.orderId = r.entry.refId
  /\ \/ Filled(r.entry) /\ Idle(r.entry)
     \/ /\ r.entry.state = "UNDEFINED" /\ ~IsClosed(r)
        /\ Resting(w, r.entry.orderId) /\ ~w.book[r.entry.orderId].reduceOnly

EntriesOwned(w, list) ==
  /\ \A t \in list : LocalExits(w, w.trades[t])
  /\ \A id \in OrderIds : Resting(w, id) => \E t \in list : w.trades[t].entry.orderId = id
  /\ \A t, u \in list :
       w.trades[t].entry.orderId = w.trades[u].entry.orderId
         => t = u \/ w.trades[t].entry.orderId = NoId

\* When no modifier is MOD_DISTANT, the orders of the connector are the entries
\* of the listed trades, one each, until they fill; and process() only collects
\* trades whose exit is filled.
EntriesRest ==
  /\ EntriesOwned(World, listed)
  /\ \A t \in removed : IsClosed(trades[t])

\* The single position of the market is the sum of what the listed trades
\* have entered and not yet exited.
NetPosition ==
  position.direction * position.quantity
    = SumFunctionOnSet([t \in TradeIds |-> trades[t].direction * RemainingQty(trades[t])],
                       listed)

\* After StdTradeManager::process(), no active trade is still beyond its
\* stop-loss or take-profit level: the local trigger did close it.
ExitHonoured ==
  phase = "entry" => \A t \in listed : IsActive(trades[t]) => ~Triggered(trades[t])

\* A trade leaves the manager only once it has exited all it had entered.
DeletedFlat ==
  [][\A t \in listed \ listed' : RemainingQty(trades[t]) = 0]_vars

\* compute(): "do not take position over the two sides, else close before".
OneSided ==
  phase \in {"tick", "signal"} =>
    \A t, u \in listed : IsActive(trades[t]) /\ IsActive(trades[u])
                           => trades[t].direction = trades[u].direction

\* When compute() goes on after closeAllByDirection(), which counts whatever it
\* visited in numClosed and so lets the entry in past max-trades, an opposite
\* trade still listed is an entry the connector may still fill, on which
\* cancelOpen() does nothing, or there is no position left to close it with.
ReversalCloses ==
  phase = "entry" /\ numClosed > 0 =>
    \A t \in listed : trades[t].direction = -signal.direction =>
      Resting(World, trades[t].entry.orderId) \/ position = NoPosition
=============================================================================
