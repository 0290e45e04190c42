---------------------------- MODULE BrokerTrade ----------------------------
(***************************************************************************)
(* A trade whose orders go to a broker: createOrder() and cancelOrder()    *)
(* return before anything is executed, and the signals of the broker come  *)
(* later, one by one, while the strategy goes on processing, modifying and *)
(* closing the trade.  The trade is an IndMarginTrade or a MarginTrade.    *)
(*                                                                         *)
(* The broker is external: it accepts or refuses orders, executes them in  *)
(* parts, cancels them, reports the executed quantity as a running total   *)
(* or as the last part, and its stream of signals may repeat or reorder    *)
(* them.  Reduce-only orders never execute more than the position.         *)
(*                                                                         *)
(* Prices are abstracted: a level is set (1) or not (0), and the price may *)
(* be beyond a level that is set whenever process() looks at it.  One side *)
(* is enough: the broker and the handlers look at no direction.            *)
(***************************************************************************)
EXTENDS MarginTrade, FiniteSets, SequencesExt

CONSTANTS
  Kinds,       \* types of trade: "IND_MARGIN" or "MARGIN"
  Styles,      \* how the broker reports executions: "cumulative" or "relative"
  Faults,      \* what may happen to signals: "repeated", "reordered", "lost"
  EntrySize,   \* quantity of the entry order
  Levels,      \* levels of the stop-loss and the take-profit
  Mods,        \* ModifierType given to modifyStopLoss and modifyTakeProfit
  MaxSignals,  \* bound on the signals on their way
  MaxFaults    \* bound on the kinds of faults of one behaviour

ASSUME BrokerAssumption ==
  /\ Kinds \subseteq {"IND_MARGIN", "MARGIN"}
  /\ Styles \subseteq {"cumulative", "relative"}
  /\ Faults \subseteq {"repeated", "reordered", "lost"}
  /\ EntrySize \in Nat \ {0}
  /\ Mods \subseteq {"LOCAL", "DISTANT", "PREVIOUS"}
  /\ Levels \subseteq {0, 1}
  /\ MaxSignals \in Nat /\ MaxFaults \in Nat

VARIABLES
  kind,      \* type() of the trade
  style,     \* how the broker reports executions
  trade,     \* the trade record
  listed,    \* whether the trade manager still lists the trade
  orders,    \* the orders as the broker knows them
  bought,    \* what the entry order executed, and
  sold,      \* what the exit orders executed: the position is the difference
  signals,   \* the signals on their way to the trade
  faults     \* what happened to the signals so far

broker == <<kind, style>>
position == <<bought, sold>>
vars == <<broker, trade, listed, orders, position, signals, faults>>

-----------------------------------------------------------------------------
(* The broker's orders.                                                    *)

Roles == {"entry", "limit", "stop", "close"}
NoOrder == [status |-> "none", role |-> "entry", quantity |-> 0, exec |-> 0, revoked |-> FALSE]

BrokerOrders == [status : {"none", "sent", "working", "done"}, role : Roles,
                 quantity : Int, exec : Nat, revoked : BOOLEAN]

Live(o) == o.status \in {"sent", "working"}
Used(role) == {id \in OrderIds : orders[id].status # "none" /\ orders[id].role = role}

(* newOrder(): an identifier nothing refers to.                            *)
NewIds ==
  LET fresh == {id \in OrderIds : orders[id].status = "none"}
  IN  IF fresh = {} THEN {} ELSE {CHOOSE id \in fresh : TRUE}

NewOrder(role, qty) ==
  [NoOrder EXCEPT !.status = "sent", !.role = role, !.quantity = qty]

(* What a handler transforms.                                              *)
World == [trade |-> trade, orders |-> orders, signals |-> signals]
Become(w) == trade' = w.trade /\ orders' = w.orders /\ signals' = w.signals

Announce(id, event) ==
  [event |-> event, orderId |-> id, refId |-> id, cum |-> 0, filled |-> 0,
   price |-> 0, completed |-> FALSE]

-----------------------------------------------------------------------------
(* Operations of the trade.                                                *)

(* clear() in IndMarginTrade, the identifiers in MarginTrade.              *)
Reset(slot, state) == IF kind = "IND_MARGIN" THEN Clear(slot, state) ELSE ForgetIds(slot, state)

(* cancelOrder(slot.orderId): the broker takes it for an order it works.   *)
Cancels(w, slot) ==
  HasOrder(slot) /\ slot.orderId # NoId /\ w.orders[slot.orderId].status = "working"

Canceled(w, slot) == IF Cancels(w, slot) THEN Reset(slot, "CANCELED") ELSE slot

Withdrawn(o) == [o EXCEPT !.status = "done", !.revoked = TRUE]

Revoke(w, slot) ==
  IF Cancels(w, slot)
  THEN [w EXCEPT !.orders = [@ EXCEPT ![slot.orderId] = Withdrawn(w.orders[slot.orderId])],
                 !.signals = @ \o <<Announce(slot.orderId, "CANCELED")>>]
  ELSE w

CancelEntry(w) == [Revoke(w, w.trade.entry) EXCEPT !.trade.entry = Canceled(w, @)]
CancelLimit(w) == [Revoke(w, w.trade.limit) EXCEPT !.trade.limit = Canceled(w, @)]
CancelStop(w) == [Revoke(w, w.trade.stop) EXCEPT !.trade.stop = Canceled(w, @)]
CancelExits(w) == CancelLimit(CancelStop(w))

CreateOrder(w, id, role, qty, accepted) ==
  IF accepted THEN [w EXCEPT !.orders[id] = NewOrder(role, qty)]
  ELSE [w EXCEPT !.orders[id] = [NewOrder(role, qty) EXCEPT !.status = "done"]]

(* close(): MarginTrade keeps nothing of the order it sends.               *)
SentClose(slot, id, qty, accepted) ==
  IF kind = "MARGIN" THEN slot
  ELSE IF accepted
  THEN [slot EXCEPT !.refId = id, !.orderedQty = qty, !.closing = TRUE]
  ELSE Clear(slot, slot.state)

CloseAgain(w, id, accepted) ==
  LET qty  == RemainingQty(w.trade)
      w1   == CreateOrder(CancelExits(w), id, "close", qty, accepted)
  IN  IF qty <= 0 THEN w
      ELSE [w1 EXCEPT !.trade.stop = SentClose(@, id, qty, accepted)]

Close(w, id, accepted) ==
  LET qty  == RemainingQty(w.trade)
      w1   == CreateOrder(CancelExits(w), id, "close", qty, accepted)
  IN  IF w.trade.stop.closing \/ qty <= 0 THEN w
      ELSE [w1 EXCEPT !.trade.stop = SentClose(@, id, qty, accepted)]

CancelOpen(w) == IF IsOpened(w.trade) THEN CancelEntry(w) ELSE w

(* An exit order of a slot, for a modifier that reaches the exchange.      *)
SentExit(slot, id, qty, accepted) ==
  IF kind = "MARGIN" THEN [slot EXCEPT !.refId = id]
  ELSE IF accepted THEN [slot EXCEPT !.refId = id, !.orderedQty = qty]
  ELSE Clear(slot, slot.state)

Effective(slot, mod) == IF HasOrder(slot) /\ mod = "PREVIOUS" THEN "DISTANT" ELSE mod

ModifyTakeProfit(w, id, accepted, price, mod) ==
  LET qty == RemainingQty(w.trade)
      w1  == CancelLimit(w)
      w2  == CreateOrder(w1, id, "limit", qty, accepted)
      w3  == IF Effective(w.trade.limit, mod) = "DISTANT" /\ price > 0
             THEN [w2 EXCEPT !.trade.limit = SentExit(@, id, qty, accepted)] ELSE w1
  IN  IF w.trade.stop.closing THEN w ELSE [w3 EXCEPT !.trade.takeProfit = price]

ModifyStopLoss(w, id, accepted, price, mod) ==
  LET qty == RemainingQty(w.trade)
      w1  == CancelStop(w)
      w2  == CreateOrder(w1, id, "stop", qty, accepted)
      w3  == IF Effective(w.trade.stop, mod) = "DISTANT" /\ price > 0
             THEN [w2 EXCEPT !.trade.stop = SentExit(@, id, qty, accepted)] ELSE w1
  IN  IF w.trade.stop.closing THEN w ELSE [w3 EXCEPT !.trade.stopLoss = price]

-----------------------------------------------------------------------------
(* What the strategy does.                                                 *)

Init ==
  /\ kind \in Kinds /\ style \in Styles
  /\ trade = ResetTrade
  /\ listed = FALSE
  /\ orders = [id \in OrderIds |-> NoOrder]
  /\ bought = 0 /\ sold = 0
  /\ signals = <<>> /\ faults = {}

(* addTrade() and open().                                                  *)
Open ==
  /\ trade = ResetTrade
  /\ listed' = TRUE
  /\ \E id \in NewIds, accepted \in BOOLEAN, tp, sl \in Levels :
       Become([CreateOrder(World, id, "entry", EntrySize, accepted) EXCEPT !.trade =
                 [trade EXCEPT !.direction = 1, !.orderQuantity = EntrySize,
                    !.takeProfit = tp, !.stopLoss = sl,
                    !.entry = [ResetSlot EXCEPT !.refId = id,
                                 !.state = IF accepted THEN "UNDEFINED" ELSE "REJECTED"]]])
  /\ UNCHANGED <<broker, position, faults>>

(* The local exit conditions of process(), for some price.                 *)
MayTrigger(t) ==
  \/ t.stopLoss > 0 /\ t.stop.orderId = NoId
  \/ t.takeProfit > 0 /\ t.limit.orderId = NoId

(* process() closes the trade.                                             *)
ProcessExit ==
  /\ listed /\ IsActive(trade) /\ MayTrigger(trade)
  /\ \E id \in NewIds, accepted \in BOOLEAN : Become(Close(World, id, accepted))
  /\ UNCHANGED <<broker, position, faults, listed>>

(* closeAllByDirection().                                                  *)
CloseAll ==
  /\ listed
  /\ \E id \in NewIds, accepted \in BOOLEAN :
       Become(IF IsActive(trade) THEN Close(World, id, accepted) ELSE CancelOpen(World))
  /\ UNCHANGED <<broker, position, faults, listed>>

(* isEntryTimeout() in StdTradeManager::process().                         *)
EntryTimeout ==
  /\ listed
  /\ Become(CancelOpen(World))
  /\ UNCHANGED <<broker, position, faults, listed>>

(* updateTrade() of an active trade.                                       *)
Modify ==
  /\ listed /\ IsActive(trade)
  /\ \E id \in NewIds, accepted \in BOOLEAN, price \in Levels, mod \in Mods :
       \/ Become(ModifyStopLoss(World, id, accepted, price, mod))
       \/ Become(ModifyTakeProfit(World, id, accepted, price, mod))
  /\ UNCHANGED <<broker, position, faults, listed>>

CancelClose ==
  /\ listed /\ ~trade.stop.closing /\ IsActive(trade)
  /\ Become(CancelExits(World))
  /\ UNCHANGED <<broker, position, faults, listed>>

RemoveTrade ==
  /\ listed /\ ~trade.stop.closing
  /\ Become(CancelExits(CancelEntry(World)))
  /\ UNCHANGED <<broker, position, faults, listed>>

(* process() of the manager drops a trade that can be deleted.             *)
Purge ==
  /\ listed /\ CanDelete(trade)
  /\ listed' = FALSE
  /\ UNCHANGED <<broker, position, faults, trade, orders, signals>>

-----------------------------------------------------------------------------
(* What the broker does.                                                   *)

Send(sent) == Len(signals) + Len(sent) <= MaxSignals /\ signals' = signals \o sent

Accept(id) ==
  /\ orders[id].status = "sent"
  /\ orders' = [orders EXCEPT ![id].status = "working"]
  /\ Send(<<Announce(id, "OPENED")>>)
  /\ UNCHANGED <<broker, position, faults, trade, listed>>

Refuse(id) ==
  /\ orders[id].status = "sent"
  /\ orders' = [orders EXCEPT ![id].status = "done"]
  /\ Send(<<Announce(id, "REJECTED")>>)
  /\ UNCHANGED <<broker, position, faults, trade, listed>>

Execution(id, exec, qty) ==
  [event |-> "TRADED", orderId |-> id, refId |-> id,
   cum |-> IF style = "cumulative" THEN exec ELSE 0, filled |-> qty, price |-> 0,
   completed |-> exec = orders[id].quantity]

(* A reduce-only order executes within the position.                       *)
Executable(o) ==
  {q \in 1..(o.quantity - o.exec) : o.role # "entry" => q <= bought - sold}

(* Some brokers announce that a filled order is deleted, some do not.      *)
Execute(id) ==
  /\ orders[id].status = "working"
  /\ \E q \in Executable(orders[id]), deleted \in BOOLEAN :
       LET exec == orders[id].exec + q
           full == exec = orders[id].quantity
       IN  /\ orders' = [orders EXCEPT ![id].exec = exec,
                                       ![id].status = IF full THEN "done" ELSE @]
           /\ bought' = IF orders[id].role = "entry" THEN bought + q ELSE bought
           /\ sold' = IF orders[id].role = "entry" THEN sold ELSE sold + q
           /\ Send(IF full /\ deleted THEN <<Execution(id, exec, q), Announce(id, "DELETED")>>
                   ELSE <<Execution(id, exec, q)>>)
  /\ UNCHANGED <<broker, faults, trade, listed>>

CancelByBroker(id) ==
  /\ orders[id].status = "working"
  /\ orders' = [orders EXCEPT ![id].status = "done"]
  /\ \E event \in {"CANCELED", "DELETED"} : Send(<<Announce(id, event)>>)
  /\ UNCHANGED <<broker, position, faults, trade, listed>>

(* StdTradeManager::onOrderSignal().                                       *)
Handled(t, s) ==
  IF ~listed \/ ~IsTargetOrder(t, s) THEN t
  ELSE IF kind = "IND_MARGIN" THEN OrderSignal(t, s) ELSE MarginOrderSignal(t, s)

Deliver ==
  /\ signals # <<>>
  /\ trade' = Handled(trade, Head(signals))
  /\ signals' = Tail(signals)
  /\ UNCHANGED <<broker, position, faults, listed, orders>>

(* Each kind of fault happens at most once, to bound the states.           *)
Fault(f) ==
  /\ f \in Faults \ faults /\ Cardinality(faults) < MaxFaults
  /\ faults' = faults \cup {f}
  /\ UNCHANGED <<broker, position, listed, orders>>

DeliverAgain ==
  /\ signals # <<>> /\ Fault("repeated")
  /\ trade' = Handled(trade, Head(signals))
  /\ UNCHANGED signals

DeliverEarly ==
  /\ Fault("reordered")
  /\ \E i \in 2..Len(signals) :
       /\ trade' = Handled(trade, signals[i])
       /\ signals' = RemoveAt(signals, i)

Lose ==
  /\ signals # <<>> /\ Fault("lost")
  /\ signals' = Tail(signals)
  /\ UNCHANGED trade

Next ==
  \/ Open \/ ProcessExit \/ CloseAll \/ EntryTimeout \/ Modify \/ CancelClose \/ RemoveTrade \/ Purge
  \/ \E id \in OrderIds : Accept(id) \/ Refuse(id) \/ Execute(id) \/ CancelByBroker(id)
  \/ Deliver \/ DeliverAgain \/ DeliverEarly \/ Lose

Spec == Init /\ [][Next]_vars
-----------------------------------------------------------------------------
(* Properties.                                                             *)

\* The type invariant of the trade, the broker and the signals between them.
TypeOK ==
  /\ kind \in Kinds /\ style \in Styles
  /\ trade \in TradeRecords /\ listed \in BOOLEAN
  /\ orders \in [OrderIds -> BrokerOrders]
  /\ bought \in Nat /\ sold \in Nat
  /\ signals \in Seq(OrderSignals) /\ faults \subseteq Faults

\* When the broker reports running totals, no loss, repetition or reordering
\* of its signals makes a trade believe that it entered more than it did.
EntryBacked == style = "cumulative" => trade.entryQty <= bought

\* The same of what a MarginTrade believes it has exited, although it keeps the
\* total of one order where the trade may have sent several.
MarginExitBacked == kind = "MARGIN" /\ style = "cumulative" => trade.exitQty <= sold

\* An IndMarginTrade adds up what each order executed: it never believes that it
\* exited more than it did unless a signal was repeated, or a total came late.
IndMarginExitBacked ==
  /\ kind = "IND_MARGIN" /\ "repeated" \notin faults
  /\ style = "relative" \/ "reordered" \notin faults
  => trade.exitQty <= sold

Quiet(roles) ==
  \A id \in OrderIds : orders[id].role \in roles =>
    /\ ~orders[id].revoked
    /\ \A i \in DOMAIN signals : signals[i].orderId # id

\* Whatever the strategy did meanwhile, once the signals of an entry order that
\* the trade did not cancel are all delivered, the trade knows what it entered.
EntryInStep == listed /\ faults = {} /\ Quiet({"entry"}) => trade.entryQty = bought

\* The same of the exits of an IndMarginTrade when no exit order was placed by
\* modifyStopLoss() or modifyTakeProfit(): close() overwrites the refId of one
\* that the broker has not acknowledged yet, and loses its executions.
ExitInStep ==
  /\ kind = "IND_MARGIN" /\ listed /\ faults = {}
  /\ Used("stop") = {} /\ Used("limit") = {} /\ Quiet({"close"})
  => trade.exitQty = sold

\* stop.closing keeps an IndMarginTrade from sending a second closing order while
\* one is live, however often process() and closeAll() run before it executes
\* (a distant stop order in the slot would have its own signals drop the flag).
OneClosingOrder ==
  /\ kind = "IND_MARGIN" /\ faults \subseteq {"lost"} /\ Used("stop") = {}
  => Cardinality({id \in Used("close") : Live(orders[id])}) <= 1

\* closing blocks close(), modifyStopLoss(), modifyTakeProfit() and remove() for
\* good unless something clears it: while it is set, the closing order is live
\* or has a signal on its way that the slot will recognise.
ClosingEnds ==
  trade.stop.closing /\ listed /\ "lost" \notin faults =>
    \E id \in Used("close") :
      /\ id = trade.stop.refId
      /\ Live(orders[id]) \/ \E i \in DOMAIN signals : signals[i].refId = id
=============================================================================
