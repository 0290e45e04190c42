-------------------------- MODULE PaperTradingProofs --------------------------
(***************************************************************************)
(* Theorems about PaperTrading for every number of trades, quantity, price *)
(* level and modifier: the types, and that a strategy that never asks for  *)
(* MOD_DISTANT keeps its exits local.  The orders of the paper connector   *)
(* are then the entries of the listed trades (EntriesRest), and none of    *)
(* them is left behind.                                                    *)
(***************************************************************************)
EXTENDS PaperTrading, IndMarginTradeProofs

(* The values a handler receives and returns.                              *)
Books == [OrderIds -> Orders \cup {NoOrder}]
Worlds == [trades : [TradeIds -> TradeRecords], book : Books, position : Positions]

-----------------------------------------------------------------------------
(* Types of the connector.                                                 *)

LEMMA WorldUpdates ==
  ASSUME NEW w \in Worlds
  PROVE  /\ \A t \in TradeIds : w.trades[t] \in TradeRecords
         /\ \A t \in TradeIds, r \in TradeRecords : [w EXCEPT !.trades[t] = r] \in Worlds
         /\ \A b \in Books : [w EXCEPT !.book = b] \in Worlds
         /\ \A p \in Positions : [w EXCEPT !.position = p] \in Worlds
  BY DEF Worlds

LEMMA DeliverType ==
  ASSUME NEW w \in Worlds, NEW list \in SUBSET TradeIds, NEW s \in OrderSignals
  PROVE  Deliver(w, list, s) \in Worlds
  <1>1. CASE ~ \E t \in list : IsTargetOrder(w.trades[t], s)
    BY <1>1 DEF Deliver
  <1>2. CASE \E t \in list : IsTargetOrder(w.trades[t], s)
    <2> DEFINE t == CHOOSE u \in list : IsTargetOrder(w.trades[u], s)
    <2>1. t \in TradeIds
      BY <1>2
    <2>2. OrderSignal(w.trades[t], s) \in TradeRecords
      BY <2>1, WorldUpdates, OrderSignalType
    <2>3. [w EXCEPT !.trades[t] = OrderSignal(w.trades[t], s)] \in Worlds
      BY <2>1, <2>2, WorldUpdates
    <2> QED
      BY <1>2, <2>3 DEF Deliver
  <1> QED
    BY <1>1, <1>2

LEMMA SignalTypes ==
  ASSUME NEW id \in OrderIds, NEW order \in Orders, NEW price \in Nat
  PROVE  /\ Execution(id, order, price) \in OrderSignals
         /\ \A event \in Events : Announce(id, event) \in OrderSignals
  BY DEF Execution, Announce, OrderSignals, Orders, Ids, Events

LEMMA PriceTypes == ASSUME bid \in 1..MaxPrice, NEW p, NEW order
                    PROVE  ExecPrice(p, order) \in Nat
  BY PaperAssumption DEF ExecPrice, OpenExecPrice, CloseExecPrice, ask

LEMMA NextPositionType == ASSUME NEW p \in Positions, NEW order \in Orders
                          PROVE  NextPosition(p, order) \in Positions
  BY DEF NextPosition, Positions, Orders, NoPosition

LEMMA ExecIndMarginOrderType ==
  ASSUME NEW w \in Worlds, NEW list \in SUBSET TradeIds, NEW id \in OrderIds,
         NEW order \in Orders, bid \in 1..MaxPrice
  PROVE  ExecIndMarginOrder(w, list, id, order) \in Worlds
  <1> DEFINE traded == Execution(id, order, ExecPrice(w.position, order))
             w1 == Deliver(w, list, Announce(id, "OPENED"))
             w2 == Deliver(w1, list, traded)
             w3 == Deliver(w2, list, Announce(id, "DELETED"))
  <1>1. /\ traded \in OrderSignals
        /\ Announce(id, "OPENED") \in OrderSignals
        /\ Announce(id, "DELETED") \in OrderSignals
    BY SignalTypes, PriceTypes DEF Events
  <1> HIDE DEF traded
  <1>2. w1 \in Worlds
    BY <1>1, DeliverType
  <1> HIDE DEF w1
  <1>3. w2 \in Worlds
    BY <1>1, <1>2, DeliverType
  <1> HIDE DEF w2
  <1>4. w3 \in Worlds
    BY <1>1, <1>3, DeliverType
  <1> HIDE DEF w3
  <1>5. NextPosition(w.position, order) \in Positions
    BY NextPositionType DEF Worlds
  <1>6. [w3 EXCEPT !.position = NextPosition(w.position, order)] \in Worlds
    BY <1>4, <1>5, WorldUpdates
  <1> QED
    BY <1>6 DEF ExecIndMarginOrder, traded, w1, w2, w3

LEMMA RestOrderType ==
  ASSUME NEW w \in Worlds, NEW list \in SUBSET TradeIds, NEW id \in OrderIds, NEW order \in Orders
  PROVE  RestOrder(w, list, id, order) \in Worlds
  <1>1. [w EXCEPT !.book[id] = order] \in Worlds
    BY DEF Worlds, Books
  <1>2. Announce(id, "OPENED") \in OrderSignals
    BY DEF Announce, OrderSignals, Ids, Events
  <1> QED
    BY <1>1, <1>2, DeliverType DEF RestOrder

LEMMA CancelTypes ==
  ASSUME NEW w \in Worlds, NEW t \in TradeIds
  PROVE  /\ CancelStop(w, t) \in Worlds
         /\ CancelLimit(w, t) \in Worlds
         /\ CancelOpen(w, t) \in Worlds
  <1> DEFINE r == w.trades[t]
  <1>1. r \in TradeRecords /\ r.stop \in Slots /\ r.limit \in Slots /\ r.entry \in Slots
    BY WorldUpdates, SlotUpdates
  <1>2. \A slot \in Slots : Canceled(w, slot) \in Slots /\ Forget(w, slot) \in Books
    BY ClearType DEF Canceled, Forget, CanCancel, Resting, Books, Worlds, States
  <1>3. \A slot \in Slots, b \in Books :
          /\ [w EXCEPT !.book = b, !.trades[t].stop = slot] \in Worlds
          /\ [w EXCEPT !.book = b, !.trades[t].limit = slot] \in Worlds
          /\ [w EXCEPT !.book = b, !.trades[t].entry = slot] \in Worlds
    <2> TAKE slot \in Slots, b \in Books
    <2>1. /\ [w.trades[t] EXCEPT !.stop = slot] \in TradeRecords
          /\ [w.trades[t] EXCEPT !.limit = slot] \in TradeRecords
          /\ [w.trades[t] EXCEPT !.entry = slot] \in TradeRecords
      BY <1>1, SlotUpdates
    <2> QED
      BY <2>1 DEF Worlds
  <1> QED
    BY <1>1, <1>2, <1>3 DEF CancelStop, CancelLimit, CancelOpen

-----------------------------------------------------------------------------
(* Types of the operations of a trade.                                     *)

LEMMA SendStopOrderType ==
  ASSUME NEW w \in Worlds, NEW list \in SUBSET TradeIds, NEW t \in TradeIds,
         NEW id \in OrderIds, NEW closing \in BOOLEAN, bid \in 1..MaxPrice
  PROVE  SendStopOrder(w, list, t, id, closing) \in Worlds
  <1> DEFINE trade == w.trades[t]
             qty   == RemainingQty(trade)
             order == [direction |-> -trade.direction, quantity |-> qty, price |-> 0,
                       reduceOnly |-> TRUE]
             slot  == [trade.stop EXCEPT !.refId = id, !.orderedQty = qty, !.closing = closing]
             sent  == [w EXCEPT !.trades[t].stop = slot]
  <1>1. trade \in TradeRecords /\ trade.stop \in Slots /\ qty \in Int
    BY WorldUpdates, SlotUpdates
  <1>2. order \in Orders
    BY <1>1 DEF Orders, TradeRecords
  <1>3. slot \in Slots
    BY <1>1 DEF Slots, Ids
  <1>4. Clear(slot, slot.state) \in Slots
    BY <1>3, ClearType DEF Slots
  <1>5. [trade EXCEPT !.stop = slot] \in TradeRecords
    BY <1>1, <1>3, SlotUpdates
  <1>6. sent \in Worlds
    BY <1>5 DEF Worlds
  <1>7. [sent.trades[t] EXCEPT !.stop = Clear(slot, slot.state)] \in TradeRecords
    BY <1>4, <1>6, WorldUpdates, SlotUpdates
  <1> HIDE DEF slot, order
  <1>8. [sent EXCEPT !.trades[t].stop = Clear(slot, slot.state)] \in Worlds
    BY <1>6, <1>7 DEF Worlds
  <1>9. ExecIndMarginOrder(sent, list, id, order) \in Worlds
    BY <1>2, <1>6, ExecIndMarginOrderType
  <1> QED
    BY <1>8, <1>9 DEF SendStopOrder, slot, order

LEMMA CloseType ==
  ASSUME NEW w \in Worlds, NEW list \in SUBSET TradeIds, NEW t \in TradeIds,
         NEW id \in OrderIds, bid \in 1..MaxPrice
  PROVE  Close(w, list, t, id) \in Worlds
  <1>1. CancelStop(w, t) \in Worlds
    BY CancelTypes
  <1>2. CancelLimit(CancelStop(w, t), t) \in Worlds
    BY <1>1, CancelTypes
  <1>3. SendStopOrder(CancelLimit(CancelStop(w, t), t), list, t, id, TRUE) \in Worlds
    BY <1>2, SendStopOrderType
  <1> QED
    BY <1>3 DEF Close

LEMMA LevelUpdates ==
  ASSUME NEW w \in Worlds, NEW t \in TradeIds, NEW price \in Nat
  PROVE  /\ [w EXCEPT !.trades[t].stopLoss = price] \in Worlds
         /\ [w EXCEPT !.trades[t].takeProfit = price] \in Worlds
  <1>1. /\ [w.trades[t] EXCEPT !.stopLoss = price] \in TradeRecords
        /\ [w.trades[t] EXCEPT !.takeProfit = price] \in TradeRecords
    BY WorldUpdates, SlotUpdates
  <1> QED
    BY <1>1 DEF Worlds

LEMMA ModifyStopLossType ==
  ASSUME NEW w \in Worlds, NEW list \in SUBSET TradeIds, NEW t \in TradeIds,
         NEW id \in OrderIds, NEW price \in Nat, NEW mod, bid \in 1..MaxPrice
  PROVE  ModifyStopLoss(w, list, t, id, price, mod) \in Worlds
  <1>1. CancelStop(w, t) \in Worlds
    BY CancelTypes
  <1>2. SendStopOrder(CancelStop(w, t), list, t, id, FALSE) \in Worlds
    BY <1>1, SendStopOrderType
  <1> QED
    BY <1>1, <1>2, LevelUpdates DEF ModifyStopLoss

LEMMA ModifyTakeProfitType ==
  ASSUME NEW w \in Worlds, NEW list \in SUBSET TradeIds, NEW t \in TradeIds,
         NEW id \in OrderIds, NEW price \in Nat, NEW mod
  PROVE  ModifyTakeProfit(w, list, t, id, price, mod) \in Worlds
  <1> DEFINE trade == w.trades[t]
             qty   == RemainingQty(trade)
             order == [direction |-> -trade.direction, quantity |-> qty, price |-> price,
                       reduceOnly |-> TRUE]
             w1    == CancelLimit(w, t)
             w2    == [w1 EXCEPT !.trades[t].limit = [@ EXCEPT !.refId = id, !.orderedQty = qty]]
  <1>1. trade \in TradeRecords /\ qty \in Int
    BY WorldUpdates, SlotUpdates
  <1>2. order \in Orders
    BY <1>1 DEF Orders, TradeRecords
  <1>3. w1 \in Worlds
    BY CancelTypes
  <1> HIDE DEF order, w1, qty
  <1>4. [w1.trades[t].limit EXCEPT !.refId = id, !.orderedQty = qty] \in Slots
    <2>1. w1.trades[t].limit \in Slots
      BY <1>3, WorldUpdates, SlotUpdates
    <2> QED
      BY <1>1, <2>1 DEF Slots, Ids
  <1>5. [w1.trades[t] EXCEPT !.limit = [w1.trades[t].limit EXCEPT !.refId = id, !.orderedQty = qty]]
          \in TradeRecords
    BY <1>3, <1>4, WorldUpdates, SlotUpdates
  <1>6. w2 \in Worlds
    BY <1>3, <1>5 DEF Worlds
  <1> HIDE DEF w2
  <1>7. RestOrder(w2, list, id, order) \in Worlds
    BY <1>2, <1>6, RestOrderType
  <1> DEFINE w3 == IF Effective(trade.limit, mod) = "DISTANT" /\ price > 0
                   THEN RestOrder(w2, list, id, order) ELSE w1
  <1>8. w3 \in Worlds
    BY <1>3, <1>7
  <1> HIDE DEF w3
  <1>9. [w3 EXCEPT !.trades[t].takeProfit = price] \in Worlds
    BY <1>8, LevelUpdates
  <1> QED
    BY <1>9 DEF ModifyTakeProfit, order, w1, w2, w3, qty

LEMMA EntryRecords ==
  ASSUME NEW id \in OrderIds, NEW s \in EntrySignals, NEW qty \in Quantities
  PROVE  NewTrade(id, s, qty) \in TradeRecords /\ EntryOrder(s, qty) \in Orders
  <1>1. s \in [direction : Directions, orderType : EntryTypes, price : 1..MaxPrice,
               takeProfit : Levels \cup {0}, stopLoss : Levels \cup {0}]
    BY DEF EntrySignals
  <1>2. /\ s.direction \in Directions /\ s.price \in 1..MaxPrice
        /\ s.takeProfit \in Levels \cup {0} /\ s.stopLoss \in Levels \cup {0}
    BY <1>1
  <1>3. s.direction \in {-1, 1} /\ qty \in Nat
    BY <1>2, PaperAssumption
  <1>4. s.takeProfit \in Nat /\ s.stopLoss \in Nat
    <2>1. Levels \cup {0} \subseteq Nat
      BY PaperAssumption
    <2> QED
      BY <1>2, <2>1
  <1>5. s.price \in Nat
    BY <1>2, PaperAssumption
  <1>6. [ResetSlot EXCEPT !.refId = id] \in Slots
    BY ResetTypes DEF Slots, Ids
  <1> QED
    BY <1>3, <1>4, <1>5, <1>6, ResetTypes DEF NewTrade, EntryOrder, TradeRecords, Orders

LEMMA OpenType ==
  ASSUME NEW w \in Worlds, NEW list \in SUBSET TradeIds, NEW t \in TradeIds,
         NEW id \in OrderIds, NEW s \in EntrySignals, NEW qty \in Quantities,
         bid \in 1..MaxPrice
  PROVE  Open(w, list, t, id, s, qty) \in Worlds
  <1>1. [w EXCEPT !.trades[t] = NewTrade(id, s, qty)] \in Worlds
    BY EntryRecords, WorldUpdates
  <1> QED
    BY <1>1, EntryRecords, ExecIndMarginOrderType, RestOrderType DEF Open

-----------------------------------------------------------------------------
(* The type invariant.  It needs to know that the loops visit listed       *)
(* trades: process() collects the trades to delete among those it visits.  *)

TInv == TypeOK /\ TodoListed

LEMMA WorldType == ASSUME TypeOK PROVE World \in Worlds
  BY DEF TypeOK, World, Worlds, Books

LEMMA BecomeType ==
  ASSUME NEW w \in Worlds, Become(w)
  PROVE  /\ trades' \in [TradeIds -> TradeRecords]
         /\ book' \in [OrderIds -> Orders \cup {NoOrder}]
         /\ position' \in Positions
  BY DEF Become, Worlds, Books

LEMMA NewIdsAreFresh == ASSUME NEW w PROVE NewIds(w) \subseteq FreshIds(w)
  BY DEF NewIds

LEMMA FreshIdsType == ASSUME NEW w PROVE NewIds(w) \subseteq OrderIds
  BY NewIdsAreFresh DEF FreshIds

LEMMA TInvInit == Init => TInv
  <1> SUFFICES ASSUME Init PROVE TInv
    OBVIOUS
  <1>1. trades \in [TradeIds -> TradeRecords]
    BY ResetTypes DEF Init
  <1>2. book \in [OrderIds -> Orders \cup {NoOrder}] /\ position \in Positions
    BY DEF Init, NoPosition, Positions
  <1> QED
    BY <1>1, <1>2 DEF Init, TInv, TypeOK, TodoListed, Phases

LEMMA OneUpdateType ==
  ASSUME NEW w \in Worlds, NEW t \in TradeIds, listed \subseteq TradeIds, bid \in 1..MaxPrice
  PROVE  OneUpdate(w, t) \subseteq Worlds
  <1>1. ASSUME NEW id \in NewIds(w), NEW price \in Levels, NEW mod
        PROVE  /\ ModifyStopLoss(w, listed, t, id, price, mod) \in Worlds
               /\ ModifyTakeProfit(w, listed, t, id, price, mod) \in Worlds
    <2>1. id \in OrderIds /\ price \in Nat
      BY FreshIdsType, PaperAssumption
    <2> QED
      BY <2>1, ModifyStopLossType, ModifyTakeProfitType
  <1>2. /\ \A a \in NewIds(w) \X Levels \X StopMods :
                a[1] \in NewIds(w) /\ a[2] \in Levels
        /\ \A a \in NewIds(w) \X Levels \X ProfitMods :
                a[1] \in NewIds(w) /\ a[2] \in Levels
    OBVIOUS
  <1>3. /\ \A a \in NewIds(w) \X Levels \X StopMods :
                ModifyStopLoss(w, listed, t, a[1], a[2], a[3]) \in Worlds
        /\ \A a \in NewIds(w) \X Levels \X ProfitMods :
                ModifyTakeProfit(w, listed, t, a[1], a[2], a[3]) \in Worlds
    BY <1>1, <1>2
  <1> QED
    BY <1>3 DEF OneUpdate

LEMMA UpdatesType ==
  ASSUME NEW w \in Worlds, NEW t \in TradeIds, listed \subseteq TradeIds, bid \in 1..MaxPrice
  PROVE  Updates(w, t) \subseteq Worlds
  <1>1. \A v \in OneUpdate(w, t) : v \in Worlds /\ OneUpdate(v, t) \subseteq Worlds
    BY OneUpdateType
  <1> QED
    BY <1>1 DEF Updates

LEMMA TInvNext == TInv /\ [Next]_vars => TInv'
  <1> SUFFICES ASSUME TInv, [Next]_vars PROVE TInv'
    OBVIOUS
  <1> USE DEF TInv
  <1>0. World \in Worlds /\ listed \in SUBSET TradeIds /\ bid \in 1..MaxPrice
    BY WorldType DEF TypeOK
  <1>1. CASE OnTick
    BY <1>1 DEF OnTick, TypeOK, TodoListed, Phases
  <1>2. CASE ComputeSignal
    BY <1>2 DEF ComputeSignal, TypeOK, TodoListed, Phases, TradesByDirection
  <1>3. ASSUME NEW t \in TradeIds, CloseOpposite(t) PROVE TInv'
    <2>1. PICK id \in NewIds(World) :
            Become(IF IsActive(trades[t]) THEN Close(World, listed, t, id)
                                          ELSE CancelOpen(World, t))
      BY <1>3 DEF CloseOpposite
    <2>2. id \in OrderIds
      BY FreshIdsType
    <2>3. Close(World, listed, t, id) \in Worlds /\ CancelOpen(World, t) \in Worlds
      BY <1>0, <2>2, CloseType, CancelTypes
    <2>4. /\ trades' \in [TradeIds -> TradeRecords]
          /\ book' \in [OrderIds -> Orders \cup {NoOrder}]
          /\ position' \in Positions
      BY <2>1, <2>3, BecomeType
    <2> QED
      BY <1>3, <2>4 DEF CloseOpposite, TypeOK, TodoListed
  <1>4. CASE Reversed
    BY <1>4 DEF Reversed, TypeOK, TodoListed, Phases
  <1>5. ASSUME NEW t \in TradeIds, ProcessTrade(t) PROVE TInv'
    <2>0. PICK updated \in IF IsActive(trades[t]) THEN Updates(World, t) ELSE {World} :
          \E id \in NewIds(updated), late \in BOOLEAN :
            LET processed == IF IsActive(trades[t]) /\ Triggered(updated.trades[t])
                             THEN Close(updated, listed, t, id) ELSE updated
                expired   == IF late THEN CancelOpen(processed, t) ELSE processed
            IN  /\ Become(expired)
                /\ removed' = IF CanDelete(expired.trades[t]) THEN removed \cup {t} ELSE removed
      BY <1>5 DEF ProcessTrade
    <2>1. PICK id \in NewIds(updated), late \in BOOLEAN :
            LET processed == IF IsActive(trades[t]) /\ Triggered(updated.trades[t])
                             THEN Close(updated, listed, t, id) ELSE updated
                expired   == IF late THEN CancelOpen(processed, t) ELSE processed
            IN  /\ Become(expired)
                /\ removed' = IF CanDelete(expired.trades[t]) THEN removed \cup {t} ELSE removed
      BY <2>0
    <2>2. updated \in Worlds /\ id \in OrderIds
      BY <1>0, UpdatesType, FreshIdsType
    <2>3. Close(updated, listed, t, id) \in Worlds
      BY <1>0, <2>2, CloseType
    <2>4. CancelOpen(Close(updated, listed, t, id), t) \in Worlds /\ CancelOpen(updated, t) \in Worlds
      BY <2>2, <2>3, CancelTypes
    <2>5. /\ trades' \in [TradeIds -> TradeRecords]
          /\ book' \in [OrderIds -> Orders \cup {NoOrder}]
          /\ position' \in Positions
      BY <2>1, <2>2, <2>3, <2>4, BecomeType
    <2>6. removed' \subseteq listed
      BY <1>5, <2>1 DEF ProcessTrade, TypeOK, TodoListed
    <2> QED
      BY <1>5, <2>5, <2>6 DEF ProcessTrade, TypeOK, TodoListed
  <1>6. CASE PurgeTrades
    BY <1>6, ResetTypes DEF PurgeTrades, TypeOK, TodoListed, Phases
  <1>7. CASE OrderEntry
    <2>1. PICK t \in TradeIds \ listed, id \in NewIds(World), qty \in Quantities :
            /\ Become(Open(World, listed \cup {t}, t, id, signal, qty))
            /\ listed' = listed \cup {t}
            /\ todo' = RestingIds(Open(World, listed \cup {t}, t, id, signal, qty))
      BY <1>7 DEF OrderEntry
    <2>2. signal \in EntrySignals /\ id \in OrderIds
      BY <1>7, FreshIdsType DEF OrderEntry, DoOrder, TypeOK
    <2>3. Open(World, listed \cup {t}, t, id, signal, qty) \in Worlds
      BY <1>0, <2>2, OpenType
    <2>4. /\ trades' \in [TradeIds -> TradeRecords]
          /\ book' \in [OrderIds -> Orders \cup {NoOrder}]
          /\ position' \in Positions
      BY <2>1, <2>3, BecomeType
    <2> QED
      BY <1>7, <2>1, <2>4 DEF OrderEntry, TypeOK, TodoListed, Phases, RestingIds
  <1>8. CASE NoOrderEntry
    BY <1>8 DEF NoOrderEntry, TypeOK, TodoListed, Phases, RestingIds
  <1>9. ASSUME NEW id \in OrderIds, UpdateOrder(id) PROVE TInv'
    <2>1. CASE LimitReached(book[id])
      <3> DEFINE w == [World EXCEPT !.book[id] = NoOrder]
      <3>1. w \in Worlds
        BY <1>0 DEF Worlds, Books
      <3>2. book[id] \in Orders
        <4>1. book[id] \in Orders \cup {NoOrder}
          BY DEF TypeOK
        <4>2. NoOrder \in Orders
          BY DEF NoOrder, Orders
        <4> QED
          BY <4>1, <4>2
      <3>3. ExecIndMarginOrder(w, listed, id, book[id]) \in Worlds
        BY <1>0, <3>1, <3>2, ExecIndMarginOrderType
      <3>4. Become(ExecIndMarginOrder(w, listed, id, book[id]))
        BY <1>9, <2>1 DEF UpdateOrder
      <3>5. /\ trades' \in [TradeIds -> TradeRecords]
            /\ book' \in [OrderIds -> Orders \cup {NoOrder}]
            /\ position' \in Positions
        BY <3>3, <3>4, BecomeType
      <3> QED
        BY <1>9, <3>5 DEF UpdateOrder, TypeOK, TodoListed
    <2>2. CASE ~LimitReached(book[id])
      BY <1>0, <1>9, <2>2, BecomeType DEF UpdateOrder, TypeOK, TodoListed
    <2> QED
      BY <2>1, <2>2
  <1>10. CASE Updated
    BY <1>10 DEF Updated, TypeOK, TodoListed, Phases
  <1>11. CASE UNCHANGED vars
    BY <1>11 DEF vars, TypeOK, TodoListed
  <1> QED
    BY <1>1, <1>2, <1>3, <1>4, <1>5, <1>6, <1>7, <1>8, <1>9, <1>10, <1>11 DEF Next

\* The variables of the backtest loop, the trades and the paper connector keep
\* their types whatever the signals, quantities and levels are.
THEOREM TypeCorrect == Spec => []TypeOK
  <1>1. TInv => TypeOK
    BY DEF TInv
  <1> QED
    BY <1>1, TInvInit, TInvNext, PTL DEF Spec

-----------------------------------------------------------------------------
(* What the signals of an order do to the trades.                          *)

(* A signal of the connector carries one identity.                         *)
Carries(s, id) == s \in OrderSignals /\ s.orderId = id /\ s.refId = id

LEMMA TargetsById ==
  ASSUME NEW r \in TradeRecords, NEW id \in OrderIds, NEW s, Carries(s, id)
  PROVE  IsTargetOrder(r, s) <=> Refers(r, id)
  <1>1. id # NoId /\ s.orderId = id /\ s.refId = id
    BY NoIdAssumption DEF Carries
  <1> QED
    BY <1>1 DEF IsTargetOrder, Refers, Targets

LEMMA SignalsCarry ==
  ASSUME NEW id \in OrderIds, NEW order \in Orders, NEW price \in Nat
  PROVE  /\ Carries(Execution(id, order, price), id)
         /\ Carries(Announce(id, "OPENED"), id)
         /\ Carries(Announce(id, "DELETED"), id)
  BY SignalTypes DEF Carries, Execution, Announce, Events

LEMMA DeliverNone ==
  ASSUME NEW w \in Worlds, NEW list \in SUBSET TradeIds, NEW id \in OrderIds, NEW s,
         Carries(s, id), \A u \in list : ~Refers(w.trades[u], id)
  PROVE  Deliver(w, list, s) = w
  BY TargetsById, WorldUpdates DEF Deliver

OnlyRefers(w, list, t, id) ==
  /\ t \in list /\ Refers(w.trades[t], id)
  /\ \A u \in list : Refers(w.trades[u], id) => u = t

With(w, t, r) == [w EXCEPT !.trades[t] = r]

LEMMA DeliverOne ==
  ASSUME NEW w \in Worlds, NEW list \in SUBSET TradeIds, NEW id \in OrderIds, NEW s,
         Carries(s, id), NEW t, OnlyRefers(w, list, t, id)
  PROVE  Deliver(w, list, s) = With(w, t, OrderSignal(w.trades[t], s))
  <1>1. \A u \in list : IsTargetOrder(w.trades[u], s) <=> u = t
    BY TargetsById, WorldUpdates DEF OnlyRefers
  <1>2. t \in list /\ t = CHOOSE u \in list : IsTargetOrder(w.trades[u], s)
    BY <1>1 DEF OnlyRefers
  <1> QED
    BY <1>1, <1>2 DEF Deliver, With

(* The execution of an order that one trade refers to, until it is traded, *)
(* changes that trade and the position.                                    *)
LEMMA ExecutedOnce ==
  ASSUME NEW w \in Worlds, NEW list \in SUBSET TradeIds, NEW t \in list,
         NEW id \in OrderIds, NEW order \in Orders, bid \in 1..MaxPrice,
         Accepted(w.position, order),
         NEW r1, r1 = OrderSignal(w.trades[t], Announce(id, "OPENED")),
         NEW r2, r2 = OrderSignal(r1, Execution(id, order, ExecPrice(w.position, order))),
         Refers(r1, id), ~Refers(r2, id),
         OnlyRefers(w, list, t, id)
  PROVE  /\ ExecIndMarginOrder(w, list, id, order).book = w.book
         /\ ExecIndMarginOrder(w, list, id, order).trades = [w.trades EXCEPT ![t] = r2]
         /\ ExecIndMarginOrder(w, list, id, order).position = NextPosition(w.position, order)
  <1> DEFINE opened  == Announce(id, "OPENED")
             traded  == Execution(id, order, ExecPrice(w.position, order))
             deleted == Announce(id, "DELETED")
             w1 == With(w, t, r1)
             w2 == With(w, t, r2)
  <1>1. Carries(opened, id) /\ Carries(traded, id) /\ Carries(deleted, id)
    BY SignalsCarry, PriceTypes
  <1>2. r1 \in TradeRecords /\ r2 \in TradeRecords
    BY <1>1, OrderSignalType, WorldUpdates DEF Carries
  <1>3. w1 \in Worlds /\ w2 \in Worlds
    BY <1>2, WorldUpdates DEF With
  <1>4. /\ w1.trades[t] = r1 /\ w2.trades[t] = r2
        /\ \A u \in list : u # t => w1.trades[u] = w.trades[u] /\ w2.trades[u] = w.trades[u]
        /\ With(w1, t, r2) = w2
    BY DEF Worlds, With
  <1> HIDE DEF opened, traded, deleted, w1, w2
  <1>5. Deliver(w, list, opened) = w1
    BY <1>1, DeliverOne DEF w1, opened
  <1>6. Deliver(w1, list, traded) = w2
    <2>1. r2 = OrderSignal(r1, traded)
      BY DEF traded
    <2>2. OnlyRefers(w1, list, t, id)
      BY <1>4 DEF OnlyRefers
    <2>3. Deliver(w1, list, traded) = With(w1, t, OrderSignal(w1.trades[t], traded))
      BY <1>1, <1>3, <2>2, DeliverOne
    <2> QED
      BY <1>4, <2>1, <2>3
  <1>7. Deliver(w2, list, deleted) = w2
    <2>1. \A u \in list : ~Refers(w2.trades[u], id)
      BY <1>4 DEF OnlyRefers
    <2> QED
      BY <1>1, <1>3, <2>1, DeliverNone
  <1>8. ExecIndMarginOrder(w, list, id, order)
          = [w2 EXCEPT !.position = NextPosition(w.position, order)]
    BY <1>5, <1>6, <1>7 DEF ExecIndMarginOrder, opened, traded, deleted
  <1>9. w2.book = w.book /\ w2.trades = [w.trades EXCEPT ![t] = r2]
    BY DEF w2, With, Worlds
  <1> QED
    BY <1>3, <1>8, <1>9 DEF Worlds

LEMMA ClearIsIdle ==
  ASSUME NEW slot, NEW state
  PROVE  Idle(Clear(slot, state)) /\ Clear(slot, state).state = state
  BY DEF Idle, Clear, ResetSlot

LEMMA RefersByOne ==
  ASSUME NEW r \in TradeRecords, NEW id \in OrderIds
  PROVE  /\ Idle(r.limit) /\ Idle(r.stop) => (Refers(r, id) <=> id \in {r.entry.orderId, r.entry.refId})
         /\ Idle(r.entry) /\ Idle(r.limit) => (Refers(r, id) <=> id \in {r.stop.orderId, r.stop.refId})
         /\ Idle(r.entry) /\ Idle(r.stop) => (Refers(r, id) <=> id \in {r.limit.orderId, r.limit.refId})
  BY NoIdAssumption DEF Refers, Idle

(* The entry order of a trade without exits is accepted, then traded.      *)
LEMMA EntryFills ==
  ASSUME NEW r \in TradeRecords, NEW id \in OrderIds, NEW order \in Orders, NEW price \in Nat,
         r.entry.refId = id, r.entry.orderId \in {NoId, id}, r.entry.state = "UNDEFINED",
         Idle(r.limit), Idle(r.stop),
         NEW r1, r1 = OrderSignal(r, Announce(id, "OPENED")),
         NEW r2, r2 = OrderSignal(r1, Execution(id, order, price))
  PROVE  /\ r1 = [r EXCEPT !.entry = [r.entry EXCEPT !.orderId = id]]
         /\ Refers(r, id) /\ Refers(r1, id) /\ ~Refers(r2, id)
         /\ Idle(r2.entry) /\ Filled(r2.entry)
         /\ r2.limit = r.limit /\ r2.stop = r.stop
         /\ r2.direction = r.direction /\ r2.exitQty = r.exitQty
         /\ order.quantity > 0 => r2.entryQty = order.quantity
  <1> DEFINE opened == Announce(id, "OPENED")
             traded == Execution(id, order, price)
             entry  == [r.entry EXCEPT !.orderId = id]
  <1>1. /\ opened \in OrderSignals /\ opened.refId = id /\ opened.orderId = id
        /\ opened.event = "OPENED"
        /\ traded \in OrderSignals /\ traded.refId = id /\ traded.orderId = id
        /\ traded.event = "TRADED" /\ traded.completed
        /\ traded.cum = order.quantity
    BY SignalsCarry DEF Carries, Announce, Execution
  <1>2. id # NoId /\ r.entry \in Slots
    BY NoIdAssumption, SlotUpdates
  <1> HIDE DEF opened, traded
  <1>3. Acknowledge(r.entry, opened) = entry
    BY <1>1, <1>2 DEF Acknowledge, Slots
  <1>4. Untraded(entry, opened) = entry
    BY <1>1, <1>2 DEF Untraded, Slots
  <1>5. OrderSignal(r, opened) = EntrySignal(r, opened)
    BY <1>1, <1>2 DEF OrderSignal, Targets
  <1>6. r1 = [r EXCEPT !.entry = entry]
    BY <1>1, <1>3, <1>4, <1>5 DEF EntrySignal, opened
  <1>7. /\ r1.entry = entry /\ r1.limit = r.limit /\ r1.stop = r.stop
        /\ entry.refId = id /\ entry.orderId = id /\ entry \in Slots
        /\ r1.direction = r.direction /\ r1.exitQty = r.exitQty
    BY <1>2, <1>6 DEF TradeRecords, Slots, Ids
  <1>8. r1 \in TradeRecords
    BY <1>6, <1>7 DEF TradeRecords
  <1>9. r2 = EntryTraded(r1, traded)
    BY <1>1, <1>2, <1>7 DEF OrderSignal, EntrySignal, Targets, traded
  <1>10. /\ r2.entry = Clear(Acknowledge(r1.entry, traded), "FILLED")
         /\ r2.limit = r1.limit /\ r2.stop = r1.stop
         /\ r2.direction = r1.direction /\ r2.exitQty = r1.exitQty
         /\ order.quantity > 0 => r2.entryQty = order.quantity
    BY <1>1, <1>8, <1>9 DEF EntryTraded, TradeRecords
  <1>11. r2 \in TradeRecords
    BY <1>1, <1>8, OrderSignalType DEF traded
  <1>12. Idle(r2.entry) /\ Filled(r2.entry)
    BY <1>10, ClearIsIdle DEF Filled
  <1>13. Refers(r, id) /\ Refers(r1, id)
    BY <1>7 DEF Refers
  <1>14. ~Refers(r2, id)
    BY <1>2, <1>7, <1>10, <1>11, <1>12, RefersByOne DEF Idle
  <1> QED
    BY <1>6, <1>7, <1>10, <1>12, <1>13, <1>14

(* The closing order of a trade whose entry is filled.                     *)
LEMMA StopFills ==
  ASSUME NEW r \in TradeRecords, NEW id \in OrderIds, NEW order \in Orders, NEW price \in Nat,
         r.stop.refId = id, r.stop.orderId = NoId, r.stop.state \in States,
         Idle(r.entry), Filled(r.entry), Idle(r.limit),
         NEW r1, r1 = OrderSignal(r, Announce(id, "OPENED")),
         NEW r2, r2 = OrderSignal(r1, Execution(id, order, price))
  PROVE  /\ Refers(r, id) /\ Refers(r1, id) /\ ~Refers(r2, id)
         /\ Idle(r2.stop)
         /\ r2.entry = r.entry /\ r2.limit = r.limit
         /\ r2.direction = r.direction /\ r2.entryQty = r.entryQty
         /\ IsClosed(r2)
         /\ r.stop.execQty = 0 /\ order.quantity > 0 =>
              r2.exitQty = r.exitQty + order.quantity
  <1> DEFINE opened == Announce(id, "OPENED")
             traded == Execution(id, order, price)
             stop   == Untraded(Acknowledge(r.stop, opened), opened)
  <1>1. /\ opened \in OrderSignals /\ opened.refId = id /\ opened.orderId = id
        /\ opened.event = "OPENED"
        /\ traded \in OrderSignals /\ traded.refId = id /\ traded.orderId = id
        /\ traded.event = "TRADED" /\ traded.completed
        /\ traded.cum = order.quantity
    BY SignalsCarry DEF Carries, Announce, Execution
  <1>2. id # NoId /\ r.stop \in Slots
    BY NoIdAssumption, SlotUpdates
  <1> HIDE DEF opened, traded
  <1>3. Acknowledge(r.stop, opened) = [r.stop EXCEPT !.orderId = id]
    BY <1>1 DEF Acknowledge
  <1>4. stop \in Slots /\ stop.orderId = id /\ stop.refId = id /\ stop.execQty = r.stop.execQty
    <2>1. [r.stop EXCEPT !.orderId = id] \in Slots
      BY <1>2 DEF Slots, Ids
    <2> QED
      BY <1>1, <1>2, <1>3, <2>1 DEF Untraded, Slots, States
  <1>5. ~Targets(r.entry, opened) /\ ~Targets(r.limit, opened) /\ Targets(r.stop, opened)
    BY <1>1, <1>2 DEF Targets, Idle
  <1> HIDE DEF stop
  <1>6. r1 = [r EXCEPT !.stop = stop]
    BY <1>1, <1>5 DEF OrderSignal, StopSignal, stop, opened
  <1>7. /\ r1.stop = stop /\ r1.entry = r.entry /\ r1.limit = r.limit /\ r1 \in TradeRecords
        /\ r1.direction = r.direction /\ r1.entryQty = r.entryQty /\ r1.exitQty = r.exitQty
    BY <1>4, <1>6 DEF TradeRecords
  <1>8. ~Targets(r1.entry, traded) /\ ~Targets(r1.limit, traded) /\ Targets(r1.stop, traded)
    BY <1>1, <1>2, <1>4, <1>7 DEF Targets, Idle
  <1> DEFINE slot == Acknowledge(r1.stop, traded)
  <1>9. slot \in Slots /\ slot.execQty = r.stop.execQty
    <2>1. slot = r1.stop
      BY <1>2, <1>4, <1>7 DEF Acknowledge
    <2> QED
      BY <1>4, <1>7, <2>1
  <1> HIDE DEF slot
  <1>10. r2 = [WithExit(r1, slot, traded) EXCEPT !.stop = ExitTraded(r1, slot, traded)]
    BY <1>1, <1>8 DEF OrderSignal, StopSignal, slot, traded
  <1>11. /\ WithExit(r1, slot, traded) \in TradeRecords
         /\ WithExit(r1, slot, traded).entry = r1.entry
         /\ WithExit(r1, slot, traded).limit = r1.limit
         /\ WithExit(r1, slot, traded).direction = r1.direction
         /\ WithExit(r1, slot, traded).entryQty = r1.entryQty
         /\ WithExit(r1, slot, traded).exitQty = r1.exitQty + ExitFill(slot, traded)
    <2>1. WithExit(r1, slot, traded) \in TradeRecords
      BY <1>1, <1>7, <1>9, ExitTypes
    <2>2. \A n, m : LET e == [r1 EXCEPT !.exitQty = n, !.exitPrice = m]
                   IN  /\ e.entry = r1.entry /\ e.limit = r1.limit /\ e.stop = r1.stop
                       /\ e.direction = r1.direction /\ e.entryQty = r1.entryQty
                       /\ e.exitQty = n
      BY <1>7 DEF TradeRecords
    <2> QED
      BY <2>1, <2>2 DEF WithExit
  <1>12. Idle(ExitTraded(r1, slot, traded)) /\ Filled(ExitTraded(r1, slot, traded))
    <2>1. ExitTraded(r1, slot, traded)
            = Clear(slot, ExitState(r1, r1.exitQty + ExitFill(slot, traded), traded))
      BY <1>1 DEF ExitTraded
    <2>2. ExitState(r1, r1.exitQty + ExitFill(slot, traded), traded) = "FILLED"
      BY <1>1, <1>7 DEF ExitState
    <2> QED
      BY <2>1, <2>2, ClearIsIdle DEF Filled
  <1>13. /\ r2.stop = ExitTraded(r1, slot, traded) /\ r2.entry = r1.entry /\ r2.limit = r1.limit
         /\ r2.direction = r1.direction /\ r2.entryQty = r1.entryQty
         /\ r2.exitQty = r1.exitQty + ExitFill(slot, traded)
    BY <1>10, <1>11 DEF TradeRecords
  <1>14. r2 \in TradeRecords
    BY <1>1, <1>7, OrderSignalType DEF traded
  <1>15. Refers(r, id) /\ Refers(r1, id)
    BY <1>4, <1>7, RefersByOne
  <1>16. ~Refers(r2, id)
    BY <1>2, <1>7, <1>12, <1>13, <1>14, RefersByOne DEF Idle
  <1>17. IsClosed(r2)
    BY <1>12, <1>13 DEF IsClosed
  <1>18. r.stop.execQty = 0 /\ order.quantity > 0 => ExitFill(slot, traded) = order.quantity
    BY <1>1, <1>9 DEF ExitFill, Orders
  <1> QED
    BY <1>7, <1>12, <1>13, <1>15, <1>16, <1>17, <1>18

-----------------------------------------------------------------------------
(* With exits managed locally the orders of the connector are the entries  *)
(* of the listed trades.  A handler of a trade whose entry is filled only  *)
(* changes that trade.                                                     *)

NoDistant == "DISTANT" \notin StopMods \cup ProfitMods

EntryDone(r) == Idle(r.stop) /\ Idle(r.limit) /\ Idle(r.entry) /\ Filled(r.entry)

Changes(w, v, t) ==
  /\ v \in Worlds /\ v.book = w.book
  /\ \A u \in TradeIds : u # t => v.trades[u] = w.trades[u]
  /\ v.trades[t].entry = w.trades[t].entry
  /\ EntryDone(v.trades[t])

LEMMA EntryDoneLocal ==
  ASSUME NEW w, NEW r, LocalExits(w, r)
  PROVE  /\ Filled(r.entry) => EntryDone(r)
         /\ IsClosed(r) => Filled(r.entry)
         /\ IsActive(r) => Filled(r.entry)
  BY DEF LocalExits, EntryDone, IsActive, Filled

LEMMA EntryDoneIsLocal ==
  ASSUME NEW w, NEW r, EntryDone(r) PROVE LocalExits(w, r)
  BY DEF LocalExits, EntryDone, Idle

LEMMA LocalByBook ==
  ASSUME NEW w, NEW v, NEW r, w.book = v.book, LocalExits(w, r) PROVE LocalExits(v, r)
  BY DEF LocalExits, Resting

LEMMA ChangesOwned ==
  ASSUME NEW w \in Worlds, NEW v, NEW list \in SUBSET TradeIds, NEW t \in list,
         EntriesOwned(w, list), Changes(w, v, t)
  PROVE  EntriesOwned(v, list)
  <1>1. \A u \in list : v.trades[u].entry = w.trades[u].entry
    BY DEF Changes
  <1>2. \A u \in list : LocalExits(v, v.trades[u])
    BY EntryDoneIsLocal, LocalByBook DEF Changes, EntriesOwned
  <1>3. \A id \in OrderIds : Resting(v, id) <=> Resting(w, id)
    BY DEF Changes, Resting
  <1> QED
    BY <1>1, <1>2, <1>3 DEF EntriesOwned

LEMMA ChangesTransitive ==
  ASSUME NEW w, NEW v, NEW u, NEW t \in TradeIds, Changes(w, v, t), Changes(v, u, t)
  PROVE  Changes(w, u, t)
  BY DEF Changes

LEMMA ChangesNothing ==
  ASSUME NEW w \in Worlds, NEW t \in TradeIds, EntryDone(w.trades[t])
  PROVE  Changes(w, w, t)
  BY DEF Changes

(* Cancelling does nothing to slots without an order.                      *)
LEMMA CancelNothing ==
  ASSUME NEW w \in Worlds, NEW t \in TradeIds
  PROVE  /\ Idle(w.trades[t].stop) => CancelStop(w, t) = w
         /\ Idle(w.trades[t].limit) => CancelLimit(w, t) = w
         /\ w.trades[t].entry.state # "OPENED" => CancelOpen(w, t) = w
  <1>1. \A slot : Idle(slot) => Forget(w, slot) = w.book /\ Canceled(w, slot) = slot
    BY DEF Idle, Forget, Canceled, CanCancel, HasOrder
  <1>2. w.trades[t] \in TradeRecords /\ [w EXCEPT !.book = w.book] = w
    BY DEF Worlds
  <1>3. /\ [w.trades[t] EXCEPT !.stop = w.trades[t].stop] = w.trades[t]
        /\ [w.trades[t] EXCEPT !.limit = w.trades[t].limit] = w.trades[t]
    BY <1>2 DEF TradeRecords
  <1>4. [w EXCEPT !.trades[t] = w.trades[t]] = w
    BY DEF Worlds
  <1>5. ASSUME Idle(w.trades[t].stop) PROVE CancelStop(w, t) = w
    <2>1. CancelStop(w, t)
            = [[w EXCEPT !.book = w.book] EXCEPT !.trades[t] =
                 [[w EXCEPT !.book = w.book].trades[t] EXCEPT !.stop = w.trades[t].stop]]
      BY <1>1, <1>2, <1>5 DEF CancelStop
    <2> QED
      BY <1>2, <1>3, <1>4, <2>1
  <1>6. ASSUME Idle(w.trades[t].limit) PROVE CancelLimit(w, t) = w
    <2>1. CancelLimit(w, t)
            = [[w EXCEPT !.book = w.book] EXCEPT !.trades[t] =
                 [[w EXCEPT !.book = w.book].trades[t] EXCEPT !.limit = w.trades[t].limit]]
      BY <1>1, <1>2, <1>6 DEF CancelLimit
    <2> QED
      BY <1>2, <1>3, <1>4, <2>1
  <1> QED
    BY <1>5, <1>6 DEF CancelOpen, IsOpened

(* The order of the stop slot of t is executed: the exit of t is filled.   *)
StopFilled(w, v, t, qty) ==
  LET r == w.trades[t]
      e == v.trades[t]
  IN  /\ v \in Worlds /\ v.book = w.book
      /\ \A u \in TradeIds : u # t => v.trades[u] = w.trades[u]
      /\ EntryDone(e) /\ IsClosed(e)
      /\ e.entry = r.entry /\ e.limit = r.limit
      /\ e.direction = r.direction /\ e.entryQty = r.entryQty
      /\ r.stop.execQty = 0 /\ qty > 0 => e.exitQty = r.exitQty + qty

LEMMA StopExecuted ==
  ASSUME NEW w \in Worlds, NEW list \in SUBSET TradeIds, NEW t \in list,
         NEW id \in OrderIds, NEW order \in Orders, bid \in 1..MaxPrice,
         Accepted(w.position, order),
         w.trades[t].stop.refId = id, w.trades[t].stop.orderId = NoId,
         Idle(w.trades[t].entry), Filled(w.trades[t].entry), Idle(w.trades[t].limit),
         \A u \in list : Refers(w.trades[u], id) => u = t
  PROVE  /\ StopFilled(w, ExecIndMarginOrder(w, list, id, order), t, order.quantity)
         /\ ExecIndMarginOrder(w, list, id, order).position = NextPosition(w.position, order)
  <1> DEFINE v     == ExecIndMarginOrder(w, list, id, order)
             r     == w.trades[t]
             price == ExecPrice(w.position, order)
             r1    == OrderSignal(r, Announce(id, "OPENED"))
             r2    == OrderSignal(r1, Execution(id, order, price))
  <1>1. r \in TradeRecords /\ r.stop \in Slots /\ r.stop.state \in States /\ price \in Nat
    BY WorldUpdates, SlotUpdates, PriceTypes DEF Slots
  <1>2. v \in Worlds
    BY ExecIndMarginOrderType
  <1> HIDE DEF r1, r2
  <1>3. /\ Refers(r, id) /\ Refers(r1, id) /\ ~Refers(r2, id)
        /\ Idle(r2.stop) /\ IsClosed(r2)
        /\ r2.entry = r.entry /\ r2.limit = r.limit
        /\ r2.direction = r.direction /\ r2.entryQty = r.entryQty
        /\ r.stop.execQty = 0 /\ order.quantity > 0 => r2.exitQty = r.exitQty + order.quantity
    <2> HIDE DEF price, r
    <2>1. /\ r.stop.refId = id /\ r.stop.orderId = NoId
          /\ Idle(r.entry) /\ Filled(r.entry) /\ Idle(r.limit)
      BY DEF r
    <2> QED
      BY <1>1, <2>1, StopFills DEF r1, r2
  <1>4. OnlyRefers(w, list, t, id)
    BY <1>3 DEF OnlyRefers
  <1>5. /\ v.book = w.book /\ v.trades = [w.trades EXCEPT ![t] = r2]
        /\ v.position = NextPosition(w.position, order)
    <2>1. r1 = OrderSignal(w.trades[t], Announce(id, "OPENED"))
      BY DEF r1
    <2>2. r2 = OrderSignal(r1, Execution(id, order, ExecPrice(w.position, order)))
      BY DEF r2
    <2> HIDE DEF v, r, price
    <2>3. /\ ExecIndMarginOrder(w, list, id, order).book = w.book
          /\ ExecIndMarginOrder(w, list, id, order).trades = [w.trades EXCEPT ![t] = r2]
          /\ ExecIndMarginOrder(w, list, id, order).position = NextPosition(w.position, order)
      BY <1>3, <1>4, <2>1, <2>2, ExecutedOnce
    <2> QED
      BY <2>3 DEF v
  <1> HIDE DEF v
  <1>6. v.trades[t] = r2 /\ \A u \in TradeIds : u # t => v.trades[u] = w.trades[u]
    BY <1>5 DEF Worlds
  <1> QED
    BY <1>2, <1>3, <1>5, <1>6 DEF EntryDone, StopFilled, v

LEMMA SendStopOrderChanges ==
  ASSUME NEW w \in Worlds, NEW list \in SUBSET TradeIds, NEW t \in list,
         NEW id \in OrderIds, NEW closing \in BOOLEAN, bid \in 1..MaxPrice,
         EntryDone(w.trades[t]), \A u \in list : ~Refers(w.trades[u], id)
  PROVE  Changes(w, SendStopOrder(w, list, t, id, closing), t)
  <1> DEFINE trade == w.trades[t]
             qty   == RemainingQty(trade)
             order == [direction |-> -trade.direction, quantity |-> qty, price |-> 0,
                       reduceOnly |-> TRUE]
             slot  == [trade.stop EXCEPT !.refId = id, !.orderedQty = qty, !.closing = closing]
             sent  == [w EXCEPT !.trades[t].stop = slot]
             r     == [trade EXCEPT !.stop = slot]
             v     == ExecIndMarginOrder(sent, list, id, order)
  <1>1. trade \in TradeRecords /\ trade.stop \in Slots /\ qty \in Int /\ t \in TradeIds
    BY WorldUpdates, SlotUpdates
  <1>2. order \in Orders
    BY <1>1 DEF Orders, TradeRecords
  <1>3. /\ slot \in Slots /\ slot.refId = id /\ slot.state \in States
        /\ slot.orderId = trade.stop.orderId
    BY <1>1 DEF Slots, Ids
  <1>4. slot.orderId = NoId
    BY <1>3 DEF EntryDone, Idle
  <1> HIDE DEF order, slot
  <1>5. Clear(slot, slot.state) \in Slots /\ Idle(Clear(slot, slot.state))
    BY <1>3, ClearType, ClearIsIdle
  <1>6. r \in TradeRecords /\ r.stop = slot /\ r.entry = trade.entry /\ r.limit = trade.limit
    BY <1>1, <1>3 DEF TradeRecords
  <1>7. /\ sent \in Worlds /\ sent.trades[t] = r /\ sent.book = w.book
        /\ sent.position = w.position
        /\ \A u \in TradeIds : u # t => sent.trades[u] = w.trades[u]
    BY <1>1, <1>6 DEF Worlds
  <1> HIDE DEF sent, r
  <1>8. CASE Accepted(w.position, order)
    <2>1. /\ sent.trades[t].stop.refId = id /\ sent.trades[t].stop.orderId = NoId
          /\ Idle(sent.trades[t].entry) /\ Filled(sent.trades[t].entry)
          /\ Idle(sent.trades[t].limit)
          /\ \A u \in list : Refers(sent.trades[u], id) => u = t
          /\ Accepted(sent.position, order)
      BY <1>3, <1>4, <1>6, <1>7, <1>8 DEF EntryDone
    <2> HIDE DEF v
    <2>2. /\ v \in Worlds /\ v.book = w.book
          /\ \A u \in TradeIds : u # t => v.trades[u] = w.trades[u]
          /\ EntryDone(v.trades[t]) /\ v.trades[t].entry = trade.entry
      <3>1. StopFilled(sent, v, t, order.quantity)
        BY <1>2, <1>7, <2>1, StopExecuted DEF v
      <3> QED
        BY <1>6, <1>7, <3>1 DEF StopFilled
    <2>6. Changes(w, v, t)
      BY <2>2 DEF Changes
    <2>7. SendStopOrder(w, list, t, id, closing) = v
      BY <1>8 DEF SendStopOrder, sent, order, slot, v
    <2> QED
      BY <2>6, <2>7
  <1>9. CASE ~Accepted(w.position, order)
    <2> DEFINE u  == [sent EXCEPT !.trades[t].stop = Clear(slot, slot.state)]
               r3 == [r EXCEPT !.stop = Clear(slot, slot.state)]
    <2>1. /\ r3 \in TradeRecords /\ r3.stop = Clear(slot, slot.state)
          /\ r3.entry = trade.entry /\ r3.limit = trade.limit
      BY <1>5, <1>6 DEF TradeRecords
    <2>2. /\ u \in Worlds /\ u.book = w.book /\ u.trades[t] = r3
          /\ \A x \in TradeIds : x # t => u.trades[x] = w.trades[x]
      BY <1>1, <1>7, <2>1 DEF Worlds
    <2>3. Changes(w, u, t)
      BY <1>5, <2>1, <2>2 DEF Changes, EntryDone
    <2>4. SendStopOrder(w, list, t, id, closing) = u
      BY <1>9 DEF SendStopOrder, sent, order, slot
    <2> QED
      BY <2>3, <2>4
  <1> QED
    BY <1>8, <1>9

LEMMA CloseChanges ==
  ASSUME NEW w \in Worlds, NEW list \in SUBSET TradeIds, NEW t \in list,
         NEW id \in OrderIds, bid \in 1..MaxPrice,
         EntryDone(w.trades[t]), \A u \in list : ~Refers(w.trades[u], id)
  PROVE  Changes(w, Close(w, list, t, id), t)
  <1>1. CancelLimit(CancelStop(w, t), t) = w
    BY CancelNothing DEF EntryDone
  <1>2. Changes(w, SendStopOrder(w, list, t, id, TRUE), t)
    BY SendStopOrderChanges
  <1> QED
    BY <1>1, <1>2, ChangesNothing DEF Close

LEMMA LevelChanges ==
  ASSUME NEW w \in Worlds, NEW t \in TradeIds, NEW price \in Nat, EntryDone(w.trades[t])
  PROVE  /\ Changes(w, [w EXCEPT !.trades[t].stopLoss = price], t)
         /\ Changes(w, [w EXCEPT !.trades[t].takeProfit = price], t)
  <1> DEFINE r == w.trades[t]
             a == [r EXCEPT !.stopLoss = price]
             b == [r EXCEPT !.takeProfit = price]
  <1>1. r \in TradeRecords
    BY WorldUpdates
  <1>2. /\ a \in TradeRecords /\ a.entry = r.entry /\ a.limit = r.limit /\ a.stop = r.stop
        /\ b \in TradeRecords /\ b.entry = r.entry /\ b.limit = r.limit /\ b.stop = r.stop
    BY <1>1 DEF TradeRecords
  <1> HIDE DEF a, b
  <1>3. EntryDone(a) /\ EntryDone(b)
    BY <1>2 DEF EntryDone
  <1>4. Changes(w, [w EXCEPT !.trades[t] = a], t) /\ Changes(w, [w EXCEPT !.trades[t] = b], t)
    BY <1>2, <1>3 DEF Changes, Worlds
  <1> QED
    BY <1>4 DEF a, b

LEMMA ModifyStopLossChanges ==
  ASSUME NEW w \in Worlds, NEW list \in SUBSET TradeIds, NEW t \in list,
         NEW id \in OrderIds, NEW price \in Nat, NEW mod, mod # "DISTANT",
         EntryDone(w.trades[t])
  PROVE  Changes(w, ModifyStopLoss(w, list, t, id, price, mod), t)
  <1>1. CancelStop(w, t) = w /\ Effective(w.trades[t].stop, mod) # "DISTANT"
    BY CancelNothing DEF EntryDone, Effective, HasOrder, Idle
  <1> QED
    BY <1>1, ChangesNothing, LevelChanges DEF ModifyStopLoss

LEMMA ModifyTakeProfitChanges ==
  ASSUME NEW w \in Worlds, NEW list \in SUBSET TradeIds, NEW t \in list,
         NEW id \in OrderIds, NEW price \in Nat, NEW mod, mod # "DISTANT",
         EntryDone(w.trades[t])
  PROVE  Changes(w, ModifyTakeProfit(w, list, t, id, price, mod), t)
  <1>1. CancelLimit(w, t) = w /\ Effective(w.trades[t].limit, mod) # "DISTANT"
    BY CancelNothing DEF EntryDone, Effective, HasOrder, Idle
  <1> QED
    BY <1>1, ChangesNothing, LevelChanges DEF ModifyTakeProfit

LEMMA OneUpdateChanges ==
  ASSUME NoDistant, NEW w \in Worlds, listed \in SUBSET TradeIds, NEW t \in listed,
         EntryDone(w.trades[t]), NEW v \in OneUpdate(w, t)
  PROVE  Changes(w, v, t)
  <1>1. CASE v = w
    BY <1>1, ChangesNothing
  <1>2. ASSUME NEW a \in NewIds(w) \X Levels \X StopMods,
               v = ModifyStopLoss(w, listed, t, a[1], a[2], a[3])
        PROVE  Changes(w, v, t)
    <2>1. a[1] \in OrderIds /\ a[2] \in Nat /\ a[3] # "DISTANT"
      BY FreshIdsType, PaperAssumption DEF NoDistant
    <2> QED
      BY <1>2, <2>1, ModifyStopLossChanges
  <1>3. ASSUME NEW a \in NewIds(w) \X Levels \X ProfitMods,
               v = ModifyTakeProfit(w, listed, t, a[1], a[2], a[3])
        PROVE  Changes(w, v, t)
    <2>1. a[1] \in OrderIds /\ a[2] \in Nat /\ a[3] # "DISTANT"
      BY FreshIdsType, PaperAssumption DEF NoDistant
    <2> QED
      BY <1>3, <2>1, ModifyTakeProfitChanges
  <1> QED
    BY <1>1, <1>2, <1>3 DEF OneUpdate

LEMMA UpdatesChange ==
  ASSUME NoDistant, NEW w \in Worlds, listed \in SUBSET TradeIds, NEW t \in listed,
         EntryDone(w.trades[t]), NEW v \in Updates(w, t)
  PROVE  Changes(w, v, t)
  <1>1. PICK u \in OneUpdate(w, t) : v \in OneUpdate(u, t)
    BY DEF Updates
  <1>2. Changes(w, u, t)
    BY OneUpdateChanges
  <1>3. Changes(u, v, t)
    BY <1>1, <1>2, OneUpdateChanges DEF Changes
  <1> QED
    BY <1>2, <1>3, ChangesTransitive

-----------------------------------------------------------------------------
(* The life of an entry order.                                             *)

(* A trade whose entry order is not executed, and what is left when it is. *)
EntryAwaits(r, id) ==
  /\ r.entry.refId = id /\ r.entry.orderId \in {NoId, id}
  /\ r.entry.state = "UNDEFINED" /\ Idle(r.limit) /\ Idle(r.stop)
Entered(w, v, t, order) ==
  /\ v \in Worlds /\ v.book = w.book
  /\ \A u \in TradeIds : u # t => v.trades[u] = w.trades[u]
  /\ EntryDone(v.trades[t]) /\ v.position = NextPosition(w.position, order)
  /\ v.trades[t].limit = w.trades[t].limit /\ v.trades[t].stop = w.trades[t].stop
  /\ v.trades[t].direction = w.trades[t].direction
  /\ v.trades[t].exitQty = w.trades[t].exitQty
  /\ order.quantity > 0 => v.trades[t].entryQty = order.quantity

(* The connector executes the entry of t: as it is sent, or from the book. *)
LEMMA EntryExecuted ==
  ASSUME NEW w \in Worlds, NEW list \in SUBSET TradeIds, NEW t \in list,
         NEW id \in OrderIds, NEW order \in Orders, ~order.reduceOnly, bid \in 1..MaxPrice,
         EntryAwaits(w.trades[t], id), \A u \in list : Refers(w.trades[u], id) => u = t
  PROVE  Entered(w, ExecIndMarginOrder(w, list, id, order), t, order)
  <1> DEFINE r     == w.trades[t]
             price == ExecPrice(w.position, order)
             r1    == OrderSignal(r, Announce(id, "OPENED"))
             r2    == OrderSignal(r1, Execution(id, order, price))
             v     == ExecIndMarginOrder(w, list, id, order)
  <1>1. r \in TradeRecords /\ price \in Nat /\ Accepted(w.position, order)
    BY WorldUpdates, PriceTypes DEF Accepted
  <1>2. v \in Worlds
    BY ExecIndMarginOrderType
  <1> HIDE DEF r1, r2
  <1>3. /\ Refers(r, id) /\ Refers(r1, id) /\ ~Refers(r2, id)
        /\ Idle(r2.entry) /\ Filled(r2.entry)
        /\ r2.limit = r.limit /\ r2.stop = r.stop
        /\ r2.direction = r.direction /\ r2.exitQty = r.exitQty
        /\ order.quantity > 0 => r2.entryQty = order.quantity
    <2> HIDE DEF price, r
    <2>1. /\ r.entry.refId = id /\ r.entry.orderId \in {NoId, id}
          /\ r.entry.state = "UNDEFINED" /\ Idle(r.limit) /\ Idle(r.stop)
      BY DEF r, EntryAwaits
    <2> QED
      BY <1>1, <2>1, EntryFills DEF r1, r2
  <1>4. OnlyRefers(w, list, t, id)
    BY <1>3 DEF OnlyRefers
  <1>5. /\ v.book = w.book /\ v.trades = [w.trades EXCEPT ![t] = r2]
        /\ v.position = NextPosition(w.position, order)
    BY <1>1, <1>3, <1>4, ExecutedOnce DEF r1, r2
  <1> HIDE DEF v
  <1>6. v.trades[t] = r2 /\ \A u \in TradeIds : u # t => v.trades[u] = w.trades[u]
    BY <1>5 DEF Worlds
  <1>7. /\ v.trades[t].limit = r.limit /\ v.trades[t].stop = r.stop
        /\ v.trades[t].direction = r.direction /\ v.trades[t].exitQty = r.exitQty
        /\ order.quantity > 0 => v.trades[t].entryQty = order.quantity
    <2> HIDE DEF r
    <2> QED
      BY <1>3, <1>6
  <1>8. EntryDone(v.trades[t])
    <2>1. Idle(v.trades[t].stop) /\ Idle(v.trades[t].limit)
      <3>1. Idle(r.stop) /\ Idle(r.limit)
        BY DEF EntryAwaits
      <3> HIDE DEF r
      <3> QED
        BY <3>1, <1>7
    <2> HIDE DEF r
    <2> QED
      BY <1>3, <1>6, <2>1 DEF EntryDone
  <1>9. /\ v \in Worlds /\ v.book = w.book /\ v.position = NextPosition(w.position, order)
        /\ \A u \in TradeIds : u # t => v.trades[u] = w.trades[u]
    BY <1>2, <1>5, <1>6
  <1>10. Entered(w, v, t, order)
    BY <1>7, <1>8, <1>9 DEF Entered
  <1> QED
    BY <1>10 DEF v

(* The connector keeps the entry of t until the market reaches its price.  *)
Accepts(w, v, t, id, order) ==
  /\ v \in Worlds /\ v.book = [w.book EXCEPT ![id] = order]
  /\ v.trades = [w.trades EXCEPT ![t] = [w.trades[t] EXCEPT !.entry.orderId = id]]

LEMMA EntryRests ==
  ASSUME NEW w \in Worlds, NEW list \in SUBSET TradeIds, NEW t \in list,
         NEW id \in OrderIds, NEW order \in Orders,
         EntryAwaits(w.trades[t], id), \A u \in list : Refers(w.trades[u], id) => u = t
  PROVE  Accepts(w, RestOrder(w, list, id, order), t, id, order)
  <1> DEFINE r      == w.trades[t]
             opened == Announce(id, "OPENED")
             b      == [w EXCEPT !.book[id] = order]
             entry  == [r.entry EXCEPT !.orderId = id]
  <1>a. /\ r.entry.refId = id /\ r.entry.state = "UNDEFINED" /\ r.entry.orderId \in {NoId, id}
    BY DEF EntryAwaits
  <1>1. r \in TradeRecords /\ r.entry \in Slots /\ id # NoId
    BY WorldUpdates, SlotUpdates, NoIdAssumption
  <1>2. b \in Worlds /\ b.trades = w.trades /\ b.book = [w.book EXCEPT ![id] = order]
    BY DEF Worlds, Books
  <1>3. Carries(opened, id) /\ opened.event = "OPENED" /\ opened.refId = id /\ opened.orderId = id
    BY SignalTypes DEF Carries, Announce, Events
  <1> HIDE DEF b, opened
  <1>4. Refers(r, id)
    BY <1>a DEF Refers
  <1>5. OnlyRefers(b, list, t, id)
    BY <1>2, <1>4 DEF OnlyRefers
  <1>6. Deliver(b, list, opened) = With(b, t, OrderSignal(b.trades[t], opened))
    BY <1>2, <1>3, <1>5, DeliverOne
  <1>7. Acknowledge(r.entry, opened) = entry
    BY <1>a, <1>1, <1>3 DEF Acknowledge, Slots
  <1>8. Untraded(entry, opened) = entry
    BY <1>a, <1>1, <1>3 DEF Untraded, Slots
  <1>9. OrderSignal(r, opened) = [r EXCEPT !.entry = entry]
    BY <1>a, <1>1, <1>3, <1>7, <1>8 DEF OrderSignal, Targets, EntrySignal
  <1>10. RestOrder(w, list, id, order) = With(b, t, [r EXCEPT !.entry = entry])
    BY <1>2, <1>6, <1>9 DEF RestOrder, b, opened
  <1>11. [r EXCEPT !.entry = entry] \in TradeRecords
    BY <1>1 DEF TradeRecords, Slots, Ids
  <1>12. /\ With(b, t, [r EXCEPT !.entry = entry]) \in Worlds
         /\ With(b, t, [r EXCEPT !.entry = entry]).book = b.book
         /\ With(b, t, [r EXCEPT !.entry = entry]).trades
              = [b.trades EXCEPT ![t] = [r EXCEPT !.entry = entry]]
    BY <1>2, <1>11, WorldUpdates DEF With, Worlds
  <1> QED
    BY <1>2, <1>10, <1>12 DEF Accepts

LEMMA NewTradeIdle ==
  ASSUME NEW id \in OrderIds, NEW s \in EntrySignals, NEW qty \in Quantities
  PROVE  /\ Idle(NewTrade(id, s, qty).stop) /\ Idle(NewTrade(id, s, qty).limit)
         /\ NewTrade(id, s, qty).entry.refId = id
         /\ NewTrade(id, s, qty).entry.orderId = NoId
         /\ NewTrade(id, s, qty).entry.state = "UNDEFINED"
         /\ ~IsClosed(NewTrade(id, s, qty))
         /\ ~EntryOrder(s, qty).reduceOnly /\ EntryOrder(s, qty) # NoOrder
  <1>1. qty # 0
    BY PaperAssumption
  <1> QED
    BY <1>1 DEF NewTrade, EntryOrder, NoOrder, ResetSlot, Idle, IsClosed, Filled

LEMMA OpenOwned ==
  ASSUME NEW w \in Worlds, NEW list \in SUBSET TradeIds, NEW t \in TradeIds \ list,
         NEW id \in FreshIds(w), NEW s \in EntrySignals, NEW qty \in Quantities,
         bid \in 1..MaxPrice, EntriesOwned(w, list)
  PROVE  /\ EntriesOwned(Open(w, list \cup {t}, t, id, s, qty), list \cup {t})
         /\ \A u \in list : Open(w, list \cup {t}, t, id, s, qty).trades[u] = w.trades[u]
  <1> DEFINE all   == list \cup {t}
             r     == NewTrade(id, s, qty)
             order == EntryOrder(s, qty)
             w1    == [w EXCEPT !.trades[t] = r]
             v     == Open(w, all, t, id, s, qty)
  <1>1. /\ id \in OrderIds /\ ~Resting(w, id) /\ id # NoId
        /\ \A u \in TradeIds : ~Refers(w.trades[u], id)
        /\ \A u \in TradeIds : w.trades[u].entry.orderId # id
    BY NoIdAssumption DEF FreshIds, Refers
  <1>2. r \in TradeRecords /\ order \in Orders
    BY <1>1, EntryRecords
  <1>3. /\ Idle(r.stop) /\ Idle(r.limit) /\ r.entry.refId = id /\ r.entry.orderId = NoId
        /\ r.entry.state = "UNDEFINED" /\ ~IsClosed(r)
        /\ ~order.reduceOnly /\ order # NoOrder
    BY <1>1, NewTradeIdle
  <1> HIDE DEF r, order
  <1>4. /\ w1 \in Worlds /\ w1.trades[t] = r /\ w1.book = w.book
        /\ \A u \in TradeIds : u # t => w1.trades[u] = w.trades[u]
    BY <1>2 DEF Worlds
  <1> HIDE DEF w1
  <1>5. /\ all \in SUBSET TradeIds /\ t \in all /\ t \in TradeIds
        /\ \A u \in all : u = t \/ u \in list
        /\ \A u \in all : Refers(w1.trades[u], id) => u = t
    BY <1>1, <1>4
  <1>6. CASE s.orderType = "MARKET"
    <2>1. v = ExecIndMarginOrder(w1, all, id, order)
      BY <1>6 DEF Open, r, order, w1
    <2>2. /\ v \in Worlds /\ v.book = w1.book
          /\ \A u \in TradeIds : u # t => v.trades[u] = w1.trades[u]
          /\ EntryDone(v.trades[t])
      <3>1. EntryAwaits(w1.trades[t], id)
        BY <1>3, <1>4 DEF EntryAwaits
      <3> HIDE DEF all, v
      <3>2. Entered(w1, v, t, order)
        BY <1>1, <1>2, <1>3, <1>4, <1>5, <2>1, <3>1, EntryExecuted, Zenon
      <3> QED
        BY <3>2 DEF Entered
    <2> HIDE DEF v
    <2>3. \A u \in list : v.trades[u] = w.trades[u]
      BY <1>4, <2>2
    <2>4. v.book = w.book /\ v.trades[t].entry.orderId = NoId
      BY <1>4, <2>2 DEF EntryDone, Idle
    <2>5. \A u \in all : LocalExits(v, v.trades[u])
      BY <2>2, <2>3, <2>4, LocalByBook, EntryDoneIsLocal DEF EntriesOwned
    <2>6. \A x \in OrderIds : Resting(v, x) => \E u \in all : v.trades[u].entry.orderId = x
      BY <2>3, <2>4 DEF EntriesOwned, Resting
    <2>7. EntriesOwned(v, all)
      <3> HIDE DEF all
      <3> QED
        BY <1>5, <2>3, <2>4, <2>5, <2>6 DEF EntriesOwned
    <2> QED
      BY <2>3, <2>7 DEF v
  <1>7. CASE s.orderType # "MARKET"
    <2>1. v = RestOrder(w1, all, id, order)
      BY <1>7 DEF Open, r, order, w1
    <2>2. /\ v \in Worlds /\ v.book = [w1.book EXCEPT ![id] = order]
          /\ v.trades = [w1.trades EXCEPT ![t] = [w1.trades[t] EXCEPT !.entry.orderId = id]]
      <3>1. EntryAwaits(w1.trades[t], id)
        BY <1>3, <1>4 DEF EntryAwaits
      <3> HIDE DEF all, v
      <3>2. Accepts(w1, v, t, id, order)
        BY <1>1, <1>2, <1>4, <1>5, <2>1, <3>1, EntryRests, Zenon
      <3> QED
        BY <3>2 DEF Accepts
    <2> HIDE DEF v
    <2> DEFINE r2 == [r EXCEPT !.entry.orderId = id]
    <2>3. /\ v.trades[t] = r2 /\ v.book[id] = order
          /\ \A x \in OrderIds : x # id => v.book[x] = w.book[x]
      BY <1>1, <1>4, <2>2 DEF Worlds, Books
    <2>4. \A u \in list : v.trades[u] = w.trades[u]
      BY <1>4, <2>2 DEF Worlds
    <2>5. /\ r2.entry.orderId = id /\ r2.entry.refId = id /\ r2.entry.state = "UNDEFINED"
          /\ r2.stop = r.stop /\ r2.limit = r.limit
      BY <1>2, <1>3 DEF TradeRecords, Slots
    <2> HIDE DEF r2
    <2>6. LocalExits(v, v.trades[t])
      BY <1>1, <1>3, <2>3, <2>5 DEF LocalExits, Resting, IsClosed
    <2>7. \A x \in OrderIds : Resting(v, x) <=> x = id \/ Resting(w, x)
      BY <1>1, <1>3, <2>3 DEF Resting
    <2>8. \A u \in list : LocalExits(v, v.trades[u])
      <3> SUFFICES ASSUME NEW u \in list PROVE LocalExits(v, v.trades[u])
        OBVIOUS
      <3>1. LocalExits(w, w.trades[u]) /\ v.trades[u] = w.trades[u]
        BY <2>4 DEF EntriesOwned
      <3>2. w.trades[u].entry.orderId # id
        BY <1>1
      <3> QED
        BY <2>3, <2>7, <3>1, <3>2 DEF LocalExits, Resting
    <2>9. \A x \in OrderIds : Resting(v, x) => \E u \in all : v.trades[u].entry.orderId = x
      BY <2>3, <2>4, <2>5, <2>7 DEF EntriesOwned
    <2>10. \A u \in list : v.trades[u].entry.orderId # v.trades[t].entry.orderId
      BY <1>1, <2>3, <2>4, <2>5
    <2>11. EntriesOwned(v, all)
      <3> HIDE DEF all
      <3> QED
        BY <1>5, <2>4, <2>6, <2>8, <2>9, <2>10 DEF EntriesOwned
    <2> QED
      BY <2>4, <2>11 DEF v
  <1> QED
    BY <1>6, <1>7

LEMMA ExecutedOwned ==
  ASSUME NEW w \in Worlds, NEW list \in SUBSET TradeIds, NEW id \in OrderIds,
         Resting(w, id), bid \in 1..MaxPrice, EntriesOwned(w, list),
         NEW v, v = ExecIndMarginOrder([w EXCEPT !.book[id] = NoOrder], list, id, w.book[id])
  PROVE  /\ EntriesOwned(v, list) /\ v \in Worlds
         /\ \A u \in list : IsClosed(w.trades[u]) => v.trades[u] = w.trades[u]
         /\ \A x \in OrderIds : x # id => v.book[x] = w.book[x]
  <1> DEFINE w1 == [w EXCEPT !.book[id] = NoOrder]
             order == w.book[id]
  <1>1. order \in Orders
    <2>1. NoOrder \in Orders
      BY DEF NoOrder, Orders
    <2> QED
      BY <2>1 DEF Worlds, Books
  <1>2. PICK t \in list : w.trades[t].entry.orderId = id
    BY DEF EntriesOwned
  <1>3. id # NoId
    BY NoIdAssumption
  <1>4. /\ Idle(w.trades[t].stop) /\ Idle(w.trades[t].limit)
        /\ w.trades[t].entry.refId = id /\ w.trades[t].entry.state = "UNDEFINED"
        /\ ~IsClosed(w.trades[t]) /\ ~order.reduceOnly
    BY <1>2, <1>3 DEF EntriesOwned, LocalExits, Idle
  <1>5. \A u \in list : Refers(w.trades[u], id) => u = t
    <2> SUFFICES ASSUME NEW u \in list, Refers(w.trades[u], id) PROVE u = t
      OBVIOUS
    <2>1. LocalExits(w, w.trades[u]) /\ w.trades[u] \in TradeRecords
      BY WorldUpdates DEF EntriesOwned
    <2>2. w.trades[u].entry.orderId = id
      BY <2>1, RefersByOne DEF LocalExits
    <2> QED
      BY <1>2, <1>3, <2>2 DEF EntriesOwned
  <1>6. /\ w1 \in Worlds /\ w1.trades = w.trades /\ w1.book = [w.book EXCEPT ![id] = NoOrder]
    BY DEF Worlds, Books
  <1> HIDE DEF w1, order
  <1>7. v = ExecIndMarginOrder(w1, list, id, order)
    BY DEF w1, order
  <1>8. /\ v \in Worlds /\ v.book = w1.book
        /\ \A u \in TradeIds : u # t => v.trades[u] = w.trades[u]
        /\ EntryDone(v.trades[t])
    <2>1. EntryAwaits(w1.trades[t], id) /\ \A u \in list : Refers(w1.trades[u], id) => u = t
      BY <1>2, <1>4, <1>5, <1>6 DEF EntryAwaits
    <2>2. order \in Orders /\ ~order.reduceOnly /\ w1 \in Worlds
      BY <1>1, <1>4, <1>6
    <2>3. Entered(w1, v, t, order)
      BY <1>7, <2>1, <2>2, EntryExecuted, Zenon
    <2> QED
      BY <1>6, <2>3 DEF Entered
  <1>9. \A x \in OrderIds : x # id => v.book[x] = w.book[x]
    BY <1>6, <1>8 DEF Worlds, Books
  <1>10. \A x \in OrderIds : Resting(v, x) <=> x # id /\ Resting(w, x)
    BY <1>6, <1>8, <1>9 DEF Resting, Worlds, Books
  <1>11. \A u \in list : LocalExits(v, v.trades[u])
    <2> SUFFICES ASSUME NEW u \in list PROVE LocalExits(v, v.trades[u])
      OBVIOUS
    <2>1. CASE u = t
      BY <1>8, <2>1, EntryDoneIsLocal
    <2>2. CASE u # t
      <3>1. LocalExits(w, w.trades[u]) /\ v.trades[u] = w.trades[u]
        BY <1>8, <2>2 DEF EntriesOwned
      <3>2. w.trades[u].entry.orderId # id
        BY <1>2, <1>3, <2>2 DEF EntriesOwned
      <3> QED
        BY <1>9, <1>10, <3>1, <3>2 DEF LocalExits, Resting
    <2> QED
      BY <2>1, <2>2
  <1>12. v.trades[t].entry.orderId = NoId
    BY <1>8 DEF EntryDone, Idle
  <1>13. ASSUME NEW x \in OrderIds, Resting(v, x) PROVE \E u \in list : v.trades[u].entry.orderId = x
    <2>1. PICK u \in list : w.trades[u].entry.orderId = x
      BY <1>10, <1>13 DEF EntriesOwned
    <2>2. u # t
      BY <1>2, <1>10, <1>13, <2>1
    <2> QED
      BY <1>8, <2>1, <2>2
  <1>14. \A u, x \in list : v.trades[u].entry.orderId = v.trades[x].entry.orderId
           => u = x \/ v.trades[u].entry.orderId = NoId
    BY <1>8, <1>12 DEF EntriesOwned
  <1> QED
    BY <1>4, <1>8, <1>9, <1>11, <1>13, <1>14 DEF EntriesOwned

-----------------------------------------------------------------------------
(* The inductive invariant.  update() visits orders that still rest: the   *)
(* execution of one does not remove another.                               *)

TodoResting == phase = "update" => \A id \in todo : id \in OrderIds /\ Resting(World, id)

LInv == TInv /\ EntriesRest /\ TodoResting

LEMMA BecomeWorld ==
  ASSUME NEW w \in Worlds, Become(w) PROVE World' = w
  BY DEF Worlds, Become, World

LEMMA LInvInit == Init => LInv
  <1> SUFFICES ASSUME Init PROVE LInv
    OBVIOUS
  <1>1. TInv
    BY TInvInit
  <1>2. \A id \in OrderIds : ~Resting(World, id)
    BY DEF Init, Resting, World
  <1> QED
    BY <1>1, <1>2 DEF LInv, EntriesRest, EntriesOwned, TodoResting, Init

(* The steps of the loop that leave the trades and the connector alone.    *)
LEMMA LInvQuiet ==
  ASSUME LInv, TInv', UNCHANGED <<trades, listed, book, position, removed>>,
         phase' = "update" => /\ phase = "update" /\ todo' = todo
                              \/ todo' = RestingIds(World)
  PROVE  LInv'
  <1>1. World' = World
    BY DEF World
  <1>2. EntriesRest'
    BY <1>1 DEF LInv, EntriesRest, EntriesOwned, LocalExits, Resting
  <1>3. TodoResting'
    BY <1>1 DEF LInv, TodoResting, RestingIds, Resting
  <1> QED
    BY <1>2, <1>3 DEF LInv

(* The steps that change a trade whose entry is filled.                    *)
LEMMA LInvChanges ==
  ASSUME LInv, TInv', NEW t \in listed, NEW w, w = World \/ Changes(World, w, t),
         Become(w), listed' = listed, removed' \subseteq removed \cup {t},
         t \in removed' => IsClosed(w.trades[t]), phase' # "update"
  PROVE  LInv'
  <1>1. World \in Worlds /\ listed \in SUBSET TradeIds /\ removed \subseteq listed
    BY WorldType DEF LInv, TInv, TypeOK
  <1>2. w \in Worlds /\ EntriesOwned(w, listed)
    BY <1>1, ChangesOwned DEF LInv, EntriesRest, Changes
  <1>3. World' = w /\ trades' = w.trades
    BY <1>2, BecomeWorld DEF Become
  <1>4. EntriesOwned(World, listed)'
    BY <1>2, <1>3 DEF EntriesOwned, LocalExits, Resting
  <1>5. ASSUME NEW u \in removed' PROVE IsClosed(trades'[u])
    <2>1. CASE u = t
      BY <1>3, <1>5, <2>1
    <2>2. CASE u # t
      <3>1. w.trades[u] = trades[u] /\ u \in removed
        BY <1>1, <1>5, <2>2 DEF Changes, World
      <3> QED
        BY <1>3, <3>1 DEF LInv, EntriesRest
    <2> QED
      BY <2>1, <2>2
  <1> QED
    BY <1>4, <1>5 DEF LInv, EntriesRest, TodoResting, IsClosed

LEMMA LInvClose ==
  ASSUME LInv, TInv', NEW t \in TradeIds, CloseOpposite(t)
  PROVE  LInv'
  <1>1. PICK id \in NewIds(World) :
          Become(IF IsActive(trades[t]) THEN Close(World, listed, t, id)
                                        ELSE CancelOpen(World, t))
    BY DEF CloseOpposite
  <1>2. /\ World \in Worlds /\ listed \in SUBSET TradeIds /\ bid \in 1..MaxPrice
        /\ t \in listed /\ World.trades = trades /\ removed \subseteq listed
    BY WorldType DEF LInv, TInv, TypeOK, TodoListed, CloseOpposite, World
  <1>3. LocalExits(World, trades[t])
    BY <1>2 DEF LInv, EntriesRest, EntriesOwned
  <1>4. id \in OrderIds /\ \A u \in listed : ~Refers(World.trades[u], id)
    BY <1>2, NewIdsAreFresh DEF FreshIds
  <1>5. /\ listed' = listed /\ removed' = removed /\ phase' # "update"
    BY DEF CloseOpposite
  <1>6. CASE IsActive(trades[t])
    <2>1. Changes(World, Close(World, listed, t, id), t)
      BY <1>2, <1>3, <1>4, <1>6, EntryDoneLocal, CloseChanges
    <2>2. t \notin removed
      BY <1>6 DEF LInv, EntriesRest, IsActive
    <2> QED
      BY <1>1, <1>2, <1>5, <1>6, <2>1, <2>2, LInvChanges
  <1>7. CASE ~IsActive(trades[t])
    <2>1. CancelOpen(World, t) = World
      BY <1>2, <1>3, CancelNothing DEF LocalExits, Filled
    <2>2. t \in removed => IsClosed(World.trades[t])
      BY <1>2 DEF LInv, EntriesRest
    <2> QED
      BY <1>1, <1>2, <1>5, <1>7, <2>1, <2>2, LInvChanges
  <1> QED
    BY <1>6, <1>7

LEMMA LInvProcess ==
  ASSUME NoDistant, LInv, TInv', NEW t \in TradeIds, ProcessTrade(t)
  PROVE  LInv'
  <1> DEFINE Processed(updated, id) ==
               IF IsActive(trades[t]) /\ Triggered(updated.trades[t])
               THEN Close(updated, listed, t, id) ELSE updated
             Expired(updated, id, late) ==
               IF late THEN CancelOpen(Processed(updated, id), t) ELSE Processed(updated, id)
             Step(v) ==
               /\ Become(v)
               /\ removed' = IF CanDelete(v.trades[t]) THEN removed \cup {t} ELSE removed
  <1>0. PICK updated \in IF IsActive(trades[t]) THEN Updates(World, t) ELSE {World} :
          \E id \in NewIds(updated), late \in BOOLEAN : Step(Expired(updated, id, late))
    BY DEF ProcessTrade
  <1>1. PICK id \in NewIds(updated), late \in BOOLEAN : Step(Expired(updated, id, late))
    BY <1>0
  <1> DEFINE w == Processed(updated, id)
  <1>2. /\ World \in Worlds /\ listed \in SUBSET TradeIds /\ bid \in 1..MaxPrice
        /\ t \in listed /\ World.trades = trades /\ removed \subseteq listed
    BY WorldType DEF LInv, TInv, TypeOK, TodoListed, ProcessTrade, World
  <1>3. LocalExits(World, trades[t])
    BY <1>2 DEF LInv, EntriesRest, EntriesOwned
  <1>4. id \in OrderIds /\ \A u \in listed : ~Refers(updated.trades[u], id)
    BY <1>2, NewIdsAreFresh DEF FreshIds
  <1>5. w = World \/ (Changes(World, w, t) /\ IsActive(trades[t]))
    <2>1. CASE IsActive(trades[t])
      <3>1. EntryDone(World.trades[t])
        BY <1>2, <1>3, <2>1, EntryDoneLocal
      <3>2. Changes(World, updated, t)
        BY <1>0, <1>2, <2>1, <3>1, UpdatesChange
      <3>3. Changes(updated, Close(updated, listed, t, id), t)
        BY <1>2, <1>4, <3>2, CloseChanges DEF Changes
      <3> QED
        BY <1>2, <2>1, <3>2, <3>3, ChangesTransitive
    <2>2. CASE ~IsActive(trades[t])
      BY <1>0, <2>2
    <2> QED
      BY <2>1, <2>2
  <1> HIDE DEF w
  <1>6. w.trades[t].entry = trades[t].entry /\ w \in Worlds
    BY <1>2, <1>5 DEF Changes
  <1>7. CancelOpen(w, t) = w
    BY <1>2, <1>3, <1>6, CancelNothing DEF LocalExits, Filled
  <1>8. Become(w) /\ removed' = IF CanDelete(w.trades[t]) THEN removed \cup {t} ELSE removed
    BY <1>1, <1>7 DEF w
  <1>9. ~IsCanceled(w.trades[t])
    BY <1>3, <1>6 DEF LocalExits, IsCanceled, Filled
  <1>10. t \in removed' => IsClosed(w.trades[t])
    <2>1. CASE CanDelete(w.trades[t])
      BY <1>9, <2>1 DEF CanDelete
    <2>2. CASE ~CanDelete(w.trades[t])
      <3> SUFFICES ASSUME t \in removed PROVE IsClosed(w.trades[t])
        BY <1>8, <2>2
      <3>1. IsClosed(trades[t])
        BY DEF LInv, EntriesRest
      <3> QED
        BY <1>2, <1>5, <3>1 DEF IsActive
    <2> QED
      BY <2>1, <2>2
  <1>11. listed' = listed /\ phase' # "update"
    BY DEF ProcessTrade
  <1> QED
    BY <1>2, <1>5, <1>8, <1>10, <1>11, LInvChanges

LEMMA LInvPurge == ASSUME LInv, TInv', PurgeTrades PROVE LInv'
  <1>1. /\ World \in Worlds /\ listed \in SUBSET TradeIds /\ removed \subseteq listed
        /\ World.trades = trades /\ World.book = book
    BY WorldType DEF LInv, TInv, TypeOK, World
  <1>2. /\ listed' = listed \ removed /\ removed' = {} /\ phase' = "entry"
        /\ \A u \in listed' : trades'[u] = trades[u]
        /\ World'.trades = trades' /\ World'.book = book
    BY <1>1 DEF PurgeTrades, World
  <1>3. \A u \in removed : trades[u].entry.orderId = NoId
    BY <1>1, EntryDoneLocal DEF LInv, EntriesRest, EntriesOwned, EntryDone, Idle
  <1>4. \A id \in OrderIds : Resting(World', id) <=> Resting(World, id)
    BY <1>1, <1>2 DEF Resting
  <1>5. \A u \in listed' : LocalExits(World', trades'[u])
    BY <1>1, <1>2, LocalByBook DEF LInv, EntriesRest, EntriesOwned
  <1>6. ASSUME NEW id \in OrderIds, Resting(World', id)
        PROVE  \E u \in listed' : trades'[u].entry.orderId = id
    <2>1. PICK u \in listed : trades[u].entry.orderId = id
      BY <1>1, <1>4, <1>6 DEF LInv, EntriesRest, EntriesOwned
    <2>2. u \notin removed
      BY <1>3, <2>1, NoIdAssumption
    <2> QED
      BY <1>2, <2>1, <2>2
  <1>7. \A u, x \in listed' : trades'[u].entry.orderId = trades'[x].entry.orderId
          => u = x \/ trades'[u].entry.orderId = NoId
    BY <1>1, <1>2 DEF LInv, EntriesRest, EntriesOwned
  <1>8. EntriesOwned(World', listed')
    BY <1>2, <1>5, <1>6, <1>7 DEF EntriesOwned
  <1>9. EntriesOwned(World, listed)'
    BY <1>8 DEF EntriesOwned, LocalExits, Resting
  <1> QED
    BY <1>2, <1>9 DEF LInv, EntriesRest, TodoResting

LEMMA LInvEntry == ASSUME LInv, TInv', OrderEntry PROVE LInv'
  <1>1. PICK t \in TradeIds \ listed, id \in NewIds(World), qty \in Quantities :
          /\ Become(Open(World, listed \cup {t}, t, id, signal, qty))
          /\ listed' = listed \cup {t}
          /\ todo' = RestingIds(Open(World, listed \cup {t}, t, id, signal, qty))
    BY DEF OrderEntry
  <1> DEFINE w == Open(World, listed \cup {t}, t, id, signal, qty)
  <1>2. /\ World \in Worlds /\ listed \in SUBSET TradeIds /\ bid \in 1..MaxPrice
        /\ World.trades = trades /\ removed \subseteq listed
        /\ signal \in EntrySignals /\ id \in FreshIds(World) /\ id \in OrderIds
        /\ EntriesOwned(World, listed)
    BY WorldType, NewIdsAreFresh, FreshIdsType
       DEF LInv, TInv, TypeOK, World, OrderEntry, DoOrder, EntriesRest
  <1>3. /\ EntriesOwned(w, listed \cup {t})
        /\ \A u \in listed : w.trades[u] = trades[u]
    BY <1>2, OpenOwned
  <1>4. w \in Worlds
    BY <1>2, OpenType
  <1> HIDE DEF w
  <1>5. World' = w /\ trades' = w.trades
    BY <1>1, <1>4, BecomeWorld DEF w, Become
  <1>6. EntriesOwned(World, listed)'
    BY <1>1, <1>3, <1>5 DEF EntriesOwned, LocalExits, Resting
  <1>7. removed' = removed /\ \A u \in removed : IsClosed(trades'[u])
    BY <1>2, <1>3, <1>5 DEF OrderEntry, LInv, EntriesRest
  <1>8. TodoResting'
    BY <1>1, <1>5 DEF TodoResting, RestingIds, Resting, w
  <1> QED
    BY <1>6, <1>7, <1>8 DEF LInv, EntriesRest, IsClosed

LEMMA LInvUpdate ==
  ASSUME LInv, TInv', NEW id \in OrderIds, UpdateOrder(id) PROVE LInv'
  <1>1. /\ World \in Worlds /\ listed \in SUBSET TradeIds /\ bid \in 1..MaxPrice
        /\ World.trades = trades /\ World.book = book /\ removed \subseteq listed
        /\ EntriesOwned(World, listed) /\ Resting(World, id)
    BY WorldType DEF LInv, TInv, TypeOK, World, EntriesRest, TodoResting, UpdateOrder
  <1>2. CASE LimitReached(book[id])
    <2> DEFINE w == ExecIndMarginOrder([World EXCEPT !.book[id] = NoOrder], listed, id, book[id])
    <2>1. /\ EntriesOwned(w, listed) /\ w \in Worlds
          /\ \A u \in listed : IsClosed(trades[u]) => w.trades[u] = trades[u]
          /\ \A x \in OrderIds : x # id => w.book[x] = book[x]
      BY <1>1, ExecutedOwned
    <2>2. Become(w) /\ listed' = listed /\ removed' = removed /\ todo' = todo \ {id}
          /\ phase' = phase
      BY <1>2 DEF UpdateOrder
    <2> HIDE DEF w
    <2>3. World' = w /\ trades' = w.trades
      BY <2>1, <2>2, BecomeWorld DEF Become
    <2>4. EntriesOwned(World, listed)'
      BY <2>1, <2>2, <2>3 DEF EntriesOwned, LocalExits, Resting
    <2>5. \A u \in removed' : IsClosed(trades'[u])
      BY <1>1, <2>1, <2>2, <2>3 DEF LInv, EntriesRest
    <2>6. TodoResting'
      BY <1>1, <2>1, <2>2, <2>3 DEF LInv, TodoResting, Resting
    <2> QED
      BY <2>4, <2>5, <2>6 DEF LInv, EntriesRest, IsClosed
  <1>3. CASE ~LimitReached(book[id])
    <2>1. /\ UNCHANGED <<trades, book, position, listed, removed, phase>>
          /\ todo' = todo \ {id}
      BY <1>1, <1>3 DEF UpdateOrder, Become, World
    <2>2. World' = World
      BY <2>1 DEF World
    <2>3. EntriesRest'
      BY <2>1, <2>2 DEF LInv, EntriesRest, EntriesOwned, LocalExits, Resting
    <2>4. TodoResting'
      BY <2>1, <2>2 DEF LInv, TodoResting, Resting
    <2> QED
      BY <2>3, <2>4 DEF LInv
  <1> QED
    BY <1>2, <1>3

LEMMA LInvNext == ASSUME NoDistant PROVE LInv /\ [Next]_vars => LInv'
  <1> SUFFICES ASSUME LInv, [Next]_vars PROVE LInv'
    OBVIOUS
  <1>0. TInv'
    BY TInvNext DEF LInv
  <1>1. CASE OnTick
    BY <1>0, <1>1, LInvQuiet DEF OnTick
  <1>2. CASE ComputeSignal
    <2>1. phase' # "update"
      BY <1>2 DEF ComputeSignal
    <2> QED
      BY <1>0, <1>2, <2>1, LInvQuiet DEF ComputeSignal
  <1>3. ASSUME NEW t \in TradeIds, CloseOpposite(t) PROVE LInv'
    BY <1>0, <1>3, LInvClose
  <1>4. CASE Reversed
    BY <1>0, <1>4, LInvQuiet DEF Reversed
  <1>5. ASSUME NEW t \in TradeIds, ProcessTrade(t) PROVE LInv'
    BY <1>0, <1>5, LInvProcess
  <1>6. CASE PurgeTrades
    BY <1>0, <1>6, LInvPurge
  <1>7. CASE OrderEntry
    BY <1>0, <1>7, LInvEntry
  <1>8. CASE NoOrderEntry
    BY <1>0, <1>8, LInvQuiet DEF NoOrderEntry
  <1>9. ASSUME NEW id \in OrderIds, UpdateOrder(id) PROVE LInv'
    BY <1>0, <1>9, LInvUpdate
  <1>10. CASE Updated
    BY <1>0, <1>10, LInvQuiet DEF Updated
  <1>11. CASE UNCHANGED vars
    BY <1>0, <1>11, LInvQuiet DEF vars
  <1> QED
    BY <1>1, <1>2, <1>3, <1>4, <1>5, <1>6, <1>7, <1>8, <1>9, <1>10, <1>11 DEF Next

\* When no modifier is MOD_DISTANT, the orders of the paper connector are the
\* entries of the listed trades, one each, until they fill; and process() only
\* collects trades whose exit is filled.
THEOREM EntriesRestAlways == ASSUME NoDistant PROVE Spec => []EntriesRest
  <1>1. LInv => EntriesRest
    BY DEF LInv
  <1>2. LInv /\ [Next]_vars => LInv'
    BY LInvNext
  <1> QED
    BY <1>1, <1>2, LInvInit, PTL DEF Spec

LEMMA EntriesRestOwns == LInv => OrdersOwned
  <1> SUFFICES ASSUME LInv, NEW id \in OrderIds, Resting(World, id)
               PROVE  \E t \in listed : \A u \in listed : Refers(trades[u], id) <=> u = t
    BY DEF OrdersOwned
  <1>1. World.trades = trades /\ listed \subseteq TradeIds /\ id # NoId
    BY NoIdAssumption DEF World, LInv, TInv, TypeOK
  <1>2. PICK t \in listed : trades[t].entry.orderId = id
    BY <1>1 DEF LInv, EntriesRest, EntriesOwned
  <1>3. ASSUME NEW u \in listed PROVE Refers(trades[u], id) <=> trades[u].entry.orderId = id
    <2>1. LocalExits(World, trades[u]) /\ trades[u] \in TradeRecords
      BY <1>1 DEF LInv, TInv, TypeOK, EntriesRest, EntriesOwned
    <2> QED
      BY <2>1, RefersByOne DEF LocalExits
  <1> QED
    BY <1>1, <1>2, <1>3 DEF LInv, EntriesRest, EntriesOwned

\* When no modifier is MOD_DISTANT, every order of the paper connector belongs to
\* exactly one listed trade: no trade returns to the pool before its order ends.
THEOREM OrdersOwnedAlways == ASSUME NoDistant PROVE Spec => []OrdersOwned
  <1>1. LInv /\ [Next]_vars => LInv'
    BY LInvNext
  <1> QED
    BY <1>1, LInvInit, EntriesRestOwns, PTL DEF Spec
=============================================================================
