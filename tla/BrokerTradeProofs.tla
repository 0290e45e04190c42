------------------------- MODULE BrokerTradeProofs -------------------------
(***************************************************************************)
(* What a trade may believe of a broker.  With running totals, a trade of  *)
(* either class never believes that it entered more than it did, and a     *)
(* MarginTrade never believes that it exited more than it did, for every   *)
(* quantity, every number of orders and signals, and every loss,           *)
(* repetition and reordering of the signals; nor does an IndMarginTrade    *)
(* when each signal is told once.  Once it was told everything, a trade    *)
(* knows what it entered and what it exited; it asked for one closing      *)
(* order only; and its closing flag ends with that order.                  *)
(***************************************************************************)
EXTENDS BrokerTrade, IndMarginTradeProofs, SequenceTheorems, FiniteSetTheorems

(* The orders a slot refers to.                                            *)
IdsOf(slot) == {slot.orderId, slot.refId} \ {NoId}

(* Signals name an order twice, and a running total is what it executed.   *)
Sound(s, os) ==
  /\ s.orderId \in OrderIds /\ s.refId = s.orderId
  /\ os[s.orderId].status # "none"
  /\ s.event = "TRADED" /\ style = "cumulative" => s.cum \in 1..os[s.orderId].exec

Entries(os) == {id \in OrderIds : os[id].status # "none" /\ os[id].role = "entry"}
Exits(os) == {id \in OrderIds : os[id].status # "none" /\ os[id].role # "entry"}

Bounded(os, b, s) == \A id \in OrderIds : os[id].exec <= IF os[id].role = "entry" THEN b ELSE s

AllSound(ss, os) == \A i \in 1..Len(ss) : Sound(ss[i], os)

(* What holds of the world at every step of a handler, when the entry has  *)
(* executed b and the exits s.                                             *)
Consistent(w, b, s) ==
  /\ IdsOf(w.trade.entry) \subseteq Entries(w.orders)
  /\ IdsOf(w.trade.limit) \cup IdsOf(w.trade.stop) \subseteq Exits(w.orders)
  /\ Bounded(w.orders, b, s)
  /\ AllSound(w.signals, w.orders)
  /\ style = "cumulative" => w.trade.entryQty <= b
  /\ style = "cumulative" /\ kind = "MARGIN" => w.trade.exitQty <= s

Worlds == [trade : TradeRecords, orders : [OrderIds -> BrokerOrders], signals : Seq(OrderSignals)]

BrokerInv ==
  /\ kind \in Kinds /\ style \in Styles /\ listed \in BOOLEAN /\ faults \subseteq Faults
  /\ bought \in Nat /\ sold \in Nat
  /\ World \in Worlds /\ Consistent(World, bought, sold)

-----------------------------------------------------------------------------
(* What a signal does to the trade.                                        *)

LEMMA ForgetIdsType == ASSUME NEW slot \in Slots, NEW state \in States
                       PROVE  ForgetIds(slot, state) \in Slots /\ IdsOf(ForgetIds(slot, state)) = {}
  BY DEF ForgetIds, Slots, IdsOf, Ids

LEMMA ClearIds == ASSUME NEW slot, NEW state
                  PROVE  IdsOf(Clear(slot, state)) = {}
  BY DEF Clear, ResetSlot, IdsOf

LEMMA EntryReplaced ==
  ASSUME NEW t \in TradeRecords, NEW slot \in Slots
  PROVE  /\ [t EXCEPT !.entry = slot] \in TradeRecords
         /\ [t EXCEPT !.entry = slot].entry = slot
         /\ [t EXCEPT !.entry = slot].limit = t.limit
         /\ [t EXCEPT !.entry = slot].stop = t.stop
         /\ [t EXCEPT !.entry = slot].entryQty = t.entryQty
         /\ [t EXCEPT !.entry = slot].exitQty = t.exitQty
  BY SlotUpdates DEF TradeRecords

LEMMA AcknowledgeIds ==
  ASSUME NEW slot \in Slots, NEW s \in OrderSignals, s.refId = s.orderId, Targets(slot, s)
  PROVE  /\ s.orderId \in IdsOf(slot)
         /\ IdsOf(Acknowledge(slot, s)) \subseteq IdsOf(slot)
         /\ \A state \in States : IdsOf([Acknowledge(slot, s) EXCEPT !.state = state]) \subseteq IdsOf(slot)
  BY DEF Targets, Acknowledge, IdsOf, Slots

LEMMA UntradedIds ==
  ASSUME NEW slot \in Slots, NEW s \in OrderSignals
  PROVE  /\ Untraded(slot, s) \in Slots /\ IdsOf(Untraded(slot, s)) \subseteq IdsOf(slot)
         /\ MarginUntraded(slot, s) \in Slots /\ IdsOf(MarginUntraded(slot, s)) \subseteq IdsOf(slot)
  <1>1. slot.state \in States /\ {"REJECTED", "CANCELED", "OPENED"} \subseteq States
    BY DEF Slots, States
  <1>2. IdsOf(Untraded(slot, s)) \subseteq IdsOf(slot)
    <2>1. IdsOf([slot EXCEPT !.state = IF slot.state = "NEW" THEN "OPENED" ELSE slot.state]) = IdsOf(slot)
      BY DEF IdsOf, Slots
    <2> QED
      BY <2>1, ClearIds DEF Untraded
  <1>3. MarginUntraded(slot, s) \in Slots /\ IdsOf(MarginUntraded(slot, s)) \subseteq IdsOf(slot)
    BY <1>1, ForgetIdsType DEF MarginUntraded
  <1> QED
    BY <1>2, <1>3, UntradedType

(* IndMarginTrade.                                                         *)
LEMMA EntrySignalEffect ==
  ASSUME NEW t \in TradeRecords, NEW s \in OrderSignals, s.refId = s.orderId, Targets(t.entry, s)
  PROVE  LET u == EntrySignal(t, s)
         IN  /\ u \in TradeRecords /\ u.limit = t.limit /\ u.stop = t.stop
             /\ IdsOf(u.entry) \subseteq IdsOf(t.entry) /\ u.exitQty = t.exitQty
             /\ u.entryQty = t.entryQty \/ (s.event = "TRADED" /\ (s.cum > 0 => u.entryQty = s.cum))
  <1> DEFINE entry == Acknowledge(t.entry, s)
  <1>1. t.entry \in Slots /\ entry \in Slots
    BY AcknowledgeType, SlotUpdates
  <1>2. IdsOf(entry) \subseteq IdsOf(t.entry)
        /\ \A state \in States : IdsOf([entry EXCEPT !.state = state]) \subseteq IdsOf(t.entry)
    BY <1>1, AcknowledgeIds
  <1>3. IdsOf(Untraded(entry, s)) \subseteq IdsOf(t.entry)
    BY <1>1, <1>2, UntradedIds
  <1>4. EntrySignal(t, s) \in TradeRecords
    BY EntrySignalType
  <1>5. CASE s.event = "TRADED"
    <2>1. EntrySignal(t, s) = EntryTraded(t, s)
      BY <1>5 DEF EntrySignal
    <2>2. IdsOf(EntryTraded(t, s).entry) \subseteq IdsOf(t.entry)
      BY <1>2, ClearIds DEF EntryTraded, TradeRecords, States
    <2>3. /\ EntryTraded(t, s).limit = t.limit /\ EntryTraded(t, s).stop = t.stop
          /\ EntryTraded(t, s).exitQty = t.exitQty
          /\ s.cum > 0 => EntryTraded(t, s).entryQty = s.cum
      BY DEF EntryTraded, TradeRecords
    <2> QED
      BY <1>4, <1>5, <2>1, <2>2, <2>3
  <1>6. CASE s.event # "TRADED"
    <2> DEFINE new == Untraded(entry, s)
    <2>1. EntrySignal(t, s) = [t EXCEPT !.entry = new]
      BY <1>6 DEF EntrySignal
    <2>2. new \in Slots /\ IdsOf(new) \subseteq IdsOf(t.entry)
      BY <1>1, <1>3, UntradedIds
    <2> HIDE DEF new
    <2> QED
      BY <2>1, <2>2, EntryReplaced
  <1> QED
    BY <1>5, <1>6

LEMMA ExitTradedIds ==
  ASSUME NEW t, NEW slot \in Slots, NEW s \in OrderSignals
  PROVE  IdsOf(ExitTraded(t, slot, s)) \subseteq IdsOf(slot)
  <1> DEFINE other(n, state) == [slot EXCEPT !.execQty = n, !.state = state]
  <1>1. \A n, state : other(n, state).orderId = slot.orderId /\ other(n, state).refId = slot.refId
    BY DEF Slots
  <1>2. \A n, state : IdsOf(other(n, state)) = IdsOf(slot)
    BY <1>1, Zenon DEF IdsOf
  <1> HIDE DEF other
  <1> QED
    BY <1>2, ClearIds DEF ExitTraded, other

LEMMA ExitSignalEffect ==
  ASSUME NEW t \in TradeRecords, NEW s \in OrderSignals, s.refId = s.orderId
  PROVE  /\ LET u == LimitSignal(t, s)
            IN  /\ u \in TradeRecords /\ u.entry = t.entry /\ u.stop = t.stop /\ u.entryQty = t.entryQty
                /\ Targets(t.limit, s) => IdsOf(u.limit) \subseteq IdsOf(t.limit)
         /\ LET u == StopSignal(t, s)
            IN  /\ u \in TradeRecords /\ u.entry = t.entry /\ u.limit = t.limit /\ u.entryQty = t.entryQty
                /\ Targets(t.stop, s) => IdsOf(u.stop) \subseteq IdsOf(t.stop)
  <1>1. /\ t.limit \in Slots /\ Acknowledge(t.limit, s) \in Slots
        /\ t.stop \in Slots /\ Acknowledge(t.stop, s) \in Slots
    BY AcknowledgeType, SlotUpdates
  <1>2. \A slot \in Slots : WithExit(t, slot, s) \in TradeRecords
    BY ExitTypes
  <1>3. \A slot \in Slots :
          /\ WithExit(t, slot, s).entry = t.entry /\ WithExit(t, slot, s).limit = t.limit
          /\ WithExit(t, slot, s).stop = t.stop /\ WithExit(t, slot, s).entryQty = t.entryQty
    BY DEF WithExit, TradeRecords
  <1>4. Targets(t.limit, s) => /\ IdsOf(ExitTraded(t, Acknowledge(t.limit, s), s)) \subseteq IdsOf(t.limit)
                               /\ IdsOf(Untraded(Acknowledge(t.limit, s), s)) \subseteq IdsOf(t.limit)
    BY <1>1, AcknowledgeIds, ExitTradedIds, UntradedIds
  <1>5. Targets(t.stop, s) => /\ IdsOf(ExitTraded(t, Acknowledge(t.stop, s), s)) \subseteq IdsOf(t.stop)
                              /\ IdsOf(Untraded(Acknowledge(t.stop, s), s)) \subseteq IdsOf(t.stop)
    BY <1>1, AcknowledgeIds, ExitTradedIds, UntradedIds
  <1>6. LimitSignal(t, s) \in TradeRecords /\ StopSignal(t, s) \in TradeRecords
    BY ExitSignalTypes
  <1>7. LimitSignal(t, s).entry = t.entry /\ LimitSignal(t, s).stop = t.stop /\ LimitSignal(t, s).entryQty = t.entryQty
        /\ LimitSignal(t, s).limit = IF s.event = "TRADED" THEN ExitTraded(t, Acknowledge(t.limit, s), s)
                                     ELSE Untraded(Acknowledge(t.limit, s), s)
    BY <1>1, <1>2, <1>3 DEF LimitSignal, TradeRecords
  <1>8. StopSignal(t, s).entry = t.entry /\ StopSignal(t, s).limit = t.limit /\ StopSignal(t, s).entryQty = t.entryQty
        /\ StopSignal(t, s).stop = IF s.event = "TRADED" THEN ExitTraded(t, Acknowledge(t.stop, s), s)
                                   ELSE Untraded(Acknowledge(t.stop, s), s)
    BY <1>1, <1>2, <1>3 DEF StopSignal, TradeRecords
  <1> QED
    BY <1>4, <1>5, <1>6, <1>7, <1>8

(* MarginTrade.                                                            *)
LEMMA AccumulatedType == ASSUME NEW qty \in Int, NEW s \in OrderSignals
                         PROVE  Accumulated(qty, s) \in Int
  BY DEF Accumulated, OrderSignals

LEMMA MarginEntryEffect ==
  ASSUME NEW t \in TradeRecords, NEW s \in OrderSignals, s.refId = s.orderId, Targets(t.entry, s)
  PROVE  LET u == MarginEntrySignal(t, s)
         IN  /\ u \in TradeRecords /\ u.limit = t.limit /\ u.stop = t.stop
             /\ IdsOf(u.entry) \subseteq IdsOf(t.entry) /\ u.exitQty = t.exitQty
             /\ u.entryQty = t.entryQty \/ (s.event = "TRADED" /\ (s.cum > 0 => u.entryQty = s.cum))
  <1> DEFINE entry == Acknowledge(t.entry, s)
  <1>1. t.entry \in Slots /\ entry \in Slots
    BY AcknowledgeType, SlotUpdates
  <1>2. IdsOf(entry) \subseteq IdsOf(t.entry)
        /\ \A state \in States : IdsOf([entry EXCEPT !.state = state]) \subseteq IdsOf(t.entry)
    BY <1>1, AcknowledgeIds
  <1>3. \A state \in States : [entry EXCEPT !.state = state] \in Slots
    BY <1>1 DEF Slots
  <1>4. MarginUntraded(entry, s) \in Slots /\ IdsOf(MarginUntraded(entry, s)) \subseteq IdsOf(t.entry)
    BY <1>1, <1>2, UntradedIds
  <1>5. CASE s.event = "TRADED"
    <2> DEFINE qty == Accumulated(t.entryQty, s)
               state == IF qty >= t.orderQuantity \/ s.completed THEN "FILLED" ELSE "PARTIALLY_FILLED"
           new == [entry EXCEPT !.state = state]
    <2>1. state \in States /\ qty \in Int /\ (s.cum > 0 => qty = s.cum)
      BY AccumulatedType DEF States, TradeRecords, Accumulated
    <2>2. MarginEntrySignal(t, s) = [t EXCEPT !.entryQty = qty, !.entry = new]
      BY <1>5 DEF MarginEntrySignal
    <2>3. new \in Slots /\ IdsOf(new) \subseteq IdsOf(t.entry)
      BY <1>2, <1>3, <2>1
    <2> HIDE DEF qty, new
    <2> QED
      BY <1>5, <2>1, <2>2, <2>3 DEF TradeRecords
  <1>6. CASE s.event = "OPENED"
    <2> DEFINE new == [entry EXCEPT !.state = "OPENED"]
    <2>1. MarginEntrySignal(t, s) = [t EXCEPT !.entry = new]
      BY <1>6 DEF MarginEntrySignal
    <2>2. new \in Slots /\ IdsOf(new) \subseteq IdsOf(t.entry)
      BY <1>2, <1>3 DEF States
    <2> HIDE DEF new
    <2> QED
      BY <2>1, <2>2, EntryReplaced
  <1>7. CASE s.event # "TRADED" /\ s.event # "OPENED"
    <2> DEFINE new == MarginUntraded(entry, s)
    <2>1. MarginEntrySignal(t, s) = [t EXCEPT !.entry = new]
      BY <1>7 DEF MarginEntrySignal
    <2>2. new \in Slots /\ IdsOf(new) \subseteq IdsOf(t.entry)
      BY <1>4
    <2> HIDE DEF new
    <2> QED
      BY <2>1, <2>2, EntryReplaced
  <1> QED
    BY <1>5, <1>6, <1>7

LEMMA MarginExitEffect ==
  ASSUME NEW t \in TradeRecords, NEW slot \in Slots, NEW s \in OrderSignals,
         s.refId = s.orderId, Targets(slot, s)
  PROVE  /\ MarginExit(t, Acknowledge(slot, s), s) \in Slots
         /\ IdsOf(MarginExit(t, Acknowledge(slot, s), s)) \subseteq IdsOf(slot)
         /\ MarginExitQty(t, s) \in Int
         /\ \/ MarginExitQty(t, s) = t.exitQty
            \/ s.event = "TRADED" /\ (s.cum > 0 => MarginExitQty(t, s) = s.cum)
  <1> DEFINE known == Acknowledge(slot, s)
  <1>1. known \in Slots /\ IdsOf(known) \subseteq IdsOf(slot)
    BY AcknowledgeType, AcknowledgeIds
  <1>2. \A state \in States : /\ [known EXCEPT !.state = state] \in Slots
                             /\ IdsOf([known EXCEPT !.state = state]) \subseteq IdsOf(slot)
    BY <1>1, AcknowledgeIds DEF Slots
  <1>3. MarginUntraded(known, s) \in Slots /\ IdsOf(MarginUntraded(known, s)) \subseteq IdsOf(slot)
    BY <1>1, UntradedIds
  <1>4. {"FILLED", "PARTIALLY_FILLED", "OPENED", known.state} \subseteq States
    BY <1>1 DEF States, Slots
  <1>5. /\ MarginExit(t, known, s) \in Slots
        /\ IdsOf(MarginExit(t, known, s)) \subseteq IdsOf(slot)
    <2> HIDE DEF known
    <2> QED
      BY <1>2, <1>3, <1>4 DEF MarginExit
  <1>6. MarginExitQty(t, s) \in Int
        /\ \/ MarginExitQty(t, s) = t.exitQty
           \/ s.event = "TRADED" /\ (s.cum > 0 => MarginExitQty(t, s) = s.cum)
    BY AccumulatedType DEF MarginExitQty, Accumulated, TradeRecords
  <1> QED
    BY <1>5, <1>6

(* A quantity stays, or becomes the running total of one of the orders.    *)
Counted(new, old, s, ids) ==
  \/ new = old
  \/ /\ s.event = "TRADED" /\ s.orderId \in ids
     /\ s.cum > 0 => new = s.cum

(* What a signal may do to the trade, whatever its class.                  *)
Heard(t, s, u) ==
  /\ u \in TradeRecords
  /\ IdsOf(u.entry) \subseteq IdsOf(t.entry)
  /\ IdsOf(u.limit) \subseteq IdsOf(t.limit)
  /\ IdsOf(u.stop) \subseteq IdsOf(t.stop)
  /\ Counted(u.entryQty, t.entryQty, s, IdsOf(t.entry))
  /\ kind = "MARGIN" => Counted(u.exitQty, t.exitQty, s, IdsOf(t.limit) \cup IdsOf(t.stop))

LEMMA TargetIds ==
  ASSUME NEW slot \in Slots, NEW s \in OrderSignals, s.refId = s.orderId, Targets(slot, s)
  PROVE  s.orderId \in IdsOf(slot)
  BY DEF Targets, IdsOf

LEMMA MarginSignalEffect ==
  ASSUME NEW t \in TradeRecords, NEW s \in OrderSignals, s.refId = s.orderId
  PROVE  Heard(t, s, MarginOrderSignal(t, s))
  <1>1. t.entry \in Slots /\ t.limit \in Slots /\ t.stop \in Slots
    BY SlotUpdates
  <1>2. CASE Targets(t.entry, s)
    <2> DEFINE u == MarginEntrySignal(t, s)
    <2>1. /\ u \in TradeRecords /\ u.limit = t.limit /\ u.stop = t.stop
          /\ IdsOf(u.entry) \subseteq IdsOf(t.entry) /\ u.exitQty = t.exitQty
          /\ u.entryQty = t.entryQty \/ (s.event = "TRADED" /\ (s.cum > 0 => u.entryQty = s.cum))
      BY <1>2, MarginEntryEffect
    <2>2. s.orderId \in IdsOf(t.entry) /\ MarginOrderSignal(t, s) = u
      BY <1>1, <1>2, TargetIds DEF MarginOrderSignal
    <2> HIDE DEF u
    <2> QED
      BY <2>1, <2>2 DEF Heard, Counted
  <1>3. CASE ~Targets(t.entry, s) /\ Targets(t.limit, s)
    <2> DEFINE new == MarginExit(t, Acknowledge(t.limit, s), s)
               qty == MarginExitQty(t, s)
    <2>1. MarginOrderSignal(t, s) = [t EXCEPT !.limit = new, !.exitQty = qty]
      BY <1>3 DEF MarginOrderSignal
    <2>2. /\ new \in Slots /\ IdsOf(new) \subseteq IdsOf(t.limit) /\ qty \in Int
          /\ qty = t.exitQty \/ (s.event = "TRADED" /\ (s.cum > 0 => qty = s.cum))
      BY <1>1, <1>3, MarginExitEffect
    <2>3. s.orderId \in IdsOf(t.limit)
      BY <1>1, <1>3, TargetIds
    <2> HIDE DEF new, qty
    <2> QED
      BY <2>1, <2>2, <2>3 DEF Heard, Counted, TradeRecords
  <1>4. CASE ~Targets(t.entry, s) /\ ~Targets(t.limit, s) /\ Targets(t.stop, s)
    <2> DEFINE new == MarginExit(t, Acknowledge(t.stop, s), s)
               qty == MarginExitQty(t, s)
    <2>1. MarginOrderSignal(t, s) = [t EXCEPT !.stop = new, !.exitQty = qty]
      BY <1>4 DEF MarginOrderSignal
    <2>2. /\ new \in Slots /\ IdsOf(new) \subseteq IdsOf(t.stop) /\ qty \in Int
          /\ qty = t.exitQty \/ (s.event = "TRADED" /\ (s.cum > 0 => qty = s.cum))
      BY <1>1, <1>4, MarginExitEffect
    <2>3. s.orderId \in IdsOf(t.stop)
      BY <1>1, <1>4, TargetIds
    <2> HIDE DEF new, qty
    <2> QED
      BY <2>1, <2>2, <2>3 DEF Heard, Counted, TradeRecords
  <1>5. CASE ~Targets(t.entry, s) /\ ~Targets(t.limit, s) /\ ~Targets(t.stop, s)
    BY <1>5 DEF MarginOrderSignal, Heard, Counted
  <1> QED
    BY <1>2, <1>3, <1>4, <1>5

LEMMA HandledEffect ==
  ASSUME NEW t \in TradeRecords, NEW s \in OrderSignals, s.refId = s.orderId,
         kind \in {"IND_MARGIN", "MARGIN"}
  PROVE  Heard(t, s, Handled(t, s))
  <1>1. t.entry \in Slots
    BY SlotUpdates
  <1>2. kind = "IND_MARGIN" => Heard(t, s, OrderSignal(t, s))
    <2>1. CASE Targets(t.entry, s)
      BY <1>1, <2>1, EntrySignalEffect, TargetIds DEF OrderSignal, Heard, Counted
    <2>2. CASE ~Targets(t.entry, s)
      <3> DEFINE ul == LimitSignal(t, s)
                 us == StopSignal(t, s)
      <3>1. /\ ul \in TradeRecords /\ ul.entry = t.entry /\ ul.stop = t.stop /\ ul.entryQty = t.entryQty
            /\ Targets(t.limit, s) => IdsOf(ul.limit) \subseteq IdsOf(t.limit)
            /\ us \in TradeRecords /\ us.entry = t.entry /\ us.limit = t.limit /\ us.entryQty = t.entryQty
            /\ Targets(t.stop, s) => IdsOf(us.stop) \subseteq IdsOf(t.stop)
        BY ExitSignalEffect
      <3> HIDE DEF ul, us
      <3>2. OrderSignal(t, s) = IF Targets(t.limit, s) THEN ul ELSE IF Targets(t.stop, s) THEN us ELSE t
        BY <2>2 DEF OrderSignal, ul, us
      <3> QED
        BY <2>2, <3>1, <3>2 DEF Heard, Counted
    <2> QED
      BY <2>1, <2>2
  <1> QED
    BY <1>2, MarginSignalEffect DEF Handled, Heard, Counted

-----------------------------------------------------------------------------
(* What the operations of the trade do to the world.                       *)

LEMMA TradeReplaced ==
  ASSUME NEW w \in Worlds, NEW b, NEW s, Consistent(w, b, s), NEW t \in TradeRecords,
         IdsOf(t.entry) \subseteq Entries(w.orders),
         IdsOf(t.limit) \cup IdsOf(t.stop) \subseteq Exits(w.orders),
         t.entryQty = w.trade.entryQty, t.exitQty = w.trade.exitQty
  PROVE  /\ [w EXCEPT !.trade = t] \in Worlds /\ Consistent([w EXCEPT !.trade = t], b, s)
         /\ [w EXCEPT !.trade = t].orders = w.orders /\ [w EXCEPT !.trade = t].trade = t
  BY DEF Worlds, Consistent

(* Orders that only leave "none", keep their role and execute no less keep *)
(* the signals sound.                                                      *)
Later(os, new) ==
  \A id \in OrderIds : os[id].status # "none" =>
    /\ new[id].status # "none" /\ new[id].role = os[id].role
    /\ new[id].exec \in Nat /\ os[id].exec <= new[id].exec

LEMMA LaterSound ==
  ASSUME NEW os \in [OrderIds -> BrokerOrders], NEW new, Later(os, new),
         NEW s \in OrderSignals, Sound(s, os)
  PROVE  Sound(s, new)
  BY DEF Later, Sound, BrokerOrders, OrderSignals

LEMMA AnnounceSound ==
  ASSUME NEW id \in OrderIds, NEW event \in Events \ {"TRADED"}, NEW os, os[id].status # "none"
  PROVE  Announce(id, event) \in OrderSignals /\ Sound(Announce(id, event), os)
  BY DEF Announce, OrderSignals, Events, Sound, Ids

Changed(w, os, ss) == [w EXCEPT !.orders = os, !.signals = w.signals \o ss]

LEMMA OrdersChanged ==
  ASSUME NEW w \in Worlds, NEW b0 \in Nat, NEW s0 \in Nat, Consistent(w, b0, s0),
         NEW b \in Nat, NEW s \in Nat, b0 <= b, s0 <= s,
         NEW os \in [OrderIds -> BrokerOrders], Later(w.orders, os),
         Bounded(os, b, s), NEW ss \in Seq(OrderSignals), AllSound(ss, os)
  PROVE  Changed(w, os, ss) \in Worlds /\ Consistent(Changed(w, os, ss), b, s)
  <1> DEFINE v == Changed(w, os, ss)
  <1>1. w.signals \in Seq(OrderSignals) /\ w.orders \in [OrderIds -> BrokerOrders] /\ w.trade \in TradeRecords
    BY DEF Worlds
  <1>2. \A i \in 1..Len(w.signals) : w.signals[i] \in OrderSignals /\ Sound(w.signals[i], os)
    <2> SUFFICES ASSUME NEW i \in 1..Len(w.signals)
                 PROVE  w.signals[i] \in OrderSignals /\ Sound(w.signals[i], os)
      OBVIOUS
    <2>1. w.signals[i] \in OrderSignals /\ Sound(w.signals[i], w.orders)
      BY <1>1 DEF Consistent, AllSound
    <2> QED
      BY <1>1, <2>1, LaterSound
  <1>3. w.signals \o ss \in Seq(OrderSignals) /\ AllSound(w.signals \o ss, os)
    <2>1. /\ w.signals \o ss \in Seq(OrderSignals)
          /\ Len(w.signals \o ss) = Len(w.signals) + Len(ss)
          /\ \A i \in 1..Len(w.signals) + Len(ss) :
               (w.signals \o ss)[i] = IF i <= Len(w.signals) THEN w.signals[i] ELSE ss[i - Len(w.signals)]
      BY <1>1, ConcatProperties
    <2>2. ASSUME NEW i \in 1..Len(w.signals \o ss) PROVE Sound((w.signals \o ss)[i], os)
      <3>1. CASE i <= Len(w.signals)
        <4>1. i \in 1..Len(w.signals) /\ (w.signals \o ss)[i] = w.signals[i]
          BY <1>1, <2>1, <3>1
        <4> QED
          BY <1>2, <4>1
      <3>2. CASE ~(i <= Len(w.signals))
        <4>1. i - Len(w.signals) \in 1..Len(ss) /\ (w.signals \o ss)[i] = ss[i - Len(w.signals)]
          BY <1>1, <2>1, <3>2
        <4> QED
          BY <4>1 DEF AllSound
      <3> QED
        BY <3>1, <3>2
    <2> QED
      BY <2>1, <2>2 DEF AllSound
  <1>4. v.trade = w.trade /\ v.orders = os /\ v.signals = w.signals \o ss /\ v \in Worlds
    BY <1>1, <1>3 DEF Worlds, Changed
  <1>5. Entries(w.orders) \subseteq Entries(os) /\ Exits(w.orders) \subseteq Exits(os)
    BY DEF Entries, Exits, Later
  <1>6. (style = "cumulative" => w.trade.entryQty <= b)
        /\ (style = "cumulative" /\ kind = "MARGIN" => w.trade.exitQty <= s)
    BY <1>1 DEF Consistent, TradeRecords
  <1> HIDE DEF v
  <1>7. Consistent(v, b, s)
    BY <1>3, <1>4, <1>5, <1>6 DEF Consistent
  <1> QED
    BY <1>4, <1>7 DEF v

LEMMA StatusChanged ==
  ASSUME NEW os \in [OrderIds -> BrokerOrders], NEW id \in OrderIds, os[id].status # "none",
         NEW o \in BrokerOrders, o.status # "none", o.role = os[id].role, o.exec >= os[id].exec
  PROVE  /\ [os EXCEPT ![id] = o] \in [OrderIds -> BrokerOrders]
         /\ Later(os, [os EXCEPT ![id] = o])
         /\ \A i \in OrderIds : os[i].status = "none" => [os EXCEPT ![id] = o][i].status = "none"
  BY DEF Later, BrokerOrders

LEMMA WithdrawnFields ==
  ASSUME NEW o \in BrokerOrders
  PROVE  /\ Withdrawn(o) \in BrokerOrders /\ Withdrawn(o).exec = o.exec /\ Withdrawn(o).role = o.role
         /\ Withdrawn(o).quantity = o.quantity /\ Withdrawn(o).status = "done" /\ Withdrawn(o).revoked
         /\ o.exec \in Nat
  BY DEF BrokerOrders, Withdrawn

LEMMA Revoked ==
  ASSUME NEW w \in Worlds, NEW b \in Nat, NEW s \in Nat, Consistent(w, b, s), NEW slot \in Slots
  PROVE  LET v == Revoke(w, slot)
         IN  /\ v \in Worlds /\ Consistent(v, b, s) /\ v.trade = w.trade
             /\ \A id \in OrderIds : w.orders[id].status = "none" => v.orders[id].status = "none"
  <1>1. CASE ~Cancels(w, slot)
    BY <1>1 DEF Revoke
  <1>2. CASE Cancels(w, slot)
    <2> DEFINE id == slot.orderId
               o == Withdrawn(w.orders[id])
               os == [w.orders EXCEPT ![id] = o]
               ss == <<Announce(id, "CANCELED")>>
               v == Changed(w, os, ss)
    <2>1. id \in OrderIds /\ w.orders \in [OrderIds -> BrokerOrders] /\ w.orders[id].status = "working"
      BY <1>2 DEF Cancels, Slots, Ids, Worlds
    <2>2. Revoke(w, slot) = v
      BY <1>2 DEF Revoke, Changed
    <2>3. /\ o \in BrokerOrders /\ o.exec = w.orders[id].exec /\ o.role = w.orders[id].role
          /\ o.status = "done" /\ o.exec \in Nat
      <3>1. w.orders[id] \in BrokerOrders
        BY <2>1
      <3> QED
        BY <3>1, WithdrawnFields
    <2> HIDE DEF id, o
    <2>4. /\ os \in [OrderIds -> BrokerOrders] /\ Later(w.orders, os)
          /\ \A i \in OrderIds : w.orders[i].status = "none" => os[i].status = "none"
      BY <2>1, <2>3, StatusChanged
    <2>5. Bounded(os, b, s)
      BY <2>1, <2>3 DEF Consistent, Bounded
    <2>6. ss \in Seq(OrderSignals) /\ AllSound(ss, os)
      <3>1. os[id].status # "none"
        BY <2>1, <2>3
      <3> HIDE DEF os
      <3>2. Announce(id, "CANCELED") \in OrderSignals /\ Sound(Announce(id, "CANCELED"), os)
        BY <2>1, <3>1, AnnounceSound DEF Events
      <3> QED
        BY <3>2 DEF AllSound
    <2> HIDE DEF os, ss
    <2>7. v \in Worlds /\ Consistent(v, b, s)
      <3>1. b <= b /\ s <= s
        OBVIOUS
      <3> QED
        BY <2>4, <2>5, <2>6, <3>1, OrdersChanged
    <2>8. v.trade = w.trade /\ v.orders = os
      BY DEF Worlds, Changed
    <2> QED
      BY <2>2, <2>4, <2>7, <2>8
  <1> QED
    BY <1>1, <1>2

Good(w, b, s) == w \in Worlds /\ Consistent(w, b, s)

Fresh(w, id) == w.orders[id].status = "none"

WithEntry(w, slot) == [w EXCEPT !.trade.entry = slot]
WithLimit(w, slot) == [w EXCEPT !.trade.limit = slot]
WithStop(w, slot) == [w EXCEPT !.trade.stop = slot]

LEMMA SlotReplaced ==
  ASSUME NEW b, NEW s, NEW w, Good(w, b, s), NEW slot \in Slots
  PROVE  /\ IdsOf(slot) \subseteq Entries(w.orders) =>
              Good(WithEntry(w, slot), b, s) /\ WithEntry(w, slot).orders = w.orders
         /\ IdsOf(slot) \subseteq Exits(w.orders) =>
              /\ Good(WithLimit(w, slot), b, s) /\ WithLimit(w, slot).orders = w.orders
              /\ Good(WithStop(w, slot), b, s) /\ WithStop(w, slot).orders = w.orders
  <1>1. w \in Worlds /\ w.trade \in TradeRecords /\ Consistent(w, b, s)
    BY DEF Worlds, Good
  <1>2. ASSUME IdsOf(slot) \subseteq Entries(w.orders)
        PROVE  Good(WithEntry(w, slot), b, s) /\ WithEntry(w, slot).orders = w.orders
    <2> DEFINE t == [w.trade EXCEPT !.entry = slot]
    <2>1. /\ t \in TradeRecords /\ t.entry = slot /\ t.limit = w.trade.limit /\ t.stop = w.trade.stop
          /\ t.entryQty = w.trade.entryQty /\ t.exitQty = w.trade.exitQty
      BY <1>1, EntryReplaced
    <2>2. WithEntry(w, slot) = [w EXCEPT !.trade = t]
      BY DEF WithEntry
    <2>3. IdsOf(w.trade.limit) \cup IdsOf(w.trade.stop) \subseteq Exits(w.orders)
      BY <1>1 DEF Consistent
    <2> HIDE DEF t
    <2> QED
      BY <1>1, <1>2, <2>1, <2>2, <2>3, TradeReplaced DEF Good
  <1>3. ASSUME IdsOf(slot) \subseteq Exits(w.orders)
        PROVE  Good(WithLimit(w, slot), b, s) /\ WithLimit(w, slot).orders = w.orders
    <2> DEFINE t == [w.trade EXCEPT !.limit = slot]
    <2>1. /\ t \in TradeRecords /\ t.entry = w.trade.entry /\ t.limit = slot /\ t.stop = w.trade.stop
          /\ t.entryQty = w.trade.entryQty /\ t.exitQty = w.trade.exitQty
      BY <1>1, SlotUpdates DEF TradeRecords
    <2>2. WithLimit(w, slot) = [w EXCEPT !.trade = t]
      BY DEF WithLimit
    <2>3. /\ IdsOf(w.trade.entry) \subseteq Entries(w.orders)
          /\ IdsOf(w.trade.limit) \cup IdsOf(w.trade.stop) \subseteq Exits(w.orders)
      BY <1>1 DEF Consistent
    <2> HIDE DEF t
    <2> QED
      BY <1>1, <1>3, <2>1, <2>2, <2>3, TradeReplaced DEF Good
  <1>4. ASSUME IdsOf(slot) \subseteq Exits(w.orders)
        PROVE  Good(WithStop(w, slot), b, s) /\ WithStop(w, slot).orders = w.orders
    <2> DEFINE t == [w.trade EXCEPT !.stop = slot]
    <2>1. /\ t \in TradeRecords /\ t.entry = w.trade.entry /\ t.stop = slot /\ t.limit = w.trade.limit
          /\ t.entryQty = w.trade.entryQty /\ t.exitQty = w.trade.exitQty
      BY <1>1, SlotUpdates DEF TradeRecords
    <2>2. WithStop(w, slot) = [w EXCEPT !.trade = t]
      BY DEF WithStop
    <2>3. /\ IdsOf(w.trade.entry) \subseteq Entries(w.orders)
          /\ IdsOf(w.trade.limit) \cup IdsOf(w.trade.stop) \subseteq Exits(w.orders)
      BY <1>1 DEF Consistent
    <2> HIDE DEF t
    <2> QED
      BY <1>1, <1>4, <2>1, <2>2, <2>3, TradeReplaced DEF Good
  <1> QED
    BY <1>2, <1>3, <1>4

LEMMA ResetIds ==
  ASSUME NEW slot \in Slots, NEW w
  PROVE  Canceled(w, slot) \in Slots /\ IdsOf(Canceled(w, slot)) \subseteq IdsOf(slot)
  <1>1. "CANCELED" \in States
    BY DEF States
  <1>2. Reset(slot, "CANCELED") \in Slots /\ IdsOf(Reset(slot, "CANCELED")) = {}
    BY <1>1, ClearType, ClearIds, ForgetIdsType DEF Reset
  <1> QED
    BY <1>2 DEF Canceled

LEMMA Cancellations ==
  ASSUME NEW b \in Nat, NEW s \in Nat, NEW w, Good(w, b, s)
  PROVE  /\ Good(CancelEntry(w), b, s) /\ \A id \in OrderIds : Fresh(w, id) => Fresh(CancelEntry(w), id)
         /\ Good(CancelLimit(w), b, s) /\ \A id \in OrderIds : Fresh(w, id) => Fresh(CancelLimit(w), id)
         /\ Good(CancelStop(w), b, s) /\ \A id \in OrderIds : Fresh(w, id) => Fresh(CancelStop(w), id)
  <1>1. w \in Worlds /\ Consistent(w, b, s)
        /\ w.trade.entry \in Slots /\ w.trade.limit \in Slots /\ w.trade.stop \in Slots
    BY SlotUpdates DEF Good, Worlds
  <1>2. ASSUME NEW slot \in Slots
        PROVE  /\ Good(Revoke(w, slot), b, s) /\ Revoke(w, slot).trade = w.trade
               /\ \A id \in OrderIds : Fresh(w, id) => Fresh(Revoke(w, slot), id)
    BY <1>1, Revoked DEF Good, Fresh
  <1>3. Good(CancelEntry(w), b, s) /\ \A id \in OrderIds : Fresh(w, id) => Fresh(CancelEntry(w), id)
    <2> DEFINE v == Revoke(w, w.trade.entry)
               slot == Canceled(w, w.trade.entry)
    <2>1. Good(v, b, s) /\ v.trade = w.trade
          /\ \A id \in OrderIds : Fresh(w, id) => Fresh(v, id)
      BY <1>1, <1>2
    <2>2. slot \in Slots /\ IdsOf(slot) \subseteq Entries(v.orders)
      BY <1>1, <2>1, ResetIds DEF Good, Consistent
    <2>3. CancelEntry(w) = WithEntry(v, slot)
      BY <2>1 DEF CancelEntry, WithEntry
    <2> HIDE DEF v, slot
    <2> QED
      BY <2>1, <2>2, <2>3, SlotReplaced DEF Fresh
  <1>4. Good(CancelLimit(w), b, s) /\ \A id \in OrderIds : Fresh(w, id) => Fresh(CancelLimit(w), id)
    <2> DEFINE v == Revoke(w, w.trade.limit)
               slot == Canceled(w, w.trade.limit)
    <2>1. Good(v, b, s) /\ v.trade = w.trade
          /\ \A id \in OrderIds : Fresh(w, id) => Fresh(v, id)
      BY <1>1, <1>2
    <2>2. slot \in Slots /\ IdsOf(slot) \subseteq Exits(v.orders)
      BY <1>1, <2>1, ResetIds DEF Good, Consistent
    <2>3. CancelLimit(w) = WithLimit(v, slot)
      BY <2>1 DEF CancelLimit, WithLimit
    <2> HIDE DEF v, slot
    <2> QED
      BY <2>1, <2>2, <2>3, SlotReplaced DEF Fresh
  <1>5. Good(CancelStop(w), b, s) /\ \A id \in OrderIds : Fresh(w, id) => Fresh(CancelStop(w), id)
    <2> DEFINE v == Revoke(w, w.trade.stop)
               slot == Canceled(w, w.trade.stop)
    <2>1. Good(v, b, s) /\ v.trade = w.trade
          /\ \A id \in OrderIds : Fresh(w, id) => Fresh(v, id)
      BY <1>1, <1>2
    <2>2. slot \in Slots /\ IdsOf(slot) \subseteq Exits(v.orders)
      BY <1>1, <2>1, ResetIds DEF Good, Consistent
    <2>3. CancelStop(w) = WithStop(v, slot)
      BY <2>1 DEF CancelStop, WithStop
    <2> HIDE DEF v, slot
    <2> QED
      BY <2>1, <2>2, <2>3, SlotReplaced DEF Fresh
  <1> QED
    BY <1>3, <1>4, <1>5

LEMMA ExitsCanceled ==
  ASSUME NEW b \in Nat, NEW s \in Nat, NEW w, Good(w, b, s)
  PROVE  /\ Good(CancelExits(w), b, s)
         /\ \A id \in OrderIds : Fresh(w, id) => Fresh(CancelExits(w), id)
  BY Cancellations DEF CancelExits

LEMMA Created ==
  ASSUME NEW b \in Nat, NEW s \in Nat, NEW w, Good(w, b, s),
         NEW id \in OrderIds, Fresh(w, id), NEW role \in Roles, NEW qty \in Int,
         NEW accepted \in BOOLEAN
  PROVE  LET v == CreateOrder(w, id, role, qty, accepted)
         IN  /\ Good(v, b, s) /\ v.trade = w.trade
             /\ role = "entry" => id \in Entries(v.orders)
             /\ role # "entry" => id \in Exits(v.orders)
  <1> DEFINE o == IF accepted THEN NewOrder(role, qty) ELSE [NewOrder(role, qty) EXCEPT !.status = "done"]
             os == [w.orders EXCEPT ![id] = o]
             ss == <<>>
  <1>1. w \in Worlds /\ Consistent(w, b, s) /\ w.orders \in [OrderIds -> BrokerOrders]
        /\ w.signals \in Seq(OrderSignals)
    BY DEF Good, Worlds
  <1>2. o \in BrokerOrders /\ o.status \in {"sent", "done"} /\ o.exec = 0 /\ o.role = role
    BY DEF NewOrder, NoOrder, BrokerOrders, Roles
  <1> HIDE DEF o
  <1>3. os \in [OrderIds -> BrokerOrders] /\ os[id] = o
        /\ \A i \in OrderIds : i # id => os[i] = w.orders[i]
    BY <1>1, <1>2
  <1>4. Later(w.orders, os)
    BY <1>1, <1>3 DEF Later, Fresh, BrokerOrders
  <1>5. Bounded(os, b, s)
    <2> HIDE DEF os
    <2>1. ASSUME NEW i \in OrderIds PROVE os[i].exec <= IF os[i].role = "entry" THEN b ELSE s
      <3>1. CASE i = id
        BY <1>2, <1>3, <3>1
      <3>2. CASE i # id
        BY <1>1, <1>3, <3>2 DEF Consistent, Bounded
      <3> QED
        BY <3>1, <3>2
    <2> QED
      BY <2>1 DEF Bounded
  <1>6. ss \in Seq(OrderSignals) /\ AllSound(ss, os) /\ w.signals \o ss = w.signals
    BY <1>1, ConcatEmptySeq DEF AllSound
  <1>7. CreateOrder(w, id, role, qty, accepted) = [w EXCEPT !.orders = os]
    BY DEF CreateOrder, o
  <1> HIDE DEF os, ss
  <1>8. LET v == CreateOrder(w, id, role, qty, accepted)
        IN  v \in Worlds /\ v.trade = w.trade /\ v.orders = os /\ v.signals = w.signals
    BY <1>1, <1>3, <1>7 DEF Worlds
  <1>9. Changed(w, os, ss).trade = w.trade /\ Changed(w, os, ss).orders = os
        /\ Changed(w, os, ss).signals = w.signals
    BY <1>1, <1>6 DEF Changed, Worlds
  <1>10. Consistent(Changed(w, os, ss), b, s)
    <2>1. b <= b /\ s <= s
      OBVIOUS
    <2> QED
      BY <1>1, <1>3, <1>4, <1>5, <1>6, <2>1, OrdersChanged
  <1>11. Consistent(CreateOrder(w, id, role, qty, accepted), b, s)
    BY <1>8, <1>9, <1>10 DEF Consistent
  <1> QED
    BY <1>2, <1>3, <1>8, <1>11 DEF Entries, Exits, Good

LEMMA SentIds ==
  ASSUME NEW slot \in Slots, NEW id \in OrderIds, NEW qty \in Int, NEW accepted \in BOOLEAN
  PROVE  /\ SentClose(slot, id, qty, accepted) \in Slots
         /\ IdsOf(SentClose(slot, id, qty, accepted)) \subseteq IdsOf(slot) \cup {id}
         /\ SentExit(slot, id, qty, accepted) \in Slots
         /\ IdsOf(SentExit(slot, id, qty, accepted)) \subseteq IdsOf(slot) \cup {id}
  <1>1. slot.state \in States
    BY DEF Slots
  <1>2. Clear(slot, slot.state) \in Slots /\ IdsOf(Clear(slot, slot.state)) = {}
    BY <1>1, ClearType, ClearIds
  <1>3. ASSUME NEW n \in Int, NEW c \in BOOLEAN
        PROVE  LET new == [slot EXCEPT !.refId = id, !.orderedQty = n, !.closing = c]
               IN  new \in Slots /\ new.orderId = slot.orderId /\ new.refId = id
    BY DEF Slots, Ids
  <1>4. LET new == [slot EXCEPT !.refId = id, !.orderedQty = qty]
        IN  new \in Slots /\ IdsOf(new) \subseteq IdsOf(slot) \cup {id}
    BY DEF Slots, Ids, IdsOf
  <1>5. LET new == [slot EXCEPT !.refId = id]
        IN  new \in Slots /\ IdsOf(new) \subseteq IdsOf(slot) \cup {id}
    BY DEF Slots, Ids, IdsOf
  <1>6. LET new == [slot EXCEPT !.refId = id, !.orderedQty = qty, !.closing = TRUE]
        IN  new \in Slots /\ IdsOf(new) \subseteq IdsOf(slot) \cup {id}
    BY <1>3 DEF IdsOf
  <1>7. /\ SentClose(slot, id, qty, accepted) \in Slots
        /\ IdsOf(SentClose(slot, id, qty, accepted)) \subseteq IdsOf(slot) \cup {id}
    BY <1>2, <1>6 DEF SentClose
  <1>8. /\ SentExit(slot, id, qty, accepted) \in Slots
        /\ IdsOf(SentExit(slot, id, qty, accepted)) \subseteq IdsOf(slot) \cup {id}
    BY <1>2, <1>4, <1>5 DEF SentExit
  <1> QED
    BY <1>7, <1>8

(* An order is created and a slot of the exits refers to it.               *)
LEMMA ExitCreated ==
  ASSUME NEW b \in Nat, NEW s \in Nat, NEW w, Good(w, b, s),
         NEW id \in OrderIds, Fresh(w, id), NEW role \in Roles \ {"entry"}, NEW qty \in Int,
         NEW accepted \in BOOLEAN
  PROVE  LET v == CreateOrder(w, id, role, qty, accepted)
         IN  /\ Good([v EXCEPT !.trade.stop = SentClose(v.trade.stop, id, qty, accepted)], b, s)
             /\ Good([v EXCEPT !.trade.stop = SentExit(v.trade.stop, id, qty, accepted)], b, s)
             /\ Good([v EXCEPT !.trade.limit = SentExit(v.trade.limit, id, qty, accepted)], b, s)
  <1> DEFINE v == CreateOrder(w, id, role, qty, accepted)
  <1>1. Good(v, b, s) /\ id \in Exits(v.orders)
    BY Created
  <1> HIDE DEF v
  <1>2. /\ v.trade.limit \in Slots /\ v.trade.stop \in Slots
        /\ IdsOf(v.trade.limit) \cup IdsOf(v.trade.stop) \subseteq Exits(v.orders)
    BY <1>1, SlotUpdates DEF Good, Worlds, Consistent
  <1>3. ASSUME NEW slot \in Slots, IdsOf(slot) \subseteq Exits(v.orders)
        PROVE  /\ Good([v EXCEPT !.trade.stop = slot], b, s)
               /\ Good([v EXCEPT !.trade.limit = slot], b, s)
    BY <1>1, <1>3, SlotReplaced DEF WithStop, WithLimit
  <1>4. /\ SentClose(v.trade.stop, id, qty, accepted) \in Slots
        /\ IdsOf(SentClose(v.trade.stop, id, qty, accepted)) \subseteq Exits(v.orders)
    BY <1>1, <1>2, SentIds
  <1>5. /\ SentExit(v.trade.stop, id, qty, accepted) \in Slots
        /\ IdsOf(SentExit(v.trade.stop, id, qty, accepted)) \subseteq Exits(v.orders)
        /\ SentExit(v.trade.limit, id, qty, accepted) \in Slots
        /\ IdsOf(SentExit(v.trade.limit, id, qty, accepted)) \subseteq Exits(v.orders)
    BY <1>1, <1>2, SentIds
  <1> QED
    BY <1>3, <1>4, <1>5 DEF v

LEMMA CloseGood ==
  ASSUME NEW b \in Nat, NEW s \in Nat, NEW w, Good(w, b, s),
         NEW id \in OrderIds, Fresh(w, id), NEW accepted \in BOOLEAN
  PROVE  Good(Close(w, id, accepted), b, s)
  <1>1. RemainingQty(w.trade) \in Int
    BY SlotUpdates DEF Good, Worlds
  <1>2. Good(CancelExits(w), b, s) /\ Fresh(CancelExits(w), id)
    BY ExitsCanceled
  <1>3. "close" \in Roles \ {"entry"}
    BY DEF Roles
  <1> DEFINE v == CreateOrder(CancelExits(w), id, "close", RemainingQty(w.trade), accepted)
  <1>4. Good([v EXCEPT !.trade.stop = SentClose(v.trade.stop, id, RemainingQty(w.trade), accepted)], b, s)
    BY <1>1, <1>2, <1>3, ExitCreated
  <1> QED
    BY <1>4 DEF Close

LEMMA LevelReplaced ==
  ASSUME NEW b, NEW s, NEW w, Good(w, b, s), NEW price \in Nat
  PROVE  Good([w EXCEPT !.trade.takeProfit = price], b, s) /\ Good([w EXCEPT !.trade.stopLoss = price], b, s)
  <1>1. w \in Worlds /\ w.trade \in TradeRecords /\ Consistent(w, b, s)
    BY DEF Worlds, Good
  <1>2. /\ IdsOf(w.trade.entry) \subseteq Entries(w.orders)
        /\ IdsOf(w.trade.limit) \cup IdsOf(w.trade.stop) \subseteq Exits(w.orders)
    BY <1>1 DEF Consistent
  <1>3. ASSUME NEW t \in TradeRecords, t.entry = w.trade.entry, t.limit = w.trade.limit,
               t.stop = w.trade.stop, t.entryQty = w.trade.entryQty, t.exitQty = w.trade.exitQty
        PROVE  Good([w EXCEPT !.trade = t], b, s)
    BY <1>1, <1>2, <1>3, TradeReplaced DEF Good
  <1>4. LET t == [w.trade EXCEPT !.takeProfit = price]
        IN  /\ t \in TradeRecords /\ t.entry = w.trade.entry /\ t.limit = w.trade.limit
            /\ t.stop = w.trade.stop /\ t.entryQty = w.trade.entryQty /\ t.exitQty = w.trade.exitQty
    BY <1>1 DEF TradeRecords
  <1>5. LET t == [w.trade EXCEPT !.stopLoss = price]
        IN  /\ t \in TradeRecords /\ t.entry = w.trade.entry /\ t.limit = w.trade.limit
            /\ t.stop = w.trade.stop /\ t.entryQty = w.trade.entryQty /\ t.exitQty = w.trade.exitQty
    BY <1>1 DEF TradeRecords
  <1> QED
    BY <1>3, <1>4, <1>5

LEMMA ModifyGood ==
  ASSUME NEW b \in Nat, NEW s \in Nat, NEW w, Good(w, b, s),
         NEW id \in OrderIds, Fresh(w, id), NEW accepted \in BOOLEAN, NEW price \in Nat, NEW mod
  PROVE  /\ Good(ModifyStopLoss(w, id, accepted, price, mod), b, s)
         /\ Good(ModifyTakeProfit(w, id, accepted, price, mod), b, s)
  <1>1. RemainingQty(w.trade) \in Int
    BY SlotUpdates DEF Good, Worlds
  <1>2. {"stop", "limit"} \subseteq Roles \ {"entry"}
    BY DEF Roles
  <1>3. Good(ModifyStopLoss(w, id, accepted, price, mod), b, s)
    <2> DEFINE v == CreateOrder(CancelStop(w), id, "stop", RemainingQty(w.trade), accepted)
    <2>1. Good(CancelStop(w), b, s) /\ Fresh(CancelStop(w), id)
      BY Cancellations
    <2>2. Good([v EXCEPT !.trade.stop = SentExit(v.trade.stop, id, RemainingQty(w.trade), accepted)], b, s)
      BY <1>1, <1>2, <2>1, ExitCreated
    <2> QED
      BY <2>1, <2>2, LevelReplaced DEF ModifyStopLoss
  <1>4. Good(ModifyTakeProfit(w, id, accepted, price, mod), b, s)
    <2> DEFINE v == CreateOrder(CancelLimit(w), id, "limit", RemainingQty(w.trade), accepted)
    <2>1. Good(CancelLimit(w), b, s) /\ Fresh(CancelLimit(w), id)
      BY Cancellations
    <2>2. Good([v EXCEPT !.trade.limit = SentExit(v.trade.limit, id, RemainingQty(w.trade), accepted)], b, s)
      BY <1>1, <1>2, <2>1, ExitCreated
    <2> QED
      BY <2>1, <2>2, LevelReplaced DEF ModifyTakeProfit
  <1> QED
    BY <1>3, <1>4

-----------------------------------------------------------------------------
(* The steps.                                                              *)

LEMMA InvType == ASSUME BrokerInv
                 PROVE  /\ Good(World, bought, sold) /\ bought \in Nat /\ sold \in Nat
                        /\ trade \in TradeRecords /\ orders \in [OrderIds -> BrokerOrders]
                        /\ signals \in Seq(OrderSignals)
                        /\ World.trade = trade /\ World.orders = orders /\ World.signals = signals
                        /\ kind \in {"IND_MARGIN", "MARGIN"}
  BY BrokerAssumption DEF BrokerInv, Good, World, Worlds

LEMMA Becomes ==
  ASSUME BrokerInv, NEW b \in Nat, NEW s \in Nat, NEW w, Good(w, b, s), Become(w),
         UNCHANGED broker, bought' = b, sold' = s, listed' \in BOOLEAN, faults' \subseteq Faults
  PROVE  BrokerInv'
  <1>1. kind' = kind /\ style' = style /\ kind \in Kinds /\ style \in Styles
    BY DEF broker, BrokerInv
  <1>2. trade' = w.trade /\ orders' = w.orders /\ signals' = w.signals
    BY DEF Become
  <1>3. /\ w.trade \in TradeRecords /\ w.orders \in [OrderIds -> BrokerOrders]
        /\ w.signals \in Seq(OrderSignals) /\ Consistent(w, b, s)
    BY DEF Good, Worlds
  <1>4. World' \in Worlds
    BY <1>2, <1>3 DEF World, Worlds
  <1>5. Consistent(World, bought, sold)'
    BY <1>1, <1>2, <1>3 DEF Consistent, AllSound, Sound, World
  <1> QED
    BY <1>1, <1>4, <1>5 DEF BrokerInv

LEMMA SameFaults == ASSUME BrokerInv, UNCHANGED <<position, faults>>
                    PROVE  bought' = bought /\ sold' = sold /\ faults' \subseteq Faults
  BY DEF BrokerInv, position

LEMMA InitInv == Init => BrokerInv
  <1> SUFFICES ASSUME Init PROVE BrokerInv
    OBVIOUS
  <1>1. ResetTrade \in TradeRecords
    BY ResetTypes
  <1>2. orders \in [OrderIds -> BrokerOrders]
    BY DEF Init, NoOrder, BrokerOrders, Roles
  <1>3. World \in Worlds
    BY <1>1, <1>2 DEF Init, World, Worlds
  <1>4. IdsOf(ResetSlot) = {}
    BY DEF IdsOf, ResetSlot
  <1>5. Consistent(World, bought, sold)
    BY <1>4 DEF Init, World, Consistent, Bounded, AllSound, ResetTrade, NoOrder
  <1> QED
    BY <1>3, <1>5 DEF Init, BrokerInv

LEMMA OpenStep == ASSUME BrokerInv, Open PROVE BrokerInv'
  <1>1. PICK id \in NewIds, accepted \in BOOLEAN, tp \in Levels, sl \in Levels :
          Become([CreateOrder(World, id, "entry", EntrySize, accepted) EXCEPT !.trade =
                    [trade EXCEPT !.direction = 1, !.orderQuantity = EntrySize,
                       !.takeProfit = tp, !.stopLoss = sl,
                       !.entry = [ResetSlot EXCEPT !.refId = id,
                                    !.state = IF accepted THEN "UNDEFINED" ELSE "REJECTED"]]])
    BY DEF Open
  <1> DEFINE v == CreateOrder(World, id, "entry", EntrySize, accepted)
             slot == [ResetSlot EXCEPT !.refId = id, !.state = IF accepted THEN "UNDEFINED" ELSE "REJECTED"]
             t == [trade EXCEPT !.direction = 1, !.orderQuantity = EntrySize,
                                !.takeProfit = tp, !.stopLoss = sl, !.entry = slot]
  <1>2. id \in OrderIds /\ Fresh(World, id)
    BY DEF NewIds, Fresh, World
  <1>3. "entry" \in Roles /\ EntrySize \in Int /\ tp \in Nat /\ sl \in Nat
    BY BrokerAssumption DEF Roles
  <1>4. Good(v, bought, sold) /\ v.trade = trade /\ id \in Entries(v.orders)
    BY <1>2, <1>3, InvType, Created
  <1>5. slot \in Slots /\ IdsOf(slot) \subseteq {id}
    <2>1. ASSUME NEW state \in States
          PROVE  LET new == [ResetSlot EXCEPT !.refId = id, !.state = state]
                 IN  new \in Slots /\ new.orderId = NoId /\ new.refId = id
      <3>1. ResetSlot \in Slots /\ ResetSlot.orderId = NoId /\ id \in Ids
        BY <1>2, ResetTypes DEF ResetSlot, Ids
      <3> QED
        BY <3>1 DEF Slots
    <2>2. (IF accepted THEN "UNDEFINED" ELSE "REJECTED") \in States
      BY DEF States
    <2> QED
      BY <2>1, <2>2 DEF IdsOf
  <1> HIDE DEF slot, v
  <1>6. /\ t \in TradeRecords /\ t.entry = slot /\ t.limit = trade.limit /\ t.stop = trade.stop
        /\ t.entryQty = trade.entryQty /\ t.exitQty = trade.exitQty
    BY <1>3, <1>5, InvType DEF TradeRecords
  <1> HIDE DEF t
  <1>7. Good([v EXCEPT !.trade = t], bought, sold)
    <2>1. IdsOf(v.trade.limit) \cup IdsOf(v.trade.stop) \subseteq Exits(v.orders)
      BY <1>4 DEF Good, Consistent
    <2>2. v \in Worlds /\ Consistent(v, bought, sold)
      BY <1>4 DEF Good
    <2>3. [v EXCEPT !.trade = t] \in Worlds /\ Consistent([v EXCEPT !.trade = t], bought, sold)
      BY <1>4, <1>5, <1>6, <2>1, <2>2, TradeReplaced
    <2> QED
      BY <2>3 DEF Good
  <1>8. Become([v EXCEPT !.trade = t])
    BY <1>1 DEF v, t, slot
  <1> QED
    BY <1>7, <1>8, InvType, SameFaults, Becomes DEF Open

LEMMA StrategySteps ==
  ASSUME BrokerInv, ProcessExit \/ CloseAll \/ EntryTimeout \/ Modify \/ CancelClose \/ RemoveTrade
  PROVE  BrokerInv'
  <1>1. PICK w : Become(w) /\ Good(w, bought, sold) /\ UNCHANGED <<broker, position, faults, listed>>
    <2>1. Good(World, bought, sold) /\ bought \in Nat /\ sold \in Nat
      BY InvType
    <2>2. \A id \in NewIds : id \in OrderIds /\ Fresh(World, id)
      BY DEF NewIds, Fresh, World
    <2>3. \A id \in NewIds, accepted \in BOOLEAN : Good(Close(World, id, accepted), bought, sold)
      BY <2>1, <2>2, CloseGood
    <2>4. Good(CancelEntry(World), bought, sold) /\ Good(CancelOpen(World), bought, sold)
      BY <2>1, Cancellations DEF CancelOpen
    <2>5. CASE ProcessExit
      BY <2>3, <2>5 DEF ProcessExit
    <2>6. CASE CloseAll
      BY <2>3, <2>4, <2>6 DEF CloseAll
    <2>7. CASE EntryTimeout
      BY <2>4, <2>7 DEF EntryTimeout
    <2>8. CASE Modify
      <3>1. \A id \in NewIds, accepted \in BOOLEAN, price \in Levels, mod \in Mods :
              /\ Good(ModifyStopLoss(World, id, accepted, price, mod), bought, sold)
              /\ Good(ModifyTakeProfit(World, id, accepted, price, mod), bought, sold)
        BY <2>1, <2>2, ModifyGood, BrokerAssumption
      <3> QED
        BY <2>8, <3>1 DEF Modify
    <2>9. CASE CancelClose
      BY <2>1, <2>9, ExitsCanceled DEF CancelClose
    <2>10. CASE RemoveTrade
      <3>1. Good(CancelExits(CancelEntry(World)), bought, sold)
        BY <2>1, <2>4, ExitsCanceled
      <3> QED
        BY <2>10, <3>1 DEF RemoveTrade
    <2> QED
      BY <2>5, <2>6, <2>7, <2>8, <2>9, <2>10
  <1>2. listed' \in BOOLEAN
    BY <1>1 DEF BrokerInv
  <1> QED
    BY <1>1, <1>2, InvType, SameFaults, Becomes

LEMMA PurgeStep == ASSUME BrokerInv, Purge PROVE BrokerInv'
  <1>1. Become(World) /\ listed' \in BOOLEAN
    BY InvType DEF Purge, Become
  <1> QED
    BY <1>1, InvType, SameFaults, Becomes DEF Purge

(* The broker changes one of its orders and sends signals about it.        *)
LEMMA BrokerStep ==
  ASSUME BrokerInv, NEW id \in OrderIds, orders[id].status # "none",
         NEW o \in BrokerOrders, o.status # "none", o.role = orders[id].role, o.exec >= orders[id].exec,
         NEW b \in Nat, NEW s \in Nat, bought <= b, sold <= s,
         o.exec <= IF o.role = "entry" THEN b ELSE s,
         NEW ss \in Seq(OrderSignals), AllSound(ss, [orders EXCEPT ![id] = o]),
         orders' = [orders EXCEPT ![id] = o], signals' = signals \o ss, trade' = trade,
         bought' = b, sold' = s, UNCHANGED <<broker, faults, listed>>
  PROVE  BrokerInv'
  <1> DEFINE os == [orders EXCEPT ![id] = o]
  <1>1. os \in [OrderIds -> BrokerOrders] /\ Later(orders, os)
    BY InvType, StatusChanged
  <1>2. Bounded(os, b, s)
    <2>1. Bounded(orders, bought, sold) /\ \A i \in OrderIds : orders[i].exec \in Nat
      BY InvType DEF Good, Consistent, BrokerOrders
    <2>2. os[id] = o /\ \A i \in OrderIds \ {id} : os[i] = orders[i]
      BY InvType
    <2> HIDE DEF os
    <2>3. ASSUME NEW i \in OrderIds PROVE os[i].exec <= IF os[i].role = "entry" THEN b ELSE s
      <3>1. CASE i = id
        BY <2>2, <3>1
      <3>2. CASE i # id
        BY <2>1, <2>2, <3>2, InvType DEF Bounded
      <3> QED
        BY <3>1, <3>2
    <2> QED
      BY <2>3 DEF Bounded
  <1> DEFINE w == Changed(World, os, ss)
  <1>3. AllSound(ss, os)
    OBVIOUS
  <1> HIDE DEF os
  <1>4. Good(w, b, s)
    BY <1>1, <1>2, <1>3, InvType, OrdersChanged DEF Good
  <1>5. Become(w)
    BY InvType DEF Become, Changed, World, os
  <1>6. listed' \in BOOLEAN /\ faults' \subseteq Faults
    BY DEF BrokerInv
  <1> HIDE DEF w
  <1> QED
    BY <1>4, <1>5, <1>6, Becomes

LEMMA AnnouncedStep ==
  ASSUME BrokerInv, NEW id \in OrderIds, orders[id].status # "none",
         NEW status \in {"working", "done"}, NEW event \in Events \ {"TRADED"},
         orders' = [orders EXCEPT ![id].status = status], Send(<<Announce(id, event)>>),
         UNCHANGED <<broker, position, faults, trade, listed>>
  PROVE  BrokerInv'
  <1> DEFINE o == [orders[id] EXCEPT !.status = status]
             ss == <<Announce(id, event)>>
  <1>1. /\ o \in BrokerOrders /\ o.status # "none" /\ o.role = orders[id].role
        /\ o.exec = orders[id].exec /\ o.exec \in Nat
    BY InvType DEF BrokerOrders
  <1>2. o.exec <= IF o.role = "entry" THEN bought ELSE sold
    BY <1>1, InvType DEF Good, Consistent, Bounded
  <1>3. orders' = [orders EXCEPT ![id] = o] /\ signals' = signals \o ss
    BY DEF Send
  <1> HIDE DEF o
  <1>4. ss \in Seq(OrderSignals) /\ AllSound(ss, [orders EXCEPT ![id] = o])
    <2>1. [orders EXCEPT ![id] = o][id].status # "none"
      BY <1>1, InvType
    <2>2. /\ Announce(id, event) \in OrderSignals
          /\ Sound(Announce(id, event), [orders EXCEPT ![id] = o])
      BY <2>1, AnnounceSound
    <2> QED
      BY <2>2 DEF AllSound
  <1> HIDE DEF ss
  <1>5. bought <= bought /\ sold <= sold /\ o.exec >= orders[id].exec /\ bought' = bought /\ sold' = sold
    BY <1>1, InvType DEF position
  <1> QED
    BY <1>1, <1>2, <1>3, <1>4, <1>5, InvType, BrokerStep

LEMMA ExecuteStep == ASSUME BrokerInv, NEW id \in OrderIds, Execute(id) PROVE BrokerInv'
  <1>1. PICK q \in Executable(orders[id]), deleted \in BOOLEAN :
          LET exec == orders[id].exec + q
              full == exec = orders[id].quantity
          IN  /\ orders' = [orders EXCEPT ![id].exec = exec,
                                          ![id].status = IF full THEN "done" ELSE @]
              /\ bought' = IF orders[id].role = "entry" THEN bought + q ELSE bought
              /\ sold' = IF orders[id].role = "entry" THEN sold ELSE sold + q
              /\ Send(IF full /\ deleted THEN <<Execution(id, exec, q), Announce(id, "DELETED")>>
                      ELSE <<Execution(id, exec, q)>>)
    BY DEF Execute
  <1> DEFINE exec == orders[id].exec + q
             status == IF exec = orders[id].quantity THEN "done" ELSE orders[id].status
             o == [orders[id] EXCEPT !.exec = exec, !.status = status]
             b == IF orders[id].role = "entry" THEN bought + q ELSE bought
             s == IF orders[id].role = "entry" THEN sold ELSE sold + q
             ss == IF exec = orders[id].quantity /\ deleted
                   THEN <<Execution(id, exec, q), Announce(id, "DELETED")>>
                   ELSE <<Execution(id, exec, q)>>
  <1>2. /\ orders[id] \in BrokerOrders /\ orders[id].exec \in Nat /\ orders[id].quantity \in Int
        /\ orders[id].status = "working" /\ bought \in Nat /\ sold \in Nat
        /\ orders[id].exec <= IF orders[id].role = "entry" THEN bought ELSE sold
    BY InvType DEF BrokerOrders, Execute, Good, Consistent, Bounded
  <1>3. q \in Nat /\ q >= 1
    BY <1>2 DEF Executable
  <1>4. exec \in Nat /\ exec >= orders[id].exec /\ exec >= 1 /\ status \in {"working", "done"}
    BY <1>2, <1>3
  <1>5. /\ o \in BrokerOrders /\ o.status # "none" /\ o.role = orders[id].role /\ o.exec = exec
    <2> HIDE DEF exec, status
    <2> QED
      BY <1>2, <1>4 DEF BrokerOrders
  <1>6. /\ b \in Nat /\ s \in Nat /\ bought <= b /\ sold <= s
        /\ exec <= IF orders[id].role = "entry" THEN b ELSE s
    BY <1>2, <1>3
  <1>7. /\ orders' = [orders EXCEPT ![id] = o] /\ bought' = b /\ sold' = s
        /\ signals' = signals \o ss
    BY <1>1 DEF Send
  <1> HIDE DEF status, o
  <1>8. ss \in Seq(OrderSignals) /\ AllSound(ss, [orders EXCEPT ![id] = o])
    <2> DEFINE os == [orders EXCEPT ![id] = o]
    <2>1. os[id].status # "none" /\ os[id].exec = exec
      BY <1>5, InvType
    <2> HIDE DEF os
    <2>2. Execution(id, exec, q) \in OrderSignals /\ Sound(Execution(id, exec, q), os)
      <3> HIDE DEF exec
      <3>1. Execution(id, exec, q).completed \in BOOLEAN
        BY DEF Execution
      <3>2. Execution(id, exec, q) \in OrderSignals
        BY <1>3, <1>4, <3>1 DEF Execution, OrderSignals, Events, Ids
      <3>3. Sound(Execution(id, exec, q), os)
        BY <1>4, <2>1 DEF Execution, Sound
      <3> QED
        BY <3>2, <3>3
    <2>3. Announce(id, "DELETED") \in OrderSignals /\ Sound(Announce(id, "DELETED"), os)
      BY <2>1, AnnounceSound DEF Events
    <2> DEFINE e == Execution(id, exec, q)
               a == Announce(id, "DELETED")
    <2> HIDE DEF e, a
    <2>4. ss = <<e>> \/ ss = <<e, a>>
      BY DEF e, a
    <2>5. e \in OrderSignals /\ a \in OrderSignals /\ Sound(e, os) /\ Sound(a, os)
      BY <2>2, <2>3 DEF e, a
    <2> HIDE DEF ss
    <2>6. ss \in Seq(OrderSignals) /\ AllSound(ss, os)
      <3>1. CASE ss = <<e>>
        BY <2>5, <3>1 DEF AllSound
      <3>2. CASE ss = <<e, a>>
        <4>1. Len(ss) = 2 /\ ss[1] = e /\ ss[2] = a
          BY <3>2
        <4>2. \A i \in 1..2 : i = 1 \/ i = 2
          OBVIOUS
        <4>3. AllSound(ss, os)
          BY <2>5, <4>1, <4>2 DEF AllSound
        <4> QED
          BY <2>5, <3>2, <4>3
      <3> QED
        BY <2>4, <3>1, <3>2
    <2> QED
      BY <2>6 DEF os
  <1> HIDE DEF ss, exec, b, s
  <1>9. trade' = trade /\ UNCHANGED <<broker, faults, listed>> /\ orders[id].status # "none"
    BY <1>2 DEF Execute
  <1> QED
    BY <1>4, <1>5, <1>6, <1>7, <1>8, <1>9, BrokerStep

(* A signal is delivered and the remaining ones are ss.                    *)
LEMMA DeliveredStep ==
  ASSUME BrokerInv, NEW s \in OrderSignals, Sound(s, orders), trade' = Handled(trade, s),
         signals' \in Seq(OrderSignals), AllSound(signals', orders),
         UNCHANGED <<broker, position, listed, orders>>, faults' \subseteq Faults
  PROVE  BrokerInv'
  <1> DEFINE u == Handled(trade, s)
             w == [trade |-> u, orders |-> orders, signals |-> signals']
  <1>1. Heard(trade, s, u)
    BY InvType, HandledEffect DEF Sound
  <1>2. Consistent(World, bought, sold) /\ trade.entryQty \in Int /\ trade.exitQty \in Int
    BY InvType DEF Good, TradeRecords
  <1> HIDE DEF u
  <1>3. /\ IdsOf(u.entry) \subseteq Entries(orders)
        /\ IdsOf(u.limit) \cup IdsOf(u.stop) \subseteq Exits(orders)
        /\ Bounded(orders, bought, sold)
    BY <1>1, <1>2, InvType DEF Consistent, Heard
  <1>4. ASSUME NEW new, NEW old \in Int, NEW b \in Nat, NEW ids, Counted(new, old, s, ids),
               style = "cumulative", old <= b, \A id \in ids \cap OrderIds : orders[id].exec <= b
        PROVE  new <= b
    <2>1. CASE new = old
      BY <1>4, <2>1
    <2>2. CASE s.event = "TRADED" /\ s.orderId \in ids /\ (s.cum > 0 => new = s.cum)
      <3>1. s.orderId \in OrderIds /\ s.cum \in 1..orders[s.orderId].exec /\ orders[s.orderId].exec \in Nat
        BY <1>4, <2>2, InvType DEF Sound, BrokerOrders
      <3> QED
        BY <1>4, <2>2, <3>1
    <2> QED
      BY <1>4, <2>1, <2>2 DEF Counted
  <1>5. /\ style = "cumulative" => u.entryQty <= bought
        /\ style = "cumulative" /\ kind = "MARGIN" => u.exitQty <= sold
    <2>1. /\ \A id \in IdsOf(trade.entry) : id \in OrderIds /\ orders[id].exec <= bought
          /\ \A id \in IdsOf(trade.limit) \cup IdsOf(trade.stop) : id \in OrderIds /\ orders[id].exec <= sold
      BY <1>2, <1>3, InvType DEF Consistent, Bounded, Entries, Exits
    <2>2. /\ style = "cumulative" => trade.entryQty <= bought
          /\ style = "cumulative" /\ kind = "MARGIN" => trade.exitQty <= sold
      BY <1>2, InvType DEF Consistent
    <2>3. style = "cumulative" => u.entryQty <= bought
      BY <1>1, <1>2, <1>4, <2>1, <2>2, InvType DEF Heard
    <2>4. style = "cumulative" /\ kind = "MARGIN" => u.exitQty <= sold
      BY <1>1, <1>2, <1>4, <2>1, <2>2, InvType DEF Heard
    <2> QED
      BY <2>3, <2>4
  <1>6. Good(w, bought, sold)
    BY <1>1, <1>3, <1>5, InvType DEF Good, Worlds, Consistent, Heard
  <1>7. Become(w)
    BY DEF Become, u
  <1>8. listed' \in BOOLEAN /\ bought' = bought /\ sold' = sold
    BY DEF BrokerInv, position
  <1> HIDE DEF w
  <1> QED
    BY <1>6, <1>7, <1>8, InvType, Becomes

LEMMA SignalsSound == ASSUME BrokerInv
                      PROVE  AllSound(signals, orders) /\ signals \in Seq(OrderSignals)
  BY InvType DEF Good, Consistent

LEMMA TailSound ==
  ASSUME BrokerInv, signals # <<>>
  PROVE  /\ Head(signals) \in OrderSignals /\ Sound(Head(signals), orders)
         /\ Tail(signals) \in Seq(OrderSignals) /\ AllSound(Tail(signals), orders)
  <1>1. signals \in Seq(OrderSignals) /\ Len(signals) \in Nat \ {0}
        /\ Head(signals) = signals[1] /\ signals[1] \in OrderSignals
        /\ Tail(signals) \in Seq(OrderSignals) /\ Len(Tail(signals)) = Len(signals) - 1
        /\ \A i \in 1..Len(Tail(signals)) : Tail(signals)[i] = signals[i + 1]
    BY InvType
  <1>2. \A i \in 1..Len(signals) : Sound(signals[i], orders)
    BY SignalsSound DEF AllSound
  <1>3. \A i \in 1..Len(Tail(signals)) : i + 1 \in 1..Len(signals)
    BY <1>1
  <1> QED
    BY <1>1, <1>2, <1>3 DEF AllSound

LEMMA RemovedSound ==
  ASSUME BrokerInv, NEW i \in 2..Len(signals)
  PROVE  /\ signals[i] \in OrderSignals /\ Sound(signals[i], orders)
         /\ RemoveAt(signals, i) \in Seq(OrderSignals) /\ AllSound(RemoveAt(signals, i), orders)
  <1> DEFINE first == SubSeq(signals, 1, i - 1)
             last == SubSeq(signals, i + 1, Len(signals))
  <1>1. signals \in Seq(OrderSignals) /\ Len(signals) \in Nat /\ i \in 1..Len(signals)
        /\ \A j \in 1..Len(signals) : signals[j] \in OrderSignals /\ Sound(signals[j], orders)
    BY SignalsSound DEF AllSound
  <1>2. /\ first \in Seq(OrderSignals) /\ Len(first) = i - 1
        /\ \A j \in 1..Len(first) : first[j] = signals[j]
    BY <1>1
  <1>3. /\ last \in Seq(OrderSignals) /\ Len(last) = Len(signals) - i
        /\ \A j \in 1..Len(last) : last[j] = signals[i + j]
    BY <1>1
  <1> HIDE DEF first, last
  <1>4. \A j \in 1..Len(first) : Sound(first[j], orders)
    BY <1>1, <1>2
  <1>5. \A j \in 1..Len(last) : Sound(last[j], orders)
    <2>1. \A j \in 1..Len(last) : i + j \in 1..Len(signals)
      BY <1>1, <1>3
    <2> QED
      BY <1>1, <1>3, <2>1
  <1>6. /\ first \o last \in Seq(OrderSignals) /\ Len(first \o last) = Len(first) + Len(last)
        /\ \A j \in 1..Len(first) + Len(last) :
             (first \o last)[j] = IF j <= Len(first) THEN first[j] ELSE last[j - Len(first)]
    BY <1>2, <1>3, ConcatProperties
  <1>7. ASSUME NEW j \in 1..Len(first \o last) PROVE Sound((first \o last)[j], orders)
    <2>1. CASE j <= Len(first)
      <3>1. j \in 1..Len(first) /\ (first \o last)[j] = first[j]
        BY <1>2, <1>3, <1>6, <2>1
      <3> QED
        BY <1>4, <3>1
    <2>2. CASE ~(j <= Len(first))
      <3>1. j - Len(first) \in 1..Len(last) /\ (first \o last)[j] = last[j - Len(first)]
        BY <1>1, <1>2, <1>3, <1>6, <2>2
      <3> QED
        BY <1>5, <3>1
    <2> QED
      BY <2>1, <2>2
  <1>8. RemoveAt(signals, i) = first \o last
    BY DEF RemoveAt, first, last
  <1> QED
    BY <1>1, <1>6, <1>7, <1>8 DEF AllSound

LEMMA DeliverySteps ==
  ASSUME BrokerInv, Deliver \/ DeliverAgain \/ DeliverEarly \/ Lose
  PROVE  BrokerInv'
  <1>1. faults' \subseteq Faults /\ UNCHANGED <<broker, position, listed, orders>>
    BY DEF BrokerInv, Deliver, DeliverAgain, DeliverEarly, Lose, Fault
  <1>2. CASE Deliver
    BY <1>1, <1>2, TailSound, DeliveredStep DEF Deliver
  <1>3. CASE DeliverAgain
    BY <1>1, <1>3, TailSound, SignalsSound, DeliveredStep DEF DeliverAgain
  <1>4. CASE DeliverEarly
    BY <1>1, <1>4, RemovedSound, DeliveredStep DEF DeliverEarly
  <1>5. CASE Lose
    <2> DEFINE w == [World EXCEPT !.signals = Tail(signals)]
    <2>1. Tail(signals) \in Seq(OrderSignals) /\ AllSound(Tail(signals), orders)
      BY <1>5, TailSound DEF Lose
    <2>2. Good(w, bought, sold)
      BY <2>1, InvType DEF Good, Worlds, Consistent
    <2>3. Become(w)
      BY <1>1, <1>5, InvType DEF Become, Lose, World
    <2>4. listed' \in BOOLEAN /\ bought' = bought /\ sold' = sold
      BY <1>1 DEF BrokerInv, position
    <2> HIDE DEF w
    <2> QED
      BY <1>1, <2>2, <2>3, <2>4, InvType, Becomes
  <1> QED
    BY <1>2, <1>3, <1>4, <1>5

LEMMA NextInv == BrokerInv /\ [Next]_vars => BrokerInv'
  <1> SUFFICES ASSUME BrokerInv, [Next]_vars PROVE BrokerInv'
    OBVIOUS
  <1>1. ASSUME NEW id \in OrderIds, Accept(id) \/ Refuse(id) \/ Execute(id) \/ CancelByBroker(id)
        PROVE  BrokerInv'
    <2>1. CASE Accept(id)
      BY <2>1, AnnouncedStep DEF Accept, Events
    <2>2. CASE Refuse(id)
      BY <2>2, AnnouncedStep DEF Refuse, Events
    <2>3. CASE Execute(id)
      BY <2>3, ExecuteStep
    <2>4. CASE CancelByBroker(id)
      BY <2>4, AnnouncedStep DEF CancelByBroker, Events
    <2> QED
      BY <1>1, <2>1, <2>2, <2>3, <2>4
  <1>2. CASE UNCHANGED vars
    BY <1>2 DEF vars, broker, position, BrokerInv, World, Consistent, AllSound, Sound
  <1> QED
    BY <1>1, <1>2, OpenStep, StrategySteps, PurgeStep, DeliverySteps DEF Next

-----------------------------------------------------------------------------
(* The operations of the strategy are made of a few moves of the world:    *)
(* nothing, the cancellation of the order of a slot, and a new exit order. *)

SameBooks(w, v) ==
  /\ v.trade.direction = w.trade.direction /\ v.trade.orderQuantity = w.trade.orderQuantity
  /\ v.trade.entryQty = w.trade.entryQty /\ v.trade.exitQty = w.trade.exitQty

Idle(w, v) ==
  /\ v.orders = w.orders /\ v.signals = w.signals
  /\ v.trade.entry = w.trade.entry /\ v.trade.limit = w.trade.limit /\ v.trade.stop = w.trade.stop

Withdraws(w, v) ==
  \E id \in OrderIds :
    /\ w.orders[id].status = "working"
    /\ v.orders = [w.orders EXCEPT ![id] = Withdrawn(w.orders[id])]
    /\ v.signals = w.signals \o <<Announce(id, "CANCELED")>>
    /\ \/ /\ id = w.trade.entry.orderId /\ v.trade.entry = Reset(w.trade.entry, "CANCELED")
          /\ v.trade.limit = w.trade.limit /\ v.trade.stop = w.trade.stop
       \/ /\ id = w.trade.limit.orderId /\ v.trade.limit = Reset(w.trade.limit, "CANCELED")
          /\ v.trade.entry = w.trade.entry /\ v.trade.stop = w.trade.stop
       \/ /\ id = w.trade.stop.orderId /\ v.trade.stop = Reset(w.trade.stop, "CANCELED")
          /\ v.trade.entry = w.trade.entry /\ v.trade.limit = w.trade.limit
          /\ ~w.trade.stop.closing

Placed(role, qty, accepted) ==
  IF accepted THEN NewOrder(role, qty) ELSE [NewOrder(role, qty) EXCEPT !.status = "done"]

Places(w, v) ==
  \E id \in OrderIds, role \in {"limit", "stop", "close"}, qty \in Int, accepted \in BOOLEAN :
    /\ Fresh(w, id) /\ ~w.trade.stop.closing
    /\ v.orders = [w.orders EXCEPT ![id] = Placed(role, qty, accepted)]
    /\ v.signals = w.signals /\ v.trade.entry = w.trade.entry
    /\ \/ /\ role = "close" /\ qty > 0 /\ v.trade.limit = w.trade.limit
          /\ v.trade.stop = SentClose(w.trade.stop, id, qty, accepted)
       \/ /\ role = "stop" /\ v.trade.limit = w.trade.limit
          /\ v.trade.stop = SentExit(w.trade.stop, id, qty, accepted)
       \/ /\ role = "limit" /\ v.trade.stop = w.trade.stop
          /\ v.trade.limit = SentExit(w.trade.limit, id, qty, accepted)

Moves(w, v) ==
  /\ w \in Worlds /\ v \in Worlds /\ SameBooks(w, v)
  /\ Idle(w, v) \/ Withdraws(w, v) \/ Places(w, v)

(* A step of the strategy takes at most three of them, all between worlds  *)
(* that are Good.                                                          *)
MovesTo(w, v, b, s) ==
  \E x, y : /\ Moves(w, x) /\ Moves(x, y) /\ Moves(y, v)
            /\ Good(w, b, s) /\ Good(x, b, s) /\ Good(y, b, s) /\ Good(v, b, s)

LEMMA NoMove == ASSUME NEW w \in Worlds PROVE Moves(w, w)
  BY DEF Moves, Idle, SameBooks

LEMMA CancelMoves ==
  ASSUME NEW b \in Nat, NEW s \in Nat, NEW w, Good(w, b, s)
  PROVE  /\ Moves(w, CancelEntry(w)) /\ Good(CancelEntry(w), b, s)
         /\ Moves(w, CancelLimit(w)) /\ Good(CancelLimit(w), b, s)
         /\ ~w.trade.stop.closing => Moves(w, CancelStop(w)) /\ Good(CancelStop(w), b, s)
         /\ CancelLimit(w).trade.stop = w.trade.stop /\ CancelEntry(w).trade.stop = w.trade.stop
         /\ CancelStop(w).trade.limit = w.trade.limit
         /\ CancelStop(w).trade.stop.closing => w.trade.stop.closing
  <1>1. /\ w \in Worlds /\ w.trade \in TradeRecords
        /\ w.trade.entry \in Slots /\ w.trade.limit \in Slots /\ w.trade.stop \in Slots
        /\ Good(CancelEntry(w), b, s) /\ Good(CancelLimit(w), b, s) /\ Good(CancelStop(w), b, s)
    BY Cancellations, SlotUpdates DEF Good, Worlds
  <1>2. CancelEntry(w) \in Worlds /\ CancelLimit(w) \in Worlds /\ CancelStop(w) \in Worlds
    BY <1>1 DEF Good
  <1>3. ASSUME NEW slot \in Slots
        PROVE  /\ Revoke(w, slot) \in Worlds /\ Revoke(w, slot).trade = w.trade
               /\ ~Cancels(w, slot) => Revoke(w, slot) = w /\ Canceled(w, slot) = slot
               /\ Cancels(w, slot) =>
                    /\ slot.orderId \in OrderIds /\ w.orders[slot.orderId].status = "working"
                    /\ Revoke(w, slot).orders =
                         [w.orders EXCEPT ![slot.orderId] = Withdrawn(w.orders[slot.orderId])]
                    /\ Revoke(w, slot).signals = w.signals \o <<Announce(slot.orderId, "CANCELED")>>
                    /\ Canceled(w, slot) = Reset(slot, "CANCELED")
    <2>1. Revoke(w, slot) \in Worlds /\ Revoke(w, slot).trade = w.trade
      BY <1>1, Revoked DEF Good
    <2>2. Cancels(w, slot) => slot.orderId \in OrderIds /\ w.orders[slot.orderId].status = "working"
      BY DEF Cancels, Slots, Ids
    <2>3. Cancels(w, slot) =>
            /\ Revoke(w, slot).orders =
                 [w.orders EXCEPT ![slot.orderId] = Withdrawn(w.orders[slot.orderId])]
            /\ Revoke(w, slot).signals = w.signals \o <<Announce(slot.orderId, "CANCELED")>>
      BY <1>1 DEF Revoke, Worlds
    <2> QED
      BY <2>1, <2>2, <2>3 DEF Revoke, Canceled
  <1>4. ASSUME NEW x \in Worlds, x.trade = w.trade, NEW slot \in Slots
        PROVE  /\ LET v == [x EXCEPT !.trade.entry = slot]
                  IN  /\ v.orders = x.orders /\ v.signals = x.signals /\ SameBooks(w, v)
                      /\ v.trade.entry = slot /\ v.trade.limit = w.trade.limit /\ v.trade.stop = w.trade.stop
               /\ LET v == [x EXCEPT !.trade.limit = slot]
                  IN  /\ v.orders = x.orders /\ v.signals = x.signals /\ SameBooks(w, v)
                      /\ v.trade.entry = w.trade.entry /\ v.trade.limit = slot /\ v.trade.stop = w.trade.stop
               /\ LET v == [x EXCEPT !.trade.stop = slot]
                  IN  /\ v.orders = x.orders /\ v.signals = x.signals /\ SameBooks(w, v)
                      /\ v.trade.entry = w.trade.entry /\ v.trade.limit = w.trade.limit /\ v.trade.stop = slot
    BY <1>1, <1>4 DEF Worlds, TradeRecords, SameBooks
  <1>5. /\ Canceled(w, w.trade.entry) \in Slots /\ Canceled(w, w.trade.limit) \in Slots
        /\ Canceled(w, w.trade.stop) \in Slots
    BY <1>1, ResetIds
  <1>6. Moves(w, CancelEntry(w)) /\ CancelEntry(w).trade.stop = w.trade.stop
    <2> DEFINE slot == w.trade.entry
               x == Revoke(w, slot)
               new == Canceled(w, slot)
               v == [x EXCEPT !.trade.entry = new]
    <2>1. CancelEntry(w) = v
      BY <1>1, <1>3 DEF CancelEntry
    <2>0. x \in Worlds /\ x.trade = w.trade /\ new \in Slots
      BY <1>1, <1>3, <1>5
    <2>2. /\ v.orders = x.orders /\ v.signals = x.signals /\ SameBooks(w, v)
          /\ v.trade.entry = new /\ v.trade.limit = w.trade.limit /\ v.trade.stop = w.trade.stop
      <3> HIDE DEF x, new
      <3> QED
        BY <1>4, <2>0
    <2>3. ~Cancels(w, slot) => Idle(w, v)
      BY <1>1, <1>3, <2>2 DEF Idle
    <2>4. Cancels(w, slot) => Withdraws(w, v)
      <3>1. Cancels(w, slot) =>
              /\ slot.orderId \in OrderIds /\ w.orders[slot.orderId].status = "working"
              /\ v.orders = [w.orders EXCEPT ![slot.orderId] = Withdrawn(w.orders[slot.orderId])]
              /\ v.signals = w.signals \o <<Announce(slot.orderId, "CANCELED")>>
              /\ v.trade.entry = Reset(slot, "CANCELED")
        BY <1>1, <1>3, <2>2
      <3> HIDE DEF v, x, new
      <3> QED
        BY <2>2, <3>1 DEF Withdraws
    <2> HIDE DEF x, new, v
    <2> QED
      BY <1>1, <1>2, <2>1, <2>2, <2>3, <2>4 DEF Moves
  <1>7. Moves(w, CancelLimit(w)) /\ CancelLimit(w).trade.stop = w.trade.stop
    <2> DEFINE slot == w.trade.limit
               x == Revoke(w, slot)
               new == Canceled(w, slot)
               v == [x EXCEPT !.trade.limit = new]
    <2>1. CancelLimit(w) = v
      BY <1>1, <1>3 DEF CancelLimit
    <2>0. x \in Worlds /\ x.trade = w.trade /\ new \in Slots
      BY <1>1, <1>3, <1>5
    <2>2. /\ v.orders = x.orders /\ v.signals = x.signals /\ SameBooks(w, v)
          /\ v.trade.entry = w.trade.entry /\ v.trade.limit = new /\ v.trade.stop = w.trade.stop
      <3> HIDE DEF x, new
      <3> QED
        BY <1>4, <2>0
    <2>3. ~Cancels(w, slot) => Idle(w, v)
      BY <1>1, <1>3, <2>2 DEF Idle
    <2>4. Cancels(w, slot) => Withdraws(w, v)
      <3>1. Cancels(w, slot) =>
              /\ slot.orderId \in OrderIds /\ w.orders[slot.orderId].status = "working"
              /\ v.orders = [w.orders EXCEPT ![slot.orderId] = Withdrawn(w.orders[slot.orderId])]
              /\ v.signals = w.signals \o <<Announce(slot.orderId, "CANCELED")>>
              /\ v.trade.limit = Reset(slot, "CANCELED")
        BY <1>1, <1>3, <2>2
      <3> HIDE DEF v, x, new
      <3> QED
        BY <2>2, <3>1 DEF Withdraws
    <2> HIDE DEF x, new, v
    <2> QED
      BY <1>1, <1>2, <2>1, <2>2, <2>3, <2>4 DEF Moves
  <1>8. /\ ~w.trade.stop.closing => Moves(w, CancelStop(w))
        /\ CancelStop(w).trade.limit = w.trade.limit
        /\ CancelStop(w).trade.stop.closing => w.trade.stop.closing
    <2> DEFINE slot == w.trade.stop
               x == Revoke(w, slot)
               new == Canceled(w, slot)
               v == [x EXCEPT !.trade.stop = new]
    <2>1. CancelStop(w) = v
      BY <1>1, <1>3 DEF CancelStop
    <2>0. x \in Worlds /\ x.trade = w.trade /\ new \in Slots
      BY <1>1, <1>3, <1>5
    <2>2. /\ v.orders = x.orders /\ v.signals = x.signals /\ SameBooks(w, v)
          /\ v.trade.entry = w.trade.entry /\ v.trade.limit = w.trade.limit /\ v.trade.stop = new
      <3> HIDE DEF x, new
      <3> QED
        BY <1>4, <2>0
    <2>3. ~Cancels(w, slot) => Idle(w, v)
      BY <1>1, <1>3, <2>2 DEF Idle
    <2>4. Cancels(w, slot) /\ ~slot.closing => Withdraws(w, v)
      <3>1. Cancels(w, slot) =>
              /\ slot.orderId \in OrderIds /\ w.orders[slot.orderId].status = "working"
              /\ v.orders = [w.orders EXCEPT ![slot.orderId] = Withdrawn(w.orders[slot.orderId])]
              /\ v.signals = w.signals \o <<Announce(slot.orderId, "CANCELED")>>
              /\ v.trade.stop = Reset(slot, "CANCELED")
        BY <1>1, <1>3, <2>2
      <3> HIDE DEF v, x, new
      <3> QED
        BY <2>2, <3>1 DEF Withdraws
    <2>5. new.closing => slot.closing
      BY <1>1 DEF Canceled, Reset, Clear, ResetSlot, ForgetIds, Slots
    <2> HIDE DEF x, new, v
    <2> QED
      BY <1>1, <1>2, <2>1, <2>2, <2>3, <2>4, <2>5 DEF Moves
  <1> QED
    BY <1>1, <1>6, <1>7, <1>8

LEMMA PlaceMoves ==
  ASSUME NEW b \in Nat, NEW s \in Nat, NEW w, Good(w, b, s), ~w.trade.stop.closing,
         NEW id \in OrderIds, Fresh(w, id), NEW qty \in Int, NEW accepted \in BOOLEAN
  PROVE  /\ LET x == CreateOrder(w, id, "close", qty, accepted)
                v == [x EXCEPT !.trade.stop = SentClose(@, id, qty, accepted)]
            IN  qty > 0 => Moves(w, v) /\ Good(v, b, s)
         /\ LET x == CreateOrder(w, id, "stop", qty, accepted)
                v == [x EXCEPT !.trade.stop = SentExit(@, id, qty, accepted)]
            IN  Moves(w, v) /\ Good(v, b, s)
         /\ LET x == CreateOrder(w, id, "limit", qty, accepted)
                v == [x EXCEPT !.trade.limit = SentExit(@, id, qty, accepted)]
            IN  Moves(w, v) /\ Good(v, b, s)
  <1>1. w \in Worlds /\ w.trade \in TradeRecords
    BY DEF Good, Worlds
  <1>2. ASSUME NEW role \in {"limit", "stop", "close"}
        PROVE  LET x == CreateOrder(w, id, role, qty, accepted)
               IN  /\ x.trade = w.trade /\ x.signals = w.signals
                   /\ x.orders = [w.orders EXCEPT ![id] = Placed(role, qty, accepted)]
    BY <1>1 DEF CreateOrder, Placed, Worlds
  <1>3. ASSUME NEW x \in Worlds, x.trade = w.trade, NEW slot
        PROVE  /\ LET v == [x EXCEPT !.trade.limit = slot]
                  IN  /\ v.orders = x.orders /\ v.signals = x.signals /\ SameBooks(w, v)
                      /\ v.trade.entry = w.trade.entry /\ v.trade.limit = slot /\ v.trade.stop = w.trade.stop
               /\ LET v == [x EXCEPT !.trade.stop = slot]
                  IN  /\ v.orders = x.orders /\ v.signals = x.signals /\ SameBooks(w, v)
                      /\ v.trade.entry = w.trade.entry /\ v.trade.limit = w.trade.limit /\ v.trade.stop = slot
    BY <1>1, <1>3 DEF Worlds, TradeRecords, SameBooks
  <1>4. \A role \in {"limit", "stop", "close"} : /\ role \in Roles \ {"entry"}
                                                  /\ CreateOrder(w, id, role, qty, accepted) \in Worlds
    <2>1. \A role \in {"limit", "stop", "close"} : role \in Roles \ {"entry"}
      BY DEF Roles
    <2> QED
      BY <2>1, Created DEF Good
  <1>5. ASSUME qty > 0
        PROVE  LET x == CreateOrder(w, id, "close", qty, accepted)
                   v == [x EXCEPT !.trade.stop = SentClose(@, id, qty, accepted)]
               IN  Moves(w, v) /\ Good(v, b, s)
    <2> DEFINE x == CreateOrder(w, id, "close", qty, accepted)
               slot == SentClose(w.trade.stop, id, qty, accepted)
               v == [x EXCEPT !.trade.stop = SentClose(@, id, qty, accepted)]
    <2>1. Good(v, b, s)
      BY <1>4, ExitCreated
    <2>2. /\ x.trade = w.trade /\ x.signals = w.signals /\ x \in Worlds
          /\ x.orders = [w.orders EXCEPT ![id] = Placed("close", qty, accepted)]
      BY <1>2, <1>4
    <2>3. v = [x EXCEPT !.trade.stop = slot]
      BY <2>2
    <2> HIDE DEF x, slot, v
    <2>4. /\ v.orders = x.orders /\ v.signals = x.signals /\ SameBooks(w, v)
          /\ v.trade.entry = w.trade.entry /\ v.trade.limit = w.trade.limit /\ v.trade.stop = slot
      BY <2>2, <2>3 DEF Worlds, TradeRecords, SameBooks
    <2>5. Places(w, v)
      BY <1>5, <2>2, <2>4 DEF Places, slot
    <2> QED
      BY <1>1, <2>1, <2>4, <2>5 DEF Moves, Good, v, x
  <1>6. LET x == CreateOrder(w, id, "stop", qty, accepted)
            v == [x EXCEPT !.trade.stop = SentExit(@, id, qty, accepted)]
        IN  Moves(w, v) /\ Good(v, b, s)
    <2> DEFINE x == CreateOrder(w, id, "stop", qty, accepted)
               slot == SentExit(w.trade.stop, id, qty, accepted)
               v == [x EXCEPT !.trade.stop = SentExit(@, id, qty, accepted)]
    <2>1. Good(v, b, s)
      BY <1>4, ExitCreated
    <2>2. /\ x.trade = w.trade /\ x.signals = w.signals /\ x \in Worlds
          /\ x.orders = [w.orders EXCEPT ![id] = Placed("stop", qty, accepted)]
      BY <1>2, <1>4
    <2>3. v = [x EXCEPT !.trade.stop = slot]
      BY <2>2
    <2> HIDE DEF x, slot, v
    <2>4. /\ v.orders = x.orders /\ v.signals = x.signals /\ SameBooks(w, v)
          /\ v.trade.entry = w.trade.entry /\ v.trade.limit = w.trade.limit /\ v.trade.stop = slot
      BY <2>2, <2>3 DEF Worlds, TradeRecords, SameBooks
    <2>5. Places(w, v)
      BY <2>2, <2>4 DEF Places, slot
    <2> QED
      BY <1>1, <2>1, <2>4, <2>5 DEF Moves, Good, v, x
  <1>7. LET x == CreateOrder(w, id, "limit", qty, accepted)
            v == [x EXCEPT !.trade.limit = SentExit(@, id, qty, accepted)]
        IN  Moves(w, v) /\ Good(v, b, s)
    <2> DEFINE x == CreateOrder(w, id, "limit", qty, accepted)
               slot == SentExit(w.trade.limit, id, qty, accepted)
               v == [x EXCEPT !.trade.limit = SentExit(@, id, qty, accepted)]
    <2>1. Good(v, b, s)
      BY <1>4, ExitCreated
    <2>2. /\ x.trade = w.trade /\ x.signals = w.signals /\ x \in Worlds
          /\ x.orders = [w.orders EXCEPT ![id] = Placed("limit", qty, accepted)]
      BY <1>2, <1>4
    <2>3. v = [x EXCEPT !.trade.limit = slot]
      BY <2>2
    <2> HIDE DEF x, slot, v
    <2>4. /\ v.orders = x.orders /\ v.signals = x.signals /\ SameBooks(w, v)
          /\ v.trade.entry = w.trade.entry /\ v.trade.limit = slot /\ v.trade.stop = w.trade.stop
      BY <2>2, <2>3 DEF Worlds, TradeRecords, SameBooks
    <2>5. Places(w, v)
      BY <2>2, <2>4 DEF Places, slot
    <2> QED
      BY <1>1, <2>1, <2>4, <2>5 DEF Moves, Good, v, x
  <1> QED
    BY <1>5, <1>6, <1>7

LEMMA LevelMoves ==
  ASSUME NEW b, NEW s, NEW w, Good(w, b, s), NEW price \in Nat
  PROVE  /\ Moves(w, [w EXCEPT !.trade.takeProfit = price]) /\ Good([w EXCEPT !.trade.takeProfit = price], b, s)
         /\ Moves(w, [w EXCEPT !.trade.stopLoss = price]) /\ Good([w EXCEPT !.trade.stopLoss = price], b, s)
  <1>1. /\ Good([w EXCEPT !.trade.takeProfit = price], b, s) /\ Good([w EXCEPT !.trade.stopLoss = price], b, s)
        /\ w \in Worlds /\ w.trade \in TradeRecords
    BY LevelReplaced DEF Good, Worlds
  <1>2. /\ Idle(w, [w EXCEPT !.trade.takeProfit = price]) /\ SameBooks(w, [w EXCEPT !.trade.takeProfit = price])
        /\ Idle(w, [w EXCEPT !.trade.stopLoss = price]) /\ SameBooks(w, [w EXCEPT !.trade.stopLoss = price])
    BY <1>1 DEF Idle, SameBooks, Worlds, TradeRecords
  <1> QED
    BY <1>1, <1>2 DEF Moves, Good

LEMMA CloseMoves ==
  ASSUME NEW b \in Nat, NEW s \in Nat, NEW w, Good(w, b, s),
         NEW id \in OrderIds, Fresh(w, id), NEW accepted \in BOOLEAN
  PROVE  MovesTo(w, Close(w, id, accepted), b, s)
  <1>1. RemainingQty(w.trade) \in Int /\ w \in Worlds
    BY SlotUpdates DEF Good, Worlds
  <1>2. CASE w.trade.stop.closing \/ RemainingQty(w.trade) <= 0
    BY <1>1, <1>2, NoMove DEF Close, MovesTo
  <1>3. CASE ~w.trade.stop.closing /\ ~(RemainingQty(w.trade) <= 0)
    <2> DEFINE x == CancelStop(w)
               y == CancelLimit(x)
               v == [CreateOrder(y, id, "close", RemainingQty(w.trade), accepted) EXCEPT
                       !.trade.stop = SentClose(@, id, RemainingQty(w.trade), accepted)]
    <2>1. Moves(w, x) /\ Good(x, b, s) /\ ~x.trade.stop.closing /\ Fresh(x, id)
      BY <1>3, CancelMoves, Cancellations
    <2> HIDE DEF x
    <2>2. Moves(x, y) /\ Good(y, b, s) /\ ~y.trade.stop.closing /\ Fresh(y, id)
      BY <2>1, CancelMoves, Cancellations
    <2>3. Close(w, id, accepted) = v
      BY <1>3 DEF Close, CancelExits, x
    <2> HIDE DEF y
    <2>4. Moves(y, v) /\ Good(v, b, s)
      <3> DEFINE qty == RemainingQty(w.trade)
      <3>1. qty \in Int /\ qty > 0
        BY <1>1, <1>3
      <3> HIDE DEF qty
      <3>2. LET z == CreateOrder(y, id, "close", qty, accepted)
                u == [z EXCEPT !.trade.stop = SentClose(@, id, qty, accepted)]
            IN  Moves(y, u) /\ Good(u, b, s)
        BY <2>2, <3>1, PlaceMoves
      <3> QED
        BY <3>2 DEF qty
    <2> QED
      BY <2>1, <2>2, <2>3, <2>4 DEF MovesTo
  <1> QED
    BY <1>2, <1>3

LEMMA ModifyMoves ==
  ASSUME NEW b \in Nat, NEW s \in Nat, NEW w, Good(w, b, s),
         NEW id \in OrderIds, Fresh(w, id), NEW accepted \in BOOLEAN, NEW price \in Nat, NEW mod
  PROVE  /\ MovesTo(w, ModifyStopLoss(w, id, accepted, price, mod), b, s)
         /\ MovesTo(w, ModifyTakeProfit(w, id, accepted, price, mod), b, s)
  <1>1. RemainingQty(w.trade) \in Int /\ w \in Worlds
    BY SlotUpdates DEF Good, Worlds
  <1>2. CASE w.trade.stop.closing
    BY <1>1, <1>2, NoMove DEF ModifyStopLoss, ModifyTakeProfit, MovesTo
  <1>3. ASSUME ~w.trade.stop.closing
        PROVE  MovesTo(w, ModifyStopLoss(w, id, accepted, price, mod), b, s)
    <2> DEFINE x == CancelStop(w)
               y == [CreateOrder(x, id, "stop", RemainingQty(w.trade), accepted) EXCEPT
                       !.trade.stop = SentExit(@, id, RemainingQty(w.trade), accepted)]
               z == IF Effective(w.trade.stop, mod) = "DISTANT" /\ price > 0 THEN y ELSE x
               v == [z EXCEPT !.trade.stopLoss = price]
    <2>1. Moves(w, x) /\ Good(x, b, s) /\ ~x.trade.stop.closing /\ Fresh(x, id)
      BY <1>3, CancelMoves, Cancellations
    <2>2. ModifyStopLoss(w, id, accepted, price, mod) = v
      BY <1>3 DEF ModifyStopLoss
    <2> HIDE DEF x
    <2>3. Moves(x, y) /\ Good(y, b, s) /\ Moves(x, x)
      <3>1. x \in Worlds
        BY <2>1 DEF Good
      <3>2. Moves(x, x)
        BY <3>1, NoMove
      <3>3. RemainingQty(w.trade) \in Int
        BY <1>1
      <3> QED
        BY <2>1, <3>2, <3>3, PlaceMoves
    <2> HIDE DEF y
    <2>4. Moves(x, z) /\ Good(z, b, s)
      BY <2>1, <2>3
    <2> HIDE DEF z
    <2>5. Moves(z, v) /\ Good(v, b, s)
      BY <2>4, LevelMoves
    <2> QED
      BY <2>1, <2>2, <2>4, <2>5 DEF MovesTo
  <1>4. ASSUME ~w.trade.stop.closing
        PROVE  MovesTo(w, ModifyTakeProfit(w, id, accepted, price, mod), b, s)
    <2> DEFINE x == CancelLimit(w)
               y == [CreateOrder(x, id, "limit", RemainingQty(w.trade), accepted) EXCEPT
                       !.trade.limit = SentExit(@, id, RemainingQty(w.trade), accepted)]
               z == IF Effective(w.trade.limit, mod) = "DISTANT" /\ price > 0 THEN y ELSE x
               v == [z EXCEPT !.trade.takeProfit = price]
    <2>1. Moves(w, x) /\ Good(x, b, s) /\ ~x.trade.stop.closing /\ Fresh(x, id)
      BY <1>4, CancelMoves, Cancellations
    <2>2. ModifyTakeProfit(w, id, accepted, price, mod) = v
      BY <1>4 DEF ModifyTakeProfit
    <2> HIDE DEF x
    <2>3. Moves(x, y) /\ Good(y, b, s) /\ Moves(x, x)
      <3>1. x \in Worlds
        BY <2>1 DEF Good
      <3>2. Moves(x, x)
        BY <3>1, NoMove
      <3>3. RemainingQty(w.trade) \in Int
        BY <1>1
      <3> QED
        BY <2>1, <3>2, <3>3, PlaceMoves
    <2> HIDE DEF y
    <2>4. Moves(x, z) /\ Good(z, b, s)
      BY <2>1, <2>3
    <2> HIDE DEF z
    <2>5. Moves(z, v) /\ Good(v, b, s)
      BY <2>4, LevelMoves
    <2> QED
      BY <2>1, <2>2, <2>4, <2>5 DEF MovesTo
  <1> QED
    BY <1>2, <1>3, <1>4

LEMMA StrategyMoves ==
  ASSUME BrokerInv, ProcessExit \/ CloseAll \/ EntryTimeout \/ Modify \/ CancelClose \/ RemoveTrade
  PROVE  \E v : /\ Become(v) /\ MovesTo(World, v, bought, sold) /\ listed
                /\ UNCHANGED <<broker, position, faults, listed>>
  <1>1. /\ Good(World, bought, sold) /\ bought \in Nat /\ sold \in Nat /\ World \in Worlds
        /\ World.trade = trade
    BY InvType DEF Good
  <1>2. \A id \in NewIds : id \in OrderIds /\ Fresh(World, id)
    BY DEF NewIds, Fresh, World
  <1>3. \A id \in NewIds, accepted \in BOOLEAN : MovesTo(World, Close(World, id, accepted), bought, sold)
    BY <1>1, <1>2, CloseMoves
  <1>4. MovesTo(World, World, bought, sold)
    BY <1>1, NoMove DEF MovesTo
  <1>5. MovesTo(World, CancelOpen(World), bought, sold)
    BY <1>1, <1>4, CancelMoves, NoMove DEF MovesTo, CancelOpen
  <1>6. CASE ProcessExit
    BY <1>3, <1>6 DEF ProcessExit
  <1>7. CASE CloseAll
    BY <1>3, <1>5, <1>7 DEF CloseAll
  <1>8. CASE EntryTimeout
    BY <1>5, <1>8 DEF EntryTimeout
  <1>9. CASE Modify
    <2>1. \A id \in NewIds, accepted \in BOOLEAN, price \in Levels, mod \in Mods :
            /\ MovesTo(World, ModifyStopLoss(World, id, accepted, price, mod), bought, sold)
            /\ MovesTo(World, ModifyTakeProfit(World, id, accepted, price, mod), bought, sold)
      BY <1>1, <1>2, ModifyMoves, BrokerAssumption
    <2> QED
      BY <1>9, <2>1 DEF Modify
  <1>10. ASSUME NEW w, Good(w, bought, sold), ~w.trade.stop.closing
         PROVE  /\ Moves(w, CancelStop(w)) /\ Good(CancelStop(w), bought, sold)
                /\ Moves(CancelStop(w), CancelExits(w)) /\ Good(CancelExits(w), bought, sold)
    <2>1. Moves(w, CancelStop(w)) /\ Good(CancelStop(w), bought, sold)
      BY <1>1, <1>10, CancelMoves
    <2> QED
      BY <1>1, <2>1, CancelMoves DEF CancelExits
  <1>11. CASE CancelClose
    <2>1. MovesTo(World, CancelExits(World), bought, sold)
      BY <1>1, <1>10, <1>11, NoMove DEF CancelClose, MovesTo
    <2> QED
      BY <1>11, <2>1 DEF CancelClose
  <1>12. CASE RemoveTrade
    <2>1. /\ Moves(World, CancelEntry(World)) /\ Good(CancelEntry(World), bought, sold)
          /\ ~CancelEntry(World).trade.stop.closing
      BY <1>1, <1>12, CancelMoves DEF RemoveTrade
    <2>2. MovesTo(World, CancelExits(CancelEntry(World)), bought, sold)
      BY <1>1, <1>10, <2>1 DEF MovesTo
    <2> QED
      BY <1>12, <2>2 DEF RemoveTrade
  <1> QED
    BY <1>6, <1>7, <1>8, <1>9, <1>11, <1>12

-----------------------------------------------------------------------------
(* Every step of the specification, as a relation between two worlds.      *)

Opens(w, v) ==
  \E id \in OrderIds, accepted \in BOOLEAN, tp, sl \in Nat :
    /\ w.trade = ResetTrade /\ Fresh(w, id) /\ v.signals = w.signals
    /\ v.orders = [w.orders EXCEPT ![id] = Placed("entry", EntrySize, accepted)]
    /\ v.trade = [w.trade EXCEPT !.direction = 1, !.orderQuantity = EntrySize,
                    !.takeProfit = tp, !.stopLoss = sl,
                    !.entry = [ResetSlot EXCEPT !.refId = id,
                                 !.state = IF accepted THEN "UNDEFINED" ELSE "REJECTED"]]

(* The broker changes the order id to o, and announces it by ss.           *)
Announces(w, id, o, ss) ==
  \E event \in {"OPENED", "REJECTED", "CANCELED", "DELETED"} :
    /\ ss = <<Announce(id, event)>> /\ o.exec = w.orders[id].exec
    /\ o.status = IF event = "OPENED" THEN "working" ELSE "done"

Executed(id, o, q) ==
  [event |-> "TRADED", orderId |-> id, refId |-> id,
   cum |-> IF style = "cumulative" THEN o.exec ELSE 0, filled |-> q, price |-> 0,
   completed |-> o.exec = o.quantity]

Executes(w, id, o, ss, q) ==
  /\ q \in Nat /\ q > 0 /\ o.exec = w.orders[id].exec + q /\ o.exec <= o.quantity
  /\ o.status = IF o.exec = o.quantity THEN "done" ELSE "working"
  /\ \/ ss = <<Executed(id, o, q)>>
     \/ o.exec = o.quantity /\ ss = <<Executed(id, o, q), Announce(id, "DELETED")>>

Changes(w, v, id, o, ss) ==
  /\ id \in OrderIds /\ Live(w.orders[id]) /\ v.trade = w.trade
  /\ v.orders = [w.orders EXCEPT ![id] = o] /\ v.signals = w.signals \o ss
  /\ o \in BrokerOrders /\ ss \in Seq(OrderSignals)
  /\ o.role = w.orders[id].role /\ o.quantity = w.orders[id].quantity /\ o.revoked = w.orders[id].revoked

(* b and s are what the entry and the exits have executed, c and r after.  *)
Reports(w, v, b, s, c, r) ==
  \E id, o, ss :
    /\ Changes(w, v, id, o, ss)
    /\ \/ Announces(w, id, o, ss) /\ c = b /\ r = s
       \/ \E q : /\ Executes(w, id, o, ss, q)
                 /\ c = IF o.role = "entry" THEN b + q ELSE b
                 /\ r = IF o.role = "entry" THEN s ELSE s + q

Removed(ss, i, new) ==
  /\ new \in Seq(OrderSignals) /\ Len(new) = Len(ss) - 1
  /\ \A j \in 1..(Len(ss) - 1) : new[j] = IF j < i THEN ss[j] ELSE ss[j + 1]

(* A signal is delivered or lost; f are the faults so far, g those after.  *)
Hears(w, v, f, g) ==
  \E i \in 1..Len(w.signals) :
    /\ v.orders = w.orders /\ f \subseteq g
    /\ \/ /\ v.trade = Handled(w.trade, w.signals[i])
          /\ \/ v.signals = w.signals /\ "repeated" \in g
             \/ Removed(w.signals, i, v.signals) /\ (i = 1 \/ "reordered" \in g)
       \/ Removed(w.signals, i, v.signals) /\ i = 1 /\ "lost" \in g /\ v.trade = w.trade

Steps(w, b, s, l, f, v, c, r, m, g) ==
  \/ MovesTo(w, v, b, s) /\ c = b /\ r = s /\ l /\ m /\ g = f
  \/ Opens(w, v) /\ c = b /\ r = s /\ m /\ g = f
  \/ v = w /\ c = b /\ r = s /\ g = f /\ (m = l \/ (l /\ ~m))
  \/ Reports(w, v, b, s, c, r) /\ m = l /\ g = f
  \/ Hears(w, v, f, g) /\ c = b /\ r = s /\ m = l

LEMMA GoodNext ==
  ASSUME BrokerInv', UNCHANGED broker, NEW v,
         v = [trade |-> trade', orders |-> orders', signals |-> signals']
  PROVE  Good(v, bought', sold')
  <1>1. kind' = kind /\ style' = style
    BY DEF broker
  <1>2. v = World'
    BY DEF World
  <1>3. World' \in Worlds /\ Consistent(World, bought, sold)'
    BY DEF BrokerInv
  <1>4. Consistent(v, bought', sold')
    BY <1>1, <1>3, v = [trade |-> trade', orders |-> orders', signals |-> signals']
       DEF Consistent, AllSound, Sound, World
  <1> QED
    BY <1>2, <1>3, <1>4 DEF Good

LEMMA Becoming == ASSUME NEW v \in Worlds, Become(v)
                  PROVE  v = [trade |-> trade', orders |-> orders', signals |-> signals']
  BY DEF Become, Worlds

LEMMA TailRemoved ==
  ASSUME NEW ss \in Seq(OrderSignals), ss # <<>>
  PROVE  Removed(ss, 1, Tail(ss)) /\ Head(ss) = ss[1] /\ 1 \in 1..Len(ss)
  BY DEF Removed

LEMMA RemovedAt ==
  ASSUME NEW ss \in Seq(OrderSignals), NEW i \in 1..Len(ss)
  PROVE  Removed(ss, i, RemoveAt(ss, i))
  <1> DEFINE x == SubSeq(ss, 1, i - 1)
             y == SubSeq(ss, i + 1, Len(ss))
  <1>1. Len(ss) \in Nat
    OBVIOUS
  <1>2. x \in Seq(OrderSignals) /\ Len(x) = i - 1 /\ \A j \in 1..(i - 1) : x[j] = ss[j]
    BY <1>1, SubSeqProperties
  <1>3. /\ y \in Seq(OrderSignals) /\ Len(y) = Len(ss) - i
        /\ \A j \in 1..(Len(ss) - i) : y[j] = ss[i + j]
    BY <1>1, SubSeqProperties
  <1>4. RemoveAt(ss, i) = x \o y
    BY DEF RemoveAt
  <1> HIDE DEF x, y
  <1>5. /\ x \o y \in Seq(OrderSignals) /\ Len(x \o y) = Len(x) + Len(y)
        /\ \A j \in 1..(Len(x) + Len(y)) :
             (x \o y)[j] = IF j <= Len(x) THEN x[j] ELSE y[j - Len(x)]
    BY <1>2, <1>3, ConcatProperties
  <1>6. ASSUME NEW j \in 1..(Len(ss) - 1)
        PROVE  (x \o y)[j] = IF j < i THEN ss[j] ELSE ss[j + 1]
    <2>1. CASE j < i
      BY <1>1, <1>2, <1>3, <1>5, <2>1
    <2>2. CASE ~ j < i
      <3>1. j - (i - 1) \in 1..(Len(ss) - i)
        BY <1>1, <2>2
      <3>2. j \in 1..(Len(x) + Len(y)) /\ ~ j <= Len(x) /\ Len(x) = i - 1
        BY <1>1, <1>2, <1>3, <2>2
      <3>3. (x \o y)[j] = y[j - (i - 1)]
        BY <1>5, <3>2
      <3>4. y[j - (i - 1)] = ss[i + (j - (i - 1))] /\ i + (j - (i - 1)) = j + 1
        BY <1>1, <1>3, <3>1
      <3> QED
        BY <2>2, <3>3, <3>4
    <2> QED
      BY <2>1, <2>2
  <1> QED
    BY <1>1, <1>2, <1>3, <1>4, <1>5, <1>6 DEF Removed

LEMMA OpenShape ==
  ASSUME BrokerInv, Open, NEW v, v = [trade |-> trade', orders |-> orders', signals |-> signals']
  PROVE  Opens(World, v)
  <1>1. PICK id \in NewIds, accepted \in BOOLEAN, tp \in Levels, sl \in Levels :
          Become([CreateOrder(World, id, "entry", EntrySize, accepted) EXCEPT !.trade =
                    [trade EXCEPT !.direction = 1, !.orderQuantity = EntrySize,
                       !.takeProfit = tp, !.stopLoss = sl,
                       !.entry = [ResetSlot EXCEPT !.refId = id,
                                    !.state = IF accepted THEN "UNDEFINED" ELSE "REJECTED"]]])
    BY DEF Open
  <1>2. id \in OrderIds /\ Fresh(World, id) /\ tp \in Nat /\ sl \in Nat
    BY BrokerAssumption DEF NewIds, Fresh, World
  <1> DEFINE t == [trade EXCEPT !.direction = 1, !.orderQuantity = EntrySize,
                     !.takeProfit = tp, !.stopLoss = sl,
                     !.entry = [ResetSlot EXCEPT !.refId = id,
                                  !.state = IF accepted THEN "UNDEFINED" ELSE "REJECTED"]]
             os == [orders EXCEPT ![id] = Placed("entry", EntrySize, accepted)]
             x == CreateOrder(World, id, "entry", EntrySize, accepted)
  <1>3. x = [World EXCEPT !.orders = os]
    BY InvType DEF CreateOrder, Placed
  <1> HIDE DEF os, t, x
  <1>4. trade' = t /\ orders' = os /\ signals' = signals
    BY <1>1, <1>3, InvType DEF Become, World, t, x
  <1> QED
    BY <1>2, <1>4, InvType DEF Opens, Open, os, t

LEMMA BrokerShape ==
  ASSUME BrokerInv, NEW id \in OrderIds, Accept(id) \/ Refuse(id) \/ Execute(id) \/ CancelByBroker(id),
         NEW v, v = [trade |-> trade', orders |-> orders', signals |-> signals']
  PROVE  Reports(World, v, bought, sold, bought', sold') /\ UNCHANGED <<broker, faults, listed>>
  <1>1. orders[id] \in BrokerOrders /\ orders \in [OrderIds -> BrokerOrders] /\ World.orders = orders
        /\ World.trade = trade /\ World.signals = signals
    BY InvType
  <1>2. ASSUME NEW status \in {"working", "done"}, NEW event \in {"OPENED", "REJECTED", "CANCELED", "DELETED"},
               status = IF event = "OPENED" THEN "working" ELSE "done",
               Live(orders[id]), orders' = [orders EXCEPT ![id].status = status],
               Send(<<Announce(id, event)>>), UNCHANGED <<position, trade>>
        PROVE  Reports(World, v, bought, sold, bought', sold')
    <2> DEFINE o == [orders[id] EXCEPT !.status = status]
               ss == <<Announce(id, event)>>
    <2>1. /\ o \in BrokerOrders /\ o.role = orders[id].role /\ o.quantity = orders[id].quantity
          /\ o.revoked = orders[id].revoked /\ o.exec = orders[id].exec /\ o.status = status
      BY <1>1 DEF BrokerOrders
    <2>2. orders' = [orders EXCEPT ![id] = o] /\ signals' = signals \o ss /\ bought' = bought /\ sold' = sold
          /\ trade' = trade
      BY <1>1, <1>2 DEF Send, position
    <2>3. ss \in Seq(OrderSignals)
      <3>1. event \in Events \ {"TRADED"} /\ orders[id].status # "none"
        BY <1>2 DEF Events, Live
      <3> QED
        BY <3>1, AnnounceSound
    <2> HIDE DEF o
    <2>4. Announces(World, id, o, ss)
      BY <1>1, <1>2, <2>1 DEF Announces
    <2> HIDE DEF ss
    <2>5. Changes(World, v, id, o, ss)
      BY <1>1, <1>2, <2>1, <2>2, <2>3 DEF Changes
    <2> QED
      BY <2>2, <2>4, <2>5 DEF Reports
  <1>3. CASE Accept(id)
    BY <1>2, <1>3 DEF Accept, Live, position
  <1>4. CASE Refuse(id)
    BY <1>2, <1>4 DEF Refuse, Live, position
  <1>5. CASE CancelByBroker(id)
    BY <1>2, <1>5 DEF CancelByBroker, Live, position
  <1>7. UNCHANGED <<broker, faults, listed>>
    BY DEF Accept, Refuse, Execute, CancelByBroker
  <1>6. CASE Execute(id)
    <2>1. PICK q \in Executable(orders[id]), deleted \in BOOLEAN :
            LET exec == orders[id].exec + q
                full == exec = orders[id].quantity
            IN  /\ orders' = [orders EXCEPT ![id].exec = exec,
                                            ![id].status = IF full THEN "done" ELSE @]
                /\ bought' = IF orders[id].role = "entry" THEN bought + q ELSE bought
                /\ sold' = IF orders[id].role = "entry" THEN sold ELSE sold + q
                /\ Send(IF full /\ deleted THEN <<Execution(id, exec, q), Announce(id, "DELETED")>>
                        ELSE <<Execution(id, exec, q)>>)
      BY <1>6 DEF Execute
    <2> DEFINE exec == orders[id].exec + q
               status == IF exec = orders[id].quantity THEN "done" ELSE orders[id].status
               o == [orders[id] EXCEPT !.exec = exec, !.status = status]
               ss == IF exec = orders[id].quantity /\ deleted
                     THEN <<Execution(id, exec, q), Announce(id, "DELETED")>>
                     ELSE <<Execution(id, exec, q)>>
    <2>2. /\ orders[id].exec \in Nat /\ orders[id].quantity \in Int /\ orders[id].status = "working"
      BY <1>1, <1>6 DEF BrokerOrders, Execute
    <2>3. q \in Nat /\ q > 0 /\ exec \in Nat /\ exec <= orders[id].quantity
      BY <2>2 DEF Executable
    <2>4. status = IF exec = orders[id].quantity THEN "done" ELSE "working"
      BY <2>2
    <2> HIDE DEF exec, status
    <2>5. /\ o \in BrokerOrders /\ o.role = orders[id].role /\ o.quantity = orders[id].quantity
          /\ o.revoked = orders[id].revoked /\ o.exec = exec /\ o.status = status
      BY <1>1, <2>2, <2>3, <2>4 DEF BrokerOrders
    <2>6. /\ orders' = [orders EXCEPT ![id] = o] /\ signals' = signals \o ss
          /\ bought' = IF o.role = "entry" THEN bought + q ELSE bought
          /\ sold' = IF o.role = "entry" THEN sold ELSE sold + q
      BY <1>1, <2>1, <2>5 DEF Send, exec, status
    <2> HIDE DEF o
    <2>7. Execution(id, exec, q) = Executed(id, o, q)
      BY <2>5 DEF Execution, Executed
    <2>8. Executed(id, o, q) \in OrderSignals /\ Announce(id, "DELETED") \in OrderSignals
      <3>1. Executed(id, o, q).completed \in BOOLEAN
        BY DEF Executed
      <3>2. Executed(id, o, q) \in OrderSignals
        BY <2>3, <2>5, <3>1 DEF Executed, OrderSignals, Events, Ids
      <3>3. orders[id].status # "none" /\ "DELETED" \in Events \ {"TRADED"}
        BY <2>2 DEF Events
      <3> QED
        BY <3>2, <3>3, AnnounceSound
    <2>9. /\ \/ ss = <<Executed(id, o, q)>>
             \/ o.exec = o.quantity /\ ss = <<Executed(id, o, q), Announce(id, "DELETED")>>
      BY <2>5, <2>7
    <2>10. ss \in Seq(OrderSignals)
      BY <2>8, <2>9
    <2> HIDE DEF ss
    <2>11. Executes(World, id, o, ss, q)
      BY <1>1, <2>3, <2>4, <2>5, <2>9 DEF Executes, exec
    <2>12. trade' = trade /\ Live(orders[id])
      BY <1>6, <2>2 DEF Execute, Live
    <2>13. Changes(World, v, id, o, ss)
      BY <1>1, <2>5, <2>6, <2>10, <2>12 DEF Changes
    <2>14. Reports(World, v, bought, sold, bought', sold')
      BY <2>6, <2>11, <2>13 DEF Reports
    <2> QED
      BY <1>7, <2>14
  <1> QED
    BY <1>3, <1>4, <1>5, <1>6, <1>7

LEMMA DeliveryShape ==
  ASSUME BrokerInv, Deliver \/ DeliverAgain \/ DeliverEarly \/ Lose,
         NEW v, v = [trade |-> trade', orders |-> orders', signals |-> signals']
  PROVE  Hears(World, v, faults, faults') /\ UNCHANGED <<broker, position, listed>>
  <1>1. signals \in Seq(OrderSignals) /\ World.signals = signals /\ World.orders = orders
        /\ World.trade = trade /\ Len(signals) \in Nat
    BY InvType
  <1>2. signals # <<>> => Removed(signals, 1, Tail(signals)) /\ Head(signals) = signals[1] /\ 1 \in 1..Len(signals)
    BY <1>1, TailRemoved
  <1>3. CASE Deliver
    BY <1>1, <1>2, <1>3 DEF Deliver, Hears
  <1>4. CASE DeliverAgain
    BY <1>1, <1>2, <1>4 DEF DeliverAgain, Hears, Fault
  <1>5. CASE Lose
    BY <1>1, <1>2, <1>5 DEF Lose, Hears, Fault
  <1>6. CASE DeliverEarly
    <2>1. PICK i \in 2..Len(signals) : trade' = Handled(trade, signals[i]) /\ signals' = RemoveAt(signals, i)
      BY <1>6 DEF DeliverEarly
    <2>2. i \in 1..Len(signals) /\ Removed(signals, i, RemoveAt(signals, i))
      BY <1>1, RemovedAt
    <2> QED
      BY <1>1, <1>6, <2>1, <2>2 DEF DeliverEarly, Hears, Fault
  <1>7. UNCHANGED <<broker, position, listed>>
    BY DEF Deliver, DeliverAgain, DeliverEarly, Lose, Fault
  <1> QED
    BY <1>3, <1>4, <1>5, <1>6, <1>7

LEMMA WorldSteps ==
  ASSUME BrokerInv, [Next]_vars
  PROVE  \E v, c, r, m, g :
           /\ v = [trade |-> trade', orders |-> orders', signals |-> signals']
           /\ c = bought' /\ r = sold' /\ m = listed' /\ g = faults'
           /\ Good(World, bought, sold) /\ Good(v, c, r) /\ UNCHANGED broker
           /\ Steps(World, bought, sold, listed, faults, v, c, r, m, g)
  <1>1. PICK v, c, r, m, g :
          /\ v = [trade |-> trade', orders |-> orders', signals |-> signals']
          /\ c = bought' /\ r = sold' /\ m = listed' /\ g = faults'
    OBVIOUS
  <1>2. BrokerInv'
    BY NextInv
  <1>3. Good(World, bought, sold) /\ World = [trade |-> trade, orders |-> orders, signals |-> signals]
        /\ listed \in BOOLEAN
    BY InvType DEF World, BrokerInv
  <1>4. Steps(World, bought, sold, listed, faults, v, c, r, m, g) /\ UNCHANGED broker
    <2>1. ASSUME ProcessExit \/ CloseAll \/ EntryTimeout \/ Modify \/ CancelClose \/ RemoveTrade
          PROVE  Steps(World, bought, sold, listed, faults, v, c, r, m, g) /\ UNCHANGED broker
      <3>1. PICK x : /\ Become(x) /\ MovesTo(World, x, bought, sold) /\ listed
                     /\ UNCHANGED <<broker, position, faults, listed>>
        BY <2>1, StrategyMoves
      <3>2. x = v
        BY <1>1, <3>1, Becoming DEF MovesTo, Good
      <3> QED
        BY <1>1, <3>1, <3>2 DEF Steps, position
    <2>2. CASE Open
      <3>1. Opens(World, v)
        BY <1>1, <2>2, OpenShape
      <3> QED
        BY <1>1, <2>2, <3>1 DEF Steps, Open, position
    <2>3. CASE Purge
      BY <1>1, <1>3, <2>3 DEF Steps, Purge, position
    <2>4. ASSUME NEW id \in OrderIds, Accept(id) \/ Refuse(id) \/ Execute(id) \/ CancelByBroker(id)
          PROVE  Steps(World, bought, sold, listed, faults, v, c, r, m, g) /\ UNCHANGED broker
      <3>1. Reports(World, v, bought, sold, bought', sold') /\ UNCHANGED <<broker, faults, listed>>
        BY <1>1, <2>4, BrokerShape
      <3> QED
        BY <1>1, <3>1 DEF Steps
    <2>5. ASSUME Deliver \/ DeliverAgain \/ DeliverEarly \/ Lose
          PROVE  Steps(World, bought, sold, listed, faults, v, c, r, m, g) /\ UNCHANGED broker
      <3>1. Hears(World, v, faults, faults') /\ UNCHANGED <<broker, position, listed>>
        BY <1>1, <2>5, DeliveryShape
      <3> QED
        BY <1>1, <3>1 DEF Steps, position
    <2>6. CASE UNCHANGED vars
      <3>1. v = World
        BY <1>1, <1>3, <2>6 DEF vars
      <3> QED
        BY <1>1, <3>1, <2>6 DEF Steps, vars, position
    <2> QED
      BY <2>1, <2>2, <2>3, <2>4, <2>5, <2>6 DEF Next
  <1>5. Good(v, c, r)
    <2>1. Good(v, bought', sold')
      BY <1>1, <1>2, <1>4, GoodNext
    <2> QED
      BY <1>1, <2>1
  <1> QED
    BY <1>1, <1>3, <1>4, <1>5

-----------------------------------------------------------------------------
(* What a signal does to the slot it names.                                *)

(* No execution of the order follows such a signal.                        *)
Ending(s) ==
  \/ s.event \in {"REJECTED", "CANCELED", "DELETED"}
  \/ s.event = "TRADED" /\ s.completed

Booked(slot, s) == IF s.event = "TRADED" THEN ExitFill(slot, s) ELSE 0

(* An exit slot of an IndMarginTrade is cleared by the last signal of its  *)
(* order, or keeps the order and adds the execution up.                    *)
SlotHeard(old, new, s) ==
  \/ /\ IdsOf(new) = {} /\ ~new.closing /\ new.execQty = 0
     /\ \/ Ending(s)
        \/ s.event = "TRADED" /\ old.execQty + ExitFill(old, s) >= old.orderedQty
  \/ /\ ~Ending(s) /\ new.refId = old.refId /\ new.closing = old.closing
     /\ new.orderId = (IF old.orderId = NoId THEN s.orderId ELSE old.orderId)
     /\ new.orderedQty = old.orderedQty /\ new.execQty = old.execQty + Booked(old, s)
     /\ s.event = "TRADED" => old.execQty + ExitFill(old, s) < old.orderedQty

EntryHeard(t, u, s) ==
  /\ u.entryQty = IF s.event = "TRADED" THEN Accumulated(t.entryQty, s) ELSE t.entryQty
  /\ \/ u.entry.refId = t.entry.refId
     \/ Ending(s)
     \/ s.event = "TRADED" /\ u.entryQty >= t.orderQuantity

Names(slot, s) == s.orderId \in IdsOf(slot)

LEMMA TargetsNames ==
  ASSUME NEW slot \in Slots, NEW s \in OrderSignals, s.refId = s.orderId, s.orderId \in OrderIds
  PROVE  Targets(slot, s) <=> Names(slot, s)
  BY NoIdAssumption DEF Targets, Names, IdsOf

LEMMA ExitSlotHeard ==
  ASSUME NEW t \in TradeRecords, NEW slot \in Slots, NEW s \in OrderSignals, s.orderId \in OrderIds
  PROVE  LET known == Acknowledge(slot, s)
             new == IF s.event = "TRADED" THEN ExitTraded(t, known, s) ELSE Untraded(known, s)
         IN  SlotHeard(slot, new, s) /\ ExitFill(known, s) = ExitFill(slot, s)
  <1> DEFINE known == Acknowledge(slot, s)
             fill == ExitFill(slot, s)
             other(n, state) == [known EXCEPT !.execQty = n, !.state = state]
             opened == [known EXCEPT !.state = IF known.state = "NEW" THEN "OPENED" ELSE known.state]
             final == IF s.event = "TRADED" THEN ExitTraded(t, known, s) ELSE Untraded(known, s)
  <1> SUFFICES SlotHeard(slot, final, s) /\ ExitFill(known, s) = ExitFill(slot, s)
    OBVIOUS
  <1>1. /\ known \in Slots /\ known.refId = slot.refId /\ known.closing = slot.closing
        /\ known.orderedQty = slot.orderedQty /\ known.execQty = slot.execQty
        /\ known.orderId = IF slot.orderId = NoId THEN s.orderId ELSE slot.orderId
    BY AcknowledgeType DEF Acknowledge, Slots
  <1> HIDE DEF known
  <1>2. ExitFill(known, s) = fill /\ fill \in Int /\ known.execQty + fill \in Int
    <2>1. ExitFill(known, s) = fill
      BY <1>1 DEF ExitFill
    <2>2. ExitFill(known, s) \in Int /\ known.execQty \in Int
      BY <1>1, ExitTypes DEF Slots
    <2> HIDE DEF fill
    <2> QED
      BY <2>1, <2>2
  <1>3. \A state : /\ IdsOf(Clear(known, state)) = {} /\ ~Clear(known, state).closing
                   /\ Clear(known, state).execQty = 0
    BY DEF Clear, ResetSlot, IdsOf
  <1>4. \A n, state : /\ other(n, state).refId = known.refId /\ other(n, state).closing = known.closing
                      /\ other(n, state).orderId = known.orderId /\ other(n, state).execQty = n
                      /\ other(n, state).orderedQty = known.orderedQty
    BY <1>1 DEF Slots
  <1>5. /\ opened.refId = known.refId /\ opened.closing = known.closing /\ opened.orderId = known.orderId
        /\ opened.execQty = known.execQty /\ opened.orderedQty = known.orderedQty
    BY <1>1 DEF Slots
  <1>6. CASE s.event = "TRADED"
    <2> DEFINE state == ExitState(t, t.exitQty + fill, s)
               new == ExitTraded(t, known, s)
    <2>1. new = IF known.execQty + fill >= known.orderedQty \/ s.completed
                THEN Clear(known, state) ELSE other(known.execQty + fill, state)
      BY <1>2 DEF ExitTraded
    <2> HIDE DEF new, other, state, fill
    <2>2. CASE known.execQty + fill >= known.orderedQty \/ s.completed
      <3>1. IdsOf(new) = {} /\ ~new.closing /\ new.execQty = 0
        BY <1>3, <2>1, <2>2
      <3>2. Ending(s) \/ (s.event = "TRADED" /\ slot.execQty + ExitFill(slot, s) >= slot.orderedQty)
        BY <1>1, <1>6, <2>2 DEF Ending, fill
      <3>3. SlotHeard(slot, new, s)
        BY <3>1, <3>2 DEF SlotHeard
      <3> QED
        BY <1>2, <1>6, <3>3 DEF new, fill
    <2>3. CASE ~(known.execQty + fill >= known.orderedQty) /\ ~s.completed
      <3>1. /\ new.refId = slot.refId /\ new.closing = slot.closing
            /\ new.orderId = (IF slot.orderId = NoId THEN s.orderId ELSE slot.orderId)
            /\ new.orderedQty = slot.orderedQty /\ new.execQty = slot.execQty + fill
        BY <1>1, <1>4, <2>1, <2>3
      <3>2. ~Ending(s) /\ slot.execQty + fill < slot.orderedQty
        BY <1>1, <1>2, <1>6, <2>3 DEF Ending, Slots
      <3>3. SlotHeard(slot, new, s)
        BY <1>6, <3>1, <3>2 DEF SlotHeard, Booked, fill
      <3> QED
        BY <1>2, <1>6, <3>3 DEF new, fill
    <2> QED
      BY <2>2, <2>3
  <1>7. CASE s.event # "TRADED"
    <2> DEFINE new == Untraded(known, s)
    <2>1. CASE s.event \in {"REJECTED", "CANCELED", "DELETED"}
      <3>1. \E state : new = Clear(known, state)
        BY <2>1 DEF Untraded
      <3>2. Ending(s)
        BY <2>1 DEF Ending
      <3> HIDE DEF new
      <3>3. SlotHeard(slot, new, s)
        BY <1>3, <3>1, <3>2 DEF SlotHeard
      <3> QED
        BY <1>2, <1>7, <3>3 DEF new, fill
    <2>2. CASE s.event \notin {"REJECTED", "CANCELED", "DELETED"}
      <3>1. new = opened \/ new = known
        BY <2>2 DEF Untraded
      <3>2. ~Ending(s)
        BY <1>7, <2>2 DEF Ending
      <3> HIDE DEF new, opened
      <3>3. /\ new.refId = slot.refId /\ new.closing = slot.closing
            /\ new.orderId = (IF slot.orderId = NoId THEN s.orderId ELSE slot.orderId)
            /\ new.orderedQty = slot.orderedQty /\ new.execQty = slot.execQty
        BY <1>1, <1>5, <3>1
      <3>4. SlotHeard(slot, new, s)
        BY <1>7, <3>2, <3>3 DEF SlotHeard, Booked, Slots
      <3> QED
        BY <1>2, <1>7, <3>4 DEF new, fill
    <2> QED
      BY <2>1, <2>2
  <1> QED
    BY <1>6, <1>7

SameTerms(t, u) == u.direction = t.direction /\ u.orderQuantity = t.orderQuantity

LEMMA EntrySlotHeard ==
  ASSUME NEW t \in TradeRecords, NEW s \in OrderSignals, s.orderId \in OrderIds
  PROVE  /\ EntryHeard(t, EntrySignal(t, s), s) /\ SameTerms(t, EntrySignal(t, s))
         /\ EntryHeard(t, MarginEntrySignal(t, s), s) /\ SameTerms(t, MarginEntrySignal(t, s))
  <1> DEFINE known == Acknowledge(t.entry, s)
             qty == Accumulated(t.entryQty, s)
  <1>1. known \in Slots /\ known.refId = t.entry.refId /\ t.entry \in Slots /\ qty \in Int
    BY AcknowledgeType, SlotUpdates, AccumulatedType DEF Acknowledge, Slots, TradeRecords
  <1>2. \A state : [known EXCEPT !.state = state].refId = t.entry.refId
    BY <1>1 DEF Slots
  <1>3. \A slot, n : LET u == [t EXCEPT !.entryQty = n, !.entry = slot]
                         x == [t EXCEPT !.entry = slot]
                     IN  /\ u.entry = slot /\ u.entryQty = n /\ SameTerms(t, u)
                         /\ x.entry = slot /\ x.entryQty = t.entryQty /\ SameTerms(t, x)
    BY DEF TradeRecords, SameTerms
  <1>4. EntryHeard(t, EntrySignal(t, s), s) /\ SameTerms(t, EntrySignal(t, s))
    <2>1. CASE s.event = "TRADED"
      <3> DEFINE slot == IF qty >= t.orderQuantity \/ s.completed THEN Clear(known, "FILLED")
                         ELSE [known EXCEPT !.state = "PARTIALLY_FILLED"]
      <3>1. EntrySignal(t, s) = [t EXCEPT !.entryQty = qty, !.entry = slot]
        BY <2>1 DEF EntrySignal, EntryTraded, Accumulated
      <3>2. slot.refId = t.entry.refId \/ qty >= t.orderQuantity \/ s.completed
        BY <1>2
      <3> HIDE DEF slot, qty
      <3> DEFINE u == [t EXCEPT !.entryQty = qty, !.entry = slot]
      <3>3. u.entry = slot /\ u.entryQty = qty /\ SameTerms(t, u)
        BY <1>3
      <3>4. Ending(s) \/ ~s.completed
        BY <2>1 DEF Ending
      <3> HIDE DEF u
      <3>5. EntryHeard(t, u, s)
        BY <2>1, <3>2, <3>3, <3>4 DEF EntryHeard, qty
      <3> QED
        BY <3>1, <3>3, <3>5 DEF u
    <2>2. CASE s.event # "TRADED"
      <3> DEFINE slot == Untraded(known, s)
      <3>1. EntrySignal(t, s) = [t EXCEPT !.entry = slot]
        BY <2>2 DEF EntrySignal
      <3>2. slot.refId = t.entry.refId \/ Ending(s)
        BY <1>1, <1>2 DEF Untraded, Ending
      <3> HIDE DEF slot
      <3> DEFINE u == [t EXCEPT !.entry = slot]
      <3>3. u.entry = slot /\ u.entryQty = t.entryQty /\ SameTerms(t, u)
        BY DEF TradeRecords, SameTerms
      <3> HIDE DEF u
      <3>4. EntryHeard(t, u, s)
        BY <2>2, <3>2, <3>3 DEF EntryHeard
      <3> QED
        BY <3>1, <3>3, <3>4 DEF u
    <2> QED
      BY <2>1, <2>2
  <1>5. EntryHeard(t, MarginEntrySignal(t, s), s) /\ SameTerms(t, MarginEntrySignal(t, s))
    <2>1. CASE s.event = "TRADED"
      <3> DEFINE slot == [known EXCEPT !.state = IF qty >= t.orderQuantity \/ s.completed
                                                 THEN "FILLED" ELSE "PARTIALLY_FILLED"]
      <3>1. MarginEntrySignal(t, s) = [t EXCEPT !.entryQty = qty, !.entry = slot]
        BY <2>1 DEF MarginEntrySignal
      <3>2. slot.refId = t.entry.refId
        BY <1>2
      <3> HIDE DEF slot, qty
      <3> DEFINE u == [t EXCEPT !.entryQty = qty, !.entry = slot]
      <3>3. u.entry = slot /\ u.entryQty = qty /\ SameTerms(t, u)
        BY <1>3
      <3> HIDE DEF u
      <3>4. EntryHeard(t, u, s)
        BY <2>1, <3>2, <3>3 DEF EntryHeard, qty
      <3> QED
        BY <3>1, <3>3, <3>4 DEF u
    <2>2. CASE s.event # "TRADED"
      <3> DEFINE slot == IF s.event = "OPENED" THEN [known EXCEPT !.state = "OPENED"]
                         ELSE MarginUntraded(known, s)
      <3>1. MarginEntrySignal(t, s) = [t EXCEPT !.entry = slot]
        BY <2>2 DEF MarginEntrySignal
      <3>2. slot.refId = t.entry.refId \/ Ending(s)
        BY <1>1, <1>2 DEF MarginUntraded, Ending
      <3> HIDE DEF slot
      <3> DEFINE u == [t EXCEPT !.entry = slot]
      <3>3. u.entry = slot /\ u.entryQty = t.entryQty /\ SameTerms(t, u)
        BY DEF TradeRecords, SameTerms
      <3> HIDE DEF u
      <3>4. EntryHeard(t, u, s)
        BY <2>2, <3>2, <3>3 DEF EntryHeard
      <3> QED
        BY <3>1, <3>3, <3>4 DEF u
    <2> QED
      BY <2>1, <2>2
  <1> QED
    BY <1>4, <1>5

(* What a delivered signal does to the trade.                              *)
Heeds(t, s, u) ==
  /\ SameTerms(t, u)
  /\ listed /\ Names(t.entry, s) =>
       EntryHeard(t, u, s) /\ u.limit = t.limit /\ u.stop = t.stop /\ u.exitQty = t.exitQty
  /\ ~(listed /\ Names(t.entry, s)) => u.entry = t.entry /\ u.entryQty = t.entryQty
  /\ ~listed \/ ~(Names(t.entry, s) \/ Names(t.limit, s) \/ Names(t.stop, s)) => u = t
  /\ kind = "IND_MARGIN" /\ listed /\ ~Names(t.entry, s) /\ Names(t.limit, s) =>
       /\ SlotHeard(t.limit, u.limit, s) /\ u.stop = t.stop
       /\ u.exitQty = t.exitQty + Booked(t.limit, s)
  /\ kind = "IND_MARGIN" /\ listed /\ ~Names(t.entry, s) /\ ~Names(t.limit, s) /\ Names(t.stop, s) =>
       /\ SlotHeard(t.stop, u.stop, s) /\ u.limit = t.limit
       /\ u.exitQty = t.exitQty + Booked(t.stop, s)
  /\ kind = "MARGIN" => u.stop.closing = t.stop.closing

LEMMA LimitHeeds ==
  ASSUME NEW t \in TradeRecords, NEW s \in OrderSignals, s.orderId \in OrderIds
  PROVE  LET u == LimitSignal(t, s)
         IN  /\ SlotHeard(t.limit, u.limit, s) /\ u.stop = t.stop /\ u.entry = t.entry
             /\ u.entryQty = t.entryQty /\ SameTerms(t, u)
             /\ u.exitQty = t.exitQty + Booked(t.limit, s)
  <1> DEFINE known == Acknowledge(t.limit, s)
             x == ExitTraded(t, known, s)
             y == Untraded(known, s)
             fill == ExitFill(known, s)
             price == ExitPrice(t, s, fill)
  <1>1. t.limit \in Slots /\ t.exitQty \in Int
    BY SlotUpdates DEF TradeRecords
  <1>2. SlotHeard(t.limit, IF s.event = "TRADED" THEN x ELSE y, s) /\ fill = ExitFill(t.limit, s)
    BY <1>1, ExitSlotHeard
  <1>3. LimitSignal(t, s) = IF s.event = "TRADED"
                            THEN [t EXCEPT !.exitQty = @ + fill, !.exitPrice = price, !.limit = x]
                            ELSE [t EXCEPT !.limit = y]
    BY DEF LimitSignal, WithExit, TradeRecords
  <1> HIDE DEF x, y, fill, price
  <1>4. CASE s.event = "TRADED"
    BY <1>1, <1>2, <1>3, <1>4 DEF SameTerms, Booked, TradeRecords
  <1>5. CASE s.event # "TRADED"
    BY <1>1, <1>2, <1>3, <1>5 DEF SameTerms, Booked, TradeRecords
  <1> QED
    BY <1>4, <1>5

LEMMA StopHeeds ==
  ASSUME NEW t \in TradeRecords, NEW s \in OrderSignals, s.orderId \in OrderIds
  PROVE  LET u == StopSignal(t, s)
         IN  /\ SlotHeard(t.stop, u.stop, s) /\ u.limit = t.limit /\ u.entry = t.entry
             /\ u.entryQty = t.entryQty /\ SameTerms(t, u)
             /\ u.exitQty = t.exitQty + Booked(t.stop, s)
  <1> DEFINE known == Acknowledge(t.stop, s)
             x == ExitTraded(t, known, s)
             y == Untraded(known, s)
             fill == ExitFill(known, s)
             price == ExitPrice(t, s, fill)
  <1>1. t.stop \in Slots /\ t.exitQty \in Int
    BY SlotUpdates DEF TradeRecords
  <1>2. SlotHeard(t.stop, IF s.event = "TRADED" THEN x ELSE y, s) /\ fill = ExitFill(t.stop, s)
    BY <1>1, ExitSlotHeard
  <1>3. StopSignal(t, s) = IF s.event = "TRADED"
                           THEN [t EXCEPT !.exitQty = @ + fill, !.exitPrice = price, !.stop = x]
                           ELSE [t EXCEPT !.stop = y]
    BY DEF StopSignal, WithExit, TradeRecords
  <1> HIDE DEF x, y, fill, price
  <1>4. CASE s.event = "TRADED"
    BY <1>1, <1>2, <1>3, <1>4 DEF SameTerms, Booked, TradeRecords
  <1>5. CASE s.event # "TRADED"
    BY <1>1, <1>2, <1>3, <1>5 DEF SameTerms, Booked, TradeRecords
  <1> QED
    BY <1>4, <1>5

LEMMA MarginHeeds ==
  ASSUME NEW t \in TradeRecords, NEW s \in OrderSignals, s.orderId \in OrderIds
  PROVE  LET x == [t EXCEPT !.limit = MarginExit(t, Acknowledge(@, s), s), !.exitQty = MarginExitQty(t, s)]
             y == [t EXCEPT !.stop = MarginExit(t, Acknowledge(@, s), s), !.exitQty = MarginExitQty(t, s)]
         IN  /\ x.stop = t.stop /\ x.entry = t.entry /\ x.entryQty = t.entryQty /\ SameTerms(t, x)
             /\ y.entry = t.entry /\ y.entryQty = t.entryQty /\ SameTerms(t, y)
             /\ y.stop.closing = t.stop.closing
  <1> DEFINE known == Acknowledge(t.stop, s)
             new == MarginExit(t, known, s)
             y == [t EXCEPT !.stop = MarginExit(t, Acknowledge(@, s), s), !.exitQty = MarginExitQty(t, s)]
  <1>1. t.stop \in Slots /\ known \in Slots /\ known.closing = t.stop.closing
    BY SlotUpdates, AcknowledgeType DEF Acknowledge, Slots
  <1> HIDE DEF known
  <1>2. \A state : /\ [known EXCEPT !.state = state].closing = known.closing
                   /\ ForgetIds(known, state).closing = known.closing
    BY <1>1 DEF Slots, ForgetIds
  <1>3. new.closing = known.closing
    <2>1. MarginUntraded(known, s).closing = known.closing
      BY <1>2 DEF MarginUntraded
    <2> QED
      BY <1>2, <2>1 DEF MarginExit
  <1>4. y.stop = new
    BY DEF TradeRecords, known
  <1> HIDE DEF new, y
  <1>5. y.stop.closing = t.stop.closing
    BY <1>1, <1>3, <1>4
  <1> QED
    BY <1>5 DEF TradeRecords, SameTerms, y

LEMMA HandledHeeds ==
  ASSUME NEW t \in TradeRecords, NEW s \in OrderSignals, s.refId = s.orderId, s.orderId \in OrderIds,
         kind \in {"IND_MARGIN", "MARGIN"}
  PROVE  Heeds(t, s, Handled(t, s))
  <1>1. t.entry \in Slots /\ t.limit \in Slots /\ t.stop \in Slots
    BY SlotUpdates
  <1>2. /\ Targets(t.entry, s) <=> Names(t.entry, s)
        /\ Targets(t.limit, s) <=> Names(t.limit, s)
        /\ Targets(t.stop, s) <=> Names(t.stop, s)
    BY <1>1, TargetsNames
  <1>3. CASE ~listed \/ ~(Names(t.entry, s) \/ Names(t.limit, s) \/ Names(t.stop, s))
    <2>1. Handled(t, s) = t
      BY <1>2, <1>3 DEF Handled, IsTargetOrder
    <2> QED
      BY <1>3, <2>1 DEF Heeds, SameTerms
  <1>4. CASE listed /\ Names(t.entry, s)
    <2>1. Handled(t, s) = IF kind = "IND_MARGIN" THEN EntrySignal(t, s) ELSE MarginEntrySignal(t, s)
      BY <1>2, <1>4 DEF Handled, IsTargetOrder, OrderSignal, MarginOrderSignal
    <2>2. LET u == EntrySignal(t, s)
          IN  u.limit = t.limit /\ u.stop = t.stop /\ u.exitQty = t.exitQty
      BY <1>2, <1>4, EntrySignalEffect
    <2>3. LET u == MarginEntrySignal(t, s)
          IN  u.limit = t.limit /\ u.stop = t.stop /\ u.exitQty = t.exitQty
      BY <1>2, <1>4, MarginEntryEffect
    <2>4. /\ EntryHeard(t, EntrySignal(t, s), s) /\ SameTerms(t, EntrySignal(t, s))
          /\ EntryHeard(t, MarginEntrySignal(t, s), s) /\ SameTerms(t, MarginEntrySignal(t, s))
      BY EntrySlotHeard
    <2>5. \E u : /\ Handled(t, s) = u /\ EntryHeard(t, u, s) /\ SameTerms(t, u)
                 /\ u.limit = t.limit /\ u.stop = t.stop /\ u.exitQty = t.exitQty
      BY <2>1, <2>2, <2>3, <2>4
    <2> QED
      BY <1>4, <2>5 DEF Heeds
  <1>5. CASE listed /\ ~Names(t.entry, s) /\ Names(t.limit, s)
    <2>1. CASE kind = "IND_MARGIN"
      <3>1. Handled(t, s) = LimitSignal(t, s)
        BY <1>2, <1>5, <2>1 DEF Handled, IsTargetOrder, OrderSignal
      <3> QED
        BY <1>5, <2>1, <3>1, LimitHeeds DEF Heeds
    <2>2. CASE kind = "MARGIN"
      <3>1. Handled(t, s) = [t EXCEPT !.limit = MarginExit(t, Acknowledge(@, s), s), !.exitQty = MarginExitQty(t, s)]
        BY <1>2, <1>5, <2>2 DEF Handled, IsTargetOrder, MarginOrderSignal
      <3> DEFINE u == [t EXCEPT !.limit = MarginExit(t, Acknowledge(@, s), s), !.exitQty = MarginExitQty(t, s)]
      <3>2. u.stop = t.stop /\ u.entry = t.entry /\ u.entryQty = t.entryQty /\ SameTerms(t, u)
        BY MarginHeeds
      <3> HIDE DEF u
      <3>3. Handled(t, s) = u
        BY <3>1 DEF u
      <3> QED
        BY <1>5, <2>2, <3>2, <3>3 DEF Heeds
    <2> QED
      BY <2>1, <2>2
  <1>6. CASE listed /\ ~Names(t.entry, s) /\ ~Names(t.limit, s) /\ Names(t.stop, s)
    <2>1. CASE kind = "IND_MARGIN"
      <3>1. Handled(t, s) = StopSignal(t, s)
        BY <1>2, <1>6, <2>1 DEF Handled, IsTargetOrder, OrderSignal
      <3> QED
        BY <1>6, <2>1, <3>1, StopHeeds DEF Heeds
    <2>2. CASE kind = "MARGIN"
      <3>1. Handled(t, s) = [t EXCEPT !.stop = MarginExit(t, Acknowledge(@, s), s), !.exitQty = MarginExitQty(t, s)]
        BY <1>2, <1>6, <2>2 DEF Handled, IsTargetOrder, MarginOrderSignal
      <3> DEFINE u == [t EXCEPT !.stop = MarginExit(t, Acknowledge(@, s), s), !.exitQty = MarginExitQty(t, s)]
      <3>2. /\ u.entry = t.entry /\ u.entryQty = t.entryQty /\ SameTerms(t, u)
            /\ u.stop.closing = t.stop.closing
        BY MarginHeeds
      <3> HIDE DEF u
      <3>3. Handled(t, s) = u
        BY <3>1 DEF u
      <3> QED
        BY <1>6, <2>2, <3>2, <3>3 DEF Heeds
    <2> QED
      BY <2>1, <2>2
  <1> QED
    BY <1>3, <1>4, <1>5, <1>6

-----------------------------------------------------------------------------
(* The sequences of signals.                                               *)

LEMMA GoodTypes ==
  ASSUME NEW w, NEW b, NEW s, Good(w, b, s)
  PROVE  /\ w.trade \in TradeRecords /\ w.orders \in [OrderIds -> BrokerOrders]
         /\ w.signals \in Seq(OrderSignals) /\ Len(w.signals) \in Nat
         /\ w.trade.entry \in Slots /\ w.trade.limit \in Slots /\ w.trade.stop \in Slots
         /\ w.trade.entryQty \in Int /\ w.trade.exitQty \in Int
         /\ \A id \in OrderIds : w.orders[id] \in BrokerOrders /\ w.orders[id].exec \in Nat
         /\ \A i \in 1..Len(w.signals) :
              LET x == w.signals[i]
              IN  /\ x \in OrderSignals /\ x.orderId \in OrderIds /\ x.refId = x.orderId
                  /\ w.orders[x.orderId].status # "none"
         /\ IdsOf(w.trade.entry) \subseteq Entries(w.orders)
         /\ IdsOf(w.trade.limit) \subseteq Exits(w.orders) /\ IdsOf(w.trade.stop) \subseteq Exits(w.orders)
  <1>1. /\ w.trade \in TradeRecords /\ w.orders \in [OrderIds -> BrokerOrders]
        /\ w.signals \in Seq(OrderSignals) /\ Consistent(w, b, s)
    BY DEF Good, Worlds
  <1>2. \A id \in OrderIds : w.orders[id] \in BrokerOrders /\ w.orders[id].exec \in Nat
    BY <1>1 DEF BrokerOrders
  <1>3. \A i \in 1..Len(w.signals) : Sound(w.signals[i], w.orders) /\ w.signals[i] \in OrderSignals
    BY <1>1 DEF Consistent, AllSound
  <1>4. w.trade.entryQty \in Int /\ w.trade.exitQty \in Int
    BY <1>1 DEF TradeRecords
  <1>5. /\ IdsOf(w.trade.entry) \subseteq Entries(w.orders)
        /\ IdsOf(w.trade.limit) \subseteq Exits(w.orders) /\ IdsOf(w.trade.stop) \subseteq Exits(w.orders)
    BY <1>1 DEF Consistent
  <1> QED
    BY <1>1, <1>2, <1>3, <1>4, <1>5, SlotUpdates DEF Sound

LEMMA Appended ==
  ASSUME NEW ss \in Seq(OrderSignals), NEW new \in Seq(OrderSignals)
  PROVE  /\ Len(ss \o new) = Len(ss) + Len(new) /\ Len(ss) \in Nat /\ Len(new) \in Nat
         /\ \A i \in 1..Len(ss) : i \in 1..Len(ss \o new) /\ (ss \o new)[i] = ss[i]
         /\ \A i \in 1..Len(new) : Len(ss) + i \in 1..Len(ss \o new) /\ (ss \o new)[Len(ss) + i] = new[i]
         /\ \A i \in 1..Len(ss \o new) : i \in 1..Len(ss) \/ i - Len(ss) \in 1..Len(new)
  BY ConcatProperties

LEMMA OneOrTwo ==
  ASSUME NEW x, NEW y
  PROVE  /\ Len(<<x>>) = 1 /\ <<x>>[1] = x /\ \A i \in 1..1 : i = 1
         /\ Len(<<x, y>>) = 2 /\ <<x, y>>[1] = x /\ <<x, y>>[2] = y /\ \A i \in 1..2 : i = 1 \/ i = 2
  OBVIOUS

-----------------------------------------------------------------------------
(* The closing flag of the stop slot.                                      *)

RolesKept(w) ==
  /\ \A id \in IdsOf(w.trade.limit) : w.orders[id].role = "limit"
  /\ \A id \in IdsOf(w.trade.stop) : w.orders[id].role \in {"stop", "close"}

(* Another signal about the order is still to come.                        *)
Awaited(w, id) ==
  Live(w.orders[id]) \/ \E i \in 1..Len(w.signals) : w.signals[i].refId = id /\ Ending(w.signals[i])

ClosingKept(w, l, f) ==
  /\ RolesKept(w)
  /\ w.trade.stop.closing =>
       /\ kind = "IND_MARGIN" /\ w.trade.stop.refId \in OrderIds
       /\ w.orders[w.trade.stop.refId].role = "close"
       /\ l /\ "lost" \notin f => Awaited(w, w.trade.stop.refId)

LEMMA ResetSlotIds ==
  ASSUME NEW slot \in Slots
  PROVE  /\ IdsOf(Reset(slot, "CANCELED")) = {} /\ (Reset(slot, "CANCELED").closing => slot.closing)
         /\ Reset(slot, "CANCELED").execQty \in {0, slot.execQty}
  <1>1. "CANCELED" \in States
    BY DEF States
  <1>2. IdsOf(Reset(slot, "CANCELED")) = {}
    BY <1>1, ClearIds, ForgetIdsType DEF Reset
  <1> QED
    BY <1>2 DEF Reset, Clear, ResetSlot, ForgetIds, Slots

LEMMA AwaitedStays ==
  ASSUME NEW w, NEW v, NEW id \in OrderIds, NEW ss \in Seq(OrderSignals), w.signals \in Seq(OrderSignals),
         v.signals = w.signals \o ss, Awaited(w, id),
         \/ Live(w.orders[id]) => Live(v.orders[id])
         \/ \E i \in 1..Len(ss) : ss[i].refId = id /\ Ending(ss[i])
  PROVE  Awaited(v, id)
  <1>1. /\ \A i \in 1..Len(w.signals) : i \in 1..Len(v.signals) /\ v.signals[i] = w.signals[i]
        /\ \A i \in 1..Len(ss) : Len(w.signals) + i \in 1..Len(v.signals) /\ v.signals[Len(w.signals) + i] = ss[i]
    BY Appended
  <1> QED
    BY <1>1 DEF Awaited

LEMMA ClosingMoves ==
  ASSUME NEW b, NEW s, NEW w, NEW v, Good(w, b, s), Moves(w, v), NEW l, NEW f, ClosingKept(w, l, f),
         kind \in {"IND_MARGIN", "MARGIN"}
  PROVE  ClosingKept(v, l, f)
  <1>1. CASE Idle(w, v)
    BY <1>1 DEF Idle, ClosingKept, RolesKept, Awaited
  <1>2. CASE Withdraws(w, v)
    <2>1. PICK id \in OrderIds :
            /\ w.orders[id].status = "working"
            /\ v.orders = [w.orders EXCEPT ![id] = Withdrawn(w.orders[id])]
            /\ v.signals = w.signals \o <<Announce(id, "CANCELED")>>
            /\ \/ /\ id = w.trade.entry.orderId /\ v.trade.entry = Reset(w.trade.entry, "CANCELED")
                  /\ v.trade.limit = w.trade.limit /\ v.trade.stop = w.trade.stop
               \/ /\ id = w.trade.limit.orderId /\ v.trade.limit = Reset(w.trade.limit, "CANCELED")
                  /\ v.trade.entry = w.trade.entry /\ v.trade.stop = w.trade.stop
               \/ /\ id = w.trade.stop.orderId /\ v.trade.stop = Reset(w.trade.stop, "CANCELED")
                  /\ v.trade.entry = w.trade.entry /\ v.trade.limit = w.trade.limit
                  /\ ~w.trade.stop.closing
      BY <1>2 DEF Withdraws
    <2>2. \A j \in OrderIds : v.orders[j].role = w.orders[j].role /\ (j # id => v.orders[j] = w.orders[j])
      <3>1. w.orders \in [OrderIds -> BrokerOrders]
        BY GoodTypes
      <3>2. Withdrawn(w.orders[id]).role = w.orders[id].role
        BY <3>1, WithdrawnFields
      <3> QED
        BY <2>1, <3>1, <3>2
    <2>3. /\ IdsOf(v.trade.limit) \subseteq IdsOf(w.trade.limit)
          /\ IdsOf(v.trade.stop) \subseteq IdsOf(w.trade.stop)
          /\ IdsOf(w.trade.limit) \subseteq OrderIds /\ IdsOf(w.trade.stop) \subseteq OrderIds
      BY <2>1, GoodTypes, ResetSlotIds DEF Exits
    <2>4. RolesKept(v)
      BY <2>2, <2>3 DEF RolesKept, ClosingKept
    <2>5. v.trade.stop.closing => v.trade.stop = w.trade.stop
      <3>1. Reset(w.trade.stop, "CANCELED").closing => w.trade.stop.closing
        BY GoodTypes, ResetSlotIds
      <3>2. \/ v.trade.stop = w.trade.stop
            \/ v.trade.stop = Reset(w.trade.stop, "CANCELED") /\ ~w.trade.stop.closing
        BY <2>1
      <3> QED
        BY <3>1, <3>2
    <2>6. ASSUME NEW j \in OrderIds, Awaited(w, j) PROVE Awaited(v, j)
      <3> DEFINE ss == <<Announce(id, "CANCELED")>>
      <3>1. /\ Announce(id, "CANCELED") \in OrderSignals
            /\ Announce(id, "CANCELED").refId = id /\ Ending(Announce(id, "CANCELED"))
        BY <2>1, AnnounceSound DEF Announce, Ending, Events
      <3>2. ss \in Seq(OrderSignals) /\ (j = id => \E i \in 1..Len(ss) : ss[i].refId = j /\ Ending(ss[i]))
        <4>1. Len(ss) = 1 /\ ss[1] = Announce(id, "CANCELED") /\ 1 \in 1..1
          OBVIOUS
        <4> HIDE DEF ss
        <4>2. j = id => \E i \in 1..Len(ss) : ss[i].refId = j /\ Ending(ss[i])
          BY <3>1, <4>1
        <4> QED
          BY <3>1, <4>2 DEF ss
      <3> HIDE DEF ss
      <3>3. j # id => (Live(w.orders[j]) => Live(v.orders[j]))
        BY <2>2
      <3> QED
        BY <2>1, <2>6, <3>2, <3>3, AwaitedStays, GoodTypes DEF ss
    <2> QED
      BY <2>2, <2>4, <2>5, <2>6 DEF ClosingKept
  <1>3. CASE Places(w, v)
    <2>1. PICK id \in OrderIds, role \in {"limit", "stop", "close"}, qty \in Int, accepted \in BOOLEAN :
            /\ Fresh(w, id) /\ ~w.trade.stop.closing
            /\ v.orders = [w.orders EXCEPT ![id] = Placed(role, qty, accepted)]
            /\ v.signals = w.signals /\ v.trade.entry = w.trade.entry
            /\ \/ /\ role = "close" /\ qty > 0 /\ v.trade.limit = w.trade.limit
                  /\ v.trade.stop = SentClose(w.trade.stop, id, qty, accepted)
               \/ /\ role = "stop" /\ v.trade.limit = w.trade.limit
                  /\ v.trade.stop = SentExit(w.trade.stop, id, qty, accepted)
               \/ /\ role = "limit" /\ v.trade.stop = w.trade.stop
                  /\ v.trade.limit = SentExit(w.trade.limit, id, qty, accepted)
      BY <1>3 DEF Places
    <2>2. /\ v.orders[id].role = role /\ (accepted => Live(v.orders[id]))
          /\ \A j \in OrderIds : j # id => v.orders[j] = w.orders[j]
      BY <2>1, GoodTypes DEF Placed, NewOrder, NoOrder, Live
    <2>3. /\ IdsOf(w.trade.limit) \subseteq OrderIds \ {id} /\ IdsOf(w.trade.stop) \subseteq OrderIds \ {id}
      BY <2>1, GoodTypes DEF Exits, Fresh
    <2>4. /\ IdsOf(v.trade.limit) \subseteq IdsOf(w.trade.limit) \cup (IF role = "limit" THEN {id} ELSE {})
          /\ IdsOf(v.trade.stop) \subseteq IdsOf(w.trade.stop) \cup (IF role = "limit" THEN {} ELSE {id})
      BY <2>1, GoodTypes, SentIds
    <2>5. RolesKept(v)
      BY <2>1, <2>2, <2>3, <2>4 DEF RolesKept, ClosingKept
    <2>6. v.trade.stop.closing => kind = "IND_MARGIN" /\ v.trade.stop.refId = id /\ role = "close" /\ accepted
      <3>1. /\ ~Clear(w.trade.stop, w.trade.stop.state).closing
            /\ [w.trade.stop EXCEPT !.refId = id].closing = w.trade.stop.closing
            /\ [w.trade.stop EXCEPT !.refId = id, !.orderedQty = qty].closing = w.trade.stop.closing
            /\ [w.trade.stop EXCEPT !.refId = id, !.orderedQty = qty, !.closing = TRUE].refId = id
        BY GoodTypes DEF Clear, ResetSlot, Slots
      <3>2. SentExit(w.trade.stop, id, qty, accepted).closing => w.trade.stop.closing
        BY <3>1 DEF SentExit
      <3>3. SentClose(w.trade.stop, id, qty, accepted).closing /\ ~w.trade.stop.closing =>
              /\ kind = "IND_MARGIN" /\ accepted
              /\ SentClose(w.trade.stop, id, qty, accepted).refId = id
        BY <3>1 DEF SentClose
      <3> QED
        BY <2>1, <3>2, <3>3
    <2> QED
      BY <2>2, <2>5, <2>6 DEF ClosingKept, Awaited
  <1> QED
    BY <1>1, <1>2, <1>3 DEF Moves

LEMMA ClosingOpens ==
  ASSUME NEW w, NEW v, NEW b, NEW s, Good(w, b, s), Opens(w, v), NEW l, NEW f
  PROVE  ClosingKept(v, l, f)
  <1>1. v.trade.limit = ResetSlot /\ v.trade.stop = ResetSlot
    BY GoodTypes DEF Opens, ResetTrade
  <1>2. IdsOf(ResetSlot) = {} /\ ~ResetSlot.closing
    BY DEF ResetSlot, IdsOf
  <1> QED
    BY <1>1, <1>2 DEF ClosingKept, RolesKept

LEMMA ExecutedFields ==
  ASSUME NEW id, NEW o, NEW q
  PROVE  LET x == Executed(id, o, q)
         IN  /\ x.event = "TRADED" /\ x.orderId = id /\ x.refId = id /\ x.filled = q
             /\ x.cum = IF style = "cumulative" THEN o.exec ELSE 0
             /\ x.completed <=> o.exec = o.quantity
  <1>1. Executed(id, o, q).completed = (o.exec = o.quantity)
    BY DEF Executed
  <1>2. Executed(id, o, q).completed <=> o.exec = o.quantity
    BY <1>1, Zenon
  <1> QED
    BY <1>2 DEF Executed

(* An order the broker reports about stays live, or the report ends it.    *)
Ends(w, v, id, o, ss) ==
  /\ id \in OrderIds /\ o \in BrokerOrders /\ ss \in Seq(OrderSignals)
  /\ v.trade = w.trade /\ v.orders = [w.orders EXCEPT ![id] = o] /\ v.signals = w.signals \o ss
  /\ v.orders[id] = o /\ \A j \in OrderIds : j # id => v.orders[j] = w.orders[j]
  /\ Live(w.orders[id]) /\ o.role = w.orders[id].role
  /\ Live(o) \/ \E i \in 1..Len(ss) : ss[i].refId = id /\ Ending(ss[i])

LEMMA ReportEnds ==
  ASSUME NEW w, NEW v, NEW b, NEW s, NEW c, NEW r, Reports(w, v, b, s, c, r), Good(w, b, s)
  PROVE  \E id, o, ss : Ends(w, v, id, o, ss)
  <1>1. PICK id, o, ss :
          /\ Changes(w, v, id, o, ss)
          /\ Announces(w, id, o, ss) \/ \E q : Executes(w, id, o, ss, q)
    BY DEF Reports
  <1>2. /\ id \in OrderIds /\ o \in BrokerOrders /\ ss \in Seq(OrderSignals)
        /\ v.trade = w.trade /\ v.orders = [w.orders EXCEPT ![id] = o] /\ v.signals = w.signals \o ss
        /\ Live(w.orders[id]) /\ o.role = w.orders[id].role
    BY <1>1 DEF Changes
  <1>3. v.orders[id] = o /\ \A j \in OrderIds : j # id => v.orders[j] = w.orders[j]
    BY <1>2, GoodTypes
  <1>4. ASSUME Announces(w, id, o, ss)
        PROVE  Live(o) \/ \E i \in 1..Len(ss) : ss[i].refId = id /\ Ending(ss[i])
    <2>1. PICK event \in {"OPENED", "REJECTED", "CANCELED", "DELETED"} :
            ss = <<Announce(id, event)>> /\ o.status = IF event = "OPENED" THEN "working" ELSE "done"
      BY <1>4 DEF Announces
    <2>2. Len(ss) = 1 /\ ss[1] = Announce(id, event) /\ 1 \in 1..Len(ss)
      BY <2>1
    <2>3. event # "OPENED" => ss[1].refId = id /\ Ending(ss[1])
      BY <2>2 DEF Announce, Ending
    <2> QED
      BY <2>1, <2>2, <2>3 DEF Live
  <1>5. ASSUME NEW q, Executes(w, id, o, ss, q)
        PROVE  Live(o) \/ \E i \in 1..Len(ss) : ss[i].refId = id /\ Ending(ss[i])
    <2>1. o.status = IF o.exec = o.quantity THEN "done" ELSE "working"
      BY <1>5 DEF Executes
    <2>2. ss = <<Executed(id, o, q)>> \/ ss = <<Executed(id, o, q), Announce(id, "DELETED")>>
      BY <1>5 DEF Executes
    <2>3. 1 \in 1..Len(ss) /\ ss[1] = Executed(id, o, q)
      BY <2>2
    <2>4. o.exec = o.quantity => ss[1].refId = id /\ Ending(ss[1])
      BY <2>3, ExecutedFields DEF Ending
    <2> QED
      BY <2>1, <2>3, <2>4 DEF Live
  <1>6. Live(o) \/ \E i \in 1..Len(ss) : ss[i].refId = id /\ Ending(ss[i])
    BY <1>1, <1>4, <1>5
  <1>7. Ends(w, v, id, o, ss)
    BY <1>2, <1>3, <1>6, Zenon DEF Ends
  <1> QED
    BY <1>7

LEMMA ClosingReports ==
  ASSUME NEW w, NEW v, NEW b, NEW s, NEW c, NEW r, Reports(w, v, b, s, c, r), Good(w, b, s),
         NEW l, NEW f, ClosingKept(w, l, f)
  PROVE  ClosingKept(v, l, f)
  <1>0. PICK id, o, ss : Ends(w, v, id, o, ss)
    BY ReportEnds
  <1>1. /\ id \in OrderIds /\ o \in BrokerOrders /\ ss \in Seq(OrderSignals)
        /\ v.trade = w.trade /\ v.orders = [w.orders EXCEPT ![id] = o] /\ v.signals = w.signals \o ss
        /\ v.orders[id] = o /\ \A j \in OrderIds : j # id => v.orders[j] = w.orders[j]
        /\ Live(w.orders[id]) /\ o.role = w.orders[id].role
        /\ Live(o) \/ \E i \in 1..Len(ss) : ss[i].refId = id /\ Ending(ss[i])
    BY <1>0 DEF Ends
  <1>2. \A j \in OrderIds : v.orders[j].role = w.orders[j].role
    BY <1>1
  <1>3. ASSUME NEW j \in OrderIds, Awaited(w, j) PROVE Awaited(v, j)
    <2>1. w.signals \in Seq(OrderSignals)
      BY GoodTypes
    <2>2. Live(v.orders[j]) \/ v.orders[j] = w.orders[j] \/ \E i \in 1..Len(ss) : ss[i].refId = j /\ Ending(ss[i])
      BY <1>1
    <2>3. ss \in Seq(OrderSignals) /\ v.signals = w.signals \o ss
      BY <1>1
    <2> QED
      BY <1>3, <2>1, <2>2, <2>3, AwaitedStays
  <1>4. IdsOf(w.trade.limit) \subseteq OrderIds /\ IdsOf(w.trade.stop) \subseteq OrderIds
    BY GoodTypes DEF Exits
  <1> QED
    BY <1>1, <1>2, <1>3, <1>4 DEF ClosingKept, RolesKept

LEMMA HearsShape ==
  ASSUME NEW w, NEW v, NEW b, NEW s, Good(w, b, s), NEW f, NEW g, Hears(w, v, f, g),
         kind \in {"IND_MARGIN", "MARGIN"}
  PROVE  \E i \in 1..Len(w.signals) :
           /\ v.orders = w.orders /\ f \subseteq g
           /\ \/ /\ Heeds(w.trade, w.signals[i], v.trade) /\ Heard(w.trade, w.signals[i], v.trade)
                 /\ \/ v.signals = w.signals /\ "repeated" \in g
                    \/ Removed(w.signals, i, v.signals) /\ (i = 1 \/ "reordered" \in g)
              \/ Removed(w.signals, i, v.signals) /\ i = 1 /\ "lost" \in g /\ v.trade = w.trade
  <1>1. \A i \in 1..Len(w.signals) : /\ Heeds(w.trade, w.signals[i], Handled(w.trade, w.signals[i]))
                                     /\ Heard(w.trade, w.signals[i], Handled(w.trade, w.signals[i]))
    BY GoodTypes, HandledHeeds, HandledEffect
  <1> QED
    BY <1>1 DEF Hears

LEMMA RemovedKeeps ==
  ASSUME NEW ss \in Seq(OrderSignals), NEW i \in 1..Len(ss), NEW new, Removed(ss, i, new)
  PROVE  /\ Len(ss) \in Nat /\ Len(new) = Len(ss) - 1 /\ new \in Seq(OrderSignals)
         /\ \A j \in 1..Len(ss) : j # i => \E m \in 1..Len(new) : new[m] = ss[j]
         /\ \A j \in 1..Len(new) : /\ new[j] = ss[IF j < i THEN j ELSE j + 1]
                                   /\ (IF j < i THEN j ELSE j + 1) \in 1..Len(ss) \ {i}
  <1>1. /\ Len(ss) \in Nat /\ Len(new) = Len(ss) - 1 /\ new \in Seq(OrderSignals)
        /\ \A j \in 1..(Len(ss) - 1) : new[j] = IF j < i THEN ss[j] ELSE ss[j + 1]
    BY DEF Removed
  <1>2. ASSUME NEW j \in 1..Len(ss), j # i PROVE \E m \in 1..Len(new) : new[m] = ss[j]
    <2>1. CASE j < i
      BY <1>1, <2>1
    <2>2. CASE j > i
      <3>1. j - 1 \in 1..Len(new) /\ ~(j - 1 < i) /\ (j - 1) + 1 = j
        BY <1>1, <2>2
      <3> QED
        BY <1>1, <3>1
    <2> QED
      BY <1>2, <2>1, <2>2
  <1> QED
    BY <1>1, <1>2

LEMMA ClosingHears ==
  ASSUME NEW w, NEW v, NEW b, NEW s, Good(w, b, s), NEW f, NEW g, Hears(w, v, f, g),
         kind \in {"IND_MARGIN", "MARGIN"}, ClosingKept(w, listed, f)
  PROVE  ClosingKept(v, listed, g)
  <1>1. PICK i \in 1..Len(w.signals) :
           /\ v.orders = w.orders /\ f \subseteq g
           /\ \/ /\ Heeds(w.trade, w.signals[i], v.trade) /\ Heard(w.trade, w.signals[i], v.trade)
                 /\ v.signals = w.signals \/ Removed(w.signals, i, v.signals)
              \/ Removed(w.signals, i, v.signals) /\ "lost" \in g /\ v.trade = w.trade
    BY HearsShape
  <1> DEFINE x == w.signals[i]
  <1>2. x \in OrderSignals /\ x.orderId \in OrderIds /\ x.refId = x.orderId
    BY GoodTypes
  <1>3. /\ IdsOf(v.trade.limit) \subseteq IdsOf(w.trade.limit)
        /\ IdsOf(v.trade.stop) \subseteq IdsOf(w.trade.stop)
    BY <1>1 DEF Heard
  <1>4. RolesKept(v)
    BY <1>1, <1>3 DEF RolesKept, ClosingKept
  <1>5. CASE "lost" \in g /\ v.trade = w.trade
    BY <1>1, <1>4, <1>5 DEF ClosingKept
  <1>6. ASSUME Heeds(w.trade, x, v.trade), v.trade.stop.closing
        PROVE  /\ w.trade.stop.closing /\ v.trade.stop.refId = w.trade.stop.refId
               /\ listed /\ x.refId = w.trade.stop.refId => ~Ending(x)
    <2>1. w.trade.stop.closing /\ kind = "IND_MARGIN"
      <3>1. kind = "MARGIN" => ~w.trade.stop.closing
        BY DEF ClosingKept
      <3>2. kind = "IND_MARGIN" => w.trade.stop.closing
        BY <1>6 DEF Heeds, SlotHeard
      <3> QED
        BY <1>6, <3>1, <3>2 DEF Heeds
    <2>2. v.trade.stop.refId = w.trade.stop.refId
      BY <1>6, <2>1 DEF Heeds, SlotHeard
    <2>3. ASSUME listed, x.refId = w.trade.stop.refId PROVE ~Ending(x)
      <3>1. w.trade.stop.refId \in IdsOf(w.trade.stop) /\ w.orders[x.orderId].role = "close"
        BY <1>2, <2>1, <2>3, NoIdAssumption DEF IdsOf, ClosingKept
      <3>2. Names(w.trade.stop, x) /\ ~Names(w.trade.limit, x) /\ ~Names(w.trade.entry, x)
        BY <1>2, <2>3, <3>1, GoodTypes DEF Names, ClosingKept, RolesKept, Entries
      <3>3. SlotHeard(w.trade.stop, v.trade.stop, x)
        BY <1>6, <2>1, <2>3, <3>2 DEF Heeds
      <3> QED
        BY <1>6, <3>3 DEF SlotHeard
    <2> QED
      BY <2>1, <2>2, <2>3
  <1>7. ASSUME Heeds(w.trade, x, v.trade), v.trade.stop.closing, listed, "lost" \notin g
        PROVE  Awaited(v, v.trade.stop.refId)
    <2>1. Awaited(w, w.trade.stop.refId)
      BY <1>1, <1>6, <1>7 DEF ClosingKept
    <2>2. CASE Live(w.orders[w.trade.stop.refId])
      BY <1>1, <1>6, <1>7, <2>2 DEF Awaited
    <2>3. ASSUME NEW j \in 1..Len(w.signals), w.signals[j].refId = w.trade.stop.refId, Ending(w.signals[j])
          PROVE  Awaited(v, v.trade.stop.refId)
      <3>1. j # i
        BY <1>6, <1>7, <2>3
      <3>2. \E m \in 1..Len(v.signals) : v.signals[m] = w.signals[j]
        <4>1. v.signals = w.signals \/ Removed(w.signals, i, v.signals)
          BY <1>1
        <4>2. w.signals \in Seq(OrderSignals)
          BY GoodTypes
        <4>3. CASE v.signals = w.signals
          BY <2>3, <4>3
        <4>4. ASSUME Removed(w.signals, i, v.signals)
              PROVE  \E m \in 1..Len(v.signals) : v.signals[m] = w.signals[j]
          <5> DEFINE ss == w.signals
                     new == v.signals
          <5>1. ss \in Seq(OrderSignals) /\ i \in 1..Len(ss) /\ Removed(ss, i, new)
            BY <4>2, <4>4
          <5> HIDE DEF ss, new
          <5>2. \A n \in 1..Len(ss) : n # i => \E m \in 1..Len(new) : new[m] = ss[n]
            BY <5>1, RemovedKeeps
          <5> QED
            BY <2>3, <3>1, <5>2 DEF ss, new
        <4> QED
          BY <4>1, <4>3, <4>4
      <3> QED
        BY <1>6, <1>7, <2>3, <3>2 DEF Awaited
    <2> QED
      BY <2>1, <2>2, <2>3 DEF Awaited
  <1> HIDE DEF x
  <1>8. CASE Heeds(w.trade, x, v.trade)
    BY <1>1, <1>4, <1>6, <1>7, <1>8 DEF ClosingKept
  <1> QED
    BY <1>1, <1>5, <1>8 DEF x

LEMMA ClosingSteps ==
  ASSUME BrokerInv, ClosingKept(World, listed, faults), [Next]_vars
  PROVE  ClosingKept(World, listed, faults)'
  <1>1. PICK v, c, r, m, g :
           /\ v = [trade |-> trade', orders |-> orders', signals |-> signals']
           /\ c = bought' /\ r = sold' /\ m = listed' /\ g = faults'
           /\ Good(World, bought, sold) /\ Good(v, c, r) /\ UNCHANGED broker
           /\ Steps(World, bought, sold, listed, faults, v, c, r, m, g)
    BY WorldSteps
  <1>2. kind \in {"IND_MARGIN", "MARGIN"}
    BY InvType
  <1>3. ClosingKept(v, m, g)
    <2>1. CASE MovesTo(World, v, bought, sold) /\ listed /\ m /\ g = faults
      <3>1. PICK x, y : /\ Moves(World, x) /\ Moves(x, y) /\ Moves(y, v)
                        /\ Good(x, bought, sold) /\ Good(y, bought, sold)
        BY <2>1 DEF MovesTo
      <3>2. ClosingKept(x, listed, faults)
        BY <1>1, <1>2, <3>1, ClosingMoves
      <3>3. ClosingKept(y, listed, faults)
        BY <1>2, <3>1, <3>2, ClosingMoves
      <3>4. ClosingKept(v, listed, faults)
        BY <1>2, <3>1, <3>3, ClosingMoves
      <3> QED
        BY <2>1, <3>4 DEF ClosingKept
    <2>2. CASE Opens(World, v)
      BY <1>1, <2>2, ClosingOpens
    <2>3. CASE v = World /\ g = faults /\ (m = listed \/ (listed /\ ~m))
      BY <2>3 DEF ClosingKept
    <2>4. CASE Reports(World, v, bought, sold, c, r) /\ m = listed /\ g = faults
      BY <1>1, <2>4, ClosingReports
    <2>5. CASE Hears(World, v, faults, g) /\ m = listed
      BY <1>1, <1>2, <2>5, ClosingHears
    <2> QED
      BY <1>1, <2>1, <2>2, <2>3, <2>4, <2>5 DEF Steps
  <1>4. v.trade = trade' /\ v.orders = orders' /\ v.signals = signals' /\ kind' = kind
    BY <1>1 DEF broker
  <1> HIDE <1>1
  <1>5. m = listed' /\ g = faults'
    BY <1>1
  <1> QED
    BY <1>3, <1>4, <1>5 DEF ClosingKept, RolesKept, Awaited, World

LEMMA ClosingInvariant == Spec => [](BrokerInv /\ ClosingKept(World, listed, faults))
  <1>1. Init => ClosingKept(World, listed, faults)
    <2>1. IdsOf(ResetSlot) = {} /\ ~ResetSlot.closing
      BY DEF ResetSlot, IdsOf
    <2> QED
      BY <2>1 DEF Init, World, ResetTrade, ClosingKept, RolesKept
  <1> DEFINE P == ClosingKept(World, listed, faults)
  <1>2. BrokerInv /\ P /\ [Next]_vars => P'
    BY ClosingSteps
  <1>3. Init => P
    BY <1>1
  <1> HIDE DEF P
  <1>4. Spec => [](BrokerInv /\ P)
    BY <1>2, <1>3, InitInv, NextInv, PTL DEF Spec
  <1> QED
    BY <1>4 DEF P

\* The closing flag of an IndMarginTrade is set only while the order close() sent
\* is live or has the signal that ends it on its way: whatever is repeated or
\* reordered, what stop.closing blocks in close(), modifyStopLoss(),
\* modifyTakeProfit() and remove() is not blocked for good.
THEOREM ClosingEndsAlways == Spec => []ClosingEnds
  <1>1. BrokerInv /\ ClosingKept(World, listed, faults) => ClosingEnds
    <2> SUFFICES ASSUME BrokerInv, ClosingKept(World, listed, faults),
                        trade.stop.closing, listed, "lost" \notin faults
                 PROVE  \E id \in Used("close") :
                          /\ id = trade.stop.refId
                          /\ Live(orders[id]) \/ \E i \in DOMAIN signals : signals[i].refId = id
      BY DEF ClosingEnds
    <2>1. World.trade = trade /\ World.orders = orders /\ World.signals = signals /\ Good(World, bought, sold)
      BY InvType
    <2>2. /\ trade.stop.refId \in OrderIds /\ orders[trade.stop.refId].role = "close"
          /\ Awaited(World, trade.stop.refId)
      BY <2>1 DEF ClosingKept
    <2>3. trade.stop.refId \in Exits(orders)
      BY <2>1, <2>2, GoodTypes, NoIdAssumption DEF IdsOf
    <2>4. DOMAIN signals = 1..Len(signals)
      BY <2>1, GoodTypes
    <2> QED
      BY <2>1, <2>2, <2>3, <2>4 DEF Awaited, Used, Exits
  <1> QED
    BY <1>1, ClosingInvariant, PTL

-----------------------------------------------------------------------------
(* The orders and the signals about them.  An order that executed something *)
(* is live only until it is full; no signal ends an order that is live, and *)
(* no execution is announced after the signal that ends its order.          *)

Whole(o) == o.exec > 0 => o.exec <= o.quantity /\ (Live(o) => o.exec < o.quantity)

Sized(o) ==
  o.status # "none" => /\ o.role = "entry" => o.quantity = EntrySize
                       /\ o.role = "close" => o.quantity > 0

OrdersKept(w) ==
  /\ \A id \in OrderIds : Whole(w.orders[id]) /\ Sized(w.orders[id])
  /\ \A i \in 1..Len(w.signals) : Ending(w.signals[i]) => ~Live(w.orders[w.signals[i].orderId])
  /\ \A i, j \in 1..Len(w.signals) :
       i < j /\ Ending(w.signals[i]) /\ w.signals[j].event = "TRADED"
         => w.signals[i].orderId # w.signals[j].orderId

Trades(w, i, id) ==
  i \in 1..Len(w.signals) /\ w.signals[i].event = "TRADED" /\ w.signals[i].orderId = id

(* k gives for each execution on its way what its order had executed then. *)
Noted(w, i, id, n) ==
  /\ w.signals[i].filled >= 1 /\ w.signals[i].filled <= n /\ n <= w.orders[id].exec
  /\ w.signals[i].cum = IF style = "cumulative" THEN n ELSE 0
  /\ w.signals[i].completed <=> n = w.orders[id].quantity

Ledger(w, k) ==
  /\ k \in [1..Len(w.signals) -> Nat]
  /\ \A i \in 1..Len(w.signals), id \in OrderIds : Trades(w, i, id) => Noted(w, i, id, k[i])
  /\ \A i, j \in 1..Len(w.signals), id \in OrderIds :
       i < j /\ Trades(w, i, id) /\ Trades(w, j, id) => k[i] <= k[j] - w.signals[j].filled

(* The signals ss tell that the order id has become o.                     *)
Tells(w, v, id, o, ss) ==
  /\ id \in OrderIds /\ Live(w.orders[id]) /\ o \in BrokerOrders /\ ss \in Seq(OrderSignals)
  /\ v.orders = [w.orders EXCEPT ![id] = o] /\ v.signals = w.signals \o ss
  /\ o.role = w.orders[id].role /\ o.quantity = w.orders[id].quantity
  /\ o.exec >= w.orders[id].exec /\ o.status # "none"
  /\ o.exec > w.orders[id].exec =>
       /\ o.exec <= o.quantity /\ (Live(o) => o.exec < o.quantity)
       /\ 1 \in 1..Len(ss) /\ ss[1].event = "TRADED"
  /\ \A m \in 1..Len(ss) :
       /\ ss[m].orderId = id /\ (Ending(ss[m]) => ~Live(o))
       /\ ss[m].event = "TRADED" =>
            /\ m = 1 /\ ss[m].filled = o.exec - w.orders[id].exec /\ ss[m].filled >= 1
            /\ ss[m].cum = IF style = "cumulative" THEN o.exec ELSE 0
            /\ ss[m].completed <=> o.exec = o.quantity

Creates(w, v, id, o) ==
  /\ id \in OrderIds /\ Fresh(w, id) /\ o \in BrokerOrders /\ o.exec = 0 /\ o.status # "none" /\ Sized(o)
  /\ v.orders = [w.orders EXCEPT ![id] = o] /\ v.signals = w.signals

Drops(w, v, i) == i \in 1..Len(w.signals) /\ v.orders = w.orders /\ Removed(w.signals, i, v.signals)

(* The accounts of the signals of w are kept, the new signals have n.      *)
Grown(w, k, v, h, n) ==
  /\ \A i \in 1..Len(w.signals) : i \in 1..Len(v.signals) /\ v.signals[i] = w.signals[i] /\ h[i] = k[i]
  /\ \A i \in 1..Len(v.signals) : i \in 1..Len(w.signals) \/ (i > Len(w.signals) /\ h[i] = n)

ToldShape(w, v, id, o) ==
  /\ Len(w.signals) \in Nat /\ Len(v.signals) \in Nat
  /\ \A i \in 1..Len(w.signals) : i \in 1..Len(v.signals) /\ v.signals[i] = w.signals[i]
  /\ \A i \in 1..Len(v.signals) :
       \/ i \in 1..Len(w.signals)
       \/ /\ i > Len(w.signals) /\ v.signals[i].orderId = id
          /\ Ending(v.signals[i]) => ~Live(o)
          /\ v.signals[i].event = "TRADED" =>
               /\ i = Len(w.signals) + 1
               /\ v.signals[i].filled = o.exec - w.orders[id].exec /\ v.signals[i].filled >= 1
               /\ v.signals[i].cum = IF style = "cumulative" THEN o.exec ELSE 0
               /\ v.signals[i].completed <=> o.exec = o.quantity
  /\ o.exec > w.orders[id].exec =>
       /\ Len(w.signals) + 1 \in 1..Len(v.signals)
       /\ v.signals[Len(w.signals) + 1].event = "TRADED" /\ v.signals[Len(w.signals) + 1].orderId = id
  /\ v.orders[id] = o /\ \A j \in OrderIds : j # id => v.orders[j] = w.orders[j]

LEMMA TellsSignals ==
  ASSUME NEW w, NEW v, NEW b, NEW s, Good(w, b, s), NEW id, NEW o, NEW ss, Tells(w, v, id, o, ss)
  PROVE  ToldShape(w, v, id, o)
  <1>1. /\ w.signals \in Seq(OrderSignals) /\ ss \in Seq(OrderSignals) /\ v.signals = w.signals \o ss
        /\ w.orders \in [OrderIds -> BrokerOrders] /\ id \in OrderIds /\ v.orders = [w.orders EXCEPT ![id] = o]
    BY GoodTypes DEF Tells
  <1>2. /\ Len(v.signals) = Len(w.signals) + Len(ss) /\ Len(w.signals) \in Nat /\ Len(ss) \in Nat
        /\ \A i \in 1..Len(w.signals) : i \in 1..Len(v.signals) /\ v.signals[i] = w.signals[i]
        /\ \A i \in 1..Len(ss) : Len(w.signals) + i \in 1..Len(v.signals) /\ v.signals[Len(w.signals) + i] = ss[i]
        /\ \A i \in 1..Len(v.signals) : i \in 1..Len(w.signals) \/ i - Len(w.signals) \in 1..Len(ss)
    BY <1>1, Appended
  <1>3. v.orders[id] = o /\ \A j \in OrderIds : j # id => v.orders[j] = w.orders[j]
    BY <1>1
  <1>4. ASSUME NEW i \in 1..Len(v.signals), i \notin 1..Len(w.signals)
        PROVE  /\ i > Len(w.signals) /\ i - Len(w.signals) \in 1..Len(ss)
               /\ v.signals[i] = ss[i - Len(w.signals)]
    <2>1. i > Len(w.signals) /\ i - Len(w.signals) \in 1..Len(ss) /\ Len(w.signals) + (i - Len(w.signals)) = i
      BY <1>2, <1>4
    <2> QED
      BY <1>2, <2>1
  <1>5. ASSUME NEW i \in 1..Len(v.signals), i \notin 1..Len(w.signals)
        PROVE  /\ i > Len(w.signals) /\ v.signals[i].orderId = id
               /\ Ending(v.signals[i]) => ~Live(o)
               /\ v.signals[i].event = "TRADED" =>
                    /\ i = Len(w.signals) + 1
                    /\ v.signals[i].filled = o.exec - w.orders[id].exec /\ v.signals[i].filled >= 1
                    /\ v.signals[i].cum = IF style = "cumulative" THEN o.exec ELSE 0
                    /\ v.signals[i].completed <=> o.exec = o.quantity
    <2> DEFINE m == i - Len(w.signals)
    <2>1. m \in 1..Len(ss) /\ v.signals[i] = ss[m] /\ i > Len(w.signals) /\ (m = 1 => i = Len(w.signals) + 1)
      <3>1. m \in 1..Len(ss) /\ v.signals[i] = ss[m] /\ i > Len(w.signals)
        BY <1>4, <1>5
      <3>2. i \in Int /\ Len(w.signals) \in Nat
        BY <1>2
      <3> QED
        BY <3>1, <3>2
    <2> HIDE DEF m
    <2> QED
      BY <2>1 DEF Tells
  <1>6. o.exec > w.orders[id].exec =>
          /\ Len(w.signals) + 1 \in 1..Len(v.signals)
          /\ v.signals[Len(w.signals) + 1].event = "TRADED" /\ v.signals[Len(w.signals) + 1].orderId = id
    BY <1>2 DEF Tells
  <1> QED
    BY <1>2, <1>3, <1>5, <1>6 DEF ToldShape

LEMMA OrdersTold ==
  ASSUME NEW w, NEW v, NEW b, NEW s, Good(w, b, s), OrdersKept(w),
         NEW id, NEW o, NEW ss, Tells(w, v, id, o, ss)
  PROVE  OrdersKept(v)
  <1>0. ToldShape(w, v, id, o)
    BY TellsSignals
  <1>1. /\ id \in OrderIds /\ Live(w.orders[id]) /\ o \in BrokerOrders /\ o.status # "none"
        /\ o.role = w.orders[id].role /\ o.quantity = w.orders[id].quantity
        /\ o.exec >= w.orders[id].exec
        /\ o.exec > w.orders[id].exec => o.exec <= o.quantity /\ (Live(o) => o.exec < o.quantity)
        /\ w.orders[id] \in BrokerOrders
    BY GoodTypes DEF Tells
  <1>2. Whole(o) /\ Sized(o)
    BY <1>1 DEF OrdersKept, Whole, Sized, Live, BrokerOrders
  <1>3. \A j \in OrderIds : Whole(v.orders[j]) /\ Sized(v.orders[j])
    BY <1>2, <1>0 DEF ToldShape, OrdersKept
  <1>4. ASSUME NEW i \in 1..Len(v.signals), Ending(v.signals[i])
        PROVE  ~Live(v.orders[v.signals[i].orderId])
    <2>1. CASE i \in 1..Len(w.signals)
      <3>1. v.signals[i] = w.signals[i]
        BY <2>1, <1>0 DEF ToldShape
      <3>2. ~Live(w.orders[w.signals[i].orderId])
        BY <1>4, <2>1, <3>1 DEF OrdersKept
      <3>3. w.signals[i].event = "TRADED" \/ w.signals[i].orderId \in OrderIds
        BY <2>1, GoodTypes
      <3>4. w.signals[i].orderId # id
        BY <1>1, <3>2
      <3>5. v.orders[w.signals[i].orderId] = w.orders[w.signals[i].orderId]
        <4>1. w.signals[i].orderId \in OrderIds
          BY <2>1, GoodTypes
        <4> QED
          BY <3>4, <4>1, <1>0 DEF ToldShape
      <3> QED
        BY <3>1, <3>2, <3>5
    <2>2. CASE i \notin 1..Len(w.signals)
      BY <1>4, <2>2, <1>0 DEF ToldShape
    <2> QED
      BY <2>1, <2>2
  <1>5. ASSUME NEW i \in 1..Len(v.signals), NEW j \in 1..Len(v.signals), i < j,
               Ending(v.signals[i]), v.signals[j].event = "TRADED"
        PROVE  v.signals[i].orderId # v.signals[j].orderId
    <2>1. CASE j \in 1..Len(w.signals)
      <3>1. i \in 1..Len(w.signals) /\ v.signals[i] = w.signals[i] /\ v.signals[j] = w.signals[j]
        BY <1>5, <2>1, <1>0 DEF ToldShape
      <3> QED
        BY <1>5, <2>1, <3>1 DEF OrdersKept
    <2>2. CASE j \notin 1..Len(w.signals)
      <3>1. j = Len(w.signals) + 1 /\ v.signals[j].orderId = id /\ i \in 1..Len(w.signals)
            /\ v.signals[i] = w.signals[i]
        BY <1>5, <2>2, <1>0 DEF ToldShape
      <3> QED
        BY <1>1, <1>5, <3>1 DEF OrdersKept
    <2> QED
      BY <2>1, <2>2
  <1> QED
    BY <1>3, <1>4, <1>5 DEF OrdersKept

LEMMA LedgerTold ==
  ASSUME NEW w, NEW v, NEW b, NEW s, Good(w, b, s), NEW k, Ledger(w, k),
         NEW id, NEW o, NEW ss, Tells(w, v, id, o, ss)
  PROVE  \E h : Ledger(v, h) /\ Grown(w, k, v, h, o.exec)
  <1>0. ToldShape(w, v, id, o)
    BY TellsSignals
  <1>1. /\ id \in OrderIds /\ o \in BrokerOrders /\ o.exec \in Nat /\ w.orders[id].exec \in Nat
        /\ o.quantity = w.orders[id].quantity /\ o.exec >= w.orders[id].exec
    BY GoodTypes DEF Tells, BrokerOrders
  <1>2. PICK h : h = [i \in 1..Len(v.signals) |-> IF i \in 1..Len(w.signals) THEN k[i] ELSE o.exec]
    OBVIOUS
  <1>3. k \in [1..Len(w.signals) -> Nat]
    BY DEF Ledger
  <1>4. h \in [1..Len(v.signals) -> Nat]
    BY <1>1, <1>2, <1>3
  <1>5. Grown(w, k, v, h, o.exec)
    BY <1>2, <1>0 DEF ToldShape, Grown
  <1>6. /\ \A j \in OrderIds : j # id => v.orders[j] = w.orders[j]
        /\ v.orders[id] = o
    BY <1>0 DEF ToldShape
  <1>7. ASSUME NEW i \in 1..Len(v.signals), NEW j \in OrderIds, Trades(v, i, j)
        PROVE  Noted(v, i, j, h[i])
    <2>1. CASE i \in 1..Len(w.signals)
      <3>1. v.signals[i] = w.signals[i] /\ h[i] = k[i] /\ Trades(w, i, j) /\ k[i] \in Nat
        BY <1>3, <1>5, <1>7, <2>1 DEF Grown, Trades
      <3>2. Noted(w, i, j, k[i])
        BY <1>7, <2>1, <3>1 DEF Ledger
      <3>3. v.orders[j].quantity = w.orders[j].quantity /\ v.orders[j].exec >= w.orders[j].exec
            /\ w.orders[j].exec \in Nat /\ v.orders[j].exec \in Nat
        BY <1>1, <1>6, GoodTypes
      <3>4. /\ v.signals[i].filled >= 1 /\ v.signals[i].filled <= h[i] /\ h[i] <= v.orders[j].exec
            /\ v.signals[i].cum = IF style = "cumulative" THEN h[i] ELSE 0
        BY <3>1, <3>2, <3>3 DEF Noted
      <3>5. v.signals[i].completed <=> h[i] = v.orders[j].quantity
        BY <3>1, <3>2, <3>3 DEF Noted
      <3> QED
        BY <3>4, <3>5 DEF Noted
    <2>2. CASE i \notin 1..Len(w.signals)
      <3>1. j = id /\ h[i] = o.exec /\ v.signals[i].event = "TRADED"
        BY <1>5, <1>7, <2>2, <1>0 DEF ToldShape, Grown, Trades
      <3>2. /\ v.signals[i].filled = o.exec - w.orders[id].exec /\ v.signals[i].filled >= 1
            /\ v.signals[i].cum = IF style = "cumulative" THEN o.exec ELSE 0
            /\ v.signals[i].completed <=> o.exec = o.quantity
        BY <2>2, <3>1, <1>0 DEF ToldShape
      <3>3. v.signals[i].filled <= h[i] /\ h[i] <= v.orders[j].exec
        BY <1>1, <1>6, <3>1, <3>2
      <3> QED
        BY <1>6, <3>1, <3>2, <3>3 DEF Noted
    <2> QED
      BY <2>1, <2>2
  <1>8. ASSUME NEW i \in 1..Len(v.signals), NEW j \in 1..Len(v.signals), NEW m \in OrderIds,
               i < j, Trades(v, i, m), Trades(v, j, m)
        PROVE  h[i] <= h[j] - v.signals[j].filled
    <2>1. CASE j \in 1..Len(w.signals)
      <3>1. i \in 1..Len(w.signals) /\ v.signals[i] = w.signals[i] /\ v.signals[j] = w.signals[j]
            /\ h[i] = k[i] /\ h[j] = k[j]
        BY <1>5, <1>8, <2>1, <1>0 DEF ToldShape, Grown
      <3>2. Trades(w, i, m) /\ Trades(w, j, m)
        BY <1>8, <2>1, <3>1 DEF Trades
      <3> QED
        BY <1>8, <2>1, <3>1, <3>2 DEF Ledger
    <2>2. CASE j \notin 1..Len(w.signals)
      <3>1. /\ j = Len(w.signals) + 1 /\ m = id /\ h[j] = o.exec /\ i \in 1..Len(w.signals)
            /\ v.signals[j].filled = o.exec - w.orders[id].exec
            /\ v.signals[i] = w.signals[i] /\ h[i] = k[i]
        BY <1>5, <1>8, <2>2, <1>0 DEF ToldShape, Grown, Trades
      <3>2. Trades(w, i, id)
        BY <1>8, <3>1 DEF Trades
      <3>3. k[i] <= w.orders[id].exec /\ k[i] \in Nat
        BY <1>1, <1>3, <3>1, <3>2 DEF Ledger, Noted
      <3> QED
        BY <1>1, <3>1, <3>3
    <2> QED
      BY <2>1, <2>2
  <1>9. Ledger(v, h)
    BY <1>4, <1>7, <1>8 DEF Ledger
  <1> QED
    BY <1>5, <1>9

LEMMA LedgerStays ==
  ASSUME NEW w, NEW v, NEW b, NEW s, Good(w, b, s), NEW k, Ledger(w, k), v.signals = w.signals,
         \A id \in OrderIds : Fresh(w, id) \/ v.orders[id] = w.orders[id]
  PROVE  Ledger(v, k)
  <1>1. \A i \in 1..Len(w.signals) : ~Fresh(w, w.signals[i].orderId)
    BY GoodTypes DEF Fresh
  <1> QED
    BY <1>1 DEF Ledger, Trades, Noted

LEMMA OrdersStay ==
  ASSUME NEW w, NEW v, NEW b, NEW s, Good(w, b, s), OrdersKept(w),
         v.signals = w.signals, v.orders = w.orders \/ \E id, o : Creates(w, v, id, o)
  PROVE  OrdersKept(v)
  <1>1. CASE v.orders = w.orders
    BY <1>1 DEF OrdersKept
  <1>2. ASSUME NEW id, NEW o, Creates(w, v, id, o) PROVE OrdersKept(v)
    <2>1. /\ id \in OrderIds /\ Fresh(w, id) /\ Whole(o) /\ Sized(o)
          /\ v.orders = [w.orders EXCEPT ![id] = o] /\ w.orders \in [OrderIds -> BrokerOrders]
      BY <1>2, GoodTypes DEF Creates, Whole, BrokerOrders
    <2>2. v.orders[id] = o /\ \A j \in OrderIds : j # id => v.orders[j] = w.orders[j]
      BY <2>1
    <2>3. \A j \in OrderIds : Whole(v.orders[j]) /\ Sized(v.orders[j])
      BY <2>1, <2>2 DEF OrdersKept
    <2>4. \A i \in 1..Len(w.signals) : w.signals[i].orderId \in OrderIds /\ w.signals[i].orderId # id
      BY <2>1, GoodTypes DEF Fresh
    <2> QED
      BY <2>2, <2>3, <2>4 DEF OrdersKept
  <1> QED
    BY <1>1, <1>2

(* Taking the signal i away moves the signals after it one place forward.  *)
Past(i, j) == IF j < i THEN j ELSE j + 1

Shifted(w, v, i) ==
  /\ Len(w.signals) \in Nat /\ Len(v.signals) \in Nat /\ i \in 1..Len(w.signals)
  /\ \A j \in 1..Len(v.signals) :
       /\ Past(i, j) \in 1..Len(w.signals) /\ Past(i, j) # i /\ v.signals[j] = w.signals[Past(i, j)]
  /\ \A m \in 1..Len(w.signals) : m # i => \E j \in 1..Len(v.signals) : Past(i, j) = m
  /\ \A j, m \in 1..Len(v.signals) : j < m <=> Past(i, j) < Past(i, m)

LEMMA DropShifts ==
  ASSUME NEW w, NEW v, NEW b, NEW s, Good(w, b, s), NEW i, Drops(w, v, i)
  PROVE  Shifted(w, v, i)
  <1>1. i \in 1..Len(w.signals) /\ Removed(w.signals, i, v.signals) /\ w.signals \in Seq(OrderSignals)
    BY GoodTypes DEF Drops
  <1>2. /\ Len(w.signals) \in Nat /\ Len(v.signals) = Len(w.signals) - 1
        /\ \A j \in 1..Len(v.signals) : /\ v.signals[j] = w.signals[Past(i, j)]
                                        /\ Past(i, j) \in 1..Len(w.signals) \ {i}
    BY <1>1, RemovedKeeps DEF Past
  <1>3. ASSUME NEW m \in 1..Len(w.signals), m # i PROVE \E j \in 1..Len(v.signals) : Past(i, j) = m
    <2>1. CASE m < i
      BY <1>1, <1>2, <2>1 DEF Past
    <2>2. CASE m > i
      <3>1. m - 1 \in 1..Len(v.signals) /\ Past(i, m - 1) = m
        BY <1>1, <1>2, <2>2 DEF Past
      <3> QED
        BY <3>1
    <2> QED
      BY <1>1, <1>3, <2>1, <2>2
  <1>4. \A j, m \in 1..Len(v.signals) : j < m <=> Past(i, j) < Past(i, m)
    BY <1>1, <1>2 DEF Past
  <1>5. Len(v.signals) \in Nat
    BY <1>1, <1>2
  <1> QED
    BY <1>1, <1>2, <1>3, <1>4, <1>5 DEF Shifted

LEMMA OrdersDrop ==
  ASSUME NEW w, NEW v, NEW b, NEW s, Good(w, b, s), OrdersKept(w), NEW i, Drops(w, v, i)
  PROVE  OrdersKept(v)
  <1>1. Shifted(w, v, i) /\ v.orders = w.orders
    BY DropShifts DEF Drops
  <1>2. ASSUME NEW j \in 1..Len(v.signals), Ending(v.signals[j])
        PROVE  ~Live(v.orders[v.signals[j].orderId])
    BY <1>1, <1>2 DEF Shifted, OrdersKept
  <1>3. ASSUME NEW j \in 1..Len(v.signals), NEW m \in 1..Len(v.signals), j < m,
               Ending(v.signals[j]), v.signals[m].event = "TRADED"
        PROVE  v.signals[j].orderId # v.signals[m].orderId
    <2>1. /\ Past(i, j) < Past(i, m) /\ Past(i, j) \in 1..Len(w.signals) /\ Past(i, m) \in 1..Len(w.signals)
          /\ v.signals[j] = w.signals[Past(i, j)] /\ v.signals[m] = w.signals[Past(i, m)]
      BY <1>1, <1>3 DEF Shifted
    <2> QED
      BY <1>3, <2>1 DEF OrdersKept
  <1> QED
    BY <1>1, <1>2, <1>3 DEF OrdersKept

LEMMA LedgerDrops ==
  ASSUME NEW w, NEW v, NEW b, NEW s, Good(w, b, s), NEW k, Ledger(w, k), NEW i, Drops(w, v, i)
  PROVE  \E h : /\ h = [j \in 1..Len(v.signals) |-> k[Past(i, j)]]
                /\ Ledger(v, h)
  <1>1. Shifted(w, v, i) /\ v.orders = w.orders
    BY DropShifts DEF Drops
  <1>2. PICK h : h = [j \in 1..Len(v.signals) |-> k[Past(i, j)]]
    OBVIOUS
  <1>3. \A j \in 1..Len(v.signals) : /\ h[j] = k[Past(i, j)] /\ v.signals[j] = w.signals[Past(i, j)]
                                     /\ Past(i, j) \in 1..Len(w.signals)
    BY <1>1, <1>2 DEF Shifted
  <1>4. h \in [1..Len(v.signals) -> Nat]
    BY <1>2, <1>3 DEF Ledger
  <1>5. ASSUME NEW j \in 1..Len(v.signals), NEW id \in OrderIds, Trades(v, j, id)
        PROVE  Noted(v, j, id, h[j])
    <2>1. Trades(w, Past(i, j), id)
      BY <1>3, <1>5 DEF Trades
    <2>2. Noted(w, Past(i, j), id, k[Past(i, j)])
      BY <1>3, <2>1 DEF Ledger
    <2> QED
      BY <1>1, <1>3, <2>2 DEF Noted
  <1>6. ASSUME NEW j \in 1..Len(v.signals), NEW m \in 1..Len(v.signals), NEW id \in OrderIds,
               j < m, Trades(v, j, id), Trades(v, m, id)
        PROVE  h[j] <= h[m] - v.signals[m].filled
    <2>1. Trades(w, Past(i, j), id) /\ Trades(w, Past(i, m), id) /\ Past(i, j) < Past(i, m)
      BY <1>1, <1>3, <1>6 DEF Trades, Shifted
    <2> QED
      BY <1>3, <2>1 DEF Ledger
  <1> QED
    BY <1>2, <1>4, <1>5, <1>6 DEF Ledger

(* A cancellation and a report of the broker both tell of an order.        *)
LEMMA WithdrawTells ==
  ASSUME NEW w, NEW v, NEW b, NEW s, Good(w, b, s), NEW id \in OrderIds, w.orders[id].status = "working",
         v.orders = [w.orders EXCEPT ![id] = Withdrawn(w.orders[id])],
         v.signals = w.signals \o <<Announce(id, "CANCELED")>>
  PROVE  /\ Tells(w, v, id, Withdrawn(w.orders[id]), <<Announce(id, "CANCELED")>>)
         /\ Withdrawn(w.orders[id]).exec = w.orders[id].exec
         /\ ~Live(Withdrawn(w.orders[id])) /\ Withdrawn(w.orders[id]).revoked
  <1> DEFINE o == Withdrawn(w.orders[id])
             x == Announce(id, "CANCELED")
  <1>1. /\ o \in BrokerOrders /\ o.exec = w.orders[id].exec /\ o.status = "done" /\ o.revoked
        /\ o.role = w.orders[id].role /\ o.quantity = w.orders[id].quantity /\ o.exec \in Nat
    <2>1. w.orders[id] \in BrokerOrders
      BY GoodTypes
    <2> QED
      BY <2>1, WithdrawnFields
  <1>2. x \in OrderSignals /\ x.orderId = id /\ x.event = "CANCELED"
    BY DEF Announce, OrderSignals, Events, Ids
  <1>3. Len(<<x>>) = 1 /\ <<x>>[1] = x /\ <<x>> \in Seq(OrderSignals) /\ \A m \in 1..1 : m = 1
    BY <1>2
  <1>4. ~Live(o) /\ Live(w.orders[id])
    BY <1>1 DEF Live
  <1> HIDE DEF o, x
  <1>5. Tells(w, v, id, o, <<x>>)
    BY <1>1, <1>2, <1>3, <1>4 DEF Tells, o, x
  <1> QED
    BY <1>1, <1>4, <1>5 DEF o, x

Reported(w, v, b, s, c, r, id, o) ==
  /\ v.trade = w.trade /\ o.revoked = w.orders[id].revoked
  /\ c = IF o.role = "entry" THEN b + (o.exec - w.orders[id].exec) ELSE b
  /\ r = IF o.role = "entry" THEN s ELSE s + (o.exec - w.orders[id].exec)

LEMMA ReportTells ==
  ASSUME NEW w, NEW v, NEW b \in Nat, NEW s \in Nat, NEW c, NEW r, Reports(w, v, b, s, c, r), Good(w, b, s)
  PROVE  \E id, o, ss : Tells(w, v, id, o, ss) /\ Reported(w, v, b, s, c, r, id, o)
  <1>1. PICK id, o, ss :
          /\ Changes(w, v, id, o, ss)
          /\ \/ Announces(w, id, o, ss) /\ c = b /\ r = s
             \/ \E q : /\ Executes(w, id, o, ss, q)
                       /\ c = IF o.role = "entry" THEN b + q ELSE b
                       /\ r = IF o.role = "entry" THEN s ELSE s + q
    BY DEF Reports
  <1>2. /\ id \in OrderIds /\ Live(w.orders[id]) /\ o \in BrokerOrders /\ ss \in Seq(OrderSignals)
        /\ v.orders = [w.orders EXCEPT ![id] = o] /\ v.signals = w.signals \o ss /\ v.trade = w.trade
        /\ o.role = w.orders[id].role /\ o.quantity = w.orders[id].quantity
        /\ o.revoked = w.orders[id].revoked /\ o.exec \in Nat /\ w.orders[id].exec \in Nat
    BY <1>1, GoodTypes DEF Changes, BrokerOrders
  <1>3. CASE Announces(w, id, o, ss) /\ c = b /\ r = s
    <2>1. PICK event \in {"OPENED", "REJECTED", "CANCELED", "DELETED"} :
            /\ ss = <<Announce(id, event)>> /\ o.exec = w.orders[id].exec
            /\ o.status = IF event = "OPENED" THEN "working" ELSE "done"
      BY <1>3 DEF Announces
    <2>2. Len(ss) = 1 /\ ss[1] = Announce(id, event) /\ \A m \in 1..Len(ss) : m = 1
      BY <2>1
    <2>3. ss[1].orderId = id /\ ss[1].event = event /\ (Ending(ss[1]) => event # "OPENED")
      BY <2>1, <2>2 DEF Announce, Ending
    <2>4. Tells(w, v, id, o, ss)
      BY <1>2, <2>1, <2>2, <2>3 DEF Tells, Live
    <2>5. Reported(w, v, b, s, c, r, id, o)
      BY <1>2, <1>3, <2>1 DEF Reported
    <2> QED
      BY <2>4, <2>5
  <1>4. ASSUME NEW q, Executes(w, id, o, ss, q), c = IF o.role = "entry" THEN b + q ELSE b,
               r = IF o.role = "entry" THEN s ELSE s + q
        PROVE  Tells(w, v, id, o, ss) /\ Reported(w, v, b, s, c, r, id, o)
    <2>1. /\ q \in Nat /\ q > 0 /\ o.exec = w.orders[id].exec + q /\ o.exec <= o.quantity
          /\ o.status = IF o.exec = o.quantity THEN "done" ELSE "working"
      BY <1>4 DEF Executes
    <2>2. q = o.exec - w.orders[id].exec /\ o.quantity \in Int /\ (Live(o) <=> o.exec # o.quantity)
          /\ o.status # "none"
      BY <1>2, <2>1 DEF BrokerOrders, Live
    <2> DEFINE x == Executed(id, o, q)
               y == Announce(id, "DELETED")
    <2>3. /\ x.event = "TRADED" /\ x.orderId = id /\ x.filled = q
          /\ x.cum = IF style = "cumulative" THEN o.exec ELSE 0
          /\ x.completed <=> o.exec = o.quantity
      BY ExecutedFields
    <2>4. y.event = "DELETED" /\ y.orderId = id
      BY DEF Announce
    <2> HIDE DEF x, y
    <2>5. /\ 1 \in 1..Len(ss) /\ ss[1] = x
          /\ \A m \in 1..Len(ss) : m = 1 \/ (o.exec = o.quantity /\ ss[m] = y)
      <3>1. CASE ss = <<x>>
        BY <3>1
      <3>2. CASE o.exec = o.quantity /\ ss = <<x, y>>
        BY <3>2, OneOrTwo
      <3> QED
        BY <1>4, <3>1, <3>2 DEF Executes, x, y
    <2>6. ASSUME NEW m \in 1..Len(ss)
          PROVE  /\ ss[m].orderId = id /\ (Ending(ss[m]) => ~Live(o))
                 /\ ss[m].event = "TRADED" =>
                      /\ m = 1 /\ ss[m].filled = o.exec - w.orders[id].exec /\ ss[m].filled >= 1
                      /\ ss[m].cum = IF style = "cumulative" THEN o.exec ELSE 0
                      /\ ss[m].completed <=> o.exec = o.quantity
      <3>1. CASE m = 1
        <4>1. ss[m] = x
          BY <2>5, <3>1
        <4>2. Ending(x) => ~Live(o)
          BY <2>2, <2>3 DEF Ending
        <4>3. x.filled = o.exec - w.orders[id].exec /\ x.filled >= 1
          BY <2>1, <2>2, <2>3
        <4> QED
          BY <2>3, <3>1, <4>1, <4>2, <4>3
      <3>2. CASE m # 1
        <4>1. ss[m] = y /\ ~Live(o)
          BY <2>2, <2>5, <3>2
        <4> QED
          BY <2>4, <4>1
      <3> QED
        BY <3>1, <3>2
    <2>7. o.exec >= w.orders[id].exec /\ (Live(o) => o.exec < o.quantity)
      <3> DEFINE e == o.exec
                 f == w.orders[id].exec
                 z == o.quantity
      <3>1. e \in Nat /\ f \in Nat /\ z \in Int /\ q \in Nat
        BY <1>2, <2>1, <2>2
      <3>2. e = f + q /\ e <= z /\ (Live(o) <=> e # z)
        BY <2>1, <2>2
      <3> HIDE DEF e, f, z
      <3>3. e >= f /\ (Live(o) => e < z)
        BY <3>1, <3>2
      <3> QED
        BY <3>3 DEF e, f, z
    <2>8. Tells(w, v, id, o, ss)
      BY <1>2, <2>1, <2>2, <2>3, <2>5, <2>6, <2>7 DEF Tells
    <2>9. Reported(w, v, b, s, c, r, id, o)
      BY <1>2, <1>4, <2>2 DEF Reported
    <2> QED
      BY <2>8, <2>9
  <1> QED
    BY <1>1, <1>3, <1>4

(* The executions of the order id that are on their way lead, one after the *)
(* other, from base to what the order has executed.                        *)
Path(id, base, w, k) ==
  /\ \A j \in 1..Len(w.signals) : Trades(w, j, id) =>
       /\ base <= k[j] - w.signals[j].filled
       /\ \/ k[j] - w.signals[j].filled = base
          \/ \E i \in 1..Len(w.signals) : i < j /\ Trades(w, i, id) /\ k[i] = k[j] - w.signals[j].filled
  /\ \/ w.orders[id].exec = base
     \/ \E i \in 1..Len(w.signals) : Trades(w, i, id) /\ k[i] = w.orders[id].exec

LEMMA PathStays ==
  ASSUME NEW w, NEW v, NEW k, NEW id, NEW base, Path(id, base, w, k),
         v.signals = w.signals, v.orders[id] = w.orders[id]
  PROVE  Path(id, base, v, k)
  BY DEF Path, Trades

LEMMA PathTold ==
  ASSUME NEW w, NEW v, NEW b, NEW s, Good(w, b, s), NEW k, Ledger(w, k),
         NEW i, NEW o, NEW ss, Tells(w, v, i, o, ss), NEW h, Grown(w, k, v, h, o.exec),
         NEW id \in OrderIds, NEW base \in Int, Path(id, base, w, k)
  PROVE  Path(id, base, v, h)
  <1>1. ToldShape(w, v, i, o)
    BY TellsSignals
  <1>2. /\ i \in OrderIds /\ o.exec \in Nat /\ w.orders[i].exec \in Nat /\ o.exec >= w.orders[i].exec
        /\ Len(w.signals) \in Nat /\ Len(v.signals) \in Nat
        /\ \A j \in 1..Len(w.signals) : w.signals[j].filled \in Int
    <2>1. \A x \in OrderSignals : x.filled \in Int
      BY DEF OrderSignals
    <2>2. \A j \in 1..Len(w.signals) : w.signals[j].filled \in Int
      BY <2>1, GoodTypes
    <2>3. i \in OrderIds /\ o.exec \in Nat /\ w.orders[i].exec \in Nat /\ o.exec >= w.orders[i].exec
      BY GoodTypes DEF Tells, BrokerOrders
    <2> QED
      BY <2>2, <2>3, <1>1 DEF ToldShape
  <1>3. ASSUME NEW j \in 1..Len(w.signals)
        PROVE  /\ j \in 1..Len(v.signals) /\ v.signals[j] = w.signals[j] /\ h[j] = k[j]
               /\ Trades(v, j, id) <=> Trades(w, j, id)
    BY <1>1 DEF ToldShape, Grown, Trades
  <1>4. base <= w.orders[id].exec
    <2>1. CASE w.orders[id].exec = base
      BY <2>1
    <2>2. ASSUME NEW j \in 1..Len(w.signals), Trades(w, j, id), k[j] = w.orders[id].exec
          PROVE  base <= w.orders[id].exec
      <3>1. Noted(w, j, id, k[j]) /\ k[j] \in Nat
        BY <2>2 DEF Ledger
      <3>2. base <= k[j] - w.signals[j].filled /\ w.signals[j].filled >= 1
        BY <2>2, <3>1 DEF Path, Noted
      <3> QED
        BY <1>2, <2>2, <3>1, <3>2
    <2> QED
      BY <2>1, <2>2 DEF Path
  <1>5. ASSUME NEW j \in 1..Len(v.signals), Trades(v, j, id)
        PROVE  /\ base <= h[j] - v.signals[j].filled
               /\ \/ h[j] - v.signals[j].filled = base
                  \/ \E m \in 1..Len(v.signals) :
                       m < j /\ Trades(v, m, id) /\ h[m] = h[j] - v.signals[j].filled
    <2>1. CASE j \in 1..Len(w.signals)
      BY <1>3, <1>5, <2>1 DEF Path
    <2>2. CASE j \notin 1..Len(w.signals)
      <3>1. /\ j > Len(w.signals) /\ i = id /\ h[j] = o.exec
            /\ v.signals[j].filled = o.exec - w.orders[id].exec
        BY <1>1, <1>5, <2>2 DEF ToldShape, Grown, Trades
      <3>2. h[j] - v.signals[j].filled = w.orders[id].exec
        BY <1>2, <3>1
      <3>3. ASSUME NEW m \in 1..Len(w.signals), Trades(w, m, id), k[m] = w.orders[id].exec
            PROVE  \E n \in 1..Len(v.signals) :
                     n < j /\ Trades(v, n, id) /\ h[n] = h[j] - v.signals[j].filled
        <4>1. m \in 1..Len(v.signals) /\ m < j /\ Trades(v, m, id) /\ h[m] = h[j] - v.signals[j].filled
          BY <1>2, <1>3, <3>1, <3>2, <3>3
        <4> QED
          BY <4>1
      <3> QED
        BY <1>4, <3>2, <3>3 DEF Path
    <2> QED
      BY <2>1, <2>2
  <1>6. \/ v.orders[id].exec = base
        \/ \E m \in 1..Len(v.signals) : Trades(v, m, id) /\ h[m] = v.orders[id].exec
    <2>1. CASE i = id /\ o.exec > w.orders[i].exec
      <3> DEFINE n == Len(w.signals) + 1
      <3>1. /\ n \in 1..Len(v.signals) /\ n \notin 1..Len(w.signals)
            /\ v.signals[n].event = "TRADED" /\ v.signals[n].orderId = id /\ v.orders[id] = o
        BY <1>1, <1>2, <2>1 DEF ToldShape
      <3>2. Trades(v, n, id) /\ h[n] = v.orders[id].exec
        BY <1>1, <2>1, <3>1 DEF Trades, Grown
      <3> QED
        BY <3>1, <3>2
    <2>2. CASE ~(i = id /\ o.exec > w.orders[i].exec)
      <3>1. v.orders[id].exec = w.orders[id].exec
        BY <1>1, <1>2, <2>2 DEF ToldShape
      <3> QED
        BY <1>3, <3>1 DEF Path
    <2> QED
      BY <2>1, <2>2
  <1> QED
    BY <1>5, <1>6 DEF Path

LEMMA PathDrops ==
  ASSUME NEW w, NEW v, NEW b, NEW s, Good(w, b, s), NEW k, Ledger(w, k), Drops(w, v, 1),
         NEW h, h = [j \in 1..Len(v.signals) |-> k[Past(1, j)]],
         NEW id \in OrderIds, NEW base \in Int, Path(id, base, w, k)
  PROVE  /\ Trades(w, 1, id) => k[1] - w.signals[1].filled = base /\ Path(id, k[1], v, h)
         /\ ~Trades(w, 1, id) => Path(id, base, v, h)
  <1>1. Shifted(w, v, 1) /\ v.orders = w.orders
    BY DropShifts DEF Drops
  <1>2. /\ \A j \in 1..Len(w.signals) : w.signals[j].filled \in Int /\ k[j] \in Nat
        /\ w.orders[id].exec \in Nat
    BY GoodTypes DEF Ledger, OrderSignals
  <1>3. ASSUME NEW j \in 1..Len(v.signals)
        PROVE  /\ h[j] = k[Past(1, j)] /\ v.signals[j] = w.signals[Past(1, j)]
               /\ Past(1, j) \in 1..Len(w.signals) /\ Past(1, j) # 1 /\ 1 < Past(1, j)
               /\ Trades(v, j, id) <=> Trades(w, Past(1, j), id)
    BY <1>1 DEF Shifted, Trades
  <1>4. ASSUME NEW m \in 1..Len(w.signals), m # 1, Trades(w, m, id)
        PROVE  \E j \in 1..Len(v.signals) : Past(1, j) = m /\ Trades(v, j, id) /\ h[j] = k[m]
    <2>1. PICK j \in 1..Len(v.signals) : Past(1, j) = m
      BY <1>1, <1>4 DEF Shifted
    <2> QED
      BY <1>3, <1>4, <2>1
  <1>5. ASSUME NEW j \in 1..Len(v.signals), Trades(v, j, id),
               NEW m \in 1..Len(w.signals), m # 1, m < Past(1, j), Trades(w, m, id),
               k[m] = h[j] - v.signals[j].filled
        PROVE  \E n \in 1..Len(v.signals) : n < j /\ Trades(v, n, id) /\ h[n] = h[j] - v.signals[j].filled
    <2>1. PICK n \in 1..Len(v.signals) : Past(1, n) = m /\ Trades(v, n, id) /\ h[n] = k[m]
      BY <1>4, <1>5
    <2>2. n < j
      BY <1>1, <1>5, <2>1 DEF Shifted
    <2> QED
      BY <1>5, <2>1, <2>2
  <1>6. ASSUME Trades(w, 1, id)
        PROVE  k[1] - w.signals[1].filled = base /\ Path(id, k[1], v, h)
    <2>1. 1 \in 1..Len(w.signals) /\ Noted(w, 1, id, k[1])
      BY <1>6 DEF Trades, Ledger
    <2>2. k[1] - w.signals[1].filled = base
      BY <1>6, <2>1 DEF Path
    <2>3. base < k[1] /\ k[1] <= w.orders[id].exec
      BY <1>2, <2>1, <2>2 DEF Noted
    <2>4. ASSUME NEW j \in 1..Len(v.signals), Trades(v, j, id)
          PROVE  /\ k[1] <= h[j] - v.signals[j].filled
                 /\ \/ h[j] - v.signals[j].filled = k[1]
                    \/ \E n \in 1..Len(v.signals) :
                         n < j /\ Trades(v, n, id) /\ h[n] = h[j] - v.signals[j].filled
      <3> DEFINE p == Past(1, j)
      <3>1. /\ h[j] = k[p] /\ v.signals[j] = w.signals[p] /\ p \in 1..Len(w.signals) /\ 1 < p
            /\ Trades(w, p, id)
        BY <1>3, <2>4
      <3>2. k[1] <= k[p] - w.signals[p].filled
        BY <1>6, <2>1, <3>1 DEF Ledger
      <3>3. PICK m \in 1..Len(w.signals) : m < p /\ Trades(w, m, id) /\ k[m] = k[p] - w.signals[p].filled
        <4>1. k[p] - w.signals[p].filled # base
          BY <1>2, <2>1, <2>3, <3>1, <3>2
        <4> HIDE DEF p
        <4> QED
          BY <3>1, <4>1 DEF Path
      <3>4. CASE m = 1
        BY <3>1, <3>2, <3>3, <3>4
      <3>5. CASE m # 1
        <4>1. m < Past(1, j) /\ k[m] = h[j] - v.signals[j].filled /\ Trades(w, m, id)
          BY <3>1, <3>3
        <4>2. \E n \in 1..Len(v.signals) :
                n < j /\ Trades(v, n, id) /\ h[n] = h[j] - v.signals[j].filled
          BY <1>5, <2>4, <3>5, <4>1
        <4> QED
          BY <3>1, <3>2, <4>2
      <3> QED
        BY <3>4, <3>5
    <2>5. \/ v.orders[id].exec = k[1]
          \/ \E m \in 1..Len(v.signals) : Trades(v, m, id) /\ h[m] = v.orders[id].exec
      <3>1. PICK m \in 1..Len(w.signals) : Trades(w, m, id) /\ k[m] = w.orders[id].exec
        <4>1. w.orders[id].exec # base
          BY <1>2, <2>1, <2>2, <2>3
        <4> QED
          BY <4>1 DEF Path
      <3>2. CASE m = 1
        BY <1>1, <3>1, <3>2
      <3>3. CASE m # 1
        <4>1. PICK j \in 1..Len(v.signals) : Trades(v, j, id) /\ h[j] = k[m]
          BY <1>4, <3>1, <3>3
        <4> QED
          BY <1>1, <3>1, <4>1
      <3> QED
        BY <3>2, <3>3
    <2> QED
      BY <2>2, <2>4, <2>5 DEF Path
  <1>7. ASSUME ~Trades(w, 1, id)
        PROVE  Path(id, base, v, h)
    <2>1. ASSUME NEW j \in 1..Len(v.signals), Trades(v, j, id)
          PROVE  /\ base <= h[j] - v.signals[j].filled
                 /\ \/ h[j] - v.signals[j].filled = base
                    \/ \E n \in 1..Len(v.signals) :
                         n < j /\ Trades(v, n, id) /\ h[n] = h[j] - v.signals[j].filled
      <3> DEFINE p == Past(1, j)
      <3>1. /\ h[j] = k[p] /\ v.signals[j] = w.signals[p] /\ p \in 1..Len(w.signals)
            /\ Trades(w, p, id)
        BY <1>3, <2>1
      <3>2. \A m \in 1..Len(w.signals) : Trades(w, m, id) => m # 1
        BY <1>7
      <3>3. ASSUME NEW m \in 1..Len(w.signals), m < p, Trades(w, m, id), k[m] = k[p] - w.signals[p].filled
            PROVE  \E n \in 1..Len(v.signals) :
                     n < j /\ Trades(v, n, id) /\ h[n] = h[j] - v.signals[j].filled
        <4>1. m < Past(1, j) /\ k[m] = h[j] - v.signals[j].filled /\ Trades(w, m, id) /\ m # 1
          BY <3>1, <3>2, <3>3
        <4> QED
          BY <1>5, <2>1, <4>1
      <3> HIDE DEF p
      <3> QED
        BY <3>1, <3>3 DEF Path
    <2>2. \/ v.orders[id].exec = base
          \/ \E m \in 1..Len(v.signals) : Trades(v, m, id) /\ h[m] = v.orders[id].exec
      BY <1>1, <1>4, <1>7 DEF Path
    <2> QED
      BY <2>1, <2>2 DEF Path
  <1> QED
    BY <1>6, <1>7

LEMMA PlacedCreates ==
  ASSUME NEW w, NEW v, NEW id \in OrderIds, Fresh(w, id), NEW role \in Roles, NEW qty \in Int,
         NEW accepted \in BOOLEAN, v.orders = [w.orders EXCEPT ![id] = Placed(role, qty, accepted)],
         v.signals = w.signals, role = "entry" => qty = EntrySize, role = "close" => qty > 0
  PROVE  /\ Creates(w, v, id, Placed(role, qty, accepted))
         /\ Placed(role, qty, accepted).role = role /\ Placed(role, qty, accepted).quantity = qty
         /\ ~Placed(role, qty, accepted).revoked /\ (Live(Placed(role, qty, accepted)) => accepted)
  <1> DEFINE o == Placed(role, qty, accepted)
  <1>1. /\ o \in BrokerOrders /\ o.exec = 0 /\ o.role = role /\ o.quantity = qty /\ ~o.revoked
        /\ o.status = IF accepted THEN "sent" ELSE "done"
    BY DEF Placed, NewOrder, NoOrder, BrokerOrders
  <1> HIDE DEF o
  <1>2. Sized(o) /\ o.status # "none" /\ (Live(o) => accepted)
    BY <1>1 DEF Sized, Live
  <1> QED
    BY <1>1, <1>2 DEF Creates, o

LEMMA PlacesCreates ==
  ASSUME NEW w, NEW v, Places(w, v)
  PROVE  \E id, o : Creates(w, v, id, o) /\ o.role # "entry"
  <1>1. PICK id \in OrderIds, role \in {"limit", "stop", "close"}, qty \in Int, accepted \in BOOLEAN :
          /\ Fresh(w, id) /\ v.orders = [w.orders EXCEPT ![id] = Placed(role, qty, accepted)]
          /\ v.signals = w.signals /\ (role = "close" => qty > 0)
    BY DEF Places
  <1>2. role \in Roles /\ role # "entry"
    BY DEF Roles
  <1> QED
    BY <1>1, <1>2, PlacedCreates

LEMMA OrdersMove ==
  ASSUME NEW w, NEW v, NEW b, NEW s, Good(w, b, s), Moves(w, v), OrdersKept(w)
  PROVE  OrdersKept(v)
  <1>1. CASE Idle(w, v)
    BY <1>1, OrdersStay DEF Idle
  <1>2. CASE Withdraws(w, v)
    <2>1. PICK id \in OrderIds :
            /\ w.orders[id].status = "working"
            /\ v.orders = [w.orders EXCEPT ![id] = Withdrawn(w.orders[id])]
            /\ v.signals = w.signals \o <<Announce(id, "CANCELED")>>
      BY <1>2 DEF Withdraws
    <2>2. \E o, ss : Tells(w, v, id, o, ss)
      BY <2>1, WithdrawTells
    <2> QED
      BY <2>2, OrdersTold
  <1>3. CASE Places(w, v)
    <2>1. (\E id, o : Creates(w, v, id, o)) /\ v.signals = w.signals
      BY <1>3, PlacesCreates DEF Places
    <2> QED
      BY <2>1, OrdersStay
  <1> QED
    BY <1>1, <1>2, <1>3 DEF Moves

LEMMA OpensCreates ==
  ASSUME NEW w, NEW v, NEW b, NEW s, Good(w, b, s), Opens(w, v)
  PROVE  \E id, o :
           /\ Creates(w, v, id, o) /\ o.role = "entry" /\ w.trade.direction = 0
           /\ v.trade.direction = 1 /\ v.trade.orderQuantity = EntrySize /\ v.trade.entryQty = 0
           /\ v.trade.exitQty = 0 /\ v.trade.entry.refId = id
           /\ v.trade.limit = ResetSlot /\ v.trade.stop = ResetSlot
  <1>1. PICK id \in OrderIds, accepted \in BOOLEAN, tp \in Nat, sl \in Nat :
          /\ w.trade = ResetTrade /\ Fresh(w, id) /\ v.signals = w.signals
          /\ v.orders = [w.orders EXCEPT ![id] = Placed("entry", EntrySize, accepted)]
          /\ v.trade = [w.trade EXCEPT !.direction = 1, !.orderQuantity = EntrySize,
                          !.takeProfit = tp, !.stopLoss = sl,
                          !.entry = [ResetSlot EXCEPT !.refId = id,
                                       !.state = IF accepted THEN "UNDEFINED" ELSE "REJECTED"]]
    BY DEF Opens
  <1>2. /\ v.trade.direction = 1 /\ v.trade.orderQuantity = EntrySize /\ v.trade.entryQty = 0
        /\ v.trade.exitQty = 0 /\ v.trade.entry.refId = id
        /\ v.trade.limit = ResetSlot /\ v.trade.stop = ResetSlot /\ w.trade.direction = 0
    <2> DEFINE slot == [ResetSlot EXCEPT !.refId = id, !.state = IF accepted THEN "UNDEFINED" ELSE "REJECTED"]
    <2>1. slot.refId = id
      BY DEF ResetSlot
    <2> HIDE DEF slot
    <2>2. v.trade = [ResetTrade EXCEPT !.direction = 1, !.orderQuantity = EntrySize,
                       !.takeProfit = tp, !.stopLoss = sl, !.entry = slot]
      BY <1>1 DEF slot
    <2>3. ResetTrade.direction = 0 /\ w.trade = ResetTrade
      BY <1>1 DEF ResetTrade
    <2>4. /\ v.trade.direction = 1 /\ v.trade.orderQuantity = EntrySize /\ v.trade.entryQty = 0
          /\ v.trade.exitQty = 0 /\ v.trade.entry = slot
          /\ v.trade.limit = ResetSlot /\ v.trade.stop = ResetSlot
      BY <2>2 DEF ResetTrade
    <2> QED
      BY <2>1, <2>3, <2>4
  <1>3. "entry" \in Roles /\ EntrySize \in Int
    BY BrokerAssumption DEF Roles
  <1>4. /\ Creates(w, v, id, Placed("entry", EntrySize, accepted))
        /\ Placed("entry", EntrySize, accepted).role = "entry"
    BY <1>1, <1>3, PlacedCreates
  <1> QED
    BY <1>2, <1>4

(* A signal that is heard once and in its turn, or not at all.             *)
LEMMA HearsDrops ==
  ASSUME NEW w, NEW v, NEW b, NEW s, Good(w, b, s), NEW f, NEW g, Hears(w, v, f, g),
         kind \in {"IND_MARGIN", "MARGIN"}
  PROVE  /\ v.orders = w.orders /\ f \subseteq g
         /\ \E i \in 1..Len(w.signals) :
              /\ \/ Heeds(w.trade, w.signals[i], v.trade)
                 \/ v.trade = w.trade /\ "lost" \in g
              /\ \/ v.signals = w.signals /\ "repeated" \in g
                 \/ Drops(w, v, i) /\ (i = 1 \/ "reordered" \in g)
  <1>1. PICK i \in 1..Len(w.signals) :
           /\ v.orders = w.orders /\ f \subseteq g
           /\ \/ /\ Heeds(w.trade, w.signals[i], v.trade) /\ Heard(w.trade, w.signals[i], v.trade)
                 /\ \/ v.signals = w.signals /\ "repeated" \in g
                    \/ Removed(w.signals, i, v.signals) /\ (i = 1 \/ "reordered" \in g)
              \/ Removed(w.signals, i, v.signals) /\ i = 1 /\ "lost" \in g /\ v.trade = w.trade
    BY HearsShape
  <1> QED
    BY <1>1 DEF Drops

LEMMA OrdersHear ==
  ASSUME NEW w, NEW v, NEW b, NEW s, Good(w, b, s), NEW f, NEW g, Hears(w, v, f, g),
         kind \in {"IND_MARGIN", "MARGIN"}, OrdersKept(w)
  PROVE  OrdersKept(v)
  <1>1. v.orders = w.orders /\ (v.signals = w.signals \/ \E i : Drops(w, v, i))
    BY HearsDrops
  <1> QED
    BY <1>1, OrdersStay, OrdersDrop

LEMMA OrdersSteps ==
  ASSUME BrokerInv, OrdersKept(World), [Next]_vars
  PROVE  OrdersKept(World)'
  <1>1. PICK v, c, r, m, g :
           /\ v = [trade |-> trade', orders |-> orders', signals |-> signals']
           /\ c = bought' /\ r = sold' /\ m = listed' /\ g = faults'
           /\ Good(World, bought, sold) /\ Good(v, c, r) /\ UNCHANGED broker
           /\ Steps(World, bought, sold, listed, faults, v, c, r, m, g)
    BY WorldSteps
  <1>2. kind \in {"IND_MARGIN", "MARGIN"} /\ bought \in Nat /\ sold \in Nat
    BY InvType DEF BrokerInv
  <1>3. OrdersKept(v)
    <2>1. CASE MovesTo(World, v, bought, sold)
      <3>1. PICK x, y : /\ Moves(World, x) /\ Moves(x, y) /\ Moves(y, v)
                        /\ Good(x, bought, sold) /\ Good(y, bought, sold)
        BY <2>1 DEF MovesTo
      <3>2. OrdersKept(x)
        BY <1>1, <3>1, OrdersMove
      <3>3. OrdersKept(y)
        BY <3>1, <3>2, OrdersMove
      <3> QED
        BY <3>1, <3>3, OrdersMove
    <2>2. CASE Opens(World, v)
      <3>1. \E id, o : Creates(World, v, id, o)
        BY <1>1, <2>2, OpensCreates
      <3> QED
        BY <1>1, <3>1, OrdersStay DEF Creates
    <2>3. CASE v = World
      BY <2>3
    <2>4. CASE Reports(World, v, bought, sold, c, r)
      <3>1. \E id, o, ss : Tells(World, v, id, o, ss)
        BY <1>1, <1>2, <2>4, ReportTells
      <3> QED
        BY <1>1, <3>1, OrdersTold
    <2>5. CASE Hears(World, v, faults, g)
      BY <1>1, <1>2, <2>5, OrdersHear
    <2> QED
      BY <1>1, <2>1, <2>2, <2>3, <2>4, <2>5 DEF Steps
  <1>4. v.orders = orders' /\ v.signals = signals'
    BY <1>1
  <1> HIDE <1>1
  <1> QED
    BY <1>3, <1>4 DEF OrdersKept, World, Whole, Sized, Live, Ending

-----------------------------------------------------------------------------
(* The entry: what the trade believes it entered and what is still to be   *)
(* announced add up to what the entry order executed.                      *)

Followed(w, id) ==
  \E k : /\ Ledger(w, k) /\ Path(id, w.trade.entryQty, w, k)
         /\ Live(w.orders[id]) \/ (\E i \in 1..Len(w.signals) : Trades(w, i, id))
              => w.trade.entry.refId = id

EntryKept(w, b, l, f) ==
  /\ l => w.trade.direction # 0
  /\ w.trade.direction = 0 => b = 0 /\ \A id \in OrderIds : Fresh(w, id)
  /\ w.trade.direction # 0 =>
       w.trade.orderQuantity = EntrySize /\ \E id \in OrderIds : Entries(w.orders) = {id}
  /\ \A id \in Entries(w.orders) :
       /\ w.orders[id].exec = b
       /\ l /\ f = {} /\ ~w.orders[id].revoked => Followed(w, id)

LEMMA EntryTold ==
  ASSUME NEW w, NEW v, NEW b, NEW s, Good(w, b, s), NEW l, NEW f, EntryKept(w, b, l, f),
         NEW id, NEW o, NEW ss, Tells(w, v, id, o, ss), SameBooks(w, v),
         w.orders[id].revoked => o.revoked,
         \/ v.trade.entry = w.trade.entry
         \/ o.role = "entry" /\ o.revoked,
         NEW c, c = IF o.role = "entry" THEN b + (o.exec - w.orders[id].exec) ELSE b
  PROVE  EntryKept(v, c, l, f)
  <1>1. ToldShape(w, v, id, o)
    BY TellsSignals
  <1>2. /\ id \in OrderIds /\ Live(w.orders[id]) /\ o.role = w.orders[id].role /\ o.status # "none"
        /\ o.exec \in Nat /\ w.orders[id].exec \in Nat /\ w.orders[id].status # "none"
        /\ v.orders[id] = o /\ \A j \in OrderIds : j # id => v.orders[j] = w.orders[j]
    BY <1>1, GoodTypes DEF Tells, ToldShape, BrokerOrders, Live
  <1>3. w.trade.direction # 0
    BY <1>2 DEF EntryKept, Fresh
  <1>4. PICK e \in OrderIds : Entries(w.orders) = {e}
    BY <1>3 DEF EntryKept
  <1>5. Entries(v.orders) = {e} /\ (o.role = "entry" <=> id = e)
    BY <1>2, <1>4 DEF Entries
  <1>6. w.orders[e].exec = b
    BY <1>4 DEF EntryKept
  <1>7. v.orders[e].exec = c
    BY <1>2, <1>5, <1>6
  <1>8. ASSUME l, f = {}, ~v.orders[e].revoked PROVE Followed(v, e)
    <2>1. ~w.orders[e].revoked /\ v.trade.entry = w.trade.entry
      BY <1>2, <1>5, <1>8
    <2>2. Followed(w, e)
      BY <1>4, <1>8, <2>1 DEF EntryKept
    <2>3. PICK k :
             /\ Ledger(w, k) /\ Path(e, w.trade.entryQty, w, k)
             /\ Live(w.orders[e]) \/ (\E i \in 1..Len(w.signals) : Trades(w, i, e))
                  => w.trade.entry.refId = e
      BY <2>2 DEF Followed
    <2>4. PICK h : Ledger(v, h) /\ Grown(w, k, v, h, o.exec)
      BY <2>3, LedgerTold
    <2>5. v.trade.entryQty = w.trade.entryQty /\ w.trade.entryQty \in Int
      BY GoodTypes DEF SameBooks
    <2>6. Path(e, v.trade.entryQty, v, h)
      BY <2>3, <2>4, <2>5, PathTold
    <2>7. Live(v.orders[e]) => Live(w.orders[e])
      BY <1>2
    <2>8. ASSUME NEW i \in 1..Len(v.signals), Trades(v, i, e)
          PROVE  Live(w.orders[e]) \/ \E j \in 1..Len(w.signals) : Trades(w, j, e)
      BY <1>1, <1>2, <2>8 DEF ToldShape, Trades
    <2> QED
      BY <2>1, <2>3, <2>4, <2>6, <2>7, <2>8 DEF Followed
  <1> QED
    BY <1>3, <1>4, <1>5, <1>7, <1>8 DEF EntryKept, SameBooks

LEMMA EntryStays ==
  ASSUME NEW w, NEW v, NEW b, NEW s, Good(w, b, s), NEW l, NEW f, EntryKept(w, b, l, f),
         SameBooks(w, v), v.trade.entry = w.trade.entry, v.signals = w.signals, w.trade.direction # 0,
         v.orders = w.orders \/ \E id, o : Creates(w, v, id, o) /\ o.role # "entry"
  PROVE  EntryKept(v, b, l, f)
  <1>1. PICK e \in OrderIds : Entries(w.orders) = {e}
    BY DEF EntryKept
  <1>2. /\ \A j \in OrderIds : Fresh(w, j) \/ v.orders[j] = w.orders[j]
        /\ Entries(v.orders) = {e} /\ v.orders[e] = w.orders[e]
    <2>1. CASE v.orders = w.orders
      BY <1>1, <2>1
    <2>2. ASSUME NEW id, NEW o, Creates(w, v, id, o), o.role # "entry"
          PROVE  /\ \A j \in OrderIds : Fresh(w, j) \/ v.orders[j] = w.orders[j]
                 /\ Entries(v.orders) = {e} /\ v.orders[e] = w.orders[e]
      <3>1. /\ id \in OrderIds /\ Fresh(w, id) /\ v.orders[id] = o
            /\ \A j \in OrderIds : j # id => v.orders[j] = w.orders[j]
        BY <2>2, GoodTypes DEF Creates
      <3>2. id # e
        BY <1>1, <3>1 DEF Fresh, Entries
      <3>3. Entries(v.orders) = {e}
        BY <1>1, <2>2, <3>1, <3>2 DEF Entries, Fresh
      <3> QED
        BY <3>1, <3>2, <3>3
    <2> QED
      BY <2>1, <2>2
  <1>3. ASSUME Followed(w, e) PROVE Followed(v, e)
    <2>1. PICK k :
             /\ Ledger(w, k) /\ Path(e, w.trade.entryQty, w, k)
             /\ Live(w.orders[e]) \/ (\E i \in 1..Len(w.signals) : Trades(w, i, e))
                  => w.trade.entry.refId = e
      BY <1>3 DEF Followed
    <2>2. Ledger(v, k)
      BY <1>2, <2>1, LedgerStays
    <2>3. Path(e, v.trade.entryQty, v, k)
      BY <1>2, <2>1, PathStays DEF SameBooks
    <2> QED
      BY <1>2, <2>1, <2>2, <2>3 DEF Followed, Trades
  <1> QED
    BY <1>1, <1>2, <1>3 DEF EntryKept, SameBooks

LEMMA EntryMoves ==
  ASSUME NEW w, NEW v, NEW b \in Nat, NEW s, Good(w, b, s), Moves(w, v), NEW f, EntryKept(w, b, TRUE, f)
  PROVE  EntryKept(v, b, TRUE, f)
  <1>1. SameBooks(w, v) /\ w.trade.direction # 0
    BY DEF Moves, EntryKept
  <1>2. CASE Idle(w, v)
    BY <1>1, <1>2, EntryStays DEF Idle
  <1>3. CASE Withdraws(w, v)
    <2>1. PICK id \in OrderIds :
            /\ w.orders[id].status = "working"
            /\ v.orders = [w.orders EXCEPT ![id] = Withdrawn(w.orders[id])]
            /\ v.signals = w.signals \o <<Announce(id, "CANCELED")>>
            /\ v.trade.entry = w.trade.entry \/ id = w.trade.entry.orderId
      BY <1>3 DEF Withdraws
    <2> DEFINE o == Withdrawn(w.orders[id])
               ss == <<Announce(id, "CANCELED")>>
    <2>2. Tells(w, v, id, o, ss) /\ o.exec = w.orders[id].exec /\ o.revoked
      <3>1. w.orders[id].status = "working"
        BY <2>1
      <3>2. v.orders = [w.orders EXCEPT ![id] = Withdrawn(w.orders[id])]
        BY <2>1
      <3>3. v.signals = w.signals \o <<Announce(id, "CANCELED")>>
        BY <2>1
      <3> QED
        BY <3>1, <3>2, <3>3, WithdrawTells
    <2> HIDE DEF o, ss
    <2>3. id = w.trade.entry.orderId => o.role = "entry"
      <3>1. o.role = w.orders[id].role
        BY <2>2 DEF Tells
      <3>2. id = w.trade.entry.orderId => id \in IdsOf(w.trade.entry)
        BY NoIdAssumption DEF IdsOf
      <3>3. IdsOf(w.trade.entry) \subseteq Entries(w.orders)
        BY GoodTypes
      <3> QED
        BY <3>1, <3>2, <3>3 DEF Entries
    <2>4. o.exec \in Nat /\ b = IF o.role = "entry" THEN b + (o.exec - w.orders[id].exec) ELSE b
      BY <2>2 DEF Tells, BrokerOrders
    <2>5. w.orders[id].revoked => o.revoked
      BY <2>2
    <2>6. v.trade.entry = w.trade.entry \/ (o.role = "entry" /\ o.revoked)
      BY <2>1, <2>2, <2>3
    <2> QED
      BY <1>1, <2>2, <2>4, <2>5, <2>6, EntryTold, Zenon
  <1>4. CASE Places(w, v)
    BY <1>1, <1>4, PlacesCreates, EntryStays DEF Places
  <1> QED
    BY <1>2, <1>3, <1>4 DEF Moves

LEMMA EntryOpens ==
  ASSUME NEW w, NEW v, NEW b, NEW s, Good(w, b, s), Opens(w, v), NEW l, NEW m, NEW f,
         EntryKept(w, b, l, f)
  PROVE  EntryKept(v, b, m, f)
  <1>1. PICK id, o :
           /\ Creates(w, v, id, o) /\ o.role = "entry" /\ w.trade.direction = 0
           /\ v.trade.direction = 1 /\ v.trade.orderQuantity = EntrySize /\ v.trade.entryQty = 0
           /\ v.trade.entry.refId = id
    BY OpensCreates
  <1>2. b = 0 /\ \A j \in OrderIds : Fresh(w, j)
    BY <1>1 DEF EntryKept
  <1>3. Len(w.signals) = 0 /\ v.signals = w.signals
    <2>1. \A i \in 1..Len(w.signals) : FALSE
      BY <1>2, GoodTypes DEF Fresh
    <2>2. Len(w.signals) \in Nat
      BY GoodTypes
    <2> QED
      BY <1>1, <2>1, <2>2 DEF Creates
  <1>4. /\ id \in OrderIds /\ v.orders[id] = o /\ o.exec = 0 /\ o.status # "none"
        /\ \A j \in OrderIds : j # id => v.orders[j].status = "none"
    BY <1>1, <1>2, GoodTypes DEF Creates, Fresh
  <1>5. Entries(v.orders) = {id}
    BY <1>1, <1>4 DEF Entries
  <1>6. Followed(v, id)
    <2>1. PICK k : k = [i \in 1..0 |-> 0]
      OBVIOUS
    <2>2. Ledger(v, k)
      BY <1>3, <2>1 DEF Ledger
    <2>3. Path(id, 0, v, k)
      BY <1>3, <1>4 DEF Path
    <2> QED
      BY <1>1, <2>2, <2>3 DEF Followed
  <1> QED
    BY <1>1, <1>2, <1>4, <1>5, <1>6 DEF EntryKept

(* The last signal of an order, and an execution that fills it.            *)
LEMMA NothingAfter ==
  ASSUME NEW w, NEW v, NEW b, NEW s, Good(w, b, s), OrdersKept(w), NEW k, Ledger(w, k), Drops(w, v, 1),
         NEW e \in OrderIds, w.signals[1].orderId = e,
         \/ Ending(w.signals[1])
         \/ Trades(w, 1, e) /\ k[1] >= w.orders[e].quantity
  PROVE  ~Live(v.orders[e]) /\ \A j \in 1..Len(v.signals) : ~Trades(v, j, e)
  <1>1. Shifted(w, v, 1) /\ v.orders = w.orders
    BY DropShifts DEF Drops
  <1>2. 1 \in 1..Len(w.signals)
    BY <1>1 DEF Shifted
  <1>3. ASSUME NEW j \in 1..Len(v.signals), Trades(v, j, e)
        PROVE  Past(1, j) \in 1..Len(w.signals) /\ 1 < Past(1, j) /\ Trades(w, Past(1, j), e)
    <2>1. Past(1, j) \in 1..Len(w.signals) /\ Past(1, j) # 1 /\ Trades(w, Past(1, j), e)
      BY <1>1, <1>3 DEF Shifted, Trades
    <2> QED
      BY <2>1
  <1>4. CASE Ending(w.signals[1])
    <2>1. ~Live(w.orders[e])
      BY <1>2, <1>4 DEF OrdersKept
    <2>2. \A p \in 1..Len(w.signals) : 1 < p => ~Trades(w, p, e)
      BY <1>2, <1>4 DEF OrdersKept, Trades
    <2> QED
      BY <1>1, <1>3, <2>1, <2>2
  <1>5. CASE Trades(w, 1, e) /\ k[1] >= w.orders[e].quantity
    <2>1. /\ k[1] >= 1 /\ k[1] <= w.orders[e].exec /\ k[1] \in Nat /\ w.orders[e].exec \in Nat
          /\ w.orders[e].quantity \in Int
      <3>1. Noted(w, 1, e, k[1]) /\ k[1] \in Nat /\ w.signals[1].filled \in Int
        BY <1>2, <1>5, GoodTypes DEF Ledger, OrderSignals
      <3>2. w.orders[e].exec \in Nat /\ w.orders[e].quantity \in Int
        BY GoodTypes DEF BrokerOrders
      <3> QED
        BY <3>1, <3>2 DEF Noted
    <2>2. w.orders[e].exec <= w.orders[e].quantity /\ ~Live(w.orders[e])
      <3>1. w.orders[e].exec <= w.orders[e].quantity
            /\ (Live(w.orders[e]) => w.orders[e].exec < w.orders[e].quantity)
        BY <2>1 DEF OrdersKept, Whole
      <3>2. ~(w.orders[e].exec < w.orders[e].quantity)
        BY <1>5, <2>1
      <3> QED
        BY <3>1, <3>2
    <2>3. ASSUME NEW p \in 1..Len(w.signals), 1 < p, Trades(w, p, e) PROVE FALSE
      <3>1. Noted(w, p, e, k[p]) /\ k[p] \in Nat /\ k[1] <= k[p] - w.signals[p].filled
        BY <1>2, <1>5, <2>3 DEF Ledger
      <3>2. w.signals[p].filled >= 1 /\ k[p] <= w.orders[e].exec /\ w.signals[p].filled \in Int
        BY <2>3, <3>1, GoodTypes DEF Noted, OrderSignals
      <3> QED
        BY <1>5, <2>1, <2>2, <3>1, <3>2
    <2> QED
      BY <1>1, <1>3, <2>2, <2>3
  <1> QED
    BY <1>4, <1>5

(* What is added for an execution heard in its turn.                       *)
LEMMA TotalAdded ==
  ASSUME NEW w, NEW b, NEW s, Good(w, b, s), NEW k, Ledger(w, k), style \in Styles,
         NEW e \in OrderIds, Trades(w, 1, e), NEW base \in Int, k[1] - w.signals[1].filled = base
  PROVE  Accumulated(base, w.signals[1]) = k[1] /\ base < k[1] /\ k[1] <= w.orders[e].exec
  <1>1. 1 \in 1..Len(w.signals) /\ Noted(w, 1, e, k[1]) /\ k[1] \in Nat
    BY DEF Trades, Ledger
  <1>2. w.signals[1].filled \in Int /\ w.orders[e].exec \in Nat
    BY <1>1, GoodTypes DEF OrderSignals
  <1>3. w.signals[1].filled >= 1 /\ k[1] <= w.orders[e].exec
        /\ w.signals[1].cum = IF style = "cumulative" THEN k[1] ELSE 0
    BY <1>1 DEF Noted
  <1> QED
    BY <1>1, <1>2, <1>3 DEF Accumulated

LEMMA EntryReports ==
  ASSUME NEW w, NEW v, NEW b \in Nat, NEW s \in Nat, NEW c, NEW r, Reports(w, v, b, s, c, r), Good(w, b, s),
         NEW l, NEW f, EntryKept(w, b, l, f)
  PROVE  EntryKept(v, c, l, f)
  <1>1. PICK id, o, ss : Tells(w, v, id, o, ss) /\ Reported(w, v, b, s, c, r, id, o)
    BY ReportTells
  <1>2. /\ v.trade = w.trade /\ o.revoked = w.orders[id].revoked
        /\ c = IF o.role = "entry" THEN b + (o.exec - w.orders[id].exec) ELSE b
    BY <1>1 DEF Reported
  <1>3. SameBooks(w, v) /\ v.trade.entry = w.trade.entry /\ (w.orders[id].revoked => o.revoked)
    BY <1>2 DEF SameBooks
  <1> QED
    BY <1>1, <1>2, <1>3, EntryTold, Zenon

LEMMA EntryHears ==
  ASSUME NEW w, NEW v, NEW b, NEW s, Good(w, b, s), NEW f, NEW g, Hears(w, v, f, g),
         kind \in {"IND_MARGIN", "MARGIN"}, style \in Styles, OrdersKept(w), EntryKept(w, b, listed, f)
  PROVE  EntryKept(v, b, listed, g)
  <1>1. v.orders = w.orders /\ f \subseteq g
    BY HearsDrops
  <1>2. PICK i \in 1..Len(w.signals) :
              /\ \/ Heeds(w.trade, w.signals[i], v.trade)
                 \/ v.trade = w.trade /\ "lost" \in g
              /\ \/ v.signals = w.signals /\ "repeated" \in g
                 \/ Drops(w, v, i) /\ (i = 1 \/ "reordered" \in g)
    BY HearsDrops
  <1>3. SameTerms(w.trade, v.trade)
    BY <1>2 DEF Heeds, SameTerms
  <1>4. ASSUME listed, g = {}, NEW e \in Entries(w.orders), ~w.orders[e].revoked
        PROVE  Followed(v, e)
    <2> DEFINE x == w.signals[1]
               t == w.trade
               u == v.trade
    <2>1. f = {} /\ Drops(w, v, 1) /\ Heeds(t, x, u)
      BY <1>1, <1>2, <1>4
    <2>2. e \in OrderIds /\ \A j \in Entries(w.orders) : j = e
      <3>1. t.direction # 0 /\ e \in OrderIds
        BY <1>4 DEF EntryKept, Entries
      <3> QED
        BY <1>4, <3>1 DEF EntryKept
    <2>3. t.orderQuantity = EntrySize /\ w.orders[e].quantity = EntrySize
      BY <1>4, <2>2 DEF EntryKept, OrdersKept, Sized, Entries
    <2>4. Followed(w, e)
      BY <1>4, <2>1 DEF EntryKept
    <2>5. PICK k :
             /\ Ledger(w, k) /\ Path(e, t.entryQty, w, k)
             /\ Live(w.orders[e]) \/ (\E j \in 1..Len(w.signals) : Trades(w, j, e))
                  => t.entry.refId = e
      BY <2>4 DEF Followed
    <2>6. PICK h : h = [j \in 1..Len(v.signals) |-> k[Past(1, j)]] /\ Ledger(v, h)
      BY <2>1, <2>5, LedgerDrops
    <2>7. /\ 1 \in 1..Len(w.signals) /\ t.entryQty \in Int /\ x.orderId \in OrderIds
          /\ IdsOf(t.entry) \subseteq Entries(w.orders) /\ Shifted(w, v, 1)
      BY <2>1, DropShifts, GoodTypes DEF Drops
    <2>8. /\ Trades(w, 1, e) => k[1] - x.filled = t.entryQty /\ Path(e, k[1], v, h)
          /\ ~Trades(w, 1, e) => Path(e, t.entryQty, v, h)
      BY <2>1, <2>2, <2>5, <2>6, <2>7, PathDrops
    <2>9. ASSUME Live(v.orders[e]) \/ \E j \in 1..Len(v.signals) : Trades(v, j, e)
          PROVE  t.entry.refId = e
      <3>1. \A j \in 1..Len(v.signals) : Trades(v, j, e) =>
              Past(1, j) \in 1..Len(w.signals) /\ Trades(w, Past(1, j), e)
        BY <2>7 DEF Shifted, Trades
      <3> QED
        BY <1>1, <2>5, <2>9, <3>1
    <2> HIDE DEF x, t, u
    <2>10. CASE Names(t.entry, x)
      <3>1. x.orderId = e
        BY <2>2, <2>7, <2>10 DEF Names
      <3>2. EntryHeard(t, u, x)
        BY <1>4, <2>1, <2>10 DEF Heeds
      <3>3. x.event = "TRADED" <=> Trades(w, 1, e)
        BY <2>7, <3>1 DEF Trades, x
      <3>4. Trades(w, 1, e) => u.entryQty = k[1]
        <4>1. Trades(w, 1, e) => Accumulated(t.entryQty, x) = k[1]
          BY <2>2, <2>5, <2>7, <2>8, TotalAdded DEF x
        <4> QED
          BY <3>2, <3>3, <4>1 DEF EntryHeard
      <3>5. Path(e, u.entryQty, v, h)
        BY <2>8, <3>2, <3>3, <3>4 DEF EntryHeard
      <3>6. ASSUME Live(v.orders[e]) \/ \E j \in 1..Len(v.signals) : Trades(v, j, e)
            PROVE  u.entry.refId = e
        <4>1. ~Ending(x) /\ ~(Trades(w, 1, e) /\ k[1] >= EntrySize)
          BY <2>1, <2>2, <2>3, <2>5, <3>1, <3>6, NothingAfter DEF x
        <4>2. u.entry.refId = t.entry.refId
          BY <2>3, <3>2, <3>3, <3>4, <4>1 DEF EntryHeard
        <4> QED
          BY <2>9, <3>6, <4>2
      <3> QED
        BY <2>6, <3>5, <3>6 DEF Followed, u
    <2>11. CASE ~Names(t.entry, x)
      <3>1. u.entry = t.entry /\ u.entryQty = t.entryQty
        BY <2>1, <2>11 DEF Heeds
      <3>2. ~Trades(w, 1, e)
        BY <2>2, <2>5, <2>7, <2>11, NoIdAssumption DEF Trades, Names, IdsOf, x
      <3> QED
        BY <2>6, <2>8, <2>9, <3>1, <3>2 DEF Followed, u
    <2> QED
      BY <2>10, <2>11
  <1>5. v.trade.direction = w.trade.direction /\ v.trade.orderQuantity = w.trade.orderQuantity
    BY <1>3 DEF SameTerms
  <1>6. \A j \in OrderIds : Fresh(w, j) <=> Fresh(v, j)
    BY <1>1 DEF Fresh
  <1>7. \A e \in Entries(v.orders) :
          /\ v.orders[e].exec = b
          /\ listed /\ g = {} /\ ~v.orders[e].revoked => Followed(v, e)
    BY <1>1, <1>4 DEF EntryKept
  <1>8. w.trade.direction # 0 =>
          w.trade.orderQuantity = EntrySize /\ \E id \in OrderIds : Entries(v.orders) = {id}
    BY <1>1 DEF EntryKept
  <1>9. (listed => w.trade.direction # 0) /\ (w.trade.direction = 0 => b = 0 /\ \A id \in OrderIds : Fresh(w, id))
    BY DEF EntryKept
  <1> QED
    BY <1>5, <1>6, <1>7, <1>8, <1>9 DEF EntryKept

LEMMA EntrySteps ==
  ASSUME BrokerInv, OrdersKept(World), EntryKept(World, bought, listed, faults), [Next]_vars
  PROVE  EntryKept(World, bought, listed, faults)'
  <1>1. PICK v, c, r, m, g :
           /\ v = [trade |-> trade', orders |-> orders', signals |-> signals']
           /\ c = bought' /\ r = sold' /\ m = listed' /\ g = faults'
           /\ Good(World, bought, sold) /\ Good(v, c, r) /\ UNCHANGED broker
           /\ Steps(World, bought, sold, listed, faults, v, c, r, m, g)
    BY WorldSteps
  <1>2. kind \in {"IND_MARGIN", "MARGIN"} /\ bought \in Nat /\ sold \in Nat /\ style \in Styles
    BY InvType DEF BrokerInv
  <1>3. EntryKept(v, c, m, g)
    <2>1. CASE MovesTo(World, v, bought, sold) /\ c = bought /\ listed /\ m /\ g = faults
      <3>1. PICK x, y : /\ Moves(World, x) /\ Moves(x, y) /\ Moves(y, v)
                        /\ Good(x, bought, sold) /\ Good(y, bought, sold)
        BY <2>1 DEF MovesTo
      <3>2. EntryKept(World, bought, TRUE, faults)
        BY <2>1 DEF EntryKept
      <3>3. EntryKept(x, bought, TRUE, faults)
        BY <1>1, <1>2, <3>1, <3>2, EntryMoves
      <3>4. EntryKept(y, bought, TRUE, faults)
        BY <1>2, <3>1, <3>3, EntryMoves
      <3>5. EntryKept(v, bought, TRUE, faults)
        BY <1>2, <3>1, <3>4, EntryMoves
      <3> QED
        BY <2>1, <3>5 DEF EntryKept
    <2>2. CASE Opens(World, v) /\ c = bought /\ g = faults
      BY <1>1, <2>2, EntryOpens
    <2>3. CASE v = World /\ c = bought /\ g = faults /\ (m = listed \/ (listed /\ ~m))
      BY <2>3 DEF EntryKept
    <2>4. CASE Reports(World, v, bought, sold, c, r) /\ m = listed /\ g = faults
      BY <1>1, <1>2, <2>4, EntryReports
    <2>5. CASE Hears(World, v, faults, g) /\ c = bought /\ m = listed
      BY <1>1, <1>2, <2>5, EntryHears
    <2> QED
      BY <1>1, <2>1, <2>2, <2>3, <2>4, <2>5 DEF Steps
  <1>4. v.trade = trade' /\ v.orders = orders' /\ v.signals = signals' /\ kind' = kind /\ style' = style
    BY <1>1 DEF broker
  <1>5. c = bought' /\ m = listed' /\ g = faults'
    BY <1>1
  <1> HIDE <1>1
  <1>6. \A k : Ledger(v, k) <=> Ledger(World, k)'
    BY <1>4 DEF Ledger, Trades, Noted, World
  <1>7. \A id, n, k : Path(id, n, v, k) <=> Path(id, n, World, k)'
    BY <1>4 DEF Path, Trades, World
  <1>8. \A id : Followed(v, id) <=> Followed(World, id)'
    BY <1>4, <1>6, <1>7 DEF Followed, Trades, Live, World
  <1> QED
    BY <1>3, <1>4, <1>5, <1>8 DEF EntryKept, Entries, Fresh, World

LEMMA OrdersInvariant == Spec => [](BrokerInv /\ OrdersKept(World))
  <1> DEFINE P == OrdersKept(World)
  <1>1. Init => P
    <2>1. Init => /\ World.orders = [id \in OrderIds |-> NoOrder] /\ World.signals = <<>>
      BY DEF Init, World
    <2>2. NoOrder.exec = 0 /\ NoOrder.status = "none"
      BY DEF NoOrder
    <2> HIDE DEF P
    <2>3. ASSUME Init PROVE P
      <3>1. \A id \in OrderIds : Whole(World.orders[id]) /\ Sized(World.orders[id])
        <4>1. \A id \in OrderIds : World.orders[id] = NoOrder
          BY <2>1, <2>3
        <4>2. Whole(NoOrder) /\ Sized(NoOrder)
          BY <2>2 DEF Whole, Sized
        <4> QED
          BY <4>1, <4>2
      <3>2. Len(World.signals) = 0
        BY <2>1, <2>3
      <3> QED
        BY <3>1, <3>2 DEF OrdersKept, P
    <2> QED
      BY <2>3
  <1>2. BrokerInv /\ P /\ [Next]_vars => P'
    BY OrdersSteps
  <1> HIDE DEF P
  <1>3. Spec => [](BrokerInv /\ P)
    BY <1>1, <1>2, InitInv, NextInv, PTL DEF Spec
  <1> QED
    BY <1>3 DEF P

LEMMA EntryInvariant ==
  Spec => [](BrokerInv /\ OrdersKept(World) /\ EntryKept(World, bought, listed, faults))
  <1> DEFINE P == OrdersKept(World)
             Q == EntryKept(World, bought, listed, faults)
  <1>1. Init => Q
    <2> SUFFICES ASSUME Init PROVE EntryKept(World, bought, listed, faults)
      OBVIOUS
    <2>1. /\ World.trade.direction = 0 /\ ~listed /\ bought = 0
          /\ World.orders = [id \in OrderIds |-> NoOrder] /\ NoOrder.status = "none"
      BY DEF Init, World, ResetTrade, NoOrder
    <2>2. Entries(World.orders) = {} /\ \A id \in OrderIds : Fresh(World, id)
      BY <2>1 DEF Entries, Fresh
    <2> QED
      BY <2>1, <2>2 DEF EntryKept
  <1>2. BrokerInv /\ P /\ Q /\ [Next]_vars => Q'
    BY EntrySteps
  <1>3. Spec => [](BrokerInv /\ P)
    BY OrdersInvariant
  <1> HIDE DEF P, Q
  <1>4. Spec => [](BrokerInv /\ P /\ Q)
    BY <1>1, <1>2, <1>3, PTL DEF Spec
  <1> QED
    BY <1>4 DEF P, Q

\* Once every signal of an entry order that the trade did not cancel has been
\* delivered, the trade knows exactly what it entered: no interleaving of its
\* own operations with partial executions makes onOrderSignal() miss a part.
THEOREM EntryInStepAlways == Spec => []EntryInStep
  <1>1. BrokerInv /\ OrdersKept(World) /\ EntryKept(World, bought, listed, faults) => EntryInStep
    <2> SUFFICES ASSUME BrokerInv, EntryKept(World, bought, listed, faults),
                        listed, faults = {}, Quiet({"entry"})
                 PROVE  trade.entryQty = bought
      BY DEF EntryInStep
    <2>1. World.trade = trade /\ World.orders = orders /\ World.signals = signals /\ Good(World, bought, sold)
      BY InvType
    <2>2. PICK e \in OrderIds : Entries(orders) = {e}
      BY <2>1 DEF EntryKept
    <2>3. /\ ~orders[e].revoked /\ \A i \in 1..Len(signals) : signals[i].orderId # e
      <3>1. DOMAIN signals = 1..Len(signals) /\ orders[e].role = "entry"
        BY <2>1, <2>2, GoodTypes DEF Entries
      <3> QED
        BY <3>1 DEF Quiet
    <2>4. orders[e].exec = bought /\ Followed(World, e)
      BY <2>1, <2>2, <2>3 DEF EntryKept
    <2>5. PICK k : Path(e, trade.entryQty, World, k)
      BY <2>1, <2>4 DEF Followed
    <2> QED
      BY <2>1, <2>3, <2>4, <2>5 DEF Path, Trades
  <1> QED
    BY <1>1, EntryInvariant, PTL

-----------------------------------------------------------------------------
(* The closing order of an IndMarginTrade that has no distant stop order.  *)

NoneOf(w, role) == \A id \in OrderIds : Fresh(w, id) \/ w.orders[id].role # role

Blank(slot) == IdsOf(slot) = {} /\ ~slot.closing /\ slot.execQty = 0

ClosedOnce(w) ==
  /\ w.trade.stop.closing =>
       /\ w.trade.stop.refId \in OrderIds /\ ~Fresh(w, w.trade.stop.refId)
       /\ w.orders[w.trade.stop.refId].role = "close"
       /\ IdsOf(w.trade.stop) \subseteq {w.trade.stop.refId}
       /\ w.trade.stop.orderedQty = w.orders[w.trade.stop.refId].quantity
  /\ w.trade.stop.closing \/ Blank(w.trade.stop)
  /\ \A id \in OrderIds : w.orders[id].role = "close" /\ Live(w.orders[id]) =>
       w.trade.stop.closing /\ id = w.trade.stop.refId

(* What the slot counted of its order is less than what is still to come.  *)
Behind(w, k) ==
  w.trade.stop.closing =>
    /\ 0 <= w.trade.stop.execQty /\ w.trade.stop.execQty <= w.orders[w.trade.stop.refId].exec
    /\ \A i \in 1..Len(w.signals) : Trades(w, i, w.trade.stop.refId) =>
         w.trade.stop.execQty <= k[i] - w.signals[i].filled

CloseState(w) == ClosedOnce(w) /\ \E k : Ledger(w, k) /\ Behind(w, k)

LEMMA CloseTold ==
  ASSUME NEW w, NEW v, NEW b, NEW s, Good(w, b, s), CloseState(w),
         NEW id, NEW o, NEW ss, Tells(w, v, id, o, ss), v.trade.stop = w.trade.stop
  PROVE  CloseState(v)
  <1> DEFINE slot == w.trade.stop
             r == slot.refId
  <1>1. ToldShape(w, v, id, o)
    BY TellsSignals
  <1>2. /\ id \in OrderIds /\ Live(w.orders[id]) /\ o.role = w.orders[id].role /\ o.status # "none"
        /\ o.quantity = w.orders[id].quantity /\ o.exec >= w.orders[id].exec
        /\ o.exec \in Nat /\ w.orders[id].exec \in Nat
        /\ v.orders[id] = o /\ \A j \in OrderIds : j # id => v.orders[j] = w.orders[j]
    BY <1>1, GoodTypes DEF Tells, ToldShape, BrokerOrders
  <1>3. ClosedOnce(v)
    BY <1>2 DEF ClosedOnce, CloseState, Fresh
  <1>4. PICK k : Ledger(w, k) /\ Behind(w, k)
    BY DEF CloseState
  <1>5. PICK h : Ledger(v, h) /\ Grown(w, k, v, h, o.exec)
    BY <1>4, LedgerTold
  <1>6. ASSUME slot.closing PROVE r \in OrderIds
    BY <1>6 DEF CloseState, ClosedOnce
  <1>7. slot.execQty \in Int
    BY GoodTypes DEF Slots
  <1>8. ASSUME slot.closing
        PROVE  0 <= slot.execQty /\ slot.execQty <= v.orders[r].exec
    <2>1. 0 <= slot.execQty /\ slot.execQty <= w.orders[r].exec /\ w.orders[r].exec \in Nat
      <3>1. w.orders[r].exec \in Nat
        BY <1>6, <1>8, GoodTypes
      <3> QED
        BY <1>4, <1>8, <3>1 DEF Behind
    <2> QED
      BY <1>2, <1>6, <1>7, <1>8, <2>1
  <1>9. ASSUME slot.closing, NEW i \in 1..Len(v.signals), Trades(v, i, r)
        PROVE  slot.execQty <= h[i] - v.signals[i].filled
    <2>1. CASE i \in 1..Len(w.signals)
      <3>1. v.signals[i] = w.signals[i] /\ h[i] = k[i] /\ Trades(w, i, r)
        BY <1>1, <1>5, <1>9, <2>1 DEF ToldShape, Grown, Trades
      <3> QED
        BY <1>4, <1>9, <2>1, <3>1 DEF Behind
    <2>2. CASE i \notin 1..Len(w.signals)
      <3>1. h[i] = o.exec /\ id = r /\ v.signals[i].filled = o.exec - w.orders[id].exec
        BY <1>1, <1>5, <1>9, <2>2 DEF ToldShape, Grown, Trades
      <3>2. slot.execQty <= w.orders[id].exec
        BY <1>4, <1>9, <3>1 DEF Behind
      <3> DEFINE a == o.exec
                 c == w.orders[id].exec
                 q == slot.execQty
      <3>3. a \in Nat /\ c \in Nat /\ q \in Int /\ q <= c
        BY <1>2, <1>7, <3>2
      <3>4. h[i] - v.signals[i].filled = a - (a - c)
        BY <3>1
      <3> HIDE DEF a, c, q
      <3>5. q <= a - (a - c)
        BY <3>3
      <3> QED
        BY <3>4, <3>5 DEF q
    <2> QED
      BY <2>1, <2>2
  <1>10. Behind(v, h)
    BY <1>8, <1>9 DEF Behind
  <1> QED
    BY <1>3, <1>5, <1>10 DEF CloseState

LEMMA CloseStays ==
  ASSUME NEW w, NEW v, NEW b, NEW s, Good(w, b, s), CloseState(w), v.signals = w.signals,
         v.trade.stop = w.trade.stop \/ (~w.trade.stop.closing /\ Blank(v.trade.stop)),
         v.orders = w.orders \/ \E id, o : Creates(w, v, id, o) /\ (o.role = "close" => ~Live(o))
  PROVE  CloseState(v)
  <1>1. /\ \A j \in OrderIds : Fresh(w, j) \/ v.orders[j] = w.orders[j]
        /\ \A j \in OrderIds : Fresh(w, j) /\ v.orders[j].role = "close" => v.orders[j] = w.orders[j] \/ ~Live(v.orders[j])
    <2>1. CASE v.orders = w.orders
      BY <2>1
    <2>2. ASSUME NEW id, NEW o, Creates(w, v, id, o), o.role = "close" => ~Live(o)
          PROVE  /\ \A j \in OrderIds : Fresh(w, j) \/ v.orders[j] = w.orders[j]
                 /\ \A j \in OrderIds : Fresh(w, j) /\ v.orders[j].role = "close" =>
                                          v.orders[j] = w.orders[j] \/ ~Live(v.orders[j])
      <3>1. /\ id \in OrderIds /\ Fresh(w, id) /\ v.orders[id] = o
            /\ \A j \in OrderIds : j # id => v.orders[j] = w.orders[j]
        BY <2>2, GoodTypes DEF Creates
      <3> QED
        BY <2>2, <3>1
    <2> QED
      BY <2>1, <2>2
  <1>2. ClosedOnce(v)
    BY <1>1 DEF ClosedOnce, CloseState, Fresh, Blank
  <1>3. PICK k : Ledger(w, k) /\ Behind(w, k)
    BY DEF CloseState
  <1>4. Ledger(v, k)
    <2>1. \A id \in OrderIds : Fresh(w, id) \/ v.orders[id] = w.orders[id]
      BY <1>1
    <2>2. Ledger(w, k)
      BY <1>3
    <2> QED
      BY <2>1, <2>2, LedgerStays, Zenon
  <1>5. Behind(v, k)
    <2>1. CASE v.trade.stop.closing
      <3>1. v.trade.stop = w.trade.stop
        BY <2>1 DEF Blank
      <3> DEFINE r == w.trade.stop.refId
      <3>2. r \in OrderIds /\ ~Fresh(w, r)
        BY <2>1, <3>1 DEF CloseState, ClosedOnce
      <3>3. v.orders[r] = w.orders[r]
        BY <1>1, <3>2
      <3>4. \A j : Trades(v, j, r) <=> Trades(w, j, r)
        BY DEF Trades
      <3> HIDE DEF r
      <3> QED
        BY <1>3, <2>1, <3>1, <3>3, <3>4 DEF Behind, r
    <2> QED
      BY <2>1 DEF Behind
  <1> QED
    BY <1>2, <1>4, <1>5 DEF CloseState

(* close() sends its order and raises the flag.                            *)
LEMMA CloseSent ==
  ASSUME NEW w, NEW v, NEW b, NEW s, Good(w, b, s), CloseState(w), ~w.trade.stop.closing,
         NEW id, NEW o, Creates(w, v, id, o), o.role = "close",
         kind = "IND_MARGIN", v.trade.stop = SentClose(w.trade.stop, id, o.quantity, TRUE)
  PROVE  CloseState(v)
  <1> DEFINE slot == v.trade.stop
  <1>1. /\ id \in OrderIds /\ Fresh(w, id) /\ v.orders[id] = o /\ o.status # "none" /\ o.exec = 0
        /\ \A j \in OrderIds : j # id => v.orders[j] = w.orders[j]
        /\ v.signals = w.signals
    BY GoodTypes DEF Creates
  <1>2. w.trade.stop \in Slots
    BY GoodTypes
  <1>3. IdsOf(w.trade.stop) = {} /\ w.trade.stop.execQty = 0
    BY DEF CloseState, ClosedOnce, Blank
  <1>4. /\ slot.closing /\ slot.refId = id /\ slot.orderedQty = o.quantity /\ slot.execQty = 0
        /\ slot.orderId = w.trade.stop.orderId
    BY <1>2, <1>3 DEF Slots, SentClose
  <1>5. IdsOf(slot) \subseteq {id}
    BY <1>3, <1>4 DEF IdsOf
  <1>6. \A j \in OrderIds : w.orders[j].role = "close" => ~Live(w.orders[j])
    BY DEF CloseState, ClosedOnce
  <1> HIDE DEF slot
  <1>7. ClosedOnce(v)
    BY <1>1, <1>4, <1>5, <1>6 DEF ClosedOnce, Fresh, slot
  <1>8. PICK k : Ledger(w, k)
    BY DEF CloseState
  <1>9. Ledger(v, k)
    <2>1. (\A j \in OrderIds : Fresh(w, j) \/ v.orders[j] = w.orders[j]) /\ v.signals = w.signals
      BY <1>1
    <2> QED
      BY <1>8, <2>1, LedgerStays
  <1>10. \A i \in 1..Len(v.signals) : ~Trades(v, i, id)
    BY <1>1, GoodTypes DEF Trades, Fresh
  <1>11. Behind(v, k)
    <2>1. 0 <= slot.execQty /\ slot.execQty <= v.orders[slot.refId].exec
      BY <1>1, <1>4
    <2>2. \A i \in 1..Len(v.signals) : ~Trades(v, i, slot.refId)
      BY <1>4, <1>10
    <2> QED
      BY <2>1, <2>2 DEF Behind, slot
  <1> QED
    BY <1>7, <1>9, <1>11 DEF CloseState

(* What a move of the strategy does to the stop slot of an IndMarginTrade. *)
StopMoves(w, v) ==
  \/ v.trade.stop = w.trade.stop /\ v.orders = w.orders /\ v.signals = w.signals
  \/ /\ v.trade.stop = w.trade.stop
     /\ \E id, o, ss : /\ Tells(w, v, id, o, ss) /\ o.exec = w.orders[id].exec
                       /\ \A m \in 1..Len(ss) : ss[m].event # "TRADED"
  \/ /\ v.trade.stop = w.trade.stop
     /\ \E id, o : Creates(w, v, id, o) /\ o.role = "limit"
  \/ /\ ~w.trade.stop.closing /\ Blank(v.trade.stop)
     /\ \E id, o : Creates(w, v, id, o) /\ o.role = "close" /\ ~Live(o)
  \/ /\ ~w.trade.stop.closing
     /\ \E id, o : /\ Creates(w, v, id, o) /\ o.role = "close"
                   /\ v.trade.stop = SentClose(w.trade.stop, id, o.quantity, TRUE)

LEMMA MovesStop ==
  ASSUME NEW w, NEW v, NEW b, NEW s, Good(w, b, s), Moves(w, v), kind = "IND_MARGIN",
         ClosedOnce(w), NoneOf(v, "stop")
  PROVE  StopMoves(w, v)
  <1>1. CASE Idle(w, v)
    BY <1>1 DEF Idle, StopMoves
  <1>2. CASE Withdraws(w, v)
    <2>1. PICK id \in OrderIds :
            /\ w.orders[id].status = "working"
            /\ v.orders = [w.orders EXCEPT ![id] = Withdrawn(w.orders[id])]
            /\ v.signals = w.signals \o <<Announce(id, "CANCELED")>>
            /\ v.trade.stop = w.trade.stop \/ (id = w.trade.stop.orderId /\ ~w.trade.stop.closing)
      BY <1>2 DEF Withdraws
    <2>2. v.trade.stop = w.trade.stop
      <3>1. id = w.trade.stop.orderId => id \in IdsOf(w.trade.stop)
        BY NoIdAssumption DEF IdsOf
      <3> QED
        BY <2>1, <3>1 DEF ClosedOnce, Blank
    <2> DEFINE ss == <<Announce(id, "CANCELED")>>
               o == Withdrawn(w.orders[id])
    <2>3. Tells(w, v, id, o, ss) /\ o.exec = w.orders[id].exec
      BY <2>1, WithdrawTells
    <2>4. \A m \in 1..Len(ss) : ss[m].event # "TRADED"
      <3>1. Len(ss) = 1 /\ ss[1] = Announce(id, "CANCELED")
        OBVIOUS
      <3>2. Announce(id, "CANCELED").event # "TRADED"
        BY DEF Announce
      <3> QED
        BY <3>1, <3>2
    <2> HIDE DEF ss, o
    <2> QED
      BY <2>2, <2>3, <2>4 DEF StopMoves
  <1>3. CASE Places(w, v)
    <2>1. PICK id \in OrderIds, role \in {"limit", "stop", "close"}, qty \in Int, accepted \in BOOLEAN :
            /\ Fresh(w, id) /\ ~w.trade.stop.closing
            /\ v.orders = [w.orders EXCEPT ![id] = Placed(role, qty, accepted)]
            /\ v.signals = w.signals
            /\ \/ /\ role = "close" /\ qty > 0
                  /\ v.trade.stop = SentClose(w.trade.stop, id, qty, accepted)
               \/ role = "stop"
               \/ role = "limit" /\ v.trade.stop = w.trade.stop
      BY <1>3 DEF Places
    <2> DEFINE o == Placed(role, qty, accepted)
    <2>2. /\ Creates(w, v, id, o) /\ o.role = role /\ o.quantity = qty
          /\ Live(o) => accepted
      <3>1. role \in Roles /\ role # "entry" /\ (role = "close" => qty > 0)
        BY <2>1 DEF Roles
      <3> QED
        BY <2>1, <3>1, PlacedCreates
    <2>3. v.orders[id] = o /\ o.status # "none"
      BY <2>2, GoodTypes DEF Creates
    <2> HIDE DEF o
    <2>4. role # "stop"
      BY <2>2, <2>3 DEF NoneOf, Fresh
    <2>5. CASE role = "limit"
      BY <2>1, <2>2, <2>5 DEF StopMoves
    <2>6. CASE role = "close" /\ accepted
      <3>1. v.trade.stop = SentClose(w.trade.stop, id, o.quantity, TRUE)
        BY <2>1, <2>2, <2>6
      <3>2. Creates(w, v, id, o) /\ o.role = "close" /\ ~w.trade.stop.closing
        BY <2>1, <2>2, <2>6
      <3> QED
        BY <3>1, <3>2 DEF StopMoves
    <2>7. CASE role = "close" /\ ~accepted
      <3>1. v.trade.stop = Clear(w.trade.stop, w.trade.stop.state)
        BY <2>1, <2>7 DEF SentClose
      <3>2. Blank(v.trade.stop)
        BY <3>1, ClearIds DEF Blank, Clear, ResetSlot
      <3> QED
        <4>1. Creates(w, v, id, o) /\ o.role = "close" /\ ~w.trade.stop.closing /\ ~Live(o)
          BY <2>1, <2>2, <2>7
        <4> QED
          BY <3>2, <4>1 DEF StopMoves
    <2> QED
      BY <2>1, <2>4, <2>5, <2>6, <2>7
  <1> QED
    BY <1>1, <1>2, <1>3 DEF Moves

(* Orders keep their roles.                                                *)
Keeps(w, v) == \A id \in OrderIds : Fresh(w, id) \/ (~Fresh(v, id) /\ v.orders[id].role = w.orders[id].role)

LEMMA NoneBefore ==
  ASSUME NEW w, NEW v, Keeps(w, v), NEW role, NoneOf(v, role)
  PROVE  NoneOf(w, role)
  BY DEF Keeps, NoneOf

LEMMA CreateKeeps ==
  ASSUME NEW w, NEW v, NEW b, NEW s, Good(w, b, s), NEW id, NEW o, Creates(w, v, id, o)
  PROVE  Keeps(w, v)
  <1>1. Fresh(w, id) /\ \A j \in OrderIds : j # id => v.orders[j] = w.orders[j]
    BY GoodTypes DEF Creates
  <1> QED
    BY <1>1 DEF Keeps, Fresh

LEMMA TellKeeps ==
  ASSUME NEW w, NEW v, NEW b, NEW s, Good(w, b, s), NEW id, NEW o, NEW ss, Tells(w, v, id, o, ss)
  PROVE  Keeps(w, v)
  <1>1. /\ v.orders[id] = o /\ o.status # "none" /\ o.role = w.orders[id].role
        /\ \A j \in OrderIds : j # id => v.orders[j] = w.orders[j]
    <2>1. ToldShape(w, v, id, o)
      BY TellsSignals
    <2> QED
      BY <2>1 DEF ToldShape, Tells
  <1> QED
    BY <1>1 DEF Keeps, Fresh

LEMMA MoveKeeps ==
  ASSUME NEW w, NEW v, NEW b, NEW s, Good(w, b, s), Moves(w, v)
  PROVE  Keeps(w, v)
  <1>1. CASE Idle(w, v)
    BY <1>1 DEF Idle, Keeps, Fresh
  <1>2. CASE Withdraws(w, v)
    <2>1. \E id, o, ss : Tells(w, v, id, o, ss)
      BY <1>2, WithdrawTells DEF Withdraws
    <2> QED
      BY <2>1, TellKeeps
  <1>3. CASE Places(w, v)
    BY <1>3, PlacesCreates, CreateKeeps
  <1> QED
    BY <1>1, <1>2, <1>3 DEF Moves

LEMMA CloseStateMoves ==
  ASSUME NEW w, NEW v, NEW b, NEW s, Good(w, b, s), Moves(w, v), kind = "IND_MARGIN",
         NoneOf(v, "stop"), CloseState(w)
  PROVE  CloseState(v)
  <1>1. StopMoves(w, v)
    BY MovesStop DEF CloseState
  <1>2. ASSUME NEW id, NEW o, Creates(w, v, id, o) PROVE v.signals = w.signals
    BY <1>2 DEF Creates
  <1>3. CASE v.trade.stop = w.trade.stop /\ v.orders = w.orders /\ v.signals = w.signals
    BY <1>3, CloseStays
  <1>4. CASE v.trade.stop = w.trade.stop /\ \E id, o, ss : Tells(w, v, id, o, ss)
    BY <1>4, CloseTold
  <1>5. CASE v.trade.stop = w.trade.stop /\ \E id, o : Creates(w, v, id, o) /\ o.role = "limit"
    <2>1. (\E id, o : Creates(w, v, id, o) /\ (o.role = "close" => ~Live(o))) /\ v.signals = w.signals
      BY <1>2, <1>5
    <2> QED
      BY <1>5, <2>1, CloseStays
  <1>6. CASE /\ ~w.trade.stop.closing /\ Blank(v.trade.stop)
             /\ \E id, o : Creates(w, v, id, o) /\ o.role = "close" /\ ~Live(o)
    <2>1. (\E id, o : Creates(w, v, id, o) /\ (o.role = "close" => ~Live(o))) /\ v.signals = w.signals
      BY <1>2, <1>6
    <2> QED
      BY <1>6, <2>1, CloseStays
  <1>7. CASE /\ ~w.trade.stop.closing
             /\ \E id, o : /\ Creates(w, v, id, o) /\ o.role = "close"
                           /\ v.trade.stop = SentClose(w.trade.stop, id, o.quantity, TRUE)
    BY <1>7, CloseSent
  <1> QED
    BY <1>1, <1>3, <1>4, <1>5, <1>6, <1>7 DEF StopMoves

(* What a signal does to the stop slot.                                    *)
LEMMA StopHears ==
  ASSUME NEW t \in TradeRecords, NEW x \in OrderSignals, NEW u, Heeds(t, x, u), kind = "IND_MARGIN",
         listed \in BOOLEAN
  PROVE  \/ u.stop = t.stop
         \/ /\ listed /\ Names(t.stop, x) /\ SlotHeard(t.stop, u.stop, x)
            /\ u.limit = t.limit /\ u.exitQty = t.exitQty + Booked(t.stop, x)
  <1>1. CASE listed /\ Names(t.entry, x)
    BY <1>1 DEF Heeds
  <1>2. CASE listed /\ ~Names(t.entry, x) /\ Names(t.limit, x)
    BY <1>2 DEF Heeds
  <1>3. CASE listed /\ ~Names(t.entry, x) /\ ~Names(t.limit, x) /\ Names(t.stop, x)
    BY <1>3 DEF Heeds
  <1>4. CASE ~listed \/ ~(Names(t.entry, x) \/ Names(t.limit, x) \/ Names(t.stop, x))
    BY <1>4 DEF Heeds
  <1> QED
    BY <1>1, <1>2, <1>3, <1>4

(* An execution heard in its turn brings the slot forward, and no further  *)
(* than what its order had executed.                                       *)
LEMMA FillAdded ==
  ASSUME NEW w, NEW b, NEW s, Good(w, b, s), NEW k, Ledger(w, k), style \in Styles,
         NEW id \in OrderIds, Trades(w, 1, id), NEW slot \in Slots, 0 <= slot.execQty,
         slot.execQty <= k[1] - w.signals[1].filled
  PROVE  /\ slot.execQty < slot.execQty + ExitFill(slot, w.signals[1])
         /\ slot.execQty + ExitFill(slot, w.signals[1]) <= k[1]
         /\ slot.execQty = k[1] - w.signals[1].filled =>
              slot.execQty + ExitFill(slot, w.signals[1]) = k[1]
         /\ k[1] <= w.orders[id].exec /\ k[1] \in Nat
         /\ Booked(slot, w.signals[1]) = ExitFill(slot, w.signals[1])
         /\ ExitFill(slot, w.signals[1]) \in Int
  <1>1. 1 \in 1..Len(w.signals) /\ Noted(w, 1, id, k[1]) /\ k[1] \in Nat
    BY DEF Trades, Ledger
  <1>2. w.signals[1].filled \in Int /\ w.orders[id].exec \in Nat /\ slot.execQty \in Int
    BY <1>1, GoodTypes DEF OrderSignals, Slots
  <1>3. w.signals[1].filled >= 1 /\ k[1] <= w.orders[id].exec
        /\ w.signals[1].cum = IF style = "cumulative" THEN k[1] ELSE 0
    BY <1>1 DEF Noted
  <1>4. Booked(slot, w.signals[1]) = ExitFill(slot, w.signals[1])
    BY DEF Booked, Trades
  <1> QED
    BY <1>1, <1>2, <1>3, <1>4 DEF ExitFill

LEMMA CloseHears ==
  ASSUME NEW w, NEW v, NEW b, NEW s, Good(w, b, s), NEW f, NEW g, Hears(w, v, f, g), g \subseteq {"lost"},
         kind = "IND_MARGIN", style \in Styles, listed \in BOOLEAN, OrdersKept(w), CloseState(w)
  PROVE  CloseState(v)
  <1> DEFINE x == w.signals[1]
             slot == w.trade.stop
             new == v.trade.stop
  <1>1. v.orders = w.orders /\ Drops(w, v, 1) /\ (Heeds(w.trade, x, v.trade) \/ v.trade = w.trade)
    BY HearsDrops
  <1>2. /\ 1 \in 1..Len(w.signals) /\ x \in OrderSignals /\ x.orderId \in OrderIds
        /\ Shifted(w, v, 1) /\ w.trade \in TradeRecords /\ slot \in Slots
    BY <1>1, DropShifts, GoodTypes DEF Drops
  <1>3. PICK k : Ledger(w, k) /\ Behind(w, k)
    BY DEF CloseState
  <1>4. PICK h : h = [j \in 1..Len(v.signals) |-> k[Past(1, j)]] /\ Ledger(v, h)
    BY <1>1, <1>3, LedgerDrops
  <1>5. ASSUME NEW j \in 1..Len(v.signals), NEW id, Trades(v, j, id)
        PROVE  /\ Past(1, j) \in 1..Len(w.signals) /\ 1 < Past(1, j) /\ Trades(w, Past(1, j), id)
               /\ h[j] = k[Past(1, j)] /\ v.signals[j] = w.signals[Past(1, j)]
    <2>1. /\ Past(1, j) \in 1..Len(w.signals) /\ Past(1, j) # 1 /\ Trades(w, Past(1, j), id)
          /\ h[j] = k[Past(1, j)] /\ v.signals[j] = w.signals[Past(1, j)]
      BY <1>2, <1>4, <1>5 DEF Shifted, Trades
    <2> QED
      BY <2>1
  <1>6. \/ new = slot
        \/ listed /\ Names(slot, x) /\ SlotHeard(slot, new, x)
    BY <1>1, <1>2, StopHears
  <1> HIDE DEF x, slot, new
  <1>7. CASE new = slot
    <2>1. ClosedOnce(v)
      BY <1>1, <1>7 DEF CloseState, ClosedOnce, Fresh, slot, new
    <2>2. Behind(v, h)
      BY <1>1, <1>3, <1>5, <1>7 DEF Behind, slot, new
    <2> QED
      BY <1>4, <2>1, <2>2 DEF CloseState
  <1>8. CASE Names(slot, x) /\ SlotHeard(slot, new, x)
    <2> DEFINE r == slot.refId
    <2>1. slot.closing /\ r \in OrderIds /\ x.orderId = r /\ slot.orderedQty = w.orders[r].quantity
          /\ w.orders[r].role = "close" /\ IdsOf(slot) \subseteq {r} /\ ~Fresh(w, r)
      BY <1>8 DEF CloseState, ClosedOnce, Blank, Names, slot
    <2>2. 0 <= slot.execQty /\ slot.execQty <= w.orders[r].exec
      BY <1>3, <2>1 DEF Behind, slot
    <2>3. ASSUME Trades(w, 1, r)
          PROVE  /\ slot.execQty < slot.execQty + ExitFill(slot, x)
                 /\ slot.execQty + ExitFill(slot, x) <= k[1]
                 /\ k[1] <= w.orders[r].exec /\ k[1] \in Nat
                 /\ Booked(slot, x) = ExitFill(slot, x) /\ ExitFill(slot, x) \in Int
      <3>1. slot.execQty <= k[1] - w.signals[1].filled
        BY <1>2, <1>3, <2>1, <2>3 DEF Behind, slot
      <3> QED
        BY <1>2, <1>3, <2>1, <2>2, <2>3, <3>1, FillAdded DEF x
    <2>4. x.event = "TRADED" <=> Trades(w, 1, r)
      BY <1>2, <2>1 DEF Trades, x
    <2>5. slot.execQty \in Int /\ w.orders[r].exec \in Nat /\ w.orders[r].quantity \in Int
      BY <1>2, <2>1, GoodTypes DEF Slots, BrokerOrders
    <2>6. CASE /\ Blank(new)
               /\ \/ Ending(x)
                  \/ x.event = "TRADED" /\ slot.execQty + ExitFill(slot, x) >= slot.orderedQty
      <3>1. Ending(x) \/ (Trades(w, 1, r) /\ k[1] >= w.orders[r].quantity)
        BY <2>1, <2>3, <2>4, <2>5, <2>6
      <3>2. ~Live(v.orders[r])
        BY <1>1, <1>3, <2>1, <3>1, NothingAfter DEF x
      <3>3. ClosedOnce(v)
        BY <1>1, <2>6, <3>2 DEF CloseState, ClosedOnce, Fresh, Blank, slot, new
      <3>4. Behind(v, h)
        BY <2>6 DEF Behind, Blank, new
      <3> QED
        BY <1>4, <3>3, <3>4 DEF CloseState
    <2>7. CASE /\ new.refId = r /\ new.closing = slot.closing
               /\ new.orderId = (IF slot.orderId = NoId THEN x.orderId ELSE slot.orderId)
               /\ new.orderedQty = slot.orderedQty /\ new.execQty = slot.execQty + Booked(slot, x)
      <3>1. IdsOf(new) \subseteq {r} /\ new.closing
        BY <2>1, <2>7 DEF IdsOf
      <3>2. ClosedOnce(v)
        BY <1>1, <2>1, <2>7, <3>1 DEF CloseState, ClosedOnce, Fresh, slot, new
      <3>3. /\ 0 <= new.execQty /\ new.execQty <= w.orders[r].exec
            /\ \A j \in 1..Len(v.signals) : Trades(v, j, r) => new.execQty <= h[j] - v.signals[j].filled
        <4>1. CASE Trades(w, 1, r)
          <5>1. /\ new.execQty = slot.execQty + ExitFill(slot, x) /\ new.execQty \in Int
                /\ new.execQty <= k[1] /\ 0 <= new.execQty /\ new.execQty <= w.orders[r].exec
                /\ k[1] \in Nat
            BY <2>2, <2>3, <2>5, <2>7, <4>1
          <5>2. ASSUME NEW j \in 1..Len(v.signals), Trades(v, j, r)
                PROVE  new.execQty <= h[j] - v.signals[j].filled
            <6>1. k[1] <= k[Past(1, j)] - w.signals[Past(1, j)].filled
              BY <1>2, <1>3, <1>5, <2>1, <4>1, <5>2 DEF Ledger
            <6>2. k[Past(1, j)] \in Nat /\ w.signals[Past(1, j)].filled \in Int
              BY <1>3, <1>5, <5>2, GoodTypes DEF Ledger, OrderSignals
            <6>3. v.signals[j].filled = w.signals[Past(1, j)].filled /\ h[j] = k[Past(1, j)]
              BY <1>5, <5>2
            <6> DEFINE a == k[Past(1, j)]
                       n == w.signals[Past(1, j)].filled
            <6>4. a \in Nat /\ n \in Int /\ k[1] <= a - n
              BY <6>1, <6>2
            <6> HIDE DEF a, n
            <6>5. new.execQty <= a - n
              BY <5>1, <6>4
            <6> QED
              BY <6>3, <6>5 DEF a, n
          <5> QED
            BY <5>1, <5>2
        <4>2. CASE ~Trades(w, 1, r)
          <5>1. new.execQty = slot.execQty
            BY <2>4, <2>5, <2>7, <4>2 DEF Booked
          <5>2. \A j \in 1..Len(v.signals) : Trades(v, j, r) => slot.execQty <= h[j] - v.signals[j].filled
            BY <1>3, <1>5, <2>1 DEF Behind, slot
          <5> QED
            BY <2>2, <5>1, <5>2
        <4> QED
          BY <4>1, <4>2
      <3>4. Behind(v, h)
        BY <1>1, <2>7, <3>3 DEF Behind, new
      <3> QED
        BY <1>4, <3>2, <3>4 DEF CloseState
    <2> QED
      BY <1>8, <2>6, <2>7 DEF SlotHeard, Blank
  <1> QED
    BY <1>6, <1>7, <1>8

CloseKept(w, f) == kind = "IND_MARGIN" /\ f \subseteq {"lost"} /\ NoneOf(w, "stop") => CloseState(w)

LEMMA CloseKeptMoves ==
  ASSUME NEW w, NEW v, NEW b, NEW s, Good(w, b, s), Moves(w, v), NEW f, CloseKept(w, f)
  PROVE  CloseKept(v, f)
  <1> SUFFICES ASSUME kind = "IND_MARGIN", f \subseteq {"lost"}, NoneOf(v, "stop") PROVE CloseState(v)
    BY DEF CloseKept
  <1>1. NoneOf(w, "stop")
    BY MoveKeeps, NoneBefore
  <1>2. CloseState(w)
    BY <1>1 DEF CloseKept
  <1> QED
    BY <1>2, CloseStateMoves

LEMMA CloseOpens ==
  ASSUME NEW w, NEW v, NEW b, NEW s, Good(w, b, s), Opens(w, v), CloseState(w)
  PROVE  CloseState(v)
  <1>1. PICK id, o : Creates(w, v, id, o) /\ o.role = "entry" /\ v.trade.stop = ResetSlot
    BY OpensCreates
  <1>2. w.trade.stop = ResetSlot
    BY DEF Opens, ResetTrade
  <1>3. Blank(ResetSlot) /\ ~ResetSlot.closing
    BY DEF Blank, IdsOf, ResetSlot
  <1>4. (\E i, p : Creates(w, v, i, p) /\ (p.role = "close" => ~Live(p))) /\ v.signals = w.signals
    BY <1>1 DEF Creates
  <1> QED
    BY <1>1, <1>2, <1>3, <1>4, CloseStays

LEMMA ReportKeeps ==
  ASSUME NEW w, NEW v, NEW b \in Nat, NEW s \in Nat, NEW c, NEW r, Reports(w, v, b, s, c, r), Good(w, b, s)
  PROVE  Keeps(w, v)
  BY ReportTells, TellKeeps

LEMMA CloseSteps ==
  ASSUME BrokerInv, OrdersKept(World), CloseKept(World, faults), [Next]_vars
  PROVE  CloseKept(World, faults)'
  <1>1. PICK v, c, r, m, g :
           /\ v = [trade |-> trade', orders |-> orders', signals |-> signals']
           /\ c = bought' /\ r = sold' /\ m = listed' /\ g = faults'
           /\ Good(World, bought, sold) /\ Good(v, c, r) /\ UNCHANGED broker
           /\ Steps(World, bought, sold, listed, faults, v, c, r, m, g)
    BY WorldSteps
  <1>2. /\ kind \in {"IND_MARGIN", "MARGIN"} /\ bought \in Nat /\ sold \in Nat /\ style \in Styles
        /\ listed \in BOOLEAN
    BY InvType DEF BrokerInv
  <1>3. CloseKept(v, g)
    <2>1. CASE MovesTo(World, v, bought, sold) /\ g = faults
      <3>1. PICK x, y : /\ Moves(World, x) /\ Moves(x, y) /\ Moves(y, v)
                        /\ Good(x, bought, sold) /\ Good(y, bought, sold)
        BY <2>1 DEF MovesTo
      <3>2. CloseKept(x, faults)
        BY <1>1, <3>1, CloseKeptMoves
      <3>3. CloseKept(y, faults)
        BY <3>1, <3>2, CloseKeptMoves
      <3> QED
        BY <2>1, <3>1, <3>3, CloseKeptMoves
    <2>2. CASE Opens(World, v) /\ g = faults
      <3>0. \E id, o : Creates(World, v, id, o)
        BY <1>1, <2>2, OpensCreates
      <3>1. NoneOf(v, "stop") => NoneOf(World, "stop")
        BY <1>1, <3>0, CreateKeeps, NoneBefore
      <3>2. CloseState(World) => CloseState(v)
        BY <1>1, <2>2, CloseOpens
      <3> QED
        BY <2>2, <3>1, <3>2 DEF CloseKept
    <2>3. CASE v = World /\ g = faults
      BY <2>3
    <2>4. CASE Reports(World, v, bought, sold, c, r) /\ g = faults
      <3>1. NoneOf(v, "stop") => NoneOf(World, "stop")
        BY <1>1, <1>2, <2>4, ReportKeeps, NoneBefore
      <3>2. PICK id, o, ss : Tells(World, v, id, o, ss) /\ v.trade = World.trade
        <4>1. PICK id, o, ss : Tells(World, v, id, o, ss) /\ Reported(World, v, bought, sold, c, r, id, o)
          BY <1>1, <1>2, <2>4, ReportTells
        <4> QED
          BY <4>1 DEF Reported
      <3>3. CloseState(World) => CloseState(v)
        BY <1>1, <3>2, CloseTold
      <3> QED
        BY <2>4, <3>1, <3>3 DEF CloseKept
    <2>5. CASE Hears(World, v, faults, g)
      <3>1. v.orders = World.orders /\ faults \subseteq g
        BY <1>1, <1>2, <2>5, HearsDrops
      <3>2. NoneOf(v, "stop") => NoneOf(World, "stop")
        BY <3>1 DEF NoneOf, Fresh
      <3>3. kind = "IND_MARGIN" /\ g \subseteq {"lost"} /\ CloseState(World) => CloseState(v)
        BY <1>1, <1>2, <2>5, CloseHears
      <3> QED
        BY <3>1, <3>2, <3>3 DEF CloseKept
    <2> QED
      BY <1>1, <2>1, <2>2, <2>3, <2>4, <2>5 DEF Steps
  <1>4. v.trade = trade' /\ v.orders = orders' /\ v.signals = signals' /\ kind' = kind /\ style' = style
    BY <1>1 DEF broker
  <1>5. g = faults'
    BY <1>1
  <1> HIDE <1>1
  <1>6. NoneOf(World, "stop")' <=> NoneOf(v, "stop")
    BY <1>4 DEF NoneOf, Fresh, World
  <1>7. ASSUME CloseState(v) PROVE CloseState(World)'
    <2>1. PICK k : Ledger(v, k) /\ Behind(v, k)
      BY <1>7 DEF CloseState
    <2>2. Ledger(World, k)'
      BY <1>4, <2>1 DEF Ledger, Trades, Noted, World
    <2>3. Behind(World, k)'
      BY <1>4, <2>1 DEF Behind, Trades, World
    <2>4. ClosedOnce(World)'
      BY <1>4, <1>7 DEF CloseState, ClosedOnce, Blank, IdsOf, Fresh, Live, World
    <2> QED
      BY <2>2, <2>3, <2>4 DEF CloseState
  <1> QED
    BY <1>3, <1>4, <1>5, <1>6, <1>7 DEF CloseKept

LEMMA CloseInvariant == Spec => [](BrokerInv /\ OrdersKept(World) /\ CloseKept(World, faults))
  <1> DEFINE P == OrdersKept(World)
             Q == CloseKept(World, faults)
  <1>1. Init => Q
    <2> SUFFICES ASSUME Init PROVE CloseState(World)
      BY DEF CloseKept
    <2>1. /\ World.trade.stop = ResetSlot /\ World.signals = <<>>
          /\ World.orders = [id \in OrderIds |-> NoOrder] /\ NoOrder.role = "entry"
      BY DEF Init, World, ResetTrade, NoOrder
    <2>2. Blank(ResetSlot) /\ ~ResetSlot.closing
      BY DEF Blank, IdsOf, ResetSlot
    <2>3. ClosedOnce(World)
      BY <2>1, <2>2 DEF ClosedOnce
    <2>4. PICK k : k = [i \in 1..0 |-> 0]
      OBVIOUS
    <2>5. Ledger(World, k)
      BY <2>1, <2>4 DEF Ledger
    <2>6. Behind(World, k)
      BY <2>1, <2>2 DEF Behind
    <2> QED
      BY <2>3, <2>5, <2>6 DEF CloseState
  <1>2. BrokerInv /\ P /\ Q /\ [Next]_vars => Q'
    BY CloseSteps
  <1>3. Spec => [](BrokerInv /\ P)
    BY OrdersInvariant
  <1> HIDE DEF P, Q
  <1>4. Spec => [](BrokerInv /\ P /\ Q)
    BY <1>1, <1>2, <1>3, PTL DEF Spec
  <1> QED
    BY <1>4 DEF P, Q

\* stop.closing keeps close() from sending a second closing order while one is
\* live, also when signals of the first are lost: the slot drops the flag only on
\* a signal that ends its order, or once it counted all that it ordered, and what
\* it counts is never more than what its order executed.
THEOREM OneClosingOrderAlways == Spec => []OneClosingOrder
  <1>1. BrokerInv /\ CloseKept(World, faults) => OneClosingOrder
    <2> SUFFICES ASSUME BrokerInv, CloseKept(World, faults),
                        kind = "IND_MARGIN", faults \subseteq {"lost"}, Used("stop") = {}
                 PROVE  Cardinality({id \in Used("close") : Live(orders[id])}) <= 1
      BY DEF OneClosingOrder
    <2>1. World.trade = trade /\ World.orders = orders
      BY DEF World
    <2>2. NoneOf(World, "stop")
      BY <2>1 DEF NoneOf, Fresh, Used
    <2>3. ClosedOnce(World)
      BY <2>2 DEF CloseKept, CloseState
    <2> DEFINE closers == {id \in Used("close") : Live(orders[id])}
    <2>4. \A i, j \in closers : i = j
      BY <2>1, <2>3 DEF ClosedOnce, Used
    <2> HIDE DEF closers
    <2>5. CASE closers = {}
      <3>1. Cardinality(closers) = 0
        BY <2>5, FS_EmptySet
      <3> QED
        BY <3>1 DEF closers
    <2>6. CASE closers # {}
      <3>1. PICK i \in closers : closers = {i}
        BY <2>4, <2>6
      <3>2. Cardinality(closers) = 1
        BY <3>1, FS_Singleton
      <3> QED
        BY <3>2 DEF closers
    <2> QED
      BY <2>5, <2>6
  <1> QED
    BY <1>1, CloseInvariant, PTL

-----------------------------------------------------------------------------
(* The exits of an IndMarginTrade that only close() sends orders for: what *)
(* the trade believes it exited and what its closing order has still to    *)
(* announce add up to what the exit orders executed.                       *)

ExitsFollowed(w, s, k) ==
  /\ w.trade.stop.closing =>
       /\ Path(w.trade.stop.refId, w.trade.stop.execQty, w, k)
       /\ s - w.trade.exitQty = w.orders[w.trade.stop.refId].exec - w.trade.stop.execQty
  /\ ~w.trade.stop.closing => w.trade.exitQty = s
  /\ \A id \in OrderIds :
       w.orders[id].role = "close" /\ ~(w.trade.stop.closing /\ id = w.trade.stop.refId) =>
         \A i \in 1..Len(w.signals) : ~Trades(w, i, id)

ExitsKnown(w, s) == \E k : Ledger(w, k) /\ ExitsFollowed(w, s, k)

ClosesOnly(w) == NoneOf(w, "stop") /\ NoneOf(w, "limit")

LEMMA ExitTold ==
  ASSUME NEW w, NEW v, NEW b, NEW s \in Nat, Good(w, b, s), ClosedOnce(w), ClosesOnly(w), ExitsKnown(w, s),
         NEW id, NEW o, NEW ss, Tells(w, v, id, o, ss), v.trade.stop = w.trade.stop,
         v.trade.exitQty = w.trade.exitQty,
         NEW r, r = IF o.role = "entry" THEN s ELSE s + (o.exec - w.orders[id].exec)
  PROVE  ExitsKnown(v, r)
  <1> DEFINE slot == w.trade.stop
             e == slot.refId
  <1>1. ToldShape(w, v, id, o)
    BY TellsSignals
  <1>2. /\ id \in OrderIds /\ Live(w.orders[id]) /\ o.role = w.orders[id].role /\ o.role \in Roles
        /\ o.exec \in Nat /\ w.orders[id].exec \in Nat /\ ~Fresh(w, id)
        /\ v.orders[id] = o /\ \A j \in OrderIds : j # id => v.orders[j] = w.orders[j]
    BY <1>1, GoodTypes DEF Tells, ToldShape, BrokerOrders, Live, Fresh
  <1>3. o.role # "entry" => slot.closing /\ id = e
    <2>1. o.role # "stop" /\ o.role # "limit"
      BY <1>2 DEF ClosesOnly, NoneOf
    <2> QED
      BY <1>2, <2>1 DEF Roles, ClosedOnce
  <1>4. slot.closing => e \in OrderIds /\ w.orders[e].role = "close" /\ w.orders[e].exec \in Nat
    BY GoodTypes DEF ClosedOnce
  <1>5. PICK k : Ledger(w, k) /\ ExitsFollowed(w, s, k)
    BY DEF ExitsKnown
  <1>6. PICK h : Ledger(v, h) /\ Grown(w, k, v, h, o.exec)
    BY <1>5, LedgerTold
  <1>7. slot.execQty \in Int /\ w.trade.exitQty \in Int
    BY GoodTypes DEF Slots
  <1>8. ASSUME slot.closing
        PROVE  Path(e, slot.execQty, v, h) /\ r - w.trade.exitQty = v.orders[e].exec - slot.execQty
    <2>1. Path(e, slot.execQty, w, k) /\ s - w.trade.exitQty = w.orders[e].exec - slot.execQty
      BY <1>5, <1>8 DEF ExitsFollowed
    <2>2. Path(e, slot.execQty, v, h)
      BY <1>4, <1>5, <1>6, <1>7, <1>8, <2>1, PathTold
    <2>3. CASE o.role = "entry"
      BY <1>2, <1>4, <1>8, <2>1, <2>2, <2>3
    <2>4. CASE o.role # "entry"
      BY <1>2, <1>3, <1>7, <2>1, <2>2, <2>4
    <2> QED
      BY <2>3, <2>4
  <1>9. ASSUME ~slot.closing PROVE v.trade.exitQty = r
    BY <1>3, <1>5, <1>9 DEF ExitsFollowed
  <1>10. ASSUME NEW j \in OrderIds, v.orders[j].role = "close", ~(slot.closing /\ j = e),
                NEW i \in 1..Len(v.signals), Trades(v, i, j)
         PROVE  FALSE
    <2>1. w.orders[j].role = "close" /\ j # id
      BY <1>2, <1>3, <1>10
    <2>2. i \in 1..Len(w.signals) /\ Trades(w, i, j)
      BY <1>1, <1>10, <2>1 DEF ToldShape, Trades
    <2> QED
      BY <1>5, <1>10, <2>1, <2>2 DEF ExitsFollowed
  <1>11. ExitsFollowed(v, r, h)
    BY <1>8, <1>9, <1>10 DEF ExitsFollowed
  <1> QED
    BY <1>6, <1>11 DEF ExitsKnown

LEMMA ExitStays ==
  ASSUME NEW w, NEW v, NEW b, NEW s, Good(w, b, s), ClosedOnce(w), ExitsKnown(w, s), v.signals = w.signals,
         v.trade.exitQty = w.trade.exitQty,
         v.trade.stop = w.trade.stop \/ (~w.trade.stop.closing /\ ~v.trade.stop.closing),
         v.orders = w.orders \/ \E id, o : Creates(w, v, id, o)
  PROVE  ExitsKnown(v, s)
  <1>1. \A j \in OrderIds : Fresh(w, j) \/ v.orders[j] = w.orders[j]
    <2>1. ASSUME NEW id, NEW o, Creates(w, v, id, o)
          PROVE  \A j \in OrderIds : Fresh(w, j) \/ v.orders[j] = w.orders[j]
      BY <2>1, GoodTypes DEF Creates
    <2> QED
      BY <2>1
  <1>2. PICK k : Ledger(w, k) /\ ExitsFollowed(w, s, k)
    BY DEF ExitsKnown
  <1>3. Ledger(v, k)
    BY <1>1, <1>2, LedgerStays
  <1>4. ASSUME NEW j \in OrderIds, NEW i \in 1..Len(v.signals), Trades(v, i, j)
        PROVE  Trades(w, i, j) /\ v.orders[j] = w.orders[j]
    BY <1>1, <1>4, GoodTypes DEF Trades, Fresh
  <1>5. \A id \in OrderIds :
          v.orders[id].role = "close" /\ ~(v.trade.stop.closing /\ id = v.trade.stop.refId) =>
            \A i \in 1..Len(v.signals) : ~Trades(v, i, id)
    BY <1>2, <1>4 DEF ExitsFollowed
  <1>6. ASSUME v.trade.stop.closing
        PROVE  /\ Path(v.trade.stop.refId, v.trade.stop.execQty, v, k)
               /\ s - v.trade.exitQty = v.orders[v.trade.stop.refId].exec - v.trade.stop.execQty
    <2>1. v.trade.stop = w.trade.stop /\ w.trade.stop.closing
      BY <1>6
    <2>2. v.orders[w.trade.stop.refId] = w.orders[w.trade.stop.refId]
      BY <1>1, <2>1 DEF ClosedOnce
    <2>3. Path(w.trade.stop.refId, w.trade.stop.execQty, w, k)
      BY <1>2, <2>1 DEF ExitsFollowed
    <2>4. Path(w.trade.stop.refId, w.trade.stop.execQty, v, k)
      BY <2>2, <2>3, PathStays
    <2> QED
      BY <1>2, <2>1, <2>2, <2>4 DEF ExitsFollowed
  <1>7. ~v.trade.stop.closing => v.trade.exitQty = s
    BY <1>2 DEF ExitsFollowed
  <1>8. ExitsFollowed(v, s, k)
    BY <1>5, <1>6, <1>7 DEF ExitsFollowed
  <1> QED
    BY <1>3, <1>8 DEF ExitsKnown

LEMMA ExitSent ==
  ASSUME NEW w, NEW v, NEW b, NEW s \in Nat, Good(w, b, s), ClosedOnce(w), ExitsKnown(w, s),
         ~w.trade.stop.closing, NEW id, NEW o, Creates(w, v, id, o),
         v.trade.exitQty = w.trade.exitQty,
         kind = "IND_MARGIN", v.trade.stop = SentClose(w.trade.stop, id, o.quantity, TRUE)
  PROVE  ExitsKnown(v, s)
  <1>1. /\ id \in OrderIds /\ Fresh(w, id) /\ v.orders[id] = o /\ o.exec = 0
        /\ \A j \in OrderIds : j # id => v.orders[j] = w.orders[j]
        /\ v.signals = w.signals
    BY GoodTypes DEF Creates
  <1>2. w.trade.stop \in Slots /\ w.trade.stop.execQty = 0
    BY GoodTypes DEF ClosedOnce, Blank
  <1>3. v.trade.stop.closing /\ v.trade.stop.refId = id /\ v.trade.stop.execQty = 0
    BY <1>2 DEF Slots, SentClose
  <1>4. PICK k : Ledger(w, k) /\ ExitsFollowed(w, s, k)
    BY DEF ExitsKnown
  <1>5. Ledger(v, k)
    <2>1. (\A j \in OrderIds : Fresh(w, j) \/ v.orders[j] = w.orders[j]) /\ v.signals = w.signals
      BY <1>1
    <2> QED
      BY <1>4, <2>1, LedgerStays
  <1>6. \A i \in 1..Len(v.signals) : ~Trades(v, i, id)
    BY <1>1, GoodTypes DEF Trades, Fresh
  <1>7. Path(id, 0, v, k)
    BY <1>1, <1>6 DEF Path
  <1>8. v.trade.exitQty = s
    BY <1>4 DEF ExitsFollowed
  <1>9. ASSUME NEW j \in OrderIds, v.orders[j].role = "close", j # id, NEW i \in 1..Len(v.signals)
        PROVE  ~Trades(v, i, j)
    BY <1>1, <1>4, <1>9 DEF ExitsFollowed, Trades
  <1>10. s - v.trade.exitQty = v.orders[id].exec - 0
    BY <1>1, <1>8
  <1>11. ExitsFollowed(v, s, k)
    BY <1>3, <1>7, <1>9, <1>10 DEF ExitsFollowed
  <1> QED
    BY <1>5, <1>11 DEF ExitsKnown

LEMMA ExitsMove ==
  ASSUME NEW w, NEW v, NEW b, NEW s \in Nat, Good(w, b, s), Moves(w, v), kind = "IND_MARGIN",
         ClosesOnly(v), ClosedOnce(w), ExitsKnown(w, s)
  PROVE  ExitsKnown(v, s)
  <1>1. StopMoves(w, v)
    BY MovesStop DEF ClosesOnly
  <1>2. ClosesOnly(w)
    BY MoveKeeps, NoneBefore DEF ClosesOnly
  <1>3. v.trade.exitQty = w.trade.exitQty
    BY DEF Moves, SameBooks
  <1>4. ASSUME NEW id, NEW o, Creates(w, v, id, o) PROVE v.signals = w.signals
    BY <1>4 DEF Creates
  <1>5. CASE v.trade.stop = w.trade.stop /\ v.orders = w.orders /\ v.signals = w.signals
    BY <1>3, <1>5, ExitStays
  <1>6. ASSUME v.trade.stop = w.trade.stop,
               NEW id, NEW o, NEW ss, Tells(w, v, id, o, ss), o.exec = w.orders[id].exec
        PROVE  ExitsKnown(v, s)
    <2>1. o.exec \in Nat
      BY <1>6 DEF Tells, BrokerOrders
    <2>2. s = IF o.role = "entry" THEN s ELSE s + (o.exec - w.orders[id].exec)
      BY <1>6, <2>1
    <2> QED
      BY <1>2, <1>3, <1>6, <2>2, ExitTold
  <1>7. CASE v.trade.stop = w.trade.stop /\ \E id, o : Creates(w, v, id, o)
    BY <1>3, <1>4, <1>7, ExitStays
  <1>8. CASE /\ ~w.trade.stop.closing /\ Blank(v.trade.stop)
             /\ \E id, o : Creates(w, v, id, o)
    <2>1. ~v.trade.stop.closing
      BY <1>8 DEF Blank
    <2> QED
      BY <1>3, <1>4, <1>8, <2>1, ExitStays
  <1>9. CASE /\ ~w.trade.stop.closing
             /\ \E id, o : /\ Creates(w, v, id, o) /\ o.role = "close"
                           /\ v.trade.stop = SentClose(w.trade.stop, id, o.quantity, TRUE)
    BY <1>3, <1>9, ExitSent
  <1> QED
    BY <1>1, <1>5, <1>6, <1>7, <1>8, <1>9 DEF StopMoves

LEMMA NoLimitIds ==
  ASSUME NEW w, NEW b, NEW s, Good(w, b, s), RolesKept(w), ClosesOnly(w)
  PROVE  IdsOf(w.trade.limit) = {}
  BY GoodTypes DEF RolesKept, ClosesOnly, NoneOf, Exits, Fresh

LEMMA ExitHeeds ==
  ASSUME NEW t \in TradeRecords, NEW x \in OrderSignals, NEW u, Heeds(t, x, u), kind = "IND_MARGIN",
         listed, IdsOf(t.limit) = {}
  PROVE  \/ /\ u.stop = t.stop /\ u.exitQty = t.exitQty
            /\ Names(t.entry, x) \/ ~Names(t.stop, x)
         \/ /\ Names(t.stop, x) /\ SlotHeard(t.stop, u.stop, x)
            /\ u.exitQty = t.exitQty + Booked(t.stop, x)
  <1>1. ~Names(t.limit, x)
    BY DEF Names
  <1>2. CASE Names(t.entry, x)
    BY <1>2 DEF Heeds
  <1>3. CASE ~Names(t.entry, x) /\ Names(t.stop, x)
    BY <1>1, <1>3 DEF Heeds
  <1>4. CASE ~Names(t.entry, x) /\ ~Names(t.stop, x)
    BY <1>1, <1>4 DEF Heeds
  <1> QED
    BY <1>2, <1>3, <1>4

LEMMA ExitHears ==
  ASSUME NEW w, NEW v, NEW b, NEW s \in Nat, Good(w, b, s), NEW f, NEW g, Hears(w, v, f, g), g = {},
         kind = "IND_MARGIN", style \in Styles, listed, OrdersKept(w), RolesKept(w), ClosesOnly(w),
         CloseState(w), ExitsKnown(w, s)
  PROVE  ExitsKnown(v, s)
  <1> DEFINE x == w.signals[1]
             t == w.trade
             slot == w.trade.stop
             new == v.trade.stop
             r == slot.refId
  <1>1. v.orders = w.orders /\ Drops(w, v, 1) /\ Heeds(t, x, v.trade)
    BY HearsDrops
  <1>2. /\ 1 \in 1..Len(w.signals) /\ x \in OrderSignals /\ x.orderId \in OrderIds
        /\ Shifted(w, v, 1) /\ t \in TradeRecords /\ slot \in Slots
        /\ IdsOf(t.entry) \subseteq Entries(w.orders)
        /\ slot.execQty \in Int /\ t.exitQty \in Int
    BY <1>1, DropShifts, GoodTypes DEF Drops, Slots
  <1>3. PICK k : Ledger(w, k) /\ ExitsFollowed(w, s, k)
    BY DEF ExitsKnown
  <1>4. PICK h : h = [j \in 1..Len(v.signals) |-> k[Past(1, j)]] /\ Ledger(v, h)
    BY <1>1, <1>3, LedgerDrops
  <1>5. \A j \in 1..Len(v.signals), id \in OrderIds :
          Trades(v, j, id) => Past(1, j) \in 1..Len(w.signals) /\ Trades(w, Past(1, j), id)
    BY <1>2 DEF Shifted, Trades
  <1>6. ASSUME slot.closing
        PROVE  /\ r \in OrderIds /\ w.orders[r].role = "close" /\ r \in IdsOf(slot) /\ IdsOf(slot) \subseteq {r}
               /\ slot.orderedQty = w.orders[r].quantity /\ 0 <= slot.execQty
               /\ w.orders[r].exec \in Nat /\ w.orders[r].quantity \in Int
               /\ s - t.exitQty = w.orders[r].exec - slot.execQty
               /\ Trades(w, 1, r) => k[1] - x.filled = slot.execQty /\ Path(r, k[1], v, h)
               /\ ~Trades(w, 1, r) => Path(r, slot.execQty, v, h)
    <2>1. /\ r \in OrderIds /\ w.orders[r].role = "close" /\ IdsOf(slot) \subseteq {r}
          /\ slot.orderedQty = w.orders[r].quantity /\ 0 <= slot.execQty
      BY <1>6 DEF CloseState, ClosedOnce, Behind
    <2>2. r \in IdsOf(slot) /\ w.orders[r].exec \in Nat /\ w.orders[r].quantity \in Int
      BY <2>1, NoIdAssumption, GoodTypes DEF IdsOf, BrokerOrders
    <2>3. Path(r, slot.execQty, w, k) /\ s - t.exitQty = w.orders[r].exec - slot.execQty
      BY <1>3, <1>6 DEF ExitsFollowed
    <2>4. /\ Trades(w, 1, r) => k[1] - x.filled = slot.execQty /\ Path(r, k[1], v, h)
          /\ ~Trades(w, 1, r) => Path(r, slot.execQty, v, h)
      BY <1>1, <1>2, <1>3, <1>4, <2>1, <2>3, PathDrops
    <2> QED
      BY <2>1, <2>2, <2>3, <2>4
  <1>7. \A id \in OrderIds :
          w.orders[id].role = "close" /\ ~(slot.closing /\ id = r) =>
            \A i \in 1..Len(v.signals) : ~Trades(v, i, id)
    BY <1>3, <1>5 DEF ExitsFollowed
  <1>8. IdsOf(t.limit) = {}
    BY NoLimitIds
  <1>9. \/ /\ new = slot /\ v.trade.exitQty = t.exitQty
           /\ Names(t.entry, x) \/ ~Names(slot, x)
        \/ /\ Names(slot, x) /\ SlotHeard(slot, new, x)
           /\ v.trade.exitQty = t.exitQty + Booked(slot, x)
    BY <1>1, <1>2, <1>8, ExitHeeds
  <1>10. ~slot.closing => t.exitQty = s
    BY <1>3 DEF ExitsFollowed
  <1>11. ~slot.closing => ~Names(slot, x)
    BY DEF CloseState, ClosedOnce, Blank, Names
  <1> HIDE DEF x, t, slot, new, r
  <1>12. CASE new = slot /\ v.trade.exitQty = t.exitQty /\ (Names(t.entry, x) \/ ~Names(slot, x))
    <2>1. slot.closing => ~Trades(w, 1, r)
      <3>1. ASSUME slot.closing, Trades(w, 1, r) PROVE FALSE
        <4>1. x.orderId = r
          BY <3>1 DEF Trades, x
        <4> QED
          BY <1>2, <1>6, <1>12, <3>1, <4>1 DEF Names, Entries
      <3> QED
        BY <3>1
    <2>2. slot.closing => Path(r, slot.execQty, v, h) /\ s - v.trade.exitQty = v.orders[r].exec - slot.execQty
      BY <1>1, <1>6, <1>12, <2>1
    <2>3. ExitsFollowed(v, s, h)
      BY <1>1, <1>7, <1>10, <1>12, <2>2 DEF ExitsFollowed, new, r
    <2> QED
      BY <1>4, <2>3 DEF ExitsKnown
  <1>13. CASE Names(slot, x) /\ SlotHeard(slot, new, x) /\ v.trade.exitQty = t.exitQty + Booked(slot, x)
    <2>1. slot.closing
      BY <1>11, <1>13
    <2>2. x.orderId = r
      BY <1>6, <1>13, <2>1 DEF Names
    <2>3. x.event = "TRADED" <=> Trades(w, 1, r)
      BY <1>2, <2>2 DEF Trades, x
    <2> DEFINE total == slot.execQty + Booked(slot, x)
    <2>4. Trades(w, 1, r) => total = k[1] /\ k[1] \in Nat /\ Booked(slot, x) = ExitFill(slot, x)
                             /\ ExitFill(slot, x) \in Int
      <3>1. ASSUME Trades(w, 1, r) PROVE slot.execQty <= k[1] - w.signals[1].filled
        BY <1>2, <1>6, <2>1, <3>1 DEF x
      <3> QED
        BY <1>2, <1>3, <1>6, <2>1, <3>1, FillAdded DEF x
    <2>5. ~Trades(w, 1, r) => total = slot.execQty /\ Booked(slot, x) = 0
      BY <1>2, <2>3 DEF Booked
    <2>6. Path(r, total, v, h) /\ s - v.trade.exitQty = v.orders[r].exec - total
      <3>1. Booked(slot, x) \in Int
        BY <2>4, <2>5
      <3>2. Path(r, total, v, h)
        BY <1>6, <2>1, <2>4, <2>5
      <3>3. s - t.exitQty = w.orders[r].exec - slot.execQty /\ w.orders[r].exec \in Nat
        BY <1>6, <2>1
      <3>4. s - v.trade.exitQty = w.orders[r].exec - total
        <4> DEFINE q == Booked(slot, x)
        <4>1. q \in Int /\ v.trade.exitQty = t.exitQty + q /\ total = slot.execQty + q
          BY <1>13, <3>1
        <4>2. t.exitQty \in Int /\ slot.execQty \in Int
          BY <1>2
        <4> HIDE DEF q, total
        <4> QED
          BY <3>3, <4>1, <4>2
      <3> QED
        BY <1>1, <3>2, <3>4
    <2>7. CASE /\ ~new.closing
               /\ \/ Ending(x)
                  \/ x.event = "TRADED" /\ slot.execQty + ExitFill(slot, x) >= slot.orderedQty
      <3>1. Ending(x) \/ (Trades(w, 1, r) /\ k[1] >= w.orders[r].quantity)
        BY <1>6, <2>1, <2>3, <2>4, <2>7
      <3>2. \A j \in 1..Len(v.signals) : ~Trades(v, j, r)
        BY <1>1, <1>3, <1>6, <2>1, <2>2, <3>1, NothingAfter DEF x
      <3>3. v.orders[r].exec = total
        BY <2>6, <3>2 DEF Path
      <3>4. v.trade.exitQty = s
        BY <1>1, <1>2, <1>6, <1>13, <2>1, <2>4, <2>5, <2>6, <3>3
      <3>5. \A id \in OrderIds : w.orders[id].role = "close" =>
              \A i \in 1..Len(v.signals) : ~Trades(v, i, id)
        BY <1>7, <3>2
      <3>6. ExitsFollowed(v, s, h)
        BY <1>1, <2>7, <3>4, <3>5 DEF ExitsFollowed, new
      <3> QED
        BY <1>4, <3>6 DEF ExitsKnown
    <2>8. CASE new.refId = r /\ new.closing = slot.closing /\ new.execQty = total
      <3>1. ExitsFollowed(v, s, h)
        <4> HIDE DEF total
        <4> QED
          BY <1>1, <1>7, <2>1, <2>6, <2>8 DEF ExitsFollowed, new
      <3> QED
        BY <1>4, <3>1 DEF ExitsKnown
    <2> QED
      BY <1>13, <2>7, <2>8 DEF SlotHeard, r
  <1> QED
    BY <1>9, <1>12, <1>13

ExitKept(w, s, l, f) ==
  /\ w.trade.direction = 0 => s = 0
  /\ kind = "IND_MARGIN" /\ l /\ f = {} /\ ClosesOnly(w) => ExitsKnown(w, s)

LEMMA ExitKeptMoves ==
  ASSUME NEW w, NEW v, NEW b, NEW s \in Nat, Good(w, b, s), Moves(w, v), NEW f, NEW l,
         CloseKept(w, f), ExitKept(w, s, l, f)
  PROVE  ExitKept(v, s, l, f)
  <1>1. v.trade.direction = w.trade.direction
    BY DEF Moves, SameBooks
  <1>2. ASSUME kind = "IND_MARGIN", l, f = {}, ClosesOnly(v) PROVE ExitsKnown(v, s)
    <2>1. ClosesOnly(w)
      BY <1>2, MoveKeeps, NoneBefore DEF ClosesOnly
    <2>2. ClosedOnce(w)
      BY <1>2, <2>1 DEF CloseKept, ClosesOnly, CloseState
    <2>3. ExitsKnown(w, s)
      BY <1>2, <2>1 DEF ExitKept
    <2> QED
      BY <1>2, <2>2, <2>3, ExitsMove
  <1> QED
    BY <1>1, <1>2 DEF ExitKept

LEMMA ExitKeptOpens ==
  ASSUME NEW w, NEW v, NEW b, NEW s, Good(w, b, s), Opens(w, v), NEW l, NEW m, NEW f, NEW g,
         EntryKept(w, b, l, f), ExitKept(w, s, l, f)
  PROVE  ExitKept(v, s, m, g)
  <1>1. PICK id, o :
           /\ Creates(w, v, id, o) /\ w.trade.direction = 0 /\ v.trade.direction = 1
           /\ v.trade.exitQty = 0 /\ v.trade.stop = ResetSlot
    BY OpensCreates
  <1>2. s = 0 /\ \A j \in OrderIds : Fresh(w, j)
    BY <1>1 DEF EntryKept, ExitKept
  <1>3. Len(v.signals) = 0
    <2>1. \A i \in 1..Len(w.signals) : FALSE
      BY <1>2, GoodTypes DEF Fresh
    <2>2. Len(w.signals) \in Nat
      BY GoodTypes
    <2> QED
      BY <1>1, <2>1, <2>2 DEF Creates
  <1>4. PICK k : k = [i \in 1..0 |-> 0]
    OBVIOUS
  <1>5. Ledger(v, k)
    BY <1>3, <1>4 DEF Ledger
  <1>6. ~v.trade.stop.closing
    BY <1>1 DEF ResetSlot
  <1>7. ExitsFollowed(v, s, k)
    BY <1>1, <1>2, <1>3, <1>6 DEF ExitsFollowed
  <1> QED
    BY <1>1, <1>5, <1>7 DEF ExitKept, ExitsKnown

LEMMA ExitKeptReports ==
  ASSUME NEW w, NEW v, NEW b \in Nat, NEW s \in Nat, NEW c, NEW r, Reports(w, v, b, s, c, r), Good(w, b, s),
         NEW l, NEW f, EntryKept(w, b, l, f), CloseKept(w, f), ExitKept(w, s, l, f)
  PROVE  ExitKept(v, r, l, f)
  <1>1. PICK id, o, ss : Tells(w, v, id, o, ss) /\ Reported(w, v, b, s, c, r, id, o)
    BY ReportTells
  <1>2. /\ v.trade = w.trade
        /\ r = IF o.role = "entry" THEN s ELSE s + (o.exec - w.orders[id].exec)
    BY <1>1 DEF Reported
  <1>3. w.trade.direction # 0
    <2>1. id \in OrderIds /\ ~Fresh(w, id)
      BY <1>1 DEF Tells, Live, Fresh
    <2> QED
      BY <2>1 DEF EntryKept
  <1>4. ASSUME kind = "IND_MARGIN", l, f = {}, ClosesOnly(v) PROVE ExitsKnown(v, r)
    <2>1. ClosesOnly(w)
      BY <1>1, <1>4, TellKeeps, NoneBefore DEF ClosesOnly
    <2>2. ClosedOnce(w)
      BY <1>4, <2>1 DEF CloseKept, ClosesOnly, CloseState
    <2>3. ExitsKnown(w, s)
      BY <1>4, <2>1 DEF ExitKept
    <2>4. v.trade.stop = w.trade.stop /\ v.trade.exitQty = w.trade.exitQty
      BY <1>2
    <2> QED
      BY <1>1, <1>2, <2>1, <2>2, <2>3, <2>4, ExitTold
  <1> QED
    BY <1>2, <1>3, <1>4 DEF ExitKept

LEMMA ExitKeptHears ==
  ASSUME NEW w, NEW v, NEW b, NEW s \in Nat, Good(w, b, s), NEW f, NEW g, Hears(w, v, f, g),
         kind \in {"IND_MARGIN", "MARGIN"}, style \in Styles, listed \in BOOLEAN, OrdersKept(w), RolesKept(w),
         CloseKept(w, f), ExitKept(w, s, listed, f)
  PROVE  ExitKept(v, s, listed, g)
  <1>1. v.orders = w.orders /\ f \subseteq g
    BY HearsDrops
  <1>2. v.trade.direction = w.trade.direction
    BY HearsDrops DEF Heeds, SameTerms
  <1>3. ASSUME kind = "IND_MARGIN", listed, g = {}, ClosesOnly(v) PROVE ExitsKnown(v, s)
    <2>1. ClosesOnly(w) /\ f = {}
      BY <1>1, <1>3 DEF ClosesOnly, NoneOf, Fresh
    <2>2. CloseState(w)
      BY <1>3, <2>1 DEF CloseKept, ClosesOnly
    <2>3. ExitsKnown(w, s)
      BY <1>3, <2>1 DEF ExitKept
    <2> QED
      BY <1>3, <2>1, <2>2, <2>3, ExitHears
  <1> QED
    BY <1>2, <1>3 DEF ExitKept

LEMMA ExitSteps ==
  ASSUME BrokerInv, OrdersKept(World), ClosingKept(World, listed, faults),
         EntryKept(World, bought, listed, faults), CloseKept(World, faults),
         ExitKept(World, sold, listed, faults), [Next]_vars
  PROVE  ExitKept(World, sold, listed, faults)'
  <1>1. PICK v, c, r, m, g :
           /\ v = [trade |-> trade', orders |-> orders', signals |-> signals']
           /\ c = bought' /\ r = sold' /\ m = listed' /\ g = faults'
           /\ Good(World, bought, sold) /\ Good(v, c, r) /\ UNCHANGED broker
           /\ Steps(World, bought, sold, listed, faults, v, c, r, m, g)
    BY WorldSteps
  <1>2. /\ kind \in {"IND_MARGIN", "MARGIN"} /\ bought \in Nat /\ sold \in Nat /\ style \in Styles
        /\ listed \in BOOLEAN
    BY InvType DEF BrokerInv
  <1>3. ExitKept(v, r, m, g)
    <2>1. CASE MovesTo(World, v, bought, sold) /\ r = sold /\ listed /\ m /\ g = faults
      <3>1. PICK x, y : /\ Moves(World, x) /\ Moves(x, y) /\ Moves(y, v)
                        /\ Good(x, bought, sold) /\ Good(y, bought, sold)
        BY <2>1 DEF MovesTo
      <3>2. CloseKept(x, faults) /\ ExitKept(x, sold, listed, faults)
        BY <1>1, <1>2, <3>1, CloseKeptMoves, ExitKeptMoves
      <3>3. CloseKept(y, faults) /\ ExitKept(y, sold, listed, faults)
        BY <1>2, <3>1, <3>2, CloseKeptMoves, ExitKeptMoves
      <3>4. ExitKept(v, sold, listed, faults)
        BY <1>2, <3>1, <3>3, ExitKeptMoves
      <3> QED
        BY <2>1, <3>4 DEF ExitKept
    <2>2. CASE Opens(World, v) /\ r = sold /\ g = faults
      BY <1>1, <2>2, ExitKeptOpens
    <2>3. CASE v = World /\ r = sold /\ g = faults /\ (m = listed \/ (listed /\ ~m))
      BY <2>3 DEF ExitKept
    <2>4. CASE Reports(World, v, bought, sold, c, r) /\ m = listed /\ g = faults
      BY <1>1, <1>2, <2>4, ExitKeptReports
    <2>5. CASE Hears(World, v, faults, g) /\ r = sold /\ m = listed
      <3>1. RolesKept(World)
        BY DEF ClosingKept
      <3> QED
        BY <1>1, <1>2, <2>5, <3>1, ExitKeptHears
    <2> QED
      BY <1>1, <2>1, <2>2, <2>3, <2>4, <2>5 DEF Steps
  <1>4. v.trade = trade' /\ v.orders = orders' /\ v.signals = signals' /\ kind' = kind /\ style' = style
    BY <1>1 DEF broker
  <1>5. r = sold' /\ m = listed' /\ g = faults'
    BY <1>1
  <1> HIDE <1>1
  <1>6. ClosesOnly(World)' <=> ClosesOnly(v)
    BY <1>4 DEF ClosesOnly, NoneOf, Fresh, World
  <1>7. ASSUME ExitsKnown(v, r) PROVE ExitsKnown(World, sold)'
    <2>1. PICK k : Ledger(v, k) /\ ExitsFollowed(v, r, k)
      BY <1>7 DEF ExitsKnown
    <2>2. Ledger(World, k)'
      BY <1>4, <2>1 DEF Ledger, Trades, Noted, World
    <2>3. ExitsFollowed(World, sold, k)'
      BY <1>4, <1>5, <2>1 DEF ExitsFollowed, Path, Trades, World
    <2> QED
      BY <2>2, <2>3 DEF ExitsKnown
  <1>8. World.trade.direction' = v.trade.direction
    BY <1>4 DEF World
  <1> QED
    BY <1>3, <1>4, <1>5, <1>6, <1>7, <1>8 DEF ExitKept

\* Once every signal of the closing orders of an IndMarginTrade has been
\* delivered, the trade knows exactly what it exited, as long as no exit order was
\* placed by modifyStopLoss() or modifyTakeProfit(): closing orders that fail, or
\* that follow one another while the entry goes on executing, lose no part.
THEOREM ExitInStepAlways == Spec => []ExitInStep
  <1> DEFINE P == BrokerInv /\ OrdersKept(World)
             Q == /\ ClosingKept(World, listed, faults) /\ EntryKept(World, bought, listed, faults)
                  /\ CloseKept(World, faults)
             R == ExitKept(World, sold, listed, faults)
  <1>1. Init => R
    <2> SUFFICES ASSUME Init PROVE ExitKept(World, sold, listed, faults)
      OBVIOUS
    <2>1. sold = 0 /\ ~listed
      BY DEF Init
    <2> QED
      BY <2>1 DEF ExitKept
  <1>2. P /\ Q /\ R /\ [Next]_vars => R'
    BY ExitSteps
  <1>3. P /\ Q /\ R => ExitInStep
    <2> SUFFICES ASSUME BrokerInv, ExitKept(World, sold, listed, faults), CloseKept(World, faults),
                        kind = "IND_MARGIN", listed, faults = {},
                        Used("stop") = {}, Used("limit") = {}, Quiet({"close"})
                 PROVE  trade.exitQty = sold
      BY DEF ExitInStep
    <2>1. World.trade = trade /\ World.orders = orders /\ World.signals = signals /\ Good(World, bought, sold)
          /\ sold \in Nat
      BY InvType DEF BrokerInv
    <2>2. ClosesOnly(World)
      BY <2>1 DEF ClosesOnly, NoneOf, Fresh, Used
    <2>3. PICK k : ExitsFollowed(World, sold, k)
      BY <2>2 DEF ExitKept, ExitsKnown
    <2>4. CASE trade.stop.closing
      <3> DEFINE r == trade.stop.refId
      <3>1. r \in OrderIds /\ orders[r].role = "close"
        BY <2>1, <2>2, <2>4 DEF CloseKept, ClosesOnly, CloseState, ClosedOnce
      <3>2. \A i \in 1..Len(signals) : signals[i].orderId # r
        <4>1. DOMAIN signals = 1..Len(signals)
          BY <2>1, GoodTypes
        <4> QED
          BY <3>1, <4>1 DEF Quiet
      <3>3. /\ Path(r, trade.stop.execQty, World, k)
            /\ sold - trade.exitQty = orders[r].exec - trade.stop.execQty
        BY <2>1, <2>3, <2>4 DEF ExitsFollowed
      <3>4. orders[r].exec = trade.stop.execQty
        BY <2>1, <3>2, <3>3 DEF Path, Trades
      <3>5. trade.exitQty \in Int /\ orders[r].exec \in Nat
        BY <2>1, <3>1, GoodTypes
      <3> QED
        BY <2>1, <3>3, <3>4, <3>5
    <2>5. CASE ~trade.stop.closing
      BY <2>1, <2>3, <2>5 DEF ExitsFollowed
    <2> QED
      BY <2>4, <2>5
  <1>4. Spec => [](P /\ Q)
    <2>1. Spec => [](BrokerInv /\ OrdersKept(World) /\ EntryKept(World, bought, listed, faults))
      BY EntryInvariant
    <2>2. Spec => [](BrokerInv /\ OrdersKept(World) /\ CloseKept(World, faults))
      BY CloseInvariant
    <2>3. Spec => [](BrokerInv /\ ClosingKept(World, listed, faults))
      BY ClosingInvariant
    <2> QED
      BY <2>1, <2>2, <2>3, PTL
  <1> HIDE DEF P, Q, R
  <1> QED
    BY <1>1, <1>2, <1>3, <1>4, PTL DEF Spec

-----------------------------------------------------------------------------
(* The exits of an IndMarginTrade: p gives for each order what it executed *)
(* and the trade has not counted.                                          *)

CountedOf(w, p, id) == w.orders[id].exec - p[id]

(* k leaves room: before each execution on its way the trade has counted   *)
(* no more of the order than it had executed before.                       *)
Room(w, p, k) ==
  /\ p \in [OrderIds -> Nat] /\ k \in [1..Len(w.signals) -> Nat]
  /\ \A id \in OrderIds : Fresh(w, id) => p[id] = 0
  /\ \A i \in 1..Len(w.signals), id \in OrderIds : Trades(w, i, id) =>
       /\ w.signals[i].filled >= 1 /\ k[i] <= w.orders[id].exec
       /\ CountedOf(w, p, id) <= k[i] - w.signals[i].filled
       /\ w.signals[i].cum = IF style = "cumulative" THEN k[i] ELSE 0
  /\ \A i, j \in 1..Len(w.signals), id \in OrderIds :
       i < j /\ Trades(w, i, id) /\ Trades(w, j, id) => k[i] <= k[j] - w.signals[j].filled

(* A total is compared with what the slot counted, of whichever order.     *)
SlotRoom(w, p, slot) ==
  /\ 0 <= slot.execQty
  /\ style = "cumulative" => \A id \in IdsOf(slot) : CountedOf(w, p, id) <= slot.execQty

(* What the orders of a slot may still add to the trade.                   *)
Debt(p, slot) ==
  (IF slot.orderId # NoId THEN p[slot.orderId] ELSE 0)
    + (IF slot.refId \notin {NoId, slot.orderId} THEN p[slot.refId] ELSE 0)

HasRoom(w, s, p) ==
  /\ SlotRoom(w, p, w.trade.limit) /\ SlotRoom(w, p, w.trade.stop)
  /\ w.trade.exitQty + Debt(p, w.trade.limit) + Debt(p, w.trade.stop) <= s

ExitRoom(w, s) == \E p, k : Room(w, p, k) /\ HasRoom(w, s, p)

LEMMA DebtType ==
  ASSUME NEW p \in [OrderIds -> Nat], NEW slot, IdsOf(slot) \subseteq OrderIds
  PROVE  Debt(p, slot) \in Nat
  <1>1. \A id \in OrderIds : p[id] \in Nat
    OBVIOUS
  <1>2. slot.orderId # NoId => slot.orderId \in OrderIds
    BY DEF IdsOf
  <1>3. slot.refId # NoId => slot.refId \in OrderIds
    BY DEF IdsOf
  <1> QED
    BY <1>1, <1>2, <1>3 DEF Debt

LEMMA DebtFewer ==
  ASSUME NEW p \in [OrderIds -> Nat], NEW old, NEW new,
         IdsOf(old) \subseteq OrderIds, IdsOf(new) \subseteq OrderIds,
         \A id \in IdsOf(new) : id \in IdsOf(old) \/ p[id] = 0
  PROVE  Debt(p, new) <= Debt(p, old)
  <1> DEFINE a == old.orderId
             c == old.refId
             d == new.orderId
             e == new.refId
  <1>1. /\ a # NoId => p[a] \in Nat
        /\ c # NoId => p[c] \in Nat
    BY DEF IdsOf
  <1>2. d # NoId => p[d] \in Nat /\ (p[d] = 0 \/ d = a \/ d = c)
    BY DEF IdsOf
  <1>3. e # NoId => p[e] \in Nat /\ (p[e] = 0 \/ e = a \/ e = c)
    BY DEF IdsOf
  <1>4. /\ Debt(p, old) = (IF a # NoId THEN p[a] ELSE 0) + (IF c # NoId /\ c # a THEN p[c] ELSE 0)
        /\ Debt(p, new) = (IF d # NoId THEN p[d] ELSE 0) + (IF e # NoId /\ e # d THEN p[e] ELSE 0)
    BY DEF Debt
  <1> HIDE DEF a, c, d, e
  <1> QED
    BY <1>1, <1>2, <1>3, <1>4

LEMMA DebtAdds ==
  ASSUME NEW p \in [OrderIds -> Nat], NEW q \in [OrderIds -> Nat], NEW slot, IdsOf(slot) \subseteq OrderIds,
         NEW id \in OrderIds, NEW n \in Int, q[id] = p[id] + n, \A j \in OrderIds : j # id => q[j] = p[j]
  PROVE  /\ id \in IdsOf(slot) => Debt(q, slot) = Debt(p, slot) + n
         /\ id \notin IdsOf(slot) => Debt(q, slot) = Debt(p, slot)
  <1> DEFINE a == slot.orderId
             c == slot.refId
  <1>1. /\ a # NoId => a \in OrderIds /\ p[a] \in Nat /\ q[a] \in Nat
        /\ c # NoId => c \in OrderIds /\ p[c] \in Nat /\ q[c] \in Nat
        /\ id \in IdsOf(slot) <=> (id = a \/ id = c)
        /\ id # NoId
    BY NoIdAssumption DEF IdsOf
  <1>2. /\ Debt(p, slot) = (IF a # NoId THEN p[a] ELSE 0) + (IF c # NoId /\ c # a THEN p[c] ELSE 0)
        /\ Debt(q, slot) = (IF a # NoId THEN q[a] ELSE 0) + (IF c # NoId /\ c # a THEN q[c] ELSE 0)
    BY DEF Debt
  <1> HIDE DEF a, c
  <1> QED
    BY <1>1, <1>2

LEMMA RoomTypes ==
  ASSUME NEW w, NEW b, NEW s, Good(w, b, s), NEW p, NEW k, Room(w, p, k)
  PROVE  /\ \A id \in OrderIds : p[id] \in Nat /\ w.orders[id].exec \in Nat
         /\ \A i \in 1..Len(w.signals) : k[i] \in Nat /\ w.signals[i].filled \in Int /\ w.signals[i].cum \in Int
         /\ p \in [OrderIds -> Nat]
  <1>1. \A i \in 1..Len(w.signals) : w.signals[i].filled \in Int /\ w.signals[i].cum \in Int
    BY GoodTypes DEF OrderSignals
  <1> QED
    BY <1>1, GoodTypes DEF Room

(* Of the order id, n more is left to count and m more is counted.         *)
Recounts(w, v, p, q, h, id, n, m) ==
  /\ Room(v, q, h) /\ q[id] = p[id] + n /\ CountedOf(v, q, id) = CountedOf(w, p, id) + m
  /\ \A j \in OrderIds : j # id => q[j] = p[j] /\ CountedOf(v, q, j) = CountedOf(w, p, j)

(* An execution is announced and not counted.                              *)
LEMMA RoomTold ==
  ASSUME NEW w, NEW v, NEW b, NEW s, Good(w, b, s), NEW p, NEW k, Room(w, p, k),
         NEW id, NEW o, NEW ss, Tells(w, v, id, o, ss)
  PROVE  \E q, h : Recounts(w, v, p, q, h, id, o.exec - w.orders[id].exec, 0)
  <1>0. ToldShape(w, v, id, o)
    BY TellsSignals
  <1>1. /\ id \in OrderIds /\ o.exec \in Nat /\ w.orders[id].exec \in Nat
        /\ o.exec >= w.orders[id].exec /\ o.status # "none"
    BY GoodTypes DEF Tells, BrokerOrders
  <1>2. PICK q : q = [p EXCEPT ![id] = p[id] + (o.exec - w.orders[id].exec)]
    OBVIOUS
  <1>3. PICK h : h = [i \in 1..Len(v.signals) |-> IF i \in 1..Len(w.signals) THEN k[i] ELSE o.exec]
    OBVIOUS
  <1>4. /\ \A j \in OrderIds : p[j] \in Nat /\ w.orders[j].exec \in Nat
        /\ \A i \in 1..Len(w.signals) : k[i] \in Nat /\ w.signals[i].filled \in Int
        /\ p \in [OrderIds -> Nat]
    BY RoomTypes
  <1>5. /\ q \in [OrderIds -> Nat] /\ q[id] = p[id] + (o.exec - w.orders[id].exec)
        /\ \A j \in OrderIds : j # id => q[j] = p[j]
    BY <1>1, <1>2, <1>4
  <1>6. /\ v.orders[id] = o /\ \A j \in OrderIds : j # id => v.orders[j] = w.orders[j]
    BY <1>0 DEF ToldShape
  <1>7. \A j \in OrderIds : CountedOf(v, q, j) = CountedOf(w, p, j)
    <2>1. ASSUME NEW j \in OrderIds, j # id PROVE CountedOf(v, q, j) = CountedOf(w, p, j)
      BY <1>5, <1>6, <2>1 DEF CountedOf
    <2>2. o.exec - q[id] = w.orders[id].exec - p[id]
      BY <1>1, <1>4, <1>5
    <2>3. CountedOf(v, q, id) = CountedOf(w, p, id)
      BY <1>6, <2>2 DEF CountedOf
    <2> QED
      BY <2>1, <2>3
  <1>8. h \in [1..Len(v.signals) -> Nat]
    BY <1>1, <1>3, <1>4
  <1>9. Grown(w, k, v, h, o.exec)
    BY <1>3, <1>0 DEF ToldShape, Grown
  <1>10. ASSUME NEW j \in OrderIds, Fresh(v, j) PROVE q[j] = 0
    <2>1. j # id /\ Fresh(w, j)
      BY <1>1, <1>6, <1>10 DEF Fresh
    <2> QED
      BY <1>5, <2>1 DEF Room
  <1>11. ASSUME NEW i \in 1..Len(v.signals), NEW j \in OrderIds, Trades(v, i, j)
         PROVE  /\ v.signals[i].filled >= 1 /\ h[i] <= v.orders[j].exec
                /\ CountedOf(w, p, j) <= h[i] - v.signals[i].filled
                /\ v.signals[i].cum = IF style = "cumulative" THEN h[i] ELSE 0
    <2>1. CASE i \in 1..Len(w.signals)
      <3>1. v.signals[i] = w.signals[i] /\ h[i] = k[i] /\ Trades(w, i, j)
        BY <1>9, <1>11, <2>1 DEF Grown, Trades
      <3>2. /\ v.signals[i].filled >= 1 /\ h[i] <= w.orders[j].exec
            /\ CountedOf(w, p, j) <= h[i] - v.signals[i].filled
            /\ v.signals[i].cum = IF style = "cumulative" THEN h[i] ELSE 0
        BY <1>11, <2>1, <3>1 DEF Room
      <3>3. h[i] \in Nat /\ v.orders[j].exec \in Nat /\ v.orders[j].exec >= w.orders[j].exec
        BY <1>1, <1>4, <1>6, <2>1, <3>1
      <3>4. h[i] <= v.orders[j].exec
        BY <1>4, <3>2, <3>3
      <3> QED
        BY <3>2, <3>4
    <2>2. CASE i \notin 1..Len(w.signals)
      <3>1. j = id /\ h[i] = o.exec /\ v.signals[i].event = "TRADED"
        BY <1>9, <1>11, <2>2, <1>0 DEF ToldShape, Grown, Trades
      <3>2. /\ v.signals[i].filled = o.exec - w.orders[id].exec /\ v.signals[i].filled >= 1
            /\ v.signals[i].cum = IF style = "cumulative" THEN o.exec ELSE 0
        BY <2>2, <3>1, <1>0 DEF ToldShape
      <3>3. CountedOf(w, p, j) <= h[i] - v.signals[i].filled
        BY <1>1, <1>4, <3>1, <3>2 DEF CountedOf
      <3> QED
        BY <1>1, <1>6, <3>1, <3>2, <3>3
    <2> QED
      BY <2>1, <2>2
  <1>12. ASSUME NEW i \in 1..Len(v.signals), NEW j \in 1..Len(v.signals), NEW m \in OrderIds,
                i < j, Trades(v, i, m), Trades(v, j, m)
         PROVE  h[i] <= h[j] - v.signals[j].filled
    <2>1. CASE j \in 1..Len(w.signals)
      <3>1. i \in 1..Len(w.signals) /\ v.signals[i] = w.signals[i] /\ v.signals[j] = w.signals[j]
            /\ h[i] = k[i] /\ h[j] = k[j]
        BY <1>9, <1>12, <2>1, <1>0 DEF ToldShape, Grown
      <3>2. Trades(w, i, m) /\ Trades(w, j, m)
        BY <1>12, <2>1, <3>1 DEF Trades
      <3> QED
        BY <1>12, <2>1, <3>1, <3>2 DEF Room
    <2>2. CASE j \notin 1..Len(w.signals)
      <3>1. /\ j = Len(w.signals) + 1 /\ m = id /\ h[j] = o.exec /\ i \in 1..Len(w.signals)
            /\ v.signals[j].filled = o.exec - w.orders[id].exec
            /\ v.signals[i] = w.signals[i] /\ h[i] = k[i]
        BY <1>9, <1>12, <2>2, <1>0 DEF ToldShape, Grown, Trades
      <3>2. Trades(w, i, id)
        BY <1>12, <3>1 DEF Trades
      <3>3. k[i] <= w.orders[id].exec /\ k[i] \in Nat
        BY <1>1, <1>4, <3>1, <3>2 DEF Room
      <3> QED
        BY <1>1, <3>1, <3>3
    <2> QED
      BY <2>1, <2>2
  <1>13. Room(v, q, h)
    BY <1>5, <1>7, <1>8, <1>10, <1>11, <1>12 DEF Room
  <1> QED
    <2>1. CountedOf(w, p, id) + 0 = CountedOf(w, p, id)
      BY <1>1, <1>4 DEF CountedOf
    <2> QED
      BY <1>1, <1>5, <1>7, <1>13, <2>1 DEF Recounts

LEMMA RoomCreates ==
  ASSUME NEW w, NEW v, NEW b, NEW s, Good(w, b, s), NEW p, NEW k, Room(w, p, k),
         NEW id, NEW o, Creates(w, v, id, o)
  PROVE  /\ Room(v, p, k) /\ p[id] = 0 /\ CountedOf(v, p, id) = 0
         /\ \A j \in OrderIds : j # id => CountedOf(v, p, j) = CountedOf(w, p, j)
  <1>1. /\ id \in OrderIds /\ Fresh(w, id) /\ o.exec = 0 /\ v.orders[id] = o /\ v.signals = w.signals
        /\ o.status # "none" /\ \A j \in OrderIds : j # id => v.orders[j] = w.orders[j]
    BY GoodTypes DEF Creates
  <1>2. p[id] = 0
    BY <1>1 DEF Room
  <1>3. CountedOf(v, p, id) = 0 /\ \A j \in OrderIds : j # id => CountedOf(v, p, j) = CountedOf(w, p, j)
    BY <1>1, <1>2 DEF CountedOf
  <1>4. \A i \in 1..Len(w.signals), j \in OrderIds : Trades(w, i, j) => j # id
    BY <1>1, GoodTypes DEF Trades, Fresh
  <1>5. \A i \in 1..Len(w.signals), j \in OrderIds : Trades(v, i, j) <=> Trades(w, i, j)
    BY <1>1 DEF Trades
  <1>6. \A j \in OrderIds : Fresh(v, j) => p[j] = 0
    BY <1>1, <1>2 DEF Room, Fresh
  <1> QED
    BY <1>1, <1>2, <1>3, <1>4, <1>5, <1>6 DEF Room

(* The signal i is taken away, and n is counted of the order id: the       *)
(* executions before i find that much more counted.                        *)
Rebooked(w, v, i, id, n, p, k, q, h) ==
  /\ q = [p EXCEPT ![id] = p[id] - n]
  /\ h = [j \in 1..Len(v.signals) |->
            IF Past(i, j) < i /\ Trades(w, Past(i, j), id) THEN k[Past(i, j)] + n ELSE k[Past(i, j)]]

(* What a slot may count for the signal i: the part that it announces, or, *)
(* when nothing before it is still to come, up to the total it announces.  *)
Countable(w, p, k, i, id, n) ==
  /\ n \in Nat /\ CountedOf(w, p, id) + n <= k[i]
  /\ n = w.signals[i].filled \/ \A j \in 1..Len(w.signals) : j < i => ~Trades(w, j, id)
  /\ style = "relative" \/ i = 1

LEMMA RoomCounts ==
  ASSUME NEW w, NEW v, NEW b, NEW s, Good(w, b, s), NEW p, NEW k, Room(w, p, k),
         NEW i, Drops(w, v, i), NEW id \in OrderIds, Trades(w, i, id), style \in Styles,
         NEW n, Countable(w, p, k, i, id, n)
  PROVE  \E q, h : Recounts(w, v, p, q, h, id, -n, n)
  <1>1. Shifted(w, v, i) /\ v.orders = w.orders
    BY DropShifts DEF Drops
  <1>2. PICK q, h : Rebooked(w, v, i, id, n, p, k, q, h)
    BY DEF Rebooked
  <1>3. /\ \A j \in OrderIds : p[j] \in Nat /\ w.orders[j].exec \in Nat
        /\ \A j \in 1..Len(w.signals) : k[j] \in Nat /\ w.signals[j].filled \in Int /\ w.signals[j].cum \in Int
        /\ p \in [OrderIds -> Nat]
    BY RoomTypes
  <1>4. /\ n \in Nat /\ CountedOf(w, p, id) + n <= k[i]
        /\ n = w.signals[i].filled \/ \A j \in 1..Len(w.signals) : j < i => ~Trades(w, j, id)
        /\ style = "relative" \/ i = 1
    BY DEF Countable
  <1>5. i \in 1..Len(w.signals) /\ k[i] <= w.orders[id].exec /\ k[i] \in Nat
    BY <1>1, <1>3 DEF Room, Shifted
  <1>6. p[id] - n \in Nat
    <2>1. w.orders[id].exec - p[id] + n <= w.orders[id].exec
      BY <1>3, <1>4, <1>5 DEF CountedOf
    <2> QED
      BY <1>3, <1>4, <2>1
  <1>7. /\ q \in [OrderIds -> Nat] /\ q[id] = p[id] - n /\ \A j \in OrderIds : j # id => q[j] = p[j]
    BY <1>2, <1>3, <1>6 DEF Rebooked
  <1>8. CountedOf(v, q, id) = CountedOf(w, p, id) + n
    BY <1>1, <1>3, <1>4, <1>7 DEF CountedOf
  <1>9. \A j \in OrderIds : j # id => CountedOf(v, q, j) = CountedOf(w, p, j)
    BY <1>1, <1>7 DEF CountedOf
  <1>10. ASSUME NEW j \in 1..Len(v.signals)
         PROVE  /\ Past(i, j) \in 1..Len(w.signals) /\ Past(i, j) # i /\ v.signals[j] = w.signals[Past(i, j)]
                /\ h[j] = IF Past(i, j) < i /\ Trades(w, Past(i, j), id) THEN k[Past(i, j)] + n ELSE k[Past(i, j)]
                /\ h[j] \in Nat /\ k[Past(i, j)] \in Nat
                /\ \A m \in OrderIds : Trades(v, j, m) <=> Trades(w, Past(i, j), m)
    <2>1. Past(i, j) \in 1..Len(w.signals) /\ Past(i, j) # i /\ v.signals[j] = w.signals[Past(i, j)]
      BY <1>1 DEF Shifted
    <2>2. h[j] = IF Past(i, j) < i /\ Trades(w, Past(i, j), id) THEN k[Past(i, j)] + n ELSE k[Past(i, j)]
      BY <1>2 DEF Rebooked
    <2>3. k[Past(i, j)] \in Nat
      BY <1>3, <2>1
    <2>4. h[j] \in Nat
      BY <1>4, <2>2, <2>3
    <2> QED
      BY <2>1, <2>2, <2>3, <2>4 DEF Trades
  <1>11. h \in [1..Len(v.signals) -> Nat]
    <2>1. h = [j \in 1..Len(v.signals) |-> h[j]]
      BY <1>2 DEF Rebooked
    <2> QED
      BY <1>10, <2>1
  <1>12. \A j \in OrderIds : Fresh(v, j) => q[j] = 0
    <2>1. ~Fresh(w, id)
      BY GoodTypes DEF Trades, Fresh
    <2> QED
      BY <1>1, <1>7, <2>1 DEF Room, Fresh
  <1>13. ASSUME NEW j \in 1..Len(v.signals), NEW m \in OrderIds, Trades(v, j, m)
         PROVE  /\ v.signals[j].filled >= 1 /\ h[j] <= v.orders[m].exec
                /\ CountedOf(v, q, m) <= h[j] - v.signals[j].filled
                /\ v.signals[j].cum = IF style = "cumulative" THEN h[j] ELSE 0
    <2> DEFINE x == Past(i, j)
    <2>1. /\ x \in 1..Len(w.signals) /\ x # i /\ v.signals[j] = w.signals[x] /\ Trades(w, x, m)
          /\ h[j] = IF x < i /\ Trades(w, x, id) THEN k[x] + n ELSE k[x]
          /\ k[x] \in Nat /\ w.signals[x].filled \in Int
      BY <1>3, <1>10, <1>13
    <2> HIDE DEF x
    <2>2. /\ w.signals[x].filled >= 1 /\ k[x] <= w.orders[m].exec
          /\ CountedOf(w, p, m) <= k[x] - w.signals[x].filled
          /\ w.signals[x].cum = IF style = "cumulative" THEN k[x] ELSE 0
      BY <2>1 DEF Room
    <2>3. CASE m # id
      <3>1. h[j] = k[x]
        BY <2>1, <2>3 DEF Trades
      <3> QED
        BY <1>1, <1>9, <2>1, <2>2, <2>3, <3>1
    <2>4. CASE m = id /\ x < i
      <3>1. h[j] = k[x] + n /\ style # "cumulative"
        BY <1>4, <1>5, <2>1, <2>4, BrokerAssumption
      <3>2. n = w.signals[i].filled /\ k[x] <= k[i] - w.signals[i].filled
        BY <1>4, <1>5, <2>1, <2>4 DEF Room
      <3>3. h[j] <= v.orders[m].exec
        <4> DEFINE a == k[x]
                   d == k[i]
                   e == w.orders[id].exec
        <4>1. a \in Nat /\ d \in Nat /\ e \in Nat /\ n \in Nat /\ a <= d - n /\ d <= e
          BY <1>3, <1>4, <1>5, <2>1, <3>2
        <4>2. v.orders[m].exec = e /\ h[j] = a + n
          BY <1>1, <2>4, <3>1
        <4> HIDE DEF a, d, e
        <4>3. a + n <= e
          BY <4>1
        <4> QED
          BY <4>2, <4>3
      <3>4. CountedOf(w, p, m) \in Int
        BY <1>3 DEF CountedOf
      <3>5. CountedOf(v, q, m) <= h[j] - v.signals[j].filled
        BY <1>4, <1>8, <2>1, <2>2, <2>4, <3>1, <3>4
      <3> QED
        BY <2>1, <2>2, <3>1, <3>3, <3>5
    <2>5. CASE m = id /\ x > i
      <3>1. h[j] = k[x] /\ k[i] <= k[x] - w.signals[x].filled
        BY <1>5, <2>1, <2>5 DEF Room
      <3>2. CountedOf(v, q, m) <= k[i] /\ CountedOf(w, p, m) \in Int
        BY <1>3, <1>4, <1>8, <2>5 DEF CountedOf
      <3>3. CountedOf(v, q, m) \in Int
        BY <1>4, <1>8, <2>5, <3>2
      <3>4. CountedOf(v, q, m) <= h[j] - v.signals[j].filled
        BY <1>5, <2>1, <3>1, <3>2, <3>3
      <3> QED
        BY <1>1, <2>1, <2>2, <3>1, <3>4
    <2>6. x < i \/ x > i
      BY <1>5, <2>1
    <2> QED
      BY <2>3, <2>4, <2>5, <2>6
  <1>14. ASSUME NEW j \in 1..Len(v.signals), NEW l \in 1..Len(v.signals), NEW m \in OrderIds,
                j < l, Trades(v, j, m), Trades(v, l, m)
         PROVE  h[j] <= h[l] - v.signals[l].filled
    <2> DEFINE x == Past(i, j)
               y == Past(i, l)
    <2>1. /\ x \in 1..Len(w.signals) /\ x # i /\ Trades(w, x, m) /\ k[x] \in Nat
          /\ h[j] = IF x < i /\ Trades(w, x, id) THEN k[x] + n ELSE k[x]
      BY <1>10, <1>14
    <2>2. /\ y \in 1..Len(w.signals) /\ y # i /\ Trades(w, y, m) /\ k[y] \in Nat
          /\ h[l] = IF y < i /\ Trades(w, y, id) THEN k[y] + n ELSE k[y]
          /\ v.signals[l] = w.signals[y] /\ w.signals[y].filled \in Int
      BY <1>3, <1>10, <1>14
    <2>3. x < y
      BY <1>1, <1>14 DEF Shifted
    <2> HIDE DEF x, y
    <2>4. k[x] <= k[y] - w.signals[y].filled
      BY <2>1, <2>2, <2>3 DEF Room
    <2>5. CASE x < i /\ Trades(w, x, id) /\ ~(y < i)
      <3>1. y > i /\ m = id
        BY <1>5, <2>1, <2>2, <2>5 DEF Trades
      <3> DEFINE a == k[x]
                 d == k[i]
                 c == k[y]
                 f == w.signals[y].filled
      <3>2. a <= d - w.signals[i].filled /\ d <= c - f
        BY <1>5, <2>1, <2>2, <2>5, <3>1 DEF Room
      <3>3. n = w.signals[i].filled
        BY <1>4, <2>1, <2>5
      <3>4. h[j] = a + n /\ h[l] = c /\ v.signals[l].filled = f
        BY <2>1, <2>2, <2>5
      <3>5. n \in Nat /\ a \in Nat /\ d \in Nat /\ c \in Nat /\ f \in Int /\ a <= d - n /\ d <= c - f
        BY <1>4, <1>5, <2>1, <2>2, <3>2, <3>3
      <3> HIDE DEF a, c, d, f
      <3>6. a + n <= c - f
        BY <3>5
      <3> QED
        BY <3>4, <3>6
    <2>6. CASE x < i /\ Trades(w, x, id) /\ y < i
      <3> DEFINE a == k[x]
                 c == k[y]
                 f == w.signals[y].filled
      <3>1. Trades(w, y, id)
        BY <2>1, <2>2, <2>6 DEF Trades
      <3>2. h[j] = a + n /\ h[l] = c + n /\ v.signals[l].filled = f
        BY <2>1, <2>2, <2>6, <3>1
      <3>3. n \in Nat /\ a \in Nat /\ c \in Nat /\ f \in Int /\ a <= c - f
        BY <1>4, <2>1, <2>2, <2>4
      <3> HIDE DEF a, c, f
      <3>4. a + n <= c + n - f
        BY <3>3
      <3> QED
        BY <3>2, <3>3, <3>4
    <2>7. CASE ~(x < i /\ Trades(w, x, id))
      <3>1. h[j] = k[x] /\ h[l] >= k[y] /\ h[l] \in Int
        BY <1>4, <2>1, <2>2, <2>7
      <3> QED
        BY <2>1, <2>2, <2>4, <3>1
    <2> QED
      BY <2>5, <2>6, <2>7
  <1>15. Room(v, q, h)
    BY <1>7, <1>11, <1>12, <1>13, <1>14 DEF Room
  <1>16. q[id] = p[id] + -n
    BY <1>3, <1>4, <1>7
  <1> QED
    BY <1>7, <1>8, <1>9, <1>15, <1>16 DEF Recounts

(* A signal that is lost, or that nothing is counted for.                  *)
LEMMA RoomDrops ==
  ASSUME NEW w, NEW v, NEW b, NEW s, Good(w, b, s), NEW p, NEW k, Room(w, p, k), NEW i, Drops(w, v, i)
  PROVE  /\ \E h : Room(v, p, h)
         /\ \A j \in OrderIds : CountedOf(v, p, j) = CountedOf(w, p, j)
  <1>1. Shifted(w, v, i) /\ v.orders = w.orders
    BY DropShifts DEF Drops
  <1>2. PICK h : h = [j \in 1..Len(v.signals) |-> k[Past(i, j)]]
    OBVIOUS
  <1>3. \A j \in 1..Len(v.signals) : /\ h[j] = k[Past(i, j)] /\ v.signals[j] = w.signals[Past(i, j)]
                                     /\ Past(i, j) \in 1..Len(w.signals)
                                     /\ \A m \in OrderIds : Trades(v, j, m) <=> Trades(w, Past(i, j), m)
    BY <1>1, <1>2 DEF Shifted, Trades
  <1>4. h \in [1..Len(v.signals) -> Nat]
    BY <1>2, <1>3 DEF Room
  <1>5. \A j \in OrderIds : CountedOf(v, p, j) = CountedOf(w, p, j)
    BY <1>1 DEF CountedOf
  <1>6. ASSUME NEW j \in 1..Len(v.signals), NEW m \in OrderIds, Trades(v, j, m)
        PROVE  /\ v.signals[j].filled >= 1 /\ h[j] <= v.orders[m].exec
               /\ CountedOf(v, p, m) <= h[j] - v.signals[j].filled
               /\ v.signals[j].cum = IF style = "cumulative" THEN h[j] ELSE 0
    BY <1>1, <1>3, <1>5, <1>6 DEF Room
  <1>7. ASSUME NEW j \in 1..Len(v.signals), NEW l \in 1..Len(v.signals), NEW m \in OrderIds,
               j < l, Trades(v, j, m), Trades(v, l, m)
        PROVE  h[j] <= h[l] - v.signals[l].filled
    <2>1. Past(i, j) < Past(i, l)
      BY <1>1, <1>7 DEF Shifted
    <2> QED
      BY <1>3, <1>7, <2>1 DEF Room
  <1>8. \A j \in OrderIds : Fresh(v, j) => p[j] = 0
    BY <1>1 DEF Room, Fresh
  <1>9. Room(v, p, h)
    BY <1>4, <1>6, <1>7, <1>8 DEF Room
  <1> QED
    BY <1>5, <1>9

(* What an operation does to an exit slot: the slot keeps its count and may *)
(* take one of the orders ids, or it is reset.                             *)
Retakes(old, new, ids) ==
  /\ IdsOf(new) \subseteq IdsOf(old) \cup ids
  /\ new.execQty = old.execQty \/ (IdsOf(new) = {} /\ new.execQty = 0)

LEMMA RoomRetaken ==
  ASSUME NEW w, NEW v, NEW p \in [OrderIds -> Nat], NEW old, NEW new, SlotRoom(w, p, old),
         NEW ids \in SUBSET OrderIds, Retakes(old, new, ids), IdsOf(old) \subseteq OrderIds,
         \A id \in IdsOf(old) : id \in ids \/ CountedOf(v, p, id) = CountedOf(w, p, id),
         \A id \in ids : p[id] = 0 /\ CountedOf(v, p, id) = 0
  PROVE  /\ SlotRoom(v, p, new) /\ Debt(p, new) <= Debt(p, old)
         /\ Debt(p, new) \in Nat /\ Debt(p, old) \in Nat
  <1>1. IdsOf(new) \subseteq OrderIds
    BY DEF Retakes
  <1>2. Debt(p, new) <= Debt(p, old)
    BY <1>1, DebtFewer DEF Retakes
  <1>3. 0 <= old.execQty
    BY DEF SlotRoom
  <1>4. 0 <= new.execQty
    BY <1>3 DEF Retakes
  <1>5. ASSUME style = "cumulative", NEW id \in IdsOf(new)
        PROVE  CountedOf(v, p, id) <= new.execQty
    <2>1. new.execQty = old.execQty
      BY <1>5 DEF Retakes
    <2>2. CASE id \in ids
      BY <1>4, <2>2
    <2>3. CASE id \notin ids
      BY <1>5, <2>1, <2>3 DEF Retakes, SlotRoom
    <2> QED
      BY <2>2, <2>3
  <1> QED
    BY <1>1, <1>2, <1>4, <1>5, DebtType DEF SlotRoom

LEMMA SameRetaken == ASSUME NEW slot, NEW ids PROVE Retakes(slot, slot, ids)
  BY DEF Retakes

LEMMA ResetRetakes ==
  ASSUME NEW slot \in Slots, NEW ids
  PROVE  Retakes(slot, Reset(slot, "CANCELED"), ids)
  BY ResetSlotIds DEF Retakes

LEMMA SentRetakes ==
  ASSUME NEW slot \in Slots, NEW id \in OrderIds, NEW qty, NEW accepted \in BOOLEAN, kind = "IND_MARGIN"
  PROVE  Retakes(slot, SentClose(slot, id, qty, accepted), {id}) /\ Retakes(slot, SentExit(slot, id, qty, accepted), {id})
  <1>1. CASE accepted
    <2> DEFINE x == SentClose(slot, id, qty, accepted)
               y == SentExit(slot, id, qty, accepted)
    <2>1. x.refId = id /\ x.orderId = slot.orderId /\ x.execQty = slot.execQty
      BY <1>1 DEF SentClose, Slots
    <2>2. y.refId = id /\ y.orderId = slot.orderId /\ y.execQty = slot.execQty
      BY <1>1 DEF SentExit, Slots
    <2> HIDE DEF x, y
    <2>3. Retakes(slot, x, {id}) /\ Retakes(slot, y, {id})
      BY <2>1, <2>2 DEF Retakes, IdsOf
    <2> QED
      BY <2>3 DEF x, y
  <1>2. CASE ~accepted
    <2>1. SentClose(slot, id, qty, accepted) = Clear(slot, slot.state) /\ SentExit(slot, id, qty, accepted) = Clear(slot, slot.state)
      BY <1>2 DEF SentClose, SentExit
    <2>2. IdsOf(Clear(slot, slot.state)) = {} /\ Clear(slot, slot.state).execQty = 0
      BY ClearIds DEF Clear, ResetSlot
    <2> QED
      BY <2>1, <2>2 DEF Retakes
  <1> QED
    BY <1>1, <1>2

(* Two worlds whose exit slots were retaken.                               *)
LEMMA RoomHeld ==
  ASSUME NEW w, NEW v, NEW b, NEW s \in Nat, Good(w, b, s), NEW p, NEW k, Room(w, p, k), HasRoom(w, s, p),
         NEW ids \in SUBSET OrderIds, NEW h, Room(v, p, h), v.trade.exitQty = w.trade.exitQty,
         Retakes(w.trade.limit, v.trade.limit, ids), Retakes(w.trade.stop, v.trade.stop, ids),
         \A id \in OrderIds : id \in ids \/ CountedOf(v, p, id) = CountedOf(w, p, id),
         \A id \in ids : p[id] = 0 /\ CountedOf(v, p, id) = 0
  PROVE  ExitRoom(v, s)
  <1>1. /\ p \in [OrderIds -> Nat] /\ w.trade.exitQty \in Int
        /\ IdsOf(w.trade.limit) \subseteq OrderIds /\ IdsOf(w.trade.stop) \subseteq OrderIds
    BY GoodTypes DEF Room, Exits
  <1>2. /\ SlotRoom(w, p, w.trade.limit) /\ SlotRoom(w, p, w.trade.stop)
        /\ w.trade.exitQty + Debt(p, w.trade.limit) + Debt(p, w.trade.stop) <= s
    BY DEF HasRoom
  <1>3. /\ SlotRoom(v, p, v.trade.limit) /\ Debt(p, v.trade.limit) <= Debt(p, w.trade.limit)
        /\ Debt(p, v.trade.limit) \in Nat /\ Debt(p, w.trade.limit) \in Nat
    BY <1>1, <1>2, RoomRetaken
  <1>4. /\ SlotRoom(v, p, v.trade.stop) /\ Debt(p, v.trade.stop) <= Debt(p, w.trade.stop)
        /\ Debt(p, v.trade.stop) \in Nat /\ Debt(p, w.trade.stop) \in Nat
    BY <1>1, <1>2, RoomRetaken
  <1>5. v.trade.exitQty + Debt(p, v.trade.limit) + Debt(p, v.trade.stop) <= s
    BY <1>1, <1>2, <1>3, <1>4
  <1> QED
    BY <1>3, <1>4, <1>5 DEF HasRoom, ExitRoom

LEMMA RoomMoves ==
  ASSUME NEW w, NEW v, NEW b, NEW s \in Nat, Good(w, b, s), Moves(w, v), kind = "IND_MARGIN", ExitRoom(w, s)
  PROVE  ExitRoom(v, s)
  <1>1. PICK p, k : Room(w, p, k) /\ HasRoom(w, s, p)
    BY DEF ExitRoom
  <1>2. v.trade.exitQty = w.trade.exitQty /\ w.trade.limit \in Slots /\ w.trade.stop \in Slots
    BY GoodTypes DEF Moves, SameBooks
  <1>3. CASE Idle(w, v)
    <2>1. /\ v.orders = w.orders /\ v.signals = w.signals
          /\ v.trade.limit = w.trade.limit /\ v.trade.stop = w.trade.stop
      BY <1>3 DEF Idle
    <2>2. Room(v, p, k) /\ \A id \in OrderIds : CountedOf(v, p, id) = CountedOf(w, p, id)
      BY <1>1, <2>1 DEF Room, CountedOf, Fresh, Trades
    <2>3. Retakes(w.trade.limit, v.trade.limit, {}) /\ Retakes(w.trade.stop, v.trade.stop, {})
      BY <2>1, SameRetaken
    <2> QED
      BY <1>1, <1>2, <2>2, <2>3, RoomHeld
  <1>4. CASE Withdraws(w, v)
    <2>1. PICK id \in OrderIds :
            /\ w.orders[id].status = "working"
            /\ v.orders = [w.orders EXCEPT ![id] = Withdrawn(w.orders[id])]
            /\ v.signals = w.signals \o <<Announce(id, "CANCELED")>>
            /\ \/ v.trade.limit = w.trade.limit /\ v.trade.stop = w.trade.stop
               \/ v.trade.limit = Reset(w.trade.limit, "CANCELED") /\ v.trade.stop = w.trade.stop
               \/ v.trade.stop = Reset(w.trade.stop, "CANCELED") /\ v.trade.limit = w.trade.limit
      BY <1>4 DEF Withdraws
    <2>2. PICK o, ss : Tells(w, v, id, o, ss) /\ o.exec = w.orders[id].exec
      BY <2>1, WithdrawTells
    <2>3. PICK q, h : Recounts(w, v, p, q, h, id, o.exec - w.orders[id].exec, 0)
      BY <1>1, <2>2, RoomTold
    <2>4. p \in [OrderIds -> Nat] /\ q \in [OrderIds -> Nat] /\ w.orders[id].exec \in Nat
      BY <1>1, <2>3, GoodTypes DEF Room, Recounts
    <2>5. q = p /\ \A j \in OrderIds : CountedOf(v, p, j) = CountedOf(w, p, j)
      <3>1. q[id] = p[id] + (o.exec - w.orders[id].exec) /\ p[id] \in Nat
        BY <2>3, <2>4 DEF Recounts
      <3>2. q[id] = p[id]
        BY <2>2, <2>4, <3>1
      <3>3. q = p
        BY <2>3, <2>4, <3>2 DEF Recounts
      <3>4. CountedOf(w, p, id) \in Int /\ CountedOf(v, p, id) = CountedOf(w, p, id) + 0
        BY <2>3, <2>4, <3>1, <3>3 DEF Recounts, CountedOf
      <3> QED
        BY <2>3, <3>3, <3>4 DEF Recounts
    <2>6. Room(v, p, h)
      BY <2>3, <2>5 DEF Recounts
    <2>7. Retakes(w.trade.limit, v.trade.limit, {}) /\ Retakes(w.trade.stop, v.trade.stop, {})
      BY <1>2, <2>1, SameRetaken, ResetRetakes
    <2> QED
      BY <1>1, <1>2, <2>5, <2>6, <2>7, RoomHeld
  <1>5. CASE Places(w, v)
    <2>1. PICK id \in OrderIds, role \in {"limit", "stop", "close"}, qty \in Int, accepted \in BOOLEAN :
            /\ Fresh(w, id) /\ v.orders = [w.orders EXCEPT ![id] = Placed(role, qty, accepted)]
            /\ v.signals = w.signals /\ (role = "close" => qty > 0)
            /\ \/ v.trade.limit = w.trade.limit /\ v.trade.stop = SentClose(w.trade.stop, id, qty, accepted)
               \/ v.trade.limit = w.trade.limit /\ v.trade.stop = SentExit(w.trade.stop, id, qty, accepted)
               \/ v.trade.stop = w.trade.stop /\ v.trade.limit = SentExit(w.trade.limit, id, qty, accepted)
      BY <1>5 DEF Places
    <2>2. role \in Roles /\ role # "entry"
      BY DEF Roles
    <2>3. Creates(w, v, id, Placed(role, qty, accepted))
      BY <2>1, <2>2, PlacedCreates
    <2>4. /\ Room(v, p, k) /\ p[id] = 0 /\ CountedOf(v, p, id) = 0
          /\ \A j \in OrderIds : j # id => CountedOf(v, p, j) = CountedOf(w, p, j)
      BY <1>1, <2>3, RoomCreates
    <2>5. Retakes(w.trade.limit, v.trade.limit, {id}) /\ Retakes(w.trade.stop, v.trade.stop, {id})
      BY <1>2, <2>1, SameRetaken, SentRetakes
    <2> QED
      BY <1>1, <1>2, <2>4, <2>5, RoomHeld
  <1> QED
    BY <1>3, <1>4, <1>5 DEF Moves

LEMMA RoomOpens ==
  ASSUME NEW w, NEW v, NEW b, NEW s \in Nat, Good(w, b, s), Opens(w, v), ExitRoom(w, s)
  PROVE  ExitRoom(v, s)
  <1>1. PICK p, k : Room(w, p, k) /\ HasRoom(w, s, p)
    BY DEF ExitRoom
  <1>2. PICK id, o : /\ Creates(w, v, id, o) /\ v.trade.exitQty = 0
                     /\ v.trade.limit = ResetSlot /\ v.trade.stop = ResetSlot
    BY OpensCreates
  <1>3. w.trade.exitQty = 0 /\ w.trade.limit = ResetSlot /\ w.trade.stop = ResetSlot
    BY DEF Opens, ResetTrade
  <1>4. /\ Room(v, p, k) /\ p[id] = 0 /\ CountedOf(v, p, id) = 0 /\ id \in OrderIds
        /\ \A j \in OrderIds : j # id => CountedOf(v, p, j) = CountedOf(w, p, j)
    BY <1>1, <1>2, RoomCreates DEF Creates
  <1>5. Retakes(w.trade.limit, v.trade.limit, {id}) /\ Retakes(w.trade.stop, v.trade.stop, {id})
    BY <1>2, <1>3, SameRetaken
  <1> QED
    BY <1>1, <1>2, <1>3, <1>4, <1>5, RoomHeld

(* No order is in two slots.                                               *)
LEMMA SlotsApart ==
  ASSUME NEW w, NEW b, NEW s, Good(w, b, s), RolesKept(w)
  PROVE  /\ IdsOf(w.trade.limit) \cap IdsOf(w.trade.stop) = {}
         /\ \A id \in IdsOf(w.trade.limit) \cup IdsOf(w.trade.stop) : w.orders[id].role # "entry"
  BY GoodTypes DEF RolesKept, Exits

LEMMA RoomReports ==
  ASSUME NEW w, NEW v, NEW b \in Nat, NEW s \in Nat, NEW c, NEW r, Reports(w, v, b, s, c, r), Good(w, b, s),
         RolesKept(w), ExitRoom(w, s)
  PROVE  ExitRoom(v, r)
  <1>1. PICK id, o, ss : Tells(w, v, id, o, ss) /\ Reported(w, v, b, s, c, r, id, o)
    BY ReportTells
  <1>2. PICK p, k : Room(w, p, k) /\ HasRoom(w, s, p)
    BY DEF ExitRoom
  <1>3. PICK q, h : Recounts(w, v, p, q, h, id, o.exec - w.orders[id].exec, 0)
    BY <1>1, <1>2, RoomTold
  <1>4. PICK n : n = o.exec - w.orders[id].exec
    OBVIOUS
  <1>5. /\ id \in OrderIds /\ n \in Nat /\ q[id] = p[id] + n /\ o.role = w.orders[id].role
        /\ v.trade = w.trade /\ r = IF o.role = "entry" THEN s ELSE s + n
    <2>1. o.exec \in Nat /\ w.orders[id].exec \in Nat /\ o.exec >= w.orders[id].exec
      BY <1>1, GoodTypes DEF Tells, BrokerOrders
    <2> QED
      BY <1>1, <1>3, <1>4, <2>1 DEF Tells, Reported, Recounts
  <1> DEFINE l == w.trade.limit
             t == w.trade.stop
             e == w.trade.exitQty
  <1>6. /\ p \in [OrderIds -> Nat] /\ q \in [OrderIds -> Nat] /\ e \in Int
        /\ IdsOf(l) \subseteq OrderIds /\ IdsOf(t) \subseteq OrderIds
    BY <1>2, <1>3, GoodTypes DEF Room, Exits, Recounts
  <1>7. ~(id \in IdsOf(l) /\ id \in IdsOf(t)) /\ (id \in IdsOf(l) \/ id \in IdsOf(t) => o.role # "entry")
    BY <1>5, SlotsApart
  <1>8. SlotRoom(w, p, l) /\ SlotRoom(w, p, t) /\ e + Debt(p, l) + Debt(p, t) <= s
    BY <1>2 DEF HasRoom
  <1>9. SlotRoom(v, q, l) /\ SlotRoom(v, q, t)
    <2>1. CountedOf(w, p, id) \in Int
      <3>1. w.orders[id].exec \in Nat /\ p[id] \in Nat
        BY <1>5, <1>6, GoodTypes
      <3> QED
        BY <3>1 DEF CountedOf
    <2>2. \A j \in OrderIds : CountedOf(v, q, j) = CountedOf(w, p, j)
      <3>1. CountedOf(v, q, id) = CountedOf(w, p, id)
        BY <1>3, <2>1 DEF Recounts
      <3> QED
        BY <1>3, <3>1 DEF Recounts
    <2> QED
      BY <1>6, <1>8, <2>2 DEF SlotRoom
  <1>10. Debt(p, l) \in Nat /\ Debt(p, t) \in Nat
    BY <1>6, DebtType
  <1>11. /\ id \in IdsOf(l) => Debt(q, l) = Debt(p, l) + n
         /\ id \notin IdsOf(l) => Debt(q, l) = Debt(p, l)
    BY <1>3, <1>5, <1>6, DebtAdds DEF Recounts
  <1>12. /\ id \in IdsOf(t) => Debt(q, t) = Debt(p, t) + n
         /\ id \notin IdsOf(t) => Debt(q, t) = Debt(p, t)
    BY <1>3, <1>5, <1>6, DebtAdds DEF Recounts
  <1> HIDE DEF l, t, e
  <1>13. e + Debt(q, l) + Debt(q, t) <= r
    <2>1. CASE id \in IdsOf(l)
      BY <1>5, <1>6, <1>7, <1>8, <1>10, <1>11, <1>12, <2>1
    <2>2. CASE id \in IdsOf(t)
      BY <1>5, <1>6, <1>7, <1>8, <1>10, <1>11, <1>12, <2>2
    <2>3. CASE id \notin IdsOf(l) /\ id \notin IdsOf(t)
      <3>1. s <= r /\ r \in Int
        BY <1>5
      <3> QED
        BY <1>6, <1>8, <1>10, <1>11, <1>12, <2>3, <3>1
    <2> QED
      BY <2>1, <2>2, <2>3
  <1>14. HasRoom(v, r, q)
    BY <1>5, <1>9, <1>13 DEF HasRoom, l, t, e
  <1> QED
    BY <1>3, <1>14 DEF ExitRoom, Recounts

(* What a signal adds to the trade is taken off the debt of the slot.      *)
Settles(w, v, p, q, slot, new, added) ==
  /\ SlotRoom(v, q, new) /\ added + Debt(q, new) <= Debt(p, slot)
  /\ Debt(q, new) \in Nat /\ added \in Int
  /\ \A j \in OrderIds \ IdsOf(slot) : q[j] = p[j] /\ CountedOf(v, q, j) = CountedOf(w, p, j)

LEMMA HeardIds ==
  ASSUME NEW old, NEW new, NEW x, SlotHeard(old, new, x), Names(old, x)
  PROVE  IdsOf(new) \subseteq IdsOf(old)
  BY DEF SlotHeard, Names, IdsOf

LEMMA SlotSettles ==
  ASSUME NEW w, NEW v, NEW b, NEW s, Good(w, b, s), NEW p, NEW k, Room(w, p, k),
         NEW i, Drops(w, v, i), style \in Styles, style = "relative" \/ i = 1,
         NEW slot \in Slots, NEW new, IdsOf(slot) \subseteq OrderIds, SlotRoom(w, p, slot),
         Names(slot, w.signals[i]), SlotHeard(slot, new, w.signals[i])
  PROVE  \E q, h : Room(v, q, h) /\ Settles(w, v, p, q, slot, new, Booked(slot, w.signals[i]))
  <1> DEFINE x == w.signals[i]
             d == x.orderId
             n == ExitFill(slot, x)
  <1>1. /\ i \in 1..Len(w.signals) /\ x \in OrderSignals /\ d \in OrderIds /\ d \in IdsOf(slot)
        /\ slot.execQty \in Int /\ 0 <= slot.execQty /\ IdsOf(new) \subseteq IdsOf(slot)
        /\ p \in [OrderIds -> Nat] /\ v.orders = w.orders
    BY GoodTypes, HeardIds DEF Drops, Names, SlotRoom, Slots, Room
  <1>2. \/ IdsOf(new) = {} /\ new.execQty = 0
        \/ new.execQty = slot.execQty + Booked(slot, x)
    BY DEF SlotHeard
  <1>3. CASE x.event # "TRADED"
    <2>1. Booked(slot, x) = 0
      BY <1>3 DEF Booked
    <2>2. PICK h : Room(v, p, h)
      BY RoomDrops
    <2>3. \A j \in OrderIds : CountedOf(v, p, j) = CountedOf(w, p, j)
      BY <1>1 DEF CountedOf
    <2>4. Retakes(slot, new, {})
      BY <1>1, <1>2, <2>1 DEF Retakes
    <2>5. /\ SlotRoom(v, p, new) /\ Debt(p, new) <= Debt(p, slot)
          /\ Debt(p, new) \in Nat /\ Debt(p, slot) \in Nat
      <3>1. {} \in SUBSET OrderIds /\ \A j \in {} : p[j] = 0 /\ CountedOf(v, p, j) = 0
        OBVIOUS
      <3>2. \A j \in IdsOf(slot) : j \in {} \/ CountedOf(v, p, j) = CountedOf(w, p, j)
        BY <2>3
      <3>3. p \in [OrderIds -> Nat]
        BY <1>1
      <3> HIDE DEF x, d, n
      <3> QED
        BY <2>4, <3>1, <3>2, <3>3, RoomRetaken
    <2>6. 0 + Debt(p, new) <= Debt(p, slot)
      BY <2>5
    <2> HIDE DEF x
    <2>7. Settles(w, v, p, p, slot, new, Booked(slot, x))
      BY <2>1, <2>3, <2>5, <2>6 DEF Settles
    <2> QED
      BY <2>2, <2>7 DEF x
  <1>4. CASE x.event = "TRADED"
    <2>1. Booked(slot, x) = n
      BY <1>4 DEF Booked
    <2>2. Trades(w, i, d)
      BY <1>1, <1>4 DEF Trades
    <2>3. /\ k[i] \in Nat /\ x.filled \in Int /\ x.cum \in Int
          /\ \A j \in OrderIds : p[j] \in Nat /\ w.orders[j].exec \in Nat
      BY <1>1, RoomTypes
    <2>4. /\ x.filled >= 1 /\ CountedOf(w, p, d) <= k[i] - x.filled
          /\ x.cum = IF style = "cumulative" THEN k[i] ELSE 0
      BY <1>1, <2>2 DEF Room
    <2>5. CountedOf(w, p, d) \in Int
      BY <1>1, <2>3 DEF CountedOf
    <2>6. /\ style = "cumulative" => CountedOf(w, p, d) <= slot.execQty
          /\ style \in {"cumulative", "relative"}
      BY <1>1, BrokerAssumption DEF SlotRoom
    <2>7. n = IF x.cum > slot.execQty THEN x.cum - slot.execQty ELSE x.filled
      BY DEF ExitFill
    <2> HIDE DEF x, d, n
    <2>8. n \in Nat /\ CountedOf(w, p, d) + n <= k[i] /\ (style = "relative" => n = x.filled)
      <3>1. CASE style = "relative"
        <4>1. x.cum = 0
          BY <2>4, <3>1
        <4>2. n = x.filled
          BY <1>1, <2>3, <2>7, <4>1
        <4> QED
          BY <2>3, <2>4, <2>5, <4>2
      <3>2. CASE style = "cumulative"
        <4>1. x.cum = k[i] /\ style # "relative"
          BY <2>4, <3>2
        <4>2. CASE k[i] > slot.execQty
          <5>1. n = k[i] - slot.execQty
            BY <2>7, <4>1, <4>2
          <5> QED
            BY <1>1, <2>3, <2>5, <2>6, <3>2, <4>1, <4>2, <5>1
        <4>3. CASE ~(k[i] > slot.execQty)
          <5>1. n = x.filled
            BY <2>7, <4>1, <4>3
          <5> QED
            BY <2>3, <2>4, <2>5, <4>1, <5>1
        <4> QED
          BY <4>2, <4>3
      <3> QED
        BY <2>6, <3>1, <3>2
    <2>9. Countable(w, p, k, i, d, n)
      <3>1. n = w.signals[i].filled \/ \A j \in 1..Len(w.signals) : j < i => ~Trades(w, j, d)
        <4>1. style = "relative" => n = w.signals[i].filled
          BY <2>8 DEF x
        <4>2. i = 1 => \A j \in 1..Len(w.signals) : ~(j < i)
          OBVIOUS
        <4> QED
          BY <4>1, <4>2
      <3> QED
        BY <2>8, <3>1 DEF Countable
    <2>10. PICK q, h : Recounts(w, v, p, q, h, d, -n, n)
      BY <1>1, <2>2, <2>9, RoomCounts
    <2>11. q \in [OrderIds -> Nat] /\ q[d] = p[d] + -n /\ (\A j \in OrderIds : j # d => q[j] = p[j]) /\ Room(v, q, h)
      BY <2>10 DEF Recounts, Room
    <2>12. Debt(q, slot) = Debt(p, slot) + -n /\ Debt(q, slot) \in Nat /\ Debt(p, slot) \in Nat
      <3>1. -n \in Int
        BY <2>8
      <3> QED
        BY <1>1, <2>11, <3>1, DebtAdds, DebtType
    <2>13. Debt(q, new) <= Debt(q, slot) /\ Debt(q, new) \in Nat
      BY <1>1, <2>11, DebtFewer, DebtType
    <2>14. n + Debt(q, new) <= Debt(p, slot)
      BY <2>8, <2>12, <2>13
    <2>15. SlotRoom(v, q, new)
      <3>1. 0 <= new.execQty
        BY <1>1, <1>2, <2>1, <2>8 DEF x
      <3>2. ASSUME style = "cumulative", NEW j \in IdsOf(new)
            PROVE  CountedOf(v, q, j) <= new.execQty
        <4>1. new.execQty = slot.execQty + n /\ j \in IdsOf(slot) /\ j \in OrderIds
          BY <1>1, <1>2, <2>1, <3>2 DEF x
        <4>2. CountedOf(w, p, j) <= slot.execQty /\ CountedOf(w, p, j) \in Int
          BY <2>3, <3>2, <4>1 DEF SlotRoom, CountedOf
        <4>3. CountedOf(v, q, j) = CountedOf(w, p, j) \/ CountedOf(v, q, j) = CountedOf(w, p, j) + n
          BY <2>10, <4>1 DEF Recounts
        <4> QED
          BY <1>1, <2>8, <4>1, <4>2, <4>3
      <3> QED
        BY <3>1, <3>2 DEF SlotRoom
    <2>16. \A j \in OrderIds \ IdsOf(slot) : q[j] = p[j] /\ CountedOf(v, q, j) = CountedOf(w, p, j)
      BY <1>1, <2>10 DEF Recounts
    <2>17. Settles(w, v, p, q, slot, new, n)
      BY <2>8, <2>13, <2>14, <2>15, <2>16 DEF Settles
    <2> QED
      BY <2>1, <2>11, <2>17 DEF x
  <1> QED
    BY <1>3, <1>4

LEMMA OtherSlot ==
  ASSUME NEW w, NEW v, NEW p \in [OrderIds -> Nat], NEW q, NEW slot, NEW new, NEW added,
         Settles(w, v, p, q, slot, new, added),
         NEW other, IdsOf(other) \subseteq OrderIds, IdsOf(other) \cap IdsOf(slot) = {}, SlotRoom(w, p, other)
  PROVE  SlotRoom(v, q, other) /\ Debt(q, other) = Debt(p, other) /\ Debt(p, other) \in Nat
  <1>1. \A j \in IdsOf(other) : q[j] = p[j] /\ CountedOf(v, q, j) = CountedOf(w, p, j)
    BY DEF Settles
  <1>2. SlotRoom(v, q, other)
    BY <1>1 DEF SlotRoom
  <1>3. Debt(q, other) = Debt(p, other)
    BY <1>1 DEF Debt, IdsOf
  <1> QED
    BY <1>2, <1>3, DebtType

LEMMA RoomHears ==
  ASSUME NEW w, NEW v, NEW b, NEW s \in Nat, Good(w, b, s), NEW f, NEW g, Hears(w, v, f, g),
         "repeated" \notin g, style = "relative" \/ "reordered" \notin g,
         kind = "IND_MARGIN", style \in Styles, listed \in BOOLEAN, RolesKept(w), ExitRoom(w, s)
  PROVE  ExitRoom(v, s)
  <1>1. PICK i \in 1..Len(w.signals) :
           /\ Heeds(w.trade, w.signals[i], v.trade) \/ v.trade = w.trade
           /\ Drops(w, v, i) /\ (style = "relative" \/ i = 1)
    BY HearsDrops
  <1>2. PICK p, k : Room(w, p, k) /\ HasRoom(w, s, p)
    BY DEF ExitRoom
  <1> DEFINE l == w.trade.limit
             t == w.trade.stop
             e == w.trade.exitQty
             x == w.signals[i]
  <1>3. /\ p \in [OrderIds -> Nat] /\ e \in Int /\ l \in Slots /\ t \in Slots
        /\ IdsOf(l) \subseteq OrderIds /\ IdsOf(t) \subseteq OrderIds /\ IdsOf(l) \cap IdsOf(t) = {}
    BY <1>2, GoodTypes, SlotsApart DEF Room, Exits
  <1>4. SlotRoom(w, p, l) /\ SlotRoom(w, p, t) /\ e + Debt(p, l) + Debt(p, t) <= s
    BY <1>2 DEF HasRoom
  <1>5. CASE v.trade.limit = l /\ v.trade.stop = t /\ v.trade.exitQty = e
    <2>1. PICK h : Room(v, p, h)
      BY <1>1, <1>2, RoomDrops
    <2>2. \A j \in OrderIds : CountedOf(v, p, j) = CountedOf(w, p, j)
      BY <1>1, <1>2, RoomDrops
    <2>3. SlotRoom(v, p, l) /\ SlotRoom(v, p, t)
      BY <1>3, <1>4, <2>2 DEF SlotRoom
    <2> QED
      BY <1>4, <1>5, <2>1, <2>3 DEF HasRoom, ExitRoom
  <1>6. ASSUME Names(l, x), SlotHeard(l, v.trade.limit, x), v.trade.stop = t, v.trade.exitQty = e + Booked(l, x)
        PROVE  ExitRoom(v, s)
    <2>1. PICK q, h : Room(v, q, h) /\ Settles(w, v, p, q, l, v.trade.limit, Booked(l, x))
      BY <1>1, <1>2, <1>3, <1>4, <1>6, SlotSettles
    <2>2. SlotRoom(v, q, t) /\ Debt(q, t) = Debt(p, t) /\ Debt(p, t) \in Nat
      BY <1>3, <1>4, <2>1, OtherSlot
    <2>3. /\ SlotRoom(v, q, v.trade.limit) /\ Booked(l, x) + Debt(q, v.trade.limit) <= Debt(p, l)
          /\ Debt(q, v.trade.limit) \in Nat /\ Booked(l, x) \in Int /\ Debt(p, l) \in Nat
      BY <1>3, <2>1, DebtType DEF Settles
    <2> HIDE DEF l, t, e, x
    <2>4. v.trade.exitQty + Debt(q, v.trade.limit) + Debt(q, t) <= s
      BY <1>3, <1>4, <1>6, <2>2, <2>3
    <2> QED
      BY <1>6, <2>1, <2>2, <2>3, <2>4 DEF HasRoom, ExitRoom
  <1>7. ASSUME Names(t, x), SlotHeard(t, v.trade.stop, x), v.trade.limit = l, v.trade.exitQty = e + Booked(t, x)
        PROVE  ExitRoom(v, s)
    <2>1. PICK q, h : Room(v, q, h) /\ Settles(w, v, p, q, t, v.trade.stop, Booked(t, x))
      BY <1>1, <1>2, <1>3, <1>4, <1>7, SlotSettles
    <2>2. SlotRoom(v, q, l) /\ Debt(q, l) = Debt(p, l) /\ Debt(p, l) \in Nat
      BY <1>3, <1>4, <2>1, OtherSlot
    <2>3. /\ SlotRoom(v, q, v.trade.stop) /\ Booked(t, x) + Debt(q, v.trade.stop) <= Debt(p, t)
          /\ Debt(q, v.trade.stop) \in Nat /\ Booked(t, x) \in Int /\ Debt(p, t) \in Nat
      BY <1>3, <2>1, DebtType DEF Settles
    <2> HIDE DEF l, t, e, x
    <2>4. v.trade.exitQty + Debt(q, l) + Debt(q, v.trade.stop) <= s
      BY <1>3, <1>4, <1>7, <2>2, <2>3
    <2> QED
      BY <1>7, <2>1, <2>2, <2>3, <2>4 DEF HasRoom, ExitRoom
  <1> HIDE DEF l, t, e, x
  <1>8. \/ v.trade.limit = l /\ v.trade.stop = t /\ v.trade.exitQty = e
        \/ /\ Names(l, x) /\ SlotHeard(l, v.trade.limit, x)
           /\ v.trade.stop = t /\ v.trade.exitQty = e + Booked(l, x)
        \/ /\ Names(t, x) /\ SlotHeard(t, v.trade.stop, x)
           /\ v.trade.limit = l /\ v.trade.exitQty = e + Booked(t, x)
    BY <1>1 DEF Heeds, l, t, e, x
  <1> QED
    BY <1>5, <1>6, <1>7, <1>8

(* Each signal counts once, and a total is not overtaken by a later one.   *)
CountsOnce(f) == kind = "IND_MARGIN" /\ "repeated" \notin f /\ (style = "relative" \/ "reordered" \notin f)

RoomKept(w, s, f) == CountsOnce(f) => ExitRoom(w, s)

LEMMA RoomSteps ==
  ASSUME BrokerInv, ClosingKept(World, listed, faults), RoomKept(World, sold, faults), [Next]_vars
  PROVE  RoomKept(World, sold, faults)'
  <1>1. PICK v, c, r, m, g :
           /\ v = [trade |-> trade', orders |-> orders', signals |-> signals']
           /\ c = bought' /\ r = sold' /\ m = listed' /\ g = faults'
           /\ Good(World, bought, sold) /\ Good(v, c, r) /\ UNCHANGED broker
           /\ Steps(World, bought, sold, listed, faults, v, c, r, m, g)
    BY WorldSteps
  <1>2. /\ kind \in {"IND_MARGIN", "MARGIN"} /\ bought \in Nat /\ sold \in Nat /\ style \in Styles
        /\ listed \in BOOLEAN
    BY InvType DEF BrokerInv
  <1>3. ASSUME CountsOnce(g) PROVE ExitRoom(v, r)
    <2>1. CASE MovesTo(World, v, bought, sold) /\ r = sold /\ g = faults
      <3>1. PICK x, y : /\ Moves(World, x) /\ Moves(x, y) /\ Moves(y, v)
                        /\ Good(x, bought, sold) /\ Good(y, bought, sold)
        BY <2>1 DEF MovesTo
      <3>2. kind = "IND_MARGIN" /\ ExitRoom(World, sold)
        BY <1>3, <2>1 DEF RoomKept, CountsOnce
      <3>3. ExitRoom(x, sold)
        BY <1>1, <1>2, <3>1, <3>2, RoomMoves
      <3>4. ExitRoom(y, sold)
        BY <1>2, <3>1, <3>2, <3>3, RoomMoves
      <3> QED
        BY <1>2, <2>1, <3>1, <3>2, <3>4, RoomMoves
    <2>2. CASE Opens(World, v) /\ r = sold /\ g = faults
      BY <1>1, <1>2, <1>3, <2>2, RoomOpens DEF RoomKept
    <2>3. CASE v = World /\ r = sold /\ g = faults
      BY <1>3, <2>3 DEF RoomKept
    <2>4. CASE Reports(World, v, bought, sold, c, r) /\ g = faults
      <3>1. RolesKept(World) /\ ExitRoom(World, sold)
        BY <1>3, <2>4 DEF RoomKept, ClosingKept
      <3> QED
        BY <1>1, <1>2, <2>4, <3>1, RoomReports
    <2>5. CASE Hears(World, v, faults, g) /\ r = sold
      <3>1. faults \subseteq g
        BY <2>5 DEF Hears
      <3>2. RolesKept(World) /\ ExitRoom(World, sold)
        BY <1>3, <3>1 DEF RoomKept, ClosingKept, CountsOnce
      <3>3. kind = "IND_MARGIN" /\ "repeated" \notin g /\ (style = "relative" \/ "reordered" \notin g)
        BY <1>3 DEF CountsOnce
      <3> QED
        BY <1>1, <1>2, <2>5, <3>2, <3>3, RoomHears
    <2> QED
      BY <1>1, <2>1, <2>2, <2>3, <2>4, <2>5 DEF Steps
  <1>4. v.trade = trade' /\ v.orders = orders' /\ v.signals = signals' /\ kind' = kind /\ style' = style
    BY <1>1 DEF broker
  <1>5. r = sold' /\ g = faults'
    BY <1>1
  <1> HIDE <1>1
  <1>6. ASSUME ExitRoom(v, r) PROVE ExitRoom(World, sold)'
    <2>1. PICK p, k : Room(v, p, k) /\ HasRoom(v, r, p)
      BY <1>6 DEF ExitRoom
    <2>2. Room(World, p, k)'
      BY <1>4, <2>1 DEF Room, CountedOf, Fresh, Trades, World
    <2>3. HasRoom(World, sold, p)'
      BY <1>4, <1>5, <2>1 DEF HasRoom, SlotRoom, CountedOf, Debt, IdsOf, World
    <2> QED
      BY <2>2, <2>3 DEF ExitRoom
  <1>7. CountsOnce(faults)' <=> CountsOnce(g)
    BY <1>4, <1>5 DEF CountsOnce
  <1> QED
    BY <1>3, <1>6, <1>7 DEF RoomKept

\* What an IndMarginTrade believes it exited is never more than its exit orders
\* executed, unless a signal is repeated or a total overtaken: _updateExitQty adds
\* what is new since the last signal of the slot, which may be one of another
\* order, but a slot never counted less than it counted of either of its orders.
THEOREM IndMarginExitIsBacked == Spec => []IndMarginExitBacked
  <1> DEFINE P == BrokerInv /\ ClosingKept(World, listed, faults)
             Q == RoomKept(World, sold, faults)
  <1>1. Init => Q
    <2> SUFFICES ASSUME Init PROVE ExitRoom(World, sold)
      BY DEF RoomKept
    <2>1. PICK p : p = [id \in OrderIds |-> 0]
      OBVIOUS
    <2>2. PICK k : k = [i \in 1..0 |-> 0]
      OBVIOUS
    <2>3. /\ World.trade.limit = ResetSlot /\ World.trade.stop = ResetSlot /\ World.trade.exitQty = 0
          /\ World.signals = <<>> /\ sold = 0
      BY DEF Init, World, ResetTrade
    <2>4. Room(World, p, k)
      BY <2>1, <2>2, <2>3 DEF Room
    <2>5. IdsOf(ResetSlot) = {} /\ ResetSlot.execQty = 0 /\ Debt(p, ResetSlot) = 0
      BY DEF IdsOf, ResetSlot, Debt
    <2>6. HasRoom(World, sold, p)
      BY <2>3, <2>5 DEF HasRoom, SlotRoom
    <2> QED
      BY <2>4, <2>6 DEF ExitRoom
  <1>2. P /\ Q /\ [Next]_vars => Q'
    BY RoomSteps
  <1>3. P /\ Q => IndMarginExitBacked
    <2> SUFFICES ASSUME BrokerInv, RoomKept(World, sold, faults), CountsOnce(faults)
                 PROVE  trade.exitQty <= sold
      BY DEF IndMarginExitBacked, CountsOnce
    <2>1. World.trade = trade /\ Good(World, bought, sold) /\ sold \in Nat
      BY InvType DEF BrokerInv
    <2>2. PICK p, k : Room(World, p, k) /\ HasRoom(World, sold, p)
      BY DEF RoomKept, ExitRoom
    <2>3. /\ p \in [OrderIds -> Nat] /\ trade.exitQty \in Int
          /\ IdsOf(trade.limit) \subseteq OrderIds /\ IdsOf(trade.stop) \subseteq OrderIds
      BY <2>1, <2>2, GoodTypes DEF Room, Exits
    <2>4. Debt(p, trade.limit) \in Nat /\ Debt(p, trade.stop) \in Nat
      BY <2>3, DebtType
    <2>5. trade.exitQty + Debt(p, trade.limit) + Debt(p, trade.stop) <= sold
      BY <2>1, <2>2 DEF HasRoom
    <2> QED
      BY <2>1, <2>3, <2>4, <2>5
  <1>4. Spec => []P
    BY ClosingInvariant
  <1> HIDE DEF P, Q
  <1> QED
    BY <1>1, <1>2, <1>3, <1>4, PTL DEF Spec

-----------------------------------------------------------------------------
(* The theorems.                                                           *)

LEMMA BrokerInvariant == Spec => []BrokerInv
  BY InitInv, NextInv, PTL DEF Spec

\* The trade, the orders of the broker and the signals keep their types.
THEOREM BrokerTypes == Spec => []TypeOK
  <1>1. BrokerInv => TypeOK
    BY InvType DEF BrokerInv, TypeOK
  <1> QED
    BY <1>1, BrokerInvariant, PTL

\* However the signals are lost, repeated or reordered, running totals never make
\* orderSignal() of either class book more than the entry order executed.
THEOREM EntryIsBacked == Spec => []EntryBacked
  <1>1. BrokerInv => EntryBacked
    BY InvType DEF Good, Consistent, EntryBacked
  <1> QED
    BY <1>1, BrokerInvariant, PTL

\* Nor, in a MarginTrade, more than the exit orders executed together.
THEOREM MarginExitIsBacked == Spec => []MarginExitBacked
  <1>1. BrokerInv => MarginExitBacked
    BY InvType DEF Good, Consistent, MarginExitBacked
  <1> QED
    BY <1>1, BrokerInvariant, PTL
=============================================================================
