------------------------ MODULE IndMarginTradeProofs ------------------------
(***************************************************************************)
(* The handlers of IndMarginTrade take trade records to trade records: the *)
(* lemmas the proofs about the paper connector and about a broker share.   *)
(***************************************************************************)
EXTENDS IndMarginTrade, TLAPS

LEMMA ResetTypes == ResetSlot \in Slots /\ ResetTrade \in TradeRecords
  BY DEF ResetSlot, ResetTrade, Slots, TradeRecords, States, Ids

LEMMA ClearType == ASSUME NEW slot, NEW state \in States
                   PROVE  Clear(slot, state) \in Slots
  BY ResetTypes DEF Clear, ResetSlot, Slots

LEMMA AcknowledgeType == ASSUME NEW slot \in Slots, NEW s \in OrderSignals
                         PROVE  Acknowledge(slot, s) \in Slots
  BY DEF Acknowledge, Slots, OrderSignals

LEMMA UntradedType == ASSUME NEW slot \in Slots, NEW s \in OrderSignals
                      PROVE  Untraded(slot, s) \in Slots
  <1>1. slot.state \in States /\ {"REJECTED", "CANCELED", "OPENED"} \subseteq States
    BY DEF Slots, States
  <1>2. [slot EXCEPT !.state = IF slot.state = "NEW" THEN "OPENED" ELSE slot.state] \in Slots
    BY <1>1 DEF Slots
  <1> QED
    BY <1>1, <1>2, ClearType DEF Untraded

LEMMA EntrySignalType == ASSUME NEW t \in TradeRecords, NEW s \in OrderSignals
                         PROVE  EntrySignal(t, s) \in TradeRecords
  <1> DEFINE entry == Acknowledge(t.entry, s)
  <1>1. t.entry \in Slots
    BY DEF TradeRecords
  <1>2. entry \in Slots /\ Untraded(entry, s) \in Slots
    BY <1>1, AcknowledgeType, UntradedType
  <1>3. Clear(entry, "FILLED") \in Slots /\ [entry EXCEPT !.state = "PARTIALLY_FILLED"] \in Slots
    BY <1>2, ClearType DEF Slots, States
  <1>4. [t EXCEPT !.entry = Untraded(entry, s)] \in TradeRecords
    BY <1>2 DEF TradeRecords
  <1>5. (IF s.cum > 0 THEN s.cum ELSE t.entryQty + s.filled) \in Int
    BY DEF OrderSignals, TradeRecords
  <1>6. EntryTraded(t, s) \in TradeRecords
    BY <1>3, <1>5 DEF EntryTraded, TradeRecords
  <1> QED
    BY <1>4, <1>6 DEF EntrySignal

LEMMA ExitTypes == ASSUME NEW t \in TradeRecords, NEW slot \in Slots, NEW s \in OrderSignals
                   PROVE  /\ ExitFill(slot, s) \in Int
                          /\ WithExit(t, slot, s) \in TradeRecords
                          /\ ExitTraded(t, slot, s) \in Slots
  <1>1. ExitFill(slot, s) \in Int
    BY DEF ExitFill, Slots, OrderSignals
  <1>2. ASSUME NEW n \in Int PROVE ExitPrice(t, s, n) \in Int
    <2>1. t.exitPrice \in Int /\ t.exitQty \in Int /\ s.price \in Int
      BY DEF TradeRecords, OrderSignals
    <2>2. t.exitPrice * t.exitQty \in Int /\ s.price * n \in Int
      BY <2>1
    <2>3. \A a \in Int, b \in Int : b > 0 => a \div b \in Int
      OBVIOUS
    <2>4. t.exitQty + n > 0 => (s.price * n) \div (t.exitQty + n) \in Int
      BY <2>1, <2>2, <2>3
    <2> QED
      BY <2>1, <2>2, <2>4 DEF ExitPrice
  <1>3. WithExit(t, slot, s) \in TradeRecords
    <2>1. \A n \in Int, price \in Int :
            [t EXCEPT !.exitQty = n, !.exitPrice = price] \in TradeRecords
      BY DEF TradeRecords
    <2>2. t.exitQty + ExitFill(slot, s) \in Int /\ ExitPrice(t, s, ExitFill(slot, s)) \in Int
      BY <1>1, <1>2 DEF TradeRecords
    <2> QED
      BY <2>1, <2>2 DEF WithExit
  <1>4. \A n \in Int : ExitState(t, n, s) \in States
    BY DEF ExitState, States
  <1>5. t.exitQty + ExitFill(slot, s) \in Int /\ slot.execQty + ExitFill(slot, s) \in Int
    BY <1>1 DEF TradeRecords, Slots
  <1>6. ExitTraded(t, slot, s) \in Slots
    BY <1>4, <1>5, ClearType DEF ExitTraded, Slots
  <1> QED
    BY <1>1, <1>3, <1>6

LEMMA ExitSignalTypes == ASSUME NEW t \in TradeRecords, NEW s \in OrderSignals
                         PROVE  LimitSignal(t, s) \in TradeRecords /\ StopSignal(t, s) \in TradeRecords
  <1>1. Acknowledge(t.limit, s) \in Slots /\ Acknowledge(t.stop, s) \in Slots
    BY AcknowledgeType DEF TradeRecords
  <1>2. \A u \in TradeRecords, slot \in Slots : [u EXCEPT !.limit = slot] \in TradeRecords
                                             /\ [u EXCEPT !.stop = slot] \in TradeRecords
    BY DEF TradeRecords
  <1> QED
    BY <1>1, <1>2, ExitTypes, UntradedType DEF LimitSignal, StopSignal

LEMMA OrderSignalType == ASSUME NEW t \in TradeRecords, NEW s \in OrderSignals
                         PROVE  OrderSignal(t, s) \in TradeRecords
  BY EntrySignalType, ExitSignalTypes DEF OrderSignal

LEMMA SlotUpdates ==
  ASSUME NEW t \in TradeRecords
  PROVE  /\ t.entry \in Slots /\ t.limit \in Slots /\ t.stop \in Slots
         /\ RemainingQty(t) \in Int
         /\ \A slot \in Slots : /\ [t EXCEPT !.entry = slot] \in TradeRecords
                                /\ [t EXCEPT !.limit = slot] \in TradeRecords
                                /\ [t EXCEPT !.stop = slot] \in TradeRecords
         /\ \A n \in Nat : /\ [t EXCEPT !.takeProfit = n] \in TradeRecords
                           /\ [t EXCEPT !.stopLoss = n] \in TradeRecords
  BY DEF TradeRecords, RemainingQty
=============================================================================
