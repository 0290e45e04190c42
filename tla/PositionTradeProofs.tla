------------------------- MODULE PositionTradeProofs -------------------------
(***************************************************************************)
(* Proofs about PositionTrade: its types, the balance of its books under   *)
(* every fault, that process() never loosens a stop, that a lost, late or  *)
(* repeated signal never overbooks the trade, and that a trade which heard *)
(* its signals in order knows its position.                                *)
(***************************************************************************)
EXTENDS PositionTrade, SequenceTheorems, TLAPS

Sound(t) == t \in TradeRecords /\ t.entryQty - t.exitQty = t.positionQty

(* A state of the trade and the broker an operation works on.              *)
SoundWorld(w) ==
  /\ w \in [trade : TradeRecords, order : Orders, position : Positions, signals : Seq(Signals)]
  /\ Sound(w.trade)

-----------------------------------------------------------------------------
(* The handlers of the signals keep the trade sound.                       *)

LEMMA ForgottenSound == ASSUME NEW t, Sound(t), NEW state \in States
                        PROVE  /\ Sound(Forgotten(t))
                               /\ Sound([Forgotten(t) EXCEPT !.entryState = state])
  BY DEF Sound, Forgotten, TradeRecords

LEMMA OrderSignalSound == ASSUME NEW t, Sound(t), NEW s \in Signals
                          PROVE  Sound(OrderSignal(t, s))
  <1>1. Sound(OrderOpened(t))
    BY DEF Sound, OrderOpened, TradeRecords, States
  <1>2. ASSUME NEW state \in States PROVE Sound(OrderEnded(t, state))
    <2>1. Forgotten(t).entryState \in States
      BY ForgottenSound DEF Sound, Forgotten, TradeRecords, States
    <2>2. PICK old \in States : old = Forgotten(t).entryState
      BY <2>1
    <2>3. OrderEnded(t, state) \in {t, [Forgotten(t) EXCEPT !.entryState = state],
                                       [Forgotten(t) EXCEPT !.entryState = old]}
      BY <2>2 DEF OrderEnded
    <2> QED
      BY <2>3, ForgottenSound
  <1>3. "DELETED" \in States /\ "CANCELED" \in States
    BY DEF States
  <1> QED
    BY <1>1, <1>2, <1>3 DEF OrderSignal

LEMMA LevelsSound == ASSUME NEW t, Sound(t), NEW s \in Signals
                     PROVE  /\ Sound(WithLevels(t, s))
                            /\ WithLevels(t, s).entryQty = t.entryQty
                            /\ WithLevels(t, s).exitQty = t.exitQty
                            /\ WithLevels(t, s).positionQty = t.positionQty
  <1>1. t.positionStop \in Int /\ t.positionLimit \in Int /\ s.stop \in Int /\ s.limit \in Int
    BY DEF Sound, TradeRecords, Signals
  <1>2. Told(s.stop, t.positionStop) \in Int /\ Told(s.limit, t.positionLimit) \in Int
    BY <1>1 DEF Told
  <1> QED
    BY <1>2 DEF Sound, TradeRecords, WithLevels

LEMMA QuantityTypes == ASSUME NEW t, Sound(t), NEW s \in Signals
                       PROVE  OpenedQty(s) \in Nat /\ UpdatedQty(t, s) \in Nat
  BY DEF OpenedQty, UpdatedQty, Signals, Quantities, Undefined, Sound, TradeRecords

LEMMA PriceTypes == ASSUME NEW t, Sound(t), NEW s \in Signals, NEW qty \in Nat
                    PROVE  OpenedPrice(t, s) \in Int /\ MeanPrice(t, s, qty) \in Int
  <1>1. /\ t.entryPrice \in Int /\ t.entryQty \in Int /\ t.positionQty \in Int
        /\ s.avgPrice \in Int /\ s.execPrice \in Int
    BY DEF Sound, TradeRecords, Signals
  <1> DEFINE inc == qty - t.positionQty
  <1>2. inc \in Int /\ t.entryQty * inc \in Int
    BY <1>1
  <1>3. t.entryPrice * t.entryQty + s.execPrice * inc \in Int
    BY <1>1, <1>2
  <1>4. \A a \in Int, b \in Int : b > 0 => a \div b \in Int
    OBVIOUS
  <1>5. ~ t.entryQty * inc <= 0 =>
          (t.entryPrice * t.entryQty + s.execPrice * inc) \div (t.entryQty * inc) \in Int
    BY <1>2, <1>3, <1>4
  <1>6. OpenedPrice(t, s) \in Int
    BY <1>1 DEF OpenedPrice
  <1> QED
    BY <1>1, <1>5, <1>6 DEF MeanPrice

(* The position quantity follows the entry, in whatever state that leaves. *)
LEMMA IncreasedSound == ASSUME NEW t, Sound(t), NEW qty \in Nat, NEW price \in Int
                        PROVE  /\ Sound([Increased(t, qty) EXCEPT !.positionQty = qty,
                                                                  !.entryPrice = price])
                               /\ Sound([[Increased(t, qty) EXCEPT !.entryPrice = price]
                                           EXCEPT !.positionQty = qty])
  <1> DEFINE filled == t.entryQty + (qty - t.positionQty)
             v == Increased(t, qty)
  <1>1. t.entryQty \in Int /\ t.exitQty \in Int /\ t.positionQty \in Nat /\ t \in TradeRecords
    BY DEF Sound, TradeRecords
  <1>2. filled \in Int /\ filled - t.exitQty = qty
    BY <1>1 DEF Sound
  <1>3. [t EXCEPT !.entryQty = filled] \in TradeRecords
    BY <1>1, <1>2 DEF TradeRecords
  <1>4. v \in TradeRecords /\ v.entryQty = filled /\ v.exitQty = t.exitQty
    BY <1>1, <1>2 DEF Increased, Forgotten, TradeRecords, States
  <1> HIDE DEF filled, v
  <1>5. ASSUME NEW a, a = [[v EXCEPT !.entryPrice = price] EXCEPT !.positionQty = qty]
        PROVE  a \in TradeRecords /\ a.entryQty = filled /\ a.exitQty = t.exitQty /\ a.positionQty = qty
    BY <1>4, <1>5 DEF TradeRecords
  <1>6. ASSUME NEW a, a = [v EXCEPT !.positionQty = qty, !.entryPrice = price]
        PROVE  a \in TradeRecords /\ a.entryQty = filled /\ a.exitQty = t.exitQty /\ a.positionQty = qty
    BY <1>4, <1>6 DEF TradeRecords
  <1> QED
    BY <1>2, <1>5, <1>6 DEF v, Sound

LEMMA PositionOpenedSound == ASSUME NEW t, Sound(t), NEW s \in Signals
                             PROVE  Sound(PositionOpened(t, s))
  <1> DEFINE o == [t EXCEPT !.positionId = TRUE, !.entryState = "OPENED"]
             u == WithLevels(o, s)
             qty == OpenedQty(s)
             price == OpenedPrice(t, s)
  <1>1. Sound(o)
    BY DEF Sound, TradeRecords, States
  <1>2. Sound(u)
    BY <1>1, LevelsSound
  <1>3. qty \in Nat /\ price \in Int
    BY QuantityTypes, PriceTypes
  <1> HIDE DEF u, qty, price
  <1>4. Sound([Increased(u, qty) EXCEPT !.positionQty = qty, !.entryPrice = price])
    BY <1>2, <1>3, IncreasedSound
  <1> QED
    BY <1>2, <1>4 DEF PositionOpened, u, qty, price

LEMMA PositionUpdatedSound == ASSUME NEW t, Sound(t), NEW s \in Signals
                              PROVE  Sound(PositionUpdated(t, s))
  <1> DEFINE u == WithLevels(t, s)
             qty == UpdatedQty(t, s)
             price == MeanPrice(t, s, qty)
  <1>1. Sound(u) /\ u.positionQty = t.positionQty /\ qty \in Nat
    BY LevelsSound, QuantityTypes
  <1>2. price \in Int
    BY <1>1, PriceTypes
  <1> HIDE DEF u, qty, price
  <1>3. Sound([[Increased(u, qty) EXCEPT !.entryPrice = price] EXCEPT !.positionQty = qty])
    BY <1>1, <1>2, IncreasedSound
  <1>4. Sound([Decreased(u, qty) EXCEPT !.positionQty = qty])
    <2> DEFINE filled == u.exitQty + (u.positionQty - qty)
               v == Decreased(u, qty)
    <2>1. u \in TradeRecords /\ u.entryQty \in Int /\ u.exitQty \in Int /\ u.positionQty \in Nat
      BY <1>1 DEF Sound, TradeRecords
    <2>2. filled \in Int /\ u.entryQty - filled = qty
      BY <1>1, <2>1 DEF Sound
    <2>3. v \in TradeRecords /\ v.entryQty = u.entryQty /\ v.exitQty = filled
      BY <2>1, <2>2 DEF Decreased, TradeRecords, States
    <2> HIDE DEF filled, v
    <2> QED
      BY <1>1, <2>2, <2>3 DEF v, Sound, TradeRecords
  <1>5. qty = t.positionQty => Sound([u EXCEPT !.positionQty = qty])
    BY <1>1 DEF Sound, TradeRecords
  <1>6. qty < t.positionQty \/ qty > t.positionQty \/ qty = t.positionQty
    BY <1>1 DEF Sound, TradeRecords
  <1> QED
    BY <1>3, <1>4, <1>5, <1>6 DEF PositionUpdated, u, qty, price

LEMMA PositionSignalSound == ASSUME NEW t, Sound(t), NEW s \in Signals
                             PROVE  Sound(PositionSignal(t, s))
  <1>1. Sound(PositionDeleted(t))
    <2>1. t \in TradeRecords /\ t.entryQty \in Int /\ t.exitQty \in Int /\ t.positionQty \in Nat
      BY DEF Sound, TradeRecords
    <2>2. t.exitQty >= t.entryQty => t.exitQty = t.entryQty
      BY <2>1 DEF Sound
    <2>3. /\ PositionDeleted(t) \in TradeRecords
          /\ PositionDeleted(t).entryQty = t.entryQty
          /\ PositionDeleted(t).positionQty = 0
          /\ PositionDeleted(t).exitQty = IF t.exitQty < t.entryQty THEN t.entryQty ELSE t.exitQty
      BY <2>1 DEF PositionDeleted, Forgotten, TradeRecords, States
    <2> QED
      BY <2>1, <2>2, <2>3 DEF Sound
  <1> QED
    BY <1>1, PositionOpenedSound, PositionUpdatedSound, LevelsSound DEF PositionSignal

LEMMA HandledSound == ASSUME Sound(trade), NEW s \in Signals
                      PROVE  Sound(Handled(trade, s))
  BY OrderSignalSound, PositionSignalSound DEF Handled

-----------------------------------------------------------------------------
(* The operations keep the world sound, and the side of the trade; only    *)
(* the modification of the stop-loss moves it.                             *)

Worlds == [trade : TradeRecords, order : Orders, position : Positions, signals : Seq(Signals)]

SameStop(w, v) == v.trade.direction = w.trade.direction /\ v.trade.stopLoss = w.trade.stopLoss

LEMMA NewsTypes == ASSUME NEW stop \in Int, NEW limit \in Int
                   PROVE  /\ OrderNews("CANCELED") \in Signals
                          /\ Amended(stop, limit) \in Signals
  <1>1. Undefined \in Quantities /\ Undefined \in Int
    BY DEF Quantities, Undefined
  <1>2. OrderNews("CANCELED") \in Signals /\ OrderNews("AMENDED") \in Signals
    BY <1>1 DEF OrderNews, Signals
  <1>3. \A s \in Signals : [s EXCEPT !.kind = "position", !.stop = stop, !.limit = limit] \in Signals
    BY DEF Signals
  <1> QED
    BY <1>2, <1>3 DEF Amended

LEMMA CanceledSound == ASSUME NEW w, SoundWorld(w), NEW state \in States
                       PROVE  SoundWorld(Canceled(w, state)) /\ SameStop(w, Canceled(w, state))
  <1> DEFINE t == [Forgotten(w.trade) EXCEPT !.entryState = state]
  <1>1. w \in Worlds /\ Sound(w.trade)
    BY DEF SoundWorld, Worlds
  <1>2. Sound(t) /\ t.direction = w.trade.direction /\ t.stopLoss = w.trade.stopLoss
    BY <1>1, ForgottenSound DEF Forgotten, Worlds, TradeRecords
  <1>3. Append(w.signals, OrderNews("CANCELED")) \in Seq(Signals)
    <2>1. OrderNews("CANCELED") \in Signals
      BY NewsTypes
    <2>2. w.signals \in Seq(Signals)
      BY <1>1 DEF Worlds
    <2> HIDE DEF OrderNews
    <2> QED
      BY <2>1, <2>2
  <1> DEFINE news == Append(w.signals, OrderNews("CANCELED"))
             o == [w.order EXCEPT !.status = "done", !.revoked = TRUE]
  <1>5. o \in Orders
    BY <1>1 DEF Worlds, Orders
  <1>6. t \in TradeRecords /\ news \in Seq(Signals)
    BY <1>2, <1>3 DEF Sound
  <1>7. Canceled(w, state) = [w EXCEPT !.order = o, !.signals = news, !.trade = t]
    BY DEF Canceled
  <1> HIDE DEF t, news, o
  <1>8. Canceled(w, state) \in Worlds /\ Canceled(w, state).trade = t
    BY <1>1, <1>5, <1>6, <1>7 DEF Worlds
  <1> QED
    BY <1>2, <1>8 DEF SoundWorld, SameStop, Worlds

LEMMA CancelsSound == ASSUME NEW w, SoundWorld(w)
                      PROVE  /\ SoundWorld(CancelEntry(w)) /\ SameStop(w, CancelEntry(w))
                             /\ SoundWorld(CancelOpen(w)) /\ SoundWorld(RemoveEntry(w))
  <1>1. SoundWorld(CancelEntry(w)) /\ SameStop(w, CancelEntry(w))
    <2>1. "CANCELED" \in States
      BY DEF States
    <2> QED
      BY <2>1, CanceledSound DEF CancelEntry, SameStop
  <1>2. SoundWorld(RemoveEntry(w))
    <2>1. (IF w.trade.entryQty <= 0 THEN "CANCELED" ELSE "FILLED") \in States
      BY DEF States
    <2> QED
      BY <2>1, CanceledSound DEF RemoveEntry
  <1> QED
    BY <1>1, <1>2 DEF CancelOpen

LEMMA CloseSound == ASSUME NEW w, SoundWorld(w), NEW accepted
                    PROVE  SoundWorld(Close(w, accepted)) /\ SameStop(w, Close(w, accepted))
  <1> DEFINE u == CancelEntry(w)
             v == [u EXCEPT !.trade = [u.trade EXCEPT !.closing = TRUE],
                            !.position = [u.position EXCEPT !.asked = u.trade.positionQty]]
  <1>1. SoundWorld(u) /\ SameStop(w, u)
    BY CancelsSound
  <1> HIDE DEF u
  <1>2. u.trade \in TradeRecords /\ u.position \in Positions /\ u.trade.positionQty \in Nat
    BY <1>1 DEF SoundWorld, TradeRecords
  <1> DEFINE t == [u.trade EXCEPT !.closing = TRUE]
             p == [u.position EXCEPT !.asked = u.trade.positionQty]
  <1>3. p \in Positions
    BY <1>2 DEF Positions
  <1>4. Sound(t) /\ t.direction = u.trade.direction /\ t.stopLoss = u.trade.stopLoss
    BY <1>1, <1>2 DEF SoundWorld, Sound, TradeRecords
  <1>5. t \in TradeRecords /\ v = [u EXCEPT !.trade = t, !.position = p]
    BY <1>4 DEF Sound
  <1> HIDE DEF t, p, v
  <1>6. v \in Worlds /\ v.trade = t
    BY <1>1, <1>3, <1>5 DEF Worlds, SoundWorld
  <1>7. SoundWorld(v) /\ SameStop(u, v)
    BY <1>4, <1>6 DEF SoundWorld, SameStop, Worlds
  <1> QED
    BY <1>1, <1>7 DEF Close, SameStop, u, v

LEMMA ModifiedSound == ASSUME NEW w, SoundWorld(w), NEW stop \in Int, NEW limit \in Int
                       PROVE  SoundWorld(Modified(w, stop, limit)) /\ Modified(w, stop, limit).trade = w.trade
  <1> DEFINE news == Append(w.signals, Amended(stop, limit))
  <1>1. w \in Worlds /\ Sound(w.trade)
    BY DEF SoundWorld, Worlds
  <1>2. news \in Seq(Signals)
    <2>1. Amended(stop, limit) \in Signals /\ w.signals \in Seq(Signals)
      BY <1>1, NewsTypes DEF Worlds
    <2> QED
      BY <2>1
  <1> DEFINE p == [w.position EXCEPT !.stop = stop, !.limit = limit]
  <1>3. p \in Positions
    BY <1>1 DEF Worlds, Positions
  <1>4. Modified(w, stop, limit) = [w EXCEPT !.position = p, !.signals = news]
    BY DEF Modified
  <1> HIDE DEF news, p
  <1>5. Modified(w, stop, limit) \in Worlds /\ Modified(w, stop, limit).trade = w.trade
    BY <1>1, <1>2, <1>3, <1>4 DEF Worlds
  <1> QED
    BY <1>1, <1>5 DEF SoundWorld, Worlds

LEMMA ModifyStopLossSound ==
  ASSUME NEW w, SoundWorld(w), NEW price \in Int, NEW mod, NEW accepted
  PROVE  LET v == ModifyStopLoss(w, price, mod, accepted)
         IN  /\ SoundWorld(v) /\ v.trade.direction = w.trade.direction
             /\ v.trade.stopLoss \in {price, w.trade.stopLoss}
  <1> DEFINE m == Modified(w, price, w.trade.positionLimit)
             s == [m EXCEPT !.trade.positionStop = price]
  <1>1. w.trade \in TradeRecords /\ w.trade.positionLimit \in Int
    BY DEF SoundWorld, TradeRecords
  <1>2. SoundWorld(m) /\ m.trade = w.trade
    BY <1>1, ModifiedSound
  <1> HIDE DEF m
  <1>3. SoundWorld(s) /\ s.trade.direction = w.trade.direction
    BY <1>2 DEF SoundWorld, Sound, TradeRecords
  <1> HIDE DEF s
  <1>4. ASSUME NEW u, SoundWorld(u), u.trade.direction = w.trade.direction
        PROVE  /\ SoundWorld([u EXCEPT !.trade.stopLoss = price])
               /\ [u EXCEPT !.trade.stopLoss = price].trade.direction = w.trade.direction
               /\ [u EXCEPT !.trade.stopLoss = price].trade.stopLoss = price
    BY <1>4 DEF SoundWorld, Sound, TradeRecords
  <1>5. ModifyStopLoss(w, price, mod, accepted) \in
          {w, [w EXCEPT !.trade.stopLoss = price], [s EXCEPT !.trade.stopLoss = price]}
    BY DEF ModifyStopLoss, m, s
  <1> QED
    BY <1>3, <1>4, <1>5

LEMMA ModifyTakeProfitSound ==
  ASSUME NEW w, SoundWorld(w), NEW price \in Int, NEW mod, NEW accepted
  PROVE  SoundWorld(ModifyTakeProfit(w, price, mod, accepted))
  <1> DEFINE m == Modified(w, w.trade.positionStop, price)
             s == [m EXCEPT !.trade.positionLimit = price]
  <1>1. w.trade \in TradeRecords /\ w.trade.positionStop \in Int
    BY DEF SoundWorld, TradeRecords
  <1>2. SoundWorld(m) /\ m.trade = w.trade
    BY <1>1, ModifiedSound
  <1> HIDE DEF m
  <1>3. SoundWorld(s)
    BY <1>2 DEF SoundWorld, Sound, TradeRecords
  <1> HIDE DEF s
  <1>4. ASSUME NEW u, SoundWorld(u) PROVE SoundWorld([u EXCEPT !.trade.takeProfit = price])
    BY <1>4 DEF SoundWorld, Sound, TradeRecords
  <1>5. ModifyTakeProfit(w, price, mod, accepted) \in
          {w, [w EXCEPT !.trade.takeProfit = price], [s EXCEPT !.trade.takeProfit = price]}
    BY DEF ModifyTakeProfit, m, s
  <1> QED
    BY <1>3, <1>4, <1>5

-----------------------------------------------------------------------------
(* The policies only tighten, and process() with them.                     *)

Tightens(t, stop) == t.direction * (stop - t.stopLoss) >= 0

LEMMA PoliciesTighten ==
  ASSUME NEW t \in TradeRecords, NEW close \in Int
  PROVE  \A stop \in BreakevenStops(t, close) \cup DynamicStops(t, close) :
           stop \in Int /\ Tightens(t, stop)
  <1>1. /\ t.direction \in {-1, 0, 1} /\ t.entryPrice \in Int /\ t.stopLoss \in Int
        /\ BreakevenOffset \in Nat /\ TrailDistance \in Nat
    BY StopAssumption DEF TradeRecords
  <1>2. ASSUME NEW stop \in BreakevenStops(t, close) PROVE stop \in Int /\ Tightens(t, stop)
    <2>1. BreakevenReached(t, close) /\ stop = t.entryPrice + t.direction * BreakevenOffset
      BY DEF BreakevenStops
    <2>2. CASE t.direction = 1
      BY <1>1, <2>1, <2>2 DEF BreakevenReached, Tightens
    <2>3. CASE t.direction = -1
      BY <1>1, <2>1, <2>3 DEF BreakevenReached, Tightens
    <2>4. CASE t.direction = 0
      BY <1>1, <2>1, <2>4 DEF BreakevenReached
    <2> QED
      BY <1>1, <2>2, <2>3, <2>4
  <1>3. ASSUME NEW stop \in DynamicStops(t, close) PROVE stop \in Int /\ Tightens(t, stop)
    <2>1. stop = close - t.direction * TrailDistance /\ t.direction * (stop - t.stopLoss) > 0
      BY DEF DynamicStops
    <2>2. stop \in Int /\ t.direction * (stop - t.stopLoss) \in Int
      BY <1>1, <2>1
    <2> QED
      BY <2>1, <2>2 DEF Tightens
  <1> QED
    BY <1>2, <1>3

LEMMA MovedTightens ==
  ASSUME NEW w, SoundWorld(w), NEW stops, NEW accepted,
         \A stop \in stops : stop \in Int /\ Tightens(w.trade, stop)
  PROVE  LET v == Moved(w, stops, accepted)
         IN  /\ SoundWorld(v) /\ v.trade.direction = w.trade.direction
             /\ Tightens(w.trade, v.trade.stopLoss)
  <1>1. w.trade.direction \in {-1, 0, 1} /\ w.trade.stopLoss \in Int
    BY DEF SoundWorld, TradeRecords
  <1>2. Tightens(w.trade, w.trade.stopLoss)
    BY <1>1 DEF Tightens
  <1>3. CASE stops = {}
    BY <1>2, <1>3 DEF Moved
  <1>4. CASE stops # {}
    <2> DEFINE price == CHOOSE stop \in stops : TRUE
    <2>1. price \in stops
      BY <1>4
    <2> HIDE DEF price
    <2>2. price \in Int /\ Tightens(w.trade, price)
      BY <2>1
    <2>3. Moved(w, stops, accepted) = ModifyStopLoss(w, price, "PREVIOUS", accepted)
      BY <1>4 DEF Moved, price
    <2> DEFINE v == ModifyStopLoss(w, price, "PREVIOUS", accepted)
    <2>4. /\ SoundWorld(v) /\ v.trade.direction = w.trade.direction
          /\ v.trade.stopLoss \in {price, w.trade.stopLoss}
      BY <2>2, ModifyStopLossSound
    <2> HIDE DEF v
    <2>5. Tightens(w.trade, v.trade.stopLoss)
      BY <1>2, <2>2, <2>4
    <2> QED
      BY <2>3, <2>4, <2>5 DEF v
  <1> QED
    BY <1>3, <1>4

LEMMA UpdateTightens ==
  ASSUME NEW w, SoundWorld(w), NEW close \in Int, NEW acts, NEW accepts
  PROVE  LET v == UpdateTrade(w, close, acts, accepts)
         IN  /\ SoundWorld(v) /\ v.trade.direction = w.trade.direction
             /\ Tightens(w.trade, v.trade.stopLoss)
  <1> DEFINE u == Moved(w, IF "breakeven" \in acts THEN BreakevenStops(w.trade, close) ELSE {},
                        "breakeven" \in accepts)
             v == Moved(u, IF "trail" \in acts THEN DynamicStops(u.trade, close) ELSE {},
                        "trail" \in accepts)
  <1>1. w.trade \in TradeRecords
    BY DEF SoundWorld
  <1>2. /\ SoundWorld(u) /\ u.trade.direction = w.trade.direction
        /\ Tightens(w.trade, u.trade.stopLoss)
    BY <1>1, PoliciesTighten, MovedTightens
  <1> HIDE DEF u
  <1>3. u.trade \in TradeRecords
    BY <1>2 DEF SoundWorld
  <1>4. /\ SoundWorld(v) /\ v.trade.direction = u.trade.direction
        /\ Tightens(u.trade, v.trade.stopLoss)
    BY <1>2, <1>3, PoliciesTighten, MovedTightens
  <1> HIDE DEF v
  <1>5. /\ w.trade.direction \in {-1, 0, 1} /\ w.trade.stopLoss \in Int
        /\ u.trade.stopLoss \in Int /\ v.trade.stopLoss \in Int
    BY <1>1, <1>3, <1>4 DEF SoundWorld, TradeRecords
  <1>6. Tightens(w.trade, v.trade.stopLoss)
    BY <1>2, <1>4, <1>5 DEF Tightens
  <1> QED
    BY <1>2, <1>4, <1>6 DEF UpdateTrade, u, v

LEMMA ProcessSound ==
  ASSUME SoundWorld(World), Process
  PROVE  SoundWorld(World)' /\ Tightens(trade, trade'.stopLoss)
  <1>0. PICK close \in Prices, acts \in SUBSET Policies, accepted \in BOOLEAN, accepts \in SUBSET Policies :
        LET w == UpdateTrade(World, close, acts, accepts)
        IN  Become(IF StopLossHit(w.trade, close) \/ TakeProfitHit(w.trade, close)
                   THEN Close(w, accepted) ELSE w)
    BY DEF Process
  <1> DEFINE w == UpdateTrade(World, close, acts, accepts)
             v == IF StopLossHit(w.trade, close) \/ TakeProfitHit(w.trade, close)
                  THEN Close(w, accepted) ELSE w
  <1>1. Become(v)
    BY <1>0
  <1>2. close \in Int /\ World.trade = trade
    BY PositionAssumption DEF World
  <1>3. /\ SoundWorld(w) /\ w.trade.direction = World.trade.direction
        /\ Tightens(World.trade, w.trade.stopLoss)
    BY <1>2, UpdateTightens
  <1> HIDE DEF w
  <1>4. SoundWorld(v) /\ SameStop(w, v)
    BY <1>3, CloseSound DEF SameStop
  <1> HIDE DEF v
  <1>5. World' = v
    BY <1>1, <1>4 DEF Become, World, SoundWorld
  <1>6. trade' = v.trade
    BY <1>1 DEF Become
  <1> QED
    BY <1>2, <1>3, <1>4, <1>5, <1>6 DEF SameStop

-----------------------------------------------------------------------------
(* The invariant: the types and the balance are inductive together.        *)

PositionInv == TypeOK /\ BooksBalance

LEMMA PositionInvWorld == PositionInv <=> /\ SoundWorld(World) /\ setting \in Settings
                                          /\ listed \in BOOLEAN /\ faults \subseteq Faults
  BY DEF PositionInv, TypeOK, BooksBalance, SoundWorld, Sound, World

LEMMA PositionInit == Init => PositionInv
  <1> SUFFICES ASSUME Init PROVE PositionInv
    OBVIOUS
  <1>1. trade \in TradeRecords /\ BooksBalance
    <2>1. ResetTrade \in TradeRecords
      BY DEF ResetTrade, TradeRecords, States
    <2>2. ResetTrade.entryQty = 0 /\ ResetTrade.exitQty = 0 /\ ResetTrade.positionQty = 0
      BY DEF ResetTrade
    <2> QED
      BY <2>1, <2>2 DEF Init, BooksBalance
  <1>2. order \in Orders
    BY DEF Init, Orders
  <1>3. position \in Positions
    BY DEF Init, Positions
  <1>4. setting \in Settings /\ listed \in BOOLEAN /\ faults \subseteq Faults
    BY DEF Init
  <1>5. signals = <<>> /\ <<>> \in Seq(Signals)
    BY DEF Init
  <1> QED
    BY <1>1, <1>2, <1>3, <1>4, <1>5 DEF PositionInv, TypeOK

LEMMA BecomeWorld == ASSUME NEW w, SoundWorld(w), Become(w) PROVE SoundWorld(World')
  <1>1. World' = w
    BY DEF Become, World, SoundWorld
  <1> QED
    BY <1>1

(* What the operations of the strategy leave.                              *)
LEMMA StrategyStep ==
  ASSUME PositionInv, Process \/ CloseAll \/ EntryTimeout \/ RemoveTrade \/ Modify
  PROVE  PositionInv'
  <1>1. SoundWorld(World)
    BY PositionInvWorld
  <1>2. UNCHANGED <<setting, listed, faults>>
    BY DEF Process, CloseAll, EntryTimeout, RemoveTrade, Modify
  <1>3. SoundWorld(World)'
    <2>1. CASE Process
      BY <1>1, <2>1, ProcessSound
    <2>2. CASE CloseAll
      <3>1. PICK accepted : Become(IF IsActive(trade) THEN Close(World, accepted) ELSE CancelOpen(World))
        BY <2>2 DEF CloseAll
      <3>2. SoundWorld(Close(World, accepted)) /\ SoundWorld(CancelOpen(World))
        BY <1>1, CloseSound, CancelsSound
      <3> QED
        BY <3>1, <3>2, BecomeWorld
    <2>3. CASE EntryTimeout
      <3>1. Become(CancelOpen(World)) /\ SoundWorld(CancelOpen(World))
        BY <1>1, <2>3, CancelsSound DEF EntryTimeout
      <3> QED
        BY <3>1, BecomeWorld
    <2>4. CASE RemoveTrade
      <3>1. Become(RemoveEntry(World)) /\ SoundWorld(RemoveEntry(World))
        BY <1>1, <2>4, CancelsSound DEF RemoveTrade
      <3> QED
        BY <3>1, BecomeWorld
    <2>5. CASE Modify
      <3>1. PICK mod, accepted :
              \/ \E price \in StopLevels : Become(ModifyStopLoss(World, price, mod, accepted))
              \/ \E price \in LimitLevels : Become(ModifyTakeProfit(World, price, mod, accepted))
        BY <2>5 DEF Modify
      <3>2. \A price \in StopLevels \cup LimitLevels : price \in Int
        BY PositionAssumption
      <3>3. \A price \in Int : SoundWorld(ModifyStopLoss(World, price, mod, accepted))
        BY <1>1, ModifyStopLossSound
      <3>4. \A price \in Int : SoundWorld(ModifyTakeProfit(World, price, mod, accepted))
        BY <1>1, ModifyTakeProfitSound
      <3> QED
        BY <3>1, <3>2, <3>3, <3>4, BecomeWorld
    <2> QED
      BY <2>1, <2>2, <2>3, <2>4, <2>5
  <1> QED
    BY <1>2, <1>3, PositionInvWorld DEF PositionInv, TypeOK, BooksBalance, SoundWorld, Sound, World

LEMMA OpenStep == ASSUME PositionInv, Open PROVE PositionInv'
  <1>1. PICK direction \in Directions, accepted \in BOOLEAN, stop \in StopLevels, limit \in LimitLevels :
          /\ trade' = [trade EXCEPT !.direction = direction, !.orderQuantity = EntrySize,
                         !.stopLoss = stop, !.takeProfit = limit, !.refId = TRUE,
                         !.entryState = IF accepted THEN "UNDEFINED" ELSE "REJECTED"]
          /\ order' = [order EXCEPT !.status = IF accepted THEN "sent" ELSE "none"]
    BY DEF Open
  <1>2. direction \in {-1, 0, 1} /\ EntrySize \in Nat /\ stop \in Int /\ limit \in Int
    BY PositionAssumption
  <1>3. trade' \in TradeRecords /\ BooksBalance'
    BY <1>1, <1>2 DEF PositionInv, TypeOK, BooksBalance, TradeRecords, States
  <1>4. order' \in Orders
    BY <1>1 DEF PositionInv, TypeOK, Orders
  <1> QED
    BY <1>3, <1>4 DEF Open, PositionInv, TypeOK

-----------------------------------------------------------------------------
(* The steps of the broker and of the signals.                             *)

LEMMA PositionNewsType ==
  ASSUME TypeOK, NEW event \in {"OPENED", "UPDATED", "DELETED"}, NEW total \in Nat, NEW traded \in Nat
  PROVE  PositionNews(event, total, traded) \in Signals
  <1>1. OrderNews(event) \in Signals /\ Undefined \in Quantities /\ Undefined \in Int
    BY DEF OrderNews, Signals, Quantities, Undefined
  <1>2. (IF setting.style = "cumulative" THEN total ELSE Undefined) \in Quantities
    BY <1>1 DEF Quantities
  <1>3. (IF setting.style = "filled" /\ total > position.quantity THEN traded ELSE Undefined)
          \in Quantities
    BY <1>1 DEF Quantities
  <1>4. (IF setting.averages THEN FillPrice ELSE Undefined) \in Int /\ FillPrice \in Int
    BY <1>1, PositionAssumption
  <1>5. total \in Quantities
    BY DEF Quantities
  <1> HIDE DEF OrderNews
  <1>6. \A c, f \in Quantities, a \in Int :
          [OrderNews(event) EXCEPT !.kind = "position", !.cum = c, !.filled = f, !.quantity = total,
                                   !.avgPrice = a, !.execPrice = FillPrice] \in Signals
    BY <1>1, <1>4, <1>5 DEF Signals
  <1> QED
    BY <1>2, <1>3, <1>4, <1>6 DEF PositionNews

LEMMA BrokerStep ==
  ASSUME PositionInv, Accept \/ EndOrder \/ Fill \/ CloseAsked \/ LevelHit
  PROVE  PositionInv'
  <1>1. /\ order \in Orders /\ position \in Positions /\ signals \in Seq(Signals)
        /\ position.quantity \in Nat /\ order.exec \in Nat
    BY DEF PositionInv, TypeOK, Orders, Positions
  <1>2. ASSUME NEW event \in {"OPENED", "REJECTED", "CANCELED", "DELETED"}
        PROVE  OrderNews(event) \in Signals
    BY DEF OrderNews, Signals, Quantities, Undefined
  <1>3. ASSUME NEW s \in Signals PROVE Append(signals, s) \in Seq(Signals)
    BY <1>1
  <1>4. UNCHANGED <<setting, trade, listed, faults>>
    BY DEF Accept, EndOrder, Fill, CloseAsked, LevelHit, Reduced
  <1>5. order' \in Orders /\ position' \in Positions /\ signals' \in Seq(Signals)
    <2>1. CASE Accept
      BY <1>1, <1>2, <1>3, <2>1 DEF Accept, Orders
    <2>2. CASE EndOrder
      <3>1. PICK event \in {"REJECTED", "CANCELED", "DELETED"} :
              signals' = Append(signals, OrderNews(event))
        BY <2>2 DEF EndOrder
      <3>2. order' \in Orders /\ position' = position
        BY <1>1, <2>2 DEF EndOrder, Orders
      <3> QED
        BY <1>1, <1>2, <1>3, <3>1, <3>2
    <2>3. CASE Fill
      <3>1. PICK q \in 1..(EntrySize - order.exec) :
              LET full  == order.exec + q = EntrySize
                  total == position.quantity + q
                  news  == PositionNews(IF position.status = "none" THEN "OPENED" ELSE "UPDATED", total, q)
              IN  /\ order' = [order EXCEPT !.exec = order.exec + q,
                                            !.status = IF full THEN "done" ELSE "working"]
                  /\ position' = [position EXCEPT !.status = "open", !.quantity = total]
                  /\ signals' = signals \o (IF full THEN <<news, OrderNews("DELETED")>> ELSE <<news>>)
        BY <2>3 DEF Fill
      <3> DEFINE total == position.quantity + q
                 event == IF position.status = "none" THEN "OPENED" ELSE "UPDATED"
                 news  == PositionNews(event, total, q)
                 sent  == IF order.exec + q = EntrySize THEN <<news, OrderNews("DELETED")>> ELSE <<news>>
      <3>2. q \in Nat /\ total \in Nat /\ order.exec + q \in Nat
        BY <1>1, PositionAssumption
      <3>3. order' \in Orders /\ position' \in Positions
        BY <1>1, <3>1, <3>2 DEF Orders, Positions
      <3>4. news \in Signals
        BY <3>2, PositionNewsType DEF PositionInv
      <3>5. OrderNews("DELETED") \in Signals /\ signals' = signals \o sent
        BY <1>2, <3>1
      <3> HIDE DEF news, OrderNews
      <3>6. sent \in Seq(Signals)
        BY <3>4, <3>5
      <3> HIDE DEF sent
      <3> QED
        BY <1>1, <3>3, <3>5, <3>6
    <2>4. ASSUME NEW q \in 0..position.quantity, Reduced(q)
          PROVE  order' \in Orders /\ position' \in Positions /\ signals' \in Seq(Signals)
      <3> DEFINE rest == position.quantity - q
                 event == IF rest = 0 THEN "DELETED" ELSE "UPDATED"
                 news == PositionNews(event, rest, q)
      <3>1. q \in Nat /\ rest \in Nat
        BY <1>1
      <3>2. news \in Signals
        BY <3>1, PositionNewsType DEF PositionInv
      <3>3. signals' = Append(signals, news) /\ order' = order
        BY <2>4 DEF Reduced
      <3>4. position' \in Positions
        <4>1. position.sold + q \in Nat /\ (IF position.asked > q THEN position.asked - q ELSE 0) \in Nat
          BY <1>1, <3>1 DEF Positions
        <4> QED
          BY <1>1, <2>4, <3>1, <4>1 DEF Reduced, Positions
      <3> QED
        BY <1>1, <1>3, <3>2, <3>3, <3>4
    <2>5. CASE CloseAsked
      BY <1>1, <2>4, <2>5 DEF CloseAsked
    <2>6. CASE LevelHit
      BY <1>1, <2>4, <2>6 DEF LevelHit
    <2> QED
      BY <2>1, <2>2, <2>3, <2>5, <2>6
  <1> QED
    BY <1>4, <1>5 DEF PositionInv, TypeOK, BooksBalance

LEMMA SignalStep ==
  ASSUME PositionInv, Deliver \/ DeliverAgain \/ Lose
  PROVE  PositionInv'
  <1>1. signals \in Seq(Signals) /\ Sound(trade)
    BY DEF PositionInv, TypeOK, BooksBalance, Sound
  <1>2. ASSUME NEW i \in DOMAIN signals
        PROVE  /\ Sound(Handled(trade, signals[i]))
               /\ RemoveAt(signals, i) \in Seq(Signals)
    <2>1. signals[i] \in Signals
      BY <1>1
    <2>2. RemoveAt(signals, i) \in Seq(Signals)
      <3>1. i \in 1..Len(signals)
        BY <1>1
      <3>2. SubSeq(signals, 1, i - 1) \in Seq(Signals) /\ SubSeq(signals, i + 1, Len(signals)) \in Seq(Signals)
        BY <1>1, <3>1, SubSeqProperties
      <3> QED
        BY <3>2 DEF RemoveAt
    <2> QED
      BY <1>1, <2>1, <2>2, HandledSound
  <1>3. /\ trade' = trade \/ \E i \in DOMAIN signals : trade' = Handled(trade, signals[i])
        /\ signals' = signals \/ \E i \in DOMAIN signals : signals' = RemoveAt(signals, i)
        /\ faults' \subseteq Faults /\ UNCHANGED <<setting, listed, order, position>>
    BY DEF Deliver, DeliverAgain, Lose, Deliverable, Fault, PositionInv, TypeOK
  <1>4. Sound(trade') /\ signals' \in Seq(Signals)
    BY <1>1, <1>2, <1>3
  <1> QED
    BY <1>3, <1>4 DEF PositionInv, TypeOK, BooksBalance, Sound

LEMMA PositionStep == ASSUME PositionInv, [Next]_vars PROVE PositionInv'
  <1>1. CASE Purge
    BY <1>1 DEF Purge, PositionInv, TypeOK, BooksBalance
  <1>2. CASE UNCHANGED vars
    BY <1>2 DEF vars, PositionInv, TypeOK, BooksBalance
  <1> QED
    BY <1>1, <1>2, StrategyStep, OpenStep, BrokerStep, SignalStep DEF Next

-----------------------------------------------------------------------------
(* The theorems.                                                           *)

LEMMA PositionInvariant == Spec => []PositionInv
  BY PositionInit, PositionStep, PTL DEF Spec

\* The types of PositionTrade: a position quantity of the trade is never negative.
THEOREM PositionTypes == Spec => []TypeOK
  <1>1. PositionInv => TypeOK
    BY DEF PositionInv
  <1> QED
    BY <1>1, PositionInvariant, PTL

\* entryQty, exitQty and positionQty, which three branches of positionSignal()
\* change by differences, agree whatever signals a trade is given or misses.
THEOREM BooksAlwaysBalance == Spec => []BooksBalance
  <1>1. PositionInv => BooksBalance
    BY DEF PositionInv
  <1> QED
    BY <1>1, PositionInvariant, PTL

\* process() never loosens a stop-loss, for every distance and offset of the
\* breakeven and of the dynamic stop, every price and every answer of the broker.
THEOREM StopsTighten == Spec => StopTightens
  <1>1. ASSUME PositionInv
        PROVE  [trade.direction * (trade'.stopLoss - trade.stopLoss) < 0 => ~Process]_vars
    <2> SUFFICES ASSUME Process
                 PROVE  ~ trade.direction * (trade'.stopLoss - trade.stopLoss) < 0
      OBVIOUS
    <2>1. SoundWorld(World)
      BY <1>1, PositionInvWorld
    <2>2. SoundWorld(World)' /\ Tightens(trade, trade'.stopLoss)
      BY <2>1, ProcessSound
    <2>3. trade \in TradeRecords /\ trade' \in TradeRecords
      BY <2>1, <2>2 DEF SoundWorld, World
    <2>4. trade.direction \in Int /\ trade.stopLoss \in Int /\ trade'.stopLoss \in Int
      BY <2>3 DEF TradeRecords
    <2>5. trade.direction * (trade'.stopLoss - trade.stopLoss) \in Int
      BY <2>4
    <2> QED
      BY <2>2, <2>5 DEF Tightens
  <1> QED
    BY <1>1, PositionInvariant, PTL DEF StopTightens

-----------------------------------------------------------------------------
(* What the signals change of the quantities of the trade.                 *)

SameBooks(t, u) ==
  /\ u.entryQty = t.entryQty /\ u.exitQty = t.exitQty /\ u.positionQty = t.positionQty
  /\ u.positionId = t.positionId /\ u.direction = t.direction

Reports(s) == s.kind = "position" /\ s.event # "AMENDED"
Ends(s) == s.kind = "order" /\ s.event \in {"DELETED", "CANCELED"}

LEMMA OrderSignalBooks ==
  ASSUME NEW t \in TradeRecords, NEW s \in Signals, s.kind = "order"
  PROVE  /\ SameBooks(t, OrderSignal(t, s))
         /\ ~Ends(s) => OrderSignal(t, s).refId = t.refId
  <1>1. SameBooks(t, OrderOpened(t)) /\ OrderOpened(t).refId = t.refId
    BY DEF SameBooks, OrderOpened, TradeRecords
  <1>2. ASSUME NEW state PROVE SameBooks(t, OrderEnded(t, state))
    BY DEF SameBooks, OrderEnded, Forgotten, TradeRecords
  <1>3. SameBooks(t, t)
    BY DEF SameBooks
  <1> QED
    BY <1>1, <1>2, <1>3 DEF OrderSignal, Ends

LEMMA LevelsBooks ==
  ASSUME NEW t \in TradeRecords, NEW s
  PROVE  /\ SameBooks(t, WithLevels(t, s)) /\ WithLevels(t, s).refId = t.refId
         /\ WithLevels(t, s).entryQty = t.entryQty
  BY DEF SameBooks, WithLevels, TradeRecords

LEMMA IncreasedBooks ==
  ASSUME NEW t, Sound(t), NEW qty \in Nat, NEW price
  PROVE  LET a == [Increased(t, qty) EXCEPT !.positionQty = qty, !.entryPrice = price]
             b == [[Increased(t, qty) EXCEPT !.entryPrice = price] EXCEPT !.positionQty = qty]
         IN  /\ a.entryQty = t.exitQty + qty /\ b.entryQty = t.exitQty + qty
             /\ a.exitQty = t.exitQty /\ b.exitQty = t.exitQty
             /\ a.positionQty = qty /\ b.positionQty = qty
             /\ a.positionId = t.positionId /\ b.positionId = t.positionId
             /\ a.direction = t.direction /\ b.direction = t.direction
  <1> DEFINE filled == t.entryQty + (qty - t.positionQty)
             v == Increased(t, qty)
  <1>1. t.entryQty \in Int /\ t.exitQty \in Int /\ t.positionQty \in Nat /\ t \in TradeRecords
    BY DEF Sound, TradeRecords
  <1>2. filled = t.exitQty + qty
    BY <1>1 DEF Sound
  <1>3. /\ v.entryQty = filled /\ v.exitQty = t.exitQty /\ v.direction = t.direction
        /\ v.positionId = t.positionId
    BY <1>1 DEF Increased, Forgotten, TradeRecords
  <1>4. DOMAIN v = DOMAIN t /\ DOMAIN t = DOMAIN ResetTrade
    BY <1>1 DEF Increased, Forgotten, TradeRecords, ResetTrade
  <1>5. \A f \in {"positionQty", "entryPrice", "entryQty", "exitQty", "positionId", "direction"} :
           f \in DOMAIN v
    BY <1>4 DEF ResetTrade
  <1> HIDE DEF filled, v
  <1> QED
    BY <1>2, <1>3, <1>5 DEF v

LEMMA OpenedBooks ==
  ASSUME NEW t, Sound(t), NEW s \in Signals
  PROVE  LET u == PositionOpened(t, s)
             qty == OpenedQty(s)
         IN  /\ u.positionId /\ u.direction = t.direction /\ u.exitQty = t.exitQty
             /\ qty > 0 => u.entryQty = t.exitQty + qty /\ u.positionQty = qty
             /\ qty = 0 => u.entryQty = t.entryQty /\ u.positionQty = t.positionQty
  <1> DEFINE o == [t EXCEPT !.positionId = TRUE, !.entryState = "OPENED"]
             u == WithLevels(o, s)
             qty == OpenedQty(s)
             price == OpenedPrice(t, s)
  <1>1. Sound(o) /\ o.positionId /\ o.direction = t.direction /\ o.exitQty = t.exitQty
          /\ o.entryQty = t.entryQty /\ o.positionQty = t.positionQty
    BY DEF Sound, TradeRecords, States
  <1> HIDE DEF o
  <1>2. Sound(u) /\ SameBooks(o, u)
    BY <1>1, LevelsSound, LevelsBooks DEF Sound
  <1>3. qty \in Nat
    BY QuantityTypes
  <1> HIDE DEF u, qty, price
  <1>4. qty > 0 => PositionOpened(t, s)
                     = [Increased(u, qty) EXCEPT !.positionQty = qty, !.entryPrice = price]
    BY <1>3 DEF PositionOpened, o, u, qty, price
  <1>5. qty = 0 => PositionOpened(t, s) = u
    BY <1>3 DEF PositionOpened, o, u, qty, price
  <1> DEFINE a == [Increased(u, qty) EXCEPT !.positionQty = qty, !.entryPrice = price]
  <1>6. /\ a.entryQty = u.exitQty + qty /\ a.exitQty = u.exitQty
        /\ a.positionQty = qty /\ a.positionId = u.positionId /\ a.direction = u.direction
    BY <1>2, <1>3, IncreasedBooks
  <1> DEFINE v == PositionOpened(t, s)
  <1>7. (qty > 0 => v = a) /\ (qty = 0 => v = u) /\ (qty > 0 \/ qty = 0)
    BY <1>3, <1>4, <1>5
  <1> HIDE DEF a, v
  <1>8. v = a \/ v = u
    BY <1>7
  <1>9. v.positionId /\ v.direction = t.direction
    BY <1>1, <1>2, <1>6, <1>8, Zenon DEF SameBooks
  <1>10. v.exitQty = t.exitQty
    BY <1>1, <1>2, <1>6, <1>8, Zenon DEF SameBooks
  <1>11. qty > 0 => v.entryQty = t.exitQty + qty /\ v.positionQty = qty
    BY <1>1, <1>2, <1>6, <1>7, Zenon DEF SameBooks
  <1>12. qty = 0 => v.entryQty = t.entryQty /\ v.positionQty = t.positionQty
    BY <1>1, <1>2, <1>7, Zenon DEF SameBooks
  <1> QED
    BY <1>9, <1>10, <1>11, <1>12 DEF v, qty

LEMMA UpdatedBooks ==
  ASSUME NEW t, Sound(t), NEW s \in Signals
  PROVE  LET u == PositionUpdated(t, s)
             qty == UpdatedQty(t, s)
         IN  /\ u.positionId = t.positionId /\ u.direction = t.direction /\ u.positionQty = qty
             /\ qty < t.positionQty => u.entryQty = t.entryQty /\ u.exitQty = t.entryQty - qty
             /\ qty > t.positionQty => u.entryQty = t.exitQty + qty /\ u.exitQty = t.exitQty
             /\ qty = t.positionQty => u.entryQty = t.entryQty /\ u.exitQty = t.exitQty
  <1> DEFINE u == WithLevels(t, s)
             qty == UpdatedQty(t, s)
             price == MeanPrice(t, s, qty)
  <1>1. Sound(u) /\ SameBooks(t, u) /\ qty \in Nat
    BY LevelsSound, LevelsBooks, QuantityTypes DEF Sound
  <1>2. t.positionQty \in Nat /\ t.entryQty \in Int /\ t.exitQty \in Int
    BY DEF Sound, TradeRecords
  <1> HIDE DEF u, qty, price
  <1>3. LET b == [[Increased(u, qty) EXCEPT !.entryPrice = price] EXCEPT !.positionQty = qty]
        IN  /\ b.entryQty = u.exitQty + qty /\ b.exitQty = u.exitQty
            /\ b.positionQty = qty /\ b.positionId = u.positionId /\ b.direction = u.direction
    BY <1>1, IncreasedBooks
  <1>4. LET c == [Decreased(u, qty) EXCEPT !.positionQty = qty]
        IN  /\ c.entryQty = u.entryQty /\ c.exitQty = u.exitQty + (u.positionQty - qty)
            /\ c.positionQty = qty /\ c.positionId = u.positionId /\ c.direction = u.direction
    BY <1>1 DEF Decreased, Sound, TradeRecords
  <1>5. LET d == [u EXCEPT !.positionQty = qty]
        IN  /\ d.entryQty = u.entryQty /\ d.exitQty = u.exitQty
            /\ d.positionQty = qty /\ d.positionId = u.positionId /\ d.direction = u.direction
    BY <1>1 DEF Sound, TradeRecords
  <1>6. u.exitQty + (u.positionQty - qty) = t.entryQty - qty
    BY <1>1, <1>2 DEF Sound, SameBooks
  <1>7. CASE qty < t.positionQty
    <2>1. PositionUpdated(t, s) = [Decreased(u, qty) EXCEPT !.positionQty = qty]
      BY <1>7 DEF PositionUpdated, u, qty
    <2> QED
      BY <1>1, <1>2, <1>4, <1>6, <1>7, <2>1 DEF SameBooks, qty
  <1>8. CASE qty > t.positionQty
    <2>0. ~ qty < t.positionQty
      BY <1>1, <1>2, <1>8
    <2>1. PositionUpdated(t, s)
            = [[Increased(u, qty) EXCEPT !.entryPrice = price] EXCEPT !.positionQty = qty]
      BY <1>8, <2>0, Zenon DEF PositionUpdated, u, qty, price
    <2> QED
      BY <1>1, <1>2, <1>3, <1>8, <2>1 DEF SameBooks, qty
  <1>9. CASE qty = t.positionQty
    <2>1. PositionUpdated(t, s) = [u EXCEPT !.positionQty = qty]
      BY <1>1, <1>2, <1>9 DEF PositionUpdated, u, qty
    <2> QED
      BY <1>1, <1>2, <1>5, <1>9, <2>1 DEF SameBooks, qty
  <1> QED
    BY <1>1, <1>2, <1>7, <1>8, <1>9

LEMMA DeletedBooks ==
  ASSUME NEW t, Sound(t)
  PROVE  LET u == PositionDeleted(t)
         IN  /\ ~u.positionId /\ u.direction = t.direction /\ u.positionQty = 0
             /\ u.entryQty = t.entryQty
             /\ u.exitQty = IF t.exitQty < t.entryQty THEN t.entryQty ELSE t.exitQty
  BY DEF PositionDeleted, Forgotten, Sound, TradeRecords

-----------------------------------------------------------------------------
(* What the operations of the strategy leave alone: the books, the reports *)
(* on their way and, unless they revoke the entry, the order.              *)

Extends(r, s) == Len(r) <= Len(s) /\ \A i \in 1..Len(r) : s[i] = r[i]

Calm(w, v) ==
  /\ SameBooks(w.trade, v.trade)
  /\ v.order.exec = w.order.exec /\ v.position.status = w.position.status
  /\ v.position.quantity = w.position.quantity /\ v.position.sold = w.position.sold
  /\ Extends(w.signals, v.signals)
  /\ \A i \in 1..Len(v.signals) : i > Len(w.signals) => ~Reports(v.signals[i])
  /\ w.order.revoked => v.order.revoked
  /\ \/ v.order.revoked
     \/ /\ v.order.status = w.order.status /\ v.trade.refId = w.trade.refId
        /\ \A i \in 1..Len(v.signals) : i > Len(w.signals) => ~Ends(v.signals[i])

LEMMA CalmSelf == ASSUME NEW w PROVE Calm(w, w)
  BY DEF Calm, SameBooks, Extends

LEMMA CalmTransitive ==
  ASSUME NEW u \in Worlds, NEW v \in Worlds, NEW w \in Worlds, Calm(u, v), Calm(v, w)
  PROVE  Calm(u, w)
  <1>1. Len(u.signals) \in Nat /\ Len(v.signals) \in Nat /\ Len(w.signals) \in Nat
    BY DEF Worlds
  <1>2. SameBooks(u.trade, w.trade)
    BY DEF Calm, SameBooks
  <1>3. Extends(u.signals, w.signals)
    BY <1>1 DEF Calm, Extends
  <1>4. ASSUME NEW i \in 1..Len(w.signals), i > Len(u.signals)
        PROVE  /\ ~Reports(w.signals[i])
               /\ ~w.order.revoked => ~Ends(w.signals[i])
    <2>1. CASE i > Len(v.signals)
      BY <1>4, <2>1 DEF Calm
    <2>2. CASE i \in 1..Len(v.signals)
      <3>1. w.signals[i] = v.signals[i]
        BY <2>2 DEF Calm, Extends
      <3> QED
        BY <1>4, <2>2, <3>1 DEF Calm
    <2> QED
      BY <1>1, <2>1, <2>2
  <1>5. w.order.revoked \/ (w.order.status = u.order.status /\ w.trade.refId = u.trade.refId)
    BY DEF Calm
  <1> QED
    BY <1>2, <1>3, <1>4, <1>5 DEF Calm

(* One signal more that is no report.                                      *)
LEMMA OneMore ==
  ASSUME NEW r \in Seq(Signals), NEW s \in Signals, ~Reports(s)
  PROVE  LET a == Append(r, s)
         IN  /\ Extends(r, a)
             /\ \A i \in 1..Len(a) : i > Len(r) => ~Reports(a[i])
             /\ ~Ends(s) => \A i \in 1..Len(a) : i > Len(r) => ~Ends(a[i])
  <1> DEFINE a == Append(r, s)
  <1>1. Len(a) = Len(r) + 1 /\ a[Len(r) + 1] = s /\ Len(r) \in Nat
        /\ \A i \in 1..Len(r) : a[i] = r[i]
    OBVIOUS
  <1>2. \A i \in 1..Len(a) : i > Len(r) => i = Len(r) + 1
    BY <1>1
  <1> HIDE DEF a
  <1>3. Extends(r, a)
    BY <1>1 DEF Extends
  <1> QED
    BY <1>1, <1>2, <1>3 DEF a

LEMMA CanceledCalm ==
  ASSUME NEW w, SoundWorld(w), NEW state \in States
  PROVE  Calm(w, Canceled(w, state))
  <1> DEFINE v == Canceled(w, state)
             news == OrderNews("CANCELED")
             a == Append(w.signals, news)
  <1>1. w \in Worlds /\ w.signals \in Seq(Signals) /\ news \in Signals
    BY NewsTypes DEF SoundWorld, Worlds
  <1>2. ~Reports(news)
    BY DEF Reports, OrderNews
  <1> HIDE DEF news
  <1>3. /\ Extends(w.signals, a)
        /\ \A i \in 1..Len(a) : i > Len(w.signals) => ~Reports(a[i])
    BY <1>1, <1>2, OneMore
  <1> HIDE DEF a
  <1>4. /\ v.order = [w.order EXCEPT !.status = "done", !.revoked = TRUE]
        /\ v.position = w.position
        /\ v.trade = [Forgotten(w.trade) EXCEPT !.entryState = state]
        /\ v.signals = a
    BY <1>1 DEF Canceled, Worlds, a, news
  <1>5. v.order.revoked /\ v.order.exec = w.order.exec
    BY <1>1, <1>4 DEF Worlds, Orders
  <1>6. SameBooks(w.trade, v.trade)
    BY <1>1, <1>4 DEF SameBooks, Forgotten, Worlds, TradeRecords
  <1> HIDE DEF v
  <1> QED
    BY <1>3, <1>4, <1>5, <1>6 DEF Calm, v

LEMMA CancelsCalm ==
  ASSUME NEW w, SoundWorld(w)
  PROVE  Calm(w, CancelEntry(w)) /\ Calm(w, CancelOpen(w)) /\ Calm(w, RemoveEntry(w))
  <1>1. "CANCELED" \in States /\ "FILLED" \in States
    BY DEF States
  <1>2. Calm(w, w) /\ Calm(w, Canceled(w, "CANCELED")) /\ Calm(w, Canceled(w, "FILLED"))
    BY <1>1, CalmSelf, CanceledCalm
  <1>3. CancelEntry(w) \in {w, Canceled(w, "CANCELED")}
    BY DEF CancelEntry
  <1>4. CancelOpen(w) \in {w, Canceled(w, "CANCELED")}
    BY <1>3 DEF CancelOpen
  <1>5. RemoveEntry(w) \in {w, Canceled(w, "CANCELED"), Canceled(w, "FILLED")}
    BY DEF RemoveEntry
  <1> QED
    BY <1>2, <1>3, <1>4, <1>5

LEMMA CloseCalm ==
  ASSUME NEW w, SoundWorld(w), NEW accepted
  PROVE  Calm(w, Close(w, accepted))
  <1> DEFINE u == CancelEntry(w)
             v == [u EXCEPT !.trade = [u.trade EXCEPT !.closing = TRUE],
                            !.position = [u.position EXCEPT !.asked = u.trade.positionQty]]
  <1>1. SoundWorld(u) /\ Calm(w, u) /\ Calm(w, w)
    BY CancelsSound, CancelsCalm, CalmSelf
  <1>2. Close(w, accepted) \in {w, u, v}
    BY DEF Close
  <1> HIDE DEF u
  <1>3. u \in Worlds /\ u.trade \in TradeRecords /\ u.position \in Positions
    BY <1>1 DEF SoundWorld, Worlds
  <1>4. /\ v.order = u.order /\ v.signals = u.signals
        /\ v.trade = [u.trade EXCEPT !.closing = TRUE]
        /\ v.position = [u.position EXCEPT !.asked = u.trade.positionQty]
    BY <1>3 DEF Worlds
  <1> HIDE DEF v
  <1>5. SameBooks(u.trade, v.trade) /\ v.trade.refId = u.trade.refId
    BY <1>3, <1>4 DEF SameBooks, TradeRecords
  <1>6. /\ v.position.status = u.position.status /\ v.position.quantity = u.position.quantity
        /\ v.position.sold = u.position.sold
    BY <1>3, <1>4 DEF Positions
  <1>7. SameBooks(w.trade, v.trade)
    BY <1>1, <1>5 DEF Calm, SameBooks
  <1>8. Calm(w, v)
    BY <1>1, <1>4, <1>5, <1>6, <1>7 DEF Calm
  <1> QED
    BY <1>1, <1>2, <1>8

LEMMA ModifiedCalm ==
  ASSUME NEW w, SoundWorld(w), NEW stop \in Int, NEW limit \in Int
  PROVE  Calm(w, Modified(w, stop, limit))
  <1> DEFINE v == Modified(w, stop, limit)
             news == Amended(stop, limit)
             a == Append(w.signals, news)
  <1>1. w \in Worlds /\ w.signals \in Seq(Signals) /\ news \in Signals
    BY NewsTypes DEF SoundWorld, Worlds
  <1>2. ~Reports(news) /\ ~Ends(news)
    BY DEF Reports, Ends, Amended, OrderNews
  <1> HIDE DEF news
  <1>3. /\ Extends(w.signals, a)
        /\ \A i \in 1..Len(a) : i > Len(w.signals) => ~Reports(a[i]) /\ ~Ends(a[i])
    BY <1>1, <1>2, OneMore
  <1> HIDE DEF a
  <1>4. /\ v.order = w.order /\ v.trade = w.trade /\ v.signals = a
        /\ v.position = [w.position EXCEPT !.stop = stop, !.limit = limit]
    BY <1>1 DEF Modified, Worlds, a, news
  <1>5. /\ v.position.status = w.position.status /\ v.position.quantity = w.position.quantity
        /\ v.position.sold = w.position.sold
    BY <1>1, <1>4 DEF Worlds, Positions
  <1>6. SameBooks(w.trade, v.trade)
    BY <1>4 DEF SameBooks
  <1> HIDE DEF v
  <1> QED
    BY <1>3, <1>4, <1>5, <1>6 DEF Calm, v

(* A level of the trade is none of its books.                              *)
LEMMA LevelCalm ==
  ASSUME NEW w, NEW u, SoundWorld(u), Calm(w, u), NEW price
  PROVE  /\ Calm(w, [u EXCEPT !.trade.stopLoss = price])
         /\ Calm(w, [u EXCEPT !.trade.takeProfit = price])
         /\ Calm(w, [u EXCEPT !.trade.positionStop = price])
         /\ Calm(w, [u EXCEPT !.trade.positionLimit = price])
  <1>1. u \in Worlds /\ u.trade \in TradeRecords
    BY DEF SoundWorld, Worlds
  <1>2. ASSUME NEW v, v.order = u.order, v.position = u.position, v.signals = u.signals,
               SameBooks(u.trade, v.trade), v.trade.refId = u.trade.refId
        PROVE  Calm(w, v)
    <2>1. SameBooks(w.trade, v.trade)
      BY <1>2 DEF Calm, SameBooks
    <2> QED
      BY <1>2, <2>1 DEF Calm
  <1>3. ASSUME NEW v \in {[u EXCEPT !.trade.stopLoss = price], [u EXCEPT !.trade.takeProfit = price],
                          [u EXCEPT !.trade.positionStop = price], [u EXCEPT !.trade.positionLimit = price]}
        PROVE  Calm(w, v)
    <2>1. v.order = u.order /\ v.position = u.position /\ v.signals = u.signals
      BY <1>1 DEF Worlds
    <2>2. SameBooks(u.trade, v.trade) /\ v.trade.refId = u.trade.refId
      BY <1>1 DEF Worlds, SameBooks, TradeRecords
    <2> QED
      BY <1>2, <2>1, <2>2
  <1> QED
    BY <1>3

LEMMA ModifyCalm ==
  ASSUME NEW w, SoundWorld(w), NEW price \in Int, NEW mod, NEW accepted
  PROVE  /\ Calm(w, ModifyStopLoss(w, price, mod, accepted))
         /\ Calm(w, ModifyTakeProfit(w, price, mod, accepted))
  <1>1. w.trade \in TradeRecords /\ w.trade.positionLimit \in Int /\ w.trade.positionStop \in Int
    BY DEF SoundWorld, TradeRecords
  <1>2. Calm(w, w)
    BY CalmSelf
  <1>3. Calm(w, ModifyStopLoss(w, price, mod, accepted))
    <2> DEFINE m == Modified(w, price, w.trade.positionLimit)
               s == [m EXCEPT !.trade.positionStop = price]
    <2>1. ModifyStopLoss(w, price, mod, accepted) \in
            {w, [w EXCEPT !.trade.stopLoss = price], [s EXCEPT !.trade.stopLoss = price]}
      BY DEF ModifyStopLoss
    <2>2. SoundWorld(m) /\ Calm(w, m)
      BY <1>1, ModifiedSound, ModifiedCalm
    <2> HIDE DEF m
    <2>3. SoundWorld(s)
      BY <2>2 DEF SoundWorld, Sound, TradeRecords
    <2>4. Calm(w, s)
      BY <2>2, LevelCalm
    <2> HIDE DEF s
    <2>5. Calm(w, [w EXCEPT !.trade.stopLoss = price]) /\ Calm(w, [s EXCEPT !.trade.stopLoss = price])
      BY <1>2, <2>3, <2>4, LevelCalm
    <2> QED
      BY <1>2, <2>1, <2>5
  <1>4. Calm(w, ModifyTakeProfit(w, price, mod, accepted))
    <2> DEFINE m == Modified(w, w.trade.positionStop, price)
               s == [m EXCEPT !.trade.positionLimit = price]
    <2>1. ModifyTakeProfit(w, price, mod, accepted) \in
            {w, [w EXCEPT !.trade.takeProfit = price], [s EXCEPT !.trade.takeProfit = price]}
      BY DEF ModifyTakeProfit
    <2>2. SoundWorld(m) /\ Calm(w, m)
      BY <1>1, ModifiedSound, ModifiedCalm
    <2> HIDE DEF m
    <2>3. SoundWorld(s)
      BY <2>2 DEF SoundWorld, Sound, TradeRecords
    <2>4. Calm(w, s)
      BY <2>2, LevelCalm
    <2> HIDE DEF s
    <2>5. Calm(w, [w EXCEPT !.trade.takeProfit = price]) /\ Calm(w, [s EXCEPT !.trade.takeProfit = price])
      BY <1>2, <2>3, <2>4, LevelCalm
    <2> QED
      BY <1>2, <2>1, <2>5
  <1> QED
    BY <1>3, <1>4

LEMMA UpdateCalm ==
  ASSUME NEW w, SoundWorld(w), NEW close \in Int, NEW acts, NEW accepts
  PROVE  Calm(w, UpdateTrade(w, close, acts, accepts))
  <1>1. ASSUME NEW u, SoundWorld(u), NEW stops, NEW accepted, \A stop \in stops : stop \in Int
        PROVE  Calm(u, Moved(u, stops, accepted))
    <2>1. stops # {} => (CHOOSE stop \in stops : TRUE) \in Int
      BY <1>1
    <2> QED
      BY <1>1, <2>1, CalmSelf, ModifyCalm DEF Moved
  <1> DEFINE u == Moved(w, IF "breakeven" \in acts THEN BreakevenStops(w.trade, close) ELSE {},
                        "breakeven" \in accepts)
             v == Moved(u, IF "trail" \in acts THEN DynamicStops(u.trade, close) ELSE {},
                        "trail" \in accepts)
  <1>2. w.trade \in TradeRecords
    BY DEF SoundWorld
  <1>3. SoundWorld(u) /\ Calm(w, u)
    BY <1>1, <1>2, PoliciesTighten, MovedTightens
  <1> HIDE DEF u
  <1>4. u.trade \in TradeRecords
    BY <1>3 DEF SoundWorld
  <1>5. SoundWorld(v) /\ Calm(u, v)
    BY <1>1, <1>3, <1>4, PoliciesTighten, MovedTightens
  <1> HIDE DEF v
  <1>6. Calm(w, v)
    BY <1>3, <1>5, CalmTransitive DEF SoundWorld, Worlds
  <1> QED
    BY <1>6 DEF UpdateTrade, u, v

LEMMA StrategyCalm ==
  ASSUME PositionInv, Process \/ CloseAll \/ EntryTimeout \/ RemoveTrade \/ Modify
  PROVE  Calm(World, World')
  <1>1. SoundWorld(World) /\ World.trade = trade
    BY PositionInvWorld DEF World
  <1>2. ASSUME NEW w, SoundWorld(w), Calm(World, w), Become(w)
        PROVE  Calm(World, World')
    <2>1. World' = w
      BY <1>2 DEF Become, World, SoundWorld
    <2> QED
      BY <1>2, <2>1
  <1>3. CASE Process
    <2>0. PICK close \in Prices, acts \in SUBSET Policies, accepted \in BOOLEAN, accepts \in SUBSET Policies :
          LET w == UpdateTrade(World, close, acts, accepts)
          IN  Become(IF StopLossHit(w.trade, close) \/ TakeProfitHit(w.trade, close)
                     THEN Close(w, accepted) ELSE w)
      BY <1>3 DEF Process
    <2> DEFINE w == UpdateTrade(World, close, acts, accepts)
               v == IF StopLossHit(w.trade, close) \/ TakeProfitHit(w.trade, close)
                    THEN Close(w, accepted) ELSE w
    <2>1. Become(v)
      BY <2>0
    <2>2. close \in Int
      BY PositionAssumption
    <2>3. SoundWorld(w) /\ Calm(World, w)
      BY <1>1, <2>2, UpdateTightens, UpdateCalm
    <2> HIDE DEF w
    <2>4. SoundWorld(v) /\ Calm(w, v)
      BY <2>3, CloseSound, CloseCalm, CalmSelf
    <2> HIDE DEF v
    <2>5. Calm(World, v)
      BY <1>1, <2>3, <2>4, CalmTransitive DEF SoundWorld, Worlds
    <2> QED
      BY <1>2, <2>1, <2>4, <2>5
  <1>4. CASE CloseAll
    <2>1. PICK accepted : Become(IF IsActive(trade) THEN Close(World, accepted) ELSE CancelOpen(World))
      BY <1>4 DEF CloseAll
    <2>2. /\ SoundWorld(Close(World, accepted)) /\ SoundWorld(CancelOpen(World))
          /\ Calm(World, Close(World, accepted)) /\ Calm(World, CancelOpen(World))
      BY <1>1, CloseSound, CancelsSound, CloseCalm, CancelsCalm
    <2> QED
      BY <1>2, <2>1, <2>2
  <1>5. CASE EntryTimeout
    <2>1. SoundWorld(CancelOpen(World)) /\ Calm(World, CancelOpen(World))
      BY <1>1, CancelsSound, CancelsCalm
    <2> QED
      BY <1>2, <1>5, <2>1 DEF EntryTimeout
  <1>6. CASE RemoveTrade
    <2>1. SoundWorld(RemoveEntry(World)) /\ Calm(World, RemoveEntry(World))
      BY <1>1, CancelsSound, CancelsCalm
    <2> QED
      BY <1>2, <1>6, <2>1 DEF RemoveTrade
  <1>7. CASE Modify
    <2>1. PICK mod, accepted :
            \/ \E price \in StopLevels : Become(ModifyStopLoss(World, price, mod, accepted))
            \/ \E price \in LimitLevels : Become(ModifyTakeProfit(World, price, mod, accepted))
      BY <1>7 DEF Modify
    <2>2. \A price \in StopLevels \cup LimitLevels : price \in Int
      BY PositionAssumption
    <2>3. \A price \in Int :
             /\ SoundWorld(ModifyStopLoss(World, price, mod, accepted))
             /\ Calm(World, ModifyStopLoss(World, price, mod, accepted))
      BY <1>1, ModifyStopLossSound, ModifyCalm
    <2>4. \A price \in Int :
             /\ SoundWorld(ModifyTakeProfit(World, price, mod, accepted))
             /\ Calm(World, ModifyTakeProfit(World, price, mod, accepted))
      BY <1>1, ModifyTakeProfitSound, ModifyCalm
    <2> QED
      BY <1>2, <2>1, <2>2, <2>3, <2>4
  <1> QED
    BY <1>3, <1>4, <1>5, <1>6, <1>7

-----------------------------------------------------------------------------
(* Each report of the position was sent when the broker had executed so    *)
(* much of the entry and of the exits: its account.                        *)

Accounts == [exec : Nat, sold : Nat]

Accounted(s, k) ==
  /\ s.event \in {"OPENED", "UPDATED", "DELETED"}
  /\ s.quantity = k.exec - k.sold
  /\ s.cum \in {Undefined, s.quantity}
  /\ setting.style = "cumulative" => s.filled = Undefined
  /\ s.event = "OPENED" => /\ s.quantity > 0 /\ s.filled \in {Undefined, s.quantity}
                           /\ s.cum # Undefined \/ s.filled # Undefined
  /\ s.event = "DELETED" => s.quantity = 0

Within(t, k) == t.entryQty <= k.exec /\ t.exitQty <= k.sold

(* A trade that has not heard the report yet is within its account, also   *)
(* once it adds the part the report is about.                              *)
Bookable(t, s, k) ==
  Within(t, k) /\ (s.filled # Undefined => t.entryQty + s.filled <= k.exec)

LEMMA SignalWithin ==
  ASSUME NEW t, Sound(t), NEW s \in Signals, NEW k \in Accounts,
         Accounted(s, k), Bookable(t, s, k)
  PROVE  Within(PositionSignal(t, s), k)
  <1>1. /\ t.entryQty \in Int /\ t.exitQty \in Int /\ t.positionQty \in Nat
        /\ t.entryQty - t.exitQty = t.positionQty
        /\ k.exec \in Nat /\ k.sold \in Nat
        /\ s.cum \in Quantities /\ s.filled \in Quantities /\ s.quantity \in Quantities
        /\ t.entryQty <= k.exec /\ t.exitQty <= k.sold
    BY DEF Sound, TradeRecords, Accounts, Signals, Bookable, Within
  <1>2. CASE s.event = "OPENED"
    <2> DEFINE u == PositionOpened(t, s)
               qty == OpenedQty(s)
    <2>1. qty = s.quantity /\ qty > 0 /\ qty = k.exec - k.sold
      BY <1>1, <1>2 DEF OpenedQty, Accounted, Undefined, Quantities
    <2>2. u.entryQty = t.exitQty + qty /\ u.exitQty = t.exitQty
      BY <2>1, OpenedBooks
    <2> HIDE DEF u, qty
    <2>3. Within(u, k)
      BY <1>1, <2>1, <2>2 DEF Within
    <2> QED
      BY <1>2, <2>3 DEF PositionSignal, u
  <1>3. CASE s.event = "UPDATED"
    <2> DEFINE u == PositionUpdated(t, s)
               qty == UpdatedQty(t, s)
    <2>1. qty \in Nat
      BY QuantityTypes
    <2>2. \/ qty = k.exec - k.sold
          \/ qty = t.positionQty
          \/ s.filled # Undefined /\ qty = s.filled + t.positionQty /\ s.filled \in Nat
      BY <1>1 DEF UpdatedQty, Accounted, Undefined, Quantities
    <2>3. /\ qty < t.positionQty => u.entryQty = t.entryQty /\ u.exitQty = t.entryQty - qty
          /\ qty > t.positionQty => u.entryQty = t.exitQty + qty /\ u.exitQty = t.exitQty
          /\ qty = t.positionQty => u.entryQty = t.entryQty /\ u.exitQty = t.exitQty
      BY UpdatedBooks
    <2>4. s.filled # Undefined => t.entryQty + s.filled <= k.exec
      BY DEF Bookable
    <2> HIDE DEF u, qty
    <2>5. Within(u, k)
      BY <1>1, <2>1, <2>2, <2>3, <2>4 DEF Within
    <2> QED
      BY <1>3, <2>5 DEF PositionSignal, u
  <1>4. CASE s.event = "DELETED"
    <2> DEFINE u == PositionDeleted(t)
    <2>1. k.exec = k.sold
      BY <1>1, <1>4 DEF Accounted
    <2>2. /\ u.entryQty = t.entryQty
          /\ u.exitQty = IF t.exitQty < t.entryQty THEN t.entryQty ELSE t.exitQty
      BY DeletedBooks
    <2> HIDE DEF u
    <2>3. Within(u, k)
      BY <1>1, <2>1, <2>2 DEF Within
    <2> QED
      BY <1>4, <2>3 DEF PositionSignal, u
  <1> QED
    BY <1>2, <1>3, <1>4 DEF Accounted

-----------------------------------------------------------------------------
(* The accounts of the reports on their way never decrease, and the trade  *)
(* is within all of them.                                                  *)

Now == [exec |-> order.exec, sold |-> position.sold]

Precedes(k1, s, k2) ==
  /\ k1.exec <= k2.exec /\ k1.sold <= k2.sold
  /\ s.filled # Undefined => k1.exec + s.filled <= k2.exec

Ledger(k) ==
  /\ k \in [DOMAIN signals -> Accounts]
  /\ \A i \in DOMAIN signals : Reports(signals[i]) =>
       /\ Accounted(signals[i], k[i])
       /\ k[i].exec <= order.exec /\ k[i].sold <= position.sold
       /\ Bookable(trade, signals[i], k[i])
       /\ \A j \in DOMAIN signals : j < i /\ Reports(signals[j]) => Precedes(k[j], signals[i], k[i])

(* The position of the broker, and what there is before the trade opens.   *)
Begun ==
  /\ position.quantity = order.exec - position.sold
  /\ position.status # "open" => position.quantity = 0
  /\ position.status = "none" => \A i \in DOMAIN signals : ~Reports(signals[i])
  /\ trade.direction = 0 => /\ ~listed /\ order.status = "none" /\ position.status = "none"
                            /\ signals = <<>>

Counts == setting.style = "cumulative" \/ "repeated" \notin faults

LedgerInv == Counts => Within(trade, Now) /\ \E k : Ledger(k)

OverInv == PositionInv /\ Begun /\ LedgerInv

LEMMA OverInit == Init => OverInv
  <1> SUFFICES ASSUME Init PROVE OverInv
    OBVIOUS
  <1>1. PositionInv
    BY PositionInit
  <1>2. Begun
    BY DEF Init, Begun
  <1>3. Within(trade, Now)
    BY DEF Init, Within, Now, ResetTrade
  <1>4. Ledger([i \in DOMAIN signals |-> Now])
    BY DEF Init, Ledger
  <1> QED
    BY <1>1, <1>2, <1>3, <1>4 DEF OverInv, LedgerInv

(* What is sent has the account of the moment.                             *)
LEMMA LedgerGrows ==
  ASSUME OverInv, PositionInv', Counts', faults' = faults, setting' = setting,
         SameBooks(trade, trade'), order.exec <= order'.exec, position.sold <= position'.sold,
         Extends(signals, signals'),
         \A i \in 1..Len(signals') : i > Len(signals) /\ Reports(signals'[i]) =>
           /\ i = Len(signals) + 1
           /\ Accounted(signals'[i], Now')
           /\ signals'[i].filled # Undefined => order.exec + signals'[i].filled <= order'.exec
  PROVE  LedgerInv'
  <1>1. Counts
    BY DEF Counts
  <1>2. PICK k : Ledger(k)
    BY <1>1 DEF OverInv, LedgerInv
  <1>3. /\ trade.entryQty \in Int /\ trade.exitQty \in Int
        /\ order.exec \in Nat /\ order'.exec \in Nat /\ position.sold \in Nat /\ position'.sold \in Nat
        /\ signals \in Seq(Signals) /\ signals' \in Seq(Signals)
    BY DEF OverInv, PositionInv, TypeOK, TradeRecords, Orders, Positions
  <1>4. trade.entryQty <= order.exec /\ trade.exitQty <= position.sold
    BY <1>1 DEF OverInv, LedgerInv, Within, Now
  <1>5. trade'.entryQty = trade.entryQty /\ trade'.exitQty = trade.exitQty
    BY DEF SameBooks
  <1>6. Within(trade, Now)'
    BY <1>3, <1>4, <1>5 DEF Within, Now
  <1>h. PICK h : h = [i \in DOMAIN signals' |-> IF i \in DOMAIN signals THEN k[i] ELSE Now']
    OBVIOUS
  <1>7. /\ DOMAIN signals = 1..Len(signals) /\ DOMAIN signals' = 1..Len(signals')
        /\ Len(signals) \in Nat /\ Len(signals') \in Nat
        /\ Now' \in Accounts
    BY <1>3 DEF Now, Accounts
  <1>8. h \in [DOMAIN signals' -> Accounts]
    BY <1>2, <1>7, <1>h DEF Ledger
  <1>9. \A i \in DOMAIN signals : i \in DOMAIN signals' /\ signals'[i] = signals[i] /\ h[i] = k[i]
    BY <1>7, <1>h DEF Extends
  <1>10. \A i \in DOMAIN signals' \ DOMAIN signals : i > Len(signals) /\ h[i] = Now'
    BY <1>7, <1>h
  <1>11. ASSUME NEW i \in DOMAIN signals', Reports(signals'[i])
         PROVE  /\ Accounted(signals'[i], h[i])
                /\ h[i].exec <= order'.exec /\ h[i].sold <= position'.sold
                /\ Bookable(trade', signals'[i], h[i])
                /\ \A j \in DOMAIN signals' : j < i /\ Reports(signals'[j])
                     => Precedes(h[j], signals'[i], h[i])
    <2>1. CASE i \in DOMAIN signals
      <3>1. /\ Accounted(signals[i], k[i]) /\ Bookable(trade, signals[i], k[i])
            /\ k[i].exec <= order.exec /\ k[i].sold <= position.sold
            /\ k[i].exec \in Nat /\ k[i].sold \in Nat
        BY <1>2, <1>9, <1>11, <2>1 DEF Ledger, Accounts
      <3>2. \A j \in DOMAIN signals' : j < i => j \in DOMAIN signals
        BY <1>7, <2>1
      <3>3. \A j \in DOMAIN signals' : j < i /\ Reports(signals'[j])
              => Precedes(h[j], signals'[i], h[i])
        BY <1>2, <1>9, <1>11, <2>1, <3>2 DEF Ledger
      <3>4. Accounted(signals'[i], h[i])
        BY <1>9, <2>1, <3>1 DEF Accounted
      <3>5. Bookable(trade', signals'[i], h[i])
        BY <1>5, <1>9, <2>1, <3>1 DEF Bookable, Within
      <3>6. h[i].exec <= order'.exec /\ h[i].sold <= position'.sold
        BY <1>3, <1>9, <2>1, <3>1
      <3> QED
        BY <3>3, <3>4, <3>5, <3>6
    <2>2. CASE i \notin DOMAIN signals
      <3>1. /\ i = Len(signals) + 1 /\ h[i] = Now' /\ Accounted(signals'[i], h[i])
            /\ signals'[i].filled # Undefined => order.exec + signals'[i].filled <= order'.exec
        BY <1>7, <1>10, <1>11, <2>2
      <3>2. signals'[i] \in Signals
        BY <1>3
      <3>3. h[i].exec = order'.exec /\ h[i].sold = position'.sold
        BY <3>1 DEF Now
      <3>4. signals'[i].filled # Undefined => signals'[i].filled \in Nat
        BY <3>2 DEF Signals, Quantities
      <3>5. Bookable(trade', signals'[i], h[i])
        BY <1>3, <1>4, <1>5, <3>1, <3>3, <3>4 DEF Bookable, Within
      <3>6. ASSUME NEW j \in DOMAIN signals', j < i, Reports(signals'[j])
            PROVE  Precedes(h[j], signals'[i], h[i])
        <4>1. j \in DOMAIN signals /\ h[j] = k[j] /\ signals'[j] = signals[j]
          BY <1>7, <1>9, <3>1, <3>6
        <4> DEFINE e == k[j].exec
                   d == k[j].sold
                   f == signals'[i].filled
        <4>2. e <= order.exec /\ d <= position.sold /\ e \in Int /\ d \in Int
          BY <1>2, <3>6, <4>1 DEF Ledger, Accounts
        <4>3. /\ order.exec <= order'.exec /\ position.sold <= position'.sold
              /\ order.exec \in Int /\ order'.exec \in Int
              /\ position.sold \in Int /\ position'.sold \in Int
          BY <1>3
        <4>4. f # Undefined => f \in Int /\ order.exec + f <= order'.exec
          BY <3>1, <3>4
        <4> HIDE DEF e, d, f
        <4>5. e <= order'.exec /\ d <= position'.sold /\ (f # Undefined => e + f <= order'.exec)
          BY <4>2, <4>3, <4>4
        <4> QED
          BY <3>3, <4>1, <4>5 DEF Precedes, e, d, f
      <3>7. h[i].exec <= order'.exec /\ h[i].sold <= position'.sold
        BY <1>3, <3>3
      <3> QED
        BY <3>1, <3>5, <3>6, <3>7
    <2> QED
      BY <2>1, <2>2
  <1>12. Ledger(h)'
    <2>1. \A i \in DOMAIN signals' : Reports(signals'[i]) =>
            (Accounted(signals'[i], h[i]) <=> Accounted(signals[i], h[i])')
      BY DEF Accounted
    <2> QED
      BY <1>8, <1>11, <2>1 DEF Ledger
  <1> QED
    BY <1>6, <1>12 DEF LedgerInv

LEMMA RemoveAtProperties ==
  ASSUME NEW S, NEW s \in Seq(S), NEW i \in DOMAIN s
  PROVE  /\ RemoveAt(s, i) \in Seq(S) /\ Len(RemoveAt(s, i)) = Len(s) - 1
         /\ \A j \in 1..(Len(s) - 1) : RemoveAt(s, i)[j] = IF j < i THEN s[j] ELSE s[j + 1]
  <1> DEFINE a == SubSeq(s, 1, i - 1)
             b == SubSeq(s, i + 1, Len(s))
  <1>1. i \in 1..Len(s) /\ Len(s) \in Nat
    OBVIOUS
  <1>2. a \in Seq(S) /\ Len(a) = i - 1 /\ \A j \in 1..(i - 1) : a[j] = s[j]
    BY <1>1, SubSeqProperties
  <1>3. /\ b \in Seq(S) /\ Len(b) = Len(s) - i
        /\ \A j \in 1..(Len(s) - i) : b[j] = s[i + j]
    BY <1>1, SubSeqProperties
  <1>4. RemoveAt(s, i) = a \o b
    BY DEF RemoveAt
  <1> HIDE DEF a, b
  <1>5. /\ a \o b \in Seq(S) /\ Len(a \o b) = Len(a) + Len(b)
        /\ \A j \in 1..(Len(a) + Len(b)) :
             (a \o b)[j] = IF j <= Len(a) THEN a[j] ELSE b[j - Len(a)]
    BY <1>2, <1>3, ConcatProperties
  <1>6. ASSUME NEW j \in 1..(Len(s) - 1)
        PROVE  (a \o b)[j] = IF j < i THEN s[j] ELSE s[j + 1]
    <2>1. CASE j < i
      <3> DEFINE la == Len(a)
                 lb == Len(b)
      <3>1. /\ la = i - 1 /\ lb = Len(s) - i
            /\ \A m \in 1..(la + lb) : (a \o b)[m] = IF m <= la THEN a[m] ELSE b[m - la]
        BY <1>2, <1>3, <1>5
      <3> HIDE DEF la, lb
      <3>2. j \in 1..(i - 1) /\ j \in 1..(la + lb) /\ j <= la
        BY <1>1, <2>1, <3>1
      <3>3. (a \o b)[j] = a[j]
        BY <3>1, <3>2
      <3> QED
        BY <1>2, <2>1, <3>2, <3>3
    <2>2. CASE ~ j < i
      <3>1. j - (i - 1) \in 1..(Len(s) - i)
        BY <1>1, <2>2
      <3>0. j \in 1..(Len(a) + Len(b)) /\ ~ j <= Len(a) /\ Len(a) = i - 1
        BY <1>1, <1>2, <1>3, <2>2
      <3>2. (a \o b)[j] = b[j - (i - 1)]
        BY <1>5, <3>0
      <3>3. b[j - (i - 1)] = s[i + (j - (i - 1))] /\ i + (j - (i - 1)) = j + 1
        BY <1>1, <1>3, <3>1
      <3> QED
        BY <2>2, <3>2, <3>3
    <2> QED
      BY <2>1, <2>2
  <1>7. Len(a \o b) = Len(s) - 1 /\ a \o b \in Seq(S)
    BY <1>1, <1>2, <1>3, <1>5
  <1> QED
    BY <1>4, <1>6, <1>7

LEMMA LedgerShrinks ==
  ASSUME OverInv, NEW k, Ledger(k), NEW i \in DOMAIN signals, signals' = RemoveAt(signals, i),
         UNCHANGED <<setting, order, position>>,
         \A j \in DOMAIN signals : j # i /\ Reports(signals[j]) => Bookable(trade', signals[j], k[j])
  PROVE  \E h : Ledger(h)'
  <1>1. signals \in Seq(Signals) /\ DOMAIN signals = 1..Len(signals) /\ Len(signals) \in Nat
        /\ i \in 1..Len(signals)
    BY DEF OverInv, PositionInv, TypeOK
  <1> DEFINE From(j) == IF j < i THEN j ELSE j + 1
  <1>2. /\ DOMAIN signals' = 1..(Len(signals) - 1)
        /\ \A j \in DOMAIN signals' : /\ signals'[j] = signals[From(j)]
                                      /\ From(j) \in DOMAIN signals /\ From(j) # i
    <2>1. signals' \in Seq(Signals) /\ Len(signals') = Len(signals) - 1
      BY <1>1, RemoveAtProperties
    <2>2. \A j \in 1..(Len(signals) - 1) : signals'[j] = signals[From(j)]
      BY <1>1, RemoveAtProperties
    <2>3. \A j \in 1..(Len(signals) - 1) : From(j) \in DOMAIN signals /\ From(j) # i
      BY <1>1
    <2> HIDE DEF From
    <2> QED
      BY <1>1, <2>1, <2>2, <2>3
  <1>3. \A j, m \in DOMAIN signals' : j < m => From(j) < From(m)
    BY <1>1, <1>2
  <1> HIDE DEF From
  <1>h. PICK h : h = [j \in DOMAIN signals' |-> k[From(j)]]
    OBVIOUS
  <1>4. h \in [DOMAIN signals' -> Accounts]
    BY <1>2, <1>h DEF Ledger
  <1>5. ASSUME NEW j \in DOMAIN signals', Reports(signals'[j])
        PROVE  /\ Accounted(signals'[j], h[j])
               /\ h[j].exec <= order'.exec /\ h[j].sold <= position'.sold
               /\ Bookable(trade', signals'[j], h[j])
               /\ \A m \in DOMAIN signals' : m < j /\ Reports(signals'[m])
                    => Precedes(h[m], signals'[j], h[j])
    <2>1. signals'[j] = signals[From(j)] /\ h[j] = k[From(j)] /\ From(j) \in DOMAIN signals /\ From(j) # i
      BY <1>2, <1>h
    <2>2. /\ Accounted(signals[From(j)], k[From(j)])
          /\ k[From(j)].exec <= order.exec /\ k[From(j)].sold <= position.sold
          /\ \A m \in DOMAIN signals : m < From(j) /\ Reports(signals[m])
               => Precedes(k[m], signals[From(j)], k[From(j)])
      BY <1>5, <2>1 DEF Ledger
    <2>3. Accounted(signals'[j], h[j])
      BY <2>1, <2>2
    <2>4. Bookable(trade', signals'[j], h[j])
      BY <1>5, <2>1
    <2>5. ASSUME NEW m \in DOMAIN signals', m < j, Reports(signals'[m])
          PROVE  Precedes(h[m], signals'[j], h[j])
      <3>1. signals'[m] = signals[From(m)] /\ h[m] = k[From(m)] /\ From(m) \in DOMAIN signals
        BY <1>2, <1>h
      <3>2. From(m) < From(j)
        BY <1>3, <2>5
      <3> QED
        BY <2>1, <2>2, <2>5, <3>1, <3>2
    <2> QED
      BY <2>1, <2>2, <2>3, <2>4, <2>5
  <1>6. Ledger(h)'
    <2>1. \A j \in DOMAIN signals' : Accounted(signals'[j], h[j]) <=> Accounted(signals[j], h[j])'
      BY DEF Accounted
    <2> QED
      BY <1>4, <1>5, <2>1 DEF Ledger
  <1> QED
    BY <1>6

-----------------------------------------------------------------------------
(* The steps keep the accounts.                                            *)

(* A handler of a signal that is no report changes nothing in the books.   *)
LEMMA HandledBooks ==
  ASSUME TypeOK, NEW s \in Signals
  PROVE  /\ ~Reports(s) => SameBooks(trade, Handled(trade, s))
         /\ Handled(trade, s) \in {trade, OrderSignal(trade, s), PositionSignal(trade, s)}
         /\ Reports(s) => Handled(trade, s) \in {trade, PositionSignal(trade, s)}
         /\ Handled(trade, s).direction = trade.direction \/ ~Sound(trade)
  <1>1. trade \in TradeRecords /\ SameBooks(trade, trade)
    BY DEF TypeOK, SameBooks
  <1>2. s.kind = "order" => SameBooks(trade, OrderSignal(trade, s))
    BY <1>1, OrderSignalBooks
  <1>3. s.event = "AMENDED" => PositionSignal(trade, s) = WithLevels(trade, s)
    BY DEF PositionSignal
  <1>4. SameBooks(trade, WithLevels(trade, s))
    BY <1>1, LevelsBooks
  <1>5. s.kind \in {"order", "position"}
    BY DEF Signals
  <1>6. ASSUME ~Reports(s) PROVE SameBooks(trade, Handled(trade, s))
    BY <1>1, <1>2, <1>3, <1>4, <1>5, <1>6 DEF Handled, Reports
  <1>7. ASSUME Sound(trade) PROVE PositionSignal(trade, s).direction = trade.direction
    <2>1. PositionOpened(trade, s).direction = trade.direction
      BY <1>7, OpenedBooks
    <2>2. PositionUpdated(trade, s).direction = trade.direction
      BY <1>7, UpdatedBooks
    <2>3. PositionDeleted(trade).direction = trade.direction
      BY <1>7, DeletedBooks
    <2>4. WithLevels(trade, s).direction = trade.direction
      BY <1>4 DEF SameBooks
    <2> QED
      BY <2>1, <2>2, <2>3, <2>4 DEF PositionSignal
  <1>8. ASSUME Sound(trade) PROVE Handled(trade, s).direction = trade.direction
    BY <1>2, <1>5, <1>7, <1>8 DEF Handled, SameBooks
  <1> QED
    BY <1>6, <1>8, Zenon DEF Handled, Reports

LEMMA LedgerStrategy ==
  ASSUME OverInv, PositionInv',
         Process \/ CloseAll \/ EntryTimeout \/ RemoveTrade \/ Modify
  PROVE  OverInv'
  <1>1. Calm(World, World') /\ listed /\ UNCHANGED <<setting, listed, faults>>
    BY StrategyCalm DEF OverInv, Process, CloseAll, EntryTimeout, RemoveTrade, Modify
  <1>2. /\ SameBooks(trade, trade') /\ order'.exec = order.exec /\ Extends(signals, signals')
        /\ position'.status = position.status /\ position'.quantity = position.quantity
        /\ position'.sold = position.sold
        /\ \A i \in 1..Len(signals') : i > Len(signals) => ~Reports(signals'[i])
    BY <1>1 DEF Calm, World
  <1>3. order.exec \in Nat /\ position.sold \in Nat /\ signals \in Seq(Signals) /\ signals' \in Seq(Signals)
    BY DEF OverInv, PositionInv, TypeOK, Orders, Positions
  <1>4. Counts' => LedgerInv'
    BY <1>1, <1>2, <1>3, LedgerGrows
  <1>5. Begun'
    <2>1. trade'.direction # 0
      BY <1>1, <1>2 DEF OverInv, Begun, SameBooks
    <2>2. position.status = "none" => \A i \in DOMAIN signals' : ~Reports(signals'[i])
      BY <1>2, <1>3 DEF OverInv, Begun, Extends
    <2> QED
      BY <1>2, <2>1, <2>2 DEF OverInv, Begun
  <1> QED
    BY <1>4, <1>5 DEF OverInv, LedgerInv

LEMMA LedgerOpen ==
  ASSUME OverInv, PositionInv', Open
  PROVE  OverInv'
  <1>1. PICK direction \in Directions, accepted \in BOOLEAN, stop \in StopLevels, limit \in LimitLevels :
          /\ trade' = [trade EXCEPT !.direction = direction, !.orderQuantity = EntrySize,
                         !.stopLoss = stop, !.takeProfit = limit, !.refId = TRUE,
                         !.entryState = IF accepted THEN "UNDEFINED" ELSE "REJECTED"]
          /\ order' = [order EXCEPT !.status = IF accepted THEN "sent" ELSE "none"]
    BY DEF Open
  <1>2. UNCHANGED <<setting, position, signals, faults>> /\ trade.direction = 0
    BY DEF Open, ResetTrade
  <1>3. trade \in TradeRecords /\ order \in Orders
    BY DEF OverInv, PositionInv, TypeOK
  <1>4. trade'.direction = direction /\ direction # 0
    BY <1>1, <1>3, PositionAssumption DEF TradeRecords
  <1>5. order'.exec = order.exec /\ trade'.entryQty = trade.entryQty /\ trade'.exitQty = trade.exitQty
    BY <1>1, <1>3 DEF TradeRecords, Orders
  <1>6. signals = <<>> /\ position.status = "none"
    BY <1>2 DEF OverInv, Begun
  <1>7. Begun'
    BY <1>2, <1>4, <1>5 DEF OverInv, Begun
  <1>8. LedgerInv'
    <2>1. Within(trade, Now)' \/ ~Counts'
      BY <1>2, <1>5 DEF OverInv, LedgerInv, Counts, Within, Now
    <2>h. PICK h : h = [i \in DOMAIN signals |-> Now]
      OBVIOUS
    <2>2. Ledger(h)'
      BY <1>2, <1>6, <2>h DEF Ledger
    <2> QED
      BY <2>1, <2>2 DEF LedgerInv
  <1> QED
    BY <1>7, <1>8 DEF OverInv

-----------------------------------------------------------------------------
(* What the broker sends.                                                  *)

LEMMA NewsFields ==
  ASSUME NEW event, NEW total, NEW traded
  PROVE  LET n == PositionNews(event, total, traded)
         IN  /\ n.kind = "position" /\ n.event = event /\ n.quantity = total
             /\ n.cum = IF setting.style = "cumulative" THEN total ELSE Undefined
             /\ n.filled = IF setting.style = "filled" /\ total > position.quantity
                           THEN traded ELSE Undefined
  BY DEF PositionNews, OrderNews

LEMMA OrderSends ==
  ASSUME PositionInv, Accept \/ EndOrder
  PROVE  /\ UNCHANGED <<setting, trade, listed, position, faults>>
         /\ order'.exec = order.exec /\ order'.revoked = order.revoked
         /\ Extends(signals, signals')
         /\ \A i \in 1..Len(signals') : i > Len(signals) => ~Reports(signals'[i])
         /\ order'.status \in {"sent", "working"} =>
              /\ order.status = "sent"
              /\ \A i \in 1..Len(signals') : i > Len(signals) => ~Ends(signals'[i])
  <1>1. signals \in Seq(Signals) /\ order \in Orders
    BY DEF PositionInv, TypeOK
  <1>2. CASE Accept
    <2> DEFINE news == OrderNews("OPENED")
    <2>1. news \in Signals /\ ~Reports(news) /\ ~Ends(news)
      BY DEF OrderNews, Signals, Quantities, Undefined, Reports, Ends
    <2>2. signals' = Append(signals, news) /\ order' = [order EXCEPT !.status = "working"]
      BY <1>2 DEF Accept
    <2> HIDE DEF news
    <2>3. /\ Extends(signals, signals')
          /\ \A i \in 1..Len(signals') : i > Len(signals) => ~Reports(signals'[i])
          /\ \A i \in 1..Len(signals') : i > Len(signals) => ~Ends(signals'[i])
      BY <1>1, <2>1, <2>2, OneMore
    <2>4. order'.exec = order.exec /\ order'.revoked = order.revoked
      BY <1>1, <2>2 DEF Orders
    <2> QED
      BY <1>2, <2>3, <2>4 DEF Accept
  <1>3. CASE EndOrder
    <2>1. PICK event \in {"REJECTED", "CANCELED", "DELETED"} :
            signals' = Append(signals, OrderNews(event))
      BY <1>3 DEF EndOrder
    <2> DEFINE news == OrderNews(event)
    <2>2. news \in Signals /\ ~Reports(news)
      BY DEF OrderNews, Signals, Quantities, Undefined, Reports
    <2>3. signals' = Append(signals, news)
      BY <2>1
    <2> HIDE DEF news
    <2>4. /\ Extends(signals, signals')
          /\ \A i \in 1..Len(signals') : i > Len(signals) => ~Reports(signals'[i])
      BY <1>1, <2>2, <2>3, OneMore
    <2>5. order'.exec = order.exec /\ order'.revoked = order.revoked /\ order'.status = "done"
      BY <1>1, <1>3 DEF EndOrder, Orders
    <2> QED
      BY <1>3, <2>4, <2>5 DEF EndOrder
  <1> QED
    BY <1>2, <1>3

(* A report at the end of the signals, perhaps with the end of the order.  *)
Sends(news) ==
  /\ Extends(signals, signals')
  /\ Len(signals') > Len(signals) /\ signals'[Len(signals) + 1] = news
  /\ \A i \in 1..Len(signals') : i > Len(signals) + 1 => ~Reports(signals'[i])

LEMMA FillSends ==
  ASSUME PositionInv, Fill
  PROVE  \E q \in 1..(EntrySize - order.exec), news \in Signals :
           /\ news.kind = "position" /\ news.quantity = position.quantity + q
           /\ news.event = IF position.status = "none" THEN "OPENED" ELSE "UPDATED"
           /\ news.cum = IF setting.style = "cumulative" THEN position.quantity + q ELSE Undefined
           /\ news.filled = IF setting.style = "filled" THEN q ELSE Undefined
           /\ Sends(news)
           /\ order'.exec = order.exec + q /\ order'.revoked = order.revoked
           /\ position'.status = "open" /\ position'.quantity = position.quantity + q
           /\ position'.sold = position.sold
  <1>1. /\ order \in Orders /\ position \in Positions /\ signals \in Seq(Signals)
        /\ position.quantity \in Nat /\ order.exec \in Nat /\ TypeOK
    BY DEF PositionInv, TypeOK, Orders, Positions
  <1>2. PICK q \in 1..(EntrySize - order.exec) :
          LET full  == order.exec + q = EntrySize
              total == position.quantity + q
              news  == PositionNews(IF position.status = "none" THEN "OPENED" ELSE "UPDATED", total, q)
          IN  /\ order' = [order EXCEPT !.exec = order.exec + q,
                                        !.status = IF full THEN "done" ELSE "working"]
              /\ position' = [position EXCEPT !.status = "open", !.quantity = total]
              /\ signals' = signals \o (IF full THEN <<news, OrderNews("DELETED")>> ELSE <<news>>)
    BY DEF Fill
  <1> DEFINE total == position.quantity + q
             event == IF position.status = "none" THEN "OPENED" ELSE "UPDATED"
             news  == PositionNews(event, total, q)
             last  == OrderNews("DELETED")
             sent  == IF order.exec + q = EntrySize THEN <<news, last>> ELSE <<news>>
  <1>3. q \in Nat /\ total \in Nat /\ total > position.quantity
    BY <1>1, PositionAssumption
  <1>4. news \in Signals
    BY <1>1, <1>3, PositionNewsType
  <1>5. /\ news.kind = "position" /\ news.event = event /\ news.quantity = total
        /\ news.cum = IF setting.style = "cumulative" THEN total ELSE Undefined
        /\ news.filled = IF setting.style = "filled" THEN q ELSE Undefined
    BY <1>3, NewsFields
  <1>6. last \in Signals /\ ~Reports(last)
    BY DEF OrderNews, Signals, Quantities, Undefined, Reports
  <1>7. signals' = signals \o sent
    BY <1>2
  <1>8. /\ order'.exec = order.exec + q /\ order'.revoked = order.revoked
        /\ position'.status = "open" /\ position'.quantity = total /\ position'.sold = position.sold
    BY <1>1, <1>2 DEF Orders, Positions
  <1> HIDE DEF news, last
  <1>9. /\ sent \in Seq(Signals) /\ Len(sent) \in {1, 2} /\ sent[1] = news
        /\ Len(sent) = 2 => sent[2] = last
    BY <1>4, <1>6
  <1> HIDE DEF sent
  <1>10. /\ Len(signals') = Len(signals) + Len(sent)
         /\ \A i \in 1..Len(signals) : signals'[i] = signals[i]
         /\ \A j \in 1..Len(sent) : signals'[Len(signals) + j] = sent[j]
    BY <1>1, <1>7, <1>9, ConcatProperties
  <1>11. \A i \in 1..Len(signals') : i > Len(signals) + 1 => signals'[i] = last
    BY <1>1, <1>9, <1>10
  <1>12. Sends(news)
    BY <1>1, <1>6, <1>9, <1>10, <1>11 DEF Sends, Extends
  <1> QED
    BY <1>4, <1>5, <1>8, <1>12

LEMMA ReducedSends ==
  ASSUME PositionInv, NEW q \in 0..position.quantity, Reduced(q)
  PROVE  \E news \in Signals :
           /\ news.kind = "position" /\ news.quantity = position.quantity - q
           /\ news.event = IF position.quantity = q THEN "DELETED" ELSE "UPDATED"
           /\ news.cum = IF setting.style = "cumulative" THEN news.quantity ELSE Undefined
           /\ news.filled = Undefined
           /\ Sends(news) /\ Len(signals') = Len(signals) + 1
           /\ position'.status = IF position.quantity = q THEN "closed" ELSE "open"
           /\ position'.quantity = position.quantity - q
           /\ position'.sold = position.sold + q
           /\ UNCHANGED <<setting, trade, listed, order, faults>>
  <1>1. /\ position \in Positions /\ signals \in Seq(Signals) /\ position.quantity \in Nat /\ TypeOK
    BY DEF PositionInv, TypeOK, Positions
  <1> DEFINE rest == position.quantity - q
             event == IF rest = 0 THEN "DELETED" ELSE "UPDATED"
             news == PositionNews(event, rest, q)
  <1>2. q \in Nat /\ rest \in Nat /\ ~ rest > position.quantity /\ (rest = 0 <=> position.quantity = q)
    BY <1>1
  <1>3. news \in Signals
    BY <1>1, <1>2, PositionNewsType
  <1>4. /\ news.kind = "position" /\ news.event = event /\ news.quantity = rest
        /\ news.cum = IF setting.style = "cumulative" THEN rest ELSE Undefined
        /\ news.filled = Undefined
    BY <1>2, NewsFields
  <1>5. /\ signals' = Append(signals, news) /\ UNCHANGED <<setting, trade, listed, order, faults>>
        /\ position'.quantity = rest /\ position'.sold = position.sold + q
        /\ position'.status = IF rest = 0 THEN "closed" ELSE "open"
    BY <1>1 DEF Reduced, Positions
  <1> HIDE DEF news
  <1>6. Sends(news) /\ Len(signals') = Len(signals) + 1
    BY <1>1, <1>3, <1>5 DEF Sends, Extends
  <1> QED
    BY <1>2, <1>3, <1>4, <1>5, <1>6

LEMMA LedgerBroker ==
  ASSUME OverInv, PositionInv', Accept \/ EndOrder \/ Fill \/ CloseAsked \/ LevelHit
  PROVE  OverInv'
  <1>1. /\ order.exec \in Nat /\ position.sold \in Nat /\ position.quantity \in Nat
        /\ signals \in Seq(Signals) /\ signals' \in Seq(Signals) /\ Len(signals) \in Nat
        /\ setting \in Settings /\ trade \in TradeRecords /\ position \in Positions
    BY DEF OverInv, PositionInv, TypeOK, Orders, Positions
  <1>2. UNCHANGED <<setting, trade, listed, faults>> /\ SameBooks(trade, trade')
    BY DEF Accept, EndOrder, Fill, CloseAsked, LevelHit, Reduced, SameBooks
  <1>3. trade.direction # 0 /\ trade'.direction # 0
    BY <1>2 DEF OverInv, Begun, Accept, EndOrder, Fill, CloseAsked, LevelHit
  <1>4. CASE Accept \/ EndOrder
    <2>1. /\ UNCHANGED position /\ order'.exec = order.exec /\ Extends(signals, signals')
          /\ \A i \in 1..Len(signals') : i > Len(signals) => ~Reports(signals'[i])
      BY <1>4, OrderSends DEF OverInv
    <2>2. Counts' => LedgerInv'
      BY <1>1, <1>2, <2>1, LedgerGrows
    <2>3. Begun'
      BY <1>1, <1>3, <2>1 DEF OverInv, Begun, Extends
    <2> QED
      BY <2>2, <2>3 DEF OverInv, LedgerInv
  <1>5. CASE Fill
    <2>1. PICK q \in 1..(EntrySize - order.exec), news \in Signals :
           /\ news.kind = "position" /\ news.quantity = position.quantity + q
           /\ news.event = IF position.status = "none" THEN "OPENED" ELSE "UPDATED"
           /\ news.cum = IF setting.style = "cumulative" THEN position.quantity + q ELSE Undefined
           /\ news.filled = IF setting.style = "filled" THEN q ELSE Undefined
           /\ Sends(news)
           /\ order'.exec = order.exec + q /\ order'.revoked = order.revoked
           /\ position'.status = "open" /\ position'.quantity = position.quantity + q
           /\ position'.sold = position.sold
      BY <1>5, FillSends DEF OverInv
    <2>2. q \in Nat /\ q > 0 /\ position.quantity = order.exec - position.sold
          /\ (position.status = "none" => position.quantity = 0)
      BY <1>1, PositionAssumption DEF OverInv, Begun
    <2>3. setting.style \in {"cumulative", "filled"}
      BY <1>1, PositionAssumption DEF Settings
    <2>4. news.quantity = Now'.exec - Now'.sold /\ Undefined # q
      BY <1>1, <2>1, <2>2 DEF Now, Undefined
    <2>5. Accounted(news, Now')
      BY <1>1, <2>1, <2>2, <2>3, <2>4 DEF Accounted
    <2>6. news.filled # Undefined => order.exec + news.filled <= order'.exec
      BY <1>1, <2>1, <2>2
    <2>7. Counts' => LedgerInv'
      <3>1. ASSUME NEW i \in 1..Len(signals'), i > Len(signals), Reports(signals'[i])
            PROVE  i = Len(signals) + 1 /\ signals'[i] = news
        BY <1>1, <2>1, <3>1 DEF Sends
      <3>2. order.exec <= order'.exec /\ position.sold <= position'.sold /\ Extends(signals, signals')
        BY <1>1, <2>1, <2>2 DEF Sends
      <3> HIDE DEF Now
      <3> QED
        BY <1>2, <2>5, <2>6, <3>1, <3>2, LedgerGrows
    <2>8. Begun'
      BY <1>1, <1>3, <2>1, <2>2 DEF Begun
    <2> QED
      BY <2>7, <2>8 DEF OverInv, LedgerInv
  <1>6. ASSUME NEW q \in 0..position.quantity, Reduced(q)
        PROVE  OverInv'
    <2>1. PICK news \in Signals :
           /\ news.kind = "position" /\ news.quantity = position.quantity - q
           /\ news.event = IF position.quantity = q THEN "DELETED" ELSE "UPDATED"
           /\ news.cum = IF setting.style = "cumulative" THEN news.quantity ELSE Undefined
           /\ news.filled = Undefined
           /\ Sends(news) /\ Len(signals') = Len(signals) + 1
           /\ position'.status = IF position.quantity = q THEN "closed" ELSE "open"
           /\ position'.quantity = position.quantity - q
           /\ position'.sold = position.sold + q
           /\ UNCHANGED <<setting, trade, listed, order, faults>>
      BY <1>6, ReducedSends DEF OverInv
    <2>2. q \in Nat /\ position.quantity = order.exec - position.sold
      BY <1>1 DEF OverInv, Begun
    <2>3. news.quantity = Now'.exec - Now'.sold
      BY <1>1, <2>1, <2>2 DEF Now
    <2>4. Accounted(news, Now')
      BY <1>1, <2>1, <2>2, <2>3 DEF Accounted
    <2>5. Counts' => LedgerInv'
      <3>1. ASSUME NEW i \in 1..Len(signals'), i > Len(signals), Reports(signals'[i])
            PROVE  i = Len(signals) + 1 /\ signals'[i] = news
        BY <1>1, <2>1, <3>1 DEF Sends
      <3>2. order.exec <= order'.exec /\ position.sold <= position'.sold /\ Extends(signals, signals')
        BY <1>1, <2>1, <2>2 DEF Sends
      <3> HIDE DEF Now
      <3> QED
        BY <1>2, <2>1, <2>4, <3>1, <3>2, LedgerGrows
    <2>6. Begun'
      BY <1>1, <1>3, <2>1, <2>2 DEF Begun
    <2> QED
      BY <2>5, <2>6 DEF OverInv, LedgerInv
  <1>7. CASE CloseAsked
    BY <1>1, <1>6, <1>7 DEF CloseAsked
  <1>8. CASE LevelHit
    BY <1>1, <1>6, <1>8 DEF LevelHit
  <1> QED
    BY <1>4, <1>5, <1>7, <1>8

-----------------------------------------------------------------------------
(* What is heard, again or not at all.                                     *)

LEMMA Earliest ==
  ASSUME PositionInv, NEW i \in Deliverable, Reports(signals[i]),
         NEW j \in DOMAIN signals, j # i, Reports(signals[j])
  PROVE  i < j
  <1>1. i \in DOMAIN signals /\ DOMAIN signals = 1..Len(signals) /\ Len(signals) \in Nat
    BY DEF Deliverable, PositionInv, TypeOK
  <1>2. signals[i].kind = signals[j].kind
    BY DEF Reports
  <1> QED
    BY <1>1, <1>2 DEF Deliverable

(* After any signal the trade is within what it has not heard yet.         *)
LEMMA HandledWithin ==
  ASSUME OverInv, NEW k, Ledger(k), Within(trade, Now), NEW i \in Deliverable,
         NEW u, u = Handled(trade, signals[i])
  PROVE  /\ Within(u, Now) /\ u.direction = trade.direction
         /\ \A j \in DOMAIN signals : j # i /\ Reports(signals[j])
              => Bookable(u, signals[j], k[j])
         /\ Reports(signals[i]) => Within(u, k[i])
  <1>1. /\ i \in DOMAIN signals /\ signals[i] \in Signals /\ signals \in Seq(Signals)
        /\ order.exec \in Nat /\ position.sold \in Nat
    BY DEF Deliverable, OverInv, PositionInv, TypeOK, Orders, Positions
  <1>2. Sound(trade) /\ TypeOK /\ PositionInv
    BY DEF OverInv, PositionInv, TypeOK, BooksBalance, Sound
  <1>3. Sound(u) /\ u.entryQty \in Int /\ u.exitQty \in Int
    <2>1. Sound(u)
      BY <1>1, <1>2, HandledSound
    <2> QED
      BY <2>1 DEF Sound, TradeRecords
  <1>4. u.direction = trade.direction
    BY <1>1, <1>2, HandledBooks
  <1>5. CASE ~Reports(signals[i])
    <2>1. SameBooks(trade, u)
      BY <1>1, <1>2, <1>5, HandledBooks
    <2>2. u.entryQty = trade.entryQty /\ u.exitQty = trade.exitQty
      BY <2>1 DEF SameBooks
    <2>3. \A m : Within(trade, m) => Within(u, m)
      BY <2>2 DEF Within
    <2>4. \A s, m : Bookable(trade, s, m) => Bookable(u, s, m)
      BY <2>2, <2>3 DEF Bookable
    <2> QED
      BY <1>4, <1>5, <2>3, <2>4 DEF Ledger
  <1>6. CASE Reports(signals[i])
    <2>1. /\ Accounted(signals[i], k[i]) /\ Bookable(trade, signals[i], k[i])
          /\ k[i].exec <= order.exec /\ k[i].sold <= position.sold
          /\ k[i] \in Accounts /\ k[i].exec \in Nat /\ k[i].sold \in Nat
      BY <1>1, <1>6 DEF Ledger, Accounts
    <2>2. u = trade \/ u = PositionSignal(trade, signals[i])
      BY <1>1, <1>2, <1>6, HandledBooks
    <2>3. Within(u, k[i])
      <3>1. Within(trade, k[i])
        BY <2>1 DEF Bookable
      <3>2. Within(PositionSignal(trade, signals[i]), k[i])
        BY <1>1, <1>2, <2>1, SignalWithin
      <3> QED
        BY <2>2, <3>1, <3>2
    <2>4. u.entryQty <= k[i].exec /\ u.exitQty <= k[i].sold
      BY <2>3 DEF Within
    <2>5. Within(u, Now)
      BY <1>1, <1>3, <2>1, <2>4 DEF Within, Now
    <2>6. ASSUME NEW j \in DOMAIN signals, j # i, Reports(signals[j])
          PROVE  Bookable(u, signals[j], k[j])
      <3>1. i < j
        BY <1>2, <1>6, <2>6, Earliest
      <3>2. Precedes(k[i], signals[j], k[j])
        BY <1>1, <1>6, <2>6, <3>1 DEF Ledger
      <3>3. k[j].exec \in Nat /\ k[j].sold \in Nat /\ signals[j].filled \in Int
        <4>1. k[j] \in Accounts /\ signals[j] \in Signals
          BY <1>1 DEF Ledger
        <4>2. k[j].exec \in Nat /\ k[j].sold \in Nat
          BY <4>1 DEF Accounts
        <4> QED
          BY <4>1, <4>2 DEF Signals, Quantities, Undefined
      <3> QED
        BY <1>3, <2>1, <2>4, <3>2, <3>3 DEF Precedes, Bookable, Within
    <2> QED
      BY <1>4, <1>6, <2>3, <2>5, <2>6
  <1> QED
    BY <1>5, <1>6

LEMMA LedgerSignal ==
  ASSUME OverInv, PositionInv', Deliver \/ DeliverAgain \/ Lose
  PROVE  OverInv'
  <1>1. UNCHANGED <<setting, listed, order, position>> /\ signals \in Seq(Signals)
    BY DEF Deliver, DeliverAgain, Lose, Fault, OverInv, PositionInv, TypeOK
  <1>2. PICK i \in Deliverable :
          \/ trade' = Handled(trade, signals[i]) /\ signals' = RemoveAt(signals, i) /\ faults' = faults
          \/ /\ trade' = Handled(trade, signals[i]) /\ signals' = signals
             /\ faults = {} /\ faults' = {"repeated"}
          \/ trade' = trade /\ signals' = RemoveAt(signals, i) /\ faults = {} /\ faults' = {"lost"}
    BY DEF Deliver, DeliverAgain, Lose, Fault
  <1>3. i \in DOMAIN signals /\ signals[i] \in Signals /\ DOMAIN signals = 1..Len(signals)
        /\ Len(signals) \in Nat
    BY <1>1 DEF Deliverable
  <1>4. trade'.direction = trade.direction
    <2>1. Sound(trade) /\ TypeOK
      BY DEF OverInv, PositionInv, TypeOK, BooksBalance, Sound
    <2>2. Handled(trade, signals[i]).direction = trade.direction
      BY <1>3, <2>1, HandledBooks
    <2> QED
      BY <1>2, <2>2
  <1>5. Begun'
    <2>1. trade.direction # 0
      BY <1>3 DEF OverInv, Begun
    <2>2. ASSUME NEW j \in DOMAIN signals'
          PROVE  \E m \in DOMAIN signals : signals'[j] = signals[m]
      <3>1. CASE signals' = signals
        BY <2>2, <3>1
      <3>2. CASE signals' = RemoveAt(signals, i)
        <4>1. DOMAIN signals' = 1..(Len(signals) - 1)
          BY <1>1, <1>3, <3>2, RemoveAtProperties
        <4>2. signals'[j] = signals[IF j < i THEN j ELSE j + 1]
          BY <1>1, <1>3, <2>2, <3>2, <4>1, RemoveAtProperties
        <4>3. (IF j < i THEN j ELSE j + 1) \in DOMAIN signals
          BY <1>3, <2>2, <4>1
        <4> QED
          BY <4>2, <4>3
      <3> QED
        BY <1>2, <3>1, <3>2
    <2>3. position.status = "none" => \A j \in DOMAIN signals' : ~Reports(signals'[j])
      BY <2>2 DEF OverInv, Begun
    <2> QED
      BY <1>1, <1>4, <2>1, <2>3 DEF OverInv, Begun
  <1>6. ASSUME Counts' PROVE LedgerInv'
    <2>1. Counts
      BY <1>1, <1>2, <1>6 DEF Counts
    <2>2. Within(trade, Now)
      BY <2>1 DEF OverInv, LedgerInv
    <2>3. PICK k : Ledger(k)
      BY <2>1 DEF OverInv, LedgerInv
    <2> DEFINE u == Handled(trade, signals[i])
    <2>4. /\ Within(u, Now)
          /\ \A j \in DOMAIN signals : j # i /\ Reports(signals[j]) => Bookable(u, signals[j], k[j])
          /\ Reports(signals[i]) => Within(u, k[i])
      BY <2>2, <2>3, HandledWithin
    <2> HIDE DEF u
    <2>5. CASE trade' = u /\ signals' = RemoveAt(signals, i)
      <3>1. \E h : Ledger(h)'
        BY <1>1, <1>3, <2>3, <2>4, <2>5, LedgerShrinks
      <3>2. Within(trade, Now)'
        BY <1>1, <2>4, <2>5 DEF Within, Now
      <3> QED
        BY <3>1, <3>2 DEF LedgerInv
    <2>6. CASE trade' = trade /\ signals' = RemoveAt(signals, i)
      <3>1. \A j \in DOMAIN signals : Reports(signals[j]) => Bookable(trade', signals[j], k[j])
        BY <2>3, <2>6 DEF Ledger
      <3>2. \E h : Ledger(h)'
        BY <1>1, <1>3, <2>3, <2>6, <3>1, LedgerShrinks
      <3>3. Within(trade, Now)'
        BY <1>1, <2>2, <2>6 DEF Within, Now
      <3> QED
        BY <3>2, <3>3 DEF LedgerInv
    <2>7. CASE trade' = u /\ signals' = signals /\ faults' = {"repeated"}
      <3>1. setting.style = "cumulative"
        BY <1>1, <1>6, <2>7 DEF Counts
      <3>2. ASSUME NEW j \in DOMAIN signals, Reports(signals[j])
            PROVE  Bookable(u, signals[j], k[j])
        <4>1. CASE j = i
          <5>1. signals[i].filled = Undefined
            BY <2>3, <3>1, <3>2, <4>1 DEF Ledger, Accounted
          <5> QED
            BY <2>4, <3>2, <4>1, <5>1 DEF Bookable
        <4> QED
          BY <2>4, <3>2, <4>1
      <3>3. /\ k \in [DOMAIN signals' -> Accounts]
            /\ \A j \in DOMAIN signals' : Reports(signals'[j]) =>
                 /\ Accounted(signals'[j], k[j])
                 /\ k[j].exec <= order'.exec /\ k[j].sold <= position'.sold
                 /\ Bookable(trade', signals'[j], k[j])
                 /\ \A m \in DOMAIN signals' : m < j /\ Reports(signals'[m])
                      => Precedes(k[m], signals'[j], k[j])
        BY <1>1, <2>3, <2>7, <3>2 DEF Ledger
      <3>4. \A j \in DOMAIN signals' : Accounted(signals'[j], k[j]) <=> Accounted(signals[j], k[j])'
        BY <1>1 DEF Accounted
      <3>5. Ledger(k)'
        BY <3>3, <3>4 DEF Ledger
      <3>6. Within(trade, Now)'
        BY <1>1, <2>4, <2>7 DEF Within, Now
      <3> QED
        BY <3>5, <3>6 DEF LedgerInv
    <2> QED
      BY <1>2, <2>5, <2>6, <2>7 DEF u
  <1> QED
    BY <1>5, <1>6 DEF OverInv, LedgerInv

LEMMA OverStep == ASSUME OverInv, [Next]_vars PROVE OverInv'
  <1>1. PositionInv'
    BY PositionStep DEF OverInv
  <1>2. ASSUME UNCHANGED <<setting, trade, order, position, signals, faults>>,
               listed' = listed \/ trade.direction # 0
        PROVE  OverInv'
    <2>1. Counts' => LedgerInv'
      <3>1. order.exec \in Nat /\ position.sold \in Nat /\ signals \in Seq(Signals)
        BY DEF OverInv, PositionInv, TypeOK, Orders, Positions
      <3>2. Extends(signals, signals') /\ SameBooks(trade, trade') /\ Len(signals') = Len(signals)
        BY <1>2, <3>1 DEF Extends, SameBooks
      <3> QED
        BY <1>1, <1>2, <3>1, <3>2, LedgerGrows
    <2>2. Begun'
      BY <1>2 DEF OverInv, Begun
    <2> QED
      BY <1>1, <2>1, <2>2 DEF OverInv, LedgerInv
  <1>3. CASE Purge
    <2>1. trade.direction # 0
      BY <1>3 DEF Purge, OverInv, Begun
    <2> QED
      BY <1>2, <1>3, <2>1 DEF Purge
  <1>4. CASE UNCHANGED vars
    BY <1>2, <1>4 DEF vars
  <1> QED
    BY <1>1, <1>3, <1>4, LedgerOpen, LedgerStrategy, LedgerBroker, LedgerSignal DEF Next

\* Neither a lost nor a late signal makes the trade book more than the broker
\* executed or sold, and a repeated one neither when it carries totals.
THEOREM NeverOverbooked == Spec => []NotOverbooked
  <1>1. OverInv => NotOverbooked
    BY DEF OverInv, LedgerInv, Counts, Within, Now, NotOverbooked
  <1> QED
    BY <1>1, OverInit, OverStep, PTL DEF Spec

-----------------------------------------------------------------------------
(* With the signals in order the trade is always on the way to the         *)
(* position: each report takes what the trade knows one step further.      *)

Views == [quantity : Nat, open : BOOLEAN]

Leads(v, s, w) ==
  IF Reports(s)
  THEN /\ w.quantity = s.quantity
       /\ s.event = "OPENED" => ~v.open /\ w.open
       /\ s.event = "UPDATED" => /\ v.open /\ w.open
                                 /\ s.filled # Undefined => v.quantity + s.filled = s.quantity
       /\ s.event = "DELETED" => v.open /\ ~w.open
  ELSE w = v

Known == [quantity |-> trade.positionQty, open |-> trade.positionId]
Actual == [quantity |-> position.quantity, open |-> position.status = "open"]

Way(k) ==
  /\ k \in [1..(Len(signals) + 1) -> Views]
  /\ k[1] = Known /\ k[Len(signals) + 1] = Actual
  /\ \A i \in 1..Len(signals) : Leads(k[i], signals[i], k[i + 1])

(* The trade still knows its order when it hears of the position first.    *)
Opens(s) == Reports(s) /\ s.event = "OPENED"

Named ==
  /\ \A i \in 1..Len(signals) : Opens(signals[i]) =>
       /\ trade.refId
       /\ \A j \in 1..Len(signals) : j < i => ~Ends(signals[j]) /\ ~Reports(signals[j])
  /\ order.status \in {"sent", "working"} /\ position.status = "none" =>
       trade.refId /\ \A i \in 1..Len(signals) : ~Ends(signals[i])

Follows == listed /\ setting.streams = "one" /\ faults = {} /\ ~order.revoked

StepInv == OverInv /\ (Follows => Named /\ \E k : Way(k))

LEMMA StepTypes ==
  ASSUME OverInv
  PROVE  /\ Known \in Views /\ Actual \in Views /\ Sound(trade)
         /\ signals \in Seq(Signals) /\ DOMAIN signals = 1..Len(signals) /\ Len(signals) \in Nat
         /\ order \in Orders /\ position \in Positions /\ setting \in Settings
  <1>1. /\ trade \in TradeRecords /\ position \in Positions /\ order \in Orders
        /\ signals \in Seq(Signals) /\ setting \in Settings /\ Sound(trade)
    BY DEF OverInv, PositionInv, TypeOK, BooksBalance, Sound
  <1> QED
    BY <1>1 DEF Known, Actual, Views, TradeRecords, Positions

LEMMA WayGrows ==
  ASSUME OverInv, OverInv', NEW k, Way(k), SameBooks(trade, trade'), Extends(signals, signals'),
         \/ /\ Actual' = Actual
            /\ \A i \in 1..Len(signals') : i > Len(signals) => ~Reports(signals'[i])
         \/ \E news \in Signals : Sends(news) /\ Leads(Actual, news, Actual')
  PROVE  \E h : Way(h)'
  <1>1. /\ Len(signals) \in Nat /\ Len(signals') \in Nat /\ Len(signals) <= Len(signals')
        /\ Actual' \in Views /\ Known' = Known
        /\ \A i \in 1..Len(signals) : signals'[i] = signals[i]
    <2>1. signals \in Seq(Signals) /\ signals' \in Seq(Signals) /\ position' \in Positions
      BY DEF OverInv, PositionInv, TypeOK
    <2>2. Actual' \in Views
      BY <2>1 DEF Actual, Views, Positions
    <2> QED
      BY <2>1, <2>2 DEF Extends, SameBooks, Known
  <1>h. PICK h : h = [i \in 1..(Len(signals') + 1) |-> IF i <= Len(signals) + 1 THEN k[i] ELSE Actual']
    OBVIOUS
  <1>2. k \in [1..(Len(signals) + 1) -> Views] /\ k[1] = Known /\ k[Len(signals) + 1] = Actual
    BY DEF Way
  <1>3. /\ \A i \in 1..(Len(signals) + 1) : h[i] = k[i]
        /\ \A i \in 1..(Len(signals') + 1) : i > Len(signals) + 1 => h[i] = Actual'
    BY <1>1, <1>h
  <1>4. h \in [1..(Len(signals') + 1) -> Views]
    BY <1>1, <1>2, <1>h
  <1>5. h[1] = Known'
    BY <1>1, <1>2, <1>3
  <1> HIDE DEF Known, Actual
  <1>6. h[Len(signals') + 1] = Actual'
    <2>1. CASE Len(signals') = Len(signals)
      <3>1. Actual' = Actual
        BY <1>1, <2>1 DEF Sends
      <3> QED
        BY <1>1, <1>2, <1>3, <2>1, <3>1
    <2>2. CASE Len(signals') > Len(signals)
      BY <1>1, <1>3, <2>2
    <2> QED
      BY <1>1, <2>1, <2>2
  <1>7. ASSUME NEW i \in 1..Len(signals') PROVE Leads(h[i], signals'[i], h[i + 1])
    <2>1. CASE i <= Len(signals)
      <3>1. h[i] = k[i] /\ h[i + 1] = k[i + 1] /\ signals'[i] = signals[i] /\ i \in 1..Len(signals)
        BY <1>1, <1>3, <2>1
      <3> QED
        BY <3>1 DEF Way
    <2>2. CASE i = Len(signals) + 1
      <3>1. h[i] = Actual /\ h[i + 1] = Actual'
        BY <1>1, <1>2, <1>3, <2>2
      <3>2. \/ Actual' = Actual /\ ~Reports(signals'[i])
            \/ Leads(Actual, signals'[i], Actual')
        BY <1>1, <2>2 DEF Sends
      <3> QED
        BY <3>1, <3>2 DEF Leads
    <2>3. CASE i > Len(signals) + 1
      <3>1. h[i] = Actual' /\ h[i + 1] = Actual'
        BY <1>1, <1>3, <2>3
      <3>2. ~Reports(signals'[i])
        BY <1>1, <2>3 DEF Sends
      <3> QED
        BY <3>1, <3>2 DEF Leads
    <2> QED
      BY <1>1, <2>1, <2>2, <2>3
  <1>8. Way(h)'
    BY <1>4, <1>5, <1>6, <1>7 DEF Way
  <1> QED
    BY <1>8

(* The head of the signals is heard, and was sent for what it brings.      *)
LEMMA WayShrinks ==
  ASSUME OverInv, OverInv', NEW k, Way(k), Len(signals) > 0, signals' = RemoveAt(signals, 1),
         UNCHANGED position, Known' = k[2]
  PROVE  \E h : Way(h)'
  <1>1. /\ signals \in Seq(Signals) /\ Len(signals) \in Nat /\ 1 \in DOMAIN signals
        /\ k \in [1..(Len(signals) + 1) -> Views] /\ k[Len(signals) + 1] = Actual
        /\ \A i \in 1..Len(signals) : Leads(k[i], signals[i], k[i + 1])
    BY StepTypes DEF Way
  <1>2. Len(signals') = Len(signals) - 1
        /\ \A i \in 1..(Len(signals) - 1) : signals'[i] = signals[i + 1]
    BY <1>1, RemoveAtProperties
  <1>h. PICK h : h = [i \in 1..(Len(signals') + 1) |-> k[i + 1]]
    OBVIOUS
  <1>3. h \in [1..(Len(signals') + 1) -> Views]
    BY <1>1, <1>2, <1>h
  <1>4. Actual' = Actual
    BY DEF Actual
  <1> HIDE DEF Known, Actual
  <1>5. h[1] = Known' /\ h[Len(signals') + 1] = Actual'
    BY <1>1, <1>2, <1>4, <1>h
  <1>6. ASSUME NEW i \in 1..Len(signals') PROVE Leads(h[i], signals'[i], h[i + 1])
    <2>1. h[i] = k[i + 1] /\ h[i + 1] = k[(i + 1) + 1] /\ signals'[i] = signals[i + 1]
          /\ i + 1 \in 1..Len(signals)
      BY <1>1, <1>2, <1>h
    <2> QED
      BY <1>1, <2>1
  <1>7. Way(h)'
    BY <1>3, <1>5, <1>6 DEF Way
  <1> QED
    BY <1>7

LEMMA NamedGrows ==
  ASSUME OverInv, OverInv', Named, Extends(signals, signals'), trade'.refId = trade.refId,
         position'.status = position.status,
         \A i \in 1..Len(signals') : i > Len(signals) => ~Reports(signals'[i]),
         order'.status \in {"sent", "working"} =>
           /\ order.status \in {"sent", "working"}
           /\ \A i \in 1..Len(signals') : i > Len(signals) => ~Ends(signals'[i])
  PROVE  Named'
  <1>1. /\ Len(signals) \in Nat /\ Len(signals') \in Nat
        /\ \A i \in 1..Len(signals) : signals'[i] = signals[i]
    BY DEF OverInv, PositionInv, TypeOK, Extends
  <1>2. ASSUME NEW i \in 1..Len(signals'), Opens(signals'[i])
        PROVE  /\ trade'.refId
               /\ \A j \in 1..Len(signals') : j < i => ~Ends(signals'[j]) /\ ~Reports(signals'[j])
    <2>1. i \in 1..Len(signals)
      BY <1>1, <1>2 DEF Opens
    <2> QED
      BY <1>1, <1>2, <2>1 DEF Named
  <1>3. ASSUME order'.status \in {"sent", "working"}, position'.status = "none"
        PROVE  trade'.refId /\ \A i \in 1..Len(signals') : ~Ends(signals'[i])
    BY <1>1, <1>3 DEF Named
  <1> QED
    BY <1>2, <1>3 DEF Named

LEMMA InStepStrategy ==
  ASSUME StepInv, OverInv', Process \/ CloseAll \/ EntryTimeout \/ RemoveTrade \/ Modify, Follows'
  PROVE  Named' /\ \E k : Way(k)'
  <1>1. Calm(World, World') /\ UNCHANGED <<setting, listed, faults>>
    BY StrategyCalm DEF StepInv, OverInv, Process, CloseAll, EntryTimeout, RemoveTrade, Modify
  <1>2. /\ SameBooks(trade, trade') /\ Extends(signals, signals')
        /\ position'.status = position.status /\ position'.quantity = position.quantity
        /\ \A i \in 1..Len(signals') : i > Len(signals) => ~Reports(signals'[i])
        /\ order.revoked => order'.revoked
        /\ \/ order'.revoked
           \/ /\ order'.status = order.status /\ trade'.refId = trade.refId
              /\ \A i \in 1..Len(signals') : i > Len(signals) => ~Ends(signals'[i])
    BY <1>1 DEF Calm, World
  <1>3. Follows /\ ~order'.revoked
    BY <1>1, <1>2 DEF Follows
  <1>4. Named'
    BY <1>2, <1>3, NamedGrows DEF StepInv
  <1>5. Actual' = Actual
    BY <1>2 DEF Actual
  <1>6. \E k : Way(k)'
    BY <1>2, <1>3, <1>5, WayGrows DEF StepInv
  <1> QED
    BY <1>4, <1>6

LEMMA InStepOpen ==
  ASSUME StepInv, OverInv', Open
  PROVE  Named' /\ \E k : Way(k)'
  <1>1. trade \in TradeRecords
    BY DEF StepInv, OverInv, PositionInv, TypeOK
  <1>2. trade = ResetTrade /\ trade.direction = 0 /\ trade.positionQty = 0 /\ ~trade.positionId
    BY DEF Open, ResetTrade
  <1>3. signals = <<>> /\ position.status = "none" /\ position.quantity = 0
    BY <1>2 DEF StepInv, OverInv, Begun
  <1>4. trade'.refId /\ trade'.positionQty = 0 /\ ~trade'.positionId
        /\ UNCHANGED <<signals, position>> /\ trade' \in TradeRecords
    BY <1>1, <1>2 DEF Open, TradeRecords, OverInv, PositionInv, TypeOK
  <1>5. Named'
    BY <1>3, <1>4 DEF Named
  <1>6. Known' = Actual' /\ Actual' \in Views
    BY <1>3, <1>4 DEF Known, Actual, Views, TradeRecords
  <1>h. PICK h : h = [i \in 1..1 |-> Actual']
    OBVIOUS
  <1> HIDE DEF Known, Actual
  <1>7. Way(h)'
    BY <1>3, <1>4, <1>6, <1>h DEF Way
  <1> QED
    BY <1>5, <1>7

LEMMA InStepReduced ==
  ASSUME StepInv, OverInv', Follows, position.status = "open",
         NEW q \in 0..position.quantity, Reduced(q)
  PROVE  Named' /\ \E k : Way(k)'
  <1>1. /\ Len(signals) \in Nat /\ Len(signals') \in Nat /\ position.quantity \in Nat
        /\ setting \in Settings
    BY DEF StepInv, OverInv, PositionInv, TypeOK, Positions
  <1>2. PICK news \in Signals :
           /\ news.kind = "position" /\ news.quantity = position.quantity - q
           /\ news.event = IF position.quantity = q THEN "DELETED" ELSE "UPDATED"
           /\ news.cum = IF setting.style = "cumulative" THEN news.quantity ELSE Undefined
           /\ news.filled = Undefined
           /\ Sends(news) /\ Len(signals') = Len(signals) + 1
           /\ position'.status = IF position.quantity = q THEN "closed" ELSE "open"
           /\ position'.quantity = position.quantity - q
           /\ position'.sold = position.sold + q
           /\ UNCHANGED <<setting, trade, listed, order, faults>>
    BY ReducedSends DEF StepInv, OverInv
  <1>3. Reports(news) /\ ~Opens(news)
    BY <1>2 DEF Reports, Opens
  <1>4. Leads(Actual, news, Actual')
    BY <1>2, <1>3 DEF Leads, Actual
  <1>5. SameBooks(trade, trade')
    BY <1>2 DEF SameBooks
  <1>6. \E k : Way(k)'
    <2>1. Extends(signals, signals')
      BY <1>2 DEF Sends
    <2> HIDE DEF Actual
    <2> QED
      BY <1>2, <1>4, <1>5, <2>1, WayGrows DEF StepInv
  <1>7. Named'
    <2>1. \A i \in 1..Len(signals) : signals'[i] = signals[i]
      BY <1>2 DEF Sends, Extends
    <2>2. ASSUME NEW i \in 1..Len(signals'), Opens(signals'[i]) PROVE i \in 1..Len(signals)
      BY <1>1, <1>2, <1>3, <2>2 DEF Sends
    <2>3. position'.status # "none" /\ trade' = trade
      BY <1>2
    <2> QED
      BY <1>1, <2>1, <2>2, <2>3 DEF Named, StepInv
  <1> QED
    BY <1>6, <1>7

LEMMA InStepFill ==
  ASSUME StepInv, OverInv', Follows, Fill
  PROVE  Named' /\ \E k : Way(k)'
  <1>1. /\ Len(signals) \in Nat /\ Len(signals') \in Nat /\ position.quantity \in Nat
        /\ setting \in Settings /\ position \in Positions /\ order.exec \in Nat
        /\ DOMAIN signals = 1..Len(signals)
    BY DEF StepInv, OverInv, PositionInv, TypeOK, Positions, Orders
  <1>2. PICK q \in 1..(EntrySize - order.exec), news \in Signals :
           /\ news.kind = "position" /\ news.quantity = position.quantity + q
           /\ news.event = IF position.status = "none" THEN "OPENED" ELSE "UPDATED"
           /\ news.cum = IF setting.style = "cumulative" THEN position.quantity + q ELSE Undefined
           /\ news.filled = IF setting.style = "filled" THEN q ELSE Undefined
           /\ Sends(news)
           /\ order'.exec = order.exec + q /\ order'.revoked = order.revoked
           /\ position'.status = "open" /\ position'.quantity = position.quantity + q
           /\ position'.sold = position.sold
    BY FillSends DEF StepInv, OverInv
  <1>3. Reports(news) /\ position.status \in {"none", "open"} /\ order.status = "working"
    BY <1>1, <1>2 DEF Reports, Positions, Fill
  <1>4. trade' = trade /\ SameBooks(trade, trade')
    BY DEF SameBooks, Fill
  <1>5. Leads(Actual, news, Actual')
    BY <1>2, <1>3 DEF Leads, Actual
  <1>6. \E k : Way(k)'
    <2>1. Extends(signals, signals')
      BY <1>2 DEF Sends
    <2> HIDE DEF Actual
    <2> QED
      BY <1>2, <1>4, <1>5, <2>1, WayGrows DEF StepInv
  <1>7. Named'
    <2>1. \A i \in 1..Len(signals) : signals'[i] = signals[i]
      BY <1>2 DEF Sends, Extends
    <2>2. ASSUME NEW i \in 1..Len(signals'), Opens(signals'[i])
          PROVE  /\ trade.refId
                 /\ \A j \in 1..Len(signals') : j < i => ~Ends(signals'[j]) /\ ~Reports(signals'[j])
      <3>1. CASE i \in 1..Len(signals)
        BY <1>1, <2>1, <2>2, <3>1 DEF Named, StepInv
      <3>2. CASE i = Len(signals) + 1
        <4>1. position.status = "none"
          BY <1>2, <1>3, <2>2, <3>2 DEF Sends, Opens
        <4>2. \A j \in 1..Len(signals) : ~Reports(signals[j])
          BY <1>1, <4>1 DEF StepInv, OverInv, Begun
        <4>3. trade.refId /\ \A j \in 1..Len(signals) : ~Ends(signals[j])
          BY <1>3, <4>1 DEF StepInv, Named
        <4> QED
          BY <1>1, <2>1, <3>2, <4>2, <4>3
      <3>3. CASE i > Len(signals) + 1
        BY <1>2, <2>2, <3>3 DEF Sends, Opens
      <3> QED
        BY <1>1, <3>1, <3>2, <3>3
    <2>3. position'.status # "none"
      BY <1>2
    <2> QED
      BY <1>4, <2>2, <2>3 DEF Named
  <1> QED
    BY <1>6, <1>7

LEMMA InStepBroker ==
  ASSUME StepInv, OverInv', Accept \/ EndOrder \/ Fill \/ CloseAsked \/ LevelHit, Follows'
  PROVE  Named' /\ \E k : Way(k)'
  <1>1. position.quantity \in Nat /\ order \in Orders
    BY DEF StepInv, OverInv, PositionInv, TypeOK, Positions
  <1>2. CASE Accept \/ EndOrder
    <2>1. /\ UNCHANGED <<setting, trade, listed, position, faults>>
          /\ order'.revoked = order.revoked /\ Extends(signals, signals')
          /\ \A i \in 1..Len(signals') : i > Len(signals) => ~Reports(signals'[i])
          /\ order'.status \in {"sent", "working"} =>
               /\ order.status = "sent"
               /\ \A i \in 1..Len(signals') : i > Len(signals) => ~Ends(signals'[i])
      BY <1>2, OrderSends DEF StepInv, OverInv
    <2>2. Follows
      BY <2>1 DEF Follows
    <2>3. Named'
      BY <2>1, <2>2, NamedGrows DEF StepInv
    <2>4. Actual' = Actual /\ SameBooks(trade, trade')
      BY <2>1 DEF Actual, SameBooks
    <2> QED
      BY <2>1, <2>2, <2>3, <2>4, WayGrows DEF StepInv
  <1>3. CASE Fill
    <2>1. Follows
      BY <1>1, <1>3 DEF Fill, Follows, Orders
    <2> QED
      BY <1>3, <2>1, InStepFill
  <1>4. ASSUME position.status = "open", NEW q \in 0..position.quantity, Reduced(q)
        PROVE  Named' /\ \E k : Way(k)'
    <2>1. Follows
      BY <1>4 DEF Reduced, Follows
    <2> QED
      BY <1>4, <2>1, InStepReduced
  <1>5. CASE CloseAsked
    BY <1>1, <1>4, <1>5 DEF CloseAsked
  <1>6. CASE LevelHit
    BY <1>1, <1>4, <1>6 DEF LevelHit
  <1> QED
    BY <1>2, <1>3, <1>5, <1>6

(* A signal that is no report leaves what the trade knows; only the end of *)
(* its order makes it forget that.                                         *)
LEMMA OtherHeard ==
  ASSUME TypeOK, NEW s \in Signals, ~Reports(s)
  PROVE  /\ SameBooks(trade, Handled(trade, s))
         /\ ~Ends(s) => Handled(trade, s).refId = trade.refId
  <1>1. SameBooks(trade, Handled(trade, s)) /\ trade \in TradeRecords
    BY HandledBooks DEF TypeOK
  <1>2. ASSUME ~Ends(s) PROVE Handled(trade, s).refId = trade.refId
    <2>1. s.kind = "order" => OrderSignal(trade, s).refId = trade.refId
      BY <1>1, <1>2, OrderSignalBooks
    <2>2. s.kind # "order" => PositionSignal(trade, s) = WithLevels(trade, s)
      BY DEF Signals, Reports, PositionSignal
    <2>3. WithLevels(trade, s).refId = trade.refId
      BY <1>1, LevelsBooks
    <2> QED
      BY <2>1, <2>2, <2>3 DEF Handled
  <1> QED
    BY <1>1, <1>2

(* A report the trade was waiting for brings it where the report says.     *)
LEMMA ReportHeard ==
  ASSUME OverInv, Follows, Named, NEW k, Way(k), Len(signals) > 0, Reports(signals[1])
  PROVE  LET u == Handled(trade, signals[1])
         IN  u.positionQty = k[2].quantity /\ u.positionId = k[2].open
  <1> DEFINE s == signals[1]
  <1>1. /\ s \in Signals /\ 1 \in DOMAIN signals /\ Sound(trade) /\ trade.positionQty \in Nat
        /\ k[1] = Known /\ k[2] \in Views /\ Leads(k[1], s, k[2])
    <2>1. /\ 1 \in 1..Len(signals) /\ DOMAIN signals = 1..Len(signals) /\ Len(signals) \in Nat
          /\ signals \in Seq(Signals) /\ Sound(trade)
      BY StepTypes
    <2>2. s \in Signals /\ trade.positionQty \in Nat
      BY <2>1 DEF Sound, TradeRecords
    <2>3. k[1] = Known /\ Leads(k[1], s, k[2])
      BY <2>1 DEF Way
    <2>4. k[2] \in Views
      BY <2>1 DEF Way
    <2> QED
      BY <2>1, <2>2, <2>3, <2>4
  <1>2. k[2].quantity = s.quantity /\ s.quantity \in Nat /\ s.kind = "position" /\ k[2].open \in BOOLEAN
    BY <1>1 DEF Leads, Views, Reports
  <1>3. PICK m : Accounted(s, m)
    <2>1. Counts
      BY DEF Follows, Counts
    <2> QED
      BY <1>1, <2>1 DEF OverInv, LedgerInv, Ledger
  <1>4. k[1].open = trade.positionId /\ k[1].quantity = trade.positionQty
    BY <1>1 DEF Known
  <1>5. /\ s.event = "OPENED" => k[2].open
        /\ s.event = "UPDATED" => /\ trade.positionId /\ k[2].open
                                  /\ s.filled # Undefined => trade.positionQty + s.filled = s.quantity
        /\ s.event = "DELETED" => trade.positionId /\ ~k[2].open
    BY <1>1, <1>4 DEF Leads
  <1>6. s.cum \in {Undefined, s.quantity} /\ s.event \in {"OPENED", "UPDATED", "DELETED"}
    BY <1>3 DEF Accounted
  <1>7. IsTarget(trade, s) /\ listed
    <2>1. s.event = "OPENED" => trade.refId
      BY <1>1 DEF Named, Opens
    <2> QED
      BY <1>2, <1>5, <1>6, <2>1 DEF IsTarget, Follows
  <1>8. Handled(trade, s) = PositionSignal(trade, s)
    BY <1>2, <1>7 DEF Handled
  <1> DEFINE v == PositionSignal(trade, s)
  <1>9. CASE s.event = "OPENED"
    <2> DEFINE u == PositionOpened(trade, s)
    <2>1. OpenedQty(s) = s.quantity /\ s.quantity > 0
      BY <1>3, <1>9 DEF Accounted, OpenedQty
    <2>2. u.positionId /\ (OpenedQty(s) > 0 => u.positionQty = OpenedQty(s))
      BY <1>1, OpenedBooks
    <2>3. v = u
      BY <1>9 DEF PositionSignal
    <2>4. u.positionId \in BOOLEAN
      BY <1>1, PositionOpenedSound DEF Sound, TradeRecords
    <2> HIDE DEF u
    <2>5. u.positionQty = k[2].quantity
      BY <1>2, <2>1, <2>2
    <2>6. u.positionId = k[2].open
      BY <1>2, <1>5, <1>9, <2>2, <2>4
    <2> QED
      BY <1>8, <2>3, <2>5, <2>6
  <1>10. CASE s.event = "UPDATED"
    <2> DEFINE u == PositionUpdated(trade, s)
    <2>1. UpdatedQty(trade, s) = s.quantity
      <3>1. s.filled # Undefined => s.filled + trade.positionQty = s.quantity
        BY <1>1, <1>5, <1>10 DEF Signals, Quantities, Undefined
      <3>2. s.quantity # Undefined
        BY <1>2 DEF Undefined
      <3> QED
        BY <1>6, <3>1, <3>2 DEF UpdatedQty
    <2>2. u.positionId = trade.positionId /\ u.positionQty = UpdatedQty(trade, s)
      BY <1>1, UpdatedBooks
    <2>3. v = u
      BY <1>10 DEF PositionSignal
    <2> HIDE DEF u
    <2>4. u.positionQty = k[2].quantity
      BY <1>2, <2>1, <2>2
    <2>5. trade.positionId \in BOOLEAN
      BY <1>1 DEF Sound, TradeRecords
    <2>6. u.positionId = k[2].open
      BY <1>2, <1>5, <1>10, <2>2, <2>5
    <2> QED
      BY <1>8, <2>3, <2>4, <2>6
  <1>11. CASE s.event = "DELETED"
    <2> DEFINE u == PositionDeleted(trade)
    <2>1. s.quantity = 0
      BY <1>3, <1>11 DEF Accounted
    <2>2. u.positionId = FALSE /\ u.positionQty = 0
      BY <1>1 DEF PositionDeleted, Forgotten, Sound, TradeRecords
    <2>3. v = u
      BY <1>11 DEF PositionSignal
    <2> HIDE DEF u
    <2>4. u.positionQty = k[2].quantity
      BY <1>2, <2>1, <2>2
    <2>5. u.positionId = k[2].open
      BY <1>2, <1>5, <1>11, <2>2
    <2> QED
      BY <1>8, <2>3, <2>4, <2>5
  <1> QED
    BY <1>6, <1>9, <1>10, <1>11

LEMMA InStepDeliver ==
  ASSUME StepInv, OverInv', Deliver, Follows'
  PROVE  Named' /\ \E k : Way(k)'
  <1>1. Follows /\ UNCHANGED <<setting, listed, order, position, faults>>
    BY DEF Deliver, Follows
  <1>2. /\ Len(signals) \in Nat /\ DOMAIN signals = 1..Len(signals) /\ signals \in Seq(Signals)
        /\ TypeOK /\ OverInv
    BY DEF StepInv, OverInv, PositionInv, TypeOK
  <1>3. Len(signals) > 0 /\ trade' = Handled(trade, signals[1]) /\ signals' = RemoveAt(signals, 1)
    <2>1. PICK i \in Deliverable : trade' = Handled(trade, signals[i]) /\ signals' = RemoveAt(signals, i)
      BY DEF Deliver
    <2>2. i \in DOMAIN signals /\ i = 1
      BY <1>1 DEF Deliverable, Follows
    <2> QED
      BY <1>2, <2>1, <2>2
  <1>4. signals[1] \in Signals /\ 1 \in DOMAIN signals
    BY <1>2, <1>3
  <1>5. Len(signals') = Len(signals) - 1
        /\ \A i \in 1..Len(signals') : signals'[i] = signals[i + 1] /\ i + 1 \in 1..Len(signals)
    <2>1. /\ Len(RemoveAt(signals, 1)) = Len(signals) - 1
          /\ \A i \in 1..(Len(signals) - 1) :
               RemoveAt(signals, 1)[i] = IF i < 1 THEN signals[i] ELSE signals[i + 1]
      BY <1>2, <1>4, RemoveAtProperties
    <2>2. Len(signals') = Len(signals) - 1
      BY <1>3, <2>1
    <2>3. ASSUME NEW i \in 1..(Len(signals) - 1)
          PROVE  signals'[i] = signals[i + 1] /\ i + 1 \in 1..Len(signals)
      BY <1>2, <1>3, <2>1, <2>3
    <2> QED
      BY <2>2, <2>3
  <1>6. PICK k : Way(k)
    BY <1>1 DEF StepInv
  <1>7. Named /\ k[1] = Known /\ k[2] \in Views /\ Leads(k[1], signals[1], k[2])
    BY <1>1, <1>2, <1>3, <1>6 DEF StepInv, Way
  <1>8. CASE ~Reports(signals[1])
    <2>1. SameBooks(trade, trade') /\ (~Ends(signals[1]) => trade'.refId = trade.refId)
      BY <1>2, <1>3, <1>4, <1>8, OtherHeard
    <2>2. Known' = k[2]
      BY <1>7, <1>8, <2>1 DEF Leads, SameBooks, Known
    <2>3. Named'
      <3>1. CASE Ends(signals[1])
        <4>1. \A i \in 1..Len(signals) : i > 1 => ~Opens(signals[i])
          BY <1>2, <1>3, <1>7, <3>1 DEF Named
        <4>2. ~(order.status \in {"sent", "working"} /\ position.status = "none")
          BY <1>2, <1>3, <1>7, <3>1 DEF Named
        <4> QED
          BY <1>1, <1>2, <1>5, <4>1, <4>2 DEF Named
      <3>2. CASE ~Ends(signals[1])
        <4>1. trade'.refId = trade.refId
          BY <2>1, <3>2
        <4>2. ASSUME NEW i \in 1..Len(signals'), Opens(signals'[i])
              PROVE  /\ trade'.refId
                     /\ \A j \in 1..Len(signals') : j < i => ~Ends(signals'[j]) /\ ~Reports(signals'[j])
          <5>1. Opens(signals[i + 1]) /\ i + 1 \in 1..Len(signals)
            BY <1>5, <4>2
          <5>2. \A j \in 1..Len(signals') : j < i => j + 1 < i + 1
            BY <1>2, <1>5
          <5> QED
            BY <1>5, <1>7, <4>1, <5>1, <5>2 DEF Named
        <4>3. ASSUME order'.status \in {"sent", "working"}, position'.status = "none"
              PROVE  trade'.refId /\ \A i \in 1..Len(signals') : ~Ends(signals'[i])
          BY <1>1, <1>5, <1>7, <4>1, <4>3 DEF Named
        <4> QED
          BY <4>2, <4>3 DEF Named
      <3> QED
        BY <3>1, <3>2
    <2> HIDE DEF Known
    <2>4. \E h : Way(h)'
      BY <1>1, <1>2, <1>3, <1>6, <2>2, WayShrinks
    <2> QED
      BY <2>3, <2>4
  <1>9. CASE Reports(signals[1])
    <2>1. trade'.positionQty = k[2].quantity /\ trade'.positionId = k[2].open
      BY <1>1, <1>2, <1>3, <1>6, <1>7, <1>9, ReportHeard
    <2>2. Known' = k[2]
      BY <1>7, <2>1 DEF Known, Views
    <2>3. \A i \in 1..Len(signals) : i > 1 => ~Opens(signals[i])
      BY <1>2, <1>3, <1>7, <1>9 DEF Named
    <2>4. position.status # "none"
      BY <1>2, <1>4, <1>9 DEF OverInv, Begun
    <2>5. Named'
      BY <1>1, <1>2, <1>5, <2>3, <2>4 DEF Named
    <2> HIDE DEF Known
    <2>6. \E h : Way(h)'
      BY <1>1, <1>2, <1>3, <1>6, <2>2, WayShrinks
    <2> QED
      BY <2>5, <2>6
  <1> QED
    BY <1>8, <1>9

LEMMA StepInit == Init => StepInv
  BY OverInit DEF Init, StepInv, Follows

LEMMA StepStep == ASSUME StepInv, [Next]_vars PROVE StepInv'
  <1>1. OverInv'
    BY OverStep DEF StepInv
  <1> SUFFICES ASSUME Follows' PROVE Named' /\ \E k : Way(k)'
    BY <1>1 DEF StepInv
  <1>2. CASE UNCHANGED vars
    <2>1. Follows
      BY <1>2 DEF vars, Follows
    <2>2. SameBooks(trade, trade') /\ Extends(signals, signals') /\ Actual' = Actual
          /\ \A i \in 1..Len(signals') : i > Len(signals) => ~Reports(signals'[i])
      BY <1>2 DEF vars, SameBooks, Extends, Actual, StepInv, OverInv, PositionInv, TypeOK
    <2>3. \E k : Way(k)'
      BY <1>1, <2>1, <2>2, WayGrows DEF StepInv
    <2>4. Named'
      BY <1>2, <2>1 DEF vars, StepInv, Named
    <2> QED
      BY <2>3, <2>4
  <1>3. ~Purge /\ ~DeliverAgain /\ ~Lose
    BY DEF Purge, DeliverAgain, Lose, Fault, Follows
  <1> QED
    BY <1>1, <1>2, <1>3, InStepOpen, InStepStrategy, InStepBroker, InStepDeliver DEF Next

\* A trade that heard all its signals in order, and did not give up its entry
\* order, knows the quantity of its position and whether it is open.
THEOREM PositionKnown == Spec => []PositionInStep
  <1>1. StepInv => PositionInStep
    <2> SUFFICES ASSUME StepInv, Follows, signals = <<>>
                 PROVE  /\ trade.positionQty = position.quantity
                        /\ trade.positionId <=> position.status = "open"
      BY DEF PositionInStep, Follows
    <2>1. Known = Actual
      BY DEF StepInv, Way
    <2>2. Known.quantity = trade.positionQty /\ Actual.quantity = position.quantity
          /\ Known.open = trade.positionId /\ Actual.open = (position.status = "open")
      BY DEF Known, Actual
    <2> QED
      BY <2>1, <2>2
  <1> QED
    BY <1>1, StepInit, StepStep, PTL DEF Spec
=============================================================================
