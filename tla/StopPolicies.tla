---------------------------- MODULE StopPolicies ----------------------------
(***************************************************************************)
(* The two policies that move the stop-loss of an active trade, in the     *)
(* order updateTrade() of the strategies calls them: trade/breakeven.cpp   *)
(* and trade/dynamicstoploss.cpp with distances in price.  An operator     *)
(* gives the levels a policy asks for, at most one, from the direction,    *)
(* the entry price and the stop-loss of the trade and the price at which   *)
(* it would close now.                                                     *)
(***************************************************************************)
EXTENDS Integers

CONSTANTS
  BreakevenDistance,  \* distance of the breakeven, 0 when it has none
  BreakevenOffset,    \* offset of the breakeven stop from the entry price
  TrailDistance       \* distance of the dynamic stop-loss, 0 when it has none

ASSUME StopAssumption ==
  BreakevenDistance \in Nat /\ BreakevenOffset \in Nat /\ TrailDistance \in Nat

(* Trade::deltaPrice(): signed, and zero without an entry price.           *)
DeltaPrice(t, close) == IF t.entryPrice > 0 THEN close - t.entryPrice ELSE 0

BreakevenReached(t, close) ==
  \/ /\ t.direction > 0
     /\ DeltaPrice(t, close) >= BreakevenDistance /\ t.stopLoss < t.entryPrice
  \/ /\ t.direction < 0
     /\ DeltaPrice(t, close) <= -BreakevenDistance /\ t.stopLoss > t.entryPrice

BreakevenStops(t, close) ==
  IF BreakevenDistance > 0 /\ BreakevenReached(t, close)
  THEN {t.entryPrice + t.direction * BreakevenOffset} ELSE {}

(* The guard that should wait for the breakeven distance, as it is written *)
(* for both directions; without a distance, for a profit.                  *)
TrailAllowed(t, close) ==
  IF BreakevenDistance > 0
  THEN DeltaPrice(t, close) > t.direction * BreakevenDistance
  ELSE t.direction * DeltaPrice(t, close) > 0

DynamicStopsLoosened(t, close) ==
  LET stop == close - t.direction * TrailDistance
  IN  IF TrailDistance > 0 /\ TrailAllowed(t, close) /\ t.stopLoss > 0 /\ stop > 0
      THEN {stop} ELSE {}

(* A stop at the distance of the price, when that is closer than now.      *)
DynamicStops(t, close) ==
  LET stop == close - t.direction * TrailDistance
  IN  IF /\ TrailDistance > 0 /\ TrailAllowed(t, close)
         /\ t.stopLoss > 0 /\ t.direction * (close - t.stopLoss) >= TrailDistance
         /\ t.direction * (stop - t.stopLoss) > 0 /\ stop > 0
      THEN {stop} ELSE {}
=============================================================================
