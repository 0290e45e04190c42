------------------------------- MODULE Rounds -------------------------------
(***************************************************************************)
(* What the multi-strategy backtest promises: time advances in rounds, and *)
(* in a round every strategy is processed once before the next one begins. *)
(***************************************************************************)
EXTENDS Integers

CONSTANTS Strategies, FromTs, ToTs, Timestep

VARIABLES ts,        \* the time of the round
          processed  \* the strategies already processed in this round

RoundInit == ts = FromTs /\ processed = {}

ProcessOne(s) ==
  /\ ts <= ToTs
  /\ s \in Strategies \ processed
  /\ processed' = processed \cup {s}
  /\ UNCHANGED ts

NextRound ==
  /\ ts <= ToTs
  /\ processed = Strategies
  /\ ts' = ts + Timestep
  /\ processed' = {}

RoundNext == NextRound \/ \E s \in Strategies : ProcessOne(s)

RoundSpec == RoundInit /\ [][RoundNext]_<<ts, processed>>
=============================================================================
