--------------------------- MODULE MCPaperTrading ---------------------------
(* Instances of PaperTrading for TLC. *)
EXTENDS PaperTrading, TLC

TradeSymmetry == Permutations(TradeIds)
LongOnly == {1}
BothSides == {-1, 1}
=============================================================================
