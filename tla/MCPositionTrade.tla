--------------------------- MODULE MCPositionTrade ---------------------------
(***************************************************************************)
(* The values of the constants of PositionTrade a .cfg cannot write.       *)
(***************************************************************************)
EXTENDS PositionTrade

BothDirections == {-1, 1}
=============================================================================
