--------------------------- MODULE MCBacktestLoop ---------------------------
(* Instances of BacktestLoop: the threads of the pool are interchangeable. *)
EXTENDS BacktestLoop, TLC

WorkerSymmetry == Permutations(Workers)
=============================================================================
