----------------------------- MODULE MCAnalyzer -----------------------------
(***************************************************************************)
(* Analyzer with two endpoints, buckets of two time units and a ticker that  *)
(* is not aligned with them: ticks at 3, 5 and 7, current windows of two     *)
(* units, baselines of two.                                                  *)
(***************************************************************************)
EXTENDS Analyzer, TLC

CONSTANTS x, y

MCKey == {x, y}
MCTimes == {1, 2, 4, 6}
KeySymmetry == Permutations(MCKey)
=============================================================================
