---------------------------- MODULE MCHistorySync ----------------------------
(* Two fibers over two stocks with their market and one without, in a batch   *)
(* or in none.  The fibers are alike, and so are the two stocks.              *)
EXTENDS HistorySync, TLC
Alike == Permutations(Fibers) \cup Permutations(Prefixed)
=============================================================================
