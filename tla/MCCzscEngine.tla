----------------------------- MODULE MCCzscEngine -----------------------------
(* Narrow bars, one above the other, and a wide one.  Histories are walks of  *)
(* eight narrow bars, each a step above or below the one before.              *)
EXTENDS CzscEngine
Narrow(l) == [hi |-> l + 1, lo |-> l]
MCShapes == {Narrow(l) : l \in 1 .. 5} \cup {[hi |-> 5, lo |-> 1]}
Walks == {w \in [1 .. 8 -> 1 .. 4] : \A i \in 1 .. 7 : w[i + 1] - w[i] \in {-1, 1}}
MCHistories == {[i \in 1 .. 8 |-> Narrow(w[i])] : w \in Walks}
=============================================================================
