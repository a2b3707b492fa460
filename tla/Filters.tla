------------------------------- MODULE Filters -------------------------------
(* A loop that copies some entries of a vector to a new one, as the czsc code *)
(* does wherever it filters bars, as a function over indices.                 *)
EXTENDS Naturals, Sequences, FiniteSets

(* What a filter leaves of s: the entries at the indices I, in their order.   *)
At(s, I) ==
    [n \in 1 .. Cardinality(I) |-> s[CHOOSE i \in I : Cardinality({j \in I : j <= i}) = n]]
=============================================================================
