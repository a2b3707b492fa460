---------------------------- MODULE MCQuoteClient ----------------------------
(* One caller, one heartbeat and the reconnecting fiber. *)
EXTENDS QuoteClient
MCShiftOne == [e \in 0 .. MaxExponent |-> 2 ^ e]
=============================================================================
