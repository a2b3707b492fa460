--------------------------- MODULE MCSnapshotTable ---------------------------
EXTENDS SnapshotTable, TLC
CONSTANTS a, b, c
(* a and b share a home slot; c lives next to it. *)
MCHash == a :> 0 @@ b :> 0 @@ c :> 1
=============================================================================
