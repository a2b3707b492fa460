-------------------------- MODULE MCSnapshotSegment --------------------------
EXTENDS SnapshotSegment, TLC

MCHash == [x \in Codes |-> 0]
=============================================================================
