-------------------------- MODULE MCIngestPipeline --------------------------
(* Two fibers over five codes in batches of two: all codes with prefixes, the *)
(* first window of one fiber with a gap, or nothing to request in it.  A      *)
(* queue for two chunks and two rounds of up to three.                        *)
EXTENDS IngestPipeline
MCPrefixings == {0 .. 4, {0, 1, 3, 4}, {0, 2, 4}}
=============================================================================
