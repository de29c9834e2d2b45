----------------------------- MODULE MCScanQueue -----------------------------
(* Small instances of ScanQueue.                                            *)
EXTENDS ScanQueue

CONSTANTS v1, v2, w1, w2
=============================================================================
