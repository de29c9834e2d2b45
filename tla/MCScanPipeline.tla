---------------------------- MODULE MCScanPipeline ----------------------------
(* A small instance of ScanPipeline: a package whose dependency may get an    *)
(* advisory that blocks.                                                      *)
EXTENDS ScanPipeline

CONSTANTS r1, r2, p1, d1, a1

MCDepends == [p \in Package |-> <<d1>>]
MCScore == [a \in Advisory |-> 75]
=============================================================================
