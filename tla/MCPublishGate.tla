---------------------------- MODULE MCPublishGate ----------------------------
(* Small instances of PublishGate.                                          *)
EXTENDS PublishGate, TLC

CONSTANTS w1, w2

\* Request threads are interchangeable.
Symmetry == Permutations(Worker)
=============================================================================
