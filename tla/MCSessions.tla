----------------------------- MODULE MCSessions -----------------------------
(* Small instances of Sessions.                                             *)
EXTENDS Sessions, TLC

CONSTANTS r1, r2, s1, s2, m1, m2, i1

\* Requests are interchangeable, and so are the tokens of a kind.
Symmetry == Permutations(Request) \cup Permutations(Session) \cup Permutations(Mail)
=============================================================================
