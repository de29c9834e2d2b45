----------------------------- MODULE MCAdmission -----------------------------
(* A small instance of Admission and of GitHubLink.  They have no variable  *)
(* in common: each takes its steps while the other is at rest, so that the  *)
(* states of the two add up instead of multiplying, and the requests of one *)
(* may go by the names of those of the other, and the users' accounts by    *)
(* those of the users: one permutation then serves both.                    *)
EXTENDS Admission, GitHubLink, TLC

CONSTANTS w1, w2, u1, u2, i1, c1, c2, k1, k2, x1, x2, x3
CONSTANTS n1, n2, g1, g2

MCInit == Init /\ LinkInit

MCNext ==
  \/ Next /\ LinkInit /\ UNCHANGED linkVars
  \/ LinkNext /\ Init /\ UNCHANGED vars

MCSpec == MCInit /\ [][MCNext]_<<vars, linkVars>>

Symmetry == Permutations(Worker) \cup Permutations(User) \cup Permutations(Code)
            \cup Permutations(Key) \cup Permutations(Row)
=============================================================================
