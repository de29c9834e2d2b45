------------------------------- MODULE MCKyc -------------------------------
(* Small instances of Kyc.                                                  *)
EXTENDS Kyc, TLC

CONSTANTS a1, a2, t1, f1, f2

\* Request threads are interchangeable, and so are Razorpay's accounts.
Symmetry == Permutations(Front) \cup Permutations(Account)
=============================================================================
