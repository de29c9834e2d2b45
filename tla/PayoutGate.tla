----------------------------- MODULE PayoutGate -----------------------------
(***************************************************************************)
(* What the auth service promises of a seller's payout gate, whatever      *)
(* column it is kept in and however its handlers overlap: it opens only by *)
(* a verification, and a decision against the seller that was taken after  *)
(* the verification had been recorded closes it for good, until the next   *)
(* verification.                                                           *)
(***************************************************************************)
VARIABLES
  open,      \* the answer that downstream services get
  standing   \* some verification has not been revoked by a later decision

Init == open = FALSE /\ standing = FALSE

\* The gate opens at once, unless what an overlapping handler wrote prevents it.
Verify ==
  /\ standing' = TRUE
  /\ open' \in BOOLEAN

\* A decision against the seller that began when no verification was still to come.
Revoke ==
  /\ standing' = FALSE
  /\ open' = FALSE

\* One that overlapped a verification: either may prevail.
Deny ==
  /\ open' \in {open, FALSE}
  /\ UNCHANGED standing

Next == Verify \/ Revoke \/ Deny

Spec == Init /\ [][Next]_<<open, standing>>

\* Without a standing verification nothing is published or paid out.
FailsClosed == open => standing
=============================================================================
