----------------------------- MODULE ScanContract -----------------------------
(***************************************************************************)
(* What the three scanners of the engine agree on: severities, the verdict  *)
(* on one scanner's findings, the verdict on several scanners, and the      *)
(* words that the seller sees.                                              *)
(***************************************************************************)
EXTENDS Integers

Severity == {"critical", "high", "medium", "low"}
Confidence == {"high", "medium", "low"}
Finding == [severity : Severity, confidence : Confidence]
Status == {"passed", "failed", "error"}

\* The default of block_on_medium_confidence_critical: it is off.
Blocking(f) == f.severity \in {"critical", "high"} /\ f.confidence = "high"

EvaluateStatus(findings, hasError) ==
  CASE hasError -> "error"
    [] ~hasError /\ \E f \in findings : Blocking(f) -> "failed"
    [] OTHER -> "passed"

\* merge_package_results and merge_scan_results: an error outweighs a failure.
Merged(statuses) ==
  CASE "error" \in statuses -> "error"
    [] "error" \notin statuses /\ "failed" \in statuses -> "failed"
    [] OTHER -> "passed"

\* A CVSS score, in tenths; no score counts as medium.
Rated(score, none) ==
  CASE score = none -> "medium"
    [] score # none /\ score >= 90 -> "critical"
    [] score # none /\ score < 90 /\ score >= 70 -> "high"
    [] score # none /\ score < 70 /\ score >= 40 -> "medium"
    [] OTHER -> "low"

\* A match in the OSV database is a finding of high confidence.
OsvFinding(score, none) == [severity |-> Rated(score, none), confidence |-> "high"]

SellerStatus(internal) ==
  CASE internal \in {"pending_scan", "scanning", "queued", "processing"} -> "pending_scan"
    [] internal \in {"passed", "live"} -> "live"
    [] internal \in {"failed", "scan_failed", "error", "dead"} -> "scan_failed"
=============================================================================
