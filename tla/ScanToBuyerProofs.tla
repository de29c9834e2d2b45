-------------------------- MODULE ScanToBuyerProofs --------------------------
(***************************************************************************)
(* From the scan of a package to what buyers are told of it.  The theorems *)
(* about PackageScan, for any catalogue of rules, any package and any      *)
(* budgets: a package that passes has been read, the disk is bounded, and  *)
(* the history repeats no finding.  Then the theorems about Questions, for *)
(* any number of requests, versions and prices: what buyers are told at    *)
(* once, what is sent through seller-assist, and that a reply that was     *)
(* announced is there.  The two modules have no variable in common.        *)
(*                                                                         *)
(* The invariants of the scan follow a line.  While its candidates are     *)
(* considered, those that are left come after those that were claimed;     *)
(* when none is left, the line is cleared: it is harmless, or a blocking   *)
(* finding is recorded, which no later step takes away before the verdict. *)
(***************************************************************************)
EXTENDS PackageScan, Questions, FiniteSetTheorems, TLAPS

\* A finding blocks already, or the candidates of a line are harmless.
Hit == \E f \in found : Blocks(f)
Cleared(matches) == Hit \/ Harmless(matches, matches)

\* The line that is worked at, with its candidates: those considered precede those
\* to come, each is harmless unless something blocks, and a format that blocks and
\* was claimed was reported.
LineInv(matches) ==
  /\ at.line.todo \subseteq matches /\ at.line.claimed \subseteq matches \ at.line.todo
  /\ \A n \in at.line.claimed, m \in at.line.todo : ~Before(m, n)
  /\ Hit \/ \A m \in matches \ at.line.todo : Blocks(m) => Excused(m, matches)
  /\ \A n \in at.line.claimed : n.mark = "plain" /\ Blocks(n) => Hit

\* A file that the scanners read.
Scanned(p) == disk[p] # None /\ Opened(p, disk[p].file) /\ disk[p].file.text

\* A file that the secrets scanner has met: at.lines is what is left of it, and the
\* lines before are cleared, the last of them when it has been worked through.
FileInv(p) ==
  LET lines == disk[p].file.lines
      done == Len(lines) - Len(at.lines)
  IN
  /\ p = at.line.path =>
       /\ Len(at.lines) <= Len(lines)
       /\ \A k \in DOMAIN at.lines : at.lines[k] = lines[done + k]
  /\ \A i \in DOMAIN lines :
       \/ Cleared(lines[i])
       \/ p = at.line.path /\ (i > done \/ (i = done /\ LineInv(lines[i])))
WalkInv == at.pc = "secrets" => \A p \in at.seen : Scanned(p) => FileInv(p)

\* The tree is done, and the log as far as it was read.
HistoryInv ==
  at.pc = "history" =>
    /\ \A p \in Path \ Vendored : Scanned(p) =>
         \A i \in DOMAIN disk[p].file.lines : Cleared(disk[p].file.lines[i])
    /\ \A i \in DOMAIN upload.log : i < at.next =>
         \E read \in Legible(upload.log[i]) :
           Cleared(read) \/ (i = at.next - 1 /\ LineInv(read))

\* The static scanner keeps what it has found.
StaticInv ==
  at.pc = "static" =>
    \A p \in at.seen : Scanned(p) => StaticFlaws(p, disk[p].file) \subseteq flaws.findings

\* Of the first n - 1 members, the last of each name is on the disk; once the
\* scanners begin, the whole package is.
IsAt(i, p) == upload.members[i].path = p /\ upload.members[i].form # "dir"
Unpacking(n) ==
  \A i \in DOMAIN upload.members, p \in Path :
    /\ i < n /\ IsAt(i, p)
    /\ \A j \in DOMAIN upload.members : j < n /\ IsAt(j, p) => j <= i
    => disk[p] # None /\ disk[p].file = upload.members[i].file
StoredInv ==
  /\ at.pc = "unpack" => Unpacking(at.next)
  /\ at.pc = "chunk" => Unpacking(at.next + 1)
  /\ at.pc \in {"secrets", "history", "static"} =>
       \A p \in Path : \A f \in Contents(p) : disk[p] # None /\ disk[p].file = f

\* What belongs to which phase: no finding of the tree has a commit, and there is a
\* line or a member to work at.
PhaseInv ==
  /\ at.lines # <<>> => at.pc = "secrets" /\ at.line.path \in Path
  /\ at.line.todo # {} => at.pc \in {"secrets", "history"} /\ at.line.path \in Path
  /\ at.pc = "secrets" => at.line.commit = None /\ \A f \in found : f.commit = None
  /\ at.pc = "history" /\ at.line.todo # {} => at.line.commit # None
  /\ at.pc \in {"unpack", "chunk", "clone"} => found = {}
  /\ at.pc \in {"clone", "history"} => upload.source = "github"
  /\ at.pc \in {"unpack", "chunk"} => upload.source # "github"
  /\ at.pc = "chunk" =>
       at.next \in DOMAIN upload.members /\ disk[upload.members[at.next].path] # None

\* While the tree is walked, its findings are of files that were met and have no
\* commit; those of the open file stand before the line that is worked at, or were
\* claimed on it.
PlaceInv ==
  at.pc = "secrets" =>
    /\ at.lines # <<>> \/ at.line.todo # {} => at.line.path \in at.seen
    /\ \A f \in found :
         /\ f.origin = "tree" /\ f.path \in at.seen
         /\ f.path = at.line.path =>
              /\ f.line <= at.line.number
              /\ f.line = at.line.number =>
                   \E n \in at.line.claimed : n.rule = f.rule /\ n.from = f.from

\* What PassedIsRead says of each scanner.
SecretsRead ==
  /\ \A p \in Path \ Vendored : \A f \in Contents(p) :
       Opened(p, f) /\ f.text => \A i \in DOMAIN f.lines : Harmless(f.lines[i], f.lines[i])
  /\ upload.source = "github" =>
       \A i \in DOMAIN upload.log :
         upload.log[i].commit <= MaxCommits =>
           Harmless(Whole(upload.log[i]), upload.log[i].matches)
StaticRead ==
  \A p \in Path \ (Vendored \cup Built) : \A f \in Contents(p) :
    Opened(p, f) /\ f.text => \A g \in StaticFlaws(p, f) : ~Blocking(g)

\* A scanner's passed means that it has read its part, and the merged one that both
\* have.
VerdictInv ==
  /\ verdict.secrets = "passed" => SecretsRead
  /\ verdict.static = "passed" => StaticRead
  /\ verdict.overall = "passed" => verdict.secrets = "passed" /\ verdict.static = "passed"
  /\ at.pc # "end" => verdict.overall # "passed"
  /\ at.pc \in {"static", "cve"} => verdict.secrets # None
  /\ at.pc = "cve" => verdict.static # None

\* While an archive is unpacked, at.total counts at least what is on the disk.
DiskInv ==
  upload.source # "github" =>
    /\ \A p \in Path : disk[p] # None => disk[p].bytes <= MaxMember
    /\ IsFiniteSet(Chunks) /\ Cardinality(Chunks) <= MaxUnpacked
    /\ at.pc \in {"unpack", "chunk"} => Cardinality(Chunks) <= at.total

-----------------------------------------------------------------------------
(* Type correctness *)

Pc == {"unpack", "chunk", "clone", "secrets", "history", "static", "cve", "end"}

LEMMA StartType == \A pc \in Pc : Start(pc) \in At
BY DEF Start, Pc, At, Line, NoLine

\* Type facts of a submission.
LEMMA UploadType ==
  ASSUME TypeOK
  PROVE  /\ upload.members \in Seq(Member) /\ upload.log \in Seq(Added)
         /\ upload.tree \in [Path -> File \cup {None}]
BY PackageScanAssumption DEF TypeOK

\* A file that is in the scratch directory.
LEMMA StoredType ==
  ASSUME TypeOK, NEW p \in Path, disk[p] # None
  PROVE  /\ disk[p].file \in File /\ disk[p].bytes \in Nat
         /\ disk[p].file.lines \in Seq(SUBSET Match) /\ disk[p].file.size \in Nat
BY DEF TypeOK, Stored, File

LEMMA BytesType ==
  ASSUME NEW p \in Path, NEW f \in File
  PROVE  Bytes(p, f) \in Nat
BY DEF Bytes, Opened, File

LEMMA FlawsType ==
  ASSUME NEW p \in Path, NEW f \in File
  PROVE  StaticFlaws(p, f) \subseteq Finding
BY DEF StaticFlaws, ManifestFlaws, File, Finding, Severity, Confidence

LEMMA VisitedType ==
  ASSUME TypeOK, NEW p \in Path, disk[p] # None
  PROVE  Visited(p, disk[p].file) \in At
<1>. DEFINE f == disk[p].file
            b == Bytes(p, f)
            rest == IF at.pc = "secrets" /\ Opened(p, f) /\ f.text THEN f.lines ELSE <<>>
            line == [NoLine EXCEPT !.path = p]
<1>1. b \in Nat /\ rest \in Seq(SUBSET Match)
  BY StoredType, BytesType
<1>2. line \in Line
  BY DEF NoLine, Line
<1>3. Visited(p, f) = [at EXCEPT !.seen = @ \cup {p}, !.bytes = @ + b, !.lines = rest, !.line = line]
  BY DEF Visited
<1>4. at \in At
  BY DEF TypeOK
<1>5. at.seen \cup {p} \in SUBSET Path /\ at.bytes + b \in Nat
  BY <1>1, <1>4 DEF At
<1>. HIDE DEF f, b, rest, line
<1>6. Visited(p, f) \in At
  BY <1>1, <1>2, <1>3, <1>4, <1>5 DEF At
<1>. QED
  BY <1>6 DEF f

LEMMA VerdictType ==
  ASSUME TypeOK, NEW s \in Status
  PROVE  /\ [verdict EXCEPT !.secrets = s] \in Verdict
         /\ [verdict EXCEPT !.static = s] \in Verdict
         /\ [verdict EXCEPT !.overall = s] \in Verdict
BY DEF TypeOK, Verdict

LEMMA BrokeType ==
  ASSUME TypeOK, NEW pc, Broke(pc)
  PROVE  TypeOK'
<1>1. at' \in At
  BY StartType DEF Broke, Pc
<1>2. verdict' \in Verdict
  BY VerdictType DEF Broke, Status
<1>3. [findings |-> {}, broken |-> FALSE] \in Flaws /\ flaws \in Flaws
  BY DEF TypeOK, Flaws
<1>4. flaws' \in Flaws
  BY <1>3 DEF Broke
<1>. QED
  BY <1>1, <1>2, <1>4 DEF TypeOK, Broke

LEMMA RefuseType ==
  ASSUME TypeOK, Refuse
  PROVE  TypeOK'
BY StartType, VerdictType DEF TypeOK, Refuse, Pc, Status, Empty

LEMMA ReportedType ==
  ASSUME TypeOK,
         NEW f \in Secrets
  PROVE  Reported(f) \in SUBSET Secrets
<1>1. \A g \in found : Noted(g, f) \in Secrets
  BY DEF TypeOK, Noted, Secrets
<1>. QED
  BY <1>1 DEF TypeOK, Reported

LEMMA EvaluateType ==
  ASSUME NEW findings, NEW broken \in BOOLEAN
  PROVE  EvaluateStatus(findings, broken) \in Status
BY DEF EvaluateStatus, Status

LEMMA MergedType == \A s : Merged(s) \in Status
BY DEF Merged, Status

LEMMA InitType == Init => TypeOK
<1>. SUFFICES ASSUME Init PROVE TypeOK
  OBVIOUS
<1>1. at \in At
  BY StartType DEF Init, Pc
<1>. QED
  BY <1>1 DEF Init, TypeOK, Empty, Flaws, Verdict

LEMMA NextType == TypeOK /\ PhaseInv /\ [Next]_vars => TypeOK'
<1>. SUFFICES ASSUME TypeOK, PhaseInv, [Next]_vars PROVE TypeOK'
  OBVIOUS
<1>. at \in At
  BY DEF TypeOK
<1>1. CASE IntakeFails
  BY <1>1, RefuseType DEF IntakeFails
<1>2. CASE OpenMember
  <2>. DEFINE m == upload.members[at.next]
  <2>1. m \in Member
    BY <1>2, UploadType DEF OpenMember, TypeOK, At
  <2>2. CASE Refuse
    BY <2>2, RefuseType
  <2>3. CASE /\ ~Refused(m) /\ m.form = "dir"
             /\ at' = [at EXCEPT !.next = @ + 1]
             /\ UNCHANGED <<upload, disk, found, flaws, verdict>>
    <3>1. at' \in At
      BY <2>3, at \in At DEF At
    <3>. QED
      BY <2>3, <3>1 DEF TypeOK
  <2>4. CASE /\ ~Refused(m) /\ m.form # "dir"
             /\ disk' = [disk EXCEPT ![m.path] = [file |-> m.file, bytes |-> 0]]
             /\ at' = [at EXCEPT !.pc = "chunk"]
             /\ UNCHANGED <<upload, found, flaws, verdict>>
    <3>1. m.path \in Path /\ [file |-> m.file, bytes |-> 0] \in Stored
      BY <2>1 DEF Member, Stored
    <3>. QED
      BY <2>4, <3>1 DEF TypeOK, At
  <2>. QED
    BY <1>2, <2>2, <2>3, <2>4 DEF OpenMember
<1>3. CASE ReadChunk
  <2>. DEFINE p == upload.members[at.next].path
              bytes == disk[p].bytes
  <2>1. CASE Refuse
    BY <2>1, RefuseType
  <2>2. CASE /\ at' = [at EXCEPT !.pc = "unpack", !.next = @ + 1]
             /\ UNCHANGED <<upload, disk, found, flaws, verdict>>
    <3>1. at.next + 1 \in Nat \ {0}
      BY DEF At
    <3>2. at' \in At
      BY <2>2, <3>1, at \in At DEF At
    <3>. QED
      BY <2>2, <3>2 DEF TypeOK
  <2>3. CASE /\ disk' = [disk EXCEPT ![p].bytes = bytes + 1]
             /\ at' = [at EXCEPT !.total = @ + 1]
             /\ UNCHANGED <<upload, found, flaws, verdict>>
    <3>1. at.next \in DOMAIN upload.members /\ disk[p] # None
      BY <1>3 DEF ReadChunk, PhaseInv
    <3>2. upload.members[at.next] \in Member
      BY <3>1, UploadType
    <3>3. p \in Path
      BY <3>2 DEF Member
    <3>4. disk[p] \in Stored /\ bytes + 1 \in Nat
      BY <3>1, <3>3, StoredType DEF TypeOK
    <3>5. disk' \in [Path -> Stored \cup {None}]
      BY <2>3, <3>4 DEF TypeOK, Stored
    <3>. QED
      BY <2>3, <3>5 DEF TypeOK, At
  <2>. QED
    BY <1>3, <2>1, <2>2, <2>3 DEF ReadChunk
<1>4. CASE Unpacked
  BY <1>4, StartType DEF Unpacked, TypeOK, Pc
<1>5. CASE Clone
  <2>1. disk' \in [Path -> Stored \cup {None}]
    BY <1>5, UploadType DEF Clone, Stored, File
  <2>. QED
    BY <1>5, <2>1, StartType DEF Clone, TypeOK, Pc
<1>6. CASE TimeOut
  BY <1>6, BrokeType DEF TimeOut
<1>7. ASSUME NEW p \in Path, Visit(p) PROVE TypeOK'
  <2>1. disk[p] # None
    BY <1>7 DEF Visit, Unseen
  <2>. QED
    BY <1>7, <2>1, BrokeType, VisitedType DEF Visit, TypeOK
<1>8. ASSUME NEW p \in Path, Inspect(p) PROVE TypeOK'
  <2>1. disk[p] # None /\ disk[p].file \in File
    BY <1>8, StoredType DEF Inspect, Unseen
  <2>2. CASE Broke("static")
    BY <2>2, BrokeType
  <2>3. CASE ~OverBudget(p, disk[p].file)
    <3>1. at' \in At
      BY <1>8, <2>1, <2>3, VisitedType DEF Inspect
    <3>2. flaws' \in Flaws
      <4>1. StaticFlaws(p, disk[p].file) \subseteq Finding
        BY <2>1, FlawsType
      <4>2. disk[p].file.parses \in BOOLEAN
        BY <2>1 DEF File
      <4>. DEFINE g == [findings |-> flaws.findings \cup StaticFlaws(p, disk[p].file),
                        broken |-> flaws.broken \/ (p \in Manifest /\ ~disk[p].file.parses)]
      <4>3. g \in Flaws
        BY <4>1, <4>2 DEF TypeOK, Flaws
      <4>4. flaws' \in {g, flaws}
        BY <1>8, <2>3 DEF Inspect, Broke
      <4>. QED
        BY <4>3, <4>4 DEF TypeOK
    <3>. QED
      BY <1>8, <2>3, <3>1, <3>2 DEF Inspect, TypeOK
  <2>. QED
    BY <1>8, <2>2, <2>3 DEF Inspect
<1>9. CASE NextLine
  <2>1. Head(at.lines) \in SUBSET Match /\ Tail(at.lines) \in Seq(SUBSET Match)
    BY <1>9 DEF NextLine, TypeOK, At
  <2>. DEFINE line == [at.line EXCEPT !.number = at.line.number + 1, !.todo = Head(at.lines),
                                      !.claimed = {}]
  <2>2. at \in At /\ at.line \in Line /\ at.line.number \in Nat
    BY DEF TypeOK, At, Line
  <2>3. line \in Line
    <3>1. at.line.number + 1 \in Nat
      BY <2>2
    <3>. QED
      BY <2>1, <2>2, <3>1 DEF Line
  <2>4. at' = [at EXCEPT !.lines = Tail(at.lines), !.line = line]
    BY <1>9, <2>2 DEF NextLine, At
  <2>. HIDE DEF line
  <2>5. at' \in At
    BY <2>1, <2>2, <2>3, <2>4 DEF At
  <2>. QED
    BY <1>9, <2>5 DEF NextLine, TypeOK
<1>10. ASSUME NEW m \in at.line.todo, Consider(m) PROVE TypeOK'
  <2>1. /\ m \in Match /\ at.line.path \in Path /\ at.line.commit \in Nat \cup {None}
        /\ at.line.number \in Nat
    BY <1>10 DEF TypeOK, At, Line, PhaseInv
  <2>. DEFINE claimed == IF Claims(m) THEN at.line.claimed \cup {m} ELSE at.line.claimed
  <2>2. at' = [at EXCEPT !.line.todo = @ \ {m}, !.line.claimed = claimed]
    BY <1>10 DEF Consider
  <2>3. claimed \in SUBSET Match
    BY <2>1 DEF TypeOK, At, Line
  <2>. HIDE DEF claimed
  <2>4. at' \in At
    BY <2>2, <2>3 DEF TypeOK, At, Line
  <2>5. Secret(m) \in Secrets
    BY <2>1 DEF Secret, Secrets, Match
  <2>. QED
    BY <1>10, <2>4, <2>5, ReportedType DEF Consider, TypeOK
<1>11. CASE Walked
  <2>1. at' \in At
    BY <1>11, StartType DEF Walked, Judged, Pc
  <2>. QED
    BY <1>11, <2>1, EvaluateType, VerdictType DEF Walked, Judged, TypeOK
<1>12. CASE ReadLog
  <2>1. CASE Broke("history")
    BY <2>1, BrokeType
  <2>. DEFINE a == upload.log[at.next]
  <2>2. ASSUME NEW read \in Legible(a),
               at' = [at EXCEPT !.next = @ + 1,
                                !.line = [path |-> a.path, commit |-> a.commit, number |-> at.next,
                                          todo |-> read, claimed |-> {}]],
               UNCHANGED <<upload, disk, found, flaws, verdict>>
        PROVE  TypeOK'
    <3>0. at.next \in DOMAIN upload.log
      BY <1>12 DEF ReadLog, LogEnds
    <3>1. a \in Added /\ at.next \in Nat
      BY <3>0, UploadType DEF TypeOK, At
    <3>2. [path |-> a.path, commit |-> a.commit, number |-> at.next,
           todo |-> read, claimed |-> {}] \in Line
      BY <3>1 DEF Added, Line, Legible
    <3>3. at.next + 1 \in Nat \ {0}
      BY DEF At
    <3>4. at' \in At
      BY <2>2, <3>2, <3>3, at \in At DEF At
    <3>. QED
      BY <2>2, <3>4 DEF TypeOK
  <2>. QED
    BY <1>12, <2>1, <2>2 DEF ReadLog
<1>13. CASE LogRead
  BY <1>13, StartType, EvaluateType, VerdictType DEF LogRead, Judged, TypeOK, Pc
<1>14. CASE Inspected
  BY <1>14, StartType, EvaluateType, VerdictType DEF Inspected, Flaws, TypeOK, Pc
<1>15. CASE Conclude
  BY <1>15, StartType, MergedType, VerdictType DEF Conclude, TypeOK, Pc, Empty
<1>16. CASE UNCHANGED vars
  BY <1>16 DEF vars, TypeOK
<1>. QED
  BY <1>1, <1>2, <1>3, <1>4, <1>5, <1>6, <1>7, <1>8, <1>9, <1>10, <1>11, <1>12, <1>13,
     <1>14, <1>15, <1>16 DEF Next

-----------------------------------------------------------------------------
(* Phases of a scan *)

LEMMA StartFields ==
  ASSUME NEW pc
  PROVE  /\ Start(pc).pc = pc /\ Start(pc).next = 1 /\ Start(pc).total = 0
         /\ Start(pc).seen = {} /\ Start(pc).lines = <<>>
         /\ Start(pc).line.todo = {} /\ Start(pc).line.commit = None
BY DEF Start, NoLine

\* What a candidate does to the place of the scan.
LEMMA ConsiderFields ==
  ASSUME TypeOK, NEW m \in at.line.todo, Consider(m)
  PROVE  /\ at'.pc = at.pc /\ at'.next = at.next /\ at'.seen = at.seen /\ at'.lines = at.lines
         /\ at'.line.path = at.line.path /\ at'.line.commit = at.line.commit
         /\ at'.line.number = at.line.number
         /\ at'.line.todo = at.line.todo \ {m}
         /\ at'.line.claimed = IF Claims(m) THEN at.line.claimed \cup {m} ELSE at.line.claimed
<1>. DEFINE claimed == IF Claims(m) THEN at.line.claimed \cup {m} ELSE at.line.claimed
<1>1. at' = [at EXCEPT !.line.todo = @ \ {m}, !.line.claimed = claimed]
  BY DEF Consider
<1>. HIDE DEF claimed
<1>2. at \in At /\ at.line \in Line
  BY DEF TypeOK, At
<1>3. /\ at'.pc = at.pc /\ at'.next = at.next /\ at'.seen = at.seen /\ at'.lines = at.lines
      /\ at'.line.path = at.line.path /\ at'.line.commit = at.line.commit
      /\ at'.line.number = at.line.number
      /\ at'.line.todo = at.line.todo \ {m} /\ at'.line.claimed = claimed
  BY <1>1, <1>2 DEF At, Line
<1>. QED
  BY <1>3 DEF claimed

LEMMA NextLineFields ==
  ASSUME TypeOK, NextLine
  PROVE  /\ at'.pc = at.pc /\ at'.next = at.next /\ at'.seen = at.seen /\ at'.lines = Tail(at.lines)
         /\ at'.line.path = at.line.path /\ at'.line.commit = at.line.commit
         /\ at'.line.todo = Head(at.lines) /\ at'.line.claimed = {}
         /\ at'.line.number = at.line.number + 1
<1>. DEFINE line == [at.line EXCEPT !.number = at.line.number + 1, !.todo = Head(at.lines),
                                    !.claimed = {}]
<1>1. at \in At /\ at.line \in Line
  BY DEF TypeOK, At
<1>2. /\ line.path = at.line.path /\ line.commit = at.line.commit
      /\ line.todo = Head(at.lines) /\ line.claimed = {} /\ line.number = at.line.number + 1
  BY <1>1 DEF Line
<1>3. at' = [at EXCEPT !.lines = Tail(at.lines), !.line = line]
  BY <1>1 DEF NextLine, At
<1>. HIDE DEF line
<1>4. /\ at'.pc = at.pc /\ at'.next = at.next /\ at'.seen = at.seen /\ at'.lines = Tail(at.lines)
      /\ at'.line = line
  BY <1>1, <1>3 DEF At
<1>. QED
  BY <1>2, <1>4

LEMMA VisitedFields ==
  ASSUME TypeOK, NEW p, NEW f
  PROVE  LET v == Visited(p, f) IN
         /\ v.pc = at.pc /\ v.next = at.next /\ v.seen = at.seen \cup {p}
         /\ v.lines = IF at.pc = "secrets" /\ Opened(p, f) /\ f.text THEN f.lines ELSE <<>>
         /\ v.line.path = p /\ v.line.commit = None /\ v.line.todo = {}
<1>1. /\ at \in At
      /\ LET l == [NoLine EXCEPT !.path = p] IN l.path = p /\ l.commit = None /\ l.todo = {}
  BY DEF TypeOK, NoLine
<1>. QED
  BY <1>1 DEF Visited, At

\* The log's next line.
LEMMA ReadLogFields ==
  ASSUME TypeOK, ReadLog, ~Broke("history")
  PROVE  LET a == upload.log[at.next] IN
         /\ at.next \in DOMAIN upload.log /\ a \in Added
         /\ at'.pc = at.pc /\ at'.next = at.next + 1 /\ at'.seen = at.seen /\ at'.lines = at.lines
         /\ at'.line.path = a.path /\ at'.line.commit = a.commit /\ at'.line.claimed = {}
         /\ at'.line.todo \in Legible(a)
         /\ UNCHANGED <<upload, disk, found, flaws, verdict>>
<1>1. at.next \in DOMAIN upload.log
  BY DEF ReadLog, LogEnds
<1>2. upload.log[at.next] \in Added
  BY <1>1, UploadType
<1>3. at \in At
  BY DEF TypeOK
<1>. DEFINE a == upload.log[at.next]
            Begun(read) == [path |-> a.path, commit |-> a.commit, number |-> at.next,
                            todo |-> read, claimed |-> {}]
<1>4. PICK read \in Legible(a) : at' = [at EXCEPT !.next = @ + 1, !.line = Begun(read)]
  BY DEF ReadLog
<1>5. UNCHANGED <<upload, disk, found, flaws, verdict>>
  BY DEF ReadLog
<1>6. /\ Begun(read).path = a.path /\ Begun(read).commit = a.commit
      /\ Begun(read).claimed = {} /\ Begun(read).todo = read
  OBVIOUS
<1>. HIDE DEF Begun
<1>7. /\ at'.pc = at.pc /\ at'.next = at.next + 1 /\ at'.seen = at.seen /\ at'.lines = at.lines
      /\ at'.line = Begun(read)
  BY <1>3, <1>4 DEF At
<1>. QED
  BY <1>1, <1>2, <1>4, <1>5, <1>6, <1>7

\* A scanner that breaks off.
LEMMA BrokeFields ==
  ASSUME NEW pc, Broke(pc)
  PROVE  /\ pc # "static" => /\ at' = Start("static") /\ found' = {} /\ flaws' = flaws
                             /\ verdict' = [verdict EXCEPT !.secrets = "error"]
         /\ pc = "static" => /\ at' = Start("cve") /\ found' = found
                             /\ verdict' = [verdict EXCEPT !.static = "error"]
         /\ upload' = upload /\ disk' = disk
BY DEF Broke

\* The step of an action that starts another phase.
LEMMA PhaseStart ==
  ASSUME NEW pc \in {"secrets", "static", "cve", "end"}, at' = Start(pc),
         pc = "secrets" => found' = {}
  PROVE  PhaseInv'
BY StartFields DEF PhaseInv

LEMMA PhaseInit == Init => PhaseInv
<1>. SUFFICES ASSUME Init PROVE PhaseInv
  OBVIOUS
<1>1. PICK pc \in {"clone", "unpack"} : /\ at = Start(pc)
                                        /\ pc = "clone" <=> upload.source = "github"
  BY DEF Init
<1>. QED
  BY <1>1, StartFields DEF PhaseInv, Init

LEMMA PhaseNext == TypeOK /\ PhaseInv /\ [Next]_vars => PhaseInv'
<1>. SUFFICES ASSUME TypeOK, PhaseInv, [Next]_vars PROVE PhaseInv'
  OBVIOUS
<1>0. at \in At
  BY DEF TypeOK
<1>1. CASE Refuse \/ Broke("secrets") \/ Broke("history") \/ Broke("static")
  <2>1. \E pc \in {"static", "cve", "end"} : at' = Start(pc)
    BY <1>1 DEF Refuse, Broke
  <2>. QED
    BY <2>1, PhaseStart
<1>2. CASE OpenMember /\ ~Refuse
  <2>. DEFINE m == upload.members[at.next]
  <2>1. at.next \in DOMAIN upload.members /\ at.pc = "unpack"
    BY <1>0, <1>2, UploadType DEF OpenMember, At
  <2>2. m \in Member
    BY <2>1, UploadType
  <2>3. /\ at'.lines = at.lines /\ at'.line = at.line /\ found' = found /\ upload' = upload
        /\ at'.pc \in {"unpack", "chunk"}
        /\ at'.pc = "chunk" => /\ at'.next = at.next
                               /\ disk' = [disk EXCEPT ![m.path] = [file |-> m.file, bytes |-> 0]]
    BY <1>0, <1>2, <2>1 DEF OpenMember, At
  <2>4. at'.pc = "chunk" => disk'[m.path] # None
    <3>1. m.path \in Path /\ [file |-> m.file, bytes |-> 0] \in Stored
      BY <2>2 DEF Member, Stored
    <3>. QED
      BY <2>3, <3>1, PackageScanAssumption DEF TypeOK
  <2>. QED
    BY <2>1, <2>3, <2>4 DEF PhaseInv
<1>3. CASE ReadChunk /\ ~Refuse
  <2>. DEFINE p == upload.members[at.next].path
  <2>1. at.next \in DOMAIN upload.members /\ disk[p] # None /\ at.pc = "chunk"
    BY <1>3 DEF ReadChunk, PhaseInv
  <2>2. /\ at'.lines = at.lines /\ at'.line = at.line /\ found' = found /\ upload' = upload
        /\ at'.pc \in {"unpack", "chunk"}
        /\ at'.pc = "chunk" => /\ at'.next = at.next
                               /\ disk' = [disk EXCEPT ![p].bytes = disk[p].bytes + 1]
    BY <1>0, <1>3, <2>1 DEF ReadChunk, At
  <2>3. at'.pc = "chunk" => disk'[p] # None
    <3>. upload.members[at.next] \in Member
      BY <2>1, UploadType
    <3>1. p \in Path
      BY DEF Member
    <3>2. [disk[p] EXCEPT !.bytes = disk[p].bytes + 1] \in Stored
      BY <2>1, <3>1 DEF TypeOK, Stored
    <3>. QED
      BY <2>2, <3>1, <3>2, PackageScanAssumption DEF TypeOK
  <2>. QED
    BY <2>1, <2>2, <2>3 DEF PhaseInv
<1>4. CASE Unpacked \/ Clone
  BY <1>4, PhaseStart DEF Unpacked, Clone, PhaseInv
<1>5. ASSUME NEW p \in Path, Visit(p) \/ Inspect(p), ~Broke("secrets"), ~Broke("static")
      PROVE  PhaseInv'
  <2>1. /\ at' = Visited(p, disk[p].file) /\ found' = found /\ at.pc \in {"secrets", "static"}
        /\ upload' = upload
    BY <1>5 DEF Visit, Inspect
  <2>. QED
    BY <2>1, VisitedFields DEF PhaseInv
<1>6. CASE NextLine
  <2>1. /\ at.pc = "secrets" /\ upload' = upload /\ found' = found
        /\ at.line.path \in Path /\ at.line.commit = None /\ \A f \in found : f.commit = None
    BY <1>6 DEF NextLine, PhaseInv
  <2>. QED
    BY <1>6, <2>1, NextLineFields DEF PhaseInv
<1>7. ASSUME NEW m \in at.line.todo, Consider(m) PROVE PhaseInv'
  <2>1. /\ at.pc \in {"secrets", "history"} /\ upload' = upload
        /\ at.pc = "history" => at.line.commit # None
    BY <1>7 DEF Consider, PhaseInv
  <2>2. at.pc = "secrets" => \A f \in found' : f.commit = None
    BY <1>7 DEF Consider, PhaseInv, Reported, Secret
  <2>. QED
    BY <1>7, <2>1, <2>2, ConsiderFields DEF PhaseInv
<1>8. CASE Walked
  <2>1. CASE upload.source = "github"
    BY <1>8, <2>1, StartFields DEF Walked, PhaseInv
  <2>2. CASE upload.source # "github"
    BY <1>8, <2>2, PhaseStart DEF Walked, Judged
  <2>. QED
    BY <2>1, <2>2
<1>9. CASE ReadLog /\ ~Broke("history")
  <2>1. at.pc = "history" /\ at.lines = <<>>
    BY <1>9 DEF ReadLog, Resting
  <2>2. upload.log[at.next] \in Added => upload.log[at.next].commit # None
    BY PackageScanAssumption DEF Added
  <2>. QED
    BY <1>9, <2>1, <2>2, ReadLogFields DEF PhaseInv, Added
<1>10. CASE LogRead \/ Inspected \/ Conclude
  BY <1>10, PhaseStart DEF LogRead, Judged, Inspected, Conclude
<1>11. CASE UNCHANGED vars
  BY <1>11 DEF vars, PhaseInv
<1>. QED
  BY <1>1, <1>2, <1>3, <1>4, <1>5, <1>6, <1>7, <1>8, <1>9, <1>10, <1>11
  DEF Next, IntakeFails, TimeOut

LEMMA PackagePhases == Spec => [](TypeOK /\ PhaseInv)
<1>1. Init => TypeOK /\ PhaseInv
  BY InitType, PhaseInit
<1>2. TypeOK /\ PhaseInv /\ [Next]_vars => TypeOK' /\ PhaseInv'
  BY NextType, PhaseNext
<1>. QED
  BY <1>1, <1>2, PTL DEF Spec

\* Every variable has its type in every reachable state: verdicts are statuses, and
\* findings are of the catalogue's rules.
THEOREM PackageTypeCorrect == Spec => []TypeOK
<1>1. TypeOK /\ PhaseInv => TypeOK
  OBVIOUS
<1>. QED
  BY <1>1, PackagePhases, PTL

-----------------------------------------------------------------------------
(* Findings *)

\* Findings change only with a candidate, or when the scanner breaks off.
LEMMA FoundSteps ==
  ASSUME TypeOK, PhaseInv, [Next]_vars
  PROVE  \/ found' = found \/ found' = {}
         \/ \E m \in at.line.todo : Consider(m)
<1>1. ASSUME NEW p \in Path, Visit(p) \/ Inspect(p) PROVE found' = found \/ found' = {}
  BY <1>1 DEF Visit, Inspect, Broke
<1>. QED
  BY <1>1 DEF Next, vars, IntakeFails, Refuse, OpenMember, ReadChunk, Unpacked, Clone, TimeOut,
     Broke, NextLine, Walked, Judged, ReadLog, LogRead, Inspected, Conclude

\* What is reported has a finding of its rule, and no rule that has one loses it.
LEMMA ReportedFacts ==
  ASSUME TypeOK, NEW f \in Secrets
  PROVE  /\ \E g \in Reported(f) : g.rule = f.rule
         /\ \A g \in found : \E h \in Reported(f) : h.rule = g.rule
<1>1. \A g \in found : Noted(g, f).rule = g.rule
  BY DEF Noted, TypeOK, Secrets
<1>2. CASE f.origin = "tree" \/ \A g \in found : ~SameKey(g, f)
  BY <1>2 DEF Reported
<1>3. CASE ~(f.origin = "tree" \/ \A g \in found : ~SameKey(g, f))
  <2>1. Reported(f) = {Noted(g, f) : g \in found}
    BY <1>3 DEF Reported
  <2>2. PICK g \in found : g.rule = f.rule
    BY <1>3 DEF SameKey
  <2>. QED
    BY <1>1, <2>1, <2>2
<1>. QED
  BY <1>2, <1>3

\* The finding of a candidate.
LEMMA SecretFacts ==
  ASSUME TypeOK, PhaseInv, NEW m \in at.line.todo
  PROVE  /\ Secret(m) \in Secrets /\ Secret(m).rule = m.rule
         /\ Secret(m).path = at.line.path /\ Secret(m).line = at.line.number
         /\ Secret(m).from = m.from /\ Secret(m).commit = at.line.commit
         /\ Secret(m).origin = IF at.line.commit = None THEN "tree" ELSE "history"
<1>1. /\ m \in Match /\ at.line.path \in Path /\ at.line.commit \in Nat \cup {None}
      /\ at.line.number \in Nat
  BY DEF TypeOK, At, Line, PhaseInv
<1>. QED
  BY <1>1 DEF Secret, Secrets, Match

\* A candidate that claims its span is reported, and no rule loses its finding.
LEMMA ConsiderFacts ==
  ASSUME TypeOK, PhaseInv, NEW m \in at.line.todo, Consider(m)
  PROVE  /\ \A g \in found : \E h \in found' : h.rule = g.rule
         /\ Claims(m) /\ m.mark = "plain" => \E h \in found' : h.rule = m.rule
<1>1. found' = Reported(Secret(m)) \/ (found' = found /\ ~(Claims(m) /\ m.mark = "plain"))
  BY DEF Consider
<1>. QED
  BY <1>1, SecretFacts, ReportedFacts

\* In the tree a candidate claims a span that starts where no other one does.
LEMMA NewPlace ==
  ASSUME TypeOK, PhaseInv, PlaceInv, at.pc = "secrets", NEW m \in at.line.todo, Claims(m),
         NEW g \in found, SameKey(g, Secret(m))
  PROVE  g.origin = "tree" /\ g.commit = None /\ (Later(Secret(m), g) \/ Later(g, Secret(m)))
<1>1. g.path = at.line.path /\ g.rule = m.rule /\ g.line \in Nat /\ g.from \in Nat
  BY SecretFacts DEF SameKey, TypeOK, Secrets
<1>2. /\ g.origin = "tree" /\ g.commit = None /\ g.line <= at.line.number
      /\ g.line = at.line.number => \E n \in at.line.claimed : n.rule = g.rule /\ n.from = g.from
  BY <1>1 DEF PlaceInv, PhaseInv
<1>3. m \in Match /\ at.line.claimed \subseteq Match /\ at.line.number \in Nat
  BY DEF TypeOK, At, Line
<1>4. ASSUME g.line = at.line.number, g.from = m.from PROVE FALSE
  <2>1. PICK n \in at.line.claimed : n.from = m.from
    BY <1>2, <1>4
  <2>2. m.from < m.to /\ n.from < n.to
    BY <1>3, <2>1 DEF Match
  <2>. QED
    BY <2>1, <2>2 DEF Claims, Overlap
<1>5. m.from \in Nat
  BY <1>3 DEF Match
<1>. QED
  BY <1>1, <1>2, <1>3, <1>4, <1>5, SecretFacts DEF Later

\* A finding of the history notes its commit at the last of the tree's findings with
\* its key, or is the only one of it.
LEMMA ReportedOnceHistory ==
  ASSUME TypeOK, ReportedOnce, NEW f \in Secrets, f.origin = "history"
  PROVE  \A g, h \in Reported(f) : SameKey(g, h) /\ g # h =>
           /\ g.origin = "tree" /\ h.origin = "tree"
           /\ Later(g, h) \/ Later(h, g)
           /\ g.commit # None => Later(g, h)
<1>0. found \subseteq Secrets
  BY DEF TypeOK
<1>1. CASE \A g \in found : ~SameKey(g, f)
  BY <1>1 DEF Reported, ReportedOnce, SameKey
<1>2. CASE ~\A g \in found : ~SameKey(g, f)
  <2>1. Reported(f) = {Noted(g, f) : g \in found}
    BY <1>2 DEF Reported
  <2>2. ASSUME NEW g \in found
        PROVE  /\ Noted(g, f).rule = g.rule /\ Noted(g, f).path = g.path
               /\ Noted(g, f).text = g.text /\ Noted(g, f).line = g.line
               /\ Noted(g, f).from = g.from /\ Noted(g, f).origin = g.origin
               /\ Noted(g, f).commit # None => g.commit # None \/ Indexed(g)
    BY <1>0 DEF Noted, Secrets
  <2>3. ASSUME NEW g \in found, NEW h \in found, SameKey(g, h), g # h
        PROVE  /\ g.origin = "tree" /\ h.origin = "tree"
               /\ Later(g, h) \/ Later(h, g)
               /\ g.commit # None \/ Indexed(g) => Later(g, h)
    BY <2>3 DEF ReportedOnce, Indexed
  <2>4. ASSUME NEW g \in found, NEW h \in found,
               SameKey(Noted(g, f), Noted(h, f)), Noted(g, f) # Noted(h, f)
        PROVE  /\ Noted(g, f).origin = "tree" /\ Noted(h, f).origin = "tree"
               /\ Later(Noted(g, f), Noted(h, f)) \/ Later(Noted(h, f), Noted(g, f))
               /\ Noted(g, f).commit # None => Later(Noted(g, f), Noted(h, f))
    <3>1. SameKey(g, h) /\ g # h
      BY <2>2, <2>4 DEF SameKey
    <3>. QED
      BY <2>2, <2>3, <3>1 DEF Later
  <2>. QED
    BY <2>1, <2>4
<1>. QED
  BY <1>1, <1>2

LEMMA ReportedOnceConsider ==
  ASSUME TypeOK, PhaseInv, PlaceInv, ReportedOnce, NEW m \in at.line.todo, Consider(m)
  PROVE  ReportedOnce'
<1>. DEFINE f == Secret(m)
<1>1. CASE found' = found
  BY <1>1 DEF ReportedOnce, SameKey, Later
<1>2. CASE found' = Reported(f) /\ at.line.commit # None
  <2>1. f \in Secrets /\ f.origin = "history"
    BY <1>2, SecretFacts
  <2>. QED
    BY <1>2, <2>1, ReportedOnceHistory DEF ReportedOnce, SameKey, Later
<1>3. CASE found' = Reported(f) /\ at.line.commit = None /\ Claims(m)
  <2>1. at.pc = "secrets" /\ f.origin = "tree" /\ f.commit = None
    BY <1>3, SecretFacts DEF PhaseInv
  <2>2. found' = found \cup {f}
    BY <1>3, <2>1 DEF Reported
  <2>3. \A g \in found :
          SameKey(g, f) => g.origin = "tree" /\ g.commit = None /\ (Later(f, g) \/ Later(g, f))
    BY <1>3, <2>1, NewPlace
  <2>4. \A g : SameKey(f, g) => SameKey(g, f)
    BY DEF SameKey
  <2>. HIDE DEF f
  <2>5. ASSUME NEW g \in found, NEW h \in found \cup {f}, SameKey(g, h), g # h
        PROVE  /\ g.origin = "tree" /\ h.origin = "tree"
               /\ Later(g, h) \/ Later(h, g)
               /\ g.commit # None => Later(g, h)
    BY <2>1, <2>3, <2>5 DEF ReportedOnce
  <2>6. ASSUME NEW h \in found, SameKey(f, h)
        PROVE  /\ f.origin = "tree" /\ h.origin = "tree"
               /\ Later(f, h) \/ Later(h, f)
               /\ f.commit = None
    BY <2>1, <2>3, <2>4, <2>6
  <2>7. ASSUME NEW g \in found \cup {f}, NEW h \in found \cup {f}, SameKey(g, h), g # h
        PROVE  /\ g.origin = "tree" /\ h.origin = "tree"
               /\ Later(g, h) \/ Later(h, g)
               /\ g.commit # None => Later(g, h)
    BY <2>5, <2>6, <2>7
  <2>. QED
    BY <2>2, <2>7 DEF ReportedOnce, SameKey, Later
<1>. QED
  BY <1>1, <1>2, <1>3 DEF Consider

LEMMA PlaceNext == TypeOK /\ PhaseInv /\ PlaceInv /\ [Next]_vars => PlaceInv'
<1>. SUFFICES ASSUME TypeOK, PhaseInv, PlaceInv, [Next]_vars, at'.pc = "secrets" PROVE PlaceInv'
  BY DEF PlaceInv
<1>0. at \in At
  BY DEF TypeOK
<1>1. CASE Unpacked \/ Clone
  <2>1. found' = {} /\ at' = Start("secrets")
    BY <1>1 DEF Unpacked, Clone, PhaseInv
  <2>. QED
    BY <2>1, StartFields DEF PlaceInv
<1>2. ASSUME NEW p \in Path, Visit(p), ~Broke("secrets") PROVE PlaceInv'
  <2>1. /\ at.pc = "secrets" /\ p \notin at.seen /\ found' = found
        /\ at' = Visited(p, disk[p].file)
    BY <1>2 DEF Visit, Unseen
  <2>2. at'.seen = at.seen \cup {p} /\ at'.line.path = p
    BY <2>1, VisitedFields
  <2>. QED
    BY <2>1, <2>2 DEF PlaceInv
<1>3. CASE NextLine
  <2>1. /\ at.pc = "secrets" /\ at.lines # <<>> /\ found' = found
        /\ at.line.number \in Nat /\ found \subseteq Secrets
    BY <1>0, <1>3 DEF NextLine, PhaseInv, TypeOK, At, Line
  <2>2. ASSUME NEW f \in found, f.path = at.line.path PROVE f.line < at.line.number + 1
    BY <2>1, <2>2 DEF PlaceInv, Secrets
  <2>3. /\ at'.line.number = at.line.number + 1 /\ at'.line.path = at.line.path
        /\ at'.seen = at.seen
    BY <1>3, NextLineFields
  <2>. QED
    BY <2>1, <2>2, <2>3 DEF PlaceInv, Secrets
<1>4. ASSUME NEW m \in at.line.todo, Consider(m) PROVE PlaceInv'
  <2>1. at.pc = "secrets" /\ at.line.commit = None /\ at.line.path \in at.seen
    BY <1>4, ConsiderFields DEF PlaceInv, PhaseInv
  <2>2. /\ Secret(m).origin = "tree" /\ Secret(m).path = at.line.path
        /\ Secret(m).line = at.line.number /\ Secret(m).rule = m.rule /\ Secret(m).from = m.from
    BY <2>1, SecretFacts
  <2>3. found' = found \/ (Claims(m) /\ found' = found \cup {Secret(m)})
    BY <1>4, <2>2 DEF Consider, Reported
  <2>4. /\ at'.line.number = at.line.number /\ at'.line.path = at.line.path /\ at'.seen = at.seen
        /\ at'.line.claimed = IF Claims(m) THEN at.line.claimed \cup {m} ELSE at.line.claimed
    BY <1>4, ConsiderFields
  <2>5. at.line.number <= at.line.number
    BY <1>0 DEF At, Line
  <2>. QED
    BY <2>1, <2>2, <2>3, <2>4, <2>5 DEF PlaceInv
<1>5. CASE UNCHANGED vars
  BY <1>5 DEF vars, PlaceInv
<1>6. CASE ReadLog /\ ~Broke("history")
  BY <1>6, ReadLogFields DEF ReadLog
<1>7. ASSUME NEW p \in Path, Inspect(p), ~Broke("static") PROVE FALSE
  BY <1>7, VisitedFields DEF Inspect
<1>8. CASE Refuse \/ Broke("secrets") \/ Broke("history") \/ Broke("static") \/ OpenMember \/ ReadChunk
           \/ Walked \/ LogRead \/ Inspected \/ Conclude
  <2>1. \/ \E pc \in {"history", "static", "cve", "end"} : at' = Start(pc)
        \/ at'.pc \in {"unpack", "chunk"}
    BY <1>0, <1>8 DEF Refuse, Broke, OpenMember, ReadChunk, Walked, LogRead, Judged, Inspected,
       Conclude, At
  <2>. QED
    BY <2>1, StartFields
<1>. QED
  BY <1>1, <1>2, <1>3, <1>4, <1>5, <1>6, <1>7, <1>8 DEF Next, IntakeFails, TimeOut

\* However often a secret occurs in the tree and in the history of a repository, the
\* history adds one finding at most, none for a secret of the tree, and notes its
\* commit at one of the tree's places only.
THEOREM ReportedOnceHolds == Spec => []ReportedOnce
<1>1. Init => ReportedOnce /\ PlaceInv
  BY DEF Init, ReportedOnce, PlaceInv, Start
<1>2. TypeOK /\ PhaseInv /\ ReportedOnce /\ PlaceInv /\ [Next]_vars => ReportedOnce' /\ PlaceInv'
  <2>1. found' = found \/ found' = {} => (ReportedOnce => ReportedOnce')
    BY DEF ReportedOnce, SameKey, Later
  <2>. QED
    BY <2>1, FoundSteps, ReportedOnceConsider, PlaceNext
<1>. QED
  BY <1>1, <1>2, PackagePhases, PTL DEF Spec

-----------------------------------------------------------------------------
(* The disk *)

\* A step that writes no chunk of an archive.
LEMMA DiskFrame ==
  ASSUME TypeOK, DiskInv, upload' = upload, Chunks' \subseteq Chunks,
         upload.source # "github" => \A p \in Path : disk'[p] # None => disk'[p].bytes <= MaxMember,
         at'.pc \in {"unpack", "chunk"} => at.pc \in {"unpack", "chunk"} /\ at'.total = at.total
  PROVE  DiskInv'
<1>. SUFFICES ASSUME upload.source # "github" PROVE DiskInv'
  BY DEF DiskInv
<1>1. IsFiniteSet(Chunks) /\ Cardinality(Chunks) <= MaxUnpacked /\ MaxUnpacked \in Nat
  BY PackageScanAssumption DEF DiskInv
<1>2. IsFiniteSet(Chunks') /\ Cardinality(Chunks') <= Cardinality(Chunks)
  BY <1>1, FS_Subset
<1>3. Cardinality(Chunks') \in Nat /\ Cardinality(Chunks) \in Nat
  BY <1>1, <1>2, FS_CardinalityType
<1>4. at'.pc \in {"unpack", "chunk"} => Cardinality(Chunks') <= at'.total
  <2>. SUFFICES ASSUME at'.pc \in {"unpack", "chunk"} PROVE Cardinality(Chunks') <= at'.total
    OBVIOUS
  <2>1. Cardinality(Chunks) <= at.total /\ at'.total = at.total /\ at.total \in Nat
    BY DEF DiskInv, TypeOK, At
  <2>. QED
    BY <1>2, <1>3, <2>1
<1>. QED
  BY <1>1, <1>2, <1>3, <1>4 DEF DiskInv

\* A chunk is written only when it fits, and it was not there.
LEMMA DiskRead ==
  ASSUME TypeOK, PhaseInv, DiskInv, ReadChunk
  PROVE  DiskInv'
<1>. DEFINE p == upload.members[at.next].path
            b == disk[p].bytes
<1>1. at.next \in DOMAIN upload.members /\ disk[p] # None /\ at.pc = "chunk" /\ upload.source # "github"
  BY DEF ReadChunk, PhaseInv
<1>2. upload.members[at.next] \in Member /\ at \in At
  BY <1>1, UploadType DEF TypeOK
<1>3. p \in Path /\ b \in Nat /\ disk[p] \in Stored /\ at.total \in Nat
  BY <1>1, <1>2, StoredType DEF Member, TypeOK, At
<1>4. CASE Refuse
  BY <1>4, DiskFrame, StartFields DEF Refuse, Empty, Chunks
<1>5. CASE /\ at' = [at EXCEPT !.pc = "unpack", !.next = @ + 1]
           /\ UNCHANGED <<upload, disk, found, flaws, verdict>>
  <2>1. at'.total = at.total
    BY <1>2, <1>5 DEF At
  <2>. QED
    BY <1>1, <1>5, <2>1, DiskFrame DEF Chunks, DiskInv
<1>6. CASE /\ Fits(b + 1, at.total + 1)
           /\ disk' = [disk EXCEPT ![p].bytes = b + 1]
           /\ at' = [at EXCEPT !.total = @ + 1]
           /\ UNCHANGED <<upload, found, flaws, verdict>>
  <2>1. /\ IsFiniteSet(Chunks) /\ Cardinality(Chunks) <= at.total /\ Cardinality(Chunks) \in Nat
    BY <1>1, FS_CardinalityType DEF DiskInv
  <2>2. /\ disk'[p] # None /\ disk'[p].bytes = b + 1
        /\ \A q \in Path \ {p} : disk'[q] = disk[q]
    <3>1. [disk[p] EXCEPT !.bytes = b + 1] \in Stored
      BY <1>3 DEF Stored
    <3>2. disk'[p] = [disk[p] EXCEPT !.bytes = b + 1] /\ \A q \in Path \ {p} : disk'[q] = disk[q]
      BY <1>3, <1>6 DEF TypeOK
    <3>. QED
      BY <1>3, <3>1, <3>2, PackageScanAssumption DEF Stored
  <2>3. b + 1 <= MaxMember /\ at.total + 1 <= MaxUnpacked /\ MaxMember \in Nat /\ MaxUnpacked \in Nat
    BY <1>6, PackageScanAssumption DEF Fits
  <2>4. <<p, b + 1>> \notin Chunks
    BY <1>3 DEF Chunks
  <2>5. Chunks' \subseteq Chunks \cup {<<p, b + 1>>}
    <3>. SUFFICES ASSUME NEW q \in Path, NEW i \in 1..MaxMember, disk'[q] # None, i <= disk'[q].bytes,
                         ~(disk[q] # None /\ i <= disk[q].bytes)
                  PROVE  q = p /\ i = b + 1
      BY DEF Chunks
    <3>. QED
      BY <1>1, <1>3, <2>2, <2>3
  <2>6. /\ IsFiniteSet(Chunks \cup {<<p, b + 1>>})
        /\ Cardinality(Chunks \cup {<<p, b + 1>>}) = Cardinality(Chunks) + 1
    BY <2>1, <2>4, FS_AddElement
  <2>7. /\ IsFiniteSet(Chunks') /\ Cardinality(Chunks') <= Cardinality(Chunks) + 1
        /\ Cardinality(Chunks') \in Nat
    BY <2>5, <2>6, FS_Subset, FS_CardinalityType
  <2>8. at'.total = at.total + 1
    BY <1>2, <1>6 DEF At
  <2>9. Cardinality(Chunks') <= MaxUnpacked /\ Cardinality(Chunks') <= at'.total
    BY <1>3, <2>1, <2>3, <2>7, <2>8
  <2>10. \A q \in Path : disk'[q] # None => disk'[q].bytes <= MaxMember
    BY <1>1, <2>2, <2>3 DEF DiskInv
  <2>. QED
    BY <2>7, <2>9, <2>10 DEF DiskInv
<1>. QED
  BY <1>4, <1>5, <1>6 DEF ReadChunk

\* An earlier member of the same name is truncated, its chunks still count.
LEMMA DiskOpen ==
  ASSUME TypeOK, DiskInv, OpenMember
  PROVE  DiskInv'
<1>. DEFINE m == upload.members[at.next]
<1>1. m \in Member /\ at \in At /\ at.pc = "unpack"
  BY UploadType DEF OpenMember, TypeOK, At
<1>2. CASE Refuse
  BY <1>2, DiskFrame, StartFields DEF Refuse, Empty, Chunks
<1>3. CASE at' = [at EXCEPT !.next = @ + 1] /\ UNCHANGED <<upload, disk, found, flaws, verdict>>
  <2>1. at'.total = at.total
    BY <1>1, <1>3 DEF At
  <2>. QED
    BY <1>1, <1>3, <2>1, DiskFrame DEF Chunks, DiskInv
<1>4. CASE /\ disk' = [disk EXCEPT ![m.path] = [file |-> m.file, bytes |-> 0]]
           /\ at' = [at EXCEPT !.pc = "chunk"]
           /\ UNCHANGED <<upload, found, flaws, verdict>>
  <2>1. at'.total = at.total
    BY <1>1, <1>4 DEF At
  <2>2. m.path \in Path /\ disk'[m.path].bytes = 0 /\ \A q \in Path \ {m.path} : disk'[q] = disk[q]
    BY <1>1, <1>4 DEF Member, TypeOK
  <2>3. Chunks' \subseteq Chunks
    BY <2>2 DEF Chunks
  <2>4. upload.source # "github" => \A q \in Path : disk'[q] # None => disk'[q].bytes <= MaxMember
    BY <2>2, PackageScanAssumption DEF DiskInv
  <2>. QED
    BY <1>1, <1>4, <2>1, <2>3, <2>4, DiskFrame
<1>. QED
  BY <1>2, <1>3, <1>4 DEF OpenMember

\* Once a package is unpacked or cloned, the disk is left alone until it is wiped.
LEMMA IntakeOrScan ==
  ASSUME TypeOK, PhaseInv, [Next]_vars
  PROVE  \/ Refuse \/ Conclude \/ OpenMember \/ ReadChunk \/ Unpacked \/ Clone
         \/ /\ upload' = upload /\ disk' = disk
            /\ at'.pc \in {"unpack", "chunk"} => at' = at
            /\ at'.pc \in {"secrets", "history", "static"} => at.pc \in {"secrets", "history", "static"}
<1>. DEFINE Kept == /\ upload' = upload /\ disk' = disk
                    /\ at'.pc \in {"unpack", "chunk"} => at' = at
                    /\ at'.pc \in {"secrets", "history", "static"}
                         => at.pc \in {"secrets", "history", "static"}
<1>1. CASE TimeOut
  BY <1>1, BrokeFields, StartFields DEF TimeOut
<1>2. ASSUME NEW p \in Path, Visit(p) \/ Inspect(p) PROVE Kept
  <2>1. CASE Broke("secrets") \/ Broke("static")
    BY <1>2, <2>1, BrokeFields, StartFields DEF Visit, Inspect
  <2>2. CASE ~Broke("secrets") /\ ~Broke("static")
    <3>1. /\ at' = Visited(p, disk[p].file) /\ at.pc \in {"secrets", "static"}
          /\ upload' = upload /\ disk' = disk
      BY <1>2, <2>2 DEF Visit, Inspect
    <3>. QED
      BY <3>1, VisitedFields
  <2>. QED
    BY <2>1, <2>2
<1>3. CASE NextLine
  <2>1. at.pc = "secrets" /\ upload' = upload /\ disk' = disk
    BY <1>3 DEF NextLine, PhaseInv
  <2>. QED
    BY <1>3, <2>1, NextLineFields
<1>4. ASSUME NEW m \in at.line.todo, Consider(m) PROVE Kept
  <2>1. at.pc \in {"secrets", "history"} /\ upload' = upload /\ disk' = disk
    BY <1>4 DEF Consider, PhaseInv
  <2>. QED
    BY <1>4, <2>1, ConsiderFields
<1>5. CASE ReadLog
  <2>0. at.pc = "history"
    BY <1>5 DEF ReadLog
  <2>1. CASE Broke("history")
    BY <2>0, <2>1, BrokeFields, StartFields
  <2>2. CASE ~Broke("history")
    BY <1>5, <2>0, <2>2, ReadLogFields
  <2>. QED
    BY <2>1, <2>2
<1>6. CASE Walked \/ LogRead \/ Inspected
  <2>1. /\ \E pc \in {"history", "static", "cve"} : at' = Start(pc)
        /\ upload' = upload /\ disk' = disk /\ at.pc \in {"secrets", "history", "static"}
    BY <1>6 DEF Walked, LogRead, Judged, Inspected
  <2>. QED
    BY <2>1, StartFields
<1>7. CASE UNCHANGED vars
  BY <1>7 DEF vars
<1>. QED
  BY <1>1, <1>2, <1>3, <1>4, <1>5, <1>6, <1>7 DEF Next, IntakeFails

LEMMA DiskNext == TypeOK /\ PhaseInv /\ DiskInv /\ [Next]_vars => DiskInv'
<1>. SUFFICES ASSUME TypeOK, PhaseInv, DiskInv, [Next]_vars PROVE DiskInv'
  OBVIOUS
<1>1. CASE Refuse \/ Conclude
  BY <1>1, DiskFrame, StartFields DEF Refuse, Conclude, Empty, Chunks
<1>2. CASE Clone
  BY <1>2, upload' = upload DEF Clone, PhaseInv, DiskInv
<1>3. CASE upload' = upload /\ disk' = disk /\ (at'.pc \in {"unpack", "chunk"} => at' = at)
  BY <1>3, DiskFrame DEF Chunks, DiskInv
<1>4. CASE Unpacked
  BY <1>3, <1>4, StartFields DEF Unpacked
<1>. QED
  BY <1>1, <1>2, <1>3, <1>4, DiskOpen, DiskRead, IntakeOrScan

\* Whatever the headers of its members declare, an archive stays within the
\* extractor's budgets: what is counted is what was read, before it is written.
THEOREM DiskBoundedHolds == Spec => []DiskBounded
<1>1. Init => DiskInv
  <2>. SUFFICES ASSUME Init PROVE DiskInv
    OBVIOUS
  <2>1. Chunks = {}
    BY DEF Init, Empty, Chunks
  <2>2. IsFiniteSet(Chunks) /\ Cardinality(Chunks) = 0
    BY <2>1, FS_EmptySet
  <2>. QED
    BY <2>2, StartFields, PackageScanAssumption DEF Init, DiskInv, Empty
<1>2. TypeOK /\ PhaseInv /\ DiskInv /\ [Next]_vars => DiskInv'
  BY DiskNext
<1>3. DiskInv => DiskBounded
  BY DEF DiskInv, DiskBounded
<1>. QED
  BY <1>1, <1>2, <1>3, PackagePhases, PTL DEF Spec

-----------------------------------------------------------------------------
(* What is on the disk when the scanners begin *)

\* The next member is opened: of members with one name, the last is kept.
LEMMA StoredOpen ==
  ASSUME TypeOK, PhaseInv, StoredInv, OpenMember, ~Refuse
  PROVE  StoredInv'
<1>. DEFINE n == at.next
            m == upload.members[n]
<1>1. n \in DOMAIN upload.members /\ m \in Member /\ at \in At /\ at.pc = "unpack" /\ n \in Nat
  BY UploadType DEF OpenMember, TypeOK, At
<1>2. Unpacking(n) /\ upload' = upload /\ DOMAIN upload.members \subseteq Nat
  BY <1>1, UploadType DEF StoredInv, OpenMember
<1>3. CASE m.form = "dir" /\ at' = [at EXCEPT !.next = @ + 1] /\ disk' = disk
  <2>1. at'.pc = "unpack" /\ at'.next = n + 1
    BY <1>1, <1>3 DEF At
  <2>2. \A i \in DOMAIN upload.members : i < n + 1 => i < n \/ i = n
    BY <1>1, <1>2
  <2>3. Unpacking(at.next)'
    BY <1>1, <1>2, <1>3, <2>1, <2>2 DEF Unpacking, IsAt
  <2>. QED
    BY <2>1, <2>3 DEF StoredInv
<1>4. CASE /\ m.form # "dir" /\ at' = [at EXCEPT !.pc = "chunk"]
           /\ disk' = [disk EXCEPT ![m.path] = [file |-> m.file, bytes |-> 0]]
  <2>1. at'.pc = "chunk" /\ at'.next = n
    BY <1>1, <1>4 DEF At
  <2>2. m.path \in Path /\ [file |-> m.file, bytes |-> 0] \in Stored
    BY <1>1 DEF Member, Stored
  <2>3. /\ disk'[m.path] # None /\ disk'[m.path].file = m.file
        /\ \A q \in Path \ {m.path} : disk'[q] = disk[q]
    BY <1>4, <2>2, PackageScanAssumption DEF TypeOK
  <2>4. ASSUME NEW i \in DOMAIN upload.members, NEW p \in Path, i < n + 1, IsAt(i, p),
               \A j \in DOMAIN upload.members : j < n + 1 /\ IsAt(j, p) => j <= i
        PROVE  disk'[p] # None /\ disk'[p].file = upload.members[i].file
    <3>1. CASE p = m.path
      <4>1. IsAt(n, p) /\ n < n + 1
        BY <1>1, <1>4, <3>1 DEF IsAt
      <4>2. n <= i
        BY <1>1, <2>4, <4>1
      <4>3. i = n
        BY <1>1, <1>2, <2>4, <4>2
      <4>. QED
        BY <2>3, <3>1, <4>3
    <3>2. CASE p # m.path
      <4>1. i # n /\ i < n
        BY <1>1, <1>2, <2>4, <3>2 DEF IsAt
      <4>2. \A j \in DOMAIN upload.members : j < n /\ IsAt(j, p) => j <= i
        BY <1>1, <1>2, <2>4
      <4>3. disk[p] # None /\ disk[p].file = upload.members[i].file
        BY <1>2, <2>4, <4>1, <4>2 DEF Unpacking
      <4>. QED
        BY <2>3, <3>2, <4>3
    <3>. QED
      BY <3>1, <3>2
  <2>5. Unpacking(at.next + 1)'
    BY <1>2, <2>1, <2>4 DEF Unpacking, IsAt
  <2>. QED
    BY <2>1, <2>5 DEF StoredInv
<1>. QED
  BY <1>3, <1>4 DEF OpenMember

\* The chunks of a member do not change what file it is.
LEMMA StoredRead ==
  ASSUME TypeOK, PhaseInv, StoredInv, ReadChunk, ~Refuse
  PROVE  StoredInv'
<1>. DEFINE p == upload.members[at.next].path
<1>1. at.next \in DOMAIN upload.members /\ at.pc = "chunk" /\ disk[p] # None /\ at \in At
  BY DEF ReadChunk, PhaseInv, TypeOK
<1>2. upload.members[at.next] \in Member /\ Unpacking(at.next + 1) /\ upload' = upload
  BY <1>1, UploadType DEF StoredInv, ReadChunk
<1>3. p \in Path /\ disk[p] \in Stored
  BY <1>1, <1>2 DEF Member, TypeOK
<1>4. CASE at' = [at EXCEPT !.pc = "unpack", !.next = @ + 1] /\ disk' = disk
  <2>1. at'.pc = "unpack" /\ at'.next = at.next + 1
    BY <1>1, <1>4 DEF At
  <2>. QED
    BY <1>2, <1>4, <2>1 DEF StoredInv, Unpacking, IsAt
<1>5. CASE at' = [at EXCEPT !.total = @ + 1] /\ disk' = [disk EXCEPT ![p].bytes = disk[p].bytes + 1]
  <2>1. at'.pc = "chunk" /\ at'.next = at.next
    BY <1>1, <1>5 DEF At
  <2>2. \A q \in Path : disk[q] # None => disk'[q] # None /\ disk'[q].file = disk[q].file
    <3>1. [disk[p] EXCEPT !.bytes = disk[p].bytes + 1] \in Stored
      BY <1>3 DEF Stored
    <3>2. /\ disk'[p] = [disk[p] EXCEPT !.bytes = disk[p].bytes + 1]
          /\ \A q \in Path \ {p} : disk'[q] = disk[q]
      BY <1>3, <1>5 DEF TypeOK
    <3>3. None \notin Stored
      BY PackageScanAssumption
    <3>4. disk'[p] # None /\ disk'[p].file = disk[p].file
      BY <1>3, <3>1, <3>2, <3>3 DEF Stored
    <3>. QED
      BY <3>2, <3>4
  <2>3. Unpacking(at.next + 1)'
    BY <1>2, <2>1, <2>2 DEF Unpacking, IsAt
  <2>. QED
    BY <2>1, <2>3 DEF StoredInv
<1>. QED
  BY <1>4, <1>5 DEF ReadChunk

LEMMA StoredNext == TypeOK /\ PhaseInv /\ StoredInv /\ [Next]_vars => StoredInv'
<1>. SUFFICES ASSUME TypeOK, PhaseInv, StoredInv, [Next]_vars PROVE StoredInv'
  OBVIOUS
<1>1. CASE Refuse \/ Conclude
  BY <1>1, StartFields DEF Refuse, Conclude, StoredInv
<1>2. CASE OpenMember \/ ReadChunk
  BY <1>1, <1>2, StoredOpen, StoredRead
<1>3. CASE Unpacked
  <2>1. at.pc = "unpack" /\ upload.source # "github" /\ Unpacking(at.next) /\ at.next \in Nat
    BY <1>3 DEF Unpacked, PhaseInv, StoredInv, TypeOK, At
  <2>2. DOMAIN upload.members = 1..Len(upload.members) /\ Len(upload.members) \in Nat
    BY UploadType
  <2>3. \A i \in DOMAIN upload.members : i < at.next
    BY <1>3, <2>1, <2>2 DEF Unpacked
  <2>4. ASSUME NEW p \in Path, NEW i \in Last(p)
        PROVE  disk[p] # None /\ disk[p].file = upload.members[i].file
    BY <2>1, <2>3 DEF Last, Unpacking, IsAt
  <2>5. \A p \in Path : \A f \in Contents(p) : disk[p] # None /\ disk[p].file = f
    BY <2>1, <2>4 DEF Contents
  <2>. QED
    BY <1>3, <2>5, StartFields DEF Unpacked, StoredInv, Contents, Last
<1>4. CASE Clone
  <2>1. upload.source = "github" /\ upload' = upload
    BY <1>4 DEF Clone, PhaseInv
  <2>2. ASSUME NEW p \in Path, NEW f \in Contents(p) PROVE disk'[p] # None /\ disk'[p].file = f
    <3>1. f = upload.tree[p] /\ upload.tree[p] # None
      BY <2>1 DEF Contents
    <3>2. disk'[p] = [file |-> f, bytes |-> f.size]
      BY <1>4, <3>1 DEF Clone
    <3>3. f \in File
      BY <3>1, UploadType
    <3>4. [file |-> f, bytes |-> f.size] \in Stored
      BY <3>3 DEF File, Stored
    <3>. QED
      BY <3>2, <3>4, PackageScanAssumption
  <2>. QED
    BY <1>4, <2>1, <2>2, StartFields DEF Clone, StoredInv, Contents, Last
<1>5. CASE /\ upload' = upload /\ disk' = disk
           /\ at'.pc \in {"unpack", "chunk"} => at' = at
           /\ at'.pc \in {"secrets", "history", "static"} => at.pc \in {"secrets", "history", "static"}
  <2>1. \A n : Unpacking(n)' <=> Unpacking(n)
    BY <1>5 DEF Unpacking, IsAt
  <2>. QED
    BY <1>5, <2>1 DEF StoredInv, Contents, Last, Unpacking, IsAt
<1>. QED
  BY <1>1, <1>2, <1>3, <1>4, <1>5, IntakeOrScan

-----------------------------------------------------------------------------
(* Lines *)

\* A line that is cleared stays so while no rule loses its finding.
LEMMA ClearedStays ==
  ASSUME NEW L, Cleared(L), \A g \in found : \E h \in found' : h.rule = g.rule
  PROVE  Cleared(L)'
BY DEF Cleared, Hit, Blocks, Harmless, Excused

\* A line with no candidate left is cleared.
LEMMA LineDone ==
  ASSUME NEW L, LineInv(L), at.line.todo = {}
  PROVE  Cleared(L)
BY DEF LineInv, Cleared, Harmless

LEMMA LineStart ==
  ASSUME NEW L, at'.line.todo = L, at'.line.claimed = {}
  PROVE  LineInv(L)'
BY DEF LineInv

\* A rule that blocks looks for a format, and comes before all that do not.
LEMMA BlockingPrecedes ==
  ASSUME NEW m \in Match, NEW n \in Match, Blocks(m), ~Before(m, n)
  PROVE  Rules[n.rule].confidence = "high"
<1>1. Rules[m.rule] \in Rule /\ Rules[n.rule] \in Rule
  BY PackageScanAssumption DEF Match
<1>2. Rules[m.rule].kind = "regex" /\ Rules[m.rule].confidence = "high"
  BY <1>1, PackageScanAssumption DEF Blocks, Blocking, Rule, Match
<1>3. Precedence(Rules[m.rule]) = 0
  BY <1>2 DEF Precedence
<1>4. Precedence(Rules[n.rule]) = 0 \/ Precedence(Rules[n.rule]) \in 1..4
  BY DEF Precedence
<1>5. Precedence(Rules[n.rule]) = 0
  BY <1>3, <1>4 DEF Before
<1>. QED
  BY <1>1, <1>5 DEF Precedence, Rule

\* A blocking candidate is reported, unless it is excused itself or a format
\* that was claimed earlier hides it.
LEMMA LineConsider ==
  ASSUME TypeOK, PhaseInv, NEW L \in SUBSET Match, LineInv(L),
         NEW m \in at.line.todo, Consider(m)
  PROVE  LineInv(L)'
<1>1. /\ \A g \in found : \E h \in found' : h.rule = g.rule
      /\ Claims(m) /\ m.mark = "plain" => \E h \in found' : h.rule = m.rule
  BY ConsiderFacts
<1>2. /\ at'.line.todo = at.line.todo \ {m}
      /\ at'.line.claimed = IF Claims(m) THEN at.line.claimed \cup {m} ELSE at.line.claimed
  BY ConsiderFields
<1>3. Hit => Hit'
  BY <1>1 DEF Hit, Blocks
<1>4. Claims(m) /\ m.mark = "plain" /\ Blocks(m) => Hit'
  BY <1>1 DEF Hit, Blocks
<1>5. \A n \in at.line.todo : ~Before(n, m)
  BY DEF Consider
<1>6. m \in L /\ m \notin at.line.claimed /\ at.line.claimed \subseteq L /\ m \in Match
  BY DEF LineInv
<1>7. Blocks(m) => Hit' \/ Excused(m, L)
  <2>. SUFFICES ASSUME Blocks(m), m.mark = "plain", ~Hit' PROVE Excused(m, L)
    BY DEF Excused
  <2>1. PICK n \in at.line.claimed : Overlap(m, n)
    BY <1>4 DEF Claims
  <2>2. n \in L \ {m} /\ ~Before(m, n) /\ n \in Match
    BY <1>6, <2>1 DEF LineInv
  <2>3. Rules[n.rule].confidence = "high"
    BY <1>6, <2>2, BlockingPrecedes
  <2>4. n.mark # "plain" \/ ~Blocks(n)
    BY <1>3, <2>1 DEF LineInv
  <2>. QED
    BY <2>1, <2>2, <2>3, <2>4 DEF Excused
<1>8. /\ at'.line.todo \subseteq L /\ at'.line.claimed \subseteq L \ at'.line.todo
      /\ \A n \in at'.line.claimed, k \in at'.line.todo : ~Before(k, n)
  BY <1>2, <1>5, <1>6 DEF LineInv
<1>9. Hit' \/ \A n \in L \ at'.line.todo : Blocks(n) => Excused(n, L)
  BY <1>2, <1>3, <1>7 DEF LineInv
<1>10. \A n \in at'.line.claimed : n.mark = "plain" /\ Blocks(n) => Hit'
  BY <1>2, <1>3, <1>4 DEF LineInv
<1>. QED
  BY <1>8, <1>9, <1>10 DEF LineInv, Blocks, Excused, Before

-----------------------------------------------------------------------------
(* The walk of the secrets scanner *)

\* What is known of the lines depends on the findings and the place of the scan only.
LEMMA SameLines ==
  ASSUME UNCHANGED <<upload, disk, at, found>>
  PROVE  /\ \A L : LineInv(L)' <=> LineInv(L)
         /\ \A L : Cleared(L)' <=> Cleared(L)
         /\ \A p : FileInv(p)' <=> FileInv(p)
<1>1. \A L : LineInv(L)' <=> LineInv(L)
  BY DEF LineInv, Hit, Blocks, Excused, Before
<1>2. \A L : Cleared(L)' <=> Cleared(L)
  BY DEF Cleared, Hit, Blocks, Harmless, Excused
<1>3. ASSUME NEW p PROVE FileInv(p)' <=> FileInv(p)
  <2>1. PICK lines : lines = disk[p].file.lines
    OBVIOUS
  <2>2. \A i : /\ LineInv(lines[i])' <=> LineInv(lines[i])
               /\ Cleared(lines[i])' <=> Cleared(lines[i])
    BY <1>1, <1>2
  <2>. QED
    BY <2>1, <2>2 DEF FileInv
<1>. QED
  BY <1>1, <1>2, <1>3

\* When the scanner is between two files, all that it has met is cleared.
LEMMA RestingCleared ==
  ASSUME TypeOK, WalkInv, at.pc = "secrets", Resting, NEW p \in at.seen, Scanned(p),
         NEW i \in DOMAIN disk[p].file.lines
  PROVE  Cleared(disk[p].file.lines[i])
<1>1. FileInv(p) /\ p \in Path /\ at.lines = <<>> /\ at.line.todo = {}
  BY DEF WalkInv, Resting, TypeOK, At
<1>2. disk[p].file.lines \in Seq(SUBSET Match)
  BY <1>1, StoredType DEF Scanned
<1>3. i \in 1..Len(disk[p].file.lines) /\ Len(disk[p].file.lines) \in Nat /\ Len(at.lines) = 0
  BY <1>1, <1>2
<1>4. i <= Len(disk[p].file.lines) - Len(at.lines)
  BY <1>3
<1>5. CASE Cleared(disk[p].file.lines[i])
  BY <1>5
<1>6. CASE LineInv(disk[p].file.lines[i])
  <2>1. PICK L : L = disk[p].file.lines[i]
    OBVIOUS
  <2>. QED
    BY <1>1, <1>6, <2>1, LineDone
<1>. QED
  BY <1>1, <1>3, <1>4, <1>5, <1>6 DEF FileInv

\* A file is met: its lines are all to come.
LEMMA WalkVisit ==
  ASSUME TypeOK, WalkInv, NEW p \in Path, Visit(p), ~Broke("secrets")
  PROVE  WalkInv'
<1>1. /\ at' = Visited(p, disk[p].file) /\ at.pc = "secrets" /\ Resting /\ p \notin at.seen
      /\ UNCHANGED <<upload, disk, found, flaws, verdict>>
  BY DEF Visit, Unseen
<1>2. /\ at'.seen = at.seen \cup {p} /\ at'.line.path = p
      /\ at'.lines = IF Opened(p, disk[p].file) /\ disk[p].file.text THEN disk[p].file.lines ELSE <<>>
  BY <1>1, VisitedFields
<1>. SUFFICES ASSUME NEW q \in at.seen \cup {p}, Scanned(q) PROVE FileInv(q)'
  BY <1>1, <1>2 DEF WalkInv, Scanned, Opened
<1>3. q \in Path
  BY DEF TypeOK, At
<1>4. PICK lines \in Seq(SUBSET Match) : lines = disk[q].file.lines
  BY <1>3, StoredType DEF Scanned
<1>5. CASE q # p
  <2>1. \A i \in DOMAIN lines : Cleared(lines[i])
    BY <1>1, <1>4, <1>5, RestingCleared
  <2>2. \A i \in DOMAIN lines : Cleared(lines[i])'
    BY <1>1, <2>1 DEF Cleared, Hit, Blocks, Harmless, Excused
  <2>. QED
    BY <1>1, <1>2, <1>4, <1>5, <2>2 DEF FileInv
<1>6. CASE q = p
  <2>1. at'.lines = lines /\ disk'[q].file.lines = lines
    BY <1>1, <1>2, <1>4, <1>6 DEF Scanned
  <2>2. /\ Len(lines) <= Len(lines) /\ Len(lines) - Len(lines) = 0
        /\ \A i \in DOMAIN lines : i > 0 /\ lines[i] = lines[0 + i]
    OBVIOUS
  <2>. QED
    BY <1>2, <1>6, <2>1, <2>2 DEF FileInv
<1>. QED
  BY <1>5, <1>6

\* The next line is begun: the one before has no candidate left.
LEMMA WalkLine ==
  ASSUME TypeOK, PhaseInv, WalkInv, NextLine
  PROVE  WalkInv'
<1>1. /\ at.pc = "secrets" /\ at.lines # <<>> /\ at.line.todo = {} /\ at.lines \in Seq(SUBSET Match)
      /\ UNCHANGED <<upload, disk, found, flaws, verdict>>
  BY DEF NextLine, PhaseInv, TypeOK, At
<1>2. /\ at'.seen = at.seen /\ at'.line.path = at.line.path /\ at'.lines = Tail(at.lines)
      /\ at'.line.todo = Head(at.lines) /\ at'.line.claimed = {}
  BY NextLineFields
<1>. SUFFICES ASSUME NEW q \in at.seen, Scanned(q) PROVE FileInv(q)'
  BY <1>1, <1>2 DEF WalkInv, Scanned, Opened
<1>3. q \in Path /\ FileInv(q)
  BY <1>1 DEF TypeOK, At, WalkInv
<1>4. PICK lines \in Seq(SUBSET Match) : lines = disk[q].file.lines
  BY <1>3, StoredType DEF Scanned
<1>5. \A L : Cleared(L) => Cleared(L)'
  BY <1>1 DEF Cleared, Hit, Blocks, Harmless, Excused
<1>6. CASE q # at.line.path
  BY <1>1, <1>2, <1>3, <1>4, <1>5, <1>6 DEF FileInv
<1>7. CASE q = at.line.path
  <2>1. PICK rest \in Seq(SUBSET Match) : rest = at.lines
    BY <1>1
  <2>2. PICK done : done = Len(lines) - Len(rest)
    OBVIOUS
  <2>3. Len(rest) <= Len(lines) /\ \A k \in DOMAIN rest : rest[k] = lines[done + k]
    BY <1>3, <1>4, <1>7, <2>1, <2>2 DEF FileInv
  <2>4. \A i \in DOMAIN lines : Cleared(lines[i]) \/ i > done \/ (i = done /\ LineInv(lines[i]))
    BY <1>3, <1>4, <1>7, <2>1, <2>2 DEF FileInv
  <2>5. /\ Len(lines) \in Nat /\ Len(rest) \in Nat \ {0} /\ DOMAIN rest = 1..Len(rest)
        /\ Len(Tail(rest)) = Len(rest) - 1 /\ Tail(rest) \in Seq(SUBSET Match)
        /\ Head(rest) = rest[1] /\ \A k \in 1..(Len(rest) - 1) : Tail(rest)[k] = rest[k + 1]
    BY <1>1, <2>1
  <2>6. /\ done \in Nat /\ Len(lines) - Len(Tail(rest)) = done + 1 /\ Len(Tail(rest)) <= Len(lines)
        /\ DOMAIN Tail(rest) = 1..(Len(rest) - 1)
    BY <2>2, <2>3, <2>5
  <2>7. \A k \in DOMAIN Tail(rest) : Tail(rest)[k] = lines[(done + 1) + k]
    <3>. SUFFICES ASSUME NEW k \in 1..(Len(rest) - 1) PROVE rest[k + 1] = lines[(done + 1) + k]
      BY <2>5, <2>6
    <3>1. k + 1 \in DOMAIN rest /\ done + (k + 1) = (done + 1) + k
      BY <2>5, <2>6
    <3>. QED
      BY <2>3, <3>1
  <2>8. ASSUME NEW i \in DOMAIN lines, i = done PROVE Cleared(lines[i])
    <3>1. ~(i > done)
      BY <2>6, <2>8
    <3>. QED
      BY <1>1, <2>4, <3>1, LineDone
  <2>9. LineInv(lines[done + 1])'
    <3>1. 1 \in DOMAIN rest
      BY <2>5
    <3>2. at'.line.todo = lines[done + 1]
      BY <1>2, <2>1, <2>3, <2>5, <3>1
    <3>. QED
      BY <1>2, <3>2, LineStart
  <2>10. ASSUME NEW i \in DOMAIN lines
         PROVE  Cleared(lines[i])' \/ i > done + 1 \/ (i = done + 1 /\ LineInv(lines[i])')
    <3>1. i \in Nat
      BY <1>4
    <3>2. Cleared(lines[i]) \/ i > done
      BY <2>4, <2>8
    <3>3. i > done => i > done + 1 \/ i = done + 1
      BY <2>6, <3>1
    <3>. QED
      BY <1>5, <2>9, <3>2, <3>3
  <2>11. disk'[q].file.lines = lines /\ at'.line.path = q /\ at'.lines = Tail(rest)
    BY <1>1, <1>2, <1>4, <1>7, <2>1
  <2>. QED
    BY <2>6, <2>7, <2>10, <2>11 DEF FileInv
<1>. QED
  BY <1>6, <1>7

LEMMA WalkConsider ==
  ASSUME TypeOK, PhaseInv, WalkInv, NEW m \in at.line.todo, Consider(m)
  PROVE  WalkInv'
<1>1. /\ UNCHANGED <<upload, disk>> /\ at'.pc = at.pc /\ at'.seen = at.seen
      /\ at'.lines = at.lines /\ at'.line.path = at.line.path
  BY ConsiderFields DEF Consider
<1>. SUFFICES ASSUME at.pc = "secrets", NEW q \in at.seen, Scanned(q) PROVE FileInv(q)'
  BY <1>1 DEF WalkInv, Scanned, Opened
<1>2. q \in Path /\ FileInv(q)
  BY DEF TypeOK, At, WalkInv
<1>3. PICK lines \in Seq(SUBSET Match) : lines = disk[q].file.lines
  BY <1>2, StoredType DEF Scanned
<1>4. \A L : Cleared(L) => Cleared(L)'
  BY ConsiderFacts, ClearedStays
<1>5. \A i \in DOMAIN lines : LineInv(lines[i]) => LineInv(lines[i])'
  <2>1. \A L \in SUBSET Match : LineInv(L) => LineInv(L)'
    BY LineConsider
  <2>2. \A i \in DOMAIN lines : lines[i] \in SUBSET Match
    OBVIOUS
  <2>. QED
    BY <2>1, <2>2
<1>. QED
  BY <1>1, <1>2, <1>3, <1>4, <1>5 DEF FileInv

\* Where a step may lead: into a new phase, or on in the same.
LEMMA NextPhase ==
  ASSUME TypeOK, PhaseInv, [Next]_vars
  PROVE  \/ \E pc \in {"secrets", "history", "static", "cve", "end"} : at' = Start(pc)
         \/ at'.pc \in {"unpack", "chunk"}
         \/ \E p \in Path : Visit(p) /\ ~Broke("secrets")
         \/ \E p \in Path : Inspect(p) /\ ~Broke("static")
         \/ NextLine \/ (\E m \in at.line.todo : Consider(m))
         \/ ReadLog /\ ~Broke("history")
         \/ UNCHANGED vars
<1>. DEFINE Entered == \E pc \in {"secrets", "history", "static", "cve", "end"} : at' = Start(pc)
<1>1. Refuse \/ Broke("secrets") \/ Broke("history") \/ Broke("static") => Entered
  BY DEF Refuse, Broke
<1>2. OpenMember => Entered \/ at'.pc \in {"unpack", "chunk"}
  BY <1>1, at \in At DEF OpenMember, TypeOK, At
<1>3. ReadChunk => Entered \/ at'.pc \in {"unpack", "chunk"}
  BY <1>1, at \in At DEF ReadChunk, TypeOK, At
<1>4. Unpacked \/ Clone \/ Walked \/ LogRead \/ Inspected \/ Conclude => Entered
  BY DEF Unpacked, Clone, Walked, LogRead, Judged, Inspected, Conclude
<1>. QED
  BY <1>1, <1>2, <1>3, <1>4 DEF Next, IntakeFails, TimeOut

LEMMA WalkNext ==
  TypeOK /\ PhaseInv /\ WalkInv /\ [Next]_vars => WalkInv'
<1>. SUFFICES ASSUME TypeOK, PhaseInv, WalkInv, [Next]_vars PROVE WalkInv'
  OBVIOUS
<1>1. ASSUME NEW pc, at' = Start(pc) PROVE WalkInv'
  BY <1>1, StartFields DEF WalkInv
<1>2. CASE at'.pc \in {"unpack", "chunk", "history", "static"}
  BY <1>2 DEF WalkInv
<1>3. ASSUME NEW p \in Path, Inspect(p), ~Broke("static") PROVE at'.pc = "static"
  BY <1>3, VisitedFields DEF Inspect
<1>4. CASE ReadLog /\ ~Broke("history")
  BY <1>2, <1>4, ReadLogFields DEF ReadLog
<1>5. CASE UNCHANGED vars
  BY <1>5, SameLines DEF vars, WalkInv, Scanned, Opened
<1>. QED
  BY <1>1, <1>2, <1>3, <1>4, <1>5, NextPhase, WalkVisit, WalkLine, WalkConsider

-----------------------------------------------------------------------------
(* The history *)

LEMMA HistoryNext ==
  TypeOK /\ PhaseInv /\ WalkInv /\ HistoryInv /\ [Next]_vars => HistoryInv'
<1>. SUFFICES ASSUME TypeOK, PhaseInv, WalkInv, HistoryInv, [Next]_vars,
                     at'.pc = "history"
              PROVE  HistoryInv'
  BY DEF HistoryInv
<1>1. CASE Walked
  <2>0. at.pc = "secrets" /\ Resting /\ Unseen = {} /\ at' = Start("history")
    <3>1. at' # Start("static")
      BY StartFields
    <3>. QED
      BY <1>1, <3>1 DEF Walked, Judged
  <2>1. at'.next = 1 /\ UNCHANGED <<upload, disk, found>>
    BY <1>1, <2>0, StartFields DEF Walked, Judged
  <2>2. ASSUME NEW p \in Path \ Vendored, Scanned(p), NEW i \in DOMAIN disk[p].file.lines
        PROVE  Cleared(disk[p].file.lines[i])
    <3>1. p \in at.seen
      BY <2>0, <2>2 DEF Unseen, Pruned, Scanned
    <3>. QED
      BY <2>0, <2>2, <3>1, RestingCleared
  <2>3. \A i \in DOMAIN upload.log : ~(i < 1)
    BY UploadType
  <2>. QED
    BY <2>1, <2>2, <2>3 DEF HistoryInv, Scanned, Opened, Cleared, Hit, Blocks, Harmless, Excused, Legible
<1>2. CASE ReadLog
  <2>0. ~Broke("history")
    BY BrokeFields, StartFields
  <2>1. /\ at.pc = "history" /\ at.line.todo = {} /\ at.next \in DOMAIN upload.log
        /\ at'.next = at.next + 1 /\ at'.line.claimed = {}
        /\ at'.line.todo \in Legible(upload.log[at.next])
        /\ UNCHANGED <<upload, disk, found>>
    BY <1>2, <2>0, ReadLogFields DEF ReadLog, Resting
  <2>2. \A L : Cleared(L) => Cleared(L)'
    BY <2>1 DEF Cleared, Hit, Blocks, Harmless, Excused
  <2>3. ASSUME NEW i \in DOMAIN upload.log, i < at.next
        PROVE  \E read \in Legible(upload.log[i]) : Cleared(read)
    BY <2>1, <2>3, LineDone DEF HistoryInv
  <2>4. PICK begun \in Legible(upload.log[at.next]) : at'.line.todo = begun
    BY <2>1
  <2>5. LineInv(begun)'
    BY <2>1, <2>4, LineStart
  <2>8. ASSUME NEW i \in DOMAIN upload.log, i < at.next + 1
        PROVE  \E read \in Legible(upload.log[i]) : Cleared(read)' \/ (i = at.next /\ LineInv(read)')
    <3>1. i < at.next \/ i = at.next
      BY <2>1, <2>8, UploadType
    <3>. QED
      BY <2>2, <2>3, <2>4, <2>5, <3>1
  <2>6. at'.next - 1 = at.next
    BY <2>1, UploadType
  <2>7. \A p \in Path \ Vendored : Scanned(p) =>
          \A i \in DOMAIN disk[p].file.lines : Cleared(disk[p].file.lines[i])'
    BY <2>1, <2>2 DEF HistoryInv
  <2>. QED
    BY <2>1, <2>6, <2>7, <2>8 DEF HistoryInv, Scanned, Opened, Legible
<1>3. ASSUME NEW m \in at.line.todo, Consider(m) PROVE HistoryInv'
  <2>1. UNCHANGED <<upload, disk>> /\ at.pc = "history" /\ at'.next = at.next
    BY <1>3, ConsiderFields DEF Consider
  <2>2. \A L : Cleared(L) => Cleared(L)'
    BY <1>3, ConsiderFacts, ClearedStays
  <2>3. \A L \in SUBSET Match : LineInv(L) => LineInv(L)'
    BY <1>3, LineConsider
  <2>4. \A i \in DOMAIN upload.log : Legible(upload.log[i]) \subseteq SUBSET Match
    <3>1. \A i \in DOMAIN upload.log : upload.log[i] \in Added
      BY UploadType
    <3>. QED
      BY <3>1 DEF Added, Legible
  <2>. QED
    BY <2>1, <2>2, <2>3, <2>4 DEF HistoryInv, Scanned, Opened, Legible
<1>4. CASE UNCHANGED vars
  BY <1>4, SameLines DEF vars, HistoryInv, Scanned, Opened, Legible
<1>5. CASE NextLine
  BY <1>5, NextLineFields DEF PhaseInv, NextLine
<1>6. ASSUME NEW p \in Path, Visit(p) \/ Inspect(p), ~Broke("secrets"), ~Broke("static") PROVE FALSE
  BY <1>6, VisitedFields DEF Visit, Inspect
<1>7. CASE Refuse \/ Broke("secrets") \/ Broke("history") \/ Broke("static") \/ OpenMember \/ ReadChunk
           \/ Unpacked \/ Clone \/ LogRead \/ Inspected \/ Conclude
  <2>1. \/ \E pc \in {"secrets", "static", "cve", "end"} : at' = Start(pc)
        \/ at'.pc \in {"unpack", "chunk"}
    BY <1>7, at \in At DEF Refuse, Broke, OpenMember, ReadChunk, Unpacked, Clone, LogRead, Judged,
       Inspected, Conclude, TypeOK, At
  <2>. QED
    BY <2>1, StartFields
<1>. QED
  BY <1>1, <1>2, <1>3, <1>4, <1>5, <1>6, <1>7 DEF Next, IntakeFails, TimeOut

-----------------------------------------------------------------------------
(* The static scanner, and the verdicts *)

LEMMA StaticNext == TypeOK /\ PhaseInv /\ StaticInv /\ [Next]_vars => StaticInv'
<1>. SUFFICES ASSUME TypeOK, PhaseInv, StaticInv, [Next]_vars PROVE StaticInv'
  OBVIOUS
<1>1. ASSUME NEW pc, at' = Start(pc) PROVE StaticInv'
  BY <1>1, StartFields DEF StaticInv
<1>2. CASE at'.pc \in {"unpack", "chunk", "secrets", "history"}
  BY <1>2 DEF StaticInv
<1>3. ASSUME NEW p \in Path, Visit(p), ~Broke("secrets") PROVE at'.pc = "secrets"
  BY <1>3, VisitedFields DEF Visit
<1>4. CASE ReadLog /\ ~Broke("history")
  BY <1>2, <1>4, ReadLogFields DEF ReadLog
<1>5. CASE NextLine
  BY <1>2, <1>5, NextLineFields DEF NextLine, PhaseInv
<1>6. ASSUME NEW m \in at.line.todo, Consider(m) PROVE StaticInv'
  BY <1>2, <1>6, ConsiderFields DEF PhaseInv
<1>7. ASSUME NEW p \in Path, Inspect(p), ~Broke("static") PROVE StaticInv'
  <2>1. /\ at.pc = "static" /\ at' = Visited(p, disk[p].file) /\ UNCHANGED <<upload, disk>>
        /\ flaws.findings \subseteq flaws'.findings
        /\ Scanned(p) => StaticFlaws(p, disk[p].file) \subseteq flaws'.findings
    BY <1>7 DEF Inspect, Scanned
  <2>2. at'.seen = at.seen \cup {p}
    BY <2>1, VisitedFields
  <2>3. \A q \in at.seen : Scanned(q) => StaticFlaws(q, disk[q].file) \subseteq flaws.findings
    BY <2>1 DEF StaticInv
  <2>4. ASSUME NEW q \in at.seen \cup {p}, Scanned(q)
        PROVE  StaticFlaws(q, disk[q].file) \subseteq flaws'.findings
    BY <2>1, <2>3, <2>4
  <2>5. \A q \in at'.seen : Scanned(q)' => StaticFlaws(q, disk'[q].file) \subseteq flaws'.findings
    BY <2>1, <2>2, <2>4 DEF Scanned, Opened
  <2>. QED
    BY <2>5 DEF StaticInv, StaticFlaws, ManifestFlaws
<1>8. CASE UNCHANGED vars
  BY <1>8 DEF vars, StaticInv, Scanned, Opened, StaticFlaws, ManifestFlaws
<1>. QED
  BY <1>1, <1>2, <1>3, <1>4, <1>5, <1>6, <1>7, <1>8, NextPhase

\* A verdict of passed on the secrets scanner's findings means that there is
\* none that blocks.
LEMMA JudgedPassed ==
  ASSUME TypeOK, Judged, verdict'.secrets = "passed"
  PROVE  ~Hit
<1>. DEFINE judged == {[severity |-> Rules[f.rule].severity, confidence |-> Rules[f.rule].confidence] :
                         f \in found}
<1>1. EvaluateStatus(judged, FALSE) = "passed"
  BY DEF Judged, TypeOK, Verdict
<1>2. \A g \in judged : ~Blocking(g)
  BY <1>1 DEF EvaluateStatus
<1>. QED
  BY <1>2 DEF Hit, Blocks

\* All files that the secrets scanner reads of the package are on the disk.
LEMMA WholeTree ==
  ASSUME TypeOK, StoredInv, at.pc \in {"secrets", "history", "static"},
         NEW p \in Path, NEW f \in Contents(p), Opened(p, f), f.text
  PROVE  Scanned(p) /\ disk[p].file = f
BY DEF StoredInv, Scanned

LEMMA WalkedReads ==
  ASSUME TypeOK, PhaseInv, StoredInv, WalkInv, Walked, Judged, verdict'.secrets = "passed"
  PROVE  SecretsRead
<1>1. at.pc = "secrets" /\ Resting /\ Unseen = {}
  BY DEF Walked
<1>2. ASSUME NEW p \in Path \ Vendored, NEW f \in Contents(p), Opened(p, f), f.text,
             NEW i \in DOMAIN f.lines
      PROVE  Harmless(f.lines[i], f.lines[i])
  <2>1. Scanned(p) /\ disk[p].file = f
    BY <1>1, <1>2, WholeTree
  <2>2. p \in at.seen
    BY <1>1, <2>1 DEF Unseen, Pruned, Scanned
  <2>. QED
    BY <1>1, <2>1, <2>2, RestingCleared, JudgedPassed DEF Cleared
<1>3. upload.source # "github"
  <2>1. at' = Start("static")
    BY DEF Judged
  <2>2. at' # Start("history")
    BY <2>1, StartFields
  <2>. QED
    BY <2>2 DEF Walked
<1>. QED
  BY <1>2, <1>3 DEF SecretsRead

LEMMA LogReads ==
  ASSUME TypeOK, PhaseInv, StoredInv, HistoryInv, LogRead, verdict'.secrets = "passed"
  PROVE  SecretsRead
<1>1. at.pc = "history" /\ at.line.todo = {} /\ LogEnds /\ ~Hit
  BY JudgedPassed DEF LogRead, Resting
<1>2. ASSUME NEW p \in Path \ Vendored, NEW f \in Contents(p), Opened(p, f), f.text,
             NEW i \in DOMAIN f.lines
      PROVE  Harmless(f.lines[i], f.lines[i])
  <2>1. Scanned(p) /\ disk[p].file = f
    BY <1>1, <1>2, WholeTree
  <2>. QED
    BY <1>1, <2>1 DEF HistoryInv, Cleared
<1>3. ASSUME NEW i \in DOMAIN upload.log, upload.log[i].commit <= MaxCommits
      PROVE  Harmless(Whole(upload.log[i]), upload.log[i].matches)
  <2>. DEFINE n == at.next
  <2>1. n \in Nat \ {0} /\ i \in Nat \ {0} /\ DOMAIN upload.log = 1..Len(upload.log)
        /\ Len(upload.log) \in Nat
    BY UploadType DEF TypeOK, At
  <2>2. ASSUME n <= i PROVE FALSE
    <3>1. n \in DOMAIN upload.log /\ upload.log[n] \in Added /\ upload.log[i] \in Added
      BY <2>1, <2>2, UploadType
    <3>2. upload.log[n].commit <= upload.log[i].commit
      BY <2>2, <3>1, PackageScanAssumption DEF TypeOK
    <3>3. upload.log[n].commit > MaxCommits
      BY <1>1, <3>1 DEF LogEnds
    <3>4. upload.log[n].commit \in Nat /\ upload.log[i].commit \in Nat /\ MaxCommits \in Nat
      BY <3>1, PackageScanAssumption DEF Added
    <3>. QED
      BY <1>3, <3>2, <3>3, <3>4
  <2>3. PICK read \in Legible(upload.log[i]) : Cleared(read)
    <3>1. i < n
      BY <2>1, <2>2
    <3>. QED
      BY <1>1, <3>1, LineDone DEF HistoryInv
  <2>4. Whole(upload.log[i]) \subseteq read /\ read \subseteq upload.log[i].matches
    BY DEF Whole, Legible
  <2>5. Harmless(read, read)
    BY <1>1, <2>3 DEF Cleared
  <2>. QED
    BY <2>4, <2>5 DEF Harmless, Excused
<1>. QED
  BY <1>2, <1>3 DEF SecretsRead

LEMMA InspectedReads ==
  ASSUME TypeOK, PhaseInv, StoredInv, StaticInv, Inspected, verdict'.static = "passed"
  PROVE  StaticRead
<1>1. EvaluateStatus(flaws.findings, flaws.broken) = "passed"
  BY DEF Inspected, TypeOK, Verdict
<1>2. \A g \in flaws.findings : ~Blocking(g)
  BY <1>1 DEF EvaluateStatus, TypeOK, Flaws
<1>3. at.pc = "static" /\ Unseen = {}
  BY DEF Inspected
<1>4. ASSUME NEW p \in Path \ (Vendored \cup Built), NEW f \in Contents(p), Opened(p, f), f.text,
             NEW g \in StaticFlaws(p, f)
      PROVE  ~Blocking(g)
  <2>1. Scanned(p) /\ disk[p].file = f
    BY <1>3, <1>4, WholeTree
  <2>2. p \in at.seen
    BY <1>3, <2>1 DEF Unseen, Pruned, Scanned
  <2>. QED
    BY <1>2, <1>3, <1>4, <2>1, <2>2 DEF StaticInv
<1>. QED
  BY <1>4 DEF StaticRead

\* What a verdict says of the submission does not depend on the scan.
LEMMA ReadStays ==
  ASSUME upload' = upload
  PROVE  (SecretsRead' <=> SecretsRead) /\ (StaticRead' <=> StaticRead)
BY DEF SecretsRead, StaticRead, Contents, Last, Opened, Harmless, Excused, Blocks,
   Whole, StaticFlaws, ManifestFlaws

LEMMA VerdictFrame ==
  ASSUME VerdictInv, upload' = upload, verdict' = verdict,
         at'.pc = "static" => at.pc = "static", at'.pc # "cve", at.pc # "end"
  PROVE  VerdictInv'
BY ReadStays DEF VerdictInv

LEMMA VerdictNext ==
  /\ TypeOK /\ PhaseInv /\ StoredInv /\ WalkInv /\ HistoryInv /\ StaticInv /\ VerdictInv
  /\ [Next]_vars
  => VerdictInv'
<1>. SUFFICES ASSUME TypeOK, PhaseInv, StoredInv, WalkInv, HistoryInv, StaticInv, VerdictInv, [Next]_vars
              PROVE  VerdictInv'
  OBVIOUS
<1>0. verdict \in Verdict /\ None \notin Status
  BY PackageScanAssumption DEF TypeOK
<1>1. CASE Refuse
  BY <1>0, <1>1, ReadStays, StartFields DEF Refuse, VerdictInv, Verdict
<1>2. ASSUME NEW pc \in {"secrets", "history", "static"}, at.pc = pc, Broke(pc) PROVE VerdictInv'
  BY <1>0, <1>2, BrokeFields, ReadStays, StartFields DEF VerdictInv, Verdict, Status
<1>3. CASE Judged /\ (Walked \/ LogRead)
  <2>1. PICK s \in Status : verdict' = [verdict EXCEPT !.secrets = s]
    BY <1>3, EvaluateType DEF Judged
  <2>2. /\ upload' = upload /\ at'.pc = "static" /\ at.pc \in {"secrets", "history"}
        /\ verdict'.secrets = s /\ verdict'.static = verdict.static
        /\ verdict'.overall = verdict.overall
    BY <1>0, <1>3, <2>1, StartFields DEF Judged, Walked, LogRead, Verdict
  <2>3. verdict'.secrets = "passed" => SecretsRead
    BY <1>3, WalkedReads, LogReads
  <2>. QED
    BY <1>0, <2>2, <2>3, ReadStays DEF VerdictInv
<1>4. CASE Inspected
  <2>1. PICK s \in Status : verdict' = [verdict EXCEPT !.static = s]
    BY <1>4, EvaluateType DEF Inspected, TypeOK, Flaws
  <2>2. /\ upload' = upload /\ at'.pc = "cve" /\ at.pc = "static"
        /\ verdict'.static = s /\ verdict'.secrets = verdict.secrets
        /\ verdict'.overall = verdict.overall
    BY <1>0, <1>4, <2>1, StartFields DEF Inspected, Verdict
  <2>3. verdict'.static = "passed" => StaticRead
    BY <1>4, InspectedReads
  <2>. QED
    BY <1>0, <2>2, <2>3, ReadStays DEF VerdictInv
<1>5. CASE Conclude
  <2>1. PICK cve \in Status :
          verdict' = [verdict EXCEPT !.overall = Merged({verdict.secrets, verdict.static, cve})]
    BY <1>5 DEF Conclude
  <2>2. /\ verdict'.overall = Merged({verdict.secrets, verdict.static, cve})
        /\ verdict'.secrets = verdict.secrets /\ verdict'.static = verdict.static
    BY <1>0, <2>1 DEF Verdict
  <2>3. verdict.secrets \in Status /\ verdict.static \in Status
    BY <1>0, <1>5 DEF Conclude, VerdictInv, Verdict
  <2>4. verdict'.overall = "passed" => verdict.secrets = "passed" /\ verdict.static = "passed"
    BY <2>2, <2>3 DEF Merged, Status
  <2>5. upload' = upload /\ at'.pc = "end"
    BY <1>5, StartFields DEF Conclude
  <2>. QED
    BY <2>2, <2>4, <2>5, ReadStays DEF VerdictInv
<1>6. CASE OpenMember \/ ReadChunk
  <2>1. Refuse \/ (/\ upload' = upload /\ verdict' = verdict /\ at.pc \in {"unpack", "chunk"}
                   /\ at'.pc \in {"unpack", "chunk"})
    BY <1>6, at \in At DEF OpenMember, ReadChunk, TypeOK, At
  <2>. QED
    BY <1>1, <2>1, VerdictFrame
<1>7. CASE Unpacked \/ Clone
  <2>1. upload' = upload /\ verdict' = verdict /\ at.pc \in {"unpack", "clone"} /\ at'.pc = "secrets"
    BY <1>7, StartFields DEF Unpacked, Clone
  <2>. QED
    BY <2>1, VerdictFrame
<1>8. CASE Walked /\ ~Judged
  <2>1. upload' = upload /\ verdict' = verdict /\ at.pc = "secrets" /\ at'.pc = "history"
    BY <1>8, StartFields DEF Walked
  <2>. QED
    BY <2>1, VerdictFrame
<1>9. ASSUME NEW p \in Path,
             (Visit(p) /\ ~Broke("secrets")) \/ (Inspect(p) /\ ~Broke("static"))
      PROVE  VerdictInv'
  <2>1. /\ upload' = upload /\ verdict' = verdict /\ at.pc \in {"secrets", "static"}
        /\ at' = Visited(p, disk[p].file)
    BY <1>9 DEF Visit, Inspect
  <2>2. at'.pc = at.pc
    BY <2>1, VisitedFields
  <2>. QED
    BY <2>1, <2>2, VerdictFrame
<1>10. CASE NextLine
  <2>1. upload' = upload /\ verdict' = verdict /\ at.pc = "secrets" /\ at'.pc = "secrets"
    BY <1>10, NextLineFields DEF NextLine, PhaseInv
  <2>. QED
    BY <2>1, VerdictFrame
<1>11. ASSUME NEW m \in at.line.todo, Consider(m) PROVE VerdictInv'
  <2>1. /\ upload' = upload /\ verdict' = verdict /\ at.pc \in {"secrets", "history"}
        /\ at'.pc = at.pc
    BY <1>11, ConsiderFields DEF Consider, PhaseInv
  <2>. QED
    BY <2>1, VerdictFrame
<1>12. CASE ReadLog /\ ~Broke("history")
  <2>1. upload' = upload /\ verdict' = verdict /\ at.pc = "history" /\ at'.pc = "history"
    BY <1>12, ReadLogFields DEF ReadLog
  <2>. QED
    BY <2>1, VerdictFrame
<1>13. CASE UNCHANGED vars
  BY <1>13, ReadStays DEF vars, VerdictInv
<1>14. IntakeFails \/ TimeOut => \/ Refuse
                                 \/ \E pc \in {"secrets", "history", "static"} : at.pc = pc /\ Broke(pc)
  BY DEF IntakeFails, TimeOut
<1>15. ASSUME NEW p \in Path, Visit(p) \/ Inspect(p) PROVE VerdictInv'
  BY <1>2, <1>9, <1>15 DEF Visit, Inspect
<1>. QED
  BY <1>1, <1>2, <1>3, <1>4, <1>5, <1>6, <1>7, <1>8, <1>10, <1>11, <1>12, <1>13, <1>14,
     <1>15 DEF Next, LogRead, ReadLog

-----------------------------------------------------------------------------
(* A package that passes has been read *)

ScanInv == PhaseInv /\ StoredInv /\ WalkInv /\ HistoryInv /\ StaticInv /\ VerdictInv

LEMMA ScanInit == Init => ScanInv
<1>. SUFFICES ASSUME Init PROVE ScanInv
  OBVIOUS
<1>1. at.pc \in {"clone", "unpack"} /\ at.next = 1 /\ None \notin Status
  BY StartFields, PackageScanAssumption DEF Init
<1>2. Unpacking(1)
  <2>1. upload.members \in Seq(Member)
    BY PackageScanAssumption DEF Init
  <2>. QED
    BY <2>1 DEF Unpacking
<1>3. StoredInv /\ WalkInv /\ HistoryInv /\ StaticInv
  BY <1>1, <1>2 DEF StoredInv, WalkInv, HistoryInv, StaticInv
<1>4. VerdictInv
  BY <1>1 DEF Init, VerdictInv, Status
<1>. QED
  BY <1>3, <1>4, PhaseInit DEF ScanInv, Init

\* No order of the matches on a line, of the files of a tree or of the commits
\* of a repository, no lost time, and no budget but the two that the history pass
\* keeps in silence, lets a package pass that holds what the scanners look for in a
\* place that they read.
THEOREM PassedIsReadHolds == Spec => []PassedIsRead
<1>1. TypeOK /\ ScanInv /\ [Next]_vars => ScanInv'
  BY PhaseNext, FoundSteps, ConsiderFacts, StoredNext, WalkNext, HistoryNext, StaticNext, VerdictNext
  DEF ScanInv
<1>2. ScanInv => PassedIsRead
  BY DEF ScanInv, VerdictInv, PassedIsRead, SecretsRead, StaticRead
<1>. QED
  BY <1>1, <1>2, ScanInit, PackagePhases, PTL DEF Spec

-----------------------------------------------------------------------------
(* What buyers are told: the invariants of Questions                       *)

\* Only QuestionsInit writes the description.  A question that was answered was asked.
RowInv ==
  /\ offer.text \in {"zero", "unsafe"} \cup Price
  /\ question.answered => question.asked

\* What a request has loaded: its facts hold the price, the scan and the badge that it
\* may tell, whatever has changed since.
FactsInv(h) ==
  /\ h.price \in Price
  /\ Tells(h, h.price) => h.price \in h.facts
  /\ Tells(h, Counts(h.version)) => Counts(h.version) \in h.facts
  /\ h.op = "ask" /\ h.topic = "security" => Badge(h.live) \in h.facts

LoadedInv(h) ==
  /\ h.price # Null => FactsInv(h)
  /\ h.pc = "read" => /\ h.op \in {"ask", "draft"} /\ h.topic \in Topic /\ h.price # Null
                      /\ h.op = "ask" => h.version # Null
  /\ h.pc = "insert" => h.topic \in Topic
  /\ h.pc = "check" => h.price # Null
  /\ h.pc \in {"check", "deliver", "store"} => h.said \in Claim

\* A question that was routed or that the seller works on exists; he notifies the buyer of a reply
\* after it is committed.
SellerInv(h) ==
  /\ h.op \in {"route", "draft", "send", "reply"} => question.asked
  /\ h.op = "reply" => question.answered

RequestInv == \A w \in Worker : LoadedInv(job[w]) /\ SellerInv(job[w])

AnswersInv ==
  /\ QuestionsTypeOK /\ RowInv /\ RequestInv
  /\ ToldWhatWasTrue /\ SentIsCurrent /\ AnnouncedIsThere

-----------------------------------------------------------------------------
(* The kinds of step                                                       *)

LEMMA IdleType == Idle \in Job
BY DEF Idle, Job, Op

\* A request that is given up or done knows nothing.
LEMMA DoneStep ==
  ASSUME AnswersInv, NEW w \in Worker, Done(w), UNCHANGED <<offer, flawed>>,
         question' \in Question, RowInv', announced' \in BOOLEAN, AnnouncedIsThere',
         question.asked => question'.asked, question.answered => question'.answered
  PROVE  AnswersInv'
<1>1. job' = [job EXCEPT ![w] = Idle] /\ job \in [Worker -> Job]
  BY DEF Done, AnswersInv, QuestionsTypeOK
<1>2. QuestionsTypeOK'
  BY <1>1, IdleType DEF AnswersInv, QuestionsTypeOK
<1>3. job'[w] = Idle /\ \A v \in Worker \ {w} : job'[v] = job[v]
  BY <1>1
<1>4. RequestInv'
  BY <1>3 DEF AnswersInv, RequestInv, LoadedInv, FactsInv, Tells, SellerInv, Idle, Counts, Counted
<1>5. ToldWhatWasTrue' /\ SentIsCurrent'
  BY <1>3 DEF AnswersInv, ToldWhatWasTrue, SentIsCurrent, Stands, Idle
<1>. QED
  BY <1>2, <1>4, <1>5 DEF AnswersInv

\* A request that goes on.
LEMMA NextStep ==
  ASSUME AnswersInv, NEW w \in Worker, NEW h \in Job, job' = [job EXCEPT ![w] = h],
         UNCHANGED <<offer, flawed>>, question' \in Question, RowInv', announced' = announced,
         question.asked => question'.asked, question.answered => question'.answered,
         LoadedInv(h), h.op \in {"route", "draft", "send", "reply"} => question'.asked,
         h.op = "reply" => question'.answered,
         h.pc = "told" => h.said # "unsafe" /\ (h.said \in Fact => h.said \in h.facts),
         h.pc = "deliver" => h.said # "unsafe" /\ (h.said \in Price => h.said \in h.facts)
  PROVE  AnswersInv'
<1>1. job'[w] = h /\ (\A v \in Worker \ {w} : job'[v] = job[v]) /\ job' \in [Worker -> Job]
  BY DEF AnswersInv, QuestionsTypeOK
<1>2. QuestionsTypeOK'
  BY <1>1 DEF AnswersInv, QuestionsTypeOK
<1>3. RequestInv'
  BY <1>1 DEF AnswersInv, RequestInv, LoadedInv, FactsInv, Tells, SellerInv, Counts, Counted
<1>4. ToldWhatWasTrue' /\ SentIsCurrent'
  BY <1>1 DEF AnswersInv, ToldWhatWasTrue, SentIsCurrent, Stands
<1>. QED
  BY <1>2, <1>3, <1>4 DEF AnswersInv, AnnouncedIsThere

\* A request has its text.
LEMMA SayStep ==
  ASSUME AnswersInv, NEW w \in Worker, NEW pc \in {"told", "store", "deliver"}, NEW claim \in Claim,
         Say(w, pc, claim), UNCHANGED <<listings, question, announced>>,
         pc = "told" => claim # "unsafe" /\ (claim \in Fact => claim \in job[w].facts),
         pc = "deliver" => claim # "unsafe" /\ (claim \in Price => claim \in job[w].facts)
  PROVE  AnswersInv'
<1>. DEFINE h == [job[w] EXCEPT !.pc = pc, !.said = claim, !.topic = Null, !.price = Null,
                                !.live = FALSE, !.version = Null, !.facts = @ \cap {claim}]
<1>1. job[w] \in Job
  BY DEF AnswersInv, QuestionsTypeOK
<1>2. h \in Job
  BY <1>1 DEF Job
<1>3. job' = [job EXCEPT ![w] = h]
  BY DEF Say
<1>4. /\ h.op = job[w].op /\ h.pc = pc /\ h.price = Null /\ h.said = claim
      /\ h.facts = job[w].facts \cap {claim}
  BY <1>1 DEF Job
<1>5. LoadedInv(h)
  BY <1>4 DEF LoadedInv
<1>6. SellerInv(job[w])
  BY DEF AnswersInv, RequestInv
<1>7. UNCHANGED <<offer, flawed>> /\ question' = question /\ announced' = announced
        /\ question \in Question /\ RowInv'
  BY DEF AnswersInv, QuestionsTypeOK, RowInv, listings
<1>. HIDE DEF h
<1>. QED
  BY <1>2, <1>3, <1>4, <1>5, <1>6, <1>7, NextStep DEF SellerInv

\* A request loads the listing, and with it what it may say.
LEMMA LoadStep ==
  ASSUME AnswersInv, NEW w \in Worker, NEW g \in Job, Load(w, g), UNCHANGED <<listings, question, announced>>,
         g.version \in {Null, offer.current},
         g.pc = "read" => /\ g.op \in {"ask", "draft"} /\ g.topic \in Topic
                          /\ g.op = "ask" => g.version # Null,
         g.pc \in {"read", "check"}, g.op = "reply" => FALSE,
         g.pc = "check" => g.said \in Claim,
         g.op \in {"route", "draft", "send"} => question.asked
  PROVE  AnswersInv'
<1>. DEFINE f == Known(g, offer.price, offer.live, flawed)
            b == offer.live /\ g.topic = "security"
            h == [g EXCEPT !.price = offer.price, !.live = b, !.facts = f]
<1>1. offer.price \in Price /\ offer.price # Null /\ b \in BOOLEAN
  BY QuestionsAssumption DEF AnswersInv, QuestionsTypeOK, Offer, Claim, Fact
<1>2. f \in SUBSET Fact
  BY <1>1 DEF Known, Counted, Badge, Fact, Tally, Badges
<1>3. job' = [job EXCEPT ![w] = h]
  BY DEF Load
<1>4. g.op = "ask" /\ g.topic = "security" => b = offer.live
  BY DEF AnswersInv, QuestionsTypeOK, Offer
<1>5. /\ Tells(g, offer.price) => offer.price \in f
      /\ Tells(g, Counts(g.version)) => Counts(g.version) \in f
      /\ g.op = "ask" /\ g.topic = "security" => Badge(offer.live) \in f
  BY DEF Known, Counts, Tells, Badge, Badges
<1>. HIDE DEF f, b
<1>6. h \in Job
  BY <1>1, <1>2 DEF Job
<1>7. /\ h.op = g.op /\ h.pc = g.pc /\ h.topic = g.topic /\ h.version = g.version /\ h.said = g.said
      /\ h.price = offer.price /\ h.live = b /\ h.facts = f
  BY DEF Job
<1>. HIDE DEF h
<1>9. FactsInv(h)
  BY <1>1, <1>4, <1>5, <1>7 DEF FactsInv, Tells
<1>10. LoadedInv(h)
  BY <1>1, <1>7, <1>9 DEF LoadedInv
<1>8. UNCHANGED <<offer, flawed>> /\ question' = question /\ announced' = announced
        /\ question \in Question /\ RowInv'
  BY DEF AnswersInv, QuestionsTypeOK, RowInv, listings
<1>. QED
  BY <1>3, <1>6, <1>7, <1>8, <1>10, NextStep

\* The listing, its versions and their scans change: the requests remember it.
LEMMA ChangeStep ==
  ASSUME AnswersInv, NEW price \in Price, NEW current \in Version, NEW newest \in Version,
         NEW live \in BOOLEAN, NEW scanned \in SUBSET Version,
         Change(price, current, newest, live, scanned)
  PROVE  AnswersInv'
<1>. DEFINE more(w) == Known(job[w], price, live, scanned)
            new(w) == IF job[w].price = Null THEN job[w]
                      ELSE [job[w] EXCEPT !.facts = job[w].facts \cup more(w)]
<1>1. job' = [w \in Worker |-> new(w)] /\ UNCHANGED <<question, announced>> /\ flawed' = scanned
        /\ offer' = [offer EXCEPT !.price = price, !.current = current, !.newest = newest, !.live = live]
  BY DEF Change
<1>2. ASSUME NEW w \in Worker PROVE job[w] \in Job /\ new(w) \in Job
  <2>1. job[w] \in Job
    BY DEF AnswersInv, QuestionsTypeOK
  <2>2. more(w) \in SUBSET Fact
    BY DEF Known, Counted, Badge, Fact, Tally, Badges
  <2>. HIDE DEF more
  <2>. QED
    BY <2>1, <2>2 DEF Job
<1>3. ASSUME NEW w \in Worker
      PROVE  /\ new(w).op = job[w].op /\ new(w).pc = job[w].pc /\ new(w).topic = job[w].topic
             /\ new(w).price = job[w].price /\ new(w).live = job[w].live
             /\ new(w).version = job[w].version /\ new(w).said = job[w].said
             /\ job[w].facts \subseteq new(w).facts
             /\ job[w].price # Null => more(w) \subseteq new(w).facts
  <2>1. job[w] \in Job
    BY <1>2
  <2>. HIDE DEF more
  <2>. QED
    BY <2>1 DEF Job
<1>. HIDE DEF new
<1>4. job' \in [Worker -> Job] /\ \A w \in Worker : job'[w] = new(w)
  BY <1>1, <1>2
<1>5. QuestionsTypeOK' /\ offer'.text = offer.text
  BY <1>1, <1>4 DEF AnswersInv, QuestionsTypeOK, Offer
<1>6. RowInv'
  BY <1>1, <1>5 DEF AnswersInv, RowInv
<1>7. RequestInv'
  <2>. SUFFICES ASSUME NEW w \in Worker PROVE LoadedInv(job[w])' /\ SellerInv(job[w])'
    BY DEF RequestInv
  <2>1. LoadedInv(job[w]) /\ SellerInv(job[w])
    BY DEF AnswersInv, RequestInv
  <2>2. SellerInv(job[w])'
    BY <1>1, <1>3, <1>4, <2>1 DEF SellerInv
  <2>3. ASSUME job[w].price # Null PROVE FactsInv(job[w])'
    <3>1. Tells(job[w], Counted(job[w].version, scanned)) => Counted(job[w].version, scanned) \in more(w)
      BY DEF Known
    <3>2. (\A fact : Tells(job[w], fact)' <=> Tells(job[w], fact)) /\ job'[w].version = job[w].version
      BY <1>3, <1>4, <1>5 DEF Tells
    <3>3. Counts(job[w].version)' = Counted(job[w].version, scanned)
      BY <1>1, <3>2 DEF Counts, Counted
    <3>4. FactsInv(job[w])
      BY <2>1, <2>3 DEF LoadedInv
    <3>5. /\ job'[w].price = job[w].price /\ job'[w].live = job[w].live
          /\ job'[w].op = job[w].op /\ job'[w].topic = job[w].topic
          /\ job[w].facts \subseteq job'[w].facts /\ more(w) \subseteq job'[w].facts
      BY <1>3, <1>4, <2>3
    <3>. HIDE DEF more
    <3>. QED
      BY <3>1, <3>2, <3>3, <3>4, <3>5 DEF FactsInv, Badge
  <2>4. LoadedInv(job[w])'
    BY <1>3, <1>4, <2>1, <2>3 DEF LoadedInv
  <2>. QED
    BY <2>2, <2>4
<1>8. ToldWhatWasTrue' /\ SentIsCurrent'
  BY <1>3, <1>4 DEF AnswersInv, ToldWhatWasTrue, SentIsCurrent, Stands
<1>9. AnnouncedIsThere'
  BY <1>1 DEF AnswersInv, AnnouncedIsThere
<1>. QED
  BY <1>5, <1>6, <1>7, <1>8, <1>9 DEF AnswersInv

-----------------------------------------------------------------------------
(* The steps                                                               *)

\* What the context bundle and the guardrails give are texts.
LEMMA ClaimTypes ==
  ASSUME AnswersInv, NEW w \in Worker, Stands(w, "ask", "read") \/ Stands(w, "draft", "read")
  PROVE  Synthesized(job[w]) \subseteq Claim /\ Answered(job[w]) \subseteq Claim
<1>1. job[w].topic \in Topic /\ job[w].price \in Price
  BY DEF AnswersInv, RequestInv, LoadedInv, FactsInv, Stands
<1>2. offer.text \in Claim
  BY DEF AnswersInv, RowInv, Claim, Fact, Tally
<1>3. Synthesized(job[w]) \subseteq Claim
  BY <1>1, <1>2 DEF Synthesized, Topic, Claim, Fact, Tally, Badges, Counts, Counted, Badge
<1>. QED
  BY <1>3 DEF Answered, Refusal, Claim

\* What a request for a buyer has loaded, by topic.
LEMMA AskLoaded ==
  ASSUME AnswersInv, NEW w \in Worker, Stands(w, "ask", "read")
  PROVE  LET h == job[w] IN
         /\ h.op = "ask" /\ h.topic \in Topic /\ h.price \in Price /\ Quoted(h) = h.version
         /\ h.topic = "price" => h.price \in h.facts
         /\ h.topic = "security" => {Counts(h.version), Badge(h.live)} \subseteq h.facts
         /\ h.topic = "description" /\ offer.text \in {h.price, Counts(h.version)} => offer.text \in h.facts
<1>1. LoadedInv(job[w]) /\ job[w].op = "ask" /\ job[w].pc = "read"
  BY DEF AnswersInv, RequestInv, Stands
<1>2. FactsInv(job[w]) /\ job[w].topic \in Topic
  BY <1>1 DEF LoadedInv
<1>3. Counts(job[w].version) \in Tally
  BY DEF Counts, Counted, Tally
<1>. QED
  BY <1>1, <1>2, <1>3 DEF FactsInv, Tells, Quoted

\* What is answered at once is grounded in what the request has loaded.
LEMMA AnswerGrounded ==
  ASSUME AnswersInv, NEW w \in Worker, Stands(w, "ask", "read"), NEW part \in Answered(job[w])
  PROVE  part # "unsafe" /\ (part \in Fact => part \in job[w].facts)
<1>. DEFINE h == job[w]
<1>1. CASE part = Refusal
  BY <1>1, QuestionsAssumption DEF Refusal, Fact, Tally, Badges
<1>2. CASE part # Refusal
  <2>1. part \in Synthesized(h) /\ Allowed(part, h)
    BY <1>2 DEF Answered
  <2>2. part # "unsafe"
    BY <2>1 DEF Allowed, Permitted
  <2>3. CASE h.topic = "price"
    BY <2>1, <2>2, <2>3, AskLoaded DEF Synthesized
  <2>4. CASE h.topic = "security"
    BY <2>1, <2>2, <2>4, AskLoaded DEF Synthesized
  <2>5. CASE h.topic = "description"
    <3>1. part = offer.text
      BY <2>1, <2>5 DEF Synthesized
    <3>2. part \in Price => part = h.price
      BY <2>1 DEF Allowed, PriceMatches
    <3>3. part = "zero" => part = Counts(h.version)
      BY <2>1, AskLoaded DEF Allowed, ScanMatches
    <3>4. part = "zero" \/ part \in Price
      BY <2>2, <3>1 DEF AnswersInv, RowInv
    <3>. QED
      BY <2>2, <2>5, <3>1, <3>2, <3>3, <3>4, AskLoaded
  <2>. QED
    BY <2>3, <2>4, <2>5, AskLoaded DEF Topic
<1>. QED
  BY <1>1, <1>2

\* What the detail view shows was loaded with the listing.
LEMMA ViewGrounded ==
  ASSUME AnswersInv, NEW w \in Worker, Stands(w, "ask", "read"), job[w].topic # "description",
         NEW part \in Synthesized(job[w])
  PROVE  part # "unsafe" /\ (part \in Fact => part \in job[w].facts)
<1>1. CASE job[w].topic = "price"
  BY <1>1, AskLoaded, QuestionsAssumption DEF Synthesized
<1>2. CASE job[w].topic = "security"
  BY <1>2, AskLoaded DEF Synthesized, Counts, Counted, Badge
<1>. QED
  BY <1>1, <1>2, AskLoaded DEF Topic

\* Whoever asks for a draft, for a question that exists.
LEMMA DraftBegins ==
  ASSUME AnswersInv, NEW w \in Worker, question.asked, Load(w, Drafting),
         UNCHANGED <<listings, question, announced>>
  PROVE  AnswersInv'
<1>1. Drafting \in Job /\ Drafting.op = "draft" /\ Drafting.pc = "read" /\ Drafting.version = Null
        /\ Drafting.topic \in Topic
  BY DEF AnswersInv, QuestionsTypeOK, Drafting, Idle, Job, Op, Question
<1>. QED
  BY <1>1, LoadStep

LEMMA BuyerStep == ASSUME AnswersInv, NEW w \in Worker, Buyer(w) PROVE AnswersInv'
<1>1. QuestionsTypeOK /\ RowInv /\ AnnouncedIsThere /\ question \in Question /\ announced \in BOOLEAN
        /\ offer \in Offer /\ RequestInv
  BY DEF AnswersInv, QuestionsTypeOK
<1>2. ASSUME NEW topic \in Topic, Ask(w, topic) PROVE AnswersInv'
  <2>. DEFINE g == [Idle EXCEPT !.op = "ask", !.pc = "read", !.topic = topic, !.version = offer.current]
  <2>1. offer.current \in Version /\ offer.current # Null
    BY <1>1, QuestionsAssumption DEF Offer
  <2>2. g \in Job /\ g.op = "ask" /\ g.pc = "read" /\ g.topic = topic /\ g.version = offer.current
    BY <2>1 DEF Idle, Job, Op
  <2>3. Load(w, g) /\ UNCHANGED <<listings, question, announced>>
    BY <1>2 DEF Ask, Begin
  <2>. HIDE DEF g
  <2>. QED
    BY <2>1, <2>2, <2>3, LoadStep
<1>3. ASSUME Answer(w) PROVE AnswersInv'
  <2>1. Stands(w, "ask", "read") /\ UNCHANGED <<listings, question, announced>>
    BY <1>3 DEF Answer
  <2>2. ASSUME NEW part \in Answered(job[w]), Say(w, "told", part) PROVE AnswersInv'
    <3>1. part \in Claim
      BY <2>1, ClaimTypes
    <3>2. part # "unsafe" /\ (part \in Fact => part \in job[w].facts)
      BY <2>1, AnswerGrounded
    <3>. QED
      BY <2>1, <2>2, <3>1, <3>2, SayStep
  <2>. DEFINE h == [Idle EXCEPT !.op = "ask", !.pc = "insert", !.topic = job[w].topic]
  <2>3. CASE job' = [job EXCEPT ![w] = h]
    <3>1. job[w].topic \in Topic
      BY <1>1, <2>1 DEF RequestInv, LoadedInv, Stands
    <3>2. h \in Job /\ h.op = "ask" /\ h.pc = "insert" /\ h.price = Null /\ h.topic \in Topic
      BY <3>1 DEF Idle, Job, Op
    <3>3. UNCHANGED <<offer, flawed>> /\ question' = question /\ announced' = announced /\ RowInv'
      BY <1>1, <2>1 DEF listings, RowInv
    <3>. HIDE DEF h
    <3>4. LoadedInv(h)
      BY <3>2 DEF LoadedInv
    <3>. QED
      BY <1>1, <2>3, <3>2, <3>3, <3>4, NextStep
  <2>. QED
    BY <1>3, <2>2, <2>3 DEF Answer
<1>4. ASSUME View(w) PROVE AnswersInv'
  <2>1. Stands(w, "ask", "read") /\ job[w].topic # "description" /\ UNCHANGED <<listings, question, announced>>
    BY <1>4 DEF View
  <2>2. PICK part \in Synthesized(job[w]) : Say(w, "told", part)
    BY <1>4 DEF View
  <2>3. part \in Claim
    BY <2>1, ClaimTypes
  <2>4. part # "unsafe" /\ (part \in Fact => part \in job[w].facts)
    BY <2>1, ViewGrounded
  <2>. QED
    BY <2>1, <2>2, <2>3, <2>4, SayStep
<1>5. ASSUME Search(w) PROVE AnswersInv'
  <2>1. PICK part \in {offer.price, "scanned"} :
          job' = [job EXCEPT ![w] = [Idle EXCEPT !.op = "ask", !.pc = "told", !.said = part,
                    !.facts = {offer.price, Badge(offer.live)} \cap {part}]]
    BY <1>5 DEF Search
  <2>. DEFINE h == [Idle EXCEPT !.op = "ask", !.pc = "told", !.said = part,
                    !.facts = {offer.price, Badge(offer.live)} \cap {part}]
  <2>2. offer.live /\ UNCHANGED <<offer, flawed, question, announced>> /\ RowInv'
    BY <1>1, <1>5 DEF Search, listings, RowInv
  <2>3. part \in {offer.price, Badge(offer.live)} /\ part \in Fact /\ part # "unsafe"
    BY <1>1, <2>2, QuestionsAssumption DEF Offer, Badge, Fact, Badges
  <2>4. h \in Job /\ h.op = "ask" /\ h.pc = "told" /\ h.price = Null /\ h.said = part
          /\ h.facts = {part}
    BY <2>3 DEF Idle, Job, Op, Claim
  <2>. HIDE DEF h
  <2>5. LoadedInv(h)
    BY <2>4 DEF LoadedInv
  <2>6. job' = [job EXCEPT ![w] = h]
    BY <2>1 DEF h
  <2>. QED
    BY <1>1, <2>2, <2>3, <2>4, <2>5, <2>6, NextStep
<1>6. ASSUME End(w) PROVE AnswersInv'
  BY <1>1, <1>6, DoneStep DEF End, listings, RowInv, AnnouncedIsThere
<1>7. \A topic \in Topic : New(topic) \in Question /\ ~New(topic).answered /\ New(topic).asked
  BY DEF New, Question
<1>8. ASSUME InsertRouted(w) PROVE AnswersInv'
  <2>. DEFINE h == [Idle EXCEPT !.op = "route", !.pc = "call"]
  <2>1. job[w].topic \in Topic
    BY <1>1, <1>8 DEF InsertRouted, Stands, RequestInv, LoadedInv
  <2>2. h \in Job /\ h.op = "route" /\ h.pc = "call" /\ h.price = Null
    BY DEF Idle, Job, Op
  <2>3. job' = [job EXCEPT ![w] = h] /\ UNCHANGED <<offer, flawed, announced>>
          /\ question' = IF question.asked THEN question ELSE New(job[w].topic)
    BY <1>8 DEF InsertRouted, listings
  <2>4. question' \in Question /\ RowInv' /\ (question.answered => question'.answered)
          /\ question'.asked
    BY <1>1, <1>7, <2>1, <2>3 DEF RowInv
  <2>. HIDE DEF h
  <2>5. LoadedInv(h)
    BY <2>2 DEF LoadedInv
  <2>. QED
    BY <2>2, <2>3, <2>4, <2>5, NextStep
<1>9. ASSUME NEW topic \in Topic, CreateQuestion(w, topic) PROVE AnswersInv'
  <2>. DEFINE h == [Idle EXCEPT !.op = "create", !.pc = "notify"]
  <2>1. h \in Job /\ h.op = "create" /\ h.pc = "notify" /\ h.price = Null
    BY DEF Idle, Job, Op
  <2>2. job' = [job EXCEPT ![w] = h] /\ UNCHANGED <<offer, flawed, announced>>
          /\ question' = New(topic) /\ ~question.asked
    BY <1>9 DEF CreateQuestion, listings
  <2>3. question' \in Question /\ RowInv' /\ (question.answered => question'.answered)
    BY <1>1, <1>7, <2>2 DEF RowInv
  <2>. HIDE DEF h
  <2>4. LoadedInv(h)
    BY <2>1 DEF LoadedInv
  <2>. QED
    BY <2>1, <2>2, <2>3, <2>4, NextStep
<1>11. ASSUME TriggerDraft(w) PROVE AnswersInv'
  <2>1. question.asked
    BY <1>1, <1>11 DEF TriggerDraft, Stands, RequestInv, SellerInv
  <2>. QED
    BY <1>11, <2>1, DraftBegins DEF TriggerDraft
<1>. QED
  BY <1>2, <1>3, <1>4, <1>5, <1>6, <1>8, <1>9, <1>11 DEF Buyer

LEMMA SellerStep == ASSUME AnswersInv, NEW w \in Worker, Seller(w) PROVE AnswersInv'
<1>1. QuestionsTypeOK /\ RowInv /\ AnnouncedIsThere /\ question \in Question /\ announced \in BOOLEAN
        /\ RequestInv
  BY DEF AnswersInv, QuestionsTypeOK
<1>2. ASSUME StartDraft(w) PROVE AnswersInv'
  BY <1>2, DraftBegins DEF StartDraft, Begin
<1>3. ASSUME Draft(w) PROVE AnswersInv'
  <2>1. Stands(w, "draft", "read") /\ UNCHANGED <<listings, question, announced>>
    BY <1>3 DEF Draft
  <2>2. PICK part \in Answered(job[w]) : Say(w, "store", part)
    BY <1>3 DEF Draft
  <2>3. part \in Claim
    BY <2>1, ClaimTypes
  <2>. QED
    BY <2>1, <2>2, <2>3, SayStep
<1>4. ASSUME StoreDraft(w) PROVE AnswersInv'
  <2>1. job[w].said \in Claim
    BY <1>1, <1>4 DEF StoreDraft, Stands, RequestInv, LoadedInv
  <2>2. question' = [question EXCEPT !.draft = job[w].said] /\ Done(w) /\ UNCHANGED <<offer, flawed, announced>>
    BY <1>4 DEF StoreDraft, Drafted, listings
  <2>3. question' \in Question /\ question'.asked = question.asked /\ question'.answered = question.answered
    BY <1>1, <2>1, <2>2 DEF Question
  <2>. QED
    BY <1>1, <2>2, <2>3, DoneStep DEF RowInv, AnnouncedIsThere
<1>5. ASSUME NEW claim \in Claim, StartSend(w, claim) PROVE AnswersInv'
  <2>. DEFINE g == [Idle EXCEPT !.op = "send", !.pc = "check", !.said = claim]
  <2>1. g \in Job /\ g.op = "send" /\ g.pc = "check" /\ g.said = claim /\ g.version = Null
    BY DEF Idle, Job, Op
  <2>2. Load(w, g) /\ question.asked /\ UNCHANGED <<listings, question, announced>>
    BY <1>5 DEF StartSend, Begin
  <2>. HIDE DEF g
  <2>. QED
    BY <2>1, <2>2, LoadStep
<1>6. ASSUME CheckReply(w) PROVE AnswersInv'
  <2>1. Stands(w, "send", "check") /\ UNCHANGED <<listings, question, announced>>
    BY <1>6 DEF CheckReply
  <2>2. CASE Deliverable(job[w].said, job[w])
    <3>1. job[w].said \in Claim /\ job[w].price \in job[w].facts
      BY <1>1, <2>1 DEF Stands, RequestInv, LoadedInv, FactsInv, Tells
    <3>2. job[w].said # "unsafe" /\ (job[w].said \in Price => job[w].said \in job[w].facts)
      BY <2>2, <3>1 DEF Deliverable, Allowed, Permitted, PriceMatches
    <3>3. Say(w, "deliver", job[w].said)
      BY <1>6, <2>2 DEF CheckReply
    <3>. QED
      BY <2>1, <3>1, <3>2, <3>3, SayStep
  <2>3. CASE ~Deliverable(job[w].said, job[w])
    BY <1>1, <1>6, <2>3, DoneStep DEF CheckReply, listings, RowInv, AnnouncedIsThere
  <2>. QED
    BY <2>2, <2>3
<1>7. ASSUME Deliver(w) PROVE AnswersInv'
  <2>1. question.asked
    BY <1>1, <1>7 DEF Deliver, Stands, RequestInv, SellerInv
  <2>2. question' = [question EXCEPT !.answered = TRUE] /\ Done(w) /\ UNCHANGED <<offer, flawed, announced>>
    BY <1>7 DEF Deliver, listings
  <2>3. question' \in Question /\ question'.asked /\ question'.answered
    BY <1>1, <2>1, <2>2 DEF Question
  <2>. QED
    BY <1>1, <2>2, <2>3, DoneStep DEF RowInv, AnnouncedIsThere
<1>8. ASSUME Reply(w) PROVE AnswersInv'
  <2>. DEFINE h == [Idle EXCEPT !.op = "reply", !.pc = "notify"]
  <2>1. h \in Job /\ h.op = "reply" /\ h.pc = "notify" /\ h.price = Null
    BY DEF Idle, Job, Op
  <2>2. job' = [job EXCEPT ![w] = h] /\ UNCHANGED <<offer, flawed, announced>> /\ question.asked
          /\ question' = [question EXCEPT !.answered = TRUE]
    BY <1>8 DEF Reply, listings
  <2>3. question' \in Question /\ question'.asked /\ question'.answered
    BY <1>1, <2>2 DEF Question
  <2>4. RowInv'
    BY <1>1, <2>2, <2>3 DEF RowInv
  <2>. HIDE DEF h
  <2>5. LoadedInv(h)
    BY <2>1 DEF LoadedInv
  <2>. QED
    BY <2>1, <2>2, <2>3, <2>4, <2>5, NextStep
<1>. QED
  BY <1>2, <1>3, <1>4, <1>5, <1>6, <1>7, <1>8 DEF Seller

LEMMA NotifyStep == ASSUME AnswersInv, NEW w \in Worker, Notify(w) \/ Fail(w) PROVE AnswersInv'
<1>1. CASE Notify(w)
  <2>1. job[w].op = "reply" => question.answered
    BY DEF AnswersInv, RequestInv, SellerInv
  <2>2. announced' \in BOOLEAN /\ AnnouncedIsThere'
    BY <1>1, <2>1 DEF AnswersInv, QuestionsTypeOK, AnnouncedIsThere, Notify, Emitted
  <2>. QED
    BY <1>1, <2>2, DoneStep DEF AnswersInv, QuestionsTypeOK, Notify, listings, RowInv
<1>2. CASE Fail(w)
  BY <1>2, DoneStep DEF AnswersInv, QuestionsTypeOK, Fail, listings, RowInv, AnnouncedIsThere
<1>. QED
  BY <1>1, <1>2

LEMMA ListingStep == ASSUME AnswersInv, Listing PROVE AnswersInv'
<1>1. offer.price \in Price /\ offer.current \in Version /\ offer.newest \in Version
        /\ offer.live \in BOOLEAN /\ flawed \in SUBSET Version
  BY DEF AnswersInv, QuestionsTypeOK, Offer
<1>2. offer.newest < MaxVersions => offer.newest + 1 \in Version
  BY <1>1, QuestionsAssumption DEF Version
<1>3. ASSUME NEW price \in Price, Edit(price) PROVE AnswersInv'
  BY <1>1, <1>2, <1>3, ChangeStep DEF Edit
<1>4. ASSUME NEW v \in Version, RecordScan(v) PROVE AnswersInv'
  <2>1. flawed \cup {v} \in SUBSET Version /\ flawed \ {v} \in SUBSET Version
    BY <1>1
  <2>2. PICK scanned \in SUBSET Version :
          Change(offer.price, offer.current, offer.newest, offer.live, scanned)
    BY <1>4, <2>1 DEF RecordScan
  <2>. QED
    BY <1>1, <2>2, ChangeStep
<1>5. ASSUME NEW v \in Version, Publish(v) PROVE AnswersInv'
  BY <1>1, <1>5, ChangeStep DEF Publish
<1>6. CASE Submit
  BY <1>1, <1>2, <1>6, ChangeStep DEF Submit
<1>7. CASE Delist
  BY <1>1, <1>7, ChangeStep DEF Delist
<1>. QED
  BY <1>3, <1>4, <1>5, <1>6, <1>7 DEF Listing

-----------------------------------------------------------------------------
(* Results                                                                 *)

LEMMA AnswersInitial == QuestionsInit => AnswersInv
<1>. SUFFICES ASSUME QuestionsInit PROVE AnswersInv
  OBVIOUS
<1>1. QuestionsTypeOK
  <2>1. job \in [Worker -> Job] /\ flawed \subseteq Version /\ announced \in BOOLEAN
    BY IdleType DEF QuestionsInit
  <2>2. question \in Question
    BY DEF QuestionsInit, Question, Topic
  <2>3. 1 \in Version /\ {"zero", "unsafe"} \cup Price \subseteq Claim
    BY QuestionsAssumption DEF Version, Claim, Fact, Tally
  <2>4. offer \in Offer
    BY <2>3 DEF QuestionsInit, Offer
  <2>. QED
    BY <2>1, <2>2, <2>4 DEF QuestionsTypeOK
<1>2. RowInv
  BY DEF QuestionsInit, RowInv
<1>3. RequestInv /\ ToldWhatWasTrue /\ SentIsCurrent /\ AnnouncedIsThere
  BY DEF QuestionsInit, Idle, RequestInv, LoadedInv, SellerInv, ToldWhatWasTrue, SentIsCurrent, AnnouncedIsThere, Stands
<1>. QED
  BY <1>1, <1>2, <1>3 DEF AnswersInv

LEMMA AnswersStutter == AnswersInv /\ UNCHANGED questionVars => AnswersInv'
<1>. SUFFICES ASSUME AnswersInv, UNCHANGED questionVars PROVE AnswersInv'
  OBVIOUS
<1>. QED
  BY DEF questionVars, AnswersInv, QuestionsTypeOK, RowInv, RequestInv, LoadedInv, FactsInv, Tells,
         SellerInv, Counts, Counted,
         ToldWhatWasTrue, SentIsCurrent, AnnouncedIsThere, Stands

LEMMA AnswersInductive == QuestionsSpec => []AnswersInv
<1>1. AnswersInv /\ [QuestionsNext]_questionVars => AnswersInv'
  BY BuyerStep, SellerStep, NotifyStep, ListingStep, AnswersStutter DEF QuestionsNext
<1>. QED
  BY <1>1, AnswersInitial, PTL DEF QuestionsSpec

\* Every variable has its type in every reachable state; in particular only texts
\* are told and stored, whatever the description and the seller say.
THEOREM AnswersTypeCorrect == QuestionsSpec => []QuestionsTypeOK
<1>1. AnswersInv => QuestionsTypeOK
  BY DEF AnswersInv
<1>. QED
  BY <1>1, AnswersInductive, PTL

\* What buyer-assist, the broker, the detail view and the search tell at once was
\* true at some moment of the request, whatever happens to the listing.
THEOREM ToldWhatWasTrueHolds == QuestionsSpec => []ToldWhatWasTrue
<1>1. AnswersInv => ToldWhatWasTrue
  BY DEF AnswersInv
<1>. QED
  BY <1>1, AnswersInductive, PTL

\* A reply sent through seller-assist quotes no price that the listing did not have
\* during the request, however old the draft.
THEOREM SentIsCurrentHolds == QuestionsSpec => []SentIsCurrent
<1>1. AnswersInv => SentIsCurrent
  BY DEF AnswersInv
<1>. QED
  BY <1>1, AnswersInductive, PTL

\* A buyer who was notified of a reply finds one, whatever drafts are stored over it.
THEOREM AnnouncedIsThereHolds == QuestionsSpec => []AnnouncedIsThere
<1>1. AnswersInv => AnnouncedIsThere
  BY DEF AnswersInv
<1>. QED
  BY <1>1, AnswersInductive, PTL
==============================================================================
