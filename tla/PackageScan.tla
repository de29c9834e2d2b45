----------------------------- MODULE PackageScan -----------------------------
(***************************************************************************)
(* What one scan of the intake pipeline does with the bytes of a package:   *)
(* an archive is unpacked chunk by chunk, or a repository is cloned; the    *)
(* secrets scanner walks the tree and matches each line, then the lines of  *)
(* the git history; the static scanner walks the tree again; the verdicts   *)
(* are merged and the scratch directory is wiped.                           *)
(*                                                                          *)
(* Every budget check may also find the time used up.                       *)
(***************************************************************************)
EXTENDS Sequences, FiniteSets, ScanContract

CONSTANTS
  Upload,      \* what a seller may submit
  Path,        \* the paths in packages
  Lockfile, Manifest,  \* DEFAULT_IGNORED_FILES; is_manifest_file
  Vendored, Built,     \* below .git or node_modules; below another ignored directory
  Depth,       \* how deep the directory of each path is
  Rules,       \* the catalogue of rules, in its order
  MaxMembers, MaxMember, MaxUnpacked,      \* the extractor's budgets, in chunks
  MaxFiles, MaxFile, MaxBytes, MaxDepth,   \* the walker's budgets, in chunks
  MaxHistory,  \* the bytes of diff that the history pass reads, in lines
  MaxCommits,  \* git log --max-count
  MaxLine,     \* the columns of a line of the diff that are kept
  None

Rule == [id : STRING, kind : {"regex", "entropy"}, severity : Severity, confidence : Confidence]

\* A candidate on a line: the columns from..to-1, what excuses it (a placeholder
\* or an inline allowlist: quiet; the allowlist file: listed; an entropy below the
\* threshold: dull) and its redacted text.
Mark == {"plain", "quiet", "listed", "dull"}
Match == {m \in [rule : DOMAIN Rules, from : Nat, to : Nat, mark : Mark, text : STRING] :
            m.from < m.to}

\* A file: its size, whether it decodes as text, the matches on each of its lines,
\* and what the static scanner would find in it as code or as a manifest.
Dependency == [denied : BOOLEAN, pinned : BOOLEAN]
File == [size : Nat, text : BOOLEAN, lines : Seq(SUBSET Match),
         language : BOOLEAN, flaws : SUBSET Finding,
         parses : BOOLEAN, deps : SUBSET Dependency]

\* A file in the scratch directory, and how many of its chunks are written.
Stored == [file : File, bytes : Nat]

\* A member of an archive says how large it is before it is read.
Member == [path : Path, form : {"file", "dir", "link", "escape"}, declared : Nat, file : File]

\* A line of git log -p, added in a commit, the newest of which is 1; one that
\* begins with ++ looks like the header of a file.
Added == [path : Path, commit : Nat \ {0}, header : BOOLEAN, matches : SUBSET Match]

ASSUME PackageScanAssumption ==
  /\ Lockfile \cup Manifest \cup Vendored \cup Built \subseteq Path
  /\ Depth \in [Path -> Nat]
  /\ Rules \in Seq(Rule)
  /\ \A r \in DOMAIN Rules : Rules[r].kind = "entropy" => Rules[r].confidence # "high"
  /\ {MaxMembers, MaxMember, MaxUnpacked, MaxFiles, MaxFile, MaxBytes, MaxDepth,
      MaxHistory, MaxCommits, MaxLine} \subseteq Nat
  /\ \A u \in Upload :
       /\ u.source \in {"zip", "tar", "github"}
       /\ u.members \in Seq(Member) /\ u.log \in Seq(Added)
       /\ \A i, j \in DOMAIN u.log : i <= j => u.log[i].commit <= u.log[j].commit
       /\ u.tree \in [Path -> File \cup {None}]
  /\ None \notin File \cup Stored \cup Status /\ None \notin Nat

VARIABLES
  upload,  \* the submission
  disk,    \* the scratch directory: the chunks of each file that are written
  at,      \* where the scan stands
  found,   \* the findings of the secrets scanner
  flaws,   \* the findings of the static scanner, and whether a manifest is broken
  verdict  \* the verdict of each scanner that has ended, and the merged one

vars == <<upload, disk, at, found, flaws, verdict>>


\* seen and bytes: what the walk has met and read; lines: what is left of the open
\* file; line: what scan_line works at, with its number in the file or in the log.
Line == [path : Path \cup {None}, commit : Nat \cup {None}, number : Nat,
         todo : SUBSET Match, claimed : SUBSET Match]
NoLine == [path |-> None, commit |-> None, number |-> 0, todo |-> {}, claimed |-> {}]
At == [pc : {"unpack", "chunk", "clone", "secrets", "history", "static", "cve", "end"},
       next : Nat \ {0}, total : Nat, seen : SUBSET Path, bytes : Nat,
       lines : Seq(SUBSET Match), line : Line]
Start(pc) == [pc |-> pc, next |-> 1, total |-> 0, seen |-> {}, bytes |-> 0,
              lines |-> <<>>, line |-> NoLine]
Empty == [p \in Path |-> None]

Init ==
  /\ upload \in Upload
  /\ disk = Empty
  /\ at = Start(IF upload.source = "github" THEN "clone" ELSE "unpack")
  /\ found = {}
  /\ flaws = [findings |-> {}, broken |-> FALSE]
  /\ verdict = [secrets |-> None, static |-> None, overall |-> None]

-----------------------------------------------------------------------------
(* Intake                                                                  *)

\* An error of the extractor or of git ends the scan: the directory is wiped and
\* the version is scan_failed.
Refuse ==
  /\ disk' = Empty
  /\ at' = Start("end")
  /\ verdict' = [verdict EXCEPT !.overall = "error"]
  /\ UNCHANGED <<upload, found, flaws>>

\* The time is used up, the archive is corrupt, or git fails.
IntakeFails == at.pc \in {"unpack", "chunk", "clone"} /\ Refuse

Refused(m) ==
  \/ at.next > MaxMembers
  \/ m.form = "link" /\ upload.source = "tar"
  \/ m.form = "escape"
  \/ m.form # "dir" /\ m.declared > MaxMember

\* The header of the next member.  An earlier member of the same name is truncated.
OpenMember ==
  /\ at.pc = "unpack" /\ at.next <= Len(upload.members)
  /\ LET m == upload.members[at.next] IN
     \/ Refused(m) /\ Refuse
     \/ /\ ~Refused(m) /\ m.form = "dir"
        /\ at' = [at EXCEPT !.next = @ + 1]
        /\ UNCHANGED <<upload, disk, found, flaws, verdict>>
     \/ /\ ~Refused(m) /\ m.form # "dir"
        /\ disk' = [disk EXCEPT ![m.path] = [file |-> m.file, bytes |-> 0]]
        /\ at' = [at EXCEPT !.pc = "chunk"]
        /\ UNCHANGED <<upload, found, flaws, verdict>>

\* What was read is counted before it is written, whatever the header declared.
\* Faulty variant: the header is trusted.
Fits_declared(bytes, total) == total <= MaxUnpacked
Fits(bytes, total) == bytes <= MaxMember /\ total <= MaxUnpacked

ReadChunk ==
  /\ at.pc = "chunk"
  /\ LET p == upload.members[at.next].path
         bytes == disk[p].bytes
     IN
     \/ /\ bytes = disk[p].file.size
        /\ at' = [at EXCEPT !.pc = "unpack", !.next = @ + 1]
        /\ UNCHANGED <<upload, disk, found, flaws, verdict>>
     \/ /\ bytes < disk[p].file.size /\ Fits(bytes + 1, at.total + 1)
        /\ disk' = [disk EXCEPT ![p].bytes = bytes + 1]
        /\ at' = [at EXCEPT !.total = @ + 1]
        /\ UNCHANGED <<upload, found, flaws, verdict>>
     \/ /\ bytes < disk[p].file.size /\ ~Fits(bytes + 1, at.total + 1)
        /\ Refuse

Unpacked ==
  /\ at.pc = "unpack" /\ at.next > Len(upload.members)
  /\ at' = Start("secrets")
  /\ UNCHANGED <<upload, disk, found, flaws, verdict>>

Clone ==
  /\ at.pc = "clone"
  /\ disk' = [p \in Path |-> IF upload.tree[p] = None THEN None
                             ELSE [file |-> upload.tree[p], bytes |-> upload.tree[p].size]]
  /\ at' = Start("secrets")
  /\ UNCHANGED <<upload, found, flaws, verdict>>

-----------------------------------------------------------------------------
(* The walk of the tree                                                    *)

Pruned(pc) == IF pc = "static" THEN Vendored \cup Built ELSE Vendored
Unseen == {p \in Path : disk[p] # None} \ (at.seen \cup Pruned(at.pc))
Resting == at.lines = <<>> /\ at.line.todo = {}

\* Lockfiles and large files are passed over before they are opened.  A binary
\* file counts with its first chunk.
Opened(p, f) == p \notin Lockfile /\ f.size <= MaxFile
Bytes(p, f) ==
  CASE ~Opened(p, f) -> 0
    [] Opened(p, f) /\ f.text -> f.size
    [] OTHER -> IF f.size = 0 THEN 0 ELSE 1

OverBudget(p, f) ==
  \/ Depth[p] > MaxDepth
  \/ Cardinality(at.seen) + 1 > MaxFiles
  \/ at.bytes + Bytes(p, f) > MaxBytes

\* A budget that is exceeded, the time or git ends a scanner with an error, and
\* without findings.
Broke(pc) ==
  /\ \/ /\ pc # "static"
        /\ found' = {}
        /\ verdict' = [verdict EXCEPT !.secrets = "error"]
        /\ at' = Start("static")
        /\ UNCHANGED flaws
     \/ /\ pc = "static"
        /\ flaws' = [findings |-> {}, broken |-> FALSE]
        /\ verdict' = [verdict EXCEPT !.static = "error"]
        /\ at' = Start("cve")
        /\ UNCHANGED found
  /\ UNCHANGED <<upload, disk>>

TimeOut == at.pc \in {"secrets", "history", "static"} /\ Broke(at.pc)

Visited(p, f) ==
  [at EXCEPT !.seen = @ \cup {p}, !.bytes = @ + Bytes(p, f),
             !.lines = IF at.pc = "secrets" /\ Opened(p, f) /\ f.text THEN f.lines ELSE <<>>,
             !.line = [NoLine EXCEPT !.path = p]]

\* The secrets scanner meets a file.
Visit(p) ==
  /\ at.pc = "secrets" /\ Resting /\ p \in Unseen
  /\ LET f == disk[p].file IN
     \/ OverBudget(p, f) /\ Broke("secrets")
     \/ /\ ~OverBudget(p, f)
        /\ at' = Visited(p, f)
        /\ UNCHANGED <<upload, disk, found, flaws, verdict>>

-----------------------------------------------------------------------------
(* Lines                                                                   *)

NextLine ==
  /\ at.lines # <<>> /\ at.line.todo = {}
  /\ at' = [at EXCEPT !.lines = Tail(@),
                      !.line = [at.line EXCEPT !.number = @ + 1, !.todo = Head(at.lines),
                                               !.claimed = {}]]
  /\ UNCHANGED <<upload, disk, found, flaws, verdict>>

\* The formats of tokens go before the assignments that might contain them, and the
\* entropy of a token counts last.  Faulty variant: in the order of the catalogue.
Precedence_flat(r) == IF r.kind = "entropy" THEN 4 ELSE 0
Precedence(r) ==
  CASE r.kind = "entropy" -> 4
    [] r.kind # "entropy" /\ r.confidence = "high" -> 0
    [] r.kind # "entropy" /\ r.confidence # "high" ->
         CASE r.id \in {"HARDCODED_PASSWORD", "GENERIC_API_KEY"} -> 1
           [] r.id = "GENERIC_SECRET_ASSIGNMENT" -> 2
           [] OTHER -> 3

Before(m, n) ==
  LET p == Precedence(Rules[m.rule])
      q == Precedence(Rules[n.rule])
  IN
  \/ p < q
  \/ p = q /\ m.rule < n.rule
  \/ p = q /\ m.rule = n.rule /\ m.from < n.from

Overlap(m, n) == m.from < n.to /\ n.from < m.to

\* A span once claimed is not matched again, also when it was claimed silently.
Claims(m) == m.mark # "dull" /\ \A n \in at.line.claimed : ~Overlap(m, n)

\* A finding: its place in the tree, and the commit that holds it too; or its first
\* place in the history.
Secret(m) ==
  [rule |-> m.rule, path |-> at.line.path, text |-> m.text,
   line |-> at.line.number, from |-> m.from, commit |-> at.line.commit,
   origin |-> IF at.line.commit = None THEN "tree" ELSE "history"]
SameKey(f, g) == f.rule = g.rule /\ f.path = g.path /\ f.text = g.text
Later(f, g) == f.line > g.line \/ (f.line = g.line /\ f.from > g.from)

\* working_tree_index: of the tree's findings with one key, the last.
Indexed(g) ==
  g.origin = "tree" /\ \A h \in found : SameKey(g, h) /\ h.origin = "tree" => ~Later(h, g)
Noted(g, f) ==
  IF SameKey(g, f) /\ Indexed(g) /\ g.commit = None THEN [g EXCEPT !.commit = f.commit] ELSE g

\* A finding of the tree is recorded.  One of the history notes its commit at the
\* finding of the tree that the index holds, or is recorded if its key is new.
\* Faulty variant: the keys of the history alone are forgotten.
Reported_tree(f) ==
  IF f.origin = "tree" \/ \A g \in found : SameKey(g, f) => g.origin = "history"
  THEN found \cup {f} ELSE {Noted(g, f) : g \in found}
Reported(f) ==
  IF f.origin = "tree" \/ \A g \in found : ~SameKey(g, f)
  THEN found \cup {f} ELSE {Noted(g, f) : g \in found}

\* scan_line, for one candidate after the other.
Consider(m) ==
  /\ m \in at.line.todo /\ \A n \in at.line.todo : ~Before(n, m)
  /\ at' = [at EXCEPT !.line.todo = @ \ {m},
                      !.line.claimed = IF Claims(m) THEN @ \cup {m} ELSE @]
  /\ found' = IF Claims(m) /\ m.mark = "plain"
              THEN Reported(Secret(m)) ELSE found
  /\ UNCHANGED <<upload, disk, flaws, verdict>>

-----------------------------------------------------------------------------
(* The history                                                             *)

Judged ==
  /\ verdict' = [verdict EXCEPT !.secrets =
       EvaluateStatus({[severity |-> Rules[f.rule].severity,
                        confidence |-> Rules[f.rule].confidence] : f \in found}, FALSE)]
  /\ at' = Start("static")
  /\ UNCHANGED <<upload, disk, found, flaws>>

\* The history is read for repositories only.
Walked ==
  /\ at.pc = "secrets" /\ Resting /\ Unseen = {}
  /\ \/ /\ upload.source = "github"
        /\ at' = Start("history")
        /\ UNCHANGED <<upload, disk, found, flaws, verdict>>
     \/ /\ upload.source # "github"
        /\ Judged

\* git log ends with the commit MaxCommits, and nothing tells that there are more.
LogEnds == at.next \in DOMAIN upload.log => upload.log[at.next].commit > MaxCommits

\* What is beyond MaxLine of a line is cut off.  A match across the cut may still be one.
Legible(a) == {read \in SUBSET a.matches :
                 /\ \A m \in read : ~a.header /\ m.from < MaxLine
                 /\ \A m \in a.matches : ~a.header /\ m.to <= MaxLine => m \in read}

ReadLog ==
  /\ at.pc = "history" /\ Resting /\ ~LogEnds
  /\ \/ at.next > MaxHistory /\ Broke("history")
     \/ /\ at.next <= MaxHistory
        /\ LET a == upload.log[at.next] IN
           \E read \in Legible(a) :
             at' = [at EXCEPT !.next = @ + 1,
                              !.line = [path |-> a.path, commit |-> a.commit, number |-> at.next,
                                        todo |-> read, claimed |-> {}]]
        /\ UNCHANGED <<upload, disk, found, flaws, verdict>>

LogRead ==
  /\ at.pc = "history" /\ Resting /\ LogEnds
  /\ Judged

-----------------------------------------------------------------------------
(* The static scanner, and the verdict                                     *)

ManifestFlaws(f) ==
  IF ~f.parses THEN {[severity |-> "high", confidence |-> "high"]}
  ELSE {[severity |-> "critical", confidence |-> "high"] : d \in {d \in f.deps : d.denied}}
       \cup {[severity |-> "low", confidence |-> "high"] : d \in {d \in f.deps : ~d.pinned}}

\* A manifest is not scanned as code, and a file in no known language not at all.
StaticFlaws(p, f) ==
  CASE p \in Manifest -> ManifestFlaws(f)
    [] p \notin Manifest /\ f.language -> f.flaws
    [] OTHER -> {}

Inspect(p) ==
  /\ at.pc = "static" /\ p \in Unseen
  /\ LET f == disk[p].file
         read == Opened(p, f) /\ f.text
     IN
     \/ OverBudget(p, f) /\ Broke("static")
     \/ /\ ~OverBudget(p, f)
        /\ at' = Visited(p, f)
        /\ flaws' = IF read THEN [findings |-> flaws.findings \cup StaticFlaws(p, f),
                                  broken |-> flaws.broken \/ (p \in Manifest /\ ~f.parses)]
                    ELSE flaws
        /\ UNCHANGED <<upload, disk, found, verdict>>

Inspected ==
  /\ at.pc = "static" /\ Unseen = {}
  /\ verdict' = [verdict EXCEPT !.static = EvaluateStatus(flaws.findings, flaws.broken)]
  /\ at' = Start("cve")
  /\ UNCHANGED <<upload, disk, found, flaws>>

\* The verdicts are merged with the CVE scanner's, and the directory is wiped.
Conclude ==
  /\ at.pc = "cve"
  /\ \E cve \in Status :
       verdict' = [verdict EXCEPT !.overall = Merged({verdict.secrets, verdict.static, cve})]
  /\ disk' = Empty
  /\ at' = Start("end")
  /\ UNCHANGED <<upload, found, flaws>>

-----------------------------------------------------------------------------

Next ==
  \/ IntakeFails \/ OpenMember \/ ReadChunk \/ Unpacked \/ Clone
  \/ TimeOut \/ (\E p \in Path : Visit(p) \/ Inspect(p))
  \/ NextLine \/ (\E m \in at.line.todo : Consider(m))
  \/ Walked \/ ReadLog \/ LogRead \/ Inspected \/ Conclude

Spec == Init /\ [][Next]_vars

-----------------------------------------------------------------------------
(* Properties                                                              *)

Blocks(m) == Blocking([severity |-> Rules[m.rule].severity,
                       confidence |-> Rules[m.rule].confidence])

\* Only a match of a format, which is itself excused or reported, hides another.
Excused(m, matches) ==
  \/ m.mark # "plain"
  \/ \E n \in matches \ {m} : /\ Overlap(m, n) /\ Rules[n.rule].confidence = "high"
                              /\ n.mark # "plain" \/ ~Blocks(n)
Harmless(some, matches) == \A m \in some : Blocks(m) => Excused(m, matches)

\* What git_history leaves of an added line, for certain.
Whole(a) == {m \in a.matches : ~a.header /\ m.to <= MaxLine}

\* What the package holds at a path: of members with one name, the last.
Last(p) == {i \in DOMAIN upload.members :
              /\ upload.members[i].path = p /\ upload.members[i].form # "dir"
              /\ \A j \in DOMAIN upload.members :
                   upload.members[j].path = p /\ upload.members[j].form # "dir" => j <= i}
Contents(p) ==
  IF upload.source = "github"
  THEN IF upload.tree[p] = None THEN {} ELSE {upload.tree[p]}
  ELSE {upload.members[i].file : i \in Last(p)}

\* A package that passes has been read as far as the scanners read: no text file that is
\* neither a lockfile, too large nor vendored holds a blocking secret that is not excused,
\* no manifest is broken or names a denied package, and no code has a blocking flaw;
\* nor does any line of the history's latest MaxCommits commits, up to column MaxLine.
\* What is beyond is passed over in silence, but no order of matches, no other
\* budget and no lost time hides anything.
PassedIsRead ==
  verdict.overall = "passed" =>
    /\ \A p \in Path \ Vendored : \A f \in Contents(p) :
         Opened(p, f) /\ f.text =>
           /\ \A i \in DOMAIN f.lines : Harmless(f.lines[i], f.lines[i])
           /\ p \notin Built => \A g \in StaticFlaws(p, f) : ~Blocking(g)
    /\ upload.source = "github" =>
         \A i \in DOMAIN upload.log :
           upload.log[i].commit <= MaxCommits =>
             Harmless(Whole(upload.log[i]), upload.log[i].matches)

\* An archive never takes more of the disk than the extractor allows, for each file
\* and for all of them, whatever the headers of its members declare.
Chunks == {c \in Path \X (1..MaxMember) : disk[c[1]] # None /\ c[2] <= disk[c[1]].bytes}
DiskBounded ==
  upload.source # "github" =>
    /\ \A p \in Path : disk[p] # None => disk[p].bytes <= MaxMember
    /\ IsFiniteSet(Chunks) /\ Cardinality(Chunks) <= MaxUnpacked

\* What the history repeats is not reported again.  Two findings of one rule, path and
\* text are findings of the tree at two places, and a commit is noted at the last of
\* them only; a secret of the history alone is reported once, in however many commits it is.
ReportedOnce ==
  \A f, g \in found : SameKey(f, g) /\ f # g =>
    /\ f.origin = "tree" /\ g.origin = "tree"
    /\ Later(f, g) \/ Later(g, f)
    /\ f.commit # None => Later(f, g)

\* Types.
Secrets == [rule : DOMAIN Rules, path : Path, text : STRING, line : Nat, from : Nat,
            commit : Nat \cup {None}, origin : {"tree", "history"}]
Flaws == [findings : SUBSET Finding, broken : BOOLEAN]
Verdict == [secrets : Status \cup {None}, static : Status \cup {None}, overall : Status \cup {None}]

TypeOK ==
  /\ upload \in Upload
  /\ disk \in [Path -> Stored \cup {None}]
  /\ at \in At
  /\ found \in SUBSET Secrets
  /\ flaws \in Flaws
  /\ verdict \in Verdict
=============================================================================
