---------------------------- MODULE MCScanToBuyer ----------------------------
(* A small instance of PackageScan: a package of up to three files, in every    *)
(* form that the rules of the scanners and the budgets of the extractor and the *)
(* walker tell apart.  And one of Questions.  They have no variable in common:  *)
(* each starts in all its ways beside one start of the other, and takes its     *)
(* steps while the other is at rest, so that their states add up.               *)
EXTENDS PackageScan, Questions, TLC

CONSTANTS app, lock, manifest, vendor, dist, deep
CONSTANTS w1, w2, p1, p2

MCRules == <<[id |-> "HARDCODED_PASSWORD", kind |-> "regex", severity |-> "high", confidence |-> "medium"],
             [id |-> "JWT_TOKEN", kind |-> "regex", severity |-> "medium", confidence |-> "high"],
             [id |-> "GITHUB_TOKEN", kind |-> "regex", severity |-> "critical", confidence |-> "high"],
             [id |-> "HIGH_ENTROPY_TOKEN", kind |-> "entropy", severity |-> "high", confidence |-> "low"]>>
MCDepth == [p \in Path |-> IF p = deep THEN 2 ELSE 0]

M(rule, from, to, mark) ==
  [rule |-> rule, from |-> from, to |-> to, mark |-> mark, text |-> "x"]
Token == M(3, 2, 5, "plain")
Lines == {{}, {Token}, {M(1, 0, 5, "plain"), Token, M(4, 2, 5, "plain")},
          {M(1, 4, 8, "quiet"), Token}, {M(3, 0, 2, "plain"), Token}, {M(2, 1, 3, "plain"), Token},
          {M(3, 2, 5, "quiet")}, {M(3, 2, 5, "listed"), M(4, 6, 9, "plain")},
          {M(4, 0, 3, "dull"), M(4, 1, 3, "plain"), M(1, 2, 4, "plain")}}

Plain(size, lines) ==
  [size |-> size, text |-> TRUE, lines |-> lines, language |-> FALSE, flaws |-> {},
   parses |-> TRUE, deps |-> {}]
Clean == Plain(1, <<>>)
Leak == Plain(1, <<{Token}>>)
Flaw(s, c) == [severity |-> s, confidence |-> c]
Code(fs) == [Clean EXCEPT !.language = TRUE, !.flaws = fs]
Deps(denied, pinned) == [Clean EXCEPT !.deps = {[denied |-> denied, pinned |-> pinned]}]

\* Trees, with the file at each path or none.
Files(p) ==
  CASE p = app -> {None, Plain(2, <<{}, {Token}>>), Plain(2, <<{Token}, {Token}>>), Plain(3, <<{Token}>>),
                   [Leak EXCEPT !.text = FALSE], Code({Flaw("high", "high")}),
                   Code({Flaw("high", "medium"), Flaw("medium", "high")})}
                  \cup {Plain(1, <<l>>) : l \in Lines}
    [] p = manifest -> {None, [Clean EXCEPT !.parses = FALSE], Deps(TRUE, TRUE), Deps(FALSE, FALSE)}
    [] p \in {lock, vendor, dist} -> {None, Leak}
    [] OTHER -> {None, Clean}
Tree == {[p \in Path |-> CASE p = app -> a [] p = lock -> l [] p = manifest -> m
                           [] p = vendor -> v [] p = dist -> b [] OTHER -> d] :
           a \in Files(app), l \in Files(lock), m \in Files(manifest),
           v \in Files(vendor), b \in Files(dist), d \in Files(deep)}
Few(t) == Cardinality({p \in Path : t[p] # None}) <= 4

A(p, commit, header, matches) ==
  [path |-> p, commit |-> commit, header |-> header, matches |-> matches]
Logs == {<<>>, <<A(app, 1, FALSE, {Token})>>, <<A(app, 1, TRUE, {Token})>>,
         <<A(app, 1, FALSE, {M(1, 0, 5, "plain")}), A(app, 2, FALSE, {M(1, 0, 5, "plain")})>>,
         <<A(vendor, 1, FALSE, {Token}), A(app, 2, FALSE, {Token})>>,
         <<A(app, 1, FALSE, {}), A(app, 1, FALSE, {}), A(app, 1, FALSE, {Token})>>,
         <<A(app, 1, FALSE, {}), A(app, 3, FALSE, {Token})>>,
         <<A(app, 1, FALSE, {M(3, 6, 9, "plain"), M(1, 10, 14, "plain"), M(3, 13, 16, "plain")})>>,
         <<A(app, 2, FALSE, {M(3, 9, 12, "plain")})>>}
NoTree == [p \in Path |-> None]
Repos == {[source |-> "github", members |-> <<>>, tree |-> t, log |-> l] :
            t \in {t \in Tree : Few(t)}, l \in Logs}

Member1 == {[path |-> p, form |-> f, declared |-> d, file |-> x] :
              p \in {app, dist}, f \in {"file", "dir", "link", "escape"}, d \in {1, 3},
              x \in {Leak, Plain(2, <<>>), Plain(3, <<>>)}}
Archives == {[source |-> s, members |-> m, tree |-> NoTree, log |-> <<>>] :
               s \in {"zip", "tar"},
               m \in UNION {[1..n -> {m \in Member1 : m.form = "file"}] : n \in 2..2}
                     \cup UNION {[1..n -> Member1] : n \in 0..1}
                     \cup {[i \in 1..3 |-> [path |-> p, form |-> "file", declared |-> 1, file |-> x]] :
                             p \in {app, dist}, x \in {Clean, Leak}}}
MCUpload == Repos \cup Archives

EmptyRepo == [source |-> "github", members |-> <<>>, tree |-> NoTree, log |-> <<>>]
ScanFirst == offer.text = "unsafe"
BuyersFirst == upload = EmptyRepo

MCInit == Init /\ QuestionsInit /\ (ScanFirst \/ BuyersFirst)

MCNext ==
  \/ QuestionsInit /\ ScanFirst /\ Next /\ UNCHANGED questionVars
  \/ at = Start("clone") /\ BuyersFirst /\ QuestionsNext /\ UNCHANGED vars

MCSpec == MCInit /\ [][MCNext]_<<vars, questionVars>>

Symmetry == Permutations(Worker) \cup Permutations(Price)
==============================================================================
