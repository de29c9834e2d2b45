-------------------------- MODULE ScanPipelineProofs --------------------------
(***************************************************************************)
(* What ScanPipeline guarantees for any number of threads, packages,        *)
(* dependencies and advisories, and for every time to live, delay, chunk    *)
(* size and bound on the retries.                                           *)
(***************************************************************************)
EXTENDS ScanPipeline, TLAPS

\* An answer omits no advisory that was public before OSV gave it.
Sound(x, d) ==
  /\ x.asked <= now
  /\ \A a \in Advisory : published[d][a] # None /\ a \notin x.vulns => published[d][a] >= x.asked

CacheInv ==
  \A d \in Dep : cache[d] # None =>
    /\ Sound(cache[d], d)
    /\ cache[d].at <= now /\ cache[d].at <= cache[d].asked + Delay

\* Each answer is sound and recent enough for the scan.
AnswerInv(h) ==
  \A d \in Dep : h.answer[d] # None =>
    Sound(h.answer[d], d) /\ h.answer[d].asked + Ttl + Delay > h.began

\* What goes into the cache is an answer of no more than Delay ago; when the
\* storing begins, everything that was queried has been answered.
HeldInv(h) ==
  \A i \in DOMAIN h.query :
    /\ IsHeld(h, i) =>
         h.answer[h.query[i]] # None /\ now <= h.answer[h.query[i]].asked + Delay
    /\ h.pc = "store" => h.answer[h.query[i]] # None

\* Every dependency that was looked at has an answer or is in the query.
Covered(h, i) ==
  LET d == Depends[h.package][i] IN h.answer[d] # None \/ Queried(h, d)
CoverInv(h) ==
  /\ h.pc \in {"secrets", "static", "manifests"} => h.next = 1
  /\ h.pc \in {"lookup", "post", "store"} =>
       \A i \in DOMAIN Depends[h.package] : h.pc # "lookup" \/ i < h.next => Covered(h, i)

\* A run that has only heard passed has heard it from every scanner and has an
\* answer without a blocking advisory for every dependency; once its record is
\* due, it has moved the package.
VerdictInv(h) ==
  h.status = "passed" =>
    /\ h.vetted
    /\ h.pc \in {"judged", "record"} =>
         \A i \in DOMAIN Depends[h.package] :
           LET x == h.answer[Depends[h.package][i]] IN
           x # None /\ \A a \in x.vulns : ~IsBlocking(a)

MovedInv ==
  \A r \in Run : run[r].pc = "record" /\ run[r].status = "passed" =>
                 "live" \in storage[run[r].package]

RunInv(h) ==
  /\ h \in RunState /\ (h.pc # "idle" => h.package \in Package) /\ h.began <= now
  /\ AnswerInv(h) /\ HeldInv(h) /\ CoverInv(h) /\ VerdictInv(h)

\* A record that the seller would see as live.
RecordInv(x, p) ==
  x # None /\ SellerStatus(x.status) = "live" =>
    /\ x.vetted /\ x.began \in Time /\ x.began <= now
    /\ \A d \in Dep, a \in Advisory :
         DependsOn(p, d) /\ IsBlocking(a) /\ published[d][a] # None =>
           published[d][a] + Ttl + Delay > x.began

BooksInv == \A p \in Package : RecordInv(repo[p], p) /\ RecordInv(versions[p], p)

IInv ==
  /\ TypeOK /\ CacheInv /\ (\A r \in Run : RunInv(run[r])) /\ MovedInv
  /\ BooksInv /\ LiveIsStored

-----------------------------------------------------------------------------
(* Operators                                                               *)

LEMMA MergedFacts ==
  ASSUME NEW s \in Status, NEW t \in Status
  PROVE  Merged({s, t}) \in Status /\ (Merged({s, t}) = "passed" <=> s = "passed" /\ t = "passed")
BY DEF Merged, Status

LEMMA IdleRun == Idle \in RunState
BY ScanPipelineAssumption DEF Idle, RunState, Status, Time, Answer

LEMMA EvaluatedFacts ==
  ASSUME NEW F
  PROVE  /\ EvaluateStatus(F, FALSE) \in Status
         /\ EvaluateStatus(F, FALSE) = "passed" => \A f \in F : ~Blocking(f)
BY DEF EvaluateStatus, Status

LEMMA RecordedTypes ==
  ASSUME NEW book \in [Package -> Record \cup {None}], NEW h \in RunState, h.package \in Package,
         NEW status \in {"live", "passed", "failed", "scan_failed", "scanning"}
  PROVE  /\ Recorded(book, h, status) \in [Package -> Record \cup {None}]
         /\ \A p \in Package : Recorded(book, h, status)[p] =
              IF p = h.package
              THEN [status |-> status, vetted |-> h.vetted,
                    began |-> IF status \in {"passed", "live"} THEN h.began ELSE None]
              ELSE book[p]
BY DEF Recorded, Record, RunState

LEMMA DependsInDep ==
  ASSUME NEW p \in Package
  PROVE  /\ Depends[p] \in Seq(Dep)
         /\ \A i \in DOMAIN Depends[p] : Depends[p][i] \in Dep
BY ScanPipelineAssumption

-----------------------------------------------------------------------------
(* The world goes on                                                       *)

LEMMA PublishKeeps ==
  ASSUME IInv, NEW d \in Dep, NEW a \in Advisory, Publish(d, a)
  PROVE  IInv'
<1> USE ScanPipelineAssumption
<1>0. now \in Time /\ now' = now /\ cache' = cache /\ storage' = storage /\ repo' = repo
        /\ versions' = versions /\ run' = run /\ now \in Nat
  BY DEF IInv, TypeOK, Publish, books, Time
<1>1. published' \in [Dep -> [Advisory -> Time \cup {None}]]
  BY <1>0 DEF IInv, TypeOK, Publish
<1>2. \A e \in Dep, b \in Advisory :
        published'[e][b] = IF e = d /\ b = a THEN now ELSE published[e][b]
  BY DEF IInv, TypeOK, Publish
<1>3. ASSUME NEW x, NEW e \in Dep, Sound(x, e), x.asked \in Time
      PROVE  Sound(x, e)'
  BY <1>0, <1>2, <1>3 DEF Sound, Time
<1>4. TypeOK'
  BY <1>0, <1>1 DEF IInv, TypeOK
<1>5. CacheInv'
  BY <1>0, <1>3 DEF IInv, TypeOK, CacheInv, Entry
<1>6. ASSUME NEW r \in Run PROVE RunInv(run[r])'
  <2>1. run[r] \in RunState /\ RunInv(run[r])
    BY DEF IInv, TypeOK
  <2>2. AnswerInv(run[r])'
    BY <1>0, <1>3, <2>1 DEF RunInv, AnswerInv, RunState, Answer
  <2>3. QED BY <1>0, <2>1, <2>2 DEF RunInv, HeldInv, CoverInv, Covered, VerdictInv, IsHeld, Queried
<1>7. ASSUME NEW p \in Package, NEW x, RecordInv(x, p) PROVE RecordInv(x, p)'
  <2> SUFFICES ASSUME x # None, SellerStatus(x.status) = "live",
                      NEW e \in Dep, NEW b \in Advisory, DependsOn(p, e), IsBlocking(b),
                      published'[e][b] # None
               PROVE  published'[e][b] + Ttl + Delay > x.began
    BY <1>0, <1>7 DEF RecordInv
  <2>1. CASE e = d /\ b = a
    BY <1>0, <1>2, <1>7, <2>1 DEF RecordInv, Time
  <2>2. CASE ~(e = d /\ b = a)
    BY <1>2, <1>7, <2>2 DEF RecordInv
  <2>3. QED BY <2>1, <2>2
<1>8. BooksInv'
  BY <1>0, <1>7 DEF IInv, BooksInv
<1>9. LiveIsStored'
  BY <1>0 DEF IInv, LiveIsStored
<1>10. MovedInv'
  BY <1>0 DEF IInv, MovedInv
<1>11. QED BY <1>4, <1>5, <1>6, <1>8, <1>9, <1>10 DEF IInv

LEMMA TickKeeps ==
  ASSUME IInv, Tick
  PROVE  IInv'
<1> USE ScanPipelineAssumption
<1>0. now \in Nat /\ now' \in Time /\ now' = now + 1 /\ cache' = cache /\ storage' = storage
        /\ repo' = repo /\ versions' = versions /\ run' = run /\ published' = published
  BY DEF IInv, TypeOK, Tick, books, Time
<1>1. ASSUME NEW x, NEW e \in Dep, Sound(x, e), x.asked \in Time
      PROVE  Sound(x, e)'
  BY <1>0, <1>1 DEF Sound, Time
<1>2. TypeOK'
  BY <1>0 DEF IInv, TypeOK
<1>3. CacheInv'
  BY <1>0, <1>1 DEF IInv, TypeOK, CacheInv, Entry, Time
<1>4. ASSUME NEW r \in Run PROVE RunInv(run[r])'
  <2> DEFINE h == run[r]
  <2>1. h \in RunState /\ RunInv(h)
    BY DEF IInv, TypeOK
  <2>2. AnswerInv(h)'
    BY <1>0, <1>1, <2>1 DEF RunInv, AnswerInv, RunState, Answer
  <2>3. ASSUME NEW i \in DOMAIN h.query, IsHeld(h, i)
        PROVE  h.answer[h.query[i]] # None /\ now + 1 <= h.answer[h.query[i]].asked + Delay
    <3>1. h.query[i] \in Held(h) /\ h.query[i] \in Dep
      BY <2>1, <2>3 DEF Held, RunState
    <3>2. now - h.answer[h.query[i]].asked < Delay
      BY <3>1 DEF Tick
    <3>3. h.answer[h.query[i]] # None /\ h.answer[h.query[i]] \in Answer
      BY <2>1, <2>3, <3>1 DEF RunInv, HeldInv, RunState
    <3>4. h.answer[h.query[i]].asked \in Int
      BY <3>3 DEF Answer, Time
    <3>5. QED BY <1>0, <3>2, <3>3, <3>4
  <2>4. QED
    BY <1>0, <2>1, <2>2, <2>3 DEF RunInv, HeldInv, CoverInv, Covered, VerdictInv, IsHeld, Queried,
                                  RunState, Time
<1>5. BooksInv'
  BY <1>0 DEF IInv, BooksInv, RecordInv, Time
<1>6. LiveIsStored'
  BY <1>0 DEF IInv, LiveIsStored
<1>7. MovedInv'
  BY <1>0 DEF IInv, MovedInv
<1>8. QED BY <1>2, <1>3, <1>4, <1>5, <1>6, <1>7 DEF IInv

LEMMA IdleInv == ASSUME now \in Time PROVE RunInv(Idle)
BY IdleRun, ScanPipelineAssumption
   DEF RunInv, Idle, AnswerInv, HeldInv, CoverInv, VerdictInv, IsHeld, Time

LEMMA CrashKeeps ==
  ASSUME IInv, Crash
  PROVE  IInv'
<1>1. now' = now /\ published' = published /\ storage' = storage /\ repo' = repo
  BY DEF Crash, world
<1>2. TypeOK'
  BY <1>1, IdleRun DEF IInv, TypeOK, Crash, Idle
<1>3. CacheInv'
  BY DEF Crash, CacheInv
<1>4. (\A r \in Run : RunInv(run[r]))'
  BY <1>1, IdleInv DEF IInv, TypeOK, Crash, RunInv, AnswerInv, HeldInv, CoverInv, VerdictInv,
                       Idle, Sound, Covered
<1>5. MovedInv'
  BY DEF Crash, MovedInv, Idle
<1>6. BooksInv'
  BY <1>1 DEF IInv, BooksInv, Crash, RecordInv
<1>7. LiveIsStored'
  BY <1>1 DEF IInv, LiveIsStored
<1>8. QED BY <1>2, <1>3, <1>4, <1>5, <1>6, <1>7 DEF IInv

-----------------------------------------------------------------------------
(* A step of one run                                                       *)

\* What a step of run r has to show: its new state, the cache and the books.
LEMMA RunStep ==
  ASSUME IInv, NEW r \in Run, NEW h, RunInv(h), run' = [run EXCEPT ![r] = h],
         now' = now, published' = published,
         cache' \in [Dep -> Entry \cup {None}], CacheInv',
         storage' \in [Package -> SUBSET {"pending", "live"}],
         \A p \in Package : "live" \in storage[p] => "live" \in storage'[p],
         h.pc = "record" /\ h.status = "passed" => "live" \in storage'[h.package],
         repo' \in [Package -> Record \cup {None}],
         versions' \in [Package -> Record \cup {None}],
         \A p \in Package : RecordInv(repo'[p], p) /\ RecordInv(versions'[p], p),
         LiveIsStored'
  PROVE  IInv'
<1>1. run \in [Run -> RunState] /\ h \in RunState
  BY DEF IInv, TypeOK, RunInv
<1>2. \A x \in Run : run'[x] = IF x = r THEN h ELSE run[x]
  BY <1>1
<1>3. TypeOK'
  BY <1>1, <1>2 DEF IInv, TypeOK, RunInv
<1>4. ASSUME NEW x \in Run PROVE RunInv(run[x])'
  <2>1. RunInv(run'[x])
    BY <1>2 DEF IInv
  <2>2. AnswerInv(run[x])'
    BY <2>1 DEF RunInv, AnswerInv, Sound
  <2>3. HeldInv(run[x])' /\ CoverInv(run[x])' /\ VerdictInv(run[x])'
    BY <2>1 DEF RunInv, HeldInv, CoverInv, VerdictInv, IsHeld, Covered, Queried
  <2>4. QED BY <2>1, <2>2, <2>3 DEF RunInv
<1>5. MovedInv'
  BY <1>2 DEF IInv, MovedInv, RunInv
<1>6. BooksInv'
  BY DEF BooksInv, RecordInv
<1>7. QED BY <1>3, <1>4, <1>5, <1>6 DEF IInv

LEMMA CacheKept ==
  ASSUME IInv, now' = now, published' = published, cache' = cache
  PROVE  cache' \in [Dep -> Entry \cup {None}] /\ CacheInv'
BY DEF IInv, TypeOK, CacheInv, Sound

LEMMA BooksKept ==
  ASSUME IInv, UNCHANGED books
  PROVE  /\ storage' \in [Package -> SUBSET {"pending", "live"}]
         /\ \A p \in Package : "live" \in storage[p] => "live" \in storage'[p]
         /\ repo' \in [Package -> Record \cup {None}]
         /\ versions' \in [Package -> Record \cup {None}]
         /\ \A p \in Package : RecordInv(repo'[p], p) /\ RecordInv(versions'[p], p)
         /\ LiveIsStored'
BY DEF IInv, TypeOK, BooksInv, LiveIsStored, books

LEMMA CacheSet ==
  ASSUME IInv, now' = now, published' = published, NEW d \in Dep, NEW e \in Entry \cup {None},
         e # None => Sound(e, d) /\ e.at <= now /\ e.at <= e.asked + Delay,
         cache' = [cache EXCEPT ![d] = e]
  PROVE  cache' \in [Dep -> Entry \cup {None}] /\ CacheInv'
<1>1. \A x \in Dep : cache'[x] = IF x = d THEN e ELSE cache[x]
  BY DEF IInv, TypeOK
<1>2. cache' \in [Dep -> Entry \cup {None}]
  BY DEF IInv, TypeOK
<1>3. CacheInv'
  BY <1>1 DEF IInv, CacheInv, Sound
<1>4. QED BY <1>2, <1>3

\* The next scanner has spoken.
LEMMA ReportedInv ==
  ASSUME NEW g, RunInv(g), g.pc # "idle", NEW status \in Status,
         NEW next \in {"static", "manifests", "judged"},
         next # "judged" => g.pc \in {"secrets", "static"},
         next = "judged" /\ status = "passed" =>
           \A i \in DOMAIN Depends[g.package] :
             LET x == g.answer[Depends[g.package][i]] IN
             x # None /\ \A a \in x.vulns : ~IsBlocking(a)
  PROVE  RunInv([g EXCEPT !.status = Merged({@, status}), !.pc = next,
                          !.vetted = @ /\ status = "passed"])
<1> DEFINE h == [g EXCEPT !.status = Merged({@, status}), !.pc = next,
                          !.vetted = @ /\ status = "passed"]
<1>1. g \in RunState /\ g.package \in Package
  BY DEF RunInv
<1>2. h \in RunState /\ h.pc = next /\ h.status = Merged({g.status, status})
        /\ h.vetted = (g.vetted /\ status = "passed") /\ h.package = g.package
        /\ h.answer = g.answer /\ h.query = g.query /\ h.next = g.next /\ h.began = g.began
  BY <1>1, MergedFacts DEF RunState
<1> HIDE DEF h
<1>3. VerdictInv(h)
  BY <1>1, <1>2, MergedFacts DEF VerdictInv, RunInv, RunState
<1>4. HeldInv(h) /\ CoverInv(h) /\ AnswerInv(h)
  BY <1>2 DEF HeldInv, CoverInv, AnswerInv, IsHeld, RunInv, Covered, Queried
<1>5. RunInv(h)
  BY <1>1, <1>2, <1>3, <1>4 DEF RunInv
<1>6. QED BY <1>5 DEF h
-----------------------------------------------------------------------------
(* One lemma for each action of a run                                      *)

LEMMA SellerFacts ==
  /\ \A status \in {"failed", "scan_failed", "scanning"} : SellerStatus(status) # "live"
  /\ \A status \in {"passed", "live"} : SellerStatus(status) = "live"
BY DEF SellerStatus

\* A record that the seller does not see as live.
LEMMA DullRecord ==
  ASSUME IInv, NEW h, RunInv(h), h.package \in Package,
         NEW status \in {"failed", "scan_failed", "scanning"},
         NEW book \in {repo, versions}
  PROVE  /\ Recorded(book, h, status) \in [Package -> Record \cup {None}]
         /\ \A p \in Package : RecordInv(Recorded(book, h, status)[p], p)
<1>1. book \in [Package -> Record \cup {None}] /\ \A p \in Package : RecordInv(book[p], p)
  BY DEF IInv, TypeOK, BooksInv
<1>2. h \in RunState
  BY DEF RunInv
<1>3. ASSUME NEW p \in Package PROVE RecordInv(Recorded(book, h, status)[p], p)
  <2>1. CASE p = h.package
    <3>1. Recorded(book, h, status)[p].status = status
      BY <1>1, <2>1 DEF Recorded
    <3>2. QED BY <3>1, SellerFacts DEF RecordInv
  <2>2. CASE p # h.package
    <3>1. Recorded(book, h, status)[p] = book[p]
      BY <1>1, <2>2 DEF Recorded
    <3>2. QED BY <1>1, <3>1
  <2>3. QED BY <2>1, <2>2
<1>4. QED BY <1>1, <1>2, <1>3, RecordedTypes

LEMMA BeginKeeps ==
  ASSUME IInv, NEW r \in Run, NEW p \in Package, Begin(r, p)
  PROVE  IInv'
<1> DEFINE h == [Idle EXCEPT !.pc = "secrets", !.package = p, !.began = now]
<1>0. now \in Time /\ now' = now /\ published' = published /\ cache' = cache
        /\ storage' = storage /\ repo' = repo
  BY DEF IInv, TypeOK, Begin, world
<1>1. h \in RunState /\ h.package = p /\ h.pc = "secrets" /\ h.answer = [d \in Dep |-> None]
        /\ h.query = <<>> /\ h.next = 1 /\ h.status = "passed" /\ h.vetted /\ h.began = now
  BY <1>0, IdleRun DEF Idle, RunState
<1>2. run' = [run EXCEPT ![r] = h]
  BY DEF Begin
<1>3. versions' = IF r \in Worker THEN Recorded(versions, h, "scanning") ELSE versions
  BY DEF Begin
<1> HIDE DEF h
<1>4. RunInv(h)
  BY <1>0, <1>1 DEF RunInv, AnswerInv, HeldInv, CoverInv, VerdictInv, IsHeld, Time
<1>5. /\ versions' \in [Package -> Record \cup {None}]
      /\ \A q \in Package : RecordInv(versions'[q], q)
  BY <1>1, <1>3, <1>4, DullRecord DEF IInv, TypeOK, BooksInv
<1>6. cache' \in [Dep -> Entry \cup {None}] /\ CacheInv'
  BY <1>0, CacheKept
<1>7. QED
  BY <1>0, <1>1, <1>2, <1>4, <1>5, <1>6, RunStep DEF IInv, TypeOK, BooksInv, LiveIsStored

\* A scanner's verdict in a step that touches nothing else.
LEMMA ReportedKeeps ==
  ASSUME IInv, NEW r \in Run, run[r].pc # "idle", NEW status \in Status,
         NEW next \in {"static", "manifests", "judged"}, Reported(r, status, next),
         next # "judged" => run[r].pc \in {"secrets", "static"},
         UNCHANGED <<world, cache, books>>,
         next = "judged" /\ status = "passed" =>
           \A i \in DOMAIN Depends[run[r].package] :
             LET x == run[r].answer[Depends[run[r].package][i]] IN
             x # None /\ \A a \in x.vulns : ~IsBlocking(a)
  PROVE  IInv'
<1> DEFINE g == run[r]
           h == [g EXCEPT !.status = Merged({@, status}), !.pc = next,
                          !.vetted = @ /\ status = "passed"]
<1>1. RunInv(h) /\ h.pc = next
  <2>1. RunInv(g) /\ g \in RunState
    BY DEF IInv, RunInv
  <2>2. RunInv(h)
    BY <2>1, ReportedInv
  <2>3. QED BY <2>1, <2>2 DEF RunState
<1>2. run' = [run EXCEPT ![r] = h]
  BY DEF Reported
<1> HIDE DEF h
<1>3. now' = now /\ published' = published /\ cache' = cache /\ UNCHANGED books
  BY DEF world
<1>4. QED BY <1>1, <1>2, <1>3, CacheKept, BooksKept, RunStep

LEMMA ScanKeeps ==
  ASSUME IInv, NEW r \in Run, NEW s \in {"secrets", "static"},
         NEW next \in {"static", "manifests"}, Scan(r, s, next)
  PROVE  IInv'
BY ReportedKeeps DEF Scan

LEMMA RaiseKeeps ==
  ASSUME IInv, NEW r \in Run, NEW s \in {"secrets", "static"},
         NEW next \in {"static", "manifests"}, Raise(r, s, next)
  PROVE  IInv'
<1> DEFINE h == run[r]
<1>1. CASE r \in Upload /\ Reported(r, "error", next) /\ UNCHANGED versions
  BY <1>1, ReportedKeeps DEF Raise, Status, books
<1>2. CASE versions' = Recorded(versions, h, "scan_failed") /\ End(r)
  <2>1. RunInv(h) /\ h.package \in Package
    BY DEF IInv, RunInv, Raise
  <2>2. now \in Time /\ now' = now /\ published' = published /\ cache' = cache
          /\ storage' = storage /\ repo' = repo
    BY DEF IInv, TypeOK, Raise, world
  <2>3. run' = [run EXCEPT ![r] = Idle] /\ RunInv(Idle) /\ Idle.pc # "record"
    BY <1>2, <2>2, IdleInv DEF End, Idle
  <2> HIDE DEF h
  <2>4. /\ versions' \in [Package -> Record \cup {None}]
        /\ \A p \in Package : RecordInv(versions'[p], p)
    BY <1>2, <2>1, DullRecord
  <2>5. cache' \in [Dep -> Entry \cup {None}] /\ CacheInv'
    BY <2>2, CacheKept
  <2>6. QED
    BY <2>2, <2>3, <2>4, <2>5, RunStep DEF IInv, TypeOK, BooksInv, LiveIsStored
<1>3. QED BY <1>1, <1>2 DEF Raise

\* A step that changes nothing but the run, which is not about to record.
LEMMA RunOnly ==
  ASSUME IInv, NEW r \in Run, NEW h, RunInv(h), run' = [run EXCEPT ![r] = h],
         h.pc # "record", UNCHANGED <<world, cache, books>>
  PROVE  IInv'
<1>1. now' = now /\ published' = published /\ cache' = cache /\ UNCHANGED books
  BY DEF world
<1>2. QED BY <1>1, CacheKept, BooksKept, RunStep

LEMMA ParseManifestsKeeps ==
  ASSUME IInv, NEW r \in Run, ParseManifests(r)
  PROVE  IInv'
<1>1. RunInv(run[r]) /\ run[r] \in RunState /\ run[r].pc = "manifests"
        /\ run[r].package \in Package
  BY DEF IInv, RunInv, ParseManifests
<1>2. CASE Goto(r, "lookup")
  <2> DEFINE h == [run[r] EXCEPT !.pc = "lookup"]
  <2>1. run' = [run EXCEPT ![r] = h]
    BY <1>2 DEF Goto
  <2>2. h \in RunState /\ h.pc = "lookup"
    BY <1>1 DEF RunState
  <2>3. /\ h.answer = run[r].answer /\ h.package = run[r].package /\ h.query = run[r].query
        /\ h.status = run[r].status /\ h.vetted = run[r].vetted
        /\ h.next = run[r].next /\ h.began = run[r].began
    BY <1>1 DEF RunState
  <2> HIDE DEF h
  <2>4. RunInv(h)
    BY <1>1, <2>2, <2>3, DependsInDep
       DEF RunInv, AnswerInv, HeldInv, CoverInv, VerdictInv, IsHeld
  <2>5. QED BY <2>1, <2>2, <2>4, RunOnly DEF ParseManifests
<1>3. CASE Reported(r, "error", "judged")
  BY <1>1, <1>3, ReportedKeeps DEF ParseManifests, Status
<1>4. QED BY <1>2, <1>3 DEF ParseManifests

\* The loop has looked at one more dependency.
LEMMA LookedAtInv ==
  ASSUME NEW g, RunInv(g), now \in Time, g.pc = "lookup", g.package \in Package,
         g.next <= Len(Depends[g.package]),
         NEW answer \in [Dep -> Answer \cup {None}], NEW query \in Seq(Dep),
         \A e \in Dep : answer[e] # None =>
           Sound(answer[e], e) /\ answer[e].asked + Ttl + Delay > g.began,
         \A e \in Dep : g.answer[e] # None \/ Queried(g, e) \/ e = Depends[g.package][g.next] =>
           answer[e] # None \/ \E i \in DOMAIN query : query[i] = e
  PROVE  RunInv([pc |-> "lookup", package |-> g.package, status |-> g.status, vetted |-> g.vetted,
               answer |-> answer, query |-> query, next |-> g.next + 1,
               attempt |-> g.attempt, began |-> g.began])
<1> DEFINE h == [pc |-> "lookup", package |-> g.package, status |-> g.status, vetted |-> g.vetted,
               answer |-> answer, query |-> query, next |-> g.next + 1,
               attempt |-> g.attempt, began |-> g.began]
           deps == Depends[g.package]
<1>1. g \in RunState /\ deps \in Seq(Dep) /\ \A i \in DOMAIN deps : deps[i] \in Dep
  BY DependsInDep DEF RunInv
<1>2. h \in RunState /\ h.pc = "lookup" /\ h.package = g.package /\ h.status = g.status
        /\ h.vetted = g.vetted /\ h.began = g.began /\ h.next = g.next + 1
        /\ h.answer = answer /\ h.query = query /\ g.next \in Nat \ {0}
  <2>1. g.next \in Nat \ {0} /\ g.next + 1 \in Nat \ {0}
    BY <1>1 DEF RunState
  <2>2. QED BY <1>1, <2>1 DEF RunState
<1> HIDE DEF h
<1>3. ASSUME NEW i \in DOMAIN deps, i < h.next PROVE Covered(h, i)
  <2>1. g.answer[deps[i]] # None \/ Queried(g, deps[i]) \/ deps[i] = deps[g.next]
    <3>1. CASE i < g.next
      BY <1>1, <3>1 DEF RunInv, CoverInv, Covered
    <3>2. CASE i = g.next
      BY <3>2
    <3>3. i < g.next \/ i = g.next
      BY <1>1, <1>2, <1>3
    <3>4. QED BY <3>1, <3>2, <3>3
  <2>2. QED BY <1>1, <1>2, <2>1 DEF Covered, Queried
<1>4. CoverInv(h)
  BY <1>2, <1>3 DEF CoverInv
<1>5. AnswerInv(h)
  BY <1>2 DEF AnswerInv
<1>6. HeldInv(h) /\ VerdictInv(h) /\ h.began <= now
  BY <1>2 DEF HeldInv, VerdictInv, RunInv, IsHeld
<1>7. RunInv(h)
  BY <1>2, <1>4, <1>5, <1>6 DEF RunInv
<1>8. QED BY <1>7 DEF h

\* The record that Lookup builds, field by field.
LEMMA LookedAtRun ==
  ASSUME NEW g \in RunState, NEW answer \in [Dep -> Answer \cup {None}], NEW query \in Seq(Dep)
  PROVE  [g EXCEPT !.next = @ + 1, !.answer = answer, !.query = query] =
           [pc |-> g.pc, package |-> g.package, status |-> g.status, vetted |-> g.vetted,
            answer |-> answer, query |-> query, next |-> g.next + 1,
            attempt |-> g.attempt, began |-> g.began]
<1> DEFINE n == g.next + 1
           k == [g EXCEPT !.next = n]
           l == [k EXCEPT !.answer = answer]
           m == [l EXCEPT !.query = query]
<1> HIDE DEF n
<1>1. k = [pc |-> g.pc, package |-> g.package, status |-> g.status, vetted |-> g.vetted,
           answer |-> g.answer, query |-> g.query, next |-> n,
           attempt |-> g.attempt, began |-> g.began]
  BY DEF RunState
<1> HIDE DEF k
<1>2. l = [pc |-> g.pc, package |-> g.package, status |-> g.status, vetted |-> g.vetted,
           answer |-> answer, query |-> g.query, next |-> n,
           attempt |-> g.attempt, began |-> g.began]
  BY <1>1
<1> HIDE DEF l
<1>3. m = [pc |-> g.pc, package |-> g.package, status |-> g.status, vetted |-> g.vetted,
           answer |-> answer, query |-> query, next |-> n,
           attempt |-> g.attempt, began |-> g.began]
  BY <1>2
<1>4. QED BY <1>3 DEF m, l, k, n

LEMMA LookupKeeps ==
  ASSUME IInv, NEW r \in Run, Lookup(r)
  PROVE  IInv'
<1> DEFINE g == run[r]
           deps == Depends[g.package]
           d == deps[g.next]
           hit == Cached(d)
           x == [vulns |-> hit.vulns, asked |-> hit.asked]
           answer == IF hit = None \/ Queried(g, d) THEN g.answer ELSE [g.answer EXCEPT ![d] = x]
           query == IF hit = None /\ ~Queried(g, d) THEN Append(g.query, d) ELSE g.query
           h == [pc |-> "lookup", package |-> g.package, status |-> g.status, vetted |-> g.vetted,
                 answer |-> answer, query |-> query, next |-> g.next + 1,
                 attempt |-> g.attempt, began |-> g.began]
<1> USE ScanPipelineAssumption
<1>1. RunInv(g) /\ g \in RunState /\ g.package \in Package /\ g.pc = "lookup"
        /\ g.next \in Nat \ {0} /\ g.next <= Len(deps)
  BY DEF IInv, RunInv, Lookup, RunState
<1>2. now \in Time /\ now' = now /\ published' = published /\ UNCHANGED books
        /\ cache' = [cache EXCEPT ![d] = hit]
  BY DEF IInv, TypeOK, Lookup, world
<1>3. deps \in Seq(Dep) /\ g.next \in DOMAIN deps /\ d \in Dep
  BY <1>1, DependsInDep
<1>4. /\ hit \in Entry \cup {None}
      /\ hit # None => /\ hit \in Entry
                       /\ Sound(hit, d) /\ hit.at <= now /\ hit.at <= hit.asked + Delay
                       /\ now - hit.at < Ttl
  BY <1>3 DEF IInv, TypeOK, CacheInv, Cached, Fresh
<1>5. cache' \in [Dep -> Entry \cup {None}] /\ CacheInv'
  <2> HIDE DEF hit, d
  <2>1. QED BY <1>2, <1>3, <1>4, CacheSet
<1>6. g.answer \in [Dep -> Answer \cup {None}] /\ g.query \in Seq(Dep) /\ g.began \in Time
        /\ g.began <= now
  BY <1>1 DEF RunState, RunInv
<1>7. hit # None => x \in Answer /\ x # None /\ Sound(x, d) /\ x.asked + Ttl + Delay > g.began
  <2> SUFFICES ASSUME hit # None
               PROVE  x \in Answer /\ x # None /\ Sound(x, d) /\ x.asked + Ttl + Delay > g.began
    OBVIOUS
  <2>1. hit.vulns \in SUBSET Advisory /\ hit.asked \in Time /\ hit.at \in Time
    BY <1>4 DEF Entry
  <2>2. x \in Answer /\ x.asked = hit.asked /\ x.vulns = hit.vulns
    BY <2>1 DEF Answer
  <2>3. x # None
    BY <2>1 DEF Time
  <2>4. Sound(x, d)
    BY <1>4, <2>2 DEF Sound
  <2> HIDE DEF x, hit
  <2>5. hit.asked + Ttl + Delay > g.began
    BY <1>2, <1>4, <1>6, <2>1 DEF Time
  <2>6. QED BY <2>2, <2>3, <2>4, <2>5
<1>8. run' = [run EXCEPT ![r] = h]
  <2>1. run' = [run EXCEPT ![r] = [g EXCEPT !.next = @ + 1,
                 !.answer = IF hit = None \/ Queried(g, d) THEN @ ELSE [@ EXCEPT ![d] = x],
                 !.query = IF hit = None /\ ~Queried(g, d) THEN Append(@, d) ELSE @]]
    BY DEF Lookup
  <2> HIDE DEF x, hit, d
  <2>2. [g EXCEPT !.next = @ + 1,
                 !.answer = IF hit = None \/ Queried(g, d) THEN @ ELSE [@ EXCEPT ![d] = x],
                 !.query = IF hit = None /\ ~Queried(g, d) THEN Append(@, d) ELSE @] = h
    <3>1. answer \in [Dep -> Answer \cup {None}] /\ query \in Seq(Dep)
      BY <1>3, <1>6, <1>7
    <3> HIDE DEF answer, query
    <3>2. [g EXCEPT !.next = @ + 1, !.answer = answer, !.query = query] = h
      BY <1>1, <3>1, LookedAtRun
    <3>3. QED BY <3>2 DEF answer, query
  <2>3. QED BY <2>1, <2>2
<1> HIDE DEF x, hit, d
<1>9. answer \in [Dep -> Answer \cup {None}] /\ query \in Seq(Dep)
  BY <1>3, <1>6, <1>7
<1>10. \A e \in Dep : answer[e] # None =>
         Sound(answer[e], e) /\ answer[e].asked + Ttl + Delay > g.began
  BY <1>1, <1>3, <1>6, <1>7 DEF RunInv, AnswerInv
<1>11. \A e \in Dep : g.answer[e] # None \/ Queried(g, e) \/ e = d =>
         answer[e] # None \/ \E i \in DOMAIN query : query[i] = e
  <2>1. CASE hit = None /\ ~Queried(g, d)
    <3>1. query = Append(g.query, d) /\ answer = g.answer
      BY <2>1
    <3> HIDE DEF answer, query
    <3>2. ASSUME NEW e \in Dep, Queried(g, e) \/ e = d PROVE \E i \in DOMAIN query : query[i] = e
      <4>1. /\ Len(g.query) \in Nat /\ DOMAIN g.query = 1..Len(g.query)
            /\ DOMAIN query = 1..(Len(g.query) + 1)
            /\ \A i \in 1..Len(g.query) : query[i] = g.query[i]
            /\ query[Len(g.query) + 1] = d
        BY <1>3, <1>6, <3>1
      <4>2. CASE e = d
        BY <4>1, <4>2
      <4>3. CASE Queried(g, e)
        BY <4>1, <4>3 DEF Queried
      <4>4. QED BY <3>2, <4>2, <4>3
    <3>3. QED BY <3>1, <3>2
  <2>2. CASE Queried(g, d)
    BY <2>2 DEF Queried
  <2>3. CASE hit # None /\ ~Queried(g, d)
    <3>1. answer = [g.answer EXCEPT ![d] = x] /\ query = g.query
      BY <2>3
    <3> HIDE DEF answer, query
    <3>2. QED BY <1>3, <1>6, <1>7, <2>3, <3>1 DEF Queried
  <2>4. QED BY <2>1, <2>2, <2>3
<1>12. RunInv(h)
  <2> HIDE DEF answer, query
  <2>1. QED BY <1>1, <1>2, <1>9, <1>10, <1>11, LookedAtInv DEF d
<1>13. h.pc = "lookup" /\ h.package = g.package
  BY <1>1 DEF RunState
<1> HIDE DEF h
<1>14. QED BY <1>2, <1>5, <1>8, <1>12, <1>13, BooksKept, RunStep

LEMMA LookedUpKeeps ==
  ASSUME IInv, NEW r \in Run, LookedUp(r)
  PROVE  IInv'
<1> DEFINE g == run[r]
           k == [g EXCEPT !.pc = "post"]
           h == [k EXCEPT !.next = 1]
<1>1. RunInv(g) /\ g \in RunState /\ g.package \in Package /\ g.pc = "lookup"
        /\ g.next > Len(Depends[g.package])
  BY DEF IInv, RunInv, LookedUp
<1>2. run' = [run EXCEPT ![r] = h]
  BY DEF LookedUp
<1>3. h \in RunState /\ h.pc = "post" /\ h.next = 1 /\ h.package = g.package
        /\ h.status = g.status /\ h.vetted = g.vetted /\ h.answer = g.answer
        /\ h.query = g.query /\ h.began = g.began
  <2>1. k \in RunState /\ k.pc = "post" /\ k.package = g.package
        /\ k.status = g.status /\ k.vetted = g.vetted /\ k.answer = g.answer
        /\ k.query = g.query /\ k.began = g.began
    BY <1>1 DEF RunState
  <2> HIDE DEF k
  <2>2. QED BY <2>1 DEF RunState
<1> HIDE DEF h
<1>4. ASSUME NEW i \in DOMAIN Depends[g.package] PROVE Covered(h, i)
  <2>1. i < g.next
    BY <1>1, DependsInDep DEF RunState
  <2>2. QED BY <1>1, <1>3, <2>1 DEF RunInv, CoverInv, Covered, Queried
<1>5. \A i \in DOMAIN h.query : ~IsHeld(h, i)
  BY <1>1, <1>3 DEF IsHeld, RunState
<1>6. RunInv(h)
  BY <1>1, <1>3, <1>4, <1>5 DEF RunInv, AnswerInv, HeldInv, CoverInv, VerdictInv
<1>7. QED BY <1>2, <1>3, <1>6, RunOnly DEF LookedUp

LEMMA PostKeeps ==
  ASSUME IInv, NEW r \in Run, Post(r)
  PROVE  IInv'
<1> DEFINE g == run[r]
           answer == [d \in Dep |-> IF d \in Chunk(g) THEN [vulns |-> Known(d), asked |-> now]
                                    ELSE g.answer[d]]
           h == [g EXCEPT !.next = @ + ChunkSize, !.attempt = 0, !.answer = answer]
<1> USE ScanPipelineAssumption
<1>1. RunInv(g) /\ g \in RunState /\ g.package \in Package /\ g.pc = "post"
  BY DEF IInv, RunInv, Post
<1>2. now \in Time /\ run' = [run EXCEPT ![r] = h]
  BY DEF IInv, TypeOK, Post
<1>3. \A d \in Dep : LET x == [vulns |-> Known(d), asked |-> now] IN
        /\ x \in Answer /\ x # None /\ x.asked = now /\ Sound(x, d)
  <2> SUFFICES ASSUME NEW d \in Dep
               PROVE  LET x == [vulns |-> Known(d), asked |-> now] IN
                      /\ x \in Answer /\ x # None /\ x.asked = now /\ Sound(x, d)
    OBVIOUS
  <2>1. Known(d) \in SUBSET Advisory
    BY DEF Known
  <2>2. [vulns |-> Known(d), asked |-> now] \in Answer
    BY <1>2, <2>1 DEF Answer
  <2>3. [vulns |-> Known(d), asked |-> now] # None
    BY <1>2, <2>1 DEF Time
  <2>4. Sound([vulns |-> Known(d), asked |-> now], d)
    BY <1>2 DEF Sound, Known, Time
  <2>5. QED BY <2>2, <2>3, <2>4
<1>4. answer \in [Dep -> Answer \cup {None}]
  BY <1>1, <1>3 DEF RunState
<1>5. \A d \in Dep : answer[d] # None =>
        Sound(answer[d], d) /\ answer[d].asked + Ttl + Delay > g.began
  <2>1. \A d \in Dep : d \notin Chunk(g) => answer[d] = g.answer[d]
    OBVIOUS
  <2>2. \A d \in Dep : d \in Chunk(g) => Sound(answer[d], d) /\ answer[d].asked = now
    BY <1>3
  <2> HIDE DEF answer
  <2>3. now + Ttl + Delay > g.began
    BY <1>1, <1>2 DEF RunInv, RunState, Time
  <2>4. QED BY <1>1, <2>1, <2>2, <2>3 DEF RunInv, AnswerInv
<1>6. \A i \in DOMAIN g.query : g.next <= i /\ i < g.next + ChunkSize =>
        answer[g.query[i]] # None /\ answer[g.query[i]].asked = now
  <2> SUFFICES ASSUME NEW i \in DOMAIN g.query, g.next <= i, i < g.next + ChunkSize
               PROVE  answer[g.query[i]] # None /\ answer[g.query[i]].asked = now
    OBVIOUS
  <2>1. g.query[i] \in Chunk(g) /\ g.query[i] \in Dep
    BY <1>1 DEF Chunk, RunState
  <2>2. QED BY <1>3, <2>1
<1>7. \A d \in Dep : g.answer[d] # None => answer[d] # None /\ answer[d].asked >= g.answer[d].asked
  <2> SUFFICES ASSUME NEW d \in Dep, g.answer[d] # None
               PROVE  answer[d] # None /\ answer[d].asked >= g.answer[d].asked
    OBVIOUS
  <2>1. g.answer[d].asked <= now /\ g.answer[d].asked \in Int
    BY <1>1 DEF RunInv, AnswerInv, Sound, RunState, Answer, Time
  <2>2. CASE d \in Chunk(g)
    BY <1>3, <2>1, <2>2
  <2>3. CASE d \notin Chunk(g)
    <3>1. answer[d] = g.answer[d]
      BY <2>3
    <3>2. QED BY <2>1, <3>1
  <2>4. QED BY <2>2, <2>3
<1>8. h \in RunState /\ h.pc = "post" /\ h.package = g.package /\ h.status = g.status
        /\ h.vetted = g.vetted /\ h.answer = answer /\ h.query = g.query /\ h.began = g.began
        /\ h.next = g.next + ChunkSize
  <2> DEFINE n == g.next + ChunkSize
  <2>1. n \in Nat \ {0} /\ 0 \in 0..MaxRetries
    BY <1>1 DEF RunState
  <2> HIDE DEF n, answer
  <2>2. [g EXCEPT !.next = n, !.attempt = 0, !.answer = answer] \in RunState
    BY <1>1, <1>4, <2>1 DEF RunState
  <2>3. QED BY <1>1, <2>2 DEF RunState, n
<1> HIDE DEF h, answer
<1>9. HeldInv(h)
  <2> SUFFICES ASSUME NEW i \in DOMAIN g.query, i < g.next + ChunkSize
               PROVE  answer[g.query[i]] # None /\ now <= answer[g.query[i]].asked + Delay
    BY <1>8 DEF HeldInv, IsHeld
  <2>1. g.query[i] \in Dep
    BY <1>1 DEF RunState
  <2>2. CASE g.next <= i
    BY <1>2, <1>6, <2>2 DEF Time
  <2>3. CASE ~(g.next <= i)
    <3>1. i < g.next
      BY <1>1, <2>3 DEF RunState
    <3>2. g.answer[g.query[i]] # None /\ now <= g.answer[g.query[i]].asked + Delay
      BY <1>1, <3>1 DEF RunInv, HeldInv, IsHeld
    <3>3. g.answer[g.query[i]].asked \in Int /\ answer[g.query[i]].asked \in Int
      BY <1>1, <1>4, <1>7, <2>1, <3>2 DEF RunState, Answer, Time
    <3>4. answer[g.query[i]] # None /\ answer[g.query[i]].asked >= g.answer[g.query[i]].asked
      BY <1>7, <2>1, <3>2
    <3> HIDE DEF g
    <3>5. QED BY <1>2, <3>2, <3>3, <3>4, ScanPipelineAssumption DEF Time
  <2>4. QED BY <2>2, <2>3
<1>10. CoverInv(h)
  <2>1. \A i \in DOMAIN Depends[g.package] : Covered(g, i) /\ Depends[g.package][i] \in Dep
    BY <1>1, DependsInDep DEF RunInv, CoverInv
  <2>2. QED BY <1>7, <1>8, <2>1 DEF CoverInv, Covered, Queried
<1>11. RunInv(h)
  BY <1>1, <1>5, <1>8, <1>9, <1>10 DEF RunInv, AnswerInv, VerdictInv
<1>12. QED BY <1>2, <1>8, <1>11, RunOnly DEF Post

LEMMA RetryKeeps ==
  ASSUME IInv, NEW r \in Run, Retry(r)
  PROVE  IInv'
<1> DEFINE g == run[r]
           n == g.attempt + 1
           h == [g EXCEPT !.attempt = n]
<1>1. RunInv(g) /\ g \in RunState /\ g.package \in Package /\ g.pc = "post"
        /\ n \in 0..MaxRetries
  BY ScanPipelineAssumption DEF IInv, RunInv, Retry, Retriable, RunState
<1>2. run' = [run EXCEPT ![r] = h]
  BY DEF Retry
<1> HIDE DEF n
<1>3. h \in RunState /\ h.pc = "post" /\ h.next = g.next /\ h.package = g.package
        /\ h.status = g.status /\ h.vetted = g.vetted /\ h.answer = g.answer
        /\ h.query = g.query /\ h.began = g.began
  BY <1>1 DEF RunState
<1> HIDE DEF h
<1>4. RunInv(h)
  BY <1>1, <1>3 DEF RunInv, AnswerInv, HeldInv, IsHeld, CoverInv, Covered, Queried, VerdictInv
<1>5. QED BY <1>2, <1>3, <1>4, RunOnly DEF Retry

LEMMA GiveUpKeeps ==
  ASSUME IInv, NEW r \in Run, GiveUp(r)
  PROVE  IInv'
BY ReportedKeeps DEF GiveUp, Status

LEMMA PostedKeeps ==
  ASSUME IInv, NEW r \in Run, Posted(r)
  PROVE  IInv'
<1> DEFINE g == run[r]
           k == [g EXCEPT !.pc = "store"]
           h == [k EXCEPT !.next = 1]
<1>1. RunInv(g) /\ g \in RunState /\ g.package \in Package /\ g.pc = "post"
        /\ g.next > Len(g.query)
  BY DEF IInv, RunInv, Posted
<1>2. run' = [run EXCEPT ![r] = h]
  BY DEF Posted
<1>3. h \in RunState /\ h.pc = "store" /\ h.next = 1 /\ h.package = g.package
        /\ h.status = g.status /\ h.vetted = g.vetted /\ h.answer = g.answer
        /\ h.query = g.query /\ h.began = g.began
  <2>1. k \in RunState /\ k.pc = "store" /\ k.package = g.package
        /\ k.status = g.status /\ k.vetted = g.vetted /\ k.answer = g.answer
        /\ k.query = g.query /\ k.began = g.began
    BY <1>1 DEF RunState
  <2> HIDE DEF k
  <2>2. QED BY <2>1 DEF RunState
<1> HIDE DEF h
<1>4. CoverInv(h)
  BY <1>1, <1>3 DEF RunInv, CoverInv, Covered, Queried
<1>5. HeldInv(h)
  <2>1. \A i \in DOMAIN g.query : i < g.next
    BY <1>1 DEF RunState
  <2>2. QED BY <1>1, <1>3, <2>1 DEF RunInv, HeldInv, IsHeld
<1>6. RunInv(h)
  BY <1>1, <1>3, <1>4, <1>5 DEF RunInv, AnswerInv, VerdictInv
<1>7. QED BY <1>2, <1>3, <1>6, RunOnly DEF Posted

LEMMA StoreKeeps ==
  ASSUME IInv, NEW r \in Run, Store(r)
  PROVE  IInv'
<1> DEFINE g == run[r]
           d == g.query[g.next]
           e == [vulns |-> g.answer[d].vulns, asked |-> g.answer[d].asked, at |-> now]
           n == g.next + 1
           h == [g EXCEPT !.next = n]
<1>1. RunInv(g) /\ g \in RunState /\ g.package \in Package /\ g.pc = "store"
        /\ g.next <= Len(g.query) /\ n \in Nat \ {0}
  BY DEF IInv, RunInv, Store, RunState
<1>2. now \in Time /\ now' = now /\ published' = published /\ UNCHANGED books
        /\ run' = [run EXCEPT ![r] = h] /\ cache' = [cache EXCEPT ![d] = e]
  BY DEF IInv, TypeOK, Store, world
<1>3. g.next \in DOMAIN g.query /\ d \in Dep /\ IsHeld(g, g.next)
  BY <1>1 DEF RunState, IsHeld
<1>4. g.answer[d] # None /\ now <= g.answer[d].asked + Delay /\ Sound(g.answer[d], d)
        /\ g.answer[d] \in Answer
  BY <1>1, <1>3 DEF RunInv, HeldInv, AnswerInv, RunState
<1>5. e \in Entry /\ Sound(e, d) /\ e.at <= now /\ e.at <= e.asked + Delay
  <2> DEFINE x == g.answer[d]
  <2>1. x.vulns \in SUBSET Advisory /\ x.asked \in Time
    BY <1>4 DEF Answer
  <2>2. e = [vulns |-> x.vulns, asked |-> x.asked, at |-> now]
    OBVIOUS
  <2>3. Sound(x, d) /\ now <= x.asked + Delay
    BY <1>4
  <2> HIDE DEF x, d, e
  <2>4. QED BY <1>2, <2>1, <2>2, <2>3 DEF Entry, Sound, Time
<1> HIDE DEF e, d
<1>6. cache' \in [Dep -> Entry \cup {None}] /\ CacheInv'
  BY <1>2, <1>3, <1>5, CacheSet
<1> HIDE DEF n
<1>7. h \in RunState /\ h.pc = "store" /\ h.next = n /\ h.package = g.package
        /\ h.status = g.status /\ h.vetted = g.vetted /\ h.answer = g.answer
        /\ h.query = g.query /\ h.began = g.began
  BY <1>1 DEF RunState
<1> HIDE DEF h
<1>8. \A i \in DOMAIN g.query : i >= n => i >= g.next
  BY <1>1 DEF n, RunState
<1>9. RunInv(h)
  BY <1>1, <1>7, <1>8 DEF RunInv, AnswerInv, HeldInv, IsHeld, CoverInv, Covered, Queried, VerdictInv
<1>10. QED BY <1>2, <1>6, <1>7, <1>9, BooksKept, RunStep

LEMMA StoredKeeps ==
  ASSUME IInv, NEW r \in Run, Stored(r)
  PROVE  IInv'
<1> DEFINE g == run[r]
           status == EvaluateStatus(Findings(g), FALSE)
<1>1. RunInv(g) /\ g \in RunState /\ g.package \in Package /\ g.pc = "store"
        /\ g.next > Len(g.query)
  BY DEF IInv, RunInv, Stored
<1>2. status \in Status
  BY EvaluatedFacts
<1>3. ASSUME status = "passed", NEW i \in DOMAIN Depends[g.package]
      PROVE  LET x == g.answer[Depends[g.package][i]] IN
             x # None /\ \A a \in x.vulns : ~IsBlocking(a)
  <2> DEFINE d == Depends[g.package][i]
  <2>1. d \in Dep
    BY <1>1, DependsInDep
  <2>2. g.answer[d] # None
    <3>1. g.answer[d] # None \/ Queried(g, d)
      BY <1>1 DEF RunInv, CoverInv, Covered
    <3>2. QED BY <1>1, <3>1 DEF Queried, RunInv, HeldInv
  <2>3. ASSUME NEW a \in g.answer[d].vulns PROVE ~IsBlocking(a)
    <3>1. OsvFinding(Score[a], None) \in Findings(g)
      BY <2>1, <2>2 DEF Findings
    <3>2. QED BY <1>3, <3>1, EvaluatedFacts DEF IsBlocking
  <2>4. QED BY <2>2, <2>3
<1> HIDE DEF status
<1>4. QED BY <1>1, <1>2, <1>3, ReportedKeeps DEF Stored, status

\* The record of a run that has only heard passed.
LEMMA LiveRecord ==
  ASSUME IInv, NEW h, RunInv(h), h.package \in Package, h.pc \in {"judged", "record"},
         h.status = "passed", NEW status \in {"passed", "live"}, NEW book \in {repo, versions}
  PROVE  /\ Recorded(book, h, status) \in [Package -> Record \cup {None}]
         /\ \A p \in Package : RecordInv(Recorded(book, h, status)[p], p)
<1>1. book \in [Package -> Record \cup {None}] /\ \A p \in Package : RecordInv(book[p], p)
  BY DEF IInv, TypeOK, BooksInv
<1>2. h \in RunState /\ h.began \in Time /\ h.began <= now /\ h.vetted
  BY DEF RunInv, RunState, VerdictInv
<1>3. ASSUME NEW d \in Dep, NEW a \in Advisory, DependsOn(h.package, d), IsBlocking(a),
             published[d][a] # None
      PROVE  published[d][a] + Ttl + Delay > h.began
  <2>1. PICK i \in DOMAIN Depends[h.package] : Depends[h.package][i] = d
    BY <1>3 DEF DependsOn
  <2> DEFINE x == h.answer[d]
  <2>2. x # None /\ a \notin x.vulns
    BY <1>3, <2>1 DEF RunInv, VerdictInv
  <2>3. Sound(x, d) /\ x.asked + Ttl + Delay > h.began
    BY <2>2 DEF RunInv, AnswerInv
  <2>4. published[d][a] >= x.asked
    BY <1>3, <2>2, <2>3 DEF Sound
  <2>5. x.asked \in Int /\ published[d][a] \in Int
    BY <1>2, <1>3, <2>2 DEF RunState, Answer, Time, IInv, TypeOK
  <2> HIDE DEF x
  <2>6. QED BY <1>2, <2>3, <2>4, <2>5, ScanPipelineAssumption DEF Time
<1>4. ASSUME NEW p \in Package PROVE RecordInv(Recorded(book, h, status)[p], p)
  <2>1. CASE p = h.package
    <3>1. Recorded(book, h, status)[p] = [status |-> status, vetted |-> h.vetted, began |-> h.began]
      BY <1>1, <2>1 DEF Recorded
    <3>2. QED BY <1>2, <1>3, <2>1, <3>1 DEF RecordInv
  <2>2. CASE p # h.package
    <3>1. Recorded(book, h, status)[p] = book[p]
      BY <1>1, <2>2 DEF Recorded
    <3>2. QED BY <1>1, <3>1
  <2>3. QED BY <2>1, <2>2
<1>5. QED BY <1>1, <1>2, <1>4, RecordedTypes

LEMMA GotoInv ==
  ASSUME NEW g, RunInv(g), g.pc \in {"judged", "record"}, g.package \in Package,
         NEW pc \in {"record", "fallback"}, NEW h, h = [g EXCEPT !.pc = pc]
  PROVE  RunInv(h) /\ h.pc = pc /\ h.status = g.status /\ h.package = g.package
<1>1. g \in RunState
  BY DEF RunInv
<1>2. h \in RunState /\ h.pc = pc /\ h.next = g.next /\ h.package = g.package
        /\ h.status = g.status /\ h.vetted = g.vetted /\ h.answer = g.answer
        /\ h.query = g.query /\ h.began = g.began
  BY <1>1 DEF RunState
<1>3. VerdictInv(h)
  BY <1>2 DEF RunInv, VerdictInv
<1>4. QED BY <1>2, <1>3 DEF RunInv, AnswerInv, HeldInv, IsHeld, CoverInv

LEMMA MovedFacts ==
  ASSUME IInv, NEW q \in Package
  PROVE  /\ Moved(q) \in [Package -> SUBSET {"pending", "live"}]
         /\ \A p \in Package : "live" \in storage[p] => "live" \in Moved(q)[p]
         /\ "live" \in Moved(q)[q]
BY DEF IInv, TypeOK, Moved

LEMMA GateKeeps ==
  ASSUME IInv, NEW r \in Run, Gate(r)
  PROVE  IInv'
<1> DEFINE g == run[r]
<1>1. RunInv(g) /\ g.package \in Package /\ g.pc = "judged"
  BY DEF IInv, RunInv, Gate
<1>2. now' = now /\ published' = published /\ cache' = cache /\ repo' = repo
        /\ versions' = versions
  BY DEF Gate, world
<1>3. cache' \in [Dep -> Entry \cup {None}] /\ CacheInv'
  BY <1>2, CacheKept
<1>4. ASSUME NEW pc \in {"record", "fallback"}, Goto(r, pc),
             storage' \in {storage, Moved(g.package)},
             pc = "record" /\ g.status = "passed" => storage' = Moved(g.package)
      PROVE  IInv'
  <2> DEFINE h == [g EXCEPT !.pc = pc]
  <2>1. RunInv(h) /\ h.pc = pc /\ h.status = g.status /\ h.package = g.package
    BY <1>1, GotoInv
  <2>2. run' = [run EXCEPT ![r] = h]
    BY <1>4 DEF Goto
  <2> HIDE DEF h, g
  <2>3. /\ storage' \in [Package -> SUBSET {"pending", "live"}]
        /\ \A p \in Package : "live" \in storage[p] => "live" \in storage'[p]
        /\ h.pc = "record" /\ h.status = "passed" => "live" \in storage'[h.package]
    BY <1>1, <1>4, <2>1, MovedFacts DEF IInv, TypeOK
  <2>4. LiveIsStored'
    BY <1>2, <2>3 DEF IInv, LiveIsStored
  <2>5. QED BY <1>2, <1>3, <2>1, <2>2, <2>3, <2>4, RunStep DEF IInv, TypeOK, BooksInv
<1>5. QED BY <1>4 DEF Gate

LEMMA SaveKeeps ==
  ASSUME IInv, NEW r \in Run, Save(r)
  PROVE  IInv'
<1> DEFINE g == run[r]
           status == IF g.status = "passed" THEN "live" ELSE "scan_failed"
           saved == Recorded(repo, g, status)
<1>1. RunInv(g) /\ g \in RunState /\ g.package \in Package /\ g.pc = "record"
  BY DEF IInv, RunInv, Save
<1>2. now \in Time /\ now' = now /\ published' = published /\ cache' = cache
        /\ storage' = storage /\ versions' = versions /\ repo' \in {repo, saved}
  BY DEF IInv, TypeOK, Save, world
<1>3. cache' \in [Dep -> Entry \cup {None}] /\ CacheInv'
  BY <1>2, CacheKept
<1>4. /\ saved \in [Package -> Record \cup {None}]
      /\ \A p \in Package : RecordInv(saved[p], p)
  <2> HIDE DEF g
  <2>1. CASE g.status = "passed"
    BY <1>1, <2>1, LiveRecord
  <2>2. CASE g.status # "passed"
    BY <1>1, <2>2, DullRecord
  <2>3. QED BY <2>1, <2>2
<1>5. \A p \in Package : saved[p] # None /\ saved[p].status = "live" => "live" \in storage[p]
  <2> SUFFICES ASSUME NEW p \in Package, saved[p] # None, saved[p].status = "live"
               PROVE  "live" \in storage[p]
    OBVIOUS
  <2>1. repo \in [Package -> Record \cup {None}]
    BY DEF IInv, TypeOK
  <2>2. CASE p = g.package
    <3>1. saved[p].status = status
      BY <2>1, <2>2 DEF Recorded
    <3>2. g.status = "passed"
      BY <3>1
    <3>3. QED BY <1>1, <2>2, <3>2 DEF IInv, MovedInv
  <2>3. CASE p # g.package
    <3>1. saved[p] = repo[p]
      BY <2>1, <2>3 DEF Recorded
    <3>2. QED BY <3>1 DEF IInv, LiveIsStored
  <2>4. QED BY <2>2, <2>3
<1> HIDE DEF saved
<1>6. /\ repo' \in [Package -> Record \cup {None}] /\ LiveIsStored'
      /\ \A p \in Package : RecordInv(repo'[p], p)
  BY <1>2, <1>4, <1>5 DEF IInv, TypeOK, BooksInv, LiveIsStored
<1>7. PICK h : run' = [run EXCEPT ![r] = h] /\ RunInv(h) /\ h.pc # "record"
  <2>1. CASE End(r)
    <3>1. run' = [run EXCEPT ![r] = Idle] /\ RunInv(Idle)
      BY <1>2, <2>1, IdleInv DEF End
    <3>2. Idle.pc # "record"
      BY DEF Idle
    <3>3. QED BY <3>1, <3>2
  <2>2. CASE Goto(r, "fallback")
    <3> DEFINE h == [g EXCEPT !.pc = "fallback"]
    <3>1. RunInv(h) /\ h.pc = "fallback"
      BY <1>1, GotoInv
    <3>2. run' = [run EXCEPT ![r] = h]
      BY <2>2 DEF Goto
    <3>3. QED BY <3>1, <3>2
  <2>3. QED BY <2>1, <2>2 DEF Save
<1>8. QED BY <1>2, <1>3, <1>6, <1>7, RunStep DEF IInv, TypeOK, BooksInv

LEMMA FallbackKeeps ==
  ASSUME IInv, NEW r \in Run, Fallback(r)
  PROVE  IInv'
<1> DEFINE g == run[r]
<1>1. RunInv(g) /\ g.package \in Package
  BY DEF IInv, RunInv, Fallback
<1>2. now \in Time /\ now' = now /\ published' = published /\ cache' = cache
        /\ storage' = storage /\ versions' = versions
        /\ repo' \in {repo, Recorded(repo, g, "scan_failed")}
  BY DEF IInv, TypeOK, Fallback, world
<1>3. run' = [run EXCEPT ![r] = Idle] /\ RunInv(Idle) /\ Idle.pc # "record"
  BY <1>2, IdleInv DEF Fallback, End, Idle
<1>4. cache' \in [Dep -> Entry \cup {None}] /\ CacheInv'
  BY <1>2, CacheKept
<1> HIDE DEF g
<1>5. /\ repo' \in [Package -> Record \cup {None}]
      /\ \A p \in Package : RecordInv(repo'[p], p)
  BY <1>1, <1>2, DullRecord DEF IInv, TypeOK, BooksInv
<1>6. LiveIsStored'
  <2>1. \A p \in Package : repo'[p] = repo[p] \/ repo'[p].status = "scan_failed"
    BY <1>2 DEF Recorded, IInv, TypeOK
  <2>2. QED BY <1>2, <2>1 DEF IInv, LiveIsStored
<1>7. QED BY <1>2, <1>3, <1>4, <1>5, <1>6, RunStep DEF IInv, TypeOK, BooksInv

LEMMA ConcludeKeeps ==
  ASSUME IInv, NEW r \in Run, Conclude(r)
  PROVE  IInv'
<1> DEFINE g == run[r]
           status == IF g.status = "error" THEN "scan_failed" ELSE g.status
<1>1. RunInv(g) /\ g \in RunState /\ g.package \in Package /\ g.pc = "judged"
  BY DEF IInv, RunInv, Conclude
<1>2. now \in Time /\ now' = now /\ published' = published /\ cache' = cache
        /\ storage' = storage /\ repo' = repo /\ versions' = Recorded(versions, g, status)
  BY DEF IInv, TypeOK, Conclude, world
<1>3. run' = [run EXCEPT ![r] = Idle] /\ RunInv(Idle) /\ Idle.pc # "record"
  BY <1>2, IdleInv DEF Conclude, End, Idle
<1>4. cache' \in [Dep -> Entry \cup {None}] /\ CacheInv'
  BY <1>2, CacheKept
<1>5. /\ versions' \in [Package -> Record \cup {None}]
      /\ \A p \in Package : RecordInv(versions'[p], p)
  <2>1. g.status \in {"passed", "failed", "error"}
    BY <1>1 DEF RunState, Status
  <2> HIDE DEF g
  <2>2. CASE g.status = "passed"
    BY <1>1, <1>2, <2>2, LiveRecord
  <2>3. CASE g.status # "passed"
    BY <1>1, <1>2, <2>1, <2>3, DullRecord
  <2>4. QED BY <2>2, <2>3
<1> HIDE DEF g, status
<1>6. QED BY <1>2, <1>3, <1>4, <1>5, RunStep DEF IInv, TypeOK, BooksInv, LiveIsStored

-----------------------------------------------------------------------------
(* The theorems                                                            *)

LEMMA InitIInv ==
  ASSUME Init
  PROVE  IInv
<1>1. now = 0 /\ now \in Time
  BY ScanPipelineAssumption DEF Init, Time
<1>2. TypeOK
  BY <1>1, IdleRun DEF Init, TypeOK, Idle
<1>3. \A r \in Run : RunInv(run[r])
  BY <1>1, IdleInv DEF Init
<1>4. CacheInv /\ MovedInv /\ BooksInv /\ LiveIsStored
  BY DEF Init, CacheInv, MovedInv, BooksInv, RecordInv, LiveIsStored, Idle
<1>5. QED BY <1>2, <1>3, <1>4 DEF IInv

LEMMA NextIInv ==
  ASSUME IInv, [Next]_vars
  PROVE  IInv'
<1>1. CASE UNCHANGED vars
  BY <1>1 DEF vars, IInv, TypeOK, CacheInv, RunInv, AnswerInv, HeldInv, IsHeld, CoverInv, Covered,
              Queried, VerdictInv, MovedInv, BooksInv, RecordInv, LiveIsStored, Sound
<1>2. ASSUME NEW d \in Dep, NEW a \in Advisory, Publish(d, a) PROVE IInv'
  BY <1>2, PublishKeeps
<1>3. CASE Tick
  BY <1>3, TickKeeps
<1>4. CASE Crash
  BY <1>4, CrashKeeps
<1>5. ASSUME NEW r \in Run, NEW p \in Package, Begin(r, p) PROVE IInv'
  BY <1>5, BeginKeeps
<1>6. ASSUME NEW r \in Run, Scanning(r) PROVE IInv'
  BY <1>6, ScanKeeps, RaiseKeeps, ParseManifestsKeeps, LookupKeeps, LookedUpKeeps, PostKeeps,
     RetryKeeps, GiveUpKeeps, PostedKeeps, StoreKeeps, StoredKeeps DEF Scanning
<1>7. ASSUME NEW r \in Run, Step(r) PROVE IInv'
  BY <1>6, <1>7, GateKeeps, SaveKeeps, FallbackKeeps, ConcludeKeeps DEF Step
<1>8. QED BY <1>1, <1>2, <1>3, <1>4, <1>5, <1>7 DEF Next

LEMMA IInvHolds == Spec => []IInv
<1>1. Init => IInv
  BY InitIInv
<1>2. IInv /\ [Next]_vars => IInv'
  BY NextIInv
<1>3. QED BY <1>1, <1>2, PTL DEF Spec

\* Every variable keeps its type; in particular no batch is retried more than
\* MaxRetries times.
THEOREM TypeCorrect == Spec => []TypeOK
<1>1. IInv => TypeOK
  BY DEF IInv
<1>2. QED BY <1>1, IInvHolds, PTL

\* What the seller sees as live passed every scanner in one scan, and no blocking
\* advisory about its dependencies was public for Ttl and Delay when it began.
THEOREM NothingKnownGoesLiveHolds == Spec => []NothingKnownGoesLive
<1>1. IInv => NothingKnownGoesLive
  BY DEF IInv, BooksInv, RecordInv, NothingKnownGoesLive, ShownLive, Shown
<1>2. QED BY <1>1, IInvHolds, PTL

\* A record says live only of a package in live storage.
THEOREM LiveIsStoredHolds == Spec => []LiveIsStored
<1>1. IInv => LiveIsStored
  BY DEF IInv
<1>2. QED BY <1>1, IInvHolds, PTL
=============================================================================
