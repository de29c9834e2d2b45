----------------------------- MODULE ScanPipeline -----------------------------
(***************************************************************************)
(* From an unpacked package to its verdict: the secrets, static and CVE     *)
(* scanners in turn, the cache and the batch queries of the CVE scanner,    *)
(* the merge, the move into live storage and the record.  The two callers   *)
(* are process_upload, which records in the repository, and the intake      *)
(* worker, which records in the version object; the seller sees the         *)
(* repository's word before the object's.                                   *)
(*                                                                          *)
(* Runs overlap and share the cache, whose calls each hold its lock.  OSV   *)
(* learns of advisories meanwhile; its answers name every advisory that it  *)
(* knows at the time.  Calls to OSV, to the storage and to the repository   *)
(* fail, and the process crashes.                                           *)
(***************************************************************************)
EXTENDS Sequences, ScanContract

CONSTANTS
  Upload,     \* threads that call process_upload
  Worker,     \* workers of the intake pipeline
  Package,    \* the (listing, version) keys
  Dep,        \* (ecosystem, name, version) keys
  Advisory,   \* vulnerability records
  Depends,    \* the dependencies that the manifests of each package declare
  Score,      \* the CVSS score of each advisory in tenths, or None
  ChunkSize,  \* MAX_BATCH_CHUNK_SIZE
  MaxRetries, \* max_retries of the OSV client
  Ttl,        \* DEFAULT_TTL_SECONDS of the cache
  Delay,      \* from OSV's answer to its place in the cache at most
  MaxTime,    \* bound: ticks of the clock
  None

Run == Upload \cup Worker
Time == 0..MaxTime

ASSUME ScanPipelineAssumption ==
  /\ Depends \in [Package -> Seq(Dep)]
  /\ Score \in [Advisory -> Nat \cup {None}] /\ None \notin Nat /\ None \notin Dep
  /\ None \notin Package /\ Upload \cap Worker = {}
  /\ None \notin [vulns : SUBSET Advisory, asked : Nat]
  /\ {ChunkSize, Ttl} \subseteq Nat \ {0} /\ {MaxRetries, Delay, MaxTime} \subseteq Nat

VARIABLES
  now,       \* the clock, in units of the cache's time to live
  published, \* OSV: when it learned of each advisory about each dependency
  cache,     \* DEFAULT_OSV_CACHE; history: when OSV gave the answer
  storage,   \* the prefixes under which each package is found
  repo,      \* the repository's records; history: how a live one came about
  versions,  \* the pipeline's version objects, likewise
  run        \* what each thread is doing

vars == <<now, published, cache, storage, repo, versions, run>>
world == <<now, published>>
books == <<storage, repo, versions>>

\* An answer of OSV about a dependency.
Answer == [vulns : SUBSET Advisory, asked : Time]
Entry == [vulns : SUBSET Advisory, asked : Time, at : Time]
Record == [status : {"live", "passed", "failed", "scan_failed", "scanning"},
           began : Time \cup {None}, vetted : BOOLEAN]

\* A run; status is the merge of the scanners' verdicts so far.
RunState ==
  [pc : {"idle", "secrets", "static", "manifests", "lookup", "post", "store", "judged",
         "record", "fallback"},
   package : Package \cup {None},
   status : Status, vetted : BOOLEAN, answer : [Dep -> Answer \cup {None}],
   query : Seq(Dep), next : Nat \ {0}, attempt : 0..MaxRetries, began : Time]
Idle == [pc |-> "idle", package |-> None, status |-> "passed", vetted |-> TRUE, answer |-> [d \in Dep |-> None],
         query |-> <<>>, next |-> 1, attempt |-> 0, began |-> 0]

TypeOK ==
  /\ now \in Time
  /\ published \in [Dep -> [Advisory -> Time \cup {None}]]
  /\ cache \in [Dep -> Entry \cup {None}]
  /\ storage \in [Package -> SUBSET {"pending", "live"}]
  /\ repo \in [Package -> Record \cup {None}]
  /\ versions \in [Package -> Record \cup {None}]
  /\ run \in [Run -> RunState]
  /\ \A r \in Run : run[r].pc # "idle" => run[r].package \in Package

Init ==
  /\ now = 0
  /\ published = [d \in Dep |-> [a \in Advisory |-> None]]
  /\ cache = [d \in Dep |-> None]
  /\ storage = [p \in Package |-> {"pending"}]
  /\ repo = [p \in Package |-> None]
  /\ versions = [p \in Package |-> None]
  /\ run = [r \in Run |-> Idle]

Recorded(book, h, status) ==
  [book EXCEPT ![h.package] =
     [status |-> status, vetted |-> h.vetted,
      began |-> IF status \in {"passed", "live"} THEN h.began ELSE None]]
Known(d) == {a \in Advisory : published[d][a] # None}
Goto(r, pc) == run' = [run EXCEPT ![r].pc = pc]
End(r) == run' = [run EXCEPT ![r] = Idle]

-----------------------------------------------------------------------------
(* The world                                                               *)

Publish(d, a) ==
  /\ published[d][a] = None
  /\ published' = [published EXCEPT ![d][a] = now]
  /\ UNCHANGED <<now, cache, books, run>>

\* The dependencies of whose answers OSV has sent and the cache has not yet got.
IsHeld(h, i) == \/ (h.pc = "post" /\ i < h.next)
                \/ (h.pc = "store" /\ i >= h.next)
Held(h) == {h.query[i] : i \in {i \in DOMAIN h.query : IsHeld(h, i)}}

\* The timeouts of the client bound how long an answer is held.
Tick ==
  /\ now < MaxTime
  /\ \A r \in Run : \A d \in Held(run[r]) : now - run[r].answer[d].asked < Delay
  /\ now' = now + 1
  /\ UNCHANGED <<published, cache, books, run>>

\* The cache and the version objects live in the process.
Crash ==
  /\ cache' = [d \in Dep |-> None]
  /\ versions' = [p \in Package |-> None]
  /\ run' = [r \in Run |-> Idle]
  /\ UNCHANGED <<world, storage, repo>>

-----------------------------------------------------------------------------
(* The secrets and the static scanner                                      *)

\* The intake worker marks its version object.
Begin(r, p) ==
  LET h == [Idle EXCEPT !.pc = "secrets", !.package = p, !.began = now] IN
  /\ run[r].pc = "idle"
  /\ run' = [run EXCEPT ![r] = h]
  /\ versions' = IF r \in Worker THEN Recorded(versions, h, "scanning") ELSE versions
  /\ UNCHANGED <<world, cache, storage, repo>>

\* The verdict of one scanner joins the others.  A budget, an unreadable history
\* or a manifest that does not parse is an error, whatever the package holds.
Reported(r, status, next) ==
  run' = [run EXCEPT ![r].status = Merged({@, status}), ![r].pc = next,
                     ![r].vetted = @ /\ status = "passed"]

Scan(r, s, next) ==
  /\ run[r].pc = s
  /\ \E status \in Status : Reported(r, status, next)
  /\ UNCHANGED <<world, cache, books>>

\* A scanner that raises is an error for process_upload, which goes on with the
\* next; it ends the scan of the intake worker.
Raise(r, s, next) ==
  LET h == run[r] IN
  /\ h.pc = s
  /\ \/ /\ r \in Upload
        /\ Reported(r, "error", next)
        /\ UNCHANGED versions
     \/ /\ r \in Worker
        /\ versions' = Recorded(versions, h, "scan_failed")
        /\ End(r)
  /\ UNCHANGED <<world, cache, storage, repo>>

-----------------------------------------------------------------------------
(* The CVE scanner                                                         *)

\* A manifest that does not parse ends the CVE scan with an error.
ParseManifests(r) ==
  /\ run[r].pc = "manifests"
  /\ \/ Goto(r, "lookup")
     \/ Reported(r, "error", "judged")
  /\ UNCHANGED <<world, cache, books>>

Fresh(e) == now - e.at < Ttl

\* OSVCache.get, which deletes what has expired.  Faulty variant: expiry is
\* forgotten.
Cached_forever(d) == cache[d]
Cached(d) == IF cache[d] # None /\ Fresh(cache[d]) THEN cache[d] ELSE None

Queried(h, d) == \E i \in DOMAIN h.query : h.query[i] = d

\* The loop over the dependencies in _query_dependencies_with_cache: a miss is
\* queried, once.
Lookup(r) ==
  LET h == run[r]
      d == Depends[h.package][h.next]
      hit == Cached(d)
  IN
  /\ h.pc = "lookup" /\ h.next <= Len(Depends[h.package])
  /\ cache' = [cache EXCEPT ![d] = hit]
  /\ run' = [run EXCEPT ![r] =
       [h EXCEPT !.next = @ + 1,
                 !.answer = IF hit = None \/ Queried(h, d) THEN @
                            ELSE [@ EXCEPT ![d] = [vulns |-> hit.vulns, asked |-> hit.asked]],
                 !.query = IF hit = None /\ ~Queried(h, d) THEN Append(@, d) ELSE @]]
  /\ UNCHANGED <<world, books>>

LookedUp(r) ==
  /\ run[r].pc = "lookup" /\ run[r].next > Len(Depends[run[r].package])
  /\ run' = [run EXCEPT ![r].pc = "post", ![r].next = 1]
  /\ UNCHANGED <<world, cache, books>>

\* One POST of query_batch: OSV answers for the next chunk.
Chunk(h) == {h.query[i] : i \in {i \in DOMAIN h.query : h.next <= i /\ i < h.next + ChunkSize}}

Post(r) ==
  LET h == run[r] IN
  /\ h.pc = "post" /\ h.next <= Len(h.query)
  /\ run' = [run EXCEPT ![r] =
       [h EXCEPT !.next = @ + ChunkSize, !.attempt = 0,
                 !.answer = [d \in Dep |-> IF d \in Chunk(h)
                                           THEN [vulns |-> Known(d), asked |-> now]
                                           ELSE @[d]]]]
  /\ UNCHANGED <<world, cache, books>>

\* Timeouts, refused connections, 500, 502, 503 and 504 are retried.
Retriable(attempt) == attempt < MaxRetries

Retry(r) ==
  /\ run[r].pc = "post" /\ run[r].next <= Len(run[r].query)
  /\ Retriable(run[r].attempt)
  /\ run' = [run EXCEPT ![r].attempt = @ + 1]
  /\ UNCHANGED <<world, cache, books>>

\* Another failure, or the last attempt: the scan fails closed, and nothing is
\* put into the cache.
GiveUp(r) ==
  /\ run[r].pc = "post" /\ run[r].next <= Len(run[r].query)
  /\ Reported(r, "error", "judged")
  /\ UNCHANGED <<world, cache, books>>

Posted(r) ==
  /\ run[r].pc = "post" /\ run[r].next > Len(run[r].query)
  /\ run' = [run EXCEPT ![r].pc = "store", ![r].next = 1]
  /\ UNCHANGED <<world, cache, books>>

\* OSVCache.set, for one answer after the other.
Store(r) ==
  LET h == run[r]
      d == h.query[h.next]
  IN
  /\ h.pc = "store" /\ h.next <= Len(h.query)
  /\ cache' = [cache EXCEPT ![d] = [vulns |-> h.answer[d].vulns, asked |-> h.answer[d].asked,
                                    at |-> now]]
  /\ run' = [run EXCEPT ![r].next = @ + 1]
  /\ UNCHANGED <<world, books>>

\* One finding for each advisory about each dependency.
Findings(h) ==
  {OsvFinding(Score[a], None) :
     a \in UNION {h.answer[d].vulns : d \in {d \in Dep : h.answer[d] # None}}}

Stored(r) ==
  LET h == run[r] IN
  /\ h.pc = "store" /\ h.next > Len(h.query)
  /\ Reported(r, EvaluateStatus(Findings(h), FALSE), "judged")
  /\ UNCHANGED <<world, cache, books>>

-----------------------------------------------------------------------------
(* The verdict                                                             *)

\* move_package may fail before or after its effect.
Moved(p) == [storage EXCEPT ![p] = {"live"}]

\* The branch on the verdict in process_upload.  Faulty variant: the record is
\* written before the package is moved.
Gate_early(r) ==
  LET h == run[r] IN
  /\ h.pc = "judged" /\ r \in Upload
  /\ Goto(r, "record")
  /\ repo' = Recorded(repo, h, IF h.status = "passed" THEN "live" ELSE "scan_failed")
  /\ UNCHANGED <<world, cache, storage, versions>>
Gate(r) ==
  LET h == run[r] IN
  /\ h.pc = "judged" /\ r \in Upload
  /\ \/ /\ h.status = "passed"
        /\ \/ storage' = Moved(h.package) /\ Goto(r, "record")
           \/ storage' \in {storage, Moved(h.package)} /\ Goto(r, "fallback")
     \/ /\ h.status # "passed"
        /\ Goto(r, "record")
        /\ UNCHANGED storage
  /\ UNCHANGED <<world, cache, repo, versions>>

\* update_status_and_results may fail, before or after its effect too.
Save(r) ==
  LET h == run[r]
      saved == Recorded(repo, h, IF h.status = "passed" THEN "live" ELSE "scan_failed")
  IN
  /\ h.pc = "record"
  /\ \/ repo' = saved /\ End(r)
     \/ repo' \in {repo, saved} /\ Goto(r, "fallback")
  /\ UNCHANGED <<world, cache, storage, versions>>

\* The second failure is swallowed.
Fallback(r) ==
  LET h == run[r] IN
  /\ h.pc = "fallback"
  /\ repo' \in {repo, Recorded(repo, h, "scan_failed")}
  /\ End(r)
  /\ UNCHANGED <<world, cache, storage, versions>>

\* The verdict in submit_upload of the intake pipeline.
Conclude(r) ==
  LET h == run[r] IN
  /\ h.pc = "judged" /\ r \in Worker
  /\ versions' = Recorded(versions, h, IF h.status = "error" THEN "scan_failed"
                                       ELSE h.status)
  /\ End(r)
  /\ UNCHANGED <<world, cache, storage, repo>>

-----------------------------------------------------------------------------

Scanning(r) ==
  \/ Scan(r, "secrets", "static") \/ Raise(r, "secrets", "static")
  \/ Scan(r, "static", "manifests") \/ Raise(r, "static", "manifests")
  \/ ParseManifests(r) \/ Lookup(r) \/ LookedUp(r)
  \/ Post(r) \/ Retry(r) \/ GiveUp(r) \/ Posted(r) \/ Store(r) \/ Stored(r)

Step(r) == Scanning(r) \/ Gate(r) \/ Save(r) \/ Fallback(r) \/ Conclude(r)

Next ==
  \/ \E d \in Dep, a \in Advisory : Publish(d, a)
  \/ Tick \/ Crash
  \/ \E r \in Run : \/ \E p \in Package : Begin(r, p)
                    \/ Step(r)

Spec == Init /\ [][Next]_vars

-----------------------------------------------------------------------------
(* Properties                                                              *)

\* get_status: the repository's record first, then the version object.
Shown(p) == IF repo[p] # None THEN repo[p] ELSE versions[p]
ShownLive(p) == Shown(p) # None /\ SellerStatus(Shown(p).status) = "live"

DependsOn(p, d) == \E i \in DOMAIN Depends[p] : Depends[p][i] = d
IsBlocking(a) == Blocking(OsvFinding(Score[a], None))

\* A package that the seller sees as live has passed every scanner in one scan, and
\* no blocking advisory about any of its dependencies was public for
\* the life of a cache entry and the delay of an answer when its scan began:
\* caching, overlapping scans, retries and failures let nothing older through.
NothingKnownGoesLive ==
  \A p \in Package : ShownLive(p) =>
    /\ Shown(p).vetted
    /\ \A d \in Dep, a \in Advisory :
         DependsOn(p, d) /\ IsBlocking(a) /\ published[d][a] # None =>
           published[d][a] + Ttl + Delay > Shown(p).began

\* A package that the repository calls live is in live storage: a crash or a
\* failed call between the move and the record never leaves the record alone.
LiveIsStored ==
  \A p \in Package : repo[p] # None /\ repo[p].status = "live" => "live" \in storage[p]
=============================================================================
