------------------------------ MODULE ScanQueue ------------------------------
(***************************************************************************)
(* The intake of the scan engine: the gateway that registers a submission  *)
(* and queues its job, the workers that claim jobs and run the scanners,   *)
(* and the reaper that buries jobs whose heartbeat has stopped.            *)
(*                                                                         *)
(* The table scan_jobs is guarded by one lock, so each access to it is one *)
(* step.  The version records are objects shared by all threads without a  *)
(* lock: a worker keeps the object it looked up when the scan began, while *)
(* the gateway puts a new object under the same (listing, version) key.    *)
(***************************************************************************)
EXTENDS Integers, FiniteSets

CONSTANTS
  Version,      \* the (listing_id, version_id) keys
  MaxSub,       \* bound: submissions in a behaviour
  Clean,        \* the submissions whose package the scanners accept
  Worker,       \* worker threads
  MaxAttempts,  \* max_attempts of a job
  None,
  Reaping,      \* whether somebody calls reap_timed_out_jobs
  Durable,      \* whether scan_jobs is a file, which survives a restart
  MaxRestarts   \* bound: restarts of the process in a behaviour

Sub == 1..MaxSub  \* submissions, numbered in the order of created_at

ASSUME ScanQueueAssumption ==
  /\ MaxSub \in Nat /\ MaxAttempts \in Nat \ {0} /\ MaxRestarts \in Nat
  /\ None \notin Sub /\ None \notin Version /\ Clean \subseteq Sub
  /\ {Reaping, Durable} \subseteq BOOLEAN

VARIABLES
  jobs,      \* the table scan_jobs
  recs,      \* recs[s]: the ListingVersion object made for submission s
  versions,  \* pipeline.versions: the submission whose object is under the key
  hold,      \* what each worker is doing
  stale,     \* the reaper's list stale_jobs
  restarts   \* restarts so far

vars == <<jobs, recs, versions, hold, stale, restarts>>

JobStatus == {"none", "registered", "refused", "queued", "processing",
              "completed", "dead", "lost"}
Job == [status : JobStatus, version : Version \cup {None}, attempts : 0..MaxAttempts,
        beat : {"fresh", "stale"}]
NoJob == [status |-> "none", version |-> None, attempts |-> 0, beat |-> "fresh"]

ListingStatus == {"none", "pending_scan", "scanning", "passed", "failed", "scan_failed"}
Rec == [status : ListingStatus, storage : {"pending", "live"}]
NoRec == [status |-> "none", storage |-> "pending"]
NewRec(status) == [status |-> status, storage |-> "pending"]

Hold == [pc : {"idle", "claimed", "scanning", "judged"},
         job : Sub \cup {None}, rec : Sub \cup {None}]
Idle == [pc |-> "idle", job |-> None, rec |-> None]

TypeOK ==
  /\ jobs \in [Sub -> Job]
  /\ \A s \in Sub : jobs[s].status # "none" => jobs[s].version \in Version
  /\ recs \in [Sub -> Rec]
  /\ versions \in [Version -> Sub \cup {None}]
  /\ hold \in [Worker -> Hold]
  /\ \A w \in Worker : /\ hold[w].pc # "idle" => hold[w].job \in Sub
                       /\ hold[w].pc \in {"scanning", "judged"} => hold[w].rec \in Sub
  /\ stale \in SUBSET {s \in Sub : jobs[s].status # "none"}
  /\ restarts \in 0..MaxRestarts

Init ==
  /\ jobs = [s \in Sub |-> NoJob]
  /\ recs = [s \in Sub |-> NoRec]
  /\ versions = [v \in Version |-> None]
  /\ hold = [w \in Worker |-> Idle]
  /\ stale = {}
  /\ restarts = 0

\* The record under the key of job s, if any, gets a new status.
Marked(s, status) ==
  LET r == versions[jobs[s].version] IN
  IF r = None THEN recs ELSE [recs EXCEPT ![r].status = status]

-----------------------------------------------------------------------------
(* submit_intake_async: scan-service runs it on the event loop, one         *)
(* submission at a time.                                                    *)

\* A new record replaces the one under the key, whatever became of that.
Register(v) ==
  /\ \A t \in Sub : jobs[t].status # "registered"
  /\ \E s \in Sub :
       /\ jobs[s].status = "none" /\ \A t \in 1..(s - 1) : jobs[t].status # "none"
       /\ jobs' = [jobs EXCEPT ![s] = [NoJob EXCEPT !.status = "registered", !.version = v]]
       /\ recs' = [recs EXCEPT ![s] = NewRec("pending_scan")]
       /\ versions' = [versions EXCEPT ![v] = s]
  /\ UNCHANGED <<hold, stale, restarts>>

\* The insert may fail, and the records stay behind.
Enqueue(s) ==
  /\ jobs[s].status = "registered"
  /\ \E outcome \in {"queued", "refused"} : jobs' = [jobs EXCEPT ![s].status = outcome]
  /\ UNCHANGED <<recs, versions, hold, stale, restarts>>

-----------------------------------------------------------------------------
(* ScanJobWorker.process_one_job                                           *)

Queued == {s \in Sub : jobs[s].status = "queued"}

\* claim_next_job: the oldest queued job, in one transaction.
Claim(w) ==
  /\ hold[w].pc = "idle"
  /\ \E s \in Queued :
       /\ \A t \in Queued : s <= t
       /\ jobs' = [jobs EXCEPT ![s].status = "processing", ![s].beat = "fresh"]
       /\ hold' = [hold EXCEPT ![w] = [pc |-> "claimed", job |-> s, rec |-> None]]
  /\ UNCHANGED <<recs, versions, stale, restarts>>

\* submit_upload looks the key up again: it finds the newest record, or after
\* a restart none, and makes one.
Start(w) ==
  LET s == hold[w].job
      v == jobs[s].version
      r == IF versions[v] = None THEN s ELSE versions[v]
  IN
  /\ hold[w].pc = "claimed"
  /\ recs' = [recs EXCEPT ![r] = IF versions[v] = None THEN NewRec("scanning")
                                 ELSE [@ EXCEPT !.status = "scanning"]]
  /\ versions' = [versions EXCEPT ![v] = r]
  /\ hold' = [hold EXCEPT ![w].pc = "scanning", ![w].rec = r]
  /\ UNCHANGED <<jobs, stale, restarts>>

\* What the scanners may say of a package.  Clone, credential and archive
\* errors, and whatever else is raised during the scan, come out as
\* scan_failed.  Faulty variants: an error counts as passed; an error leaves the
\* status alone.
Outcomes_failOpen(s) == IF s \in Clean THEN {"passed"} ELSE {"failed", "passed"}
Outcomes_silent(s) == {IF s \in Clean THEN "passed" ELSE "failed", "scanning"}
Outcomes(s) == {IF s \in Clean THEN "passed" ELSE "failed", "scan_failed"}

\* A passed package is promoted.  Nothing ever moves it back.
Promoted(rec, outcome) ==
  [status |-> outcome, storage |-> IF outcome = "passed" THEN "live" ELSE rec.storage]

Verdict(w) ==
  LET h == hold[w] IN
  /\ h.pc = "scanning"
  /\ \E outcome \in Outcomes(h.job) :
       recs' = [recs EXCEPT ![h.rec] = Promoted(@, outcome)]
  /\ hold' = [hold EXCEPT ![w].pc = "judged"]
  /\ UNCHANGED <<jobs, versions, stale, restarts>>

\* complete_job does not look at the status that it overwrites.
Complete(w) ==
  /\ hold[w].pc = "judged"
  /\ jobs' = [jobs EXCEPT ![hold[w].job].status = "completed"]
  /\ hold' = [hold EXCEPT ![w] = Idle]
  /\ UNCHANGED <<recs, versions, stale, restarts>>

\* Faulty variant: the attempts are counted one too many.
Exhausted_offByOne(s) == jobs[s].attempts >= MaxAttempts
Exhausted(s) == jobs[s].attempts + 1 >= MaxAttempts

\* What record_job_failure makes of a job.  Faulty variant: a job with an
\* attempt left is not put back into the queue.
AfterFailure_stuck(s) == IF Exhausted(s) THEN "dead" ELSE jobs[s].status
AfterFailure(s) == IF Exhausted(s) THEN "dead" ELSE "queued"

\* An exception outside the scan (no scratch directory, a locked database):
\* record_job_failure queues the job again, whatever its status has become,
\* or ends it; the record under the key is then failed closed.
Raise(w) ==
  LET s == hold[w].job IN
  /\ hold[w].pc # "idle"
  /\ jobs' = [jobs EXCEPT ![s].attempts = @ + 1,
                          ![s].status = AfterFailure(s)]
  /\ recs' = IF Exhausted(s) THEN Marked(s, "scan_failed") ELSE recs
  /\ hold' = [hold EXCEPT ![w] = Idle]
  /\ UNCHANGED <<versions, stale, restarts>>

\* heartbeat_loop; update_heartbeat writes to jobs in processing only.
Heartbeat(w) ==
  LET s == hold[w].job IN
  /\ hold[w].pc # "idle" /\ jobs[s].status = "processing" /\ jobs[s].beat = "stale"
  /\ jobs' = [jobs EXCEPT ![s].beat = "fresh"]
  /\ UNCHANGED <<recs, versions, hold, stale, restarts>>

\* timeout_seconds pass without a heartbeat: the worker is gone, or its
\* heartbeat thread was held up or has ended with an exception.
FallSilent(s) ==
  /\ jobs[s].status = "processing" /\ jobs[s].beat = "fresh"
  /\ jobs' = [jobs EXCEPT ![s].beat = "stale"]
  /\ UNCHANGED <<recs, versions, hold, stale, restarts>>

-----------------------------------------------------------------------------
(* reap_timed_out_jobs                                                     *)

StaleJobs == {s \in Sub : jobs[s].status = "processing" /\ jobs[s].beat = "stale"}

FindStale ==
  /\ Reaping /\ stale = {} /\ StaleJobs # {}
  /\ stale' = StaleJobs
  /\ UNCHANGED <<jobs, recs, versions, hold, restarts>>

\* mark_job_dead does not look at the job again.  Faulty variant: the reaper
\* gives the job another attempt.
Buried_requeued(s) == [jobs EXCEPT ![s].status = "queued"]
Buried(s) == [jobs EXCEPT ![s].status = "dead"]

Reap(s) ==
  /\ s \in stale
  /\ jobs' = Buried(s)
  /\ recs' = Marked(s, "scan_failed")
  /\ stale' = stale \ {s}
  /\ UNCHANGED <<versions, hold, restarts>>

-----------------------------------------------------------------------------
\* The statuses that a restart does not affect.
Surviving == IF Durable THEN JobStatus \ {"registered"} ELSE {"none"}

\* A new process: threads, requests, records and an in-memory table are gone.
Restart ==
  /\ restarts < MaxRestarts
  /\ restarts' = restarts + 1
  /\ hold' = [w \in Worker |-> Idle]
  /\ recs' = [s \in Sub |-> NoRec]
  /\ versions' = [v \in Version |-> None]
  /\ stale' = {}
  /\ jobs' = [s \in Sub |-> IF jobs[s].status \in Surviving THEN jobs[s]
                             ELSE [jobs[s] EXCEPT !.status = "lost"]]

WorkerStep(w) == Claim(w) \/ Start(w) \/ Verdict(w) \/ Complete(w) \/ Raise(w)

Next ==
  \/ \E v \in Version : Register(v)
  \/ \E s \in Sub : Enqueue(s) \/ FallSilent(s) \/ Reap(s)
  \/ \E w \in Worker : WorkerStep(w) \/ Heartbeat(w)
  \/ FindStale
  \/ Restart

Spec == Init /\ [][Next]_vars

\* Worker threads keep running, and a scan ends: clones, archives and scanners
\* have limits.  Nothing in the repository calls the reaper, so nothing here
\* relies on it.
Fairness == \A w \in Worker : WF_vars(WorkerStep(w))

LiveSpec == Spec /\ Fairness

-----------------------------------------------------------------------------
(* Properties that hold                                                    *)

SubsOf(v) == {s \in Sub : jobs[s].version = v}
Held(s) == \E w \in Worker : hold[w].pc # "idle" /\ hold[w].job = s

\* claim_next_job gives a job to one worker at a time, although a reaped job's
\* worker may still be running and may put the job back into the queue.
OneWorkerPerJob ==
  \A w, x \in Worker : w # x /\ hold[w].pc # "idle" => hold[w].job # hold[x].job

\* A record made for a package that the scanners reject is neither reported
\* as passed nor promoted to live storage.
Vetted(v) ==
  LET s == versions[v] IN
  s # None /\ s \notin Clean => recs[s].status # "passed" /\ recs[s].storage = "pending"

\* Vetted, for a version that was submitted once: whatever attempts, reaps and
\* restarts its job goes through.
VettedOnce == \A v \in Version : Cardinality(SubsOf(v)) <= 1 => Vetted(v)

\* No scan leaves its version pending or scanning, whatever is raised, reaped
\* or restarted: when no job of a version waits for a worker and none is at
\* one, the record holds a final status.  The one exception is a record whose
\* own job was never queued: submit_intake_async registers it before the
\* insert, and when the insert raises it stays pending_scan (README.md).
NoLimbo ==
  \A v \in Version :
    /\ versions[v] # None /\ jobs[versions[v]].status # "refused"
    /\ \A s \in SubsOf(v) : jobs[s].status \notin {"registered", "queued"} /\ ~Held(s)
    => recs[versions[v]].status \in {"passed", "failed", "scan_failed"}

\* Retries are bounded: a job that waits in the queue has an attempt left.
AttemptLeft == \A s \in Queued : jobs[s].attempts < MaxAttempts

\* A job that was in processing when the process ended: no worker will ever
\* take it up, as claim_next_job looks at queued jobs only.
Orphaned(s) == restarts > 0 /\ jobs[s].status = "processing" /\ ~Held(s)

\* Every job that is queued ends as completed or dead, whatever its attempts
\* raise and whether or not anybody reaps, unless a restart orphans it.
JobSettles ==
  \A s \in Sub : jobs[s].status = "queued"
                   ~> jobs[s].status \in {"completed", "dead", "lost"} \/ Orphaned(s)

-----------------------------------------------------------------------------
(* A property the repository states and the code violates (README.md)       *)

\* A bad upload lands on scan_failed and never reaches live/, also when its
\* version had been submitted before.
BadUploadNeverLive == \A v \in Version : Vetted(v)
=============================================================================
