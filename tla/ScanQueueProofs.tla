--------------------------- MODULE ScanQueueProofs ---------------------------
(* Theorems about ScanQueue, for any number of submissions, versions,       *)
(* workers, attempts and restarts.                                          *)
EXTENDS ScanQueue, FiniteSetTheorems, TLAPS

Busy(w) == hold[w].pc # "idle"

\* A job that nobody has claimed, or that was put back, has an attempt left,
\* and so has a job that a worker is at.
AttemptInv ==
  /\ \A s \in Sub : jobs[s].status \in {"none", "registered"} => jobs[s].attempts = 0
  /\ AttemptLeft
  /\ \A w \in Worker : Busy(w) => jobs[hold[w].job].attempts < MaxAttempts

\* A worker's job is in processing, or was reaped in the meantime, and it is
\* no other worker's job.
HoldInv ==
  /\ \A w \in Worker : Busy(w) \/ hold[w] = Idle
  /\ \A w \in Worker : Busy(w) => jobs[hold[w].job].status \in {"processing", "dead"}
  /\ OneWorkerPerJob

\* The records that can be reached from a version, or from a worker's job,
\* were made for a submission of the same version.
RecordInv ==
  /\ \A s \in Sub : jobs[s].status = "none" => jobs[s].version = None /\ recs[s] = NoRec
  /\ \A v \in Version : versions[v] # None => jobs[versions[v]].version = v
  /\ \A w \in Worker :
       hold[w].pc \in {"scanning", "judged"}
         => jobs[hold[w].rec].version = jobs[hold[w].job].version

\* A record is passed or live only if some accepted package of its version was
\* submitted.
Good(s) == recs[s].status # "passed" /\ recs[s].storage = "pending"
PassedInv ==
  \A s \in Sub : Good(s) \/ \E c \in Sub \cap Clean : jobs[c].version = jobs[s].version

USE DEF Busy

-----------------------------------------------------------------------------
(* Type correctness needs the attempts to stay below their bound.           *)

TypeInv == TypeOK /\ AttemptInv /\ HoldInv

LEMMA SubNat == Sub \subseteq Nat /\ IsFiniteSet(Sub)
BY ScanQueueAssumption, FS_Interval DEF Sub

LEMMA InitTypeInv == Init => TypeInv
BY ScanQueueAssumption
DEF Init, TypeInv, TypeOK, AttemptInv, HoldInv, AttemptLeft, OneWorkerPerJob, Queued,
    NoJob, Job, JobStatus, NoRec, Rec, ListingStatus, Idle, Hold

\* The ways in which a step changes one job, one record or one worker.
LEMMA JobFields ==
  ASSUME NEW j \in Job, NEW status \in JobStatus, NEW beat \in {"fresh", "stale"}
  PROVE  /\ [j EXCEPT !.status = status] \in Job
         /\ [j EXCEPT !.beat = beat] \in Job
         /\ [j EXCEPT !.status = status, !.beat = beat] \in Job
         /\ j.attempts < MaxAttempts =>
              [j EXCEPT !.attempts = @ + 1, !.status = status] \in Job
<1>1. j.attempts < MaxAttempts => j.attempts + 1 \in 0..MaxAttempts
  BY ScanQueueAssumption DEF Job
<1>. QED
  BY <1>1 DEF Job

LEMMA RecFields ==
  ASSUME NEW r \in Rec, NEW status \in ListingStatus
  PROVE  /\ [r EXCEPT !.status = status] \in Rec
         /\ Promoted(r, status) \in Rec
         /\ NewRec(status) \in Rec
BY DEF Rec, Promoted, NewRec

LEMMA HoldFields ==
  ASSUME NEW h \in Hold, NEW r \in Sub, NEW s \in Sub
  PROVE  /\ [h EXCEPT !.pc = "scanning", !.rec = r] \in Hold
         /\ [h EXCEPT !.pc = "judged"] \in Hold
         /\ [pc |-> "claimed", job |-> s, rec |-> None] \in Hold
BY DEF Hold

LEMMA Constants ==
  /\ NoJob \in Job /\ NoRec \in Rec /\ Idle \in Hold
  /\ NoJob.status = "none" /\ NoJob.attempts = 0 /\ Idle.pc = "idle"
  /\ {"none", "registered", "refused", "queued", "processing", "completed", "dead",
      "lost"} = JobStatus
  /\ {"pending_scan", "scanning", "passed", "failed", "scan_failed"} \subseteq ListingStatus
BY ScanQueueAssumption DEF NoJob, Job, JobStatus, NoRec, Rec, ListingStatus, Idle, Hold

LEMMA MarkedType ==
  ASSUME TypeOK, NEW s \in Sub, jobs[s].status # "none", NEW status \in ListingStatus
  PROVE  Marked(s, status) \in [Sub -> Rec]
<1>1. CASE versions[jobs[s].version] = None
  BY <1>1 DEF TypeOK, Marked
<1>2. CASE versions[jobs[s].version] # None
  <2>. DEFINE r == versions[jobs[s].version]
  <2>1. r \in Sub /\ recs[r] \in Rec
    BY <1>2 DEF TypeOK
  <2>2. Marked(s, status) = [recs EXCEPT ![r] = [recs[r] EXCEPT !.status = status]]
    BY <1>2 DEF Marked
  <2>3. [recs[r] EXCEPT !.status = status] \in Rec
    BY <2>1, RecFields
  <2>. QED
    BY <2>1, <2>2, <2>3 DEF TypeOK
<1>. QED
  BY <1>1, <1>2

LEMMA TypeStep == TypeInv /\ [Next]_vars => TypeOK'
<1>. SUFFICES ASSUME TypeInv, [Next]_vars PROVE TypeOK'
  OBVIOUS
<1>. USE Constants DEF TypeInv, TypeOK
<1>1. ASSUME NEW v \in Version, Register(v) PROVE TypeOK'
  <2>1. PICK s \in Sub :
          /\ jobs[s].status = "none"
          /\ jobs' = [jobs EXCEPT ![s] = [NoJob EXCEPT !.status = "registered", !.version = v]]
          /\ recs' = [recs EXCEPT ![s] = NewRec("pending_scan")]
          /\ versions' = [versions EXCEPT ![v] = s]
    BY <1>1 DEF Register
  <2>2. [NoJob EXCEPT !.status = "registered", !.version = v] \in Job
    BY DEF NoJob, Job
  <2>3. NewRec("pending_scan") \in Rec
    BY RecFields
  <2>4. \A t \in Sub : jobs'[t].status # "none" => jobs'[t].version \in Version
    BY <2>1 DEF NoJob
  <2>. QED
    BY <1>1, <2>1, <2>2, <2>3, <2>4 DEF Register
<1>2. ASSUME NEW s \in Sub, Enqueue(s) PROVE TypeOK'
  <2>1. PICK outcome \in {"queued", "refused"} :
          jobs' = [jobs EXCEPT ![s] = [jobs[s] EXCEPT !.status = outcome]]
    BY <1>2 DEF Enqueue
  <2>2. [jobs[s] EXCEPT !.status = outcome] \in Job
    BY JobFields
  <2>3. \A t \in Sub : jobs'[t].status # "none" => jobs'[t].version \in Version
    BY <1>2, <2>1 DEF Enqueue, Job
  <2>. QED
    BY <1>2, <2>1, <2>2, <2>3 DEF Enqueue
<1>3. ASSUME NEW s \in Sub, FallSilent(s) PROVE TypeOK'
  <2>1. jobs' = [jobs EXCEPT ![s] = [jobs[s] EXCEPT !.beat = "stale"]]
    BY <1>3 DEF FallSilent
  <2>2. [jobs[s] EXCEPT !.beat = "stale"] \in Job
    BY JobFields
  <2>3. \A t \in Sub : jobs'[t].status = jobs[t].status /\ jobs'[t].version = jobs[t].version
    BY <2>1 DEF Job
  <2>. QED
    BY <1>3, <2>1, <2>2, <2>3 DEF FallSilent
<1>4. ASSUME NEW s \in Sub, Reap(s) PROVE TypeOK'
  <2>1. jobs' = [jobs EXCEPT ![s] = [jobs[s] EXCEPT !.status = "dead"]]
    BY <1>4 DEF Reap, Buried
  <2>2. [jobs[s] EXCEPT !.status = "dead"] \in Job
    BY JobFields
  <2>3. jobs[s].status # "none"
    BY <1>4 DEF Reap
  <2>4. \A t \in Sub : jobs'[t].version = jobs[t].version
                       /\ (jobs'[t].status = "none" => jobs[t].status = "none")
                       /\ (jobs[t].status # "none" => jobs'[t].status # "none")
    BY <2>1, <2>3 DEF Job
  <2>5. recs' \in [Sub -> Rec]
    BY <1>4, <2>3, MarkedType DEF Reap
  <2>. QED
    BY <1>4, <2>1, <2>2, <2>4, <2>5 DEF Reap
<1>5. ASSUME NEW w \in Worker, Claim(w) PROVE TypeOK'
  <2>1. PICK s \in Queued :
          /\ jobs' = [jobs EXCEPT ![s].status = "processing", ![s].beat = "fresh"]
          /\ hold' = [hold EXCEPT ![w] = [pc |-> "claimed", job |-> s, rec |-> None]]
    BY <1>5 DEF Claim
  <2>2. s \in Sub /\ jobs[s].status = "queued"
    BY DEF Queued
  <2>3. jobs' = [jobs EXCEPT ![s] = [jobs[s] EXCEPT !.status = "processing", !.beat = "fresh"]]
    BY <2>1, <2>2
  <2>4. [jobs[s] EXCEPT !.status = "processing", !.beat = "fresh"] \in Job
    BY <2>2, JobFields
  <2>5. \A t \in Sub : jobs'[t].version = jobs[t].version
                       /\ (jobs[t].status # "none" <=> jobs'[t].status # "none")
    BY <2>2, <2>3 DEF Job
  <2>6. [pc |-> "claimed", job |-> s, rec |-> None] \in Hold
    BY <2>2 DEF Hold
  <2>. QED
    BY <1>5, <2>1, <2>2, <2>3, <2>4, <2>5, <2>6 DEF Claim
<1>6. ASSUME NEW w \in Worker, Start(w) PROVE TypeOK'
  <2>. DEFINE s == hold[w].job
              v == jobs[s].version
              r == IF versions[v] = None THEN s ELSE versions[v]
              rec == IF versions[v] = None THEN NewRec("scanning")
                     ELSE [recs[r] EXCEPT !.status = "scanning"]
  <2>1. s \in Sub /\ v \in Version
    BY <1>6 DEF Start, HoldInv
  <2>2. r \in Sub
    BY <2>1
  <2>3. rec \in Rec
    BY <2>2, RecFields
  <2>4. /\ recs' = [recs EXCEPT ![r] = rec]
        /\ versions' = [versions EXCEPT ![v] = r]
        /\ hold' = [hold EXCEPT ![w] = [hold[w] EXCEPT !.pc = "scanning", !.rec = r]]
        /\ UNCHANGED <<jobs, stale, restarts>>
    BY <1>6 DEF Start
  <2>5. [hold[w] EXCEPT !.pc = "scanning", !.rec = r] \in Hold
    BY <2>2, HoldFields
  <2>6. \A x \in Worker : hold'[x] = IF x = w THEN [hold[w] EXCEPT !.pc = "scanning", !.rec = r]
                                     ELSE hold[x]
    BY <2>4
  <2>7. \A x \in Worker : /\ hold'[x].pc # "idle" => hold'[x].job \in Sub
                          /\ hold'[x].pc \in {"scanning", "judged"} => hold'[x].rec \in Sub
    BY <2>1, <2>2, <2>6 DEF Hold
  <2>. HIDE DEF s, v, r, rec
  <2>. QED
    BY <2>1, <2>2, <2>3, <2>4, <2>5, <2>7
<1>7. ASSUME NEW w \in Worker, Verdict(w) PROVE TypeOK'
  <2>. DEFINE r == hold[w].rec
  <2>1. r \in Sub
    BY <1>7 DEF Verdict
  <2>2. PICK outcome \in {"passed", "failed", "scan_failed"} :
          recs' = [recs EXCEPT ![r] = Promoted(recs[r], outcome)]
    BY <1>7 DEF Verdict, Outcomes
  <2>3. Promoted(recs[r], outcome) \in Rec
    BY <2>1, RecFields
  <2>4. hold' = [hold EXCEPT ![w] = [hold[w] EXCEPT !.pc = "judged"]]
    BY <1>7 DEF Verdict
  <2>5. [hold[w] EXCEPT !.pc = "judged"] \in Hold
    BY HoldFields, <2>1
  <2>6. \A x \in Worker : hold'[x].job = hold[x].job /\ hold'[x].rec = hold[x].rec
                          /\ (x # w => hold'[x] = hold[x])
    BY <2>4 DEF Hold
  <2>7. hold[w].job \in Sub
    BY <1>7 DEF Verdict
  <2>. QED
    BY <1>7, <2>1, <2>2, <2>3, <2>4, <2>5, <2>6, <2>7 DEF Verdict
<1>8. ASSUME NEW w \in Worker, Complete(w) PROVE TypeOK'
  <2>. DEFINE s == hold[w].job
  <2>1. s \in Sub /\ jobs[s].status # "none"
    BY <1>8 DEF Complete, HoldInv
  <2>2. jobs' = [jobs EXCEPT ![s] = [jobs[s] EXCEPT !.status = "completed"]]
    BY <1>8 DEF Complete
  <2>3. [jobs[s] EXCEPT !.status = "completed"] \in Job
    BY <2>1, JobFields
  <2>4. \A t \in Sub : jobs'[t].version = jobs[t].version
                       /\ (jobs[t].status # "none" <=> jobs'[t].status # "none")
    BY <2>1, <2>2 DEF Job
  <2>. QED
    BY <1>8, <2>1, <2>2, <2>3, <2>4 DEF Complete
<1>9. ASSUME NEW w \in Worker, Raise(w) PROVE TypeOK'
  <2>. DEFINE s == hold[w].job
              status == IF Exhausted(s) THEN "dead" ELSE "queued"
  <2>1. s \in Sub /\ jobs[s].status # "none" /\ jobs[s].attempts < MaxAttempts
    BY <1>9 DEF Raise, AfterFailure, HoldInv, AttemptInv
  <2>2. jobs' = [jobs EXCEPT ![s] = [jobs[s] EXCEPT !.attempts = @ + 1, !.status = status]]
    BY <1>9 DEF Raise, AfterFailure
  <2>3. [jobs[s] EXCEPT !.attempts = @ + 1, !.status = status] \in Job
    BY <2>1, JobFields
  <2>4. \A t \in Sub : jobs'[t].version = jobs[t].version
                       /\ (jobs[t].status # "none" <=> jobs'[t].status # "none")
    BY <2>1, <2>2 DEF Job
  <2>5. recs' \in [Sub -> Rec]
    BY <1>9, <2>1, MarkedType DEF Raise, AfterFailure
  <2>6. hold' = [hold EXCEPT ![w] = Idle] /\ UNCHANGED <<versions, stale, restarts>>
    BY <1>9 DEF Raise, AfterFailure
  <2>. HIDE DEF s, status
  <2>. QED
    BY <2>1, <2>2, <2>3, <2>4, <2>5, <2>6
<1>10. ASSUME NEW w \in Worker, Heartbeat(w) PROVE TypeOK'
  <2>. DEFINE s == hold[w].job
  <2>1. s \in Sub
    BY <1>10 DEF Heartbeat
  <2>2. jobs' = [jobs EXCEPT ![s] = [jobs[s] EXCEPT !.beat = "fresh"]]
    BY <1>10 DEF Heartbeat
  <2>3. [jobs[s] EXCEPT !.beat = "fresh"] \in Job
    BY <2>1, JobFields
  <2>4. \A t \in Sub : jobs'[t].status = jobs[t].status /\ jobs'[t].version = jobs[t].version
    BY <2>2 DEF Job
  <2>. QED
    BY <1>10, <2>1, <2>2, <2>3, <2>4 DEF Heartbeat
<1>11. CASE FindStale
  BY <1>11 DEF FindStale, StaleJobs
<1>12. CASE Restart
  <2>1. \A s \in Sub : [jobs[s] EXCEPT !.status = "lost"] \in Job
    BY JobFields
  <2>2. jobs' \in [Sub -> Job]
    BY <1>12, <2>1 DEF Restart
  <2>3. \A s \in Sub : jobs'[s].status # "none" => jobs[s].status # "none"
    BY <1>12 DEF Restart, Surviving
  <2>4. \A s \in Sub : jobs'[s].version = jobs[s].version
    BY <1>12 DEF Restart, Job
  <2>5. restarts' \in 0..MaxRestarts
    BY <1>12, ScanQueueAssumption DEF Restart
  <2>. QED
    BY <1>12, <2>2, <2>3, <2>4, <2>5 DEF Restart
<1>13. CASE UNCHANGED vars
  BY <1>13 DEF vars
<1>. QED
  BY <1>1, <1>2, <1>3, <1>4, <1>5, <1>6, <1>7, <1>8, <1>9, <1>10, <1>11, <1>12, <1>13
  DEF Next, WorkerStep

\* Attempts and claims.
LEMMA QueueStep == TypeInv /\ [Next]_vars => (AttemptInv /\ HoldInv)'
<1>. SUFFICES ASSUME TypeInv, [Next]_vars PROVE AttemptInv' /\ HoldInv'
  OBVIOUS
<1>. USE SubNat, ScanQueueAssumption
     DEF TypeInv, TypeOK, AttemptInv, HoldInv, AttemptLeft, OneWorkerPerJob, Queued, Job, Hold, Idle
<1>1. ASSUME NEW v \in Version, Register(v) PROVE AttemptInv' /\ HoldInv'
  BY <1>1 DEF Register, NoJob
<1>2. ASSUME NEW s \in Sub, Enqueue(s) PROVE AttemptInv' /\ HoldInv'
  BY <1>2 DEF Enqueue
<1>3. ASSUME NEW s \in Sub, FallSilent(s) PROVE AttemptInv' /\ HoldInv'
  BY <1>3 DEF FallSilent
<1>4. ASSUME NEW s \in Sub, Reap(s) PROVE AttemptInv' /\ HoldInv'
  BY <1>4 DEF Reap, Buried
<1>5. ASSUME NEW w \in Worker, Claim(w) PROVE AttemptInv' /\ HoldInv'
  <2>1. PICK s \in Queued :
          /\ jobs' = [jobs EXCEPT ![s].status = "processing", ![s].beat = "fresh"]
          /\ hold' = [hold EXCEPT ![w] = [pc |-> "claimed", job |-> s, rec |-> None]]
    BY <1>5 DEF Claim
  <2>2. \A x \in Worker : Busy(x) => hold[x].job # s
    OBVIOUS
  <2>3. AttemptInv'
    BY <2>1
  <2>4. \A x \in Worker \ {w} : hold'[x] = hold[x]
    BY <2>1
  <2>5. hold'[w].job = s /\ jobs'[s].status = "processing"
    BY <2>1
  <2>6. \A t \in Sub \ {s} : jobs'[t].status = jobs[t].status
    BY <2>1
  <2>7. ~Busy(w)
    BY <1>5 DEF Claim
  <2>8. \A x \in Worker : Busy(x)' => jobs'[hold'[x].job].status \in {"processing", "dead"}
    <3>1. ASSUME NEW x \in Worker \ {w}, Busy(x)
          PROVE  jobs'[hold[x].job].status \in {"processing", "dead"}
      <4>1. hold[x].job \in Sub \ {s} /\ jobs[hold[x].job].status \in {"processing", "dead"}
        BY <3>1, <2>2
      <4>. QED
        BY <4>1, <2>6
    <3>. QED
      BY <3>1, <2>4, <2>5
  <2>9. OneWorkerPerJob'
    BY <2>2, <2>4, <2>5, <2>7
  <2>10. \A x \in Worker : Busy(x)' \/ hold'[x] = Idle
    BY <2>1, <2>4
  <2>. QED
    BY <2>3, <2>8, <2>9, <2>10
<1>6. ASSUME NEW w \in Worker, Start(w) PROVE AttemptInv' /\ HoldInv'
  <2>1. UNCHANGED jobs /\ hold[w].pc = "claimed"
    BY <1>6 DEF Start
  <2>2. \A x \in Worker : hold'[x].job = hold[x].job /\ (Busy(x)' <=> Busy(x))
    BY <1>6 DEF Start
  <2>3. AttemptInv'
    BY <2>1, <2>2
  <2>4. \A x \in Worker : Busy(x)' => jobs'[hold'[x].job].status \in {"processing", "dead"}
    BY <2>1, <2>2
  <2>5. OneWorkerPerJob'
    BY <2>2
  <2>6. \A x \in Worker : Busy(x)' \/ hold'[x] = Idle
    BY <1>6 DEF Start
  <2>. QED
    BY <2>3, <2>4, <2>5, <2>6
<1>7. ASSUME NEW w \in Worker, Verdict(w) PROVE AttemptInv' /\ HoldInv'
  BY <1>7 DEF Verdict
<1>8. ASSUME NEW w \in Worker, Complete(w) PROVE AttemptInv' /\ HoldInv'
  BY <1>8 DEF Complete, Idle
<1>9. ASSUME NEW w \in Worker, Raise(w) PROVE AttemptInv' /\ HoldInv'
  BY <1>9 DEF Raise, AfterFailure, Idle, Exhausted
<1>10. ASSUME NEW w \in Worker, Heartbeat(w) PROVE AttemptInv' /\ HoldInv'
  BY <1>10 DEF Heartbeat
<1>11. CASE FindStale
  BY <1>11 DEF FindStale
<1>12. CASE Restart
  BY <1>12 DEF Restart, Surviving, Idle
<1>13. CASE UNCHANGED vars
  BY <1>13 DEF vars
<1>. QED
  BY <1>1, <1>2, <1>3, <1>4, <1>5, <1>6, <1>7, <1>8, <1>9, <1>10, <1>11, <1>12, <1>13
  DEF Next, WorkerStep

\* The table scan_jobs, the records and the workers keep their types.
THEOREM TypeCorrect == Spec => []TypeOK
<1>1. TypeInv /\ [Next]_vars => TypeInv'
  BY TypeStep, QueueStep DEF TypeInv
<1>. QED
  BY InitTypeInv, <1>1, PTL DEF Spec, TypeInv

\* No two workers are ever at the same job, although a reaped job's worker may
\* still run and put it back into the queue.
THEOREM OneWorkerPerJobHolds == Spec => []OneWorkerPerJob
<1>1. TypeInv /\ [Next]_vars => TypeInv'
  BY TypeStep, QueueStep DEF TypeInv
<1>2. TypeInv => OneWorkerPerJob
  BY DEF TypeInv, HoldInv
<1>. QED
  BY InitTypeInv, <1>1, <1>2, PTL DEF Spec

\* A job in the queue has an attempt left, so retries end.
THEOREM AttemptLeftHolds == Spec => []AttemptLeft
<1>1. TypeInv /\ [Next]_vars => TypeInv'
  BY TypeStep, QueueStep DEF TypeInv
<1>2. TypeInv => AttemptLeft
  BY DEF TypeInv, AttemptInv
<1>. QED
  BY InitTypeInv, <1>1, <1>2, PTL DEF Spec

-----------------------------------------------------------------------------
(* What a worker writes belongs to the version of its job.                  *)

\* Only the registration of a submission gives it a version.
SameVersions ==
  \A t \in Sub : /\ jobs'[t].version = jobs[t].version
                 /\ jobs'[t].status = "none" <=> jobs[t].status = "none"

LEMMA VersionsKept ==
  ASSUME TypeInv, [Next]_vars
  PROVE  SameVersions \/ \E v \in Version : Register(v)
<1>. USE DEF TypeInv, TypeOK, SameVersions, Job
<1>1. ASSUME NEW s \in Sub, Enqueue(s) PROVE SameVersions
  BY <1>1 DEF Enqueue
<1>2. ASSUME NEW s \in Sub, FallSilent(s) PROVE SameVersions
  BY <1>2 DEF FallSilent
<1>3. ASSUME NEW s \in Sub, Reap(s) PROVE SameVersions
  BY <1>3 DEF Reap, Buried
<1>4. ASSUME NEW w \in Worker, Claim(w) PROVE SameVersions
  BY <1>4 DEF Claim, Queued
<1>5. ASSUME NEW w \in Worker, Complete(w) PROVE SameVersions
  BY <1>5 DEF Complete, HoldInv
<1>6. ASSUME NEW w \in Worker, Raise(w) PROVE SameVersions
  BY <1>6 DEF Raise, AfterFailure, HoldInv
<1>7. ASSUME NEW w \in Worker, Heartbeat(w) PROVE SameVersions
  BY <1>7 DEF Heartbeat
<1>8. CASE Restart
  BY <1>8 DEF Restart, Surviving
<1>9. ASSUME UNCHANGED jobs PROVE SameVersions
  BY <1>9
<1>. QED
  BY <1>1, <1>2, <1>3, <1>4, <1>5, <1>6, <1>7, <1>8, <1>9
  DEF Next, WorkerStep, Start, Verdict, FindStale, vars

\* Where the record of a version, or of a worker, can be found.
LEMMA RecordOf ==
  ASSUME TypeInv, RecordInv
  PROVE  /\ \A s \in Sub : jobs[s].version \in Version <=> jobs[s].status # "none"
         /\ \A v \in Version : versions[v] # None =>
              /\ versions[v] \in Sub /\ jobs[versions[v]].version = v
              /\ jobs[versions[v]].status # "none"
         /\ \A w \in Worker : Busy(w) =>
              hold[w].job \in Sub /\ jobs[hold[w].job].version \in Version
         /\ \A w \in Worker : hold[w].pc \in {"scanning", "judged"} =>
              hold[w].rec \in Sub /\ jobs[hold[w].rec].status # "none"
BY ScanQueueAssumption DEF TypeInv, TypeOK, HoldInv, RecordInv

\* A step that marks the record of a submitted job touches no other.
LEMMA MarkedOnly ==
  ASSUME TypeInv, RecordInv, NEW s \in Sub, jobs[s].status # "none", NEW status
  PROVE  \A t \in Sub :
           \/ Marked(s, status)[t] = recs[t]
           \/ /\ jobs[t].status # "none"
              /\ Marked(s, status)[t].storage = recs[t].storage
              /\ Marked(s, status)[t].status = status
<1>. DEFINE r == versions[jobs[s].version]
<1>1. jobs[s].version \in Version
  BY RecordOf
<1>2. CASE r = None
  BY <1>2 DEF Marked
<1>3. CASE r # None
  <2>1. r \in Sub /\ jobs[r].status # "none"
    BY <1>1, <1>3, RecordOf
  <2>2. Marked(s, status) = [recs EXCEPT ![r].status = status]
    BY <1>3 DEF Marked
  <2>. QED
    BY <2>1, <2>2 DEF TypeInv, TypeOK, Rec
<1>. QED
  BY <1>2, <1>3

\* What a step may do to the records: it writes a final or intermediate status
\* to one, and promotes it only with a verdict of passed on a job of its version.
RecordStep ==
  \A t \in Sub :
    \/ recs'[t] = recs[t]
    \/ recs'[t] = NoRec
    \/ /\ jobs[t].status # "none"
       /\ recs'[t].storage \in {recs[t].storage, "pending"} /\ recs'[t].status # "passed"
    \/ /\ jobs[t].status # "none"
       /\ \E c \in Sub \cap Clean : jobs[c].version = jobs[t].version

LEMMA RecordSteps ==
  ASSUME TypeInv, RecordInv, [Next]_vars, ~(\E v \in Version : Register(v))
  PROVE  RecordStep
<1>. USE DEF RecordStep
<1>1. ASSUME UNCHANGED recs PROVE RecordStep
  BY <1>1
<1>2. ASSUME NEW s \in Sub, Reap(s) PROVE RecordStep
  <2>1. jobs[s].status # "none"
    BY <1>2 DEF Reap, TypeInv, TypeOK
  <2>2. recs' = Marked(s, "scan_failed")
    BY <1>2 DEF Reap
  <2>3. \A t \in Sub :
          \/ recs'[t] = recs[t]
          \/ /\ jobs[t].status # "none"
             /\ recs'[t].storage = recs[t].storage /\ recs'[t].status = "scan_failed"
    BY <2>1, <2>2, MarkedOnly
  <2>. QED
    BY <2>3
<1>3. ASSUME NEW w \in Worker, Raise(w) PROVE RecordStep
  <2>. DEFINE s == hold[w].job
  <2>1. s \in Sub /\ jobs[s].status # "none"
    BY <1>3, RecordOf DEF Raise, AfterFailure, TypeInv, HoldInv
  <2>2. recs' = recs \/ recs' = Marked(s, "scan_failed")
    BY <1>3 DEF Raise, AfterFailure
  <2>3. \A t \in Sub :
          \/ recs'[t] = recs[t]
          \/ /\ jobs[t].status # "none"
             /\ recs'[t].storage = recs[t].storage /\ recs'[t].status = "scan_failed"
    BY <2>1, <2>2, MarkedOnly
  <2>. QED
    BY <2>3
<1>4. ASSUME NEW w \in Worker, Start(w) PROVE RecordStep
  <2>. DEFINE s == hold[w].job
              v == jobs[s].version
              r == IF versions[v] = None THEN s ELSE versions[v]
              rec == IF versions[v] = None THEN NewRec("scanning")
                     ELSE [recs[r] EXCEPT !.status = "scanning"]
  <2>1. Busy(w) /\ s \in Sub /\ v \in Version
    BY <1>4, RecordOf DEF Start
  <2>2. r \in Sub /\ jobs[r].status # "none"
    BY <2>1, RecordOf
  <2>3. recs' = [recs EXCEPT ![r] = rec]
    BY <1>4 DEF Start
  <2>4. rec.storage \in {recs[r].storage, "pending"} /\ rec.status # "passed"
    BY <2>2 DEF NewRec, TypeInv, TypeOK, Rec
  <2>. HIDE DEF s, v, r, rec
  <2>. QED
    BY <2>2, <2>3, <2>4 DEF TypeInv, TypeOK
<1>5. ASSUME NEW w \in Worker, Verdict(w) PROVE RecordStep
  <2>. DEFINE s == hold[w].job
              r == hold[w].rec
  <2>1. /\ s \in Sub /\ r \in Sub /\ jobs[r].status # "none"
        /\ jobs[r].version = jobs[s].version
    BY <1>5, RecordOf DEF Verdict, RecordInv
  <2>2. PICK outcome \in Outcomes(s) : recs' = [recs EXCEPT ![r] = Promoted(recs[r], outcome)]
    BY <1>5 DEF Verdict
  <2>3. CASE s \in Clean
    BY <2>1, <2>2, <2>3 DEF TypeInv, TypeOK
  <2>4. CASE s \notin Clean
    <3>1. outcome \in {"failed", "scan_failed"}
      BY <2>4 DEF Outcomes
    <3>. QED
      BY <2>1, <2>2, <3>1 DEF Promoted, TypeInv, TypeOK
  <2>. QED
    BY <2>3, <2>4
<1>6. CASE Restart
  BY <1>6 DEF Restart
<1>. QED
  BY <1>1, <1>2, <1>3, <1>4, <1>5, <1>6
  DEF Next, WorkerStep, Enqueue, FallSilent, Claim, Complete, Heartbeat, FindStale, vars

LEMMA RecordInvStep ==
  ASSUME TypeInv, RecordInv, [Next]_vars
  PROVE  RecordInv'
<1>. USE DEF RecordInv
<1>1. ASSUME NEW v \in Version, Register(v) PROVE RecordInv'
  <2>1. PICK s \in Sub :
          /\ jobs[s].status = "none"
          /\ jobs' = [jobs EXCEPT ![s] = [NoJob EXCEPT !.status = "registered", !.version = v]]
          /\ recs' = [recs EXCEPT ![s] = NewRec("pending_scan")]
          /\ versions' = [versions EXCEPT ![v] = s]
          /\ hold' = hold
    BY <1>1 DEF Register
  <2>2. jobs'[s].status = "registered" /\ jobs'[s].version = v
    BY <2>1 DEF NoJob, TypeInv, TypeOK
  <2>3. \A t \in Sub \ {s} : jobs'[t] = jobs[t] /\ recs'[t] = recs[t]
    BY <2>1 DEF TypeInv, TypeOK
  <2>4. \A t \in Sub : jobs'[t].status = "none" => jobs'[t].version = None /\ recs'[t] = NoRec
    BY <2>2, <2>3
  <2>5. \A u \in Version : versions'[u] # None => jobs'[versions'[u]].version = u
    BY <2>1, <2>2, <2>3, RecordOf DEF TypeInv, TypeOK
  <2>6. \A w \in Worker : hold[w].pc \in {"scanning", "judged"}
          => hold[w].rec \in Sub \ {s} /\ hold[w].job \in Sub \ {s}
    BY <2>1, RecordOf
  <2>7. \A w \in Worker : hold[w].pc \in {"scanning", "judged"}
          => jobs'[hold[w].rec].version = jobs'[hold[w].job].version
    BY <2>3, <2>6
  <2>. QED
    BY <2>1, <2>4, <2>5, <2>7
<1>2. CASE ~(\E v \in Version : Register(v))
  <2>. USE <1>2, VersionsKept, RecordSteps DEF SameVersions
  <2>1. \A s \in Sub : jobs'[s].status = "none" => jobs'[s].version = None /\ recs'[s] = NoRec
    BY DEF RecordStep
  <2>2. \A v \in Version : versions'[v] # None => jobs'[versions'[v]].version = v
    <3>1. CASE UNCHANGED versions
      BY <3>1, RecordOf
    <3>2. ASSUME NEW w \in Worker, Start(w)
          PROVE  \A v \in Version : versions'[v] # None => jobs'[versions'[v]].version = v
      BY <3>2, RecordOf DEF Start, TypeInv, TypeOK
    <3>3. CASE Restart
      BY <3>3 DEF Restart
    <3>. QED
      BY <3>1, <3>2, <3>3
      DEF Next, WorkerStep, Enqueue, FallSilent, Reap, Claim, Verdict, Complete, Raise, AfterFailure,
          Heartbeat, FindStale, vars
  <2>3. \A w \in Worker : hold'[w].pc \in {"scanning", "judged"}
          => jobs'[hold'[w].rec].version = jobs'[hold'[w].job].version
    <3>1. ASSUME NEW x \in Worker, hold'[x] = hold[x], hold[x].pc \in {"scanning", "judged"}
          PROVE  jobs'[hold'[x].rec].version = jobs'[hold'[x].job].version
      BY <3>1, RecordOf
    <3>2. ASSUME NEW w \in Worker, Start(w)
          PROVE  /\ \A x \in Worker \ {w} : hold'[x] = hold[x]
                 /\ jobs'[hold'[w].rec].version = jobs'[hold'[w].job].version
      <4>. DEFINE s == hold[w].job
                  v == jobs[s].version
                  r == IF versions[v] = None THEN s ELSE versions[v]
      <4>1. Busy(w) /\ s \in Sub /\ v \in Version
        BY <3>2, RecordOf DEF Start
      <4>2. r \in Sub /\ jobs[r].version = v
        BY <4>1, RecordOf
      <4>3. hold' = [hold EXCEPT ![w].pc = "scanning", ![w].rec = r]
        BY <3>2 DEF Start
      <4>4. hold'[w].rec = r /\ hold'[w].job = s
        BY <4>3 DEF TypeInv, TypeOK, Hold
      <4>5. \A x \in Worker \ {w} : hold'[x] = hold[x]
        BY <4>3 DEF TypeInv, TypeOK
      <4>. QED
        BY <4>1, <4>2, <4>4, <4>5
    <3>3. ASSUME NEW w \in Worker, Verdict(w)
          PROVE  /\ \A x \in Worker \ {w} : hold'[x] = hold[x]
                 /\ jobs'[hold'[w].rec].version = jobs'[hold'[w].job].version
      <4>1. hold' = [hold EXCEPT ![w].pc = "judged"] /\ hold[w].pc = "scanning"
        BY <3>3 DEF Verdict
      <4>2. hold'[w].rec = hold[w].rec /\ hold'[w].job = hold[w].job
        BY <4>1 DEF TypeInv, TypeOK, Hold
      <4>. QED
        BY <4>1, <4>2, RecordOf DEF TypeInv, TypeOK
    <3>4. ASSUME NEW w \in Worker, Claim(w) \/ Complete(w) \/ Raise(w)
          PROVE  /\ \A x \in Worker \ {w} : hold'[x] = hold[x]
                 /\ hold'[w].pc \notin {"scanning", "judged"}
      <4>1. CASE Claim(w)
        <5>1. PICK s \in Queued :
                hold' = [hold EXCEPT ![w] = [pc |-> "claimed", job |-> s, rec |-> None]]
          BY <4>1 DEF Claim
        <5>. QED
          BY <5>1 DEF TypeInv, TypeOK
      <4>2. CASE Complete(w)
        BY <4>2 DEF Complete, Idle, TypeInv, TypeOK
      <4>3. CASE Raise(w)
        <5>1. hold' = [hold EXCEPT ![w] = Idle]
          BY <4>3 DEF Raise, AfterFailure
        <5>. QED
          BY <5>1 DEF Idle, TypeInv, TypeOK
      <4>. QED
        BY <3>4, <4>1, <4>2, <4>3
    <3>5. CASE Restart
      BY <3>5 DEF Restart, Idle
    <3>6. CASE UNCHANGED hold
      BY <3>1, <3>6
    <3>. QED
      BY <3>1, <3>2, <3>3, <3>4, <3>5, <3>6
      DEF Next, WorkerStep, Enqueue, FallSilent, Reap, Heartbeat, FindStale, vars
  <2>. QED
    BY <2>1, <2>2, <2>3
<1>. QED
  BY <1>1, <1>2

LEMMA PassedInvStep ==
  ASSUME TypeInv, RecordInv, PassedInv, [Next]_vars
  PROVE  PassedInv'
<1>1. ASSUME NEW v \in Version, Register(v), NEW t \in Sub
      PROVE  Good(t)' \/ \E c \in Sub \cap Clean : jobs'[c].version = jobs'[t].version
  <2>1. PICK s \in Sub :
          /\ jobs[s].status = "none"
          /\ jobs' = [jobs EXCEPT ![s] = [NoJob EXCEPT !.status = "registered", !.version = v]]
          /\ recs' = [recs EXCEPT ![s] = NewRec("pending_scan")]
    BY <1>1 DEF Register
  <2>2. CASE t = s
    BY <2>1, <2>2 DEF Good, NewRec, TypeInv, TypeOK
  <2>3. CASE t # s
    <3>1. recs'[t] = recs[t] /\ jobs'[t] = jobs[t]
      BY <2>1, <2>3 DEF TypeInv, TypeOK
    <3>2. CASE Good(t)
      BY <3>1, <3>2 DEF Good
    <3>3. CASE ~Good(t)
      <4>1. PICK c \in Sub \cap Clean : jobs[c].version = jobs[t].version
        BY <3>3 DEF PassedInv
      <4>2. jobs[t].status # "none"
        BY <3>3 DEF Good, RecordInv, NoRec
      <4>3. c # s
        BY <2>1, <4>1, <4>2, RecordOf
      <4>4. jobs'[c] = jobs[c]
        BY <2>1, <4>3 DEF TypeInv, TypeOK
      <4>. QED
        BY <3>1, <4>1, <4>4
    <3>. QED
      BY <3>2, <3>3
  <2>. QED
    BY <2>2, <2>3
<1>2. ASSUME ~(\E v \in Version : Register(v)), NEW t \in Sub
      PROVE  Good(t)' \/ \E c \in Sub \cap Clean : jobs'[c].version = jobs'[t].version
  <2>1. SameVersions /\ RecordStep
    BY <1>2, VersionsKept, RecordSteps
  <2>2. ASSUME NEW c \in Sub \cap Clean, jobs[c].version = jobs[t].version
        PROVE  \E d \in Sub \cap Clean : jobs'[d].version = jobs'[t].version
    BY <2>1, <2>2 DEF SameVersions
  <2>3. CASE recs'[t] = recs[t]
    BY <2>2, <2>3 DEF PassedInv, Good
  <2>4. CASE recs'[t] = NoRec
    BY <2>4 DEF Good, NoRec
  <2>5. CASE recs'[t].storage \in {recs[t].storage, "pending"} /\ recs'[t].status # "passed"
    BY <2>2, <2>5 DEF PassedInv, Good
  <2>6. CASE \E c \in Sub \cap Clean : jobs[c].version = jobs[t].version
    BY <2>2, <2>6
  <2>. QED
    BY <2>1, <2>3, <2>4, <2>5, <2>6 DEF RecordStep
<1>. QED
  BY <1>1, <1>2 DEF PassedInv

\* Of a version with one submission, only that submission can have passed.
LEMMA SoleSubmission ==
  ASSUME NEW v \in Version, NEW s \in SubsOf(v), NEW c \in SubsOf(v),
         Cardinality(SubsOf(v)) <= 1
  PROVE  c = s
<1>. DEFINE pair == {s, c}
<1>1. IsFiniteSet(SubsOf(v))
  BY SubNat, FS_Subset DEF SubsOf
<1>2. IsFiniteSet(pair) /\ Cardinality(pair) <= Cardinality(SubsOf(v))
  <2>. pair \subseteq SubsOf(v)
    OBVIOUS
  <2>. QED
    BY <1>1, FS_Subset
<1>3. SUFFICES ASSUME c # s PROVE FALSE
  OBVIOUS
<1>4. Cardinality({s}) = 1 /\ IsFiniteSet({s})
  BY FS_Singleton
<1>5. Cardinality({s} \cup {c}) = 2
  BY <1>3, <1>4, FS_AddElement
<1>6. pair = {s} \cup {c}
  OBVIOUS
<1>. QED
  BY <1>1, <1>2, <1>5, <1>6, FS_CardinalityType

\* A package that the scanners reject is neither reported as passed nor
\* promoted, if its version was submitted once: neither retries, reaps and
\* restarts nor the jobs of other versions can do that.
THEOREM VettedOnceHolds == Spec => []VettedOnce
<1>. DEFINE Inv == TypeInv /\ RecordInv /\ PassedInv
<1>1. Init => Inv
  BY InitTypeInv DEF Init, RecordInv, PassedInv, Good, NoJob, NoRec, Idle
<1>2. Inv /\ [Next]_vars => Inv'
  <2>. SUFFICES ASSUME Inv, [Next]_vars PROVE TypeInv' /\ RecordInv' /\ PassedInv'
    OBVIOUS
  <2>1. TypeInv'
    BY TypeStep, QueueStep DEF TypeInv
  <2>. QED
    BY <2>1, RecordInvStep, PassedInvStep
<1>3. Inv => VettedOnce
  <2>. SUFFICES ASSUME Inv, NEW v \in Version, Cardinality(SubsOf(v)) <= 1,
                       versions[v] # None, versions[v] \notin Clean
                PROVE  Good(versions[v])
    BY DEF VettedOnce, Vetted, Good
  <2>. DEFINE s == versions[v]
  <2>1. s \in Sub /\ jobs[s].version = v
    BY RecordOf
  <2>2. ASSUME NEW c \in Sub \cap Clean, jobs[c].version = jobs[s].version PROVE FALSE
    <3>1. s \in SubsOf(v) /\ c \in SubsOf(v)
      BY <2>1, <2>2 DEF SubsOf
    <3>2. c = s
      BY <3>1, SoleSubmission
    <3>. QED
      BY <3>2, <2>2
  <2>. QED
    BY <2>1, <2>2 DEF PassedInv
<1>. QED
  BY <1>1, <1>2, <1>3, PTL DEF Spec

-----------------------------------------------------------------------------
(* A record is pending or scanning only while a job of its version waits for *)
(* a worker, or has one that will yet store a verdict in it, or when its own *)
(* job could not be queued.                                                  *)

Final == {"passed", "failed", "scan_failed"}
Waiting(s) == jobs[s].status \in {"registered", "queued"} /\ ~Held(s)
AtWork(w, v) ==
  /\ Busy(w) /\ jobs[hold[w].job].version = v
  /\ hold[w].pc = "claimed" \/ (hold[w].pc = "scanning" /\ hold[w].rec = versions[v])
Awaited(v) == (\E s \in SubsOf(v) : Waiting(s)) \/ (\E w \in Worker : AtWork(w, v))
Settled(v) == versions[v] = None \/ recs[versions[v]].status \in Final
Refused(v) == versions[v] # None /\ jobs[versions[v]].status = "refused"
LimboInv == \A v \in Version : Settled(v) \/ Awaited(v) \/ Refused(v)

\* The gateway queues one job at a time, that of the newest record, and the
\* reaper knows of no job that was not queued.
EnqueueInv ==
  /\ \A s \in Sub : jobs[s].status = "registered" => versions[jobs[s].version] = s
  /\ \A s \in stale : jobs[s].status \notin {"registered", "refused"}

LEMMA EnqueueStep ==
  ASSUME TypeInv, RecordInv, EnqueueInv, [Next]_vars
  PROVE  EnqueueInv'
<1>. USE DEF TypeInv, TypeOK, EnqueueInv, Job
<1>1. ASSUME NEW u \in Version, Register(u) PROVE EnqueueInv'
  <2>1. PICK s \in Sub :
          /\ jobs[s].status = "none"
          /\ jobs' = [jobs EXCEPT ![s] = [NoJob EXCEPT !.status = "registered", !.version = u]]
          /\ versions' = [versions EXCEPT ![u] = s]
          /\ stale' = stale
    BY <1>1 DEF Register
  <2>2. jobs'[s].status = "registered" /\ jobs'[s].version = u /\ versions'[u] = s
    BY <2>1 DEF NoJob
  <2>3. \A t \in Sub \ {s} : jobs'[t] = jobs[t] /\ jobs[t].status # "registered"
    BY <1>1, <2>1 DEF Register
  <2>. QED
    BY <2>1, <2>2, <2>3
<1>2. ASSUME NEW s \in Sub, Enqueue(s) \/ FallSilent(s) PROVE EnqueueInv'
  BY <1>2 DEF Enqueue, FallSilent
<1>3. ASSUME NEW s \in Sub, Reap(s) PROVE EnqueueInv'
  BY <1>3 DEF Reap, Buried
<1>4. ASSUME NEW w \in Worker, Claim(w) PROVE EnqueueInv'
  BY <1>4 DEF Claim, Queued
<1>5. ASSUME NEW w \in Worker, Start(w) PROVE EnqueueInv'
  <2>1. PICK v \in Version : v = jobs[hold[w].job].version
    BY <1>5, RecordOf DEF Start
  <2>2. versions' = versions \/ (versions[v] = None /\ \A u \in Version \ {v} : versions'[u] = versions[u])
    BY <1>5, <2>1 DEF Start
  <2>3. ASSUME NEW s \in Sub, jobs[s].status = "registered" PROVE versions'[jobs[s].version] = s
    <3>1. jobs[s].version \in Version /\ versions[jobs[s].version] = s /\ s # None
      BY <2>3, ScanQueueAssumption
    <3>. QED
      BY <2>2, <3>1
  <2>. QED
    BY <1>5, <2>3 DEF Start
<1>6. ASSUME NEW w \in Worker, Complete(w) PROVE EnqueueInv'
  BY <1>6 DEF Complete
<1>7. ASSUME NEW w \in Worker, Raise(w) PROVE EnqueueInv'
  BY <1>7 DEF Raise, AfterFailure
<1>8. ASSUME NEW w \in Worker, Verdict(w) \/ Heartbeat(w) PROVE EnqueueInv'
  BY <1>8 DEF Verdict, Heartbeat
<1>9. CASE FindStale
  BY <1>9 DEF FindStale, StaleJobs
<1>10. CASE Restart
  BY <1>10 DEF Restart, Surviving
<1>11. CASE UNCHANGED vars
  BY <1>11 DEF vars
<1>. QED
  BY <1>1, <1>2, <1>3, <1>4, <1>5, <1>6, <1>7, <1>8, <1>9, <1>10, <1>11 DEF Next, WorkerStep

\* A job that was not queued stays so, and its record in its place, until the
\* version is submitted anew or the process ends.
LEMMA RefusedKept ==
  ASSUME TypeInv, RecordInv, EnqueueInv, [Next]_vars, NEW v \in Version, Refused(v)
  PROVE  Refused(v)' \/ versions'[v] = None \/ \E u \in Version : Register(u)
<1>. USE DEF TypeInv, TypeOK, EnqueueInv, Job, Refused, HoldInv
<1>0. versions[v] \in Sub
  BY RecordOf
<1>1. ASSUME NEW s \in Sub, Enqueue(s) \/ FallSilent(s) \/ Reap(s) PROVE Refused(v)'
  BY <1>0, <1>1 DEF Enqueue, FallSilent, Reap, Buried
<1>2. ASSUME NEW w \in Worker, Claim(w) PROVE Refused(v)'
  BY <1>0, <1>2 DEF Claim, Queued
<1>3. ASSUME NEW w \in Worker, Start(w) PROVE Refused(v)'
  <2>1. PICK u \in Version : u = jobs[hold[w].job].version
    BY <1>3, RecordOf DEF Start
  <2>2. versions' = versions \/ (versions[u] = None /\ \A t \in Version \ {u} : versions'[t] = versions[t])
    BY <1>3, <2>1 DEF Start
  <2>. QED
    BY <1>3, <2>2 DEF Start
<1>4. ASSUME NEW w \in Worker, Complete(w) \/ Raise(w) PROVE Refused(v)'
  <2>1. hold[w].job \in Sub \ {versions[v]}
    BY <1>4 DEF Complete, Raise
  <2>2. jobs'[versions[v]] = jobs[versions[v]] /\ UNCHANGED versions
    BY <1>0, <1>4, <2>1 DEF Complete, Raise
  <2>. QED
    BY <1>0, <2>2
<1>5. ASSUME NEW w \in Worker, Verdict(w) \/ Heartbeat(w) PROVE Refused(v)'
  BY <1>0, <1>5 DEF Verdict, Heartbeat
<1>6. CASE FindStale \/ UNCHANGED vars
  BY <1>6 DEF FindStale, vars
<1>7. CASE Restart
  BY <1>7 DEF Restart
<1>. QED
  BY <1>1, <1>2, <1>3, <1>4, <1>5, <1>6, <1>7 DEF Next, WorkerStep

\* A step that leaves the workers and the records alone and ends no job.
LEMMA AwaitedKept ==
  ASSUME TypeInv, RecordInv, SameVersions, UNCHANGED <<hold, versions>>, NEW v \in Version, Awaited(v),
         \A s \in Sub : jobs[s].status \in {"registered", "queued"}
                          => jobs'[s].status \in {"registered", "queued"}
  PROVE  Awaited(v)'
<1>1. ASSUME NEW s \in SubsOf(v), Waiting(s) PROVE s \in SubsOf(v)' /\ Waiting(s)'
  BY <1>1, RecordOf DEF SubsOf, Waiting, Held, SameVersions
<1>2. ASSUME NEW w \in Worker, AtWork(w, v) PROVE AtWork(w, v)'
  BY <1>2, RecordOf DEF AtWork, SameVersions
<1>. QED
  BY <1>1, <1>2 DEF Awaited

\* What a step of one worker does to what the others and their jobs stand for.
LEMMA OthersAwait ==
  ASSUME TypeInv, RecordInv, SameVersions, NEW w \in Worker, Busy(w),
         \A x \in Worker \ {w} : hold'[x] = hold[x],
         \A s \in Sub \ {hold[w].job} : jobs'[s].status = jobs[s].status,
         hold'[w] = Idle \/ hold'[w].job = hold[w].job,
         NEW v \in Version, versions'[v] = versions[v]
  PROVE  Awaited(v) => AtWork(w, v) \/ Awaited(v)'
<1>1. ASSUME NEW s \in SubsOf(v), Waiting(s) PROVE s \in SubsOf(v)' /\ Waiting(s)'
  <2>1. s \in Sub \ {hold[w].job} /\ jobs[s].version = v
    BY <1>1 DEF SubsOf, Waiting, Held
  <2>2. jobs'[s].version = v
    BY <2>1, RecordOf DEF SameVersions
  <2>3. ~Held(s)'
    BY <1>1, <2>1, ScanQueueAssumption DEF Waiting, Held, Idle
  <2>. QED
    BY <1>1, <2>1, <2>2, <2>3 DEF SubsOf, Waiting
<1>2. ASSUME NEW x \in Worker \ {w}, AtWork(x, v) PROVE AtWork(x, v)'
  BY <1>2, RecordOf DEF AtWork, SameVersions
<1>. QED
  BY <1>1, <1>2 DEF Awaited

\* A job that fails for good fails the record under its key.
LEMMA MarkedSettles ==
  ASSUME TypeInv, RecordInv, NEW s \in Sub, jobs[s].status # "none",
         recs' = Marked(s, "scan_failed"), UNCHANGED versions
  PROVE  \A v \in Version : v = jobs[s].version \/ Settled(v) => Settled(v)'
<1>. DEFINE u == jobs[s].version
<1>1. u \in Version
  BY RecordOf
<1>2. CASE versions[u] = None
  BY <1>2 DEF Marked, Settled
<1>3. CASE versions[u] # None
  <2>1. versions[u] \in Sub
    BY <1>1, <1>3, RecordOf
  <2>2. recs' = [recs EXCEPT ![versions[u]].status = "scan_failed"]
    BY <1>3 DEF Marked
  <2>3. recs'[versions[u]].status = "scan_failed"
    BY <2>1, <2>2 DEF TypeInv, TypeOK, Rec
  <2>4. \A t \in Sub \ {versions[u]} : recs'[t] = recs[t]
    BY <2>2 DEF TypeInv, TypeOK
  <2>. QED
    BY <2>1, <2>3, <2>4, RecordOf DEF Settled, Final
<1>. QED
  BY <1>2, <1>3

LEMMA LimboStep ==
  ASSUME TypeInv, RecordInv, EnqueueInv, LimboInv, [Next]_vars, NEW v \in Version
  PROVE  Settled(v)' \/ Awaited(v)' \/ Refused(v)'
<1>. USE DEF TypeInv, TypeOK
<1>1. ASSUME NEW u \in Version, Register(u) PROVE Settled(v)' \/ Awaited(v)' \/ Refused(v)'
  <2>1. PICK s \in Sub :
          /\ jobs[s].status = "none"
          /\ jobs' = [jobs EXCEPT ![s] = [NoJob EXCEPT !.status = "registered", !.version = u]]
          /\ recs' = [recs EXCEPT ![s] = NewRec("pending_scan")]
          /\ versions' = [versions EXCEPT ![u] = s]
          /\ hold' = hold
    BY <1>1 DEF Register
  <2>2. jobs'[s].status = "registered" /\ jobs'[s].version = u
    BY <2>1 DEF NoJob
  <2>3. \A t \in Sub \ {s} : jobs'[t] = jobs[t] /\ recs'[t] = recs[t]
    BY <2>1
  <2>4. \A w \in Worker : Busy(w) => hold[w].job \in Sub \ {s}
    BY <2>1, RecordOf DEF HoldInv
  <2>5. CASE v = u
    <3>1. Waiting(s)'
      BY <2>1, <2>2, <2>4 DEF Waiting, Held
    <3>. QED
      BY <2>2, <2>5, <3>1 DEF Awaited, SubsOf
  <2>6. CASE v # u
    <3>1. versions'[v] = versions[v] /\ versions[v] # s
      BY <2>1, <2>6, RecordOf, ScanQueueAssumption
    <3>2. CASE Settled(v)
      BY <2>3, <3>1, <3>2 DEF Settled
    <3>3. ASSUME NEW t \in SubsOf(v), Waiting(t) PROVE t \in SubsOf(v)' /\ Waiting(t)'
      <4>1. t \in Sub \ {s}
        BY <2>1, <3>3, RecordOf DEF SubsOf
      <4>. QED
        BY <2>1, <2>3, <3>3, <4>1 DEF SubsOf, Waiting, Held
    <3>4. ASSUME NEW w \in Worker, AtWork(w, v) PROVE AtWork(w, v)'
      BY <2>1, <2>3, <2>4, <3>1, <3>4 DEF AtWork
    <3>5. CASE Refused(v)
      BY <2>1, <2>3, <3>1, <3>5, RecordOf DEF Refused
    <3>. QED
      BY <3>2, <3>3, <3>4, <3>5 DEF LimboInv, Awaited
  <2>. QED
    BY <2>5, <2>6
<1>2. CASE Refused(v) /\ ~\E u \in Version : Register(u)
  BY <1>2, RefusedKept DEF Settled
<1>3. CASE ~Refused(v) /\ ~\E u \in Version : Register(u)
  <2>. USE VersionsKept, <1>3
  <2>1. ASSUME UNCHANGED <<hold, versions, recs>>,
               \A s \in Sub : jobs[s].status \in {"registered", "queued"}
                                => jobs'[s].status \in {"registered", "queued"}
        PROVE  Settled(v)' \/ Awaited(v)' \/ Refused(v)'
    <3>1. Settled(v) => Settled(v)'
      BY <2>1 DEF Settled
    <3>2. Awaited(v) => Awaited(v)'
      BY <2>1, AwaitedKept
    <3>. QED
      BY <3>1, <3>2 DEF LimboInv
  <2>2. ASSUME NEW s \in Sub, Enqueue(s) \/ FallSilent(s)
        PROVE  Settled(v)' \/ Awaited(v)' \/ Refused(v)'
    <3>1. CASE \A t \in Sub : jobs[t].status \in {"registered", "queued"}
                               => jobs'[t].status \in {"registered", "queued"}
      BY <2>1, <2>2, <3>1 DEF Enqueue, FallSilent
    <3>2. CASE Enqueue(s) /\ jobs' = [jobs EXCEPT ![s].status = "refused"]
      <4>1. jobs[s].version \in Version /\ versions[jobs[s].version] = s /\ s # None
        BY <3>2, ScanQueueAssumption DEF Enqueue, EnqueueInv
      <4>2. UNCHANGED <<recs, versions, hold>> /\ jobs'[s].status = "refused"
            /\ \A t \in Sub \ {s} : jobs'[t] = jobs[t]
        BY <3>2 DEF Enqueue, Job
      <4>3. CASE v = jobs[s].version
        BY <4>1, <4>2, <4>3 DEF Refused
      <4>4. CASE v # jobs[s].version
        <5>1. Settled(v) => Settled(v)'
          BY <4>2 DEF Settled
        <5>2. ASSUME NEW t \in SubsOf(v), Waiting(t) PROVE t \in SubsOf(v)' /\ Waiting(t)'
          BY <4>2, <4>4, <5>2 DEF SubsOf, Waiting, Held
        <5>3. ASSUME NEW w \in Worker, AtWork(w, v) PROVE AtWork(w, v)'
          BY <4>2, <4>4, <5>3, RecordOf DEF AtWork
        <5>. QED
          BY <5>1, <5>2, <5>3 DEF LimboInv, Awaited
      <4>. QED
        BY <4>3, <4>4
    <3>. QED
      BY <2>2, <3>1, <3>2 DEF Enqueue, FallSilent, Job
  <2>3. ASSUME NEW w \in Worker, Heartbeat(w) PROVE Settled(v)' \/ Awaited(v)' \/ Refused(v)'
    <3>1. \A t \in Sub : jobs[t].status \in {"registered", "queued"}
                           => jobs'[t].status \in {"registered", "queued"}
      BY <2>3 DEF Heartbeat, Job
    <3>. QED
      BY <2>1, <2>3, <3>1 DEF Heartbeat
  <2>4. ASSUME NEW s \in Sub, Reap(s) PROVE Settled(v)' \/ Awaited(v)' \/ Refused(v)'
    <3>1. /\ jobs[s].status # "none" /\ recs' = Marked(s, "scan_failed")
          /\ UNCHANGED <<hold, versions>>
      BY <2>4 DEF Reap
    <3>2. CASE v = jobs[s].version \/ Settled(v)
      BY <3>1, <3>2, MarkedSettles
    <3>3. CASE v # jobs[s].version /\ Awaited(v)
      <4>1. \A t \in Sub \ {s} : jobs'[t] = jobs[t]
        BY <2>4 DEF Reap, Buried
      <4>2. ASSUME NEW t \in SubsOf(v), Waiting(t) PROVE t \in SubsOf(v)' /\ Waiting(t)'
        BY <3>1, <3>3, <4>1, <4>2 DEF SubsOf, Waiting, Held
      <4>3. ASSUME NEW w \in Worker, AtWork(w, v) PROVE AtWork(w, v)'
        BY <3>1, <3>3, <4>1, <4>3, RecordOf DEF AtWork
      <4>. QED
        BY <3>3, <4>2, <4>3 DEF Awaited
    <3>. QED
      BY <3>2, <3>3 DEF LimboInv
  <2>5. ASSUME NEW w \in Worker, Claim(w) PROVE Settled(v)' \/ Awaited(v)' \/ Refused(v)'
    <3>1. PICK s \in Queued :
            /\ jobs' = [jobs EXCEPT ![s].status = "processing", ![s].beat = "fresh"]
            /\ hold' = [hold EXCEPT ![w] = [pc |-> "claimed", job |-> s, rec |-> None]]
      BY <2>5 DEF Claim
    <3>2. UNCHANGED <<recs, versions>> /\ ~Busy(w)
      BY <2>5 DEF Claim
    <3>3. \A t \in Sub \ {s} : jobs'[t] = jobs[t]
      BY <3>1
    <3>4. hold'[w] = [pc |-> "claimed", job |-> s, rec |-> None]
          /\ \A x \in Worker \ {w} : hold'[x] = hold[x]
      BY <3>1
    <3>5. CASE Settled(v)
      BY <3>2, <3>5 DEF Settled
    <3>6. ASSUME NEW t \in SubsOf(v), Waiting(t) PROVE Awaited(v)'
      <4>1. jobs'[t].version = v /\ t \in Sub
        BY <3>6, RecordOf DEF SubsOf, SameVersions
      <4>2. CASE t = s
        <5>1. AtWork(w, v)'
          BY <3>4, <4>1, <4>2 DEF AtWork
        <5>. QED
          BY <5>1 DEF Awaited
      <4>3. CASE t # s
        <5>1. Waiting(t)'
          BY <3>3, <3>4, <3>6, <4>1, <4>3 DEF Waiting, Held
        <5>. QED
          BY <4>1, <5>1 DEF Awaited, SubsOf
      <4>. QED
        BY <4>2, <4>3
    <3>7. ASSUME NEW x \in Worker, AtWork(x, v) PROVE AtWork(x, v)'
      BY <3>2, <3>4, <3>7, RecordOf DEF AtWork, SameVersions
    <3>. QED
      BY <3>5, <3>6, <3>7 DEF LimboInv, Awaited
  <2>6. ASSUME NEW w \in Worker, Start(w) PROVE Settled(v)' \/ Awaited(v)' \/ Refused(v)'
    <3>. DEFINE s == hold[w].job
                u == jobs[s].version
                r == IF versions[u] = None THEN s ELSE versions[u]
    <3>1. Busy(w) /\ s \in Sub /\ u \in Version /\ hold[w].pc = "claimed"
      BY <2>6, RecordOf DEF Start
    <3>2. r \in Sub /\ jobs[r].version = u
      BY <3>1, RecordOf
    <3>3. /\ versions' = [versions EXCEPT ![u] = r]
          /\ hold' = [hold EXCEPT ![w].pc = "scanning", ![w].rec = r]
          /\ UNCHANGED jobs
      BY <2>6 DEF Start
    <3>4. \A t \in Sub \ {r} : recs'[t] = recs[t]
      BY <2>6 DEF Start
    <3>5. hold'[w].pc = "scanning" /\ hold'[w].rec = r /\ hold'[w].job = s
      BY <3>3 DEF Hold
    <3>6. \A x \in Worker \ {w} : hold'[x] = hold[x]
      BY <3>3
    <3>7. CASE v = u
      <4>1. versions'[v] = r
        BY <3>3, <3>7
      <4>2. AtWork(w, v)'
        BY <3>3, <3>5, <3>7, <4>1 DEF AtWork
      <4>. QED
        BY <4>2 DEF Awaited
    <3>8. CASE v # u
      <4>1. versions'[v] = versions[v] /\ versions[v] # r
        BY <3>2, <3>3, <3>8, RecordOf, ScanQueueAssumption
      <4>2. Settled(v) => Settled(v)'
        <5>1. CASE versions[v] = None
          BY <4>1, <5>1 DEF Settled
        <5>2. CASE versions[v] # None
          BY <3>4, <4>1, <5>2 DEF Settled
        <5>. QED
          BY <5>1, <5>2
      <4>3. ~AtWork(w, v)
        BY <3>8 DEF AtWork
      <4>4. \A t \in Sub \ {s} : jobs'[t].status = jobs[t].status
        BY <3>3
      <4>. HIDE DEF s, u, r
      <4>5. Awaited(v) => Awaited(v)'
        BY <3>1, <3>5, <3>6, <4>1, <4>3, <4>4, OthersAwait DEF s
      <4>. QED
        BY <4>2, <4>5 DEF LimboInv
    <3>. QED
      BY <3>7, <3>8
  <2>7. ASSUME NEW w \in Worker, Verdict(w) PROVE Settled(v)' \/ Awaited(v)' \/ Refused(v)'
    <3>. DEFINE r == hold[w].rec
    <3>1. Busy(w) /\ r \in Sub /\ UNCHANGED <<jobs, versions>>
      BY <2>7, RecordOf DEF Verdict
    <3>2. PICK outcome \in Final : recs' = [recs EXCEPT ![r] = Promoted(recs[r], outcome)]
      BY <2>7 DEF Verdict, Outcomes, Final
    <3>3. recs'[r].status \in Final
      BY <3>1, <3>2 DEF Promoted
    <3>4. \A t \in Sub \ {r} : recs'[t] = recs[t]
      BY <3>2
    <3>5. Settled(v) => Settled(v)'
      BY <3>1, <3>3, <3>4 DEF Settled
    <3>6. hold' = [hold EXCEPT ![w].pc = "judged"]
      BY <2>7 DEF Verdict
    <3>7. hold'[w].job = hold[w].job /\ \A x \in Worker \ {w} : hold'[x] = hold[x]
      BY <3>6 DEF Hold
    <3>8. AtWork(w, v) => Settled(v)'
      <4>1. AtWork(w, v) => r = versions[v]
        BY <2>7 DEF AtWork, Verdict
      <4>. QED
        BY <3>1, <3>3, <4>1 DEF Settled
    <3>9. Awaited(v) => AtWork(w, v) \/ Awaited(v)'
      BY <3>1, <3>7, OthersAwait
    <3>. QED
      BY <3>5, <3>8, <3>9 DEF LimboInv
  <2>8. ASSUME NEW w \in Worker, Complete(w) PROVE Settled(v)' \/ Awaited(v)' \/ Refused(v)'
    <3>1. /\ Busy(w) /\ hold[w].job \in Sub /\ UNCHANGED <<recs, versions>>
          /\ jobs' = [jobs EXCEPT ![hold[w].job].status = "completed"]
          /\ hold' = [hold EXCEPT ![w] = Idle]
      BY <2>8 DEF Complete
    <3>2. hold'[w] = Idle /\ \A x \in Worker \ {w} : hold'[x] = hold[x]
      BY <3>1
    <3>3. \A t \in Sub \ {hold[w].job} : jobs'[t].status = jobs[t].status
      BY <3>1
    <3>4. ~AtWork(w, v)
      BY <2>8 DEF AtWork, Complete
    <3>5. Awaited(v) => Awaited(v)'
      BY <3>1, <3>2, <3>3, <3>4, OthersAwait
    <3>6. Settled(v) => Settled(v)'
      BY <3>1 DEF Settled
    <3>. QED
      BY <3>5, <3>6 DEF LimboInv
  <2>9. ASSUME NEW w \in Worker, Raise(w) PROVE Settled(v)' \/ Awaited(v)' \/ Refused(v)'
    <3>0. PICK s \in Sub : s = hold[w].job
      BY <2>9 DEF Raise, AfterFailure
    <3>1. Busy(w) /\ s = hold[w].job /\ UNCHANGED versions
      BY <2>9, <3>0 DEF Raise, AfterFailure
    <3>2. jobs[s].status # "none"
      BY <3>1 DEF HoldInv
    <3>3. hold'[w] = Idle /\ \A x \in Worker \ {w} : hold'[x] = hold[x]
      BY <2>9 DEF Raise, AfterFailure
    <3>4. \A t \in Sub \ {s} : jobs'[t].status = jobs[t].status
      BY <2>9, <3>1 DEF Raise, AfterFailure
    <3>5. Awaited(v) => AtWork(w, v) \/ Awaited(v)'
      BY <3>1, <3>3, <3>4, OthersAwait
    <3>6. CASE Exhausted(s)
      <4>1. recs' = Marked(s, "scan_failed")
        BY <2>9, <3>1, <3>6 DEF Raise, AfterFailure
      <4>2. AtWork(w, v) => Settled(v)'
        BY <3>1, <3>2, <4>1, MarkedSettles DEF AtWork
      <4>3. Settled(v) => Settled(v)'
        BY <3>1, <3>2, <4>1, MarkedSettles
      <4>. QED
        BY <3>5, <4>2, <4>3 DEF LimboInv
    <3>7. CASE ~Exhausted(s)
      <4>1. UNCHANGED recs /\ jobs'[s].status = "queued"
        BY <2>9, <3>1, <3>7 DEF Raise, AfterFailure, Job
      <4>2. Settled(v) => Settled(v)'
        BY <3>1, <4>1 DEF Settled
      <4>3. ASSUME AtWork(w, v) PROVE Awaited(v)'
        <5>1. ~Held(s)'
          BY <3>1, <3>3 DEF Held, HoldInv, OneWorkerPerJob, Idle
        <5>2. jobs'[s].version = v
          BY <3>1, <4>3, RecordOf DEF AtWork, SameVersions
        <5>. QED
          BY <3>1, <4>1, <5>1, <5>2 DEF Awaited, Waiting, SubsOf
      <4>. QED
        BY <3>5, <4>2, <4>3 DEF LimboInv
    <3>. QED
      BY <3>6, <3>7
  <2>10. CASE Restart
    BY <2>10 DEF Restart, Settled
  <2>11. CASE FindStale \/ UNCHANGED vars
    BY <2>1, <2>11 DEF FindStale, vars
  <2>. QED
    BY <1>3, <2>2, <2>3, <2>4, <2>5, <2>6, <2>7, <2>8, <2>9, <2>10, <2>11 DEF Next, WorkerStep
<1>. QED
  BY <1>1, <1>2, <1>3

\* No scan leaves its version pending or scanning: once no job of it waits and
\* its workers are gone, its record is final, whatever was raised, reaped or
\* restarted, unless the record's own job could not be queued.
THEOREM NoLimboHolds == Spec => []NoLimbo
<1>. DEFINE Inv == TypeInv /\ RecordInv /\ EnqueueInv /\ LimboInv
<1>1. Init => Inv
  BY InitTypeInv DEF Init, RecordInv, EnqueueInv, LimboInv, Settled, NoJob, NoRec, Idle
<1>2. Inv /\ [Next]_vars => Inv'
  <2>. SUFFICES ASSUME Inv, [Next]_vars PROVE TypeInv' /\ RecordInv' /\ EnqueueInv' /\ LimboInv'
    OBVIOUS
  <2>1. TypeInv'
    BY TypeStep, QueueStep DEF TypeInv
  <2>2. LimboInv'
    BY LimboStep DEF LimboInv
  <2>. QED
    BY <2>1, <2>2, RecordInvStep, EnqueueStep
<1>3. Inv => NoLimbo
  <2>. SUFFICES ASSUME Inv, NEW v \in Version, versions[v] # None, ~Refused(v),
                       \A s \in SubsOf(v) :
                         jobs[s].status \notin {"registered", "queued"} /\ ~Held(s)
                PROVE  Settled(v)
    BY DEF NoLimbo, Settled, Final, Refused
  <2>1. ~\E s \in SubsOf(v) : Waiting(s)
    BY DEF Waiting
  <2>2. ASSUME NEW w \in Worker, AtWork(w, v) PROVE FALSE
    <3>1. hold[w].job \in SubsOf(v) /\ Held(hold[w].job)
      BY <2>2, RecordOf DEF AtWork, SubsOf, Held
    <3>. QED
      BY <3>1
  <2>. QED
    BY <2>1, <2>2 DEF LimboInv, Awaited
<1>. QED
  BY <1>1, <1>2, <1>3, PTL DEF Spec
=============================================================================
