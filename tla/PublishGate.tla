----------------------------- MODULE PublishGate -----------------------------
(***************************************************************************)
(* One listing of the listings service: its row, its version rows, its     *)
(* embedding in the search index, and the request handlers that read and   *)
(* write them, the background poller included.  They run on threads, each  *)
(* with a database session of its own and no locks: a handler acts on the  *)
(* row it loaded, and on answers of the scan service and of the auth       *)
(* service, after other handlers may have changed the row.                 *)
(*                                                                         *)
(* What the two services answer is arbitrary: scans end, packages are      *)
(* submitted again, sellers are verified and suspended, and services       *)
(* restart, between any two requests.  Listings share no rows; each turn   *)
(* of a loop, that of sync_seller_kyc over a seller's waiting listings or  *)
(* that of the poller over all pending versions, is a handler here.        *)
(***************************************************************************)
EXTENDS Integers

CONSTANTS
  MaxRows,  \* bound: version rows
  Worker,   \* threads
  None

Row == 1..MaxRows  \* version rows, numbered in the order of created_at

VARIABLES
  listing,  \* the row of the listing
  rows,     \* scan_status of the rows of its versions
  index,    \* the version that its embedding was made for
  job,      \* what each thread is doing
  approved, \* history: the versions for which some handler was told passed
  cleared,  \* history: whether some handler was told that payouts are enabled
  alone,    \* history: whether what runs has overlapped nothing since it began
  calm      \* history: no two handlers overlapped and none failed, or none has since
            \* one that was alone wrote the listing

vars == <<listing, rows, index, job, approved, cleared, alone, calm>>
history == <<approved, cleared, alone, calm>>

\* waiting is scan_passed_awaiting_kyc or scan_passed_verification_unavailable,
\* and delisted is withdrawn or suspended: no handler tells them apart.
ListingStatus == {"none", "draft", "pending_scan", "scan_failed", "waiting", "live", "delisted"}
ScanStatus == {"pending_scan", "passed", "scan_failed"}

Listing == [status : ListingStatus, current : Row \cup {None}]

ASSUME PublishGateAssumption ==
  MaxRows \in Nat \ {0} /\ None \notin Row /\ None \notin ScanStatus /\ None \notin Listing

Created == {r \in Row : rows[r] # "none"}

\* A handler: its endpoint, where it is, the version it is about, the listing
\* row as its session has loaded it (None when a commit has expired it), the
\* scan status of the version as loaded and as answered, and the status that
\* the listing is to get.
Op == {"none", "edit", "poll", "watch", "refresh", "sync", "submit", "delist"}
Job == [op : Op,
        pc : {"idle", "ask", "record", "read", "kyc", "pick", "commit", "reload", "embed",
              "purge"},
        row : Row \cup {None}, seen : Listing \cup {None},
        was : ScanStatus \cup {None}, scan : ScanStatus \cup {None},
        status : ListingStatus]
Idle == [op |-> "none", pc |-> "idle", row |-> None, seen |-> None,
         was |-> None, scan |-> None, status |-> "none"]

TypeOK ==
  /\ listing \in Listing
  /\ rows \in [Row -> ScanStatus \cup {"none"}]
  /\ index \in Row \cup {None}
  /\ job \in [Worker -> Job]
  /\ approved \subseteq Row
  /\ {cleared, alone, calm} \subseteq BOOLEAN

Init ==
  /\ listing = [status |-> "none", current |-> None]
  /\ rows = [r \in Row |-> "none"]
  /\ index = None
  /\ job = [w \in Worker |-> Idle]
  /\ approved = {} /\ cleared = FALSE /\ alone = TRUE /\ calm = TRUE

-----------------------------------------------------------------------------
(* Sessions                                                                *)

\* A handler starts, and all but the poller load the listing; with another one
\* running, the calm is over.
Begin(w, h) ==
  /\ job[w] = Idle /\ listing.status # "none"
  /\ job' = [job EXCEPT ![w] = [h EXCEPT !.seen = IF h.op = "watch" THEN None ELSE listing]]
  /\ alone' = \A x \in Worker : job[x] = Idle
  /\ calm' = (calm /\ alone')
  /\ UNCHANGED <<listing, rows, index, approved, cleared>>

\* The session writes the columns whose value differs from the one it loaded;
\* of a row that it has not loaded again since its last commit, all it set.
Loaded(seen, column, value) == seen # None /\ seen[column] = value
Written(seen, status) ==
  [listing EXCEPT !.status = IF Loaded(seen, "status", status) THEN @ ELSE status]
Promoted(seen, row) ==
  [Written(seen, "live") EXCEPT !.current = IF Loaded(seen, "current", row) THEN @ ELSE row]

Insert ==
  \E r \in Row \ Created :
    /\ \A q \in 1..(r - 1) : q \in Created
    /\ rows' = [rows EXCEPT ![r] = "pending_scan"]

Finish(w) == job' = [job EXCEPT ![w] = Idle]

\* A request ends with an error: a service that does not answer, a row that
\* another session inserted or deleted, a lost connection, a crash.
Abort(w) ==
  /\ job[w] # Idle
  /\ Finish(w)
  /\ calm' = FALSE
  /\ UNCHANGED <<listing, rows, index, approved, cleared, alone>>

\* The commit of the listing's row, at which a handler that is alone sets it right.
Settle == calm' = (calm \/ alone) /\ UNCHANGED <<approved, cleared, alone>>

-----------------------------------------------------------------------------
(* create_listing and update_listing                                       *)

Create ==
  /\ listing.status = "none"
  /\ listing' = [listing EXCEPT !.status = "draft"]
  /\ Insert
  /\ UNCHANGED <<index, job, history>>

\* An edit of a live listing adds a draft version, which no one has submitted.
StartEdit(w) ==
  /\ Row # Created /\ listing.status = "live"
  /\ Begin(w, [Idle EXCEPT !.op = "edit", !.pc = "commit"])

CommitEdit(w) ==
  /\ job[w].op = "edit" /\ job[w].pc = "commit"
  /\ Insert
  /\ Finish(w)
  /\ UNCHANGED <<listing, index, history>>

-----------------------------------------------------------------------------
(* submit_version, also resubmit_listing: in any status of the listing     *)

StartSubmit(w) ==
  /\ Row # Created
  /\ Begin(w, [Idle EXCEPT !.op = "submit", !.pc = "commit"])

CommitSubmit(w) ==
  /\ job[w].op = "submit" /\ job[w].pc = "commit"
  /\ Insert
  /\ listing' = Written(job[w].seen, "pending_scan")
  /\ Finish(w) /\ Settle
  /\ UNCHANGED index

-----------------------------------------------------------------------------
(* get_version_status (poll), the refresh of a pending listing's newest     *)
(* version by get_my_listings, and the background poller (watch)           *)

StartPoll(w, r) ==
  /\ r \in Created
  /\ Begin(w, [Idle EXCEPT !.op = "poll", !.pc = "ask", !.row = r, !.was = rows[r]])

StartRefresh(w) ==
  /\ listing.status = "pending_scan"
  /\ \E r \in Created :
       /\ \A q \in Created : q <= r
       /\ Begin(w, [Idle EXCEPT !.op = "refresh", !.pc = "ask", !.row = r, !.was = rows[r]])

\* _background_scan_poller: any pending version, in any status of its listing.
StartWatch(w, r) ==
  /\ r \in Created /\ rows[r] = "pending_scan"
  /\ Begin(w, [Idle EXCEPT !.op = "watch", !.pc = "ask", !.row = r, !.was = rows[r]])

\* query_status; also an unknown version, or a scan service that cannot be
\* reached, comes out as pending.  Only the poll goes on if nothing is new.
\* The poller loads the version again if its loop has committed another before.
Ask(w) ==
  LET h == job[w] IN
  /\ h.pc = "ask"
  /\ \E scan \in ScanStatus, was \in {h.was} \cup (IF h.op = "watch" THEN {rows[h.row]} ELSE {}) :
       /\ approved' = IF scan = "passed" THEN approved \cup {h.row} ELSE approved
       /\ IF h.op = "poll" \/ scan # h.was
          THEN job' = [job EXCEPT ![w].pc = IF h.op = "refresh" THEN "read" ELSE "record",
                                  ![w].was = was, ![w].scan = scan]
          ELSE Finish(w)
  /\ UNCHANGED <<listing, rows, index, cleared, alone, calm>>

\* The scan service answers with an error: get_version_status goes on with the
\* status it has loaded, the others leave the listing alone.
AskFails(w) ==
  /\ job[w].pc = "ask"
  /\ IF job[w].op = "poll"
     THEN job' = [job EXCEPT ![w].pc = "read", ![w].scan = job[w].was]
     ELSE Finish(w)
  /\ UNCHANGED <<listing, rows, index, history>>

\* The first commit of get_version_status and of the poller, which expires what
\* they have loaded.
Scanned(h) == IF h.scan # h.was THEN [rows EXCEPT ![h.row] = h.scan] ELSE rows

\* Faulty variant: a version that is no longer pending does not go to the gate.
Record_only(w) ==
  /\ job[w].pc = "record"
  /\ rows' = Scanned(job[w])
  /\ Finish(w)
  /\ UNCHANGED <<listing, index, history>>

Record(w) ==
  /\ job[w].pc = "record"
  /\ rows' = Scanned(job[w])
  /\ job' = [job EXCEPT ![w].pc = "read", ![w].seen = None, ![w].was = None, ![w].scan = None]
  /\ UNCHANGED <<listing, index, history>>

-----------------------------------------------------------------------------
(* evaluate_publish_gate                                                   *)

\* The version's status, loaded again if expired.  The listing is loaded too, by
\* the poller, or for the seller_id of a passed version.
ReadVersion(w) ==
  LET h == job[w]
      scan == IF h.seen = None THEN rows[h.row] ELSE h.scan
  IN
  /\ h.pc = "read"
  /\ job' = [job EXCEPT
       ![w].pc = IF scan = "passed" THEN "kyc" ELSE "commit",
       ![w].status = IF scan = "passed" THEN "none" ELSE scan,
       ![w].seen = IF h.seen = None /\ (scan = "passed" \/ h.op = "watch")
                   THEN listing ELSE h.seen,
       ![w].scan = IF h.op = "refresh" THEN h.scan ELSE None,
       ![w].was = IF h.op = "refresh" THEN h.was ELSE None]
  /\ UNCHANGED <<listing, rows, index, history>>

\* check_seller_payout_status.  Faulty variant: an outage counts as a yes.
PayoutStatus_failOpen(answer) == IF answer = "payout_disabled" THEN "waiting" ELSE "live"
PayoutStatus(answer) == IF answer = "payout_enabled" THEN "live" ELSE "waiting"

CheckPayouts(w) ==
  LET h == job[w] IN
  /\ h.pc = "kyc"
  /\ \E answer \in {"payout_enabled", "payout_disabled", "system_unavailable"} :
       /\ cleared' = (cleared \/ answer = "payout_enabled")
       /\ job' = [job EXCEPT ![w].pc = IF h.op = "sync" THEN "pick" ELSE "commit",
                               ![w].status = PayoutStatus(answer)]
  /\ UNCHANGED <<listing, rows, index, approved, alone, calm>>

\* A passed version goes on to the search index, if the listing is live when
\* it is loaded once more.
CommitGate(w) ==
  LET h == job[w] IN
  /\ h.op \in {"poll", "refresh", "watch"} /\ h.pc = "commit"
  /\ listing' = IF h.status = "live" THEN Promoted(h.seen, h.row)
                ELSE Written(h.seen, h.status)
  /\ rows' = IF h.op = "refresh" THEN Scanned(h) ELSE rows
  /\ IF h.status \in {"live", "waiting"}
     THEN job' = [job EXCEPT ![w] = [Idle EXCEPT !.op = h.op, !.pc = "reload", !.row = h.row]]
     ELSE Finish(w)
  /\ Settle
  /\ UNCHANGED index

Reload(w) ==
  /\ job[w].pc = "reload"
  /\ IF listing.status = "live" THEN job' = [job EXCEPT ![w].pc = "embed"] ELSE Finish(w)
  /\ UNCHANGED <<listing, rows, index, history>>

\* sync_live_listing_embedding.  Faulty variant: an embedding of the listing
\* counts as fresh whatever version it was made for.
Embedded_stale(row) == IF index = None THEN row ELSE index
Embedded(row) == row

Embed(w) ==
  /\ job[w].pc = "embed"
  /\ index' = Embedded(job[w].row)
  /\ Finish(w)
  /\ UNCHANGED <<listing, rows, history>>

-----------------------------------------------------------------------------
(* sync_seller_kyc, at the start of get_my_listings                        *)

StartSync(w) ==
  /\ listing.status = "waiting"
  /\ Begin(w, [Idle EXCEPT !.op = "sync", !.pc = "kyc"])

\* The newest passed version.  Faulty variant: the newest version.
Candidates_anyScan == Created
Candidates == {r \in Row : rows[r] = "passed"}

\* The listing is loaded again if the loop has promoted another one before.
PickVersion(w) ==
  /\ job[w].pc = "pick"
  /\ IF Candidates = {} THEN Finish(w)
     ELSE \E r \in Candidates, seen \in {job[w].seen, listing} :
            /\ \A q \in Candidates : q <= r
            /\ job' = [job EXCEPT ![w].pc = "commit", ![w].row = r, ![w].seen = seen]
  /\ UNCHANGED <<listing, rows, index, history>>

\* The listing goes live in the transaction that writes its embedding.  A change
\* from one waiting status to the other is not committed here; it is written if
\* get_my_listings commits anything later on.
CommitSync(w) ==
  LET h == job[w] IN
  /\ h.op = "sync" /\ h.pc = "commit"
  /\ \/ /\ h.status = "live"
        /\ listing' = Promoted(h.seen, h.row)
        /\ index' = Embedded(h.row)
     \/ /\ h.status = "waiting"
        /\ listing' \in {listing, [listing EXCEPT !.status = "waiting"]}
        /\ index' = index
  /\ Finish(w) /\ Settle
  /\ UNCHANGED rows

-----------------------------------------------------------------------------
(* withdraw_listing and suspend_listing_admin                              *)

StartDelist(w) == Begin(w, [Idle EXCEPT !.op = "delist", !.pc = "commit"])

CommitDelist(w) ==
  /\ job[w].op = "delist" /\ job[w].pc = "commit"
  /\ listing' = Written(job[w].seen, "delisted")
  /\ job' = [job EXCEPT ![w].pc = "purge", ![w].seen = None]
  /\ Settle
  /\ UNCHANGED <<rows, index>>

\* remove_listing_embedding.  Faulty variant: it is not called.
Purged_forgotten == index
Purged == None

Purge(w) ==
  /\ job[w].pc = "purge"
  /\ index' = Purged
  /\ Finish(w)
  /\ UNCHANGED <<listing, rows, history>>

-----------------------------------------------------------------------------
Start(w) ==
  \/ StartEdit(w) \/ StartSubmit(w) \/ StartRefresh(w) \/ StartSync(w) \/ StartDelist(w)
  \/ \E r \in Row : StartPoll(w, r) \/ StartWatch(w, r)

Step(w) ==
  \/ CommitEdit(w) \/ CommitSubmit(w) \/ Ask(w) \/ AskFails(w) \/ Record(w) \/ ReadVersion(w)
  \/ CheckPayouts(w) \/ CommitGate(w) \/ Reload(w) \/ Embed(w) \/ PickVersion(w)
  \/ CommitSync(w) \/ CommitDelist(w) \/ Purge(w)

Next ==
  \/ Create
  \/ \E w \in Worker : Start(w) \/ Step(w) \/ Abort(w)

Spec == Init /\ [][Next]_vars

-----------------------------------------------------------------------------
(* Properties that hold                                                    *)

Quiet == \A w \in Worker : job[w] = Idle

\* A live listing offers a version that the scan service passed, of a seller
\* whose payouts the auth service confirmed: however the handlers overlap or
\* fail, and whatever they are told while a service is down.
LiveWasVetted == listing.status = "live" => listing.current \in approved /\ cleared

\* The search index holds only versions that were vetted in the same way.
IndexWasVetted == index # None => index \in approved /\ cleared

\* Overlaps, errors and crashes may leave a live listing that the index does not
\* have under its current version, and what was left lasts no longer than until a
\* handler writes the listing alone and comes to its end, ...
LiveIsIndexed == calm /\ Quiet /\ listing.status = "live" => index = listing.current

\* ... as does the embedding of a listing that was withdrawn or suspended, ...
DelistedIsPurged == calm /\ Quiet /\ listing.status = "delisted" => index = None

\* ... and a pending listing none of whose versions is pending, which the
\* background poller would never look at.
PendingIsWatched ==
  calm /\ Quiet /\ listing.status = "pending_scan" => \E r \in Row : rows[r] = "pending_scan"
=============================================================================
