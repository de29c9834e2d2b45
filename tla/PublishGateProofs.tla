-------------------------- MODULE PublishGateProofs --------------------------
(* Theorems about PublishGate, for any number of versions and of request    *)
(* threads, and for any answers of the other services.                      *)
EXTENDS PublishGate, TLAPS

\* What a handler h may rely on, given the listing l, the version rows rs and
\* the answers a and c that handlers have had: versions it calls passed were
\* passed, it publishes only after both answers, and a current version that
\* it has seen is not taken back.
Fits(h, l, rs, a, c) ==
  /\ h.op \in {"poll", "refresh", "watch"} => h.row \in Row /\ rs[h.row] # "none"
  /\ h.pc \in {"ask", "record", "read"} => h.op \in {"poll", "refresh", "watch"}
  /\ h.pc = "ask" => h.was \in ScanStatus
  /\ h.pc = "record" => h.op # "refresh" /\ h.scan \in ScanStatus
  /\ h.pc = "read" /\ h.seen # None => h.scan \in ScanStatus
  /\ h.op = "refresh" /\ h.pc \in {"read", "kyc", "commit"} => h.scan \in ScanStatus
  /\ h.op = "refresh" /\ h.pc = "ask" => h.seen # None
  /\ "passed" \in {h.was, h.scan} => h.row \in a
  /\ h.pc = "kyc" =>
       h.op = "sync" \/ (h.op \in {"poll", "refresh", "watch"} /\ h.row \in a)
  /\ h.pc = "pick" => h.op = "sync"
  /\ h.pc = "commit" /\ h.op = "sync" => h.row \in a
  /\ h.pc = "commit" /\ h.status \in {"live", "waiting"} => h.row \in a
  /\ h.pc \in {"pick", "commit"} /\ h.status = "live" => c
  /\ h.pc \in {"reload", "embed"} => h.row \in a
  /\ h.pc = "embed" => c
  /\ h.seen # None /\ h.seen.current # None => l.current # None

RowsVetted == \A r \in Row : rows[r] = "passed" => r \in approved
CurrentVetted == listing.current # None => listing.current \in approved /\ cleared
LiveHasVersion == listing.status = "live" => listing.current # None
JobsFit == \A w \in Worker : Fits(job[w], listing, rows, approved, cleared)

Inv == TypeOK /\ RowsVetted /\ CurrentVetted /\ LiveHasVersion /\ IndexWasVetted /\ JobsFit

-----------------------------------------------------------------------------
LEMMA InvImplies == Inv => LiveWasVetted
BY DEF Inv, CurrentVetted, LiveHasVersion, LiveWasVetted

LEMMA IdleFits ==
  ASSUME NEW l, NEW rs, NEW a, NEW c
  PROVE  Idle \in Job /\ Fits(Idle, l, rs, a, c)
BY PublishGateAssumption DEF Idle, Job, Op, ListingStatus, ScanStatus, Fits

LEMMA InitInv == Init => Inv
<1>. SUFFICES ASSUME Init PROVE Inv
  OBVIOUS
<1>1. JobsFit /\ job \in [Worker -> Job]
  BY IdleFits DEF Init, JobsFit
<1>. QED
  BY <1>1 DEF Init, Inv, TypeOK, Listing, ListingStatus, ScanStatus, RowsVetted, CurrentVetted,
      LiveHasVersion, IndexWasVetted

\* Nothing that a handler relies on is ever taken back.
Grows ==
  /\ approved \subseteq approved' /\ (cleared => cleared')
  /\ listing.current # None => listing'.current # None
  /\ \A r \in Row : rows[r] # "none" => rows'[r] # "none"

LEMMA OneJob ==
  ASSUME Inv, Grows, NEW w \in Worker, NEW h \in Job, job' = [job EXCEPT ![w] = h],
         Fits(h, listing', rows', approved', cleared')
  PROVE  job' \in [Worker -> Job] /\ JobsFit'
<1>1. job' \in [Worker -> Job]
  BY DEF Inv, TypeOK
<1>2. ASSUME NEW x \in Worker PROVE Fits(job'[x], listing', rows', approved', cleared')
  <2>1. CASE x = w
    BY <2>1 DEF Inv, TypeOK
  <2>2. CASE x # w
    <3>1. job'[x] = job[x] /\ Fits(job[x], listing, rows, approved, cleared)
      BY <2>2 DEF Inv, TypeOK, JobsFit
    <3>. QED
      BY <3>1 DEF Fits, Grows
  <2>. QED
    BY <2>1, <2>2
<1>. QED
  BY <1>1, <1>2 DEF JobsFit

LEMMA SameJobs ==
  ASSUME Inv, Grows, UNCHANGED job
  PROVE  job' \in [Worker -> Job] /\ JobsFit'
<1>1. ASSUME NEW x \in Worker PROVE Fits(job'[x], listing', rows', approved', cleared')
  <2>1. job'[x] = job[x] /\ Fits(job[x], listing, rows, approved, cleared)
    BY DEF Inv, JobsFit
  <2>. QED
    BY <2>1 DEF Fits, Grows
<1>. QED
  BY <1>1 DEF JobsFit, Inv, TypeOK

LEMMA Inserted ==
  ASSUME Inv, Insert
  PROVE  /\ rows' \in [Row -> ScanStatus \cup {"none"}]
         /\ \A r \in Row : rows'[r] = "passed" => rows[r] = "passed"
         /\ \A r \in Row : rows[r] # "none" => rows'[r] # "none"
<1>1. PICK r \in Row : rows' = [rows EXCEPT ![r] = "pending_scan"]
  BY DEF Insert
<1>. QED
  BY <1>1 DEF Inv, TypeOK, ScanStatus

\* A handler that starts relies only on the listing it loads.
LEMMA BeginInv ==
  ASSUME Inv, NEW w \in Worker, NEW h \in Job, Begin(w, h),
         \A seen \in Listing \cup {None} :
           seen = listing \/ (seen = None /\ h.op = "watch")
             => Fits([h EXCEPT !.seen = seen], listing, rows, approved, cleared)
  PROVE  Inv'
<1>. DEFINE s == IF h.op = "watch" THEN None ELSE listing
            g == [h EXCEPT !.seen = s]
<1>1. g \in Job /\ Fits(g, listing, rows, approved, cleared)
  <2>1. s \in Listing \cup {None} /\ (s = listing \/ (s = None /\ h.op = "watch"))
    BY DEF Inv, TypeOK
  <2>. QED
    BY <2>1 DEF Job
<1>2. job' = [job EXCEPT ![w] = g] /\ UNCHANGED <<listing, rows, index, approved, cleared>>
  BY DEF Begin
<1>3. Grows
  BY <1>2 DEF Grows
<1>4. Fits(g, listing', rows', approved', cleared')
  BY <1>1, <1>2
<1>5. job' \in [Worker -> Job] /\ JobsFit'
  <2>. HIDE DEF g
  <2>. QED
    BY <1>1, <1>2, <1>3, <1>4, OneJob
<1>6. {alone', calm'} \subseteq BOOLEAN
  BY DEF Begin, Inv, TypeOK
<1>. QED
  BY <1>2, <1>5, <1>6 DEF Inv, TypeOK, RowsVetted, CurrentVetted, LiveHasVersion, IndexWasVetted

\* What a session may write to the row of the listing.
LEMMA WrittenListing ==
  ASSUME Inv, NEW seen \in Listing \cup {None}, NEW status \in ListingStatus \ {"live"}
  PROVE  /\ Written(seen, status) \in Listing
         /\ Written(seen, status).current = listing.current
         /\ Written(seen, status).status \in {status, listing.status}
BY DEF Inv, TypeOK, Written, Listing

LEMMA PromotedListing ==
  ASSUME Inv, NEW seen \in Listing \cup {None}, NEW row \in Row,
         seen # None /\ seen.current # None => listing.current # None
  PROVE  /\ Promoted(seen, row) \in Listing
         /\ Promoted(seen, row).current \in {row, listing.current}
         /\ Promoted(seen, row).current # None
<1>1. "live" \in ListingStatus /\ None # row
  BY PublishGateAssumption DEF ListingStatus
<1>2. listing \in Listing
  BY DEF Inv, TypeOK
<1>3. Written(seen, "live") \in Listing /\ Written(seen, "live").current = listing.current
  BY <1>1, <1>2 DEF Written, Listing
<1>4. CASE Loaded(seen, "current", row)
  <2>1. seen # None /\ seen.current = row
    BY <1>4 DEF Loaded
  <2>2. Promoted(seen, row) = Written(seen, "live")
    BY <1>3, <1>4 DEF Promoted, Listing
  <2>. QED
    BY <1>1, <1>3, <2>1, <2>2
<1>5. CASE ~Loaded(seen, "current", row)
  BY <1>1, <1>3, <1>5 DEF Promoted, Listing
<1>. QED
  BY <1>4, <1>5

-----------------------------------------------------------------------------
(* The handlers' starts                                                    *)

LEMMA StartInv == ASSUME Inv, NEW w \in Worker, Start(w) PROVE Inv'
<1>. USE PublishGateAssumption DEF Job, Op, ListingStatus, ScanStatus, Idle, Fits
<1>1. ASSUME NEW op \in {"edit", "submit"}, Begin(w, [Idle EXCEPT !.op = op, !.pc = "commit"])
      PROVE  Inv'
  <2>. DEFINE h == [Idle EXCEPT !.op = op, !.pc = "commit"]
  <2>1. h \in Job /\ Begin(w, h)
    BY <1>1
  <2>2. \A seen \in Listing \cup {None} :
          seen = listing \/ (seen = None /\ h.op = "watch")
            => Fits([h EXCEPT !.seen = seen], listing, rows, approved, cleared)
    OBVIOUS
  <2>. HIDE DEF h, Fits
  <2>. QED
    BY <2>1, <2>2, BeginInv
<1>2. ASSUME NEW r \in Created, NEW op \in {"poll", "refresh", "watch"},
             Begin(w, [Idle EXCEPT !.op = op, !.pc = "ask", !.row = r, !.was = rows[r]])
      PROVE  Inv'
  <2>. DEFINE h == [Idle EXCEPT !.op = op, !.pc = "ask", !.row = r, !.was = rows[r]]
  <2>1. r \in Row /\ rows[r] \in ScanStatus /\ (rows[r] = "passed" => r \in approved)
    BY DEF Created, Inv, TypeOK, RowsVetted
  <2>2. h \in Job
    BY <2>1
  <2>3. ASSUME NEW seen \in Listing \cup {None},
               seen = listing \/ (seen = None /\ h.op = "watch")
        PROVE  Fits([h EXCEPT !.seen = seen], listing, rows, approved, cleared)
    <3>. DEFINE g == [h EXCEPT !.seen = seen]
    <3>1. /\ g.op = op /\ g.pc = "ask" /\ g.row = r /\ g.seen = seen
          /\ g.was = rows[r] /\ g.scan = None /\ h.op = op
      OBVIOUS
    <3>2. op = "refresh" => seen # None
      BY <2>3, <3>1 DEF Inv, TypeOK
    <3>. HIDE DEF h, g
    <3>3. Fits(g, listing, rows, approved, cleared)
      BY <2>1, <2>3, <3>1, <3>2
    <3>. QED
      BY <3>3 DEF g
  <2>. HIDE DEF h, Fits
  <2>. QED
    BY <1>2, <2>2, <2>3, BeginInv DEF h
<1>3. CASE StartSync(w)
  <2>. DEFINE h == [Idle EXCEPT !.op = "sync", !.pc = "kyc"]
  <2>1. h \in Job /\ Begin(w, h)
    BY <1>3 DEF StartSync
  <2>2. \A seen \in Listing \cup {None} :
          seen = listing \/ (seen = None /\ h.op = "watch")
            => Fits([h EXCEPT !.seen = seen], listing, rows, approved, cleared)
    OBVIOUS
  <2>. HIDE DEF h, Fits
  <2>. QED
    BY <2>1, <2>2, BeginInv
<1>4. CASE StartDelist(w)
  <2>. DEFINE h == [Idle EXCEPT !.op = "delist", !.pc = "commit"]
  <2>1. h \in Job /\ Begin(w, h)
    BY <1>4 DEF StartDelist
  <2>2. \A seen \in Listing \cup {None} :
          seen = listing \/ (seen = None /\ h.op = "watch")
            => Fits([h EXCEPT !.seen = seen], listing, rows, approved, cleared)
    OBVIOUS
  <2>. HIDE DEF h, Fits
  <2>. QED
    BY <2>1, <2>2, BeginInv
<1>5. CASE StartRefresh(w)
  <2>1. PICK r \in Created :
          Begin(w, [Idle EXCEPT !.op = "refresh", !.pc = "ask", !.row = r, !.was = rows[r]])
    BY <1>5 DEF StartRefresh
  <2>. QED
    BY <2>1, <1>2
<1>6. ASSUME NEW r \in Row, StartPoll(w, r) \/ StartWatch(w, r) PROVE Inv'
  <2>1. PICK op \in {"poll", "watch"} :
          r \in Created
            /\ Begin(w, [Idle EXCEPT !.op = op, !.pc = "ask", !.row = r, !.was = rows[r]])
    BY <1>6 DEF StartPoll, StartWatch
  <2>. QED
    BY <2>1, <1>2
<1>. QED
  BY <1>1, <1>3, <1>4, <1>5, <1>6 DEF Start, StartEdit, StartSubmit

-----------------------------------------------------------------------------
(* The steps that change nothing but the handler, or its history            *)

LEMMA FinishInv ==
  ASSUME Inv, Grows, NEW w \in Worker, Finish(w)
  PROVE  job' \in [Worker -> Job] /\ JobsFit'
BY IdleFits, OneJob DEF Finish

LEMMA QuietStep ==
  ASSUME Inv, NEW w \in Worker, UNCHANGED <<listing, rows, index, approved, cleared>>,
         {alone', calm'} \subseteq BOOLEAN,
         \/ Finish(w)
         \/ \E h \in Job : /\ job' = [job EXCEPT ![w] = h]
                           /\ Fits(h, listing, rows, approved, cleared)
  PROVE  Inv'
<1>1. Grows
  BY DEF Grows
<1>2. job' \in [Worker -> Job] /\ JobsFit'
  <2>1. CASE Finish(w)
    BY <1>1, <2>1, FinishInv
  <2>2. ASSUME NEW h \in Job, job' = [job EXCEPT ![w] = h],
               Fits(h, listing, rows, approved, cleared)
        PROVE  job' \in [Worker -> Job] /\ JobsFit'
    <3>1. Fits(h, listing', rows', approved', cleared')
      BY <2>2
    <3>. QED
      BY <1>1, <2>2, <3>1, OneJob
  <2>. QED
    BY <2>1, <2>2
<1>. QED
  BY <1>2 DEF Inv, TypeOK, RowsVetted, CurrentVetted, LiveHasVersion, IndexWasVetted

LEMMA AskFailsInv == ASSUME Inv, NEW w \in Worker, AskFails(w) PROVE Inv'
<1>. DEFINE h == [job[w] EXCEPT !.pc = "read", !.scan = job[w].was]
<1>1. job[w] \in Job /\ Fits(job[w], listing, rows, approved, cleared) /\ job[w].pc = "ask"
  BY DEF Inv, TypeOK, JobsFit, AskFails
<1>2. h \in Job /\ Fits(h, listing, rows, approved, cleared)
  BY <1>1 DEF Job, Fits
<1>3. Finish(w) \/ job' = [job EXCEPT ![w] = h]
  BY DEF AskFails
<1>4. UNCHANGED <<listing, rows, index, approved, cleared>> /\ {alone', calm'} \subseteq BOOLEAN
  BY DEF AskFails, history, Inv, TypeOK
<1>. HIDE DEF h
<1>. QED
  BY <1>2, <1>3, <1>4, QuietStep

LEMMA ReadVersionInv == ASSUME Inv, NEW w \in Worker, ReadVersion(w) PROVE Inv'
<1>. DEFINE g == job[w]
            scan == IF g.seen = None THEN rows[g.row] ELSE g.scan
            h == [g EXCEPT
                   !.pc = IF scan = "passed" THEN "kyc" ELSE "commit",
                   !.status = IF scan = "passed" THEN "none" ELSE scan,
                   !.seen = IF g.seen = None /\ (scan = "passed" \/ g.op = "watch")
                            THEN listing ELSE g.seen,
                   !.scan = IF g.op = "refresh" THEN g.scan ELSE None,
                   !.was = IF g.op = "refresh" THEN g.was ELSE None]
<1>1. g \in Job /\ Fits(g, listing, rows, approved, cleared) /\ g.pc = "read"
  BY DEF Inv, TypeOK, JobsFit, ReadVersion
<1>2. scan \in ScanStatus /\ (scan = "passed" => g.row \in approved)
        /\ g.op \in {"poll", "refresh", "watch"} /\ g.row \in Row /\ rows[g.row] # "none"
        /\ (g.op = "refresh" => g.scan \in ScanStatus)
  BY <1>1 DEF Fits, Inv, TypeOK, RowsVetted, ScanStatus
<1>3. h \in Job
  BY <1>1, <1>2 DEF Job, Inv, TypeOK, ScanStatus, ListingStatus
<1>4. Fits(h, listing, rows, approved, cleared)
  BY PublishGateAssumption, <1>1, <1>2 DEF Fits, Job, ScanStatus
<1>5. job' = [job EXCEPT ![w] = h]
  BY DEF ReadVersion
<1>6. UNCHANGED <<listing, rows, index, approved, cleared>> /\ {alone', calm'} \subseteq BOOLEAN
  BY DEF ReadVersion, history, Inv, TypeOK
<1>. HIDE DEF h, g, scan
<1>. QED
  BY <1>3, <1>4, <1>5, <1>6, QuietStep

LEMMA PickVersionInv == ASSUME Inv, NEW w \in Worker, PickVersion(w) PROVE Inv'
<1>1. job[w] \in Job /\ Fits(job[w], listing, rows, approved, cleared) /\ job[w].pc = "pick"
  BY DEF Inv, TypeOK, JobsFit, PickVersion
<1>2. ASSUME NEW r \in Candidates, NEW seen \in {job[w].seen, listing},
             job' = [job EXCEPT ![w].pc = "commit", ![w].row = r, ![w].seen = seen]
      PROVE  \E h \in Job : /\ job' = [job EXCEPT ![w] = h]
                            /\ Fits(h, listing, rows, approved, cleared)
  <2>. DEFINE h == [job[w] EXCEPT !.pc = "commit", !.row = r, !.seen = seen]
  <2>1. r \in Row /\ r \in approved /\ rows[r] # "none" /\ seen \in Listing \cup {None}
    BY <1>1 DEF Candidates, Inv, TypeOK, RowsVetted, Job
  <2>2. h \in Job
    BY <1>1, <2>1 DEF Job
  <2>3. Fits(h, listing, rows, approved, cleared)
    BY <1>1, <2>1 DEF Fits, Job
  <2>4. job' = [job EXCEPT ![w] = h]
    BY <1>2
  <2>. HIDE DEF h
  <2>. QED
    BY <2>2, <2>3, <2>4
<1>3. UNCHANGED <<listing, rows, index, approved, cleared>> /\ {alone', calm'} \subseteq BOOLEAN
  BY DEF PickVersion, history, Inv, TypeOK
<1>. QED
  BY <1>2, <1>3, QuietStep DEF PickVersion

LEMMA ReloadInv == ASSUME Inv, NEW w \in Worker, Reload(w) PROVE Inv'
<1>1. job[w] \in Job /\ Fits(job[w], listing, rows, approved, cleared) /\ job[w].pc = "reload"
  BY DEF Inv, TypeOK, JobsFit, Reload
<1>2. ASSUME listing.status = "live", job' = [job EXCEPT ![w].pc = "embed"]
      PROVE  \E h \in Job : /\ job' = [job EXCEPT ![w] = h]
                            /\ Fits(h, listing, rows, approved, cleared)
  <2>. DEFINE h == [job[w] EXCEPT !.pc = "embed"]
  <2>1. cleared
    BY <1>2 DEF Inv, LiveHasVersion, CurrentVetted
  <2>2. h \in Job
    BY <1>1 DEF Job
  <2>3. Fits(h, listing, rows, approved, cleared)
    BY <1>1, <2>1 DEF Fits, Job
  <2>4. job' = [job EXCEPT ![w] = h]
    BY <1>2
  <2>. HIDE DEF h
  <2>. QED
    BY <2>2, <2>3, <2>4
<1>3. UNCHANGED <<listing, rows, index, approved, cleared>> /\ {alone', calm'} \subseteq BOOLEAN
  BY DEF Reload, history, Inv, TypeOK
<1>. QED
  BY <1>2, <1>3, QuietStep DEF Reload

\* The answers of the other services.
LEMMA AskInv == ASSUME Inv, NEW w \in Worker, Ask(w) PROVE Inv'
<1>. DEFINE g == job[w]
<1>1. g \in Job /\ Fits(g, listing, rows, approved, cleared) /\ g.pc = "ask" /\ g.row \in Row
      /\ g.op \in {"poll", "refresh", "watch"}
  BY DEF Inv, TypeOK, JobsFit, Ask, Fits
<1>. DEFINE pc == IF g.op = "refresh" THEN "read" ELSE "record"
<1>2. PICK scan \in ScanStatus, was \in {g.was, rows[g.row]} :
        /\ approved' = IF scan = "passed" THEN approved \cup {g.row} ELSE approved
        /\ \/ job' = [job EXCEPT ![w].pc = pc, ![w].was = was, ![w].scan = scan]
           \/ Finish(w)
  BY DEF Ask
<1>3. UNCHANGED <<listing, rows, index, cleared, alone, calm>>
  BY DEF Ask
<1>4. Grows /\ approved' \subseteq Row
  BY <1>1, <1>2, <1>3 DEF Grows, Inv, TypeOK
<1>5. ASSUME job' = [job EXCEPT ![w].pc = pc, ![w].was = was, ![w].scan = scan]
      PROVE  job' \in [Worker -> Job] /\ JobsFit'
  <2>. DEFINE h == [g EXCEPT !.pc = pc, !.was = was, !.scan = scan]
  <2>0. was \in ScanStatus /\ (was = "passed" => g.row \in approved')
    BY <1>1, <1>2 DEF Fits, Inv, TypeOK, RowsVetted
  <2>1. h \in Job
    BY <1>1, <2>0 DEF Job
  <2>2. Fits(h, listing', rows', approved', cleared')
    BY PublishGateAssumption, <1>1, <1>2, <1>3, <2>0 DEF Fits, Job, ScanStatus
  <2>3. job' = [job EXCEPT ![w] = h]
    BY <1>5
  <2>. HIDE DEF h
  <2>. QED
    BY <1>4, <2>1, <2>2, <2>3, OneJob
<1>6. job' \in [Worker -> Job] /\ JobsFit'
  BY <1>2, <1>4, <1>5, FinishInv
<1>. QED
  BY <1>2, <1>3, <1>4, <1>6
  DEF Inv, TypeOK, RowsVetted, CurrentVetted, LiveHasVersion, IndexWasVetted

LEMMA CheckPayoutsInv == ASSUME Inv, NEW w \in Worker, CheckPayouts(w) PROVE Inv'
<1>. DEFINE g == job[w]
<1>1. g \in Job /\ Fits(g, listing, rows, approved, cleared) /\ g.pc = "kyc"
  BY DEF Inv, TypeOK, JobsFit, CheckPayouts
<1>2. PICK answer \in {"payout_enabled", "payout_disabled", "system_unavailable"} :
        /\ cleared' = (cleared \/ answer = "payout_enabled")
        /\ job' = [job EXCEPT ![w].pc = IF g.op = "sync" THEN "pick" ELSE "commit",
                              ![w].status = PayoutStatus(answer)]
  BY DEF CheckPayouts
<1>3. UNCHANGED <<listing, rows, index, approved, alone, calm>>
  BY DEF CheckPayouts
<1>4. Grows /\ cleared' \in BOOLEAN /\ (PayoutStatus(answer) = "live" => cleared')
      /\ PayoutStatus(answer) \in ListingStatus
  BY <1>2, <1>3 DEF Grows, Inv, TypeOK, PayoutStatus, ListingStatus
<1>7. job' \in [Worker -> Job] /\ JobsFit'
  <2>. DEFINE h == [g EXCEPT !.pc = IF g.op = "sync" THEN "pick" ELSE "commit",
                             !.status = PayoutStatus(answer)]
  <2>1. h \in Job
    BY <1>1, <1>4 DEF Job
  <2>2. Fits(h, listing', rows', approved', cleared')
    BY <1>1, <1>3, <1>4 DEF Fits, Job
  <2>3. job' = [job EXCEPT ![w] = h]
    BY <1>2
  <2>. HIDE DEF h
  <2>. QED
    BY <1>4, <2>1, <2>2, <2>3, OneJob
<1>8. CurrentVetted' /\ IndexWasVetted'
  BY <1>3, <1>4 DEF Grows, Inv, CurrentVetted, IndexWasVetted
<1>. QED
  BY <1>3, <1>4, <1>7, <1>8 DEF Inv, TypeOK, RowsVetted, LiveHasVersion

-----------------------------------------------------------------------------
(* The steps that write to the database                                    *)

LEMMA ScannedRows ==
  ASSUME Inv, NEW w \in Worker, job[w].row \in Row, job[w].scan \in ScanStatus
  PROVE  /\ Scanned(job[w]) \in [Row -> ScanStatus \cup {"none"}]
         /\ \A r \in Row : rows[r] # "none" => Scanned(job[w])[r] # "none"
         /\ \A r \in Row : Scanned(job[w])[r] = "passed" => r \in approved
<1>1. job[w].scan = "passed" => job[w].row \in approved
  BY DEF Inv, JobsFit, Fits
<1>2. rows \in [Row -> ScanStatus \cup {"none"}] /\ RowsVetted
  BY DEF Inv, TypeOK
<1>3. Scanned(job[w]) = rows \/ Scanned(job[w]) = [rows EXCEPT ![job[w].row] = job[w].scan]
  BY DEF Scanned
<1>. QED
  BY <1>1, <1>2, <1>3 DEF RowsVetted, ScanStatus

LEMMA RecordInv == ASSUME Inv, NEW w \in Worker, Record(w) PROVE Inv'
<1>. DEFINE g == job[w]
            h == [g EXCEPT !.pc = "read", !.seen = None, !.was = None, !.scan = None]
<1>1. g \in Job /\ Fits(g, listing, rows, approved, cleared) /\ g.pc = "record"
  BY DEF Inv, TypeOK, JobsFit, Record
<1>2. g.row \in Row /\ g.scan \in ScanStatus /\ g.op \in {"poll", "refresh", "watch"}
  BY <1>1 DEF Fits
<1>3. rows' = Scanned(g) /\ job' = [job EXCEPT ![w] = h]
  BY DEF Record
<1>4. UNCHANGED <<listing, index, approved, cleared, alone, calm>>
  BY DEF Record, history
<1>5. /\ rows' \in [Row -> ScanStatus \cup {"none"}]
      /\ \A r \in Row : rows[r] # "none" => rows'[r] # "none"
      /\ RowsVetted'
  BY <1>2, <1>3, <1>4, ScannedRows DEF RowsVetted
<1>6. Grows
  BY <1>4, <1>5 DEF Grows
<1>7. h \in Job
  BY <1>1 DEF Job
<1>8. Fits(h, listing', rows', approved', cleared')
  BY PublishGateAssumption, <1>1, <1>2, <1>4, <1>5 DEF Fits, Job, ScanStatus
<1>9. job' \in [Worker -> Job] /\ JobsFit'
  <2>. HIDE DEF h
  <2>. QED
    BY <1>3, <1>6, <1>7, <1>8, OneJob
<1>. QED
  BY <1>4, <1>5, <1>9 DEF Inv, TypeOK, CurrentVetted, LiveHasVersion, IndexWasVetted

\* What handlers were told does not change with a commit.
Told == UNCHANGED <<approved, cleared>> /\ {alone', calm'} \subseteq BOOLEAN

LEMMA ToldKept == ASSUME Inv, Settle \/ UNCHANGED history PROVE Told
BY DEF Told, Settle, history, Inv, TypeOK

\* A handler ends having written one version row or the listing's row, with a
\* status other than live.
LEMMA UnpublishInv ==
  ASSUME Inv, NEW w \in Worker, Finish(w), index' = index, Told,
         rows' \in [Row -> ScanStatus \cup {"none"}],
         \A r \in Row : rows[r] # "none" => rows'[r] # "none", RowsVetted',
         NEW seen \in Listing \cup {None}, NEW status \in ListingStatus \ {"live"},
         listing' \in {listing, Written(seen, status)}
  PROVE  Inv'
<1>1. /\ listing' \in Listing /\ listing'.current = listing.current
      /\ listing'.status \in {status, listing.status}
  <2>1. CASE listing' = listing
    BY <2>1 DEF Inv, TypeOK
  <2>2. CASE listing' = Written(seen, status)
    BY <2>2, WrittenListing
  <2>. QED
    BY <2>1, <2>2
<1>2. Grows
  BY <1>1 DEF Grows, Told
<1>3. job' \in [Worker -> Job] /\ JobsFit'
  BY <1>2, FinishInv
<1>. QED
  BY <1>1, <1>3 DEF Inv, TypeOK, Told, CurrentVetted, LiveHasVersion, IndexWasVetted

LEMMA CommitEditInv == ASSUME Inv, NEW w \in Worker, CommitEdit(w) PROVE Inv'
<1>1. Insert /\ Finish(w) /\ listing' = listing /\ UNCHANGED index /\ Told
  BY ToldKept DEF CommitEdit
<1>2. RowsVetted'
  BY <1>1, Inserted DEF Inv, RowsVetted, Told
<1>3. None \in Listing \cup {None} /\ "draft" \in ListingStatus \ {"live"}
  BY DEF ListingStatus
<1>4. listing' \in {listing, Written(None, "draft")}
  BY <1>1
<1>. QED
  BY <1>1, <1>2, <1>3, <1>4, Inserted, UnpublishInv

LEMMA CommitSubmitInv == ASSUME Inv, NEW w \in Worker, CommitSubmit(w) PROVE Inv'
<1>1. Insert /\ Finish(w) /\ UNCHANGED index /\ Told
      /\ listing' = Written(job[w].seen, "pending_scan")
  BY ToldKept DEF CommitSubmit
<1>2. job[w].seen \in Listing \cup {None} /\ "pending_scan" \in ListingStatus \ {"live"}
  BY DEF Inv, TypeOK, Job, ListingStatus
<1>3. RowsVetted'
  BY <1>1, Inserted DEF Inv, RowsVetted, Told
<1>. QED
  BY <1>1, <1>2, <1>3, Inserted, UnpublishInv

\* A handler publishes the listing with a version it knows to be vetted.
LEMMA PublishInv ==
  ASSUME Inv, NEW w \in Worker, NEW row \in approved, cleared,
         NEW seen \in Listing \cup {None},
         seen # None /\ seen.current # None => listing.current # None,
         listing' = Promoted(seen, row), index' \in {index, row}, Told,
         rows' \in [Row -> ScanStatus \cup {"none"}],
         \A r \in Row : rows[r] # "none" => rows'[r] # "none", RowsVetted',
         \/ Finish(w)
         \/ \E h \in Job : /\ job' = [job EXCEPT ![w] = h]
                           /\ Fits(h, listing', rows', approved', cleared')
  PROVE  Inv'
<1>1. row \in Row
  BY DEF Inv, TypeOK
<1>2. /\ listing' \in Listing /\ listing'.current # None
      /\ listing'.current \in {row, listing.current}
  BY <1>1, PromotedListing
<1>3. Grows
  BY <1>2 DEF Grows, Told
<1>4. job' \in [Worker -> Job] /\ JobsFit'
  BY <1>3, FinishInv, OneJob
<1>5. listing'.current \in approved
  BY <1>2 DEF Inv, CurrentVetted
<1>. QED
  BY <1>1, <1>2, <1>4, <1>5
  DEF Inv, TypeOK, Told, CurrentVetted, LiveHasVersion, IndexWasVetted

LEMMA CommitSyncInv == ASSUME Inv, NEW w \in Worker, CommitSync(w) PROVE Inv'
<1>1. job[w] \in Job /\ Fits(job[w], listing, rows, approved, cleared)
      /\ job[w].op = "sync" /\ job[w].pc = "commit"
  BY DEF Inv, TypeOK, JobsFit, CommitSync
<1>2. Finish(w) /\ UNCHANGED rows /\ Told
  BY ToldKept DEF CommitSync
<1>3. rows' \in [Row -> ScanStatus \cup {"none"}] /\ RowsVetted'
  BY <1>2 DEF Inv, TypeOK, RowsVetted, Told
<1>4. CASE /\ job[w].status = "live" /\ index' = Embedded(job[w].row)
           /\ listing' = Promoted(job[w].seen, job[w].row)
  <2>1. /\ job[w].row \in approved /\ cleared /\ job[w].seen \in Listing \cup {None}
        /\ job[w].seen # None /\ job[w].seen.current # None => listing.current # None
    BY <1>1, <1>4 DEF Fits, Job
  <2>2. index' = job[w].row
    BY <1>4 DEF Embedded
  <2>. QED
    BY <1>2, <1>3, <1>4, <2>1, <2>2, PublishInv
<1>5. CASE index' = index /\ listing' \in {listing, [listing EXCEPT !.status = "waiting"]}
  <2>1. None \in Listing \cup {None} /\ "waiting" \in ListingStatus \ {"live"}
    BY DEF ListingStatus
  <2>2. Written(None, "waiting") = [listing EXCEPT !.status = "waiting"]
    BY DEF Written, Loaded
  <2>. QED
    BY <1>2, <1>3, <1>5, <2>1, <2>2, UnpublishInv
<1>. QED
  BY <1>4, <1>5 DEF CommitSync

LEMMA CommitGateInv == ASSUME Inv, NEW w \in Worker, CommitGate(w) PROVE Inv'
<1>. DEFINE g == job[w]
            h == [Idle EXCEPT !.op = g.op, !.pc = "reload", !.row = g.row]
<1>1. /\ g \in Job /\ Fits(g, listing, rows, approved, cleared)
      /\ g.op \in {"poll", "refresh", "watch"} /\ g.pc = "commit"
  BY DEF Inv, TypeOK, JobsFit, CommitGate
<1>2. /\ g.row \in Row /\ g.seen \in Listing \cup {None} /\ g.status \in ListingStatus
      /\ g.seen # None /\ g.seen.current # None => listing.current # None
  BY <1>1 DEF Fits, Job
<1>3. UNCHANGED index /\ Told /\ rows' \in {rows, Scanned(g)}
      /\ (rows' = rows \/ g.op = "refresh")
  BY ToldKept DEF CommitGate
<1>4. /\ rows' \in [Row -> ScanStatus \cup {"none"}]
      /\ \A r \in Row : rows[r] # "none" => rows'[r] # "none"
      /\ RowsVetted'
  <2>1. CASE rows' = rows
    BY <1>3, <2>1 DEF Inv, TypeOK, RowsVetted, Told
  <2>2. CASE g.op = "refresh" /\ rows' = Scanned(g)
    <3>1. g.scan \in ScanStatus
      BY <1>1, <2>2 DEF Fits
    <3>. QED
      BY <1>2, <1>3, <2>2, <3>1, ScannedRows DEF RowsVetted, Told
  <2>. QED
    BY <1>3, <2>1, <2>2
<1>5. h \in Job
  BY <1>1, <1>2 DEF Idle, Job, Op, ListingStatus
<1>6. ASSUME g.row \in approved PROVE Fits(h, listing', rows', approved', cleared')
  <2>1. rows'[g.row] # "none"
    BY <1>1, <1>2, <1>4 DEF Fits
  <2>. QED
    BY PublishGateAssumption, <1>1, <1>2, <1>3, <1>6, <2>1
    DEF Fits, Idle, Told, ScanStatus
<1>7. CASE g.status = "live"
  <2>1. g.row \in approved /\ cleared
    BY <1>1, <1>7 DEF Fits
  <2>2. listing' = Promoted(g.seen, g.row) /\ job' = [job EXCEPT ![w] = h]
    BY <1>7 DEF CommitGate
  <2>. HIDE DEF h, g
  <2>. QED
    BY <1>2, <1>3, <1>4, <1>5, <1>6, <2>1, <2>2, PublishInv
<1>8. CASE g.status # "live"
  <2>1. listing' = Written(g.seen, g.status)
    BY <1>8 DEF CommitGate
  <2>2. CASE Finish(w)
    <3>. HIDE DEF g
    <3>. QED
      BY <1>2, <1>3, <1>4, <1>8, <2>1, <2>2, UnpublishInv
  <2>3. CASE g.status = "waiting" /\ job' = [job EXCEPT ![w] = h]
    <3>1. /\ listing' \in Listing /\ listing'.current = listing.current
          /\ listing'.status \in {"waiting", listing.status}
      BY <1>2, <2>1, <2>3, WrittenListing
    <3>2. Grows
      BY <1>3, <1>4, <3>1 DEF Grows, Told
    <3>3. g.row \in approved
      BY <1>1, <2>3 DEF Fits
    <3>4. job' \in [Worker -> Job] /\ JobsFit'
      <4>. HIDE DEF h, g
      <4>. QED
        BY <1>5, <1>6, <2>3, <3>2, <3>3, OneJob
    <3>. QED
      BY <1>3, <1>4, <3>1, <3>4
      DEF Inv, TypeOK, Told, CurrentVetted, LiveHasVersion, IndexWasVetted
  <2>. QED
    BY <1>8, <2>2, <2>3 DEF CommitGate
<1>. QED
  BY <1>7, <1>8

LEMMA EmbedInv == ASSUME Inv, NEW w \in Worker, Embed(w) \/ Purge(w) PROVE Inv'
<1>1. UNCHANGED <<listing, rows>> /\ Told /\ Finish(w)
  BY ToldKept DEF Embed, Purge
<1>2. job' \in [Worker -> Job] /\ JobsFit'
  BY <1>1, FinishInv DEF Grows, Told
<1>3. index' \in approved \cup {None} /\ (index' # None => cleared)
  BY DEF Embed, Embedded, Purge, Purged, Inv, JobsFit, Fits
<1>. QED
  BY <1>1, <1>2, <1>3
  DEF Inv, TypeOK, Told, RowsVetted, CurrentVetted, LiveHasVersion, IndexWasVetted

LEMMA CommitDelistInv == ASSUME Inv, NEW w \in Worker, CommitDelist(w) PROVE Inv'
<1>. DEFINE h == [job[w] EXCEPT !.pc = "purge", !.seen = None]
<1>1. job[w] \in Job /\ Fits(job[w], listing, rows, approved, cleared)
      /\ job[w].op = "delist" /\ job[w].pc = "commit"
  BY DEF Inv, TypeOK, JobsFit, CommitDelist
<1>2. /\ UNCHANGED <<rows, index>> /\ Told /\ job' = [job EXCEPT ![w] = h]
      /\ listing' = Written(job[w].seen, "delisted")
  BY ToldKept DEF CommitDelist
<1>3. /\ listing' \in Listing /\ listing'.current = listing.current
      /\ listing'.status \in {"delisted", listing.status}
  <2>1. job[w].seen \in Listing \cup {None} /\ "delisted" \in ListingStatus \ {"live"}
    BY <1>1 DEF Job, ListingStatus
  <2>. QED
    BY <1>2, <2>1, WrittenListing
<1>4. Grows
  BY <1>2, <1>3 DEF Grows, Told
<1>5. h \in Job /\ Fits(h, listing', rows', approved', cleared')
  BY <1>1, <1>2, <1>3 DEF Job, Fits, Told
<1>6. job' \in [Worker -> Job] /\ JobsFit'
  <2>. HIDE DEF h
  <2>. QED
    BY <1>2, <1>4, <1>5, OneJob
<1>. QED
  BY <1>2, <1>3, <1>6
  DEF Inv, TypeOK, Told, RowsVetted, CurrentVetted, LiveHasVersion, IndexWasVetted

LEMMA CreateInv == ASSUME Inv, Create PROVE Inv'
<1>1. /\ Insert /\ UNCHANGED <<index, job>> /\ Told
      /\ listing' = [listing EXCEPT !.status = "draft"]
  BY ToldKept DEF Create
<1>2. /\ rows' \in [Row -> ScanStatus \cup {"none"}] /\ RowsVetted'
      /\ \A r \in Row : rows[r] # "none" => rows'[r] # "none"
  BY <1>1, Inserted DEF Inv, RowsVetted, Told
<1>3. /\ listing' \in Listing /\ listing'.current = listing.current
      /\ listing'.status \in {"draft", listing.status}
  BY <1>1 DEF Inv, TypeOK, Listing, ListingStatus
<1>4. job' \in [Worker -> Job] /\ JobsFit'
  BY <1>1, <1>2, <1>3, SameJobs DEF Grows, Told
<1>. QED
  BY <1>1, <1>2, <1>3, <1>4
  DEF Inv, TypeOK, Told, CurrentVetted, LiveHasVersion, IndexWasVetted

LEMMA AbortInv == ASSUME Inv, NEW w \in Worker, Abort(w) PROVE Inv'
BY QuietStep DEF Abort, Inv, TypeOK

LEMMA InvStep == Inv /\ [Next]_vars => Inv'
<1>. SUFFICES ASSUME Inv, [Next]_vars PROVE Inv'
  OBVIOUS
<1>1. ASSUME NEW w \in Worker, Step(w) PROVE Inv'
  BY <1>1, CommitEditInv, CommitSubmitInv, AskInv, AskFailsInv, RecordInv, ReadVersionInv, CheckPayoutsInv,
     CommitGateInv, ReloadInv, EmbedInv, PickVersionInv, CommitSyncInv, CommitDelistInv
  DEF Step
<1>2. CASE UNCHANGED vars
  <2>1. JobsFit' /\ job' \in [Worker -> Job]
    BY <1>2, SameJobs DEF Grows, vars
  <2>. QED
    BY <1>2, <2>1
    DEF vars, Inv, TypeOK, RowsVetted, CurrentVetted, LiveHasVersion, IndexWasVetted
<1>. QED
  BY <1>1, <1>2, CreateInv, StartInv, AbortInv DEF Next

-----------------------------------------------------------------------------
(* Calm and how it comes back.  A handler that is alone knows the listing and *)
(* the versions as they are, and all that the database lacks to be in order, *)
(* if it is calm, is what this handler is about to do.                      *)

Follows(h, l, rs, ix, c) ==
  /\ h # Idle => l.status # "none"
  /\ h.seen # None => h.seen = l
  /\ h.op = "sync" => l.status = "waiting"
  /\ h.pc = "ask" => h.was = rs[h.row]
  /\ h.op = "poll" /\ h.pc = "read" /\ h.seen # None => h.scan = rs[h.row]
  /\ h.op = "refresh" /\ h.pc = "read" => h.seen # None
  /\ h.op = "watch" /\ h.pc = "read" => h.seen = None
  /\ h.op = "refresh" /\ h.pc \in {"read", "kyc", "commit"} => h.scan # h.was
  /\ h.op \in {"poll", "refresh", "watch"} /\ h.pc = "commit" =>
       /\ h.status \in {"live", "waiting", "pending_scan", "scan_failed"}
       /\ h.status = "pending_scan" =>
            IF h.op = "refresh" THEN h.scan = "pending_scan" ELSE rs[h.row] = "pending_scan"
  /\ h.pc \in {"reload", "embed"} =>
       /\ l.status \in {"live", "waiting"}
       /\ l.status = "live" => l.current = h.row
       /\ h.pc = "embed" => l.status = "live"
  /\ h.pc = "purge" => l.status = "delisted"
  /\ c => /\ l.status = "live" => ix = l.current \/ h.pc \in {"reload", "embed"}
          /\ l.status = "delisted" => ix = None \/ h.pc = "purge"
          /\ l.status = "pending_scan" =>
               \/ \E r \in Row : rs[r] = "pending_scan"
               \/ h.op \in {"poll", "watch"} /\ h.pc \in {"read", "kyc", "commit"}

CalmInv ==
  /\ alone => /\ \A w, x \in Worker : job[w] # Idle /\ job[x] # Idle => w = x
              /\ \A w \in Worker : job[w] # Idle => Follows(job[w], listing, rows, index, calm)
  /\ calm => IF Quiet THEN Follows(Idle, listing, rows, index, TRUE) ELSE alone

LEMMA InitCalm == Init => CalmInv
BY DEF Init, CalmInv, Quiet, Follows, Idle

LEMMA CalmImplies == CalmInv => LiveIsIndexed /\ DelistedIsPurged /\ PendingIsWatched
BY DEF CalmInv, Follows, Idle, LiveIsIndexed, DelistedIsPurged, PendingIsWatched

\* A handler takes a step: alone, it leaves the database as it should.
LEMMA StepFollows ==
  ASSUME Inv, CalmInv, NEW w \in Worker, job[w] # Idle, NEW h, job' = [job EXCEPT ![w] = h],
         alone' = alone, calm' => calm \/ alone,
         alone => Follows(h, listing', rows', index', calm')
  PROVE  CalmInv'
<1>1. job'[w] = h /\ \A x \in Worker \ {w} : job'[x] = job[x]
  BY DEF Inv, TypeOK
<1>2. calm' => alone
  BY DEF CalmInv, Quiet
<1>3. ASSUME alone
      PROVE  /\ \A x, y \in Worker : job'[x] # Idle /\ job'[y] # Idle => x = y
             /\ \A x \in Worker : job'[x] # Idle => Follows(job'[x], listing', rows', index', calm')
  <2>1. \A x \in Worker \ {w} : job'[x] = Idle
    BY <1>1, <1>3 DEF CalmInv
  <2>. QED
    BY <1>1, <1>3, <2>1
<1>4. ASSUME calm', Quiet' PROVE Follows(Idle, listing', rows', index', TRUE)
  <2>1. h = Idle
    BY <1>1, <1>4 DEF Quiet
  <2>2. Follows(Idle, listing', rows', index', calm')
    BY <1>2, <1>4, <2>1
  <2>. QED
    BY <1>4, <2>2 DEF Follows
<1>. QED
  BY <1>2, <1>3, <1>4 DEF CalmInv

\* A handler that starts while none runs has the database for itself.
LEMMA BeginFollows ==
  ASSUME Inv, CalmInv, NEW w \in Worker, NEW h \in Job, Begin(w, h), h # Idle,
         \A seen \in Listing \cup {None}, c \in BOOLEAN :
           /\ seen = listing \/ (seen = None /\ h.op = "watch")
           /\ listing.status # "none" /\ Follows(Idle, listing, rows, index, c)
           => Follows([h EXCEPT !.seen = seen], listing, rows, index, c)
  PROVE  CalmInv'
<1>. DEFINE s == IF h.op = "watch" THEN None ELSE listing
            g == [h EXCEPT !.seen = s]
<1>1. /\ UNCHANGED <<listing, rows, index>> /\ job' = [job EXCEPT ![w] = g]
      /\ alone' = (\A x \in Worker : job[x] = Idle) /\ calm' = (calm /\ alone')
      /\ listing.status # "none" /\ job[w] = Idle
  BY DEF Begin
<1>2. job'[w] = g /\ \A x \in Worker \ {w} : job'[x] = job[x]
  BY <1>1 DEF Inv, TypeOK
<1>3. ASSUME alone' PROVE Follows(g, listing, rows, index, calm')
  <2>1. s \in Listing \cup {None} /\ (s = listing \/ (s = None /\ h.op = "watch"))
    BY DEF Inv, TypeOK
  <2>2. calm' \in BOOLEAN /\ (calm' => calm /\ Quiet)
    BY <1>1, <1>3 DEF Quiet
  <2>3. Follows(Idle, listing, rows, index, calm')
    <3>1. CASE calm'
      BY <2>2, <3>1 DEF CalmInv, Follows
    <3>2. CASE ~calm'
      BY <3>2 DEF Follows, Idle
    <3>. QED
      BY <3>1, <3>2
  <2>. QED
    BY <1>1, <2>1, <2>2, <2>3
<1>4. ASSUME Quiet' PROVE Follows(Idle, listing, rows, index, calm')
  <2>1. g = Idle
    BY <1>2, <1>4 DEF Quiet
  <2>2. alone'
    BY <1>1, <1>2, <1>4 DEF Quiet
  <2>. QED
    BY <1>3, <2>1, <2>2
<1>. HIDE DEF g
<1>5. ASSUME alone'
      PROVE  /\ \A x, y \in Worker : job'[x] # Idle /\ job'[y] # Idle => x = y
             /\ \A x \in Worker : job'[x] # Idle => Follows(job'[x], listing', rows', index', calm')
  <2>1. \A x \in Worker \ {w} : job'[x] = Idle
    BY <1>1, <1>2, <1>5
  <2>. QED
    BY <1>1, <1>2, <1>3, <1>5, <2>1
<1>6. ASSUME calm' PROVE IF Quiet' THEN Follows(Idle, listing', rows', index', TRUE) ELSE alone'
  <2>1. CASE Quiet'
    <3>1. Follows(Idle, listing, rows, index, calm')
      BY <1>4, <2>1
    <3>2. Follows(Idle, listing, rows, index, TRUE)
      BY <1>6, <3>1 DEF Follows
    <3>. QED
      BY <1>1, <2>1, <3>2
  <2>2. CASE ~Quiet'
    BY <1>1, <1>6, <2>2
  <2>. QED
    BY <2>1, <2>2
<1>. QED
  BY <1>5, <1>6 DEF CalmInv

LEMMA StartFollows == ASSUME Inv, CalmInv, NEW w \in Worker, Start(w) PROVE CalmInv'
<1>. USE PublishGateAssumption DEF Job, Op, ListingStatus, ScanStatus, Idle
<1>1. ASSUME NEW op \in {"edit", "submit", "delist"},
             Begin(w, [Idle EXCEPT !.op = op, !.pc = "commit"])
      PROVE  CalmInv'
  <2>. DEFINE h == [Idle EXCEPT !.op = op, !.pc = "commit"]
  <2>1. h \in Job /\ h # Idle /\ Begin(w, h)
    BY <1>1
  <2>2. \A seen \in Listing \cup {None}, c \in BOOLEAN :
          /\ seen = listing \/ (seen = None /\ h.op = "watch")
          /\ listing.status # "none" /\ Follows(Idle, listing, rows, index, c)
          => Follows([h EXCEPT !.seen = seen], listing, rows, index, c)
    BY DEF Follows
  <2>. HIDE DEF h
  <2>. QED
    BY <2>1, <2>2, BeginFollows
<1>2. ASSUME NEW r \in Created, NEW op \in {"poll", "refresh", "watch"},
             Begin(w, [Idle EXCEPT !.op = op, !.pc = "ask", !.row = r, !.was = rows[r]])
      PROVE  CalmInv'
  <2>. DEFINE h == [Idle EXCEPT !.op = op, !.pc = "ask", !.row = r, !.was = rows[r]]
  <2>1. r \in Row /\ rows[r] \in ScanStatus
    BY DEF Created, Inv, TypeOK
  <2>2. h \in Job /\ h # Idle
    BY <2>1
  <2>3. \A seen \in Listing \cup {None}, c \in BOOLEAN :
          /\ seen = listing \/ (seen = None /\ h.op = "watch")
          /\ listing.status # "none" /\ Follows(Idle, listing, rows, index, c)
          => Follows([h EXCEPT !.seen = seen], listing, rows, index, c)
    BY DEF Follows
  <2>. HIDE DEF h
  <2>. QED
    BY <1>2, <2>2, <2>3, BeginFollows DEF h
<1>3. CASE StartSync(w)
  <2>. DEFINE h == [Idle EXCEPT !.op = "sync", !.pc = "kyc"]
  <2>1. h \in Job /\ h # Idle /\ Begin(w, h)
    BY <1>3 DEF StartSync
  <2>2. \A seen \in Listing \cup {None}, c \in BOOLEAN :
          /\ seen = listing \/ (seen = None /\ h.op = "watch")
          /\ listing.status # "none" /\ Follows(Idle, listing, rows, index, c)
          => Follows([h EXCEPT !.seen = seen], listing, rows, index, c)
    BY <1>3 DEF Follows, StartSync
  <2>. HIDE DEF h
  <2>. QED
    BY <2>1, <2>2, BeginFollows
<1>4. CASE StartRefresh(w)
  <2>1. PICK r \in Created :
          Begin(w, [Idle EXCEPT !.op = "refresh", !.pc = "ask", !.row = r, !.was = rows[r]])
    BY <1>4 DEF StartRefresh
  <2>. QED
    BY <2>1, <1>2
<1>5. ASSUME NEW r \in Row, StartPoll(w, r) \/ StartWatch(w, r) PROVE CalmInv'
  <2>1. PICK op \in {"poll", "watch"} :
          r \in Created
            /\ Begin(w, [Idle EXCEPT !.op = op, !.pc = "ask", !.row = r, !.was = rows[r]])
    BY <1>5 DEF StartPoll, StartWatch
  <2>. QED
    BY <2>1, <1>2
<1>. QED
  BY <1>1, <1>3, <1>4, <1>5 DEF Start, StartEdit, StartSubmit, StartDelist

\* What a session writes while nobody else does: all that it set.
LEMMA WrittenInCalm ==
  ASSUME Inv, NEW seen \in Listing \cup {None}, seen # None => seen = listing,
         NEW status \in ListingStatus, NEW row \in Row
  PROVE  /\ Written(seen, status) = [listing EXCEPT !.status = status]
         /\ Promoted(seen, row).status = "live" /\ Promoted(seen, row).current = row
<1>1. listing \in Listing /\ "live" \in ListingStatus
  BY DEF Inv, TypeOK, ListingStatus
<1>2. ASSUME NEW s \in ListingStatus PROVE Written(seen, s) = [listing EXCEPT !.status = s]
  BY <1>1 DEF Written, Loaded, Listing
<1>3. Written(seen, "live") = [listing EXCEPT !.status = "live"]
  BY <1>1, <1>2
<1>4. CASE Loaded(seen, "current", row)
  <2>1. listing.current = row
    BY <1>4 DEF Loaded
  <2>2. Promoted(seen, row) = [listing EXCEPT !.status = "live"]
    BY <1>1, <1>3, <1>4 DEF Promoted, Listing
  <2>. QED
    BY <1>1, <1>2, <2>1, <2>2 DEF Listing
<1>5. CASE ~Loaded(seen, "current", row)
  BY <1>1, <1>2, <1>3, <1>5 DEF Promoted, Listing
<1>. QED
  BY <1>2, <1>4, <1>5

\* A new row is pending.
LEMMA InsertedPending ==
  ASSUME Inv, Insert
  PROVE  \E r \in Row : rows'[r] = "pending_scan"
BY DEF Insert, Inv, TypeOK

\* The row of the version is written by what the handler was told.
LEMMA ScannedRow ==
  ASSUME Inv, NEW h, h.row \in Row
  PROVE  /\ h.scan # h.was => Scanned(h)[h.row] = h.scan
         /\ h.scan = h.was => Scanned(h) = rows
BY DEF Scanned, Inv, TypeOK

\* The state of a handler that is not idle, and what it may rely on.
LEMMA Running ==
  ASSUME Inv, CalmInv, NEW w \in Worker, job[w].pc # "idle" \/ job[w].op # "none"
  PROVE  /\ job[w] # Idle /\ job[w] \in Job
         /\ Fits(job[w], listing, rows, approved, cleared)
         /\ alone => Follows(job[w], listing, rows, index, calm)
BY DEF CalmInv, Inv, TypeOK, JobsFit, Idle

LEMMA CommitFollows ==
  ASSUME Inv, CalmInv, NEW w \in Worker, CommitEdit(w) \/ CommitSubmit(w)
  PROVE  CalmInv'
<1>. DEFINE g == job[w]
<1>1. Insert /\ UNCHANGED <<index, alone>> /\ job' = [job EXCEPT ![w] = Idle]
      /\ \/ listing' = listing /\ calm' = calm
         \/ listing' = Written(g.seen, "pending_scan") /\ calm' = (calm \/ alone)
  BY DEF CommitEdit, CommitSubmit, Finish, Settle, history
<1>2. g # Idle /\ g \in Job /\ (alone => Follows(g, listing, rows, index, calm)) /\ g.pc = "commit"
      /\ g.op \in {"edit", "submit"}
  BY Running DEF CommitEdit, CommitSubmit
<1>3. ASSUME alone PROVE Follows(Idle, listing', rows', index', calm')
  <2>1. \E r \in Row : rows'[r] = "pending_scan"
    BY <1>1, InsertedPending
  <2>2. \/ listing' = listing /\ calm' = calm
        \/ listing' = [listing EXCEPT !.status = "pending_scan"]
    <3>1. g.seen \in Listing \cup {None} /\ (g.seen # None => g.seen = listing)
      BY <1>2, <1>3 DEF Follows, Job
    <3>2. 1 \in Row /\ "pending_scan" \in ListingStatus
      BY PublishGateAssumption DEF Row, ListingStatus
    <3>. QED
      BY <1>1, <3>1, <3>2, WrittenInCalm
  <2>3. listing'.status = "pending_scan" \/ (listing' = listing /\ calm' = calm)
    BY <2>2 DEF Inv, TypeOK, Listing
  <2>. QED
    BY <1>1, <1>2, <1>3, <2>1, <2>3 DEF Follows, Idle
<1>4. alone' = alone /\ (calm' => calm \/ alone)
  <2>1. calm' = calm \/ calm' = (calm \/ alone)
    BY <1>1
  <2>. QED
    BY <1>1, <2>1 DEF Inv, TypeOK
<1>. QED
  BY <1>1, <1>2, <1>3, <1>4, StepFollows

LEMMA AskFollows == ASSUME Inv, CalmInv, NEW w \in Worker, Ask(w) PROVE CalmInv'
<1>. DEFINE g == job[w]
            pc == IF g.op = "refresh" THEN "read" ELSE "record"
<1>1. /\ g # Idle /\ g \in Job /\ Fits(g, listing, rows, approved, cleared)
      /\ alone => Follows(g, listing, rows, index, calm)
      /\ g.pc = "ask" /\ UNCHANGED <<listing, rows, index, alone, calm>>
  BY Running DEF Ask
<1>2. PICK scan \in ScanStatus, was \in {g.was} \cup (IF g.op = "watch" THEN {rows[g.row]} ELSE {}) :
        \/ /\ g.op = "poll" \/ scan # g.was
           /\ job' = [job EXCEPT ![w].pc = pc, ![w].was = was, ![w].scan = scan]
        \/ Finish(w)
  BY DEF Ask
<1>3. CASE Finish(w)
  <2>1. alone => Follows(Idle, listing', rows', index', calm')
    BY <1>1 DEF Follows, Idle
  <2>. QED
    BY <1>1, <1>3, <2>1, StepFollows DEF Finish
<1>4. CASE /\ g.op = "poll" \/ scan # g.was
           /\ job' = [job EXCEPT ![w].pc = pc, ![w].was = was, ![w].scan = scan]
  <2>. DEFINE h == [g EXCEPT !.pc = pc, !.was = was, !.scan = scan]
  <2>1. job' = [job EXCEPT ![w] = h]
    BY <1>4
  <2>2. ASSUME alone PROVE Follows(h, listing', rows', index', calm')
    <3>1. /\ h.op = g.op /\ h.pc = pc /\ h.seen = g.seen /\ h.row = g.row
          /\ h.was = was /\ h.scan = scan
      BY <1>1 DEF Job
    <3>2. was = rows[g.row] /\ g.was = was
      BY <1>1, <1>2, <2>2 DEF Follows
    <3>3. g.op = "refresh" => g.seen # None
      BY <1>1 DEF Fits
    <3>4. Follows(g, listing, rows, index, calm)
      BY <1>1, <2>2
    <3>. HIDE DEF h, g
    <3>. QED
      BY <1>1, <1>4, <3>1, <3>2, <3>3, <3>4 DEF Follows
  <2>. HIDE DEF h
  <2>. QED
    BY <1>1, <2>1, <2>2, StepFollows
<1>. QED
  BY <1>2, <1>3, <1>4

LEMMA AskFailsFollows == ASSUME Inv, CalmInv, NEW w \in Worker, AskFails(w) PROVE CalmInv'
<1>. DEFINE g == job[w]
            h == [g EXCEPT !.pc = "read", !.scan = g.was]
<1>1. /\ g # Idle /\ g \in Job /\ (alone => Follows(g, listing, rows, index, calm))
      /\ g.pc = "ask" /\ UNCHANGED <<listing, rows, index, alone, calm>>
      /\ Finish(w) \/ (g.op = "poll" /\ job' = [job EXCEPT ![w] = h])
  BY Running DEF AskFails, history
<1>2. CASE Finish(w)
  <2>1. alone => Follows(Idle, listing', rows', index', calm')
    BY <1>1 DEF Follows, Idle
  <2>. QED
    BY <1>1, <1>2, <2>1, StepFollows DEF Finish
<1>3. CASE g.op = "poll" /\ job' = [job EXCEPT ![w] = h]
  <2>1. /\ h.op = "poll" /\ h.pc = "read" /\ h.seen = g.seen /\ h.row = g.row
        /\ h.scan = g.was
    BY <1>1, <1>3 DEF Job
  <2>2. alone => Follows(h, listing', rows', index', calm')
    <3>. HIDE DEF h
    <3>. QED
      BY <1>1, <1>3, <2>1 DEF Follows
  <2>. HIDE DEF h
  <2>. QED
    BY <1>1, <1>3, <2>2, StepFollows
<1>. QED
  BY <1>1, <1>2, <1>3

LEMMA RecordFollows == ASSUME Inv, CalmInv, NEW w \in Worker, Record(w) PROVE CalmInv'
<1>. DEFINE g == job[w]
            h == [g EXCEPT !.pc = "read", !.seen = None, !.was = None, !.scan = None]
<1>1. /\ g # Idle /\ g \in Job /\ Fits(g, listing, rows, approved, cleared)
      /\ alone => Follows(g, listing, rows, index, calm)
      /\ g.pc = "record" /\ UNCHANGED <<listing, index, alone, calm>>
      /\ job' = [job EXCEPT ![w] = h]
  BY Running DEF Record, history
<1>2. h.op = g.op /\ h.pc = "read" /\ h.seen = None
  BY <1>1 DEF Job
<1>3. g.op \in {"poll", "watch"}
  BY <1>1 DEF Fits
<1>4. alone => Follows(h, listing', rows', index', calm')
  <2>. HIDE DEF h
  <2>. QED
    BY <1>1, <1>2, <1>3 DEF Follows
<1>. HIDE DEF h
<1>. QED
  BY <1>1, <1>4, StepFollows

LEMMA ReadVersionFollows == ASSUME Inv, CalmInv, NEW w \in Worker, ReadVersion(w) PROVE CalmInv'
<1>. DEFINE g == job[w]
            scan == IF g.seen = None THEN rows[g.row] ELSE g.scan
            h == [g EXCEPT
                   !.pc = IF scan = "passed" THEN "kyc" ELSE "commit",
                   !.status = IF scan = "passed" THEN "none" ELSE scan,
                   !.seen = IF g.seen = None /\ (scan = "passed" \/ g.op = "watch")
                            THEN listing ELSE g.seen,
                   !.scan = IF g.op = "refresh" THEN g.scan ELSE None,
                   !.was = IF g.op = "refresh" THEN g.was ELSE None]
<1>1. /\ g # Idle /\ g \in Job /\ Fits(g, listing, rows, approved, cleared)
      /\ alone => Follows(g, listing, rows, index, calm)
      /\ g.pc = "read" /\ UNCHANGED <<listing, rows, index, alone, calm>>
      /\ job' = [job EXCEPT ![w] = h]
  BY Running DEF ReadVersion, history
<1>2. scan \in ScanStatus /\ g.op \in {"poll", "refresh", "watch"}
  BY <1>1 DEF Fits, Inv, TypeOK, ScanStatus
<1>3. /\ h.op = g.op /\ h.row = g.row
      /\ h.pc = IF scan = "passed" THEN "kyc" ELSE "commit"
      /\ h.status = IF scan = "passed" THEN "none" ELSE scan
      /\ h.seen \in {g.seen, listing}
      /\ g.op = "refresh" => h.scan = g.scan /\ h.was = g.was
  BY <1>1 DEF Job
<1>4. ASSUME alone PROVE Follows(h, listing', rows', index', calm')
  <2>1. Follows(g, listing, rows, index, calm)
    BY <1>1, <1>4
  <2>2. g.op = "poll" => scan = rows[g.row]
    BY <1>1, <2>1 DEF Follows
  <2>3. g.op = "watch" => g.seen = None /\ scan = rows[g.row]
    BY <1>1, <2>1 DEF Follows
  <2>4. g.op = "refresh" => scan = g.scan
    BY <1>1, <2>1 DEF Follows
  <2>. HIDE DEF h, g, scan
  <2>. QED
    BY <1>1, <1>2, <1>3, <2>1, <2>2, <2>3, <2>4 DEF Follows, ScanStatus
<1>. HIDE DEF h
<1>. QED
  BY <1>1, <1>4, StepFollows

LEMMA CheckPayoutsFollows == ASSUME Inv, CalmInv, NEW w \in Worker, CheckPayouts(w) PROVE CalmInv'
<1>. DEFINE g == job[w]
<1>1. /\ g # Idle /\ g \in Job /\ Fits(g, listing, rows, approved, cleared)
      /\ alone => Follows(g, listing, rows, index, calm)
      /\ g.pc = "kyc" /\ UNCHANGED <<listing, rows, index, alone, calm>>
  BY Running DEF CheckPayouts
<1>2. PICK status \in {"live", "waiting"} :
        job' = [job EXCEPT ![w].pc = IF g.op = "sync" THEN "pick" ELSE "commit",
                           ![w].status = status]
  BY DEF CheckPayouts, PayoutStatus
<1>. DEFINE h == [g EXCEPT !.pc = IF g.op = "sync" THEN "pick" ELSE "commit", !.status = status]
<1>3. job' = [job EXCEPT ![w] = h]
  BY <1>2
<1>4. /\ h.op = g.op /\ h.row = g.row /\ h.seen = g.seen /\ h.status = status
      /\ h.pc = IF g.op = "sync" THEN "pick" ELSE "commit"
      /\ h.scan = g.scan /\ h.was = g.was
  BY <1>1 DEF Job
<1>5. alone => Follows(h, listing', rows', index', calm')
  <2>. HIDE DEF h
  <2>. QED
    BY <1>1, <1>4 DEF Follows
<1>. HIDE DEF h
<1>. QED
  BY <1>1, <1>3, <1>5, StepFollows

LEMMA CommitGateFollows == ASSUME Inv, CalmInv, NEW w \in Worker, CommitGate(w) PROVE CalmInv'
<1>. DEFINE g == job[w]
            h == [Idle EXCEPT !.op = g.op, !.pc = "reload", !.row = g.row]
<1>1. /\ g # Idle /\ g \in Job /\ Fits(g, listing, rows, approved, cleared)
      /\ alone => Follows(g, listing, rows, index, calm)
      /\ g.pc = "commit" /\ g.op \in {"poll", "refresh", "watch"}
      /\ UNCHANGED <<index, alone>> /\ calm' = (calm \/ alone)
  BY Running DEF CommitGate, Settle
<1>2. g.row \in Row /\ g.seen \in Listing \cup {None} /\ g.status \in ListingStatus
  BY <1>1 DEF Fits, Job
<1>3. /\ h.op = g.op /\ h.pc = "reload" /\ h.row = g.row /\ h.seen = None
      /\ h.op # "sync"
  BY <1>1 DEF Idle
<1>4. CASE g.status \in {"live", "waiting"}
  <2>1. job' = [job EXCEPT ![w] = h]
    BY <1>4 DEF CommitGate
  <2>2. ASSUME alone PROVE Follows(h, listing', rows', index', calm')
    <3>1. g.seen # None => g.seen = listing
      BY <1>1, <2>2 DEF Follows
    <3>2. CASE g.status = "live"
      <4>1. listing'.status = "live" /\ listing'.current = g.row
        BY <1>2, <3>1, <3>2, WrittenInCalm DEF CommitGate
      <4>. HIDE DEF h, g
      <4>. QED
        BY <1>3, <4>1 DEF Follows
    <3>3. CASE g.status = "waiting"
      <4>1. listing' = [listing EXCEPT !.status = "waiting"]
        BY <1>2, <3>1, <3>3, WrittenInCalm DEF CommitGate
      <4>2. listing'.status = "waiting"
        BY <4>1 DEF Inv, TypeOK, Listing
      <4>. HIDE DEF h, g
      <4>. QED
        BY <1>3, <4>2 DEF Follows
    <3>. QED
      BY <1>4, <3>2, <3>3
  <2>. HIDE DEF h
  <2>. QED
    BY <1>1, <2>1, <2>2, StepFollows
<1>5. CASE g.status \notin {"live", "waiting"}
  <2>1. Finish(w) /\ listing' = Written(g.seen, g.status)
    BY <1>5 DEF CommitGate
  <2>2. ASSUME alone PROVE Follows(Idle, listing', rows', index', calm')
    <3>1. Follows(g, listing, rows, index, calm)
      BY <1>1, <2>2
    <3>2. g.status \in {"pending_scan", "scan_failed"} /\ (g.seen # None => g.seen = listing)
      BY <1>1, <1>5, <3>1 DEF Follows
    <3>3. listing' = [listing EXCEPT !.status = g.status]
      BY <1>2, <2>1, <3>2, WrittenInCalm
    <3>4. listing'.status = g.status
      BY <3>3 DEF Inv, TypeOK, Listing
    <3>5. g.status = "pending_scan" => rows'[g.row] = "pending_scan"
      <4>1. CASE g.op = "refresh"
        <5>1. g.scan # g.was /\ rows' = Scanned(g)
          BY <1>1, <3>1, <4>1 DEF Follows, CommitGate
        <5>2. g.status = "pending_scan" => g.scan = "pending_scan"
          BY <1>1, <3>1, <4>1 DEF Follows
        <5>. QED
          BY <1>2, <5>1, <5>2, ScannedRow
      <4>2. CASE g.op # "refresh"
        <5>1. rows' = rows
          BY <4>2 DEF CommitGate
        <5>. QED
          BY <1>1, <3>1, <4>2, <5>1 DEF Follows
      <4>. QED
        BY <4>1, <4>2
    <3>. HIDE DEF g
    <3>. QED
      BY <1>2, <3>2, <3>4, <3>5 DEF Follows, Idle
  <2>. QED
    BY <1>1, <2>1, <2>2, StepFollows DEF Finish
<1>. QED
  BY <1>4, <1>5

LEMMA ReloadFollows == ASSUME Inv, CalmInv, NEW w \in Worker, Reload(w) PROVE CalmInv'
<1>. DEFINE g == job[w]
            h == [g EXCEPT !.pc = "embed"]
<1>1. /\ g # Idle /\ g \in Job /\ (alone => Follows(g, listing, rows, index, calm))
      /\ g.pc = "reload" /\ UNCHANGED <<listing, rows, index, alone, calm>>
  BY Running DEF Reload, history
<1>2. h.op = g.op /\ h.pc = "embed" /\ h.row = g.row /\ h.seen = g.seen
  BY <1>1 DEF Job
<1>3. CASE listing.status = "live" /\ job' = [job EXCEPT ![w] = h]
  <2>1. alone => Follows(h, listing', rows', index', calm')
    <3>. HIDE DEF h, g
    <3>. QED
      BY <1>1, <1>2, <1>3 DEF Follows
  <2>. HIDE DEF h
  <2>. QED
    BY <1>1, <1>3, <2>1, StepFollows
<1>4. CASE listing.status # "live" /\ Finish(w)
  <2>1. alone => Follows(Idle, listing', rows', index', calm')
    BY <1>1, <1>4 DEF Follows, Idle
  <2>. QED
    BY <1>1, <1>4, <2>1, StepFollows DEF Finish
<1>. QED
  BY <1>3, <1>4 DEF Reload

LEMMA EmbedFollows == ASSUME Inv, CalmInv, NEW w \in Worker, Embed(w) \/ Purge(w) PROVE CalmInv'
<1>. DEFINE g == job[w]
<1>1. /\ g # Idle /\ (alone => Follows(g, listing, rows, index, calm))
      /\ job' = [job EXCEPT ![w] = Idle] /\ UNCHANGED <<listing, rows, alone, calm>>
      /\ \/ g.pc = "embed" /\ index' = g.row
         \/ g.pc = "purge" /\ index' = None
  BY Running DEF Embed, Embedded, Purge, Purged, Finish, history
<1>2. alone => Follows(Idle, listing', rows', index', calm')
  BY <1>1 DEF Follows, Idle
<1>. QED
  BY <1>1, <1>2, StepFollows

LEMMA PickVersionFollows == ASSUME Inv, CalmInv, NEW w \in Worker, PickVersion(w) PROVE CalmInv'
<1>. DEFINE g == job[w]
<1>1. /\ g # Idle /\ g \in Job /\ Fits(g, listing, rows, approved, cleared)
      /\ alone => Follows(g, listing, rows, index, calm)
      /\ g.pc = "pick" /\ UNCHANGED <<listing, rows, index, alone, calm>>
  BY Running DEF PickVersion, history
<1>2. CASE Finish(w)
  <2>1. alone => Follows(Idle, listing', rows', index', calm')
    BY <1>1 DEF Follows, Idle
  <2>. QED
    BY <1>1, <1>2, <2>1, StepFollows DEF Finish
<1>3. ASSUME NEW r \in Candidates, NEW seen \in {g.seen, listing},
             job' = [job EXCEPT ![w].pc = "commit", ![w].row = r, ![w].seen = seen]
      PROVE  CalmInv'
  <2>. DEFINE h == [g EXCEPT !.pc = "commit", !.row = r, !.seen = seen]
  <2>1. job' = [job EXCEPT ![w] = h]
    BY <1>3
  <2>2. g.op = "sync" /\ h.op = "sync" /\ h.pc = "commit" /\ h.seen = seen
    BY <1>1 DEF Job, Fits
  <2>3. alone => Follows(h, listing', rows', index', calm')
    <3>. HIDE DEF h
    <3>. QED
      BY <1>1, <2>2 DEF Follows
  <2>. HIDE DEF h
  <2>. QED
    BY <1>1, <2>1, <2>3, StepFollows
<1>. QED
  BY <1>2, <1>3 DEF PickVersion

LEMMA CommitSyncFollows == ASSUME Inv, CalmInv, NEW w \in Worker, CommitSync(w) PROVE CalmInv'
<1>. DEFINE g == job[w]
<1>1. /\ g # Idle /\ g \in Job /\ Fits(g, listing, rows, approved, cleared)
      /\ alone => Follows(g, listing, rows, index, calm)
      /\ g.pc = "commit" /\ g.op = "sync" /\ UNCHANGED <<rows, alone>> /\ Finish(w)
      /\ calm' = (calm \/ alone)
  BY Running DEF CommitSync, Settle
<1>2. ASSUME alone PROVE Follows(Idle, listing', rows', index', calm')
  <2>1. CASE /\ g.status = "live" /\ listing' = Promoted(g.seen, g.row)
             /\ index' = Embedded(g.row)
    <3>1. g.row \in Row /\ g.seen \in Listing \cup {None} /\ (g.seen # None => g.seen = listing)
      BY <1>1, <1>2 DEF Fits, Follows, Job, Inv, TypeOK
    <3>2. "live" \in ListingStatus
      BY DEF ListingStatus
    <3>3. listing'.status = "live" /\ listing'.current = g.row
      BY <2>1, <3>1, <3>2, WrittenInCalm
    <3>. QED
      BY <2>1, <3>3 DEF Follows, Idle, Embedded
  <2>2. CASE index' = index /\ listing' \in {listing, [listing EXCEPT !.status = "waiting"]}
    <3>1. listing'.status = "waiting" \/ listing' = listing
      BY <2>2 DEF Inv, TypeOK, Listing
    <3>. QED
      BY <1>1, <1>2, <2>2, <3>1 DEF Follows, Idle
  <2>. QED
    BY <2>1, <2>2 DEF CommitSync
<1>. QED
  BY <1>1, <1>2, StepFollows DEF Finish

LEMMA CommitDelistFollows == ASSUME Inv, CalmInv, NEW w \in Worker, CommitDelist(w) PROVE CalmInv'
<1>. DEFINE g == job[w]
            h == [g EXCEPT !.pc = "purge", !.seen = None]
<1>1. /\ g # Idle /\ g \in Job /\ (alone => Follows(g, listing, rows, index, calm))
      /\ g.pc = "commit" /\ g.op = "delist" /\ UNCHANGED <<rows, index, alone>> /\ calm' = (calm \/ alone)
      /\ job' = [job EXCEPT ![w] = h] /\ listing' = Written(g.seen, "delisted")
  BY Running DEF CommitDelist, Settle
<1>2. h.op = "delist" /\ h.pc = "purge" /\ h.seen = None
  BY <1>1 DEF Job
<1>3. ASSUME alone PROVE Follows(h, listing', rows', index', calm')
  <2>1. g.seen \in Listing \cup {None} /\ (g.seen # None => g.seen = listing)
    BY <1>1, <1>3 DEF Follows, Job
  <2>2. "delisted" \in ListingStatus /\ 1 \in Row
    BY PublishGateAssumption DEF ListingStatus, Row
  <2>3. listing' = [listing EXCEPT !.status = "delisted"]
    BY <1>1, <2>1, <2>2, WrittenInCalm
  <2>4. listing'.status = "delisted"
    BY <2>3 DEF Inv, TypeOK, Listing
  <2>. HIDE DEF h
  <2>. QED
    BY <1>2, <2>4 DEF Follows
<1>. HIDE DEF h
<1>. QED
  BY <1>1, <1>3, StepFollows

\* A listing is created for nobody else to see; a failure is no longer calm.
LEMMA CreateFollows == ASSUME Inv, CalmInv, Create PROVE CalmInv'
<1>1. /\ listing.status = "none" /\ listing' = [listing EXCEPT !.status = "draft"]
      /\ UNCHANGED <<index, job, alone, calm>>
  BY DEF Create, history
<1>2. listing'.status = "draft"
  BY <1>1 DEF Inv, TypeOK, Listing
<1>3. calm \/ alone => Quiet
  <2>1. SUFFICES ASSUME alone, NEW w \in Worker, job[w] # Idle PROVE FALSE
    BY DEF CalmInv, Quiet
  <2>2. Follows(job[w], listing, rows, index, calm)
    BY <2>1 DEF CalmInv
  <2>. QED
    BY <1>1, <2>1, <2>2 DEF Follows
<1>4. Follows(Idle, listing', rows', index', TRUE)
  BY <1>2 DEF Follows, Idle
<1>. QED
  BY <1>1, <1>3, <1>4 DEF CalmInv, Quiet

\* A handler that was cut off leaves calm to the next that is alone.
LEMMA AbortFollows == ASSUME Inv, CalmInv, NEW w \in Worker, Abort(w) PROVE CalmInv'
<1>1. job' = [job EXCEPT ![w] = Idle] /\ calm' = FALSE /\ alone' = alone /\ job[w] # Idle
  BY DEF Abort, Finish
<1>2. \A x \in Worker : job'[x] = IF x = w THEN Idle ELSE job[x]
  BY <1>1 DEF Inv, TypeOK
<1>3. alone => \A x \in Worker : job'[x] = Idle
  BY <1>1, <1>2 DEF CalmInv
<1>. QED
  BY <1>1, <1>3 DEF CalmInv

LEMMA CalmStep == Inv /\ CalmInv /\ [Next]_vars => CalmInv'
<1>. SUFFICES ASSUME Inv, CalmInv, [Next]_vars PROVE CalmInv'
  OBVIOUS
<1>1. ASSUME NEW w \in Worker, Step(w) PROVE CalmInv'
  BY <1>1, CommitFollows, AskFollows, AskFailsFollows, RecordFollows, ReadVersionFollows,
     CheckPayoutsFollows, CommitGateFollows, ReloadFollows, EmbedFollows, PickVersionFollows,
     CommitSyncFollows, CommitDelistFollows
  DEF Step
<1>2. CASE UNCHANGED vars
  BY <1>2 DEF vars, CalmInv, Quiet
<1>. QED
  BY <1>1, <1>2, CreateFollows, StartFollows, AbortFollows DEF Next

-----------------------------------------------------------------------------
\* The rows, the embedding, the handlers and the history keep their types.
THEOREM TypeCorrect == Spec => []TypeOK
<1>1. Inv => TypeOK
  BY DEF Inv
<1>. QED
  BY InitInv, InvStep, <1>1, PTL DEF Spec

\* The publish gate fails closed: however many handlers overlap, fail or act on
\* rows that have changed since they loaded them, a live listing offers a
\* version the scan service passed, of a seller the auth service confirmed.
THEOREM LiveWasVettedHolds == Spec => []LiveWasVetted
BY InitInv, InvStep, InvImplies, PTL DEF Spec

\* No embedding is ever made for a version that was not vetted.
THEOREM IndexWasVettedHolds == Spec => []IndexWasVetted
<1>1. Inv => IndexWasVetted
  BY DEF Inv
<1>. QED
  BY InitInv, InvStep, <1>1, PTL DEF Spec

\* Whatever overlaps and failures did to the search index, a handler that writes
\* the listing alone and comes to its end leaves it in agreement: a live listing
\* is found under its current version, ...
THEOREM LiveIsIndexedHolds == Spec => []LiveIsIndexed
BY InitInv, InvStep, InitCalm, CalmStep, CalmImplies, PTL DEF Spec

\* ... a delisted one is not found, ...
THEOREM DelistedIsPurgedHolds == Spec => []DelistedIsPurged
BY InitInv, InvStep, InitCalm, CalmStep, CalmImplies, PTL DEF Spec

\* ... and for a pending one the poller has a pending version to look at.
THEOREM PendingIsWatchedHolds == Spec => []PendingIsWatched
BY InitInv, InvStep, InitCalm, CalmStep, CalmImplies, PTL DEF Spec
=============================================================================
