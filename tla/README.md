# softXchange in TLA+

A verification development for softXchange, a marketplace on which sellers offer
software packages, a scan engine vets them, and buyers pay through Razorpay.
It holds TLA+ modules of the parts whose correctness depends on the order of
things, the instances on which TLC checks them, and proofs for TLAPS that hold
for instances of any size.

    tlc -workers 2 -config MCOrders.cfg MCOrders      # one run
    tlapm OrdersProofs.tla                            # one proof module

`PROJECT.json` maps every definition to the lines it stands for, and lists the
runs, the hazards and the theorems.

## 1. The system

Python services (FastAPI, SQLAlchemy) that share no database and talk over HTTP.
Plain `def` handlers run on a thread pool, each with a session of its own at READ
COMMITTED, without row locks or version columns; `async def` handlers occupy the
event loop of their process. Two facts about a session matter everywhere: a
commit expires what has been loaded, and a flush writes **only the columns whose
new value differs from the loaded one**. A handler that acts on a stale row can
thus both overwrite and fail to overwrite.

| component | state | operations | talks to | hard behaviours | what makes it correct |
|---|---|---|---|---|---|
| **payments-service** (`orders`, `webhooks`, `admin`, `fraud`, `storage`) | orders, entitlements, signed download tokens | create, verify, webhook, test-confirm, release, refund, download | Razorpay (calls and redelivered events), listings-service (status of the listing), auth-service (notifications) | verify racing the webhook; events duplicated, late, or after a refund; money moved before the commit | nothing is served without an entitlement; the ledger agrees with the money; holds and revocations last |
| **payments-service**, Connect | linked accounts | start, status, `account.*` events | Razorpay, auth-service (KYC callbacks, not retried) | lost and reordered callbacks, double onboarding | payouts only for sellers verified at the end |
| **auth-service**, KYC | seller profiles | start, submit, callback, sync, admin verify and reject, payout status | payments-service, listings-service | stale profile on a callback | fails closed |
| **scan engine** (`job_queue`, `intake`) | `scan_jobs`, version and upload records, storage keys | submit, claim, scan, heartbeat, complete, fail, reap | the scanners | crash in the middle, late answers of reaped jobs, records shared by threads | a rejected package is never passed or live; every job ends; one worker per job |
| **scan engine**, orchestrator (`service_orchestrator`, `cve_check`, `contract`) | records, advisory cache, storage | scan, query OSV, merge, move, record | OSV, object storage, the repository | slow and failed answers, overlapping runs on one cache, failure between move and record | no known advisory goes live; what is live is stored |
| **scan engine**, one scan (`extractor`, `walker`, `scanner`, `git_history`, `static_analysis`) | scratch directory, findings | unpack, clone, walk, match, read history, inspect | git | budgets, archives that lie, matches that overlap | a package that passes was read; the disk is bounded |
| **scan-service** | the engine's objects, in memory | HTTP front, one worker thread, no reaper | listings-service | restart loses everything | an unknown version counts as pending |
| **listings-service** (`gate`, `indexer`, `routes/listings`) | listings, versions, embeddings | create, edit, submit, poll, dashboard (refresh and KYC sync), background poller, withdraw, suspend | scan-service, auth-service | check-then-act over two HTTP answers; a second transaction for the index; outages | live and indexed only what was scanned and cleared; delisted listings purged; no pending listing forgotten |
| **listings-service** questions, **buyer-assist**, **broker**, **seller-assist** (with `ml_shared`) | questions, drafts, replies | ask, route, search, draft, send, reply | each other, auth-service (notifications) | rows loaded at different moments, drafts that grow old | what is said is true; a reply that was announced is there |
| **auth-service**, sessions, with the browser's `auth.js` | users, refresh tokens, mailed tokens, rate-limit windows | register, login, refresh, logout, forgot, reset, verify | mail | reset racing a login, token used twice, parallel attempts, late answers | a reset ends every old session; the limit is a limit; signed out is signed out |
| **auth-service**, admin provisioning | codes used, audit log, roles | provision | - | parallel attempts, two users of one code | one admin per code; guesses bounded |
| **services'** JWKS key managers | cached keys | fetch, decode | auth-service | rotation, overlapping and failed fetches | a retired key is not trusted for long |
| **auth-service**, GitHub link | one row per seller, its notifications | authorize, callback, disconnect, badge | GitHub | overlapping callbacks and disconnects, codes that come twice, partial flush | the row and the last notification agree |
| **auth-service**, notification inbox; reviews, saved listings | single rows | single-row writes | - | - | - |
| web and Android front ends, detectors' patterns | - | UI, string matching | - | - | - |

A sale crosses the services like this: a seller submits a version
(listings-service to scan-service), the engine scans it, polling brings the
verdict back, the gate asks auth-service for the payout status and publishes;
a buyer's `create_order` asks listings-service once, then Razorpay's events and
the buyer's `verify` race to confirm; refunds go from an admin to Razorpay and
back into the ledger. The modules of section 2 are the places where this chain
commits to something, and where a user or a service is let in.

## 2. Modules

| module | models | theorems in |
|---|---|---|
| `Orders` | the order ledger of payments-service, with Razorpay | `OrdersProofs` |
| `ScanQueue` | job queue, intake pipeline, worker and reaper of the scan engine | `ScanQueueProofs` |
| `PublishGate` | publish gate, listing life cycle and search index of listings-service | `PublishGateProofs` |
| `PayoutGate` | abstract: what auth-service promises of a seller's payout gate | - |
| `Kyc` | onboarding, account events, callbacks and the seller's profile; implements `PayoutGate` | `KycProofs` |
| `Sessions` | login, refresh, logout, mailed tokens, rate limiter, and the browser | `SessionsProofs` |
| `ScanContract` | severities, verdicts, their merge and their collapse: operators only | - |
| `ScanPipeline` | the orchestrator's run, the CVE scanner and its cache, storage and record; over `ScanContract` | `ScanPipelineProofs` |
| `PackageScan` | one scan of the bytes of a package; over `ScanContract` | `ScanToBuyerProofs` |
| `Admission` | provisioning of the admin role; key rotation and the key cache | `AdmissionProofs` |
| `Questions` | answers, drafts and replies about a listing that changes | `ScanToBuyerProofs` |
| `GitHubLink` | the GitHub account that a seller shows | `AdmissionProofs` |

`MC`*module* gives each its values. An operator named
`Operator_fault` next to `Operator` is a plausible fault of the same code: it is
used by no action, and every property is known to fail when one of them takes
the operator's place. `ScanToBuyerProofs` and `AdmissionProofs` are about two modules
each, and `MCAdmission` and `MCScanToBuyer` instantiate the same two; these have no name in
common, which is why the definitions of `Questions` and `GitHubLink` bear a prefix
(`QuestionsInit`, `LinkInit`).

The modules meet in what one takes from another: `PublishGate` asks for a scan
status and a payout answer and accepts any, in any order; what those answers may
be is the subject of `ScanQueue`, `ScanPipeline` and `Kyc`. Each of these is thus
checked against an environment that is freer than the real one, and a property
proved of it holds in their composition. `Kyc` is itself a composition, of two
services and the channel between them. `Questions` takes the listing's handlers of
`PublishGate` as single steps, and its `RecordScan` is where the verdict of a scan arrives.

### Orders

`db[o]` is the committed row (`status`, `hold_status`, `razorpay_payment_id`) and
`ents[o][w]` the entitlement row that worker `w` inserted, so that two rows for one
order can exist, as they can in the table. `rzp` is Razorpay's own record of the
payment; it is external, and modelled by what the handlers rely on: a payment is
captured once, refunded once, and its events carry the order's own id. `recent`
is the window of fraud rule 2, `tokens` the unexpired downloads, `told` the
`order_paid` notifications received.

A worker's `job` is one request. Each action is one database access: loading the
order (`LoadConfirmation`, `LoadRelease`, `LoadRefund`), looking for an entitlement
(`FindEntitlement`), the fraud queries (`ScoreFraud`), and the commit, whose
`Flushed` writes only what differs from the row that was loaded. `GatewayRefund`
and `GatewayRefuses` are the call to Razorpay, whose answer may be lost. `Abort`
ends a request at any point and drops what is not committed. `razorpay_webhook` is
`async` and never awaits after it has read the body: it runs on `Loops`, the
others on `Threads`. The three confirmations share their actions because the
code repeats the same block three times; `Evidence` tells them apart.

### ScanQueue

`jobs` is the table `scan_jobs`. Its accesses are steps of their own because one
lock guards it. `recs[s]` is the `ListingVersion` *object* made for submission `s`
and `versions[v]` tells whose object is under the key: workers keep the object
they looked up, and the gateway replaces the one under the key. `hold[w]` is the
worker's place in `process_one_job`; `stale` is the reaper's list between finding
and burying. The content of a package is the choice whether the scanners accept
it (`Clean`); extraction, clone and scanner errors come out of `Outcomes` as
`scan_failed`, as they do in `submit_upload`. `Raise` is an exception outside the
scan. A restart empties the memory, and the table too unless it is `Durable`.
The upload records mirror the version records and are left out.

### PublishGate

One listing: its row, its version rows (numbered by `created_at`), its embedding,
and per thread the handler it runs. One more handler is the background
poller (`watch`), which every 2 seconds asks for each pending version and runs the gate. `Written` and `Promoted` are the
flush: `seen` is the row as loaded, or `None` when a commit has expired it, in
which case all that was set is written. `Ask` and `CheckPayouts` take any answer,
because scans, resubmissions, suspensions and restarts happen between any two
requests; an unknown version and a scan service that cannot be reached are a
pending answer, as in `query_status`. The gate's publication and the embedding
are two transactions (`CommitGate`, then `Reload` and `Embed`); those of
`sync_seller_kyc` are one (`CommitSync`). The refresh of the dashboard, which the
code begins with that sync, is modelled apart from it (`StartSync`, `StartRefresh`). When the sync leaves a listing waiting it
assigns the status and does not commit it; a later commit of the same dashboard
request may write it, over a withdrawal made since. Two pairs of statuses that no handler
tells apart are merged. `approved`, `cleared`, `alone` and `calm` are history variables: `alone`
says that what runs has overlapped nothing since it began, and `calm` is lost by any
overlap or failure and comes back (`Settle`) with the next commit of a listing by a handler
that is `alone`. Three properties are stated under `calm`, and so say what such a handler repairs.
Reading and writing the embedding's row is one step; a conflict in that gap makes
the database refuse the write, which is `Abort`.

### PayoutGate and Kyc

`PayoutGate` is the promise that downstream services rely on: `open`, the answer they
get, and `standing`, whether some verification has not been revoked by a later
decision. It opens only by a verification, a decision taken after one closes it, and
a decision that overlapped a verification may or may not prevail.

`Kyc` has the two services with the columns they keep (`profile` in auth-service,
`linked` in payments-service), Razorpay's accounts and their events, and the callback
on its way (`hook` while the webhook waits, `calls` until auth-service takes it up).
Every handler loads the profile in one step and writes in `Commit` what differs
from what it has loaded (`Flushed`). `Deliver` is the `account.*` branch of the
webhook; `Answer` ends its wait, by auth's answer or after five seconds, so that the
callback may still arrive later.
`StartConnect`, `CreateAccount` and `InsertProfile` are an onboarding that may be
overtaken by another after it has made its account. `Promise` maps `open` to
`is_seller_payout_enabled` and `standing` to the history variable of that name.

### Sessions

One account, its sessions (`session`, the rows of `refresh_tokens`), its mailed tokens,
the limiter's counters per address and e-mail, and one browser: the refresh cookie
and the access token in memory, which `auth.js` changes when an answer is received.
Any client may log in with any password of now or before; the browser's requests
travel (`Send`), are served, and their answers are received or lost. `CheckLimit` and the
record of a failure in `VerifyPassword` are apart, as in `login`; `RevokeSessions` is
the UPDATE of a reset, whose row locks make it and its commit exclude another. `CookieAfter`
lets the browser keep its cookie at a logout: `delete_cookie` names neither of the attributes
that the cookie has in production. `calm` is the history of whether a login overlapped a
reset, `signedOut` of whether the browser has been answered a logout since its last login, and
whether a refresh was on its way. `is_active` is written by no route and is not followed.

### ScanContract, ScanPipeline and PackageScan

`ScanContract` has the verdict rules of the scanners as operators; both modules use
them, so that a change of the merge or of the collapse breaks the properties of both.

`ScanPipeline` runs `process_upload` (`Upload`) and the intake worker (`Worker`) on packages
that share the advisory cache. The secrets and static scanners are a choice of
verdict (`Scan`) or an exception (`Raise`); the CVE scanner is modelled to the call:
look-up, batch by chunk, retries, and one `set` for each answer, while OSV publishes
advisories and the clock ticks. Then the move to live storage, the record and the
exception handler that records a failure (`Gate`, `Save`, `Fallback`). A batch answer is
taken to be complete and one-to-one, as `query_batch` takes it: `next_page_token` is
not read. The flags `fail_open` and strict mode have their defaults (off). An
advisory without a score counts as medium and never blocks.

`PackageScan` is what happens inside one scan. An upload is an archive, whose members
declare sizes that need not be true, or a repository with a log. The scan unpacks chunk by
chunk (`ReadChunk`), walks the files in any order within its budgets (`Visit`), considers
the candidate matches of each line in the order of precedence (`Consider`), reads the
history for repositories, and inspects code and manifests. Which text matches which
rule is given by the instance; what a match does to the ones it overlaps is modelled.
A finding has its line and column, so that one secret on two lines is two findings, as in the
code; `Reported` is the index of the tree's findings, which keeps the last of a key, and the
set of those seen in the history. `LogEnds` and `Legible` are the caps of the history that
nothing reports: `git log --max-count=500`, and the cut of each line of the diff at 1 MB.
Any budget check may find the time used up.

### Admission

`CheckLimit`, `LookUpCode`, `VerifyCode` and `Elevate` are the reads and the commit of
`provision_admin_role`; `audit` holds the failures inside the window, which `Refuse` adds and
`Elapse` takes away. The other half is the key cache of one service against the key
that auth-service runs with: `GetKey`, `AnswerKeys`, `InstallKeys` and `FetchFails` are
`get_key` and `refresh_keys`, with auth's answer and its installation apart. Ages are counted in
ticks and stop where they no longer matter. `Redeploy` changes the code, the key
pair or both; a key that was retired does not come back.

### Questions

A text is the one thing it claims: a price, that the scan counted nothing critical or
something, one of the two badges, what the guardrails forbid, or nothing of the kind. A
request (`job`) remembers what it has loaded, and `facts` what has been true since of what it
may tell (`Tells`, `Known`). `Synthesized` is `_synthesize_answer`, of which any part may be
what is told; on security it has two, the counts and the badge. `Badge` is made of the
listing's status, and `Search` states it of every row. `Allowed` is `check_guardrails`, which
looks for a price and for "0 findings" but not for the badge, and `Quoted` the version whose
counts the bundle has: the one on offer for the services for buyers, the newest for
seller-assist. `Edit`, `Submit`, `RecordScan`, `Publish` and `Delist` are what the handlers of
`PublishGate` do to the columns that matter here. `StoreDraft` writes one column of the row it has loaded.

### GitHubLink

One seller: the row (`connection`), the notification about it that was committed last
(`notice`), the codes that GitHub has given out, and up to as many requests as the
instance has. Rows of two sellers have nothing in common. `Callback`, `Exchange`, `Fetch`,
`Load` and `Store` are `_process_github_connection`: the code is checked for, exchanged,
the profile fetched, and only then the row loaded. Row and notification are committed
together; an insert fails when a row has appeared and an update when it has gone, so that neither leaves anything. `Disconnect`
and `Delete` are `disconnect_github_account`, whose DELETE names the key only. An account stands for
its login, id and age, which change together; the count of repositories is apart. The mock
profiles are `CallbackWithProfile`. `apart` is the history of whether no two callbacks were between
load and commit at once.

## 3. Runs

A run's type invariants are not listed where the type theorem of its module is
proved; they were checked first and proved afterwards.

| run | instance | question | states |
|---|---|---|---|
| `orders` | 1 order, 1 event loop, 1 thread, test-confirm included, fairness | `EntitledBeforeServed`, `MoneyTrail`, `RevocationIsFinal`, `EveryPaymentDelivers` | 17 thousand |
| `orders_fraud` | 2 orders of one seller and one buyer, no refunds, symmetry | `NewSellerHeld`, `HeldUntilReviewed` | 207 thousand |
| `orders_refund_race` | 1 order, 1 event loop, 1 thread | finds a refunded order with an active entitlement (`RefundRevokes`) | - |
| `scan_queue` | 2 versions, 2 submissions (one accepted), 2 workers, 2 attempts, 1 restart, reaper, durable table, fairness of the workers | `OneWorkerPerJob`, `VettedOnce`, `NoLimbo`, `AttemptLeft`, `JobSettles` | 608 thousand |
| `scan_queue_resubmit` | 1 worker, table in memory, no reaper: scan-service as deployed | finds a rejected upload live (`BadUploadNeverLive`) | - |
| `publish_gate` | 2 versions, 2 threads, symmetry | `LiveWasVetted`, `IndexWasVetted`, `LiveIsIndexed`, `DelistedIsPurged`, `PendingIsWatched` | 9.8 million |
| `kyc` | 2 accounts, 2 changes at Razorpay, 1 thread and the loop of auth, 2 threads of payments | `ClosedAfterRevocation`, `OnlyLinkedSpeaks`, `AgreesWithRazorpay`, `ImplementsPayoutGate` | 3.4 million |
| `sessions` | 2 requests, 2 sessions, 2 mailed tokens, 1 address, limit 1 | `ResetEndsSessions`, `AttemptsBounded`, `UsesEnd`, `SignedOutStays` | 5.2 million |
| `scan_pipeline` | 1 package with 1 dependency, 1 blocking advisory, one run of each caller, 1 retry, lifetime 1, delay 1, 3 times | `NothingKnownGoesLive`, `LiveIsStored` | 5.7 million |
| `scan_to_buyer` | every tree of up to 4 of 6 paths, 9 logs, archives of up to 3 members; and, with this at rest, 2 requests, 2 versions, 2 prices | `PassedIsRead`, `DiskBounded`, `ReportedOnce`; `ToldWhatWasTrue`, `SentIsCurrent`, `AnnouncedIsThere` | 4.5 million |
| `admission` | 2 requests, 2 users, 1 address, 2 codes, 2 keys, limit 1, 3 rows, lifetime 1, delay 1; and, with all this at rest, 2 requests of a seller with 2 accounts, 2 counts and 2 codes of GitHub | `OneAdminPerCode`, `GuessesBounded`, `KeyIsRecent`, `NoticeAgrees`, `ShownIsTold` | 861 thousand |
| `questions_badge` | 1 request, 2 versions, 2 prices | finds an answer with critical counts and the badge of none (`BadgeAgrees`) | - |

**Bounds.** Two workers give every overlap of two requests. One order suffices
for the ledger, since handlers of different orders meet only in the fraud
queries, and `orders_fraud` has two large orders with `NewSellerMaxSales = 0`, so
that one sale tips the rule, and `RapidBuyerLimit = 2`. Two submissions are enough
to replace a record, two attempts to tell a retry from the end, one restart to
lose the memory at any point. Two version rows allow a newer and an older
version to compete for the index. Two accounts are an onboarding overtaken by
another, two changes an event that overtakes another. A limit of 1 lets one failure
decide between two requests, a lifetime and a delay of 1 tell fresh, old and too old
apart. In `scan_pipeline` one dependency means one chunk: batches of several were too
many states beside two overlapping runs, and are covered by the proof only. `Admission` and
`GitHubLink` share a run in which each moves while the other is at rest, and so do
`PackageScan` and `Questions`: two such modules have no variable in common, and nothing is
lost. Two requests make every overlap of two
callbacks, or of a callback and a disconnect; two counts may coincide or differ where the accounts
differ, which is what makes a partial flush visible. The budgets
of `PackageScan` are such that each is exceeded by some upload and met exactly by another; its
logs have commits within and beyond `MaxCommits = 2`, and matches before, across and beyond
`MaxLine = 12`. `MaxSub`,
`MaxRows`, `MaxRestarts`, `MaxNews`, `MaxTime` and `MaxVersions` bound counters and are the only
bounds in guards. Deadlock is checked except for `ScanQueue`, where all submissions may have been
made and all jobs ended, and `PackageScan`, where a scan ends.

**Fairness.** `Orders`: Razorpay delivers an event until it is answered with 200,
so a webhook that can be served is served again and again (strong fairness of
`LoadConfirmation` for webhooks), and no step of a confirmation fails on every
attempt (strong fairness of its steps, as `Abort` may disable each now and then).
Nobody is obliged to buy, pay, verify, review or refund. `ScanQueue`: only the
worker threads keep running, and a scan ends because clone, archive and scanner limits are in
place; a hung scan is excluded by this. Nothing is assumed of the reaper, which nothing in
the repository calls (scan-service starts a worker, `main.py:20-51`): `JobSettles` holds
without it, and therefore excuses the jobs that a restart left in processing, which only a
reaper would end. The other modules have no fairness, and need none. In `PublishGate` the
poller does run every 2 seconds, but what it is told is arbitrary, so nothing is
bound to be published; what can be said without the answers is `PendingIsWatched`: the poller
loses sight of a pending listing only by an overlap or a failure, and no longer than until a
handler writes the listing undisturbed. Callbacks
and notifications are sent once and may be lost, requests may fail, and users are
free: nothing there is bound to happen. `AgreesWithRazorpay` says instead that a
system in which nothing was lost agrees once it is at rest.

## 4. Proofs

Everything below holds for every value of the constants that satisfies the named
assumption of the module (`OrdersAssumption` and so on: types, finiteness of what is
counted, and `None` being none of the values). TLC evaluates each on the run's values.
In every module the property is not inductive because a commit relies on what its
handler has read before; the invariant adds what a handler may still rely on.

* **OrdersProofs.** `TypeCorrect`; `EntitledBeforeServedHolds`, `MoneyTrailHolds`
  and `RevocationHolds` (rows of an order that was revoked come only from requests that had
  looked for one before) from the inductive invariant `IInv`: `HandlerInv`
  says that what was read still bounds what is stored (orders do not vanish,
  recorded payments stay recorded), `EvidenceInv` that a confirmation holds a
  captured payment and that a refund's entitlement exists, `CheckoutInv` that an
  order being created has one handler, `LedgerInv` ties the row, the entitlements
  and Razorpay together. `NewSellerHeldHolds` and `HeldUntilReviewedHolds`, without
  refunds (`"refund" \notin Handlers`; a refund takes a sale back and makes both
  false): `HoldInv` records, for each handler, either that it will hold the order
  or that the seller already has more paid sales than the rule asks for; the
  number of other paid sales only grows, by monotonicity of cardinality.
* **ScanQueueProofs.** `TypeCorrect`, `OneWorkerPerJobHolds`, `AttemptLeftHolds` from
  `HoldInv` and `AttemptInv` (a worker's job is processing or was reaped, and is no
  other worker's; failures of one job never overlap), and `VettedOnceHolds` from
  `RecordInv` and `PassedInv`: an object that a version or a worker can reach was
  made for the same version, and passed only if an accepted package of that version
  was submitted. `NoLimboHolds` from `LimboInv`: a version whose record is not
  final has a job that waits, or a worker that has not looked its record up or will write to this
  one, or its enqueue failed (`EnqueueInv` says of which submissions that may be said).
* **PublishGateProofs.** `TypeCorrect`, `LiveWasVettedHolds`, `IndexWasVettedHolds`.
  `Fits` says what a handler may rely on whatever others have done since it loaded
  its rows: a version it calls passed was passed, it publishes only after both
  answers, and a listing that once had a current version keeps one. The last part
  is what makes the partial flush harmless: when `current_version_id` is not
  written because it did not change, some other vetted version is there.
  `LiveIsIndexedHolds`, `DelistedIsPurgedHolds`, `PendingIsWatchedHolds` are about what a handler
  that is `alone` leaves, whatever was wrong before it: `Follows` says that such a handler
  has current rows from its load on, and, from its commit on, that the index and the poller's list
  are at the point where it is.
* **KycProofs.** `TypeCorrect`, `ClosedAfterRevocationHolds`, `OnlyLinkedSpeaksHolds`,
  `AgreesWithRazorpayHolds`, and the refinement
  `KycImplementsPayoutGate`: every step of a handler is a `Verify`, `Revoke` or `Deny` of the
  abstract gate or a stutter. The invariant says of a handler with no verification
  since it loaded the profile (`fresh`) that what it saw closed is closed still, so
  that a column which it does not write needs no writing.
* **SessionsProofs.** `TypeCorrect`, `ResetEndsSessionsHolds`, `SignedOutStaysHolds`,
  `UsesEndHolds`, `AttemptsBoundedHolds`. `CalmInv` says that a calm login has read
  the password that still holds and that a reset will end every calm session it must;
  `TokenInv` and `QuietInv` that the token a browser has kept through a logout was revoked before
  the answer, and that no login of that browser is under way; `UsesInv` that a token that may still
  be taken up has not been used; `AttemptsInv` counts what has happened and what requests
  in flight may still add.
* **ScanPipelineProofs.** `TypeCorrect`, `NothingKnownGoesLiveHolds`, `LiveIsStoredHolds`.
  Every answer, on its way, cached or used, names each advisory older than it; its
  age is bounded by the delay and the lifetime, and a run that is still passed has an answer
  for each dependency.
* **AdmissionProofs.** `TypeCorrect`, `OneAdminPerCodeHolds`, `GuessesBoundedHolds`,
  `KeyIsRecentHolds`. `RecentInv` says how long ago the cached key, and an answer
  on its way, may have gone out of use; `GuessInv` counts the wrong codes in the window
  together with the requests past the limit.
  `NoticeAgreesHolds` and `ShownIsToldHolds`, of `GitHubLink`: `CallbackInv` says what a
  callback holds at each step, `ApartInv` that the row which the only callback between load and commit
  has loaded is there unchanged, or has gone.
* **ScanToBuyerProofs**, what a scan concludes and what a buyer is told of it. `PackageScan`:
  `PackageTypeCorrect`; `PassedIsReadHolds` from an
  invariant that follows a line of a file through the scan: not yet reached, among the
  candidates that are left (`LineInv`), read or covered by what was reported (`FileInv`,
  `WalkInv`), and then part of the verdict (`StaticInv`, `StoredInv`, `VerdictInv`), with `HistoryInv` for the
  lines of the log up to the two caps; `ReportedOnceHolds`, as the tree's findings are at places
  that are left behind (`PlaceInv`) and have no commit before the history begins (`PhaseInv`);
  `DiskBoundedHolds`, as what has been counted is at least what is on the disk (`DiskInv`). The
  assumption adds that a rule by entropy never has high confidence, as in the code.
  `Questions`: `AnswersTypeCorrect`, `ToldWhatWasTrueHolds`, `SentIsCurrentHolds`,
  `AnnouncedIsThereHolds`. `FactsInv` says that the price, the counts and the badge that a
  request may tell are among its facts through every change of the listing, `SellerInv` that
  a reply is committed before it is announced.

Only model-checked are the two liveness properties, `EveryPaymentDelivers` and `JobSettles`:
fairness and `ENABLED` are outside the prover's reach. `BadUploadNeverLive`, `RefundRevokes` and
`BadgeAgrees` are violated (section 5).

## 5. Where the code departs from what the repository says

Shown by a run:

* *a rejected upload passes and is live* (`BadUploadNeverLive`): an earlier job of the same
  label writes its verdict on the newer record;
* *a refunded order keeps an active entitlement* (`RefundRevokes`): `admin.py:112` says that a
  refund revokes it, but one that a concurrent confirmation is about to insert is not there
  to be revoked, and the confirmation does not look at the order again;
* *an answer states critical findings and the badge of none* (`BadgeAgrees`): `context.py:31`
  says "Never re-derive or guess severity counts or vetted status" and ml-shared's README:15
  the same of the badge, but the badge "Scanned - 0 critical findings" is derived from the listing's
  status (`context.py:209`, `listings.py:427`) or written into the code (`search.py:123`), while
  critical counts of the version on offer are stored before the gate takes the listing off
  (`listings.py:584`, `main.py:43`). The guardrails do not look for it (`guardrails.py:100`).

Met while modelling, without a run of their own:

* payments: two entitlements for one payment, as the look-up and the insert of
  `webhooks.py:178` and `orders.py:205` are not atomic and `order_id` is not unique (a
  later refund revokes one of the two); a refunded order becomes paid again, as
  `webhooks.py:167` skips only paid orders when an event arrives once more; a refund
  whose commit is lost is never reconciled, as `refund.processed` is enabled by the
  live-mode guide and handled by nothing. Refunding a pending order looks for a locally
  recorded payment (`admin.py:126`), so money captured but not yet confirmed stays; a
  slow confirmation holds again an order that was released since it loaded it; `fraud.py:18` says rules run at order creation, they run at confirmation.
* scan engine, queue: `job_queue.py:349` promises that a job with heartbeats is never
  reaped, but the heartbeat may come back between finding and burying; buried jobs
  come back as completed or queued; `resubmit_intake_async` (line 591) registers a
  record without a repository URL, and the job it queues looks for the URL in the
  first record of the listing, which may be that one. `submit_intake_async` registers the
  record before it queues the job (lines 549-570): when the insert raises, the version stays
  `pending_scan` for ever (`NoLimbo` excuses it). Nothing calls `reap_timed_out_jobs`: jobs
  in processing when a process over a durable table ends are never ended (`JobSettles`
  excuses them).
* scan engine, orchestrator: the handler at `service_orchestrator.py:393` records
  `scan_failed` after line 357 has moved the package to live storage, although the comments
  at 361 and 308 say that such a package is never in `live/`.
* scan engine, one scan: `manifests.py:3` says that lockfiles are inspected, but the walker
  skips `package-lock.json`, `yarn.lock` and `Cargo.lock` (`walker.py:14`); `scanner.py:67`
  calls its budget that of the total scan, but the history pass has a clock of its own
  (`git_history.py:79`); an added line that begins with `++` is taken for a header
  (`git_history.py:168`); the extractor admits files of 10 MB and the walker skips those
  above 5 MB; the engine's README:80 offers a scan of the full Git commit history, but
  only the latest 500 commits are read (`scanner.py:56`, `git_history.py:77`) and of each line of
  the diff only the first 1 MB (`git_history.py:126`), and the result tells neither
  (`PassedIsRead` excuses what is beyond); a match of a token of medium severity hides an overlapping
  match that would block (`JWT_TOKEN` over `DATABASE_CONNECTION_STRING`), which
  `PassedIsRead` therefore excuses; clones have no disk budget.
* listings-service: polling any version of a suspended or withdrawn listing runs
  the gate and publishes it again, and the background poller does so when its scan
  ends; polling during an outage of scan-service, or
  after its restart, takes a live listing off; `sync_seller_kyc` may publish a listing
  withdrawn during its KYC check; a withdrawal whose purge comes late removes the
  embedding of a listing that is live again, and an embedding written late
  outlives a suspension; an edit of a live listing makes a draft version that no
  scan was asked for and whose polling demotes the listing. `main.py:25` says
  that sellers need not keep their browser tab open, but the poller looks for
  pending versions, and it commits a version's verdict before it runs the gate:
  if the gate fails in between, the listing stays pending until somebody polls
  that version (`PendingIsWatched` therefore excuses failures, until the next undisturbed
  write). Edits of
  one review that race may mix the rating of one submission with the text of another
  (partial flush).
* sessions: `auth.py:465`, `models/user.py:120` and `tests/test_auth.py:447` call mailed tokens
  single-use, but two requests that overlap both find a token unused (`UsesEnd` says that nobody
  does afterwards). A logout deletes the cookie without the `SameSite` and `Secure` that it has in production
  (`auth.py:380` and `config.py:107`; `auth.js:8` says `SameSite=Lax`), and a browser ignores that from another
  site: what makes the logout last is the revoked token (`SignedOutStays`). A refresh under
  way during a logout may sign the browser in again with a new token.
* keys: listings-service `auth.py:36` says that keys are refreshed on a verification failure
  or an unrecognized kid, but decoding never does and every key has the same kid: after a
  rotation valid tokens are refused, and those of the old key accepted, until the cache
  expires; while auth-service cannot be reached, expired keys serve on (`KeyIsRecent` leaves
  out requests whose fetch failed).
* GitHub link: callbacks that overlap between load and commit may leave the account of one
  profile with the repository count of another on the badge (`github.py:241`, partial flush), where the
  notifications of both told a whole profile; `ShownIsTold` therefore excludes them.
* admin provisioning: `admin.py:84` promises "Strict rate limiting: max 3 failed attempts per
  hour per user/IP", but the failures are counted before the code is compared, and requests that
  overlap all pass: `GuessesBounded` says by how much the limit is exceeded at most;
  `admin.py:86` speaks of logging every attempt, but the loser of two
  overlapping elevations and a crash are not logged; refusals by the limit count as
  failures and prolong it; the state of a code is kept under the fingerprint of
  `ADMIN_PROVISIONING_CODE` while the check uses `ADMIN_PROVISIONING_CODE_HASH` when it is set.
* questions: `context.py:66` says that the bundle is consumed identically by the three
  services, but that of seller-assist is made without the scan of the version on offer
  and quotes the newest version, possibly unscanned, as "0 critical findings"; a reply sent
  through seller-assist notifies nobody, and one through listings-service passes no
  guardrail; a version with a scan error has details but no summary, so that answers
  count zero where explain-findings counts one.

## 6. Not modelled, and why

* The patterns of the detectors, the parsing of manifests, the ranking of search results,
  the explanations and the copy suggestions are string processing and model calls.
* Reviews, saved listings, demand signals and the inbox's read marks are single-row
  writes that no other handler depends on.
* `create_order`'s look at the listing and its fee arithmetic: the first is one read before
  the order exists, and nothing is promised about later changes; the second is a
  formula over decimals.
* Authentication of requests is assumed to work outside `Sessions` and `Admission`: a handler is
  only called by those it admits. `reindex_all_live_listings` is a repair script,
  `resubmit_intake_async` has no caller, `server.py` wraps the orchestrator in HTTP.
* Currency conversion, embeddings, observability, the Android front end and the web front
  end except `auth.js`.
* In `Questions`: second questions about one listing, edits of the description, and the
  parameters `forced_*_for_test`.

## 7. What could come next

1. An abstract order life cycle, implemented by `Orders` as far as the overlap of a refund
   and a confirmation allows.
2. An abstract queue that gives every submission one verdict, implemented by `ScanQueue`
   without resubmission.
