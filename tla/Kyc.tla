-------------------------------- MODULE Kyc --------------------------------
(***************************************************************************)
(* One seller's way to payouts: the linked account at Razorpay and its     *)
(* events, the onboarding and the webhook of the payments service, the     *)
(* signed callbacks between the two services, and the seller's profile in  *)
(* the auth service with every handler that writes it.                     *)
(*                                                                         *)
(* The auth service runs plain handlers on threads and the callback on its *)
(* event loop: each loads the profile and commits later, without a lock.   *)
(* Events are delivered again and out of order.  Callbacks are neither     *)
(* repeated nor waited for beyond five seconds: they may be lost, rejected *)
(* when older than five minutes, or handled after the webhook has answered. *)
(***************************************************************************)
EXTENDS Integers

CONSTANTS
  Account,    \* accounts that Razorpay may create for the seller
  Thread,     \* request threads of the auth service
  Front,      \* request threads of the payments service
  Loop,       \* the event loop of the auth service
  None,
  MaxNews     \* bound: changes of an account at Razorpay

Worker == Thread \cup Front \cup {Loop}

VARIABLES
  profile,   \* SellerProfile in the auth service, None when there is none
  linked,    \* SellerPaymentProfile.razorpay_account_id, None when there is none
  account,   \* the accounts at Razorpay: [status, at]; at counts the changes
  events,    \* account events that Razorpay may deliver
  hook,      \* the callback that the payments service is waiting for
  calls,     \* callbacks that the auth service has not taken up
  job,       \* what each worker is doing
  standing,  \* history: a verification was recorded and no later decision revoked it
  heard,     \* history: the latest change that the webhook was told of
  quiet      \* history: events came in order, callbacks in time, nobody else decided

vars == <<profile, linked, account, events, hook, calls, job, standing, heard, quiet>>
razorpay == <<account, events>>
wire == <<hook, calls>>

KYCStatus == {"not_started", "pending", "verified", "rejected"}
SellerProfile == [kyc_status : KYCStatus, payout_enabled : BOOLEAN]
AccountStatus == {"created", "activated", "under_review", "suspended", "rejected"}
Event == [account : Account, status : AccountStatus \ {"created"}, at : 1..MaxNews]
Call == [account : Account, status : {"verified", "pending_review", "suspended", "rejected"}]

ASSUME KycAssumption ==
  /\ MaxNews \in Nat /\ Loop \notin Thread \cup Front /\ Thread \cap Front = {}
  /\ None \notin Account \cup SellerProfile \cup KYCStatus \cup Call

\* A handler: the profile as loaded, the status to write, whether no
\* verification has been recorded since it was loaded, and the account
\* that it has made at Razorpay.
Op == {"none", "view", "decide", "callback", "connect"}
Job == [op : Op, pc : {"idle", "commit", "create", "insert"}, seen : SellerProfile \cup {None},
        target : KYCStatus \cup {None}, fresh : BOOLEAN, account : Account \cup {None}]
Idle == [op |-> "none", pc |-> "idle", seen |-> None, target |-> None, fresh |-> FALSE,
         account |-> None]

TypeOK ==
  /\ profile \in SellerProfile \cup {None}
  /\ linked \in Account \cup {None}
  /\ account \in [Account -> [status : AccountStatus \cup {"none"}, at : 0..MaxNews]]
  /\ events \subseteq Event
  /\ hook \in Call \cup {None}
  /\ calls \subseteq Call
  /\ job \in [Worker -> Job]
  /\ standing \in BOOLEAN /\ heard \in 0..MaxNews /\ quiet \in BOOLEAN

Init ==
  /\ profile \in {None, [kyc_status |-> "not_started", payout_enabled |-> FALSE]}
  /\ linked = None
  /\ account = [a \in Account |-> [status |-> "none", at |-> 0]]
  /\ events = {}
  /\ hook = None /\ calls = {}
  /\ job = [w \in Worker |-> Idle]
  /\ standing = FALSE /\ heard = 0 /\ quiet = TRUE

\* is_seller_payout_enabled: needs both columns.
GateOpen == profile # None /\ profile.kyc_status = "verified" /\ profile.payout_enabled

-----------------------------------------------------------------------------
(* The profile                                                             *)

NewProfile == [kyc_status |-> "not_started", payout_enabled |-> FALSE]

\* get_or_create_seller_profile.  A concurrent insert makes this one's fail (Abort).
Loaded == IF profile = None THEN NewProfile ELSE profile

Load(w, op, target) ==
  /\ job[w] = Idle
  /\ profile' = Loaded
  /\ job' = [job EXCEPT ![w] = [Idle EXCEPT !.op = op, !.pc = "commit", !.seen = Loaded,
                                          !.target = target, !.fresh = TRUE]]
  /\ UNCHANGED <<linked, razorpay, standing, heard>>

\* update_seller_kyc_status: any status but verified and rejected is a pending one.
Meaning(status) == IF status \in {"verified", "rejected"} THEN status ELSE "pending"

\* The session writes the columns whose value differs from the one it loaded,
\* and only a verification enables payouts.  Faulty variant: a pending status
\* leaves both columns alone.
Flushed_sticky(h) ==
  IF h.target = "pending" THEN profile
  ELSE [kyc_status |-> h.target, payout_enabled |-> h.target = "verified"]
Flushed(h) ==
  LET enabled == h.target = "verified" IN
  [kyc_status |-> IF h.seen.kyc_status = h.target THEN profile.kyc_status ELSE h.target,
   payout_enabled |-> IF h.seen.payout_enabled = enabled THEN profile.payout_enabled
                      ELSE enabled]

\* The commit of a decision.  A verification is later than what others have
\* loaded; a decision against the seller revokes one that it has seen.
Commit(w) ==
  LET h == job[w] IN
  /\ h.pc = "commit" /\ h.op \in {"decide", "callback"}
  /\ profile' = Flushed(h)
  /\ standing' = (h.target = "verified" \/ (standing /\ ~h.fresh))
  /\ job' = [x \in Worker |-> IF x = w THEN Idle
                              ELSE [job[x] EXCEPT !.fresh = @ /\ h.target # "verified"]]
  /\ quiet' = (quiet /\ h.op = "callback")
  /\ UNCHANGED <<linked, razorpay, wire, heard>>

\* start_seller_kyc, whose call to the provider and second commit, of the
\* metadata, leave the status alone, and submit_kyc_details.
StartKyc(w) == Load(w, "decide", "pending") /\ UNCHANGED <<wire, quiet>>
SubmitKyc(w) == Load(w, "decide", "pending") /\ UNCHANGED <<wire, quiet>>

\* verify_seller_kyc_admin and reject_seller_kyc_admin.
VerifyKyc(w) == Load(w, "decide", "verified") /\ UNCHANGED <<wire, quiet>>
RejectKyc(w) == Load(w, "decide", "rejected") /\ UNCHANGED <<wire, quiet>>

\* check_and_sync_kyc_status, which no route calls; a failing provider means pending.
SyncKyc(w) ==
  \E answer \in {"pending", "verified", "rejected", "error"} :
    Load(w, "decide", Meaning(answer)) /\ UNCHANGED <<wire, quiet>>

\* get_kyc_status creates the profile if need be, and answers with the gate.
\* Faulty variant: the profile that was shown is saved again.
ViewKyc(w) == Load(w, "view", None) /\ UNCHANGED <<wire, quiet>>

EndView_saved(w) ==
  /\ job[w].op = "view"
  /\ profile' = job[w].seen
  /\ job' = [job EXCEPT ![w] = Idle]
  /\ UNCHANGED <<linked, razorpay, wire, standing, heard, quiet>>

EndView(w) ==
  /\ job[w].op = "view"
  /\ job' = [job EXCEPT ![w] = Idle]
  /\ UNCHANGED <<profile, linked, razorpay, wire, standing, heard, quiet>>

\* kyc_provider_webhook, for a callback that is signed and not too old.
Callback(c) ==
  /\ c \in calls
  /\ Load(Loop, "callback", Meaning(c.status))
  /\ calls' = calls \ {c}
  /\ UNCHANGED <<hook, quiet>>

-----------------------------------------------------------------------------
(* Onboarding: start_connect_onboarding                                    *)

StartConnect(w) ==
  /\ job[w] = Idle /\ linked = None
  /\ job' = [job EXCEPT ![w] = [Idle EXCEPT !.op = "connect", !.pc = "create"]]
  /\ UNCHANGED <<profile, linked, razorpay, wire, standing, heard, quiet>>

CreateAccount(w, a) ==
  /\ job[w].pc = "create" /\ account[a].status = "none"
  /\ account' = [account EXCEPT ![a].status = "created"]
  /\ job' = [job EXCEPT ![w].pc = "insert", ![w].account = a]
  /\ UNCHANGED <<profile, linked, events, wire, standing, heard, quiet>>

\* The key of the table is the seller: the second insert fails, and its account
\* is nobody's.
Stored(a) == IF linked = None THEN a ELSE linked

InsertProfile(w) ==
  /\ job[w].pc = "insert"
  /\ linked' = Stored(job[w].account)
  /\ job' = [job EXCEPT ![w] = Idle]
  /\ UNCHANGED <<profile, razorpay, wire, standing, heard, quiet>>

-----------------------------------------------------------------------------
(* Razorpay (external), and the account branches of razorpay_webhook       *)

\* Razorpay decides about an account, and tells of it.
Decide(a, status) ==
  /\ account[a].status \notin {"none", status} /\ status # "created"
  /\ \A b \in Account : account[b].at < MaxNews
  /\ \E at \in 1..MaxNews :
       /\ \A b \in Account : account[b].at < at
       /\ \A n \in 1..(at - 1) : \E b \in Account : account[b].at >= n
       /\ account' = [account EXCEPT ![a] = [status |-> status, at |-> at]]
       /\ events' = events \cup {[account |-> a, status |-> status, at |-> at]}
  /\ UNCHANGED <<profile, linked, wire, job, standing, heard, quiet>>

\* Faulty variant: a suspension is taken for a review that changes nothing.
Reported_deaf(status) ==
  CASE status \in {"activated", "suspended"} -> "verified"
    [] status = "under_review" -> "pending_review"
    [] OTHER -> status
Reported(status) ==
  CASE status = "activated" -> "verified"
    [] status = "under_review" -> "pending_review"
    [] OTHER -> status

\* The seller of an event is the one whose account it names.  Faulty variant:
\* the account is not looked up.
Named_any(e) == linked # None
Named(e) == linked = e.account

\* Razorpay delivers the event once, or again and again.  One of an account
\* that is not stored is acknowledged and forgotten.
Deliver(e) ==
  /\ e \in events /\ hook = None
  /\ events' \in {events, events \ {e}}
  /\ heard' = IF e.at > heard THEN e.at ELSE heard
  /\ quiet' = (quiet /\ Named(e) /\ e.at >= heard)
  /\ IF Named(e)
     THEN LET c == [account |-> e.account, status |-> Reported(e.status)]
          IN  hook' = c /\ calls' = calls \cup {c}
     ELSE UNCHANGED wire
  /\ UNCHANGED <<profile, linked, account, job, standing>>

\* The callback is answered, or five seconds have passed: the webhook answers
\* 200 all the same.
Answer ==
  /\ hook # None
  /\ hook' = None
  /\ quiet' = (quiet /\ hook \notin calls /\ job[Loop] = Idle)
  /\ UNCHANGED <<profile, linked, razorpay, calls, job, standing, heard>>

\* A callback does not arrive, or is more than five minutes old when it does.
Lose(c) ==
  /\ c \in calls
  /\ calls' = calls \ {c}
  /\ quiet' = FALSE
  /\ UNCHANGED <<profile, linked, razorpay, hook, job, standing, heard>>

\* A request ends with an error, before its commit.
Abort(w) ==
  /\ job[w] # Idle
  /\ job' = [job EXCEPT ![w] = Idle]
  /\ quiet' = FALSE
  /\ UNCHANGED <<profile, linked, razorpay, wire, standing, heard>>

-----------------------------------------------------------------------------
Handler(w) ==
  \/ StartKyc(w) \/ SubmitKyc(w) \/ VerifyKyc(w) \/ RejectKyc(w) \/ SyncKyc(w)
  \/ ViewKyc(w) \/ EndView(w)

Onboarding(w) ==
  StartConnect(w) \/ InsertProfile(w) \/ \E a \in Account : CreateAccount(w, a)

Next ==
  \/ \E w \in Thread : Handler(w)
  \/ \E w \in Front : Onboarding(w)
  \/ \E w \in Worker : Commit(w) \/ Abort(w)
  \/ \E a \in Account, status \in AccountStatus : Decide(a, status)
  \/ \E e \in events : Deliver(e)
  \/ \E c \in calls : Callback(c) \/ Lose(c)
  \/ Answer

Spec == Init /\ [][Next]_vars

-----------------------------------------------------------------------------
(* Properties that hold                                                    *)

\* The auth service keeps the promise of PayoutGate: however the handlers
\* overlap, and although each writes only what differs from what it has
\* loaded, the payout gate is closed once a decision against the seller began
\* and ended after the last verification.
Promise == INSTANCE PayoutGate WITH open <- GateOpen
ImplementsPayoutGate == Promise!Spec
ClosedAfterRevocation == Promise!FailsClosed

\* Every callback in flight is about the account that is stored for the seller:
\* orphans of onboardings that overlapped or failed have no say.
OnlyLinkedSpeaks == \A c \in calls \cup ({hook} \ {None}) : c.account = linked

\* As long as events arrive in order, callbacks in time and nobody else
\* decides, the gate agrees with Razorpay whenever nothing is on its way.
Settled ==
  /\ hook = None /\ calls = {} /\ job[Loop] = Idle
  /\ linked # None => account[linked].at <= heard
AgreesWithRazorpay ==
  quiet /\ Settled => (GateOpen <=> linked # None /\ account[linked].status = "activated")
=============================================================================
