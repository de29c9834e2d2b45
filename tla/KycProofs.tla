----------------------------- MODULE KycProofs -----------------------------
(***************************************************************************)
(* What Kyc guarantees for any number of accounts, threads and events: its *)
(* types, that the payout gate keeps the promise of PayoutGate, and that   *)
(* only the stored account has a say.                                      *)
(***************************************************************************)
EXTENDS Kyc, TLAPS

\* The profile is closed: neither column allows payouts.
Closed == profile # None => profile.kyc_status # "verified" /\ profile.payout_enabled = FALSE

\* Whoever decides has a profile; what it has seen negative is negative still
\* unless a verification has been recorded since.
DecisionInv ==
  \A w \in Worker :
    LET h == job[w] IN
    h.pc = "commit" =>
      /\ profile # None /\ h.seen # None
      /\ h.op \in {"decide", "callback"} => h.target \in {"pending", "verified", "rejected"}
      /\ h.fresh =>
           /\ h.seen.kyc_status # "verified" => profile.kyc_status # "verified"
           /\ h.seen.payout_enabled = FALSE => profile.payout_enabled = FALSE

StandingInv == standing = FALSE => Closed

\* Only onboardings hold an account, one that exists.
OnboardInv == \A w \in Worker : job[w].pc = "insert" => job[w].account \in Account

IInv == TypeOK /\ DecisionInv /\ StandingInv /\ OnboardInv /\ OnlyLinkedSpeaks

-----------------------------------------------------------------------------
(* Types                                                                   *)

LEMMA ProfileTypes ==
  ASSUME TypeOK
  PROVE  Loaded \in SellerProfile /\ NewProfile \in SellerProfile
BY DEF TypeOK, Loaded, NewProfile, SellerProfile, KYCStatus

LEMMA FlushedType ==
  ASSUME TypeOK, DecisionInv, NEW w \in Worker, job[w].pc = "commit",
         job[w].op \in {"decide", "callback"}
  PROVE  Flushed(job[w]) \in SellerProfile
<1> DEFINE h == job[w]
<1>1. profile \in SellerProfile /\ h.target \in KYCStatus
  BY DEF TypeOK, DecisionInv, KYCStatus
<1>2. (h.target = "verified") \in BOOLEAN
  OBVIOUS
<1>. QED
  BY <1>1, <1>2 DEF Flushed, SellerProfile

LEMMA CallType ==
  ASSUME NEW e \in Event
  PROVE  [account |-> e.account, status |-> Reported(e.status)] \in Call
BY DEF Event, AccountStatus, Reported, Call

LEMMA LoadType ==
  ASSUME TypeOK, NEW w \in Worker, NEW op \in {"view", "decide", "callback"},
         NEW target \in KYCStatus \cup {None}, Load(w, op, target)
  PROVE  profile' \in SellerProfile /\ job' \in [Worker -> Job]
<1>1. Loaded \in SellerProfile
  BY ProfileTypes
<1>2. [Idle EXCEPT !.op = op, !.pc = "commit", !.seen = Loaded, !.target = target, !.fresh = TRUE]
        \in Job
  BY <1>1 DEF Idle, Job, Op
<1>. QED
  BY <1>1, <1>2 DEF Load, TypeOK

LEMMA MeaningType == ASSUME NEW status PROVE Meaning(status) \in {"pending", "verified", "rejected"}
BY DEF Meaning

LEMMA TypeInit == Init => TypeOK
<1>. SUFFICES ASSUME Init PROVE TypeOK
  OBVIOUS
<1>1. Idle \in Job
  BY DEF Idle, Job, Op
<1>2. account \in [Account -> [status : AccountStatus \cup {"none"}, at : 0..MaxNews]]
  BY KycAssumption DEF Init
<1>3. profile \in SellerProfile \cup {None}
  <2>1. [kyc_status |-> "not_started", payout_enabled |-> FALSE] \in SellerProfile
    BY DEF SellerProfile, KYCStatus
  <2>. QED
    BY <2>1 DEF Init
<1>4. heard \in 0..MaxNews
  BY KycAssumption DEF Init
<1>6. standing \in BOOLEAN /\ quiet \in BOOLEAN
  BY Zenon DEF Init
<1>5. job \in [Worker -> Job]
  BY <1>1 DEF Init
<1>. QED
  BY <1>2, <1>3, <1>4, <1>5, <1>6 DEF Init, TypeOK

LEMMA TypeNext == TypeOK /\ DecisionInv /\ OnboardInv /\ [Next]_vars => TypeOK'
<1>. SUFFICES ASSUME TypeOK, DecisionInv, OnboardInv, [Next]_vars PROVE TypeOK'
  OBVIOUS
<1>. USE DEF razorpay, wire
<1>0. Idle \in Job
  BY DEF Idle, Job, Op
<1>1. ASSUME NEW w \in Thread, Handler(w) PROVE TypeOK'
  <2>1. w \in Worker
    BY DEF Worker
  <2>2. CASE \E target \in KYCStatus, op \in {"view", "decide"} :
               Load(w, op, target) /\ UNCHANGED <<wire, quiet>>
    BY <2>1, <2>2, LoadType DEF TypeOK, Load
  <2>3. CASE ViewKyc(w)
    <3>1. Load(w, "view", None)
      BY <2>3 DEF ViewKyc
    <3>2. profile' \in SellerProfile /\ job' \in [Worker -> Job]
      BY <3>1, <2>1, LoadType
    <3>. QED
      BY <2>3, <3>2 DEF TypeOK, ViewKyc, Load
  <2>4. CASE EndView(w)
    BY <2>1, <2>4, <1>0 DEF TypeOK, EndView
  <2>5. StartKyc(w) \/ SubmitKyc(w) \/ VerifyKyc(w) \/ RejectKyc(w) \/ SyncKyc(w) =>
          \E target \in KYCStatus, op \in {"view", "decide"} :
               Load(w, op, target) /\ UNCHANGED <<wire, quiet>>
    BY MeaningType DEF StartKyc, SubmitKyc, VerifyKyc, RejectKyc, SyncKyc, KYCStatus
  <2>. QED
    BY <1>1, <2>2, <2>3, <2>4, <2>5 DEF Handler
<1>2. ASSUME NEW w \in Front, Onboarding(w) PROVE TypeOK'
  <2>1. w \in Worker
    BY DEF Worker
  <2>2. CASE StartConnect(w)
    <3>1. [Idle EXCEPT !.op = "connect", !.pc = "create"] \in Job
      BY DEF Idle, Job, Op
    <3>. QED
      BY <2>1, <2>2, <3>1 DEF TypeOK, StartConnect
  <2>3. ASSUME NEW a \in Account, CreateAccount(w, a) PROVE TypeOK'
    <3>1. account' \in [Account -> [status : AccountStatus \cup {"none"}, at : 0..MaxNews]]
      BY <2>3 DEF TypeOK, CreateAccount, AccountStatus
    <3>2. job' \in [Worker -> Job]
      BY <2>1, <2>3 DEF TypeOK, CreateAccount, Job
    <3>. QED
      BY <2>3, <3>1, <3>2 DEF TypeOK, CreateAccount
  <2>4. CASE InsertProfile(w)
    BY <2>1, <2>4, <1>0 DEF TypeOK, InsertProfile, Stored, OnboardInv
  <2>. QED
    BY <1>2, <2>2, <2>3, <2>4 DEF Onboarding
<1>3. ASSUME NEW w \in Worker, Commit(w) PROVE TypeOK'
  <2>1. profile' \in SellerProfile
    BY <1>3, FlushedType DEF Commit
  <2>2. ASSUME NEW x \in Worker
        PROVE  [job[x] EXCEPT !.fresh = @ /\ job[w].target # "verified"] \in Job
    <3>1. job[x] \in Job
      BY DEF TypeOK
    <3>2. (job[x].fresh /\ job[w].target # "verified") \in BOOLEAN
      OBVIOUS
    <3>. QED
      BY <3>1, <3>2 DEF Job
  <2>3. job' \in [Worker -> Job]
    BY <1>0, <1>3, <2>2 DEF Commit
  <2>4. standing' \in BOOLEAN /\ quiet' \in BOOLEAN
    BY <1>3 DEF Commit
  <2>. QED
    BY <1>3, <2>1, <2>3, <2>4 DEF TypeOK, Commit
<1>4. ASSUME NEW w \in Worker, Abort(w) PROVE TypeOK'
  BY <1>0, <1>4 DEF TypeOK, Abort
<1>5. ASSUME NEW a \in Account, NEW status \in AccountStatus, Decide(a, status) PROVE TypeOK'
  <2>1. PICK at \in 1..MaxNews :
          /\ account' = [account EXCEPT ![a] = [status |-> status, at |-> at]]
          /\ events' = events \cup {[account |-> a, status |-> status, at |-> at]}
    BY <1>5 DEF Decide
  <2>2. account' \in [Account -> [status : AccountStatus \cup {"none"}, at : 0..MaxNews]]
    BY <2>1, KycAssumption DEF TypeOK
  <2>3. [account |-> a, status |-> status, at |-> at] \in Event
    BY <1>5 DEF Event, Decide
  <2>. QED
    BY <1>5, <2>1, <2>2, <2>3 DEF TypeOK, Decide
<1>6. ASSUME NEW e \in events, Deliver(e) PROVE TypeOK'
  <2>1. e \in Event
    BY DEF TypeOK
  <2>2. heard' \in 0..MaxNews
    BY <1>6, <2>1, KycAssumption DEF Deliver, TypeOK, Event
  <2>3. quiet' \in BOOLEAN
    BY <1>6 DEF Deliver
  <2>4. hook' \in Call \cup {None} /\ calls' \subseteq Call
    BY <1>6, <2>1, CallType DEF Deliver, TypeOK
  <2>. QED
    BY <1>6, <2>2, <2>3, <2>4 DEF TypeOK, Deliver
<1>7. ASSUME NEW c \in calls, Callback(c) PROVE TypeOK'
  <2>1. Load(Loop, "callback", Meaning(c.status)) /\ Loop \in Worker
    BY <1>7 DEF Callback, Worker
  <2>2. Meaning(c.status) \in KYCStatus
    BY MeaningType DEF KYCStatus
  <2>3. profile' \in SellerProfile /\ job' \in [Worker -> Job]
    BY <2>1, <2>2, LoadType
  <2>. QED
    BY <1>7, <2>3 DEF TypeOK, Callback, Load
<1>8. ASSUME NEW c \in calls, Lose(c) PROVE TypeOK'
  BY <1>8 DEF TypeOK, Lose
<1>9. CASE Answer
  <2>1. (quiet /\ hook \notin calls /\ job[Loop] = Idle) \in BOOLEAN
    OBVIOUS
  <2>. QED
    BY <1>9, <2>1 DEF TypeOK, Answer
<1>10. CASE UNCHANGED vars
  BY <1>10 DEF TypeOK, vars
<1>. QED
  BY <1>1, <1>2, <1>3, <1>4, <1>5, <1>6, <1>7, <1>8, <1>9, <1>10 DEF Next

-----------------------------------------------------------------------------
(* Decisions                                                               *)

\* What a decision against the seller leaves closed.
LEMMA FlushedClosed ==
  ASSUME TypeOK, DecisionInv, StandingInv, NEW w \in Worker, job[w].pc = "commit",
         job[w].op \in {"decide", "callback"}, job[w].target # "verified",
         standing = FALSE \/ job[w].fresh
  PROVE  Flushed(job[w]).kyc_status # "verified" /\ Flushed(job[w]).payout_enabled = FALSE
<1> DEFINE h == job[w]
<1>1. profile # None /\ profile \in SellerProfile /\ h.seen \in SellerProfile
  BY DEF DecisionInv, TypeOK, Job
<1>2. /\ h.seen.kyc_status # "verified" => profile.kyc_status # "verified"
      /\ h.seen.payout_enabled = FALSE => profile.payout_enabled = FALSE
  BY <1>1 DEF DecisionInv, StandingInv, Closed
<1>3. (h.target = "verified") = FALSE
  OBVIOUS
<1>. QED
  BY <1>1, <1>2, <1>3 DEF Flushed

\* It turns no column the seller's way.
LEMMA FlushedNoBetter ==
  ASSUME TypeOK, DecisionInv, NEW w \in Worker, job[w].pc = "commit",
         job[w].op \in {"decide", "callback"}, job[w].target # "verified"
  PROVE  /\ profile.kyc_status # "verified" => Flushed(job[w]).kyc_status # "verified"
         /\ profile.payout_enabled = FALSE => Flushed(job[w]).payout_enabled = FALSE
BY DEF Flushed

LEMMA LoadPreserves ==
  ASSUME IInv, NEW w \in Worker, NEW op \in {"view", "decide", "callback"},
         NEW target \in KYCStatus \cup {None}, Load(w, op, target),
         op # "view" => target \in {"pending", "verified", "rejected"}
  PROVE  DecisionInv' /\ StandingInv' /\ OnboardInv'
<1>. USE DEF IInv
<1>1. profile' = Loaded /\ Loaded \in SellerProfile /\ Loaded # None
  BY ProfileTypes, KycAssumption DEF Load
<1>2. profile # None => profile' = profile
  BY <1>1 DEF Loaded
<1>3. profile = None => profile'.kyc_status # "verified" /\ profile'.payout_enabled = FALSE
  BY <1>1 DEF Loaded, NewProfile
<1>4. \A x \in Worker : x # w => job'[x] = job[x]
  BY DEF Load, TypeOK
<1>5. job'[w] = [Idle EXCEPT !.op = op, !.pc = "commit", !.seen = Loaded, !.target = target,
                             !.fresh = TRUE]
  BY DEF Load, TypeOK
<1>6. DecisionInv'
  <2>. SUFFICES ASSUME NEW x \in Worker, job'[x].pc = "commit"
       PROVE  /\ profile' # None /\ job'[x].seen # None
              /\ job'[x].op \in {"decide", "callback"}
                   => job'[x].target \in {"pending", "verified", "rejected"}
              /\ job'[x].fresh =>
                   /\ job'[x].seen.kyc_status # "verified" => profile'.kyc_status # "verified"
                   /\ job'[x].seen.payout_enabled = FALSE => profile'.payout_enabled = FALSE
    BY DEF DecisionInv
  <2>1. CASE x = w
    BY <1>1, <1>5, <2>1 DEF Idle
  <2>2. CASE x # w
    BY <1>1, <1>2, <1>4, <2>2 DEF DecisionInv
  <2>. QED
    BY <2>1, <2>2
<1>7. StandingInv'
  BY <1>2, <1>3 DEF StandingInv, Closed, Load
<1>8. OnboardInv'
  BY <1>4, <1>5 DEF OnboardInv, Idle
<1>. QED
  BY <1>6, <1>7, <1>8

LEMMA CommitPreserves ==
  ASSUME IInv, NEW w \in Worker, Commit(w)
  PROVE  DecisionInv' /\ StandingInv' /\ OnboardInv'
<1>. USE DEF IInv
<1> DEFINE h == job[w]
<1>1. h.pc = "commit" /\ h.op \in {"decide", "callback"} /\ profile' = Flushed(h)
  BY DEF Commit
<1>2. profile' \in SellerProfile /\ profile' # None
  BY <1>1, FlushedType, KycAssumption
<1>3. job'[w] = Idle
  BY DEF Commit
<1>4. ASSUME NEW x \in Worker, x # w
      PROVE  /\ job'[x].pc = job[x].pc /\ job'[x].op = job[x].op /\ job'[x].seen = job[x].seen
             /\ job'[x].target = job[x].target /\ job'[x].account = job[x].account
             /\ job'[x].fresh => job[x].fresh /\ h.target # "verified"
  <2>1. job'[x] = [job[x] EXCEPT !.fresh = @ /\ h.target # "verified"]
    BY <1>4 DEF Commit
  <2>2. job[x] \in Job
    BY DEF TypeOK
  <2>. QED
    BY <2>1, <2>2 DEF Job
<1>5. DecisionInv'
  <2>. SUFFICES ASSUME NEW x \in Worker, job'[x].pc = "commit"
       PROVE  /\ profile' # None /\ job'[x].seen # None
              /\ job'[x].op \in {"decide", "callback"}
                   => job'[x].target \in {"pending", "verified", "rejected"}
              /\ job'[x].fresh =>
                   /\ job'[x].seen.kyc_status # "verified" => profile'.kyc_status # "verified"
                   /\ job'[x].seen.payout_enabled = FALSE => profile'.payout_enabled = FALSE
    BY DEF DecisionInv
  <2>1. x # w
    BY <1>3 DEF Idle
  <2>2. CASE job'[x].fresh
    BY <1>1, <1>2, <1>4, <2>1, <2>2, FlushedNoBetter DEF DecisionInv
  <2>3. CASE ~job'[x].fresh
    BY <1>1, <1>2, <1>4, <2>1, <2>3 DEF DecisionInv
  <2>. QED
    BY <2>2, <2>3
<1>6. StandingInv'
  <2>. SUFFICES ASSUME standing' = FALSE
       PROVE  profile'.kyc_status # "verified" /\ profile'.payout_enabled = FALSE
    BY DEF StandingInv, Closed
  <2>1. h.target # "verified" /\ (standing = FALSE \/ h.fresh)
    BY DEF Commit, TypeOK
  <2>. QED
    BY <1>1, <2>1, FlushedClosed
<1>7. OnboardInv'
  BY <1>3, <1>4 DEF OnboardInv, Idle
<1>. QED
  BY <1>5, <1>6, <1>7

-----------------------------------------------------------------------------
(* The invariant                                                           *)

LEMMA InvInit == Init => IInv
<1>. SUFFICES ASSUME Init PROVE IInv
  OBVIOUS
<1>1. TypeOK
  BY TypeInit
<1>2. \A w \in Worker : job[w].pc = "idle"
  BY DEF Init, Idle
<1>3. Closed
  BY DEF Init, Closed
<1>4. OnlyLinkedSpeaks
  BY DEF Init, OnlyLinkedSpeaks
<1>. QED
  BY <1>1, <1>2, <1>3, <1>4 DEF IInv, DecisionInv, StandingInv, OnboardInv

\* Steps that touch neither the profile nor what the deciding handlers hold.
LEMMA FramePreserves ==
  ASSUME IInv, NEW w \in Worker, UNCHANGED <<profile, standing>>,
         \A x \in Worker : x # w => job'[x] = job[x],
         job'[w].pc # "commit", job'[w].pc = "insert" => job'[w].account \in Account
  PROVE  DecisionInv' /\ StandingInv' /\ OnboardInv'
BY DEF IInv, DecisionInv, StandingInv, OnboardInv, Closed

LEMMA StillFramePreserves ==
  ASSUME IInv, UNCHANGED <<profile, standing, job>>
  PROVE  DecisionInv' /\ StandingInv' /\ OnboardInv'
BY DEF IInv, DecisionInv, StandingInv, OnboardInv, Closed

LEMMA LinkedPreserves == IInv /\ [Next]_vars => OnlyLinkedSpeaks'
<1>. SUFFICES ASSUME IInv, [Next]_vars PROVE OnlyLinkedSpeaks'
  OBVIOUS
<1>. USE DEF IInv, razorpay, wire
<1>1. CASE UNCHANGED linked /\ calls' \subseteq calls /\ hook' \in {hook, None}
  BY <1>1 DEF OnlyLinkedSpeaks
<1>2. ASSUME NEW w \in Front, InsertProfile(w) PROVE OnlyLinkedSpeaks'
  <2>1. linked = None => calls = {} /\ hook = None
    BY KycAssumption DEF OnlyLinkedSpeaks, TypeOK, Call
  <2>2. linked # None => linked' = linked
    BY <1>2 DEF InsertProfile, Stored
  <2>. QED
    BY <1>2, <2>1, <2>2 DEF OnlyLinkedSpeaks, InsertProfile
<1>3. ASSUME NEW e \in events, Deliver(e) PROVE OnlyLinkedSpeaks'
  <2>1. CASE Named(e)
    BY <1>3, <2>1 DEF OnlyLinkedSpeaks, Deliver, Named
  <2>2. CASE ~Named(e)
    BY <1>1, <1>3, <2>2 DEF Deliver
  <2>. QED
    BY <2>1, <2>2
<1>4. ASSUME NEW w \in Thread, Handler(w) PROVE OnlyLinkedSpeaks'
  BY <1>1, <1>4 DEF Handler, StartKyc, SubmitKyc, VerifyKyc, RejectKyc, SyncKyc, ViewKyc, EndView,
                    Load
<1>5. ASSUME NEW w \in Front, Onboarding(w) PROVE OnlyLinkedSpeaks'
  BY <1>1, <1>2, <1>5 DEF Onboarding, StartConnect, CreateAccount
<1>6. ASSUME NEW w \in Worker, Commit(w) \/ Abort(w) PROVE OnlyLinkedSpeaks'
  BY <1>1, <1>6 DEF Commit, Abort
<1>7. ASSUME NEW a \in Account, NEW status \in AccountStatus, Decide(a, status)
      PROVE OnlyLinkedSpeaks'
  BY <1>1, <1>7 DEF Decide
<1>8. ASSUME NEW c \in calls, Callback(c) \/ Lose(c) PROVE OnlyLinkedSpeaks'
  BY <1>1, <1>8 DEF Callback, Lose, Load
<1>9. CASE Answer
  BY <1>1, <1>9 DEF Answer
<1>10. CASE UNCHANGED vars
  BY <1>1, <1>10 DEF vars
<1>. QED
  BY <1>3, <1>4, <1>5, <1>6, <1>7, <1>8, <1>9, <1>10 DEF Next

LEMMA InvNext == IInv /\ [Next]_vars => IInv'
<1>. SUFFICES ASSUME IInv, [Next]_vars PROVE IInv'
  OBVIOUS
<1>1. TypeOK' /\ OnlyLinkedSpeaks'
  BY TypeNext, LinkedPreserves DEF IInv
<1>. SUFFICES DecisionInv' /\ StandingInv' /\ OnboardInv'
  BY <1>1 DEF IInv
<1>. USE DEF razorpay, wire
<1>2. ASSUME NEW w \in Thread, Handler(w) PROVE DecisionInv' /\ StandingInv' /\ OnboardInv'
  <2>1. w \in Worker
    BY DEF Worker
  <2>2. ASSUME NEW target \in {"pending", "verified", "rejected"}, Load(w, "decide", target)
        PROVE  DecisionInv' /\ StandingInv' /\ OnboardInv'
    <3>1. target \in KYCStatus \cup {None}
      BY DEF KYCStatus
    <3>. QED
      BY <2>1, <2>2, <3>1, LoadPreserves
  <2>3. ASSUME ViewKyc(w) PROVE DecisionInv' /\ StandingInv' /\ OnboardInv'
    BY <2>1, <2>3, LoadPreserves DEF ViewKyc
  <2>4. ASSUME EndView(w) PROVE DecisionInv' /\ StandingInv' /\ OnboardInv'
    BY <2>1, <2>4, FramePreserves DEF EndView, Idle, IInv, TypeOK
  <2>5. StartKyc(w) \/ SubmitKyc(w) \/ VerifyKyc(w) \/ RejectKyc(w) \/ SyncKyc(w) =>
          \E target \in {"pending", "verified", "rejected"} : Load(w, "decide", target)
    BY MeaningType DEF StartKyc, SubmitKyc, VerifyKyc, RejectKyc, SyncKyc
  <2>. QED
    BY <1>2, <2>2, <2>3, <2>4, <2>5 DEF Handler
<1>3. ASSUME NEW w \in Front, Onboarding(w) PROVE DecisionInv' /\ StandingInv' /\ OnboardInv'
  <2>1. w \in Worker
    BY DEF Worker
  <2>2. CASE StartConnect(w)
    BY <2>1, <2>2, FramePreserves DEF StartConnect, Idle, IInv, TypeOK
  <2>3. ASSUME NEW a \in Account, CreateAccount(w, a)
        PROVE  DecisionInv' /\ StandingInv' /\ OnboardInv'
    <3>1. job[w] \in Job /\ job'[w] = [job[w] EXCEPT !.pc = "insert", !.account = a]
      BY <2>1, <2>3 DEF CreateAccount, IInv, TypeOK
    <3>2. job'[w].pc = "insert" /\ job'[w].account = a
      BY <3>1 DEF Job
    <3>. QED
      BY <2>1, <2>3, <3>2, FramePreserves DEF CreateAccount, IInv, TypeOK
  <2>4. CASE InsertProfile(w)
    BY <2>1, <2>4, FramePreserves DEF InsertProfile, Idle, IInv, TypeOK
  <2>. QED
    BY <1>3, <2>2, <2>3, <2>4 DEF Onboarding
<1>4. ASSUME NEW w \in Worker, Commit(w) PROVE DecisionInv' /\ StandingInv' /\ OnboardInv'
  BY <1>4, CommitPreserves
<1>5. ASSUME NEW w \in Worker, Abort(w) PROVE DecisionInv' /\ StandingInv' /\ OnboardInv'
  BY <1>5, FramePreserves DEF Abort, Idle, IInv, TypeOK
<1>6. ASSUME NEW c \in calls, Callback(c) PROVE DecisionInv' /\ StandingInv' /\ OnboardInv'
  <2>1. Loop \in Worker
    BY DEF Worker
  <2>2. Meaning(c.status) \in {"pending", "verified", "rejected"}
    BY MeaningType
  <2>3. Meaning(c.status) \in KYCStatus \cup {None}
    BY <2>2 DEF KYCStatus
  <2>. QED
    BY <1>6, <2>1, <2>2, <2>3, LoadPreserves DEF Callback
<1>7. ASSUME NEW a \in Account, NEW status \in AccountStatus, Decide(a, status)
      PROVE  DecisionInv' /\ StandingInv' /\ OnboardInv'
  BY <1>7, StillFramePreserves DEF Decide
<1>8. ASSUME NEW e \in events, Deliver(e) PROVE DecisionInv' /\ StandingInv' /\ OnboardInv'
  BY <1>8, StillFramePreserves DEF Deliver
<1>9. ASSUME NEW c \in calls, Lose(c) PROVE DecisionInv' /\ StandingInv' /\ OnboardInv'
  BY <1>9, StillFramePreserves DEF Lose
<1>10. CASE Answer
  BY <1>10, StillFramePreserves DEF Answer
<1>11. CASE UNCHANGED vars
  BY <1>11, StillFramePreserves DEF vars
<1>. QED
  BY <1>2, <1>3, <1>4, <1>5, <1>6, <1>7, <1>8, <1>9, <1>10, <1>11 DEF Next

\* The types are kept, for any accounts, threads and number of events.
THEOREM TypeCorrect == Spec => []TypeOK
<1>1. IInv => TypeOK
  BY DEF IInv
<1>. QED
  BY InvInit, InvNext, <1>1, PTL DEF Spec

\* Orphaned accounts never cause a callback.
THEOREM OnlyLinkedSpeaksHolds == Spec => []OnlyLinkedSpeaks
<1>1. IInv => OnlyLinkedSpeaks
  BY DEF IInv
<1>. QED
  BY InvInit, InvNext, <1>1, PTL DEF Spec

\* After a decision against the seller that did not overlap a verification, the
\* gate is closed until the next verification, whatever else overlaps.
THEOREM ClosedAfterRevocationHolds == Spec => []ClosedAfterRevocation
<1>1. IInv => ClosedAfterRevocation
  BY DEF IInv, StandingInv, Closed, ClosedAfterRevocation, Promise!FailsClosed, GateOpen, TypeOK
<1>. QED
  BY InvInit, InvNext, <1>1, PTL DEF Spec

-----------------------------------------------------------------------------
(* Refinement                                                              *)

LEMMA GateType == ASSUME TypeOK PROVE GateOpen \in BOOLEAN
BY DEF TypeOK, SellerProfile, GateOpen

\* Every step of Kyc is a step of PayoutGate or leaves its variables alone.
LEMMA StepSimulation == IInv /\ [Next]_vars => [Promise!Next]_<<GateOpen, standing>>
<1>. SUFFICES ASSUME IInv, [Next]_vars PROVE [Promise!Next]_<<GateOpen, standing>>
  OBVIOUS
<1>0. IInv'
  BY InvNext
<1>1. ASSUME NEW w \in Worker, Commit(w) PROVE Promise!Next
  <2>1. GateOpen' \in BOOLEAN
    BY <1>0, GateType DEF IInv, TypeOK, SellerProfile, GateOpen
  <2>2. CASE job[w].target = "verified"
    <3>1. standing' = TRUE
      BY <1>1, <2>2 DEF Commit
    <3>. QED
      BY <2>1, <3>1 DEF Promise!Next, Promise!Verify
  <2>3. CASE job[w].target # "verified" /\ standing' = FALSE
    <3>1. GateOpen' = FALSE
      BY <1>0, <2>1, <2>3 DEF IInv, StandingInv, Closed, GateOpen
    <3>. QED
      BY <2>3, <3>1 DEF Promise!Next, Promise!Revoke
  <2>4. CASE job[w].target # "verified" /\ standing' # FALSE
    <3>1. standing' = standing
      BY <1>0, <1>1, <2>4 DEF Commit, IInv, TypeOK
    <3>2. profile # None /\ GateOpen \in BOOLEAN
      BY <1>1, GateType DEF IInv, DecisionInv, Commit
    <3>3. GateOpen' => profile.kyc_status = "verified" /\ profile.payout_enabled # FALSE
      BY <1>1, <2>4, FlushedNoBetter DEF IInv, GateOpen, Commit
    <3>4. GateOpen' => GateOpen
      BY <3>2, <3>3 DEF IInv, TypeOK, SellerProfile, GateOpen
    <3>5. GateOpen' \in {GateOpen, FALSE}
      BY <2>1, <3>2, <3>4
    <3>. QED
      BY <3>1, <3>5 DEF Promise!Next, Promise!Deny
  <2>. QED
    BY <2>2, <2>3, <2>4
<1>2. ASSUME UNCHANGED <<profile, standing>> PROVE UNCHANGED <<GateOpen, standing>>
  BY <1>2 DEF GateOpen
<1>3. ASSUME NEW w \in Worker, NEW op, NEW target, Load(w, op, target)
      PROVE  UNCHANGED <<GateOpen, standing>>
  BY <1>3 DEF Load, Loaded, NewProfile, GateOpen
<1>4. ASSUME NEW w \in Thread, Handler(w) PROVE UNCHANGED <<GateOpen, standing>>
  <2>1. w \in Worker
    BY DEF Worker
  <2>. QED
    BY <1>2, <1>3, <1>4, <2>1 DEF Handler, StartKyc, SubmitKyc, VerifyKyc, RejectKyc, SyncKyc, ViewKyc, EndView
<1>5. ASSUME NEW w \in Front, Onboarding(w) PROVE UNCHANGED <<GateOpen, standing>>
  BY <1>2, <1>5 DEF Onboarding, StartConnect, CreateAccount, InsertProfile
<1>6. ASSUME NEW c \in calls, Callback(c) \/ Lose(c) PROVE UNCHANGED <<GateOpen, standing>>
  BY <1>2, <1>3, <1>6 DEF Callback, Lose, Worker
<1>7. ASSUME \/ \E w \in Worker : Abort(w)
             \/ \E a \in Account, status \in AccountStatus : Decide(a, status)
             \/ \E e \in events : Deliver(e)
             \/ Answer \/ UNCHANGED vars
      PROVE  UNCHANGED <<GateOpen, standing>>
  BY <1>2, <1>7 DEF Abort, Decide, Deliver, Answer, vars
<1>. QED
  BY <1>1, <1>4, <1>5, <1>6, <1>7 DEF Next

\* The profile, its handlers, the callbacks and the onboarding together
\* implement the gate as PayoutGate promises it.
THEOREM KycImplementsPayoutGate == Spec => ImplementsPayoutGate
<1>1. Init => Promise!Init
  BY DEF Init, Promise!Init, GateOpen
<1>. QED
  BY <1>1, InvInit, InvNext, StepSimulation, PTL DEF Spec, ImplementsPayoutGate, Promise!Spec

-----------------------------------------------------------------------------
(* Agreement with Razorpay                                                 *)

\* What an event says of its account's latest change is so; nothing was heard
\* of changes to come.
NewsInv ==
  /\ \A a \in Account : account[a].at = 0 => account[a].status # "activated"
  /\ \A e \in events : /\ e.at <= account[e.account].at
                       /\ e.at = account[e.account].at => e.status = account[e.account].status
  /\ heard = 0 \/ \E a \in Account : heard <= account[a].at

Current == linked # None => account[linked].at <= heard
Activated == linked # None /\ account[linked].status = "activated"

\* One callback at a time: first on the wire, then at the event loop.
Underway == hook \in calls \/ job[Loop] # Idle

PipelineInv ==
  quiet =>
    /\ linked = None => heard = 0
    /\ calls \subseteq {hook}
    /\ hook = None \/ hook \in calls => job[Loop] = Idle
    /\ job[Loop] # Idle => /\ job[Loop].pc = "commit" /\ job[Loop].op = "callback"
                           /\ job[Loop].target = Meaning(hook.status)
                           /\ job[Loop].seen = profile
    /\ Current /\ ~Underway => (GateOpen <=> Activated)
    /\ Current /\ Underway => (hook.status = "verified" <=> Activated)

\* Callbacks are handled on the event loop.
LoopInv == \A w \in Thread \cup Front : job[w].op # "callback"

AgreeInv == IInv /\ NewsInv /\ LoopInv /\ PipelineInv

LEMMA LoopNext == IInv /\ LoopInv /\ [Next]_vars => LoopInv'
<1>. SUFFICES ASSUME IInv, LoopInv, [Next]_vars PROVE LoopInv'
  OBVIOUS
<1>0. \A w \in Thread \cup Front : w \in Worker /\ w # Loop
  BY KycAssumption DEF Worker
<1>1. ASSUME NEW w \in Worker, NEW op, NEW target, Load(w, op, target), op # "callback" \/ w = Loop
      PROVE  LoopInv'
  BY <1>0, <1>1 DEF LoopInv, Load, IInv, TypeOK
<1>2. ASSUME NEW w \in Thread, Handler(w) PROVE LoopInv'
  <2>1. CASE EndView(w)
    BY <1>0, <2>1 DEF EndView, LoopInv, Idle, IInv, TypeOK
  <2>. QED
    BY <1>0, <1>1, <1>2, <2>1 DEF Handler, StartKyc, SubmitKyc, VerifyKyc, RejectKyc, SyncKyc, ViewKyc
<1>3. ASSUME NEW w \in Front, Onboarding(w) PROVE LoopInv'
  <2>1. w \in Worker /\ job[w] \in Job /\ DOMAIN job = Worker
    BY <1>0 DEF IInv, TypeOK
  <2>2. ASSUME NEW a \in Account, CreateAccount(w, a) PROVE LoopInv'
    <3>1. job'[w].op = job[w].op
      BY <2>1, <2>2 DEF CreateAccount, Job
    <3>. QED
      BY <1>0, <2>1, <2>2, <3>1 DEF LoopInv, CreateAccount
  <2>3. CASE StartConnect(w)
    BY <1>0, <2>1, <2>3 DEF LoopInv, StartConnect, Idle
  <2>4. CASE InsertProfile(w)
    BY <1>0, <2>1, <2>4 DEF LoopInv, InsertProfile, Idle
  <2>. QED
    BY <1>3, <2>2, <2>3, <2>4 DEF Onboarding
<1>4. ASSUME NEW w \in Worker, Commit(w) PROVE LoopInv'
  <2>1. \A x \in Worker : job'[x].op \in {job[x].op, "none"}
    BY <1>4 DEF Commit, Idle, IInv, TypeOK, Job
  <2>. QED
    BY <1>0, <2>1 DEF LoopInv
<1>5. ASSUME NEW w \in Worker, Abort(w) PROVE LoopInv'
  BY <1>0, <1>5 DEF Abort, LoopInv, Idle, IInv, TypeOK
<1>6. ASSUME NEW c \in calls, Callback(c) PROVE LoopInv'
  BY <1>1, <1>6 DEF Callback, Worker
<1>7. ASSUME UNCHANGED job PROVE LoopInv'
  BY <1>7 DEF LoopInv
<1>. QED
  BY <1>2, <1>3, <1>4, <1>5, <1>6, <1>7 DEF Next, Decide, Deliver, Lose, Answer, vars

LEMMA NewsNext == IInv /\ NewsInv /\ [Next]_vars => NewsInv'
<1>. SUFFICES ASSUME IInv, NewsInv, [Next]_vars PROVE NewsInv'
  OBVIOUS
<1>. USE DEF razorpay, wire
<1>1. CASE UNCHANGED <<account, heard>> /\ events' \subseteq events
  BY <1>1 DEF NewsInv
<1>2. ASSUME NEW w \in Front, NEW a \in Account, CreateAccount(w, a) PROVE NewsInv'
  <2>1. account' = [account EXCEPT ![a].status = "created"] /\ UNCHANGED <<events, heard>>
    BY <1>2 DEF CreateAccount
  <2>2. account[a].status = "none"
    BY <1>2 DEF CreateAccount
  <2>3. \A b \in Account : account'[b].at = account[b].at
    BY <2>1 DEF IInv, TypeOK
  <2>4. \A b \in Account : b # a => account'[b] = account[b]
    BY <2>1 DEF IInv, TypeOK
  <2>5. account'[a].status = "created"
    BY <2>1 DEF IInv, TypeOK
  <2>6. \A e \in events : e \in Event /\ e.account \in Account /\ e.status # "none"
    BY DEF IInv, TypeOK, Event, AccountStatus
  <2>7. \A e \in events : e.account = a => e.at # account[a].at
    BY <2>2, <2>6 DEF NewsInv
  <2>. QED
    BY <2>1, <2>3, <2>4, <2>5, <2>6, <2>7 DEF NewsInv
<1>3. ASSUME NEW a \in Account, NEW status \in AccountStatus, Decide(a, status) PROVE NewsInv'
  <2>1. PICK at \in 1..MaxNews :
          /\ \A b \in Account : account[b].at < at
          /\ account' = [account EXCEPT ![a] = [status |-> status, at |-> at]]
          /\ events' = events \cup {[account |-> a, status |-> status, at |-> at]}
    BY <1>3 DEF Decide
  <2>2. account'[a] = [status |-> status, at |-> at]
    BY <2>1 DEF IInv, TypeOK
  <2>3. \A b \in Account : b # a => account'[b] = account[b]
    BY <2>1 DEF IInv, TypeOK
  <2>4. at \in Int /\ at # 0 /\ heard \in Int /\ heard' = heard
    BY <1>3, <2>1, KycAssumption DEF IInv, TypeOK, Decide
  <2>5. \A b \in Account : account[b].at \in Int
    BY KycAssumption DEF IInv, TypeOK
  <2>6. \A e \in events : e.account \in Account /\ e.at \in Int
    BY KycAssumption DEF IInv, TypeOK, Event
  <2>7. \A b \in Account : account'[b].at = 0 => account'[b].status # "activated"
    BY <2>2, <2>3, <2>4 DEF NewsInv
  <2>8. ASSUME NEW e \in events'
        PROVE  /\ e.at <= account'[e.account].at
               /\ e.at = account'[e.account].at => e.status = account'[e.account].status
    <3>1. CASE e \in events /\ e.account # a
      BY <2>3, <2>6, <3>1 DEF NewsInv
    <3>2. CASE e \in events /\ e.account = a
      <4>1. e.at <= account[a].at /\ account[a].at < at
        BY <2>1, <3>2 DEF NewsInv
      <4>2. e.at < at
        BY <2>4, <2>5, <2>6, <3>2, <4>1
      <4>. QED
        BY <2>2, <2>4, <2>6, <3>2, <4>2
    <3>3. CASE e = [account |-> a, status |-> status, at |-> at]
      BY <2>2, <2>4, <3>3
    <3>. QED
      BY <2>1, <3>1, <3>2, <3>3
  <2>9. heard' = 0 \/ \E b \in Account : heard' <= account'[b].at
    <3>1. CASE heard = 0
      BY <2>4, <3>1
    <3>2. ASSUME NEW b \in Account, heard <= account[b].at
          PROVE  heard' <= account'[a].at
      <4>1. account[b].at < at
        BY <2>1
      <4>. QED
        BY <2>2, <2>4, <2>5, <3>2, <4>1
    <3>. QED
      BY <3>1, <3>2 DEF NewsInv
  <2>. QED
    BY <2>7, <2>8, <2>9 DEF NewsInv
<1>4. ASSUME NEW e \in events, Deliver(e) PROVE NewsInv'
  <2>1. UNCHANGED account /\ events' \subseteq events /\ heard' \in {heard, e.at}
    BY <1>4 DEF Deliver
  <2>2. e.account \in Account
    BY DEF IInv, TypeOK, Event
  <2>. QED
    BY <2>1, <2>2 DEF NewsInv
<1>5. ASSUME NEW w \in Thread, Handler(w) PROVE NewsInv'
  BY <1>1, <1>5 DEF Handler, StartKyc, SubmitKyc, VerifyKyc, RejectKyc, SyncKyc, ViewKyc, EndView, Load
<1>6. ASSUME NEW w \in Front, Onboarding(w) PROVE NewsInv'
  BY <1>1, <1>2, <1>6 DEF Onboarding, StartConnect, InsertProfile
<1>7. ASSUME NEW c \in calls, Callback(c) \/ Lose(c) PROVE NewsInv'
  BY <1>1, <1>7 DEF Callback, Lose, Load
<1>8. ASSUME \/ \E w \in Worker : Commit(w) \/ Abort(w)
             \/ Answer \/ UNCHANGED vars
      PROVE  NewsInv'
  BY <1>1, <1>8 DEF Commit, Abort, Answer, vars
<1>. QED
  BY <1>3, <1>4, <1>5, <1>6, <1>7, <1>8 DEF Next

\* Steps of other workers that leave the profile and the wire alone.
LEMMA PipelineFrame ==
  ASSUME PipelineInv, UNCHANGED <<profile, linked, account, hook, calls, heard>>,
         job'[Loop] = job[Loop], quiet' => quiet
  PROVE  PipelineInv'
BY DEF PipelineInv, Current, Activated, Underway, GateOpen

LEMMA PipelineNext == AgreeInv /\ [Next]_vars => PipelineInv'
<1>. SUFFICES ASSUME AgreeInv, [Next]_vars PROVE PipelineInv'
  OBVIOUS
<1>. USE DEF razorpay, wire, AgreeInv
<1>0. Loop \notin Thread \cup Front /\ Loop \in Worker
  BY KycAssumption DEF Worker
<1>1. ASSUME NEW w \in Thread, NEW op \in {"view", "decide"}, NEW target,
             Load(w, op, target), UNCHANGED <<wire, quiet>>
      PROVE  PipelineInv'
  <2>1. job'[Loop] = job[Loop] /\ w # Loop
    BY <1>0, <1>1 DEF Load, IInv, TypeOK
  <2>2. CASE profile # None
    <3>1. profile' = profile
      BY <1>1, <2>2 DEF Load, Loaded
    <3>. QED
      BY <1>1, <2>1, <3>1, PipelineFrame DEF Load
  <2>3. CASE profile = None
    <3>1. ~GateOpen /\ GateOpen' = FALSE
      BY <1>1, <2>3 DEF Load, Loaded, NewProfile, GateOpen
    <3>2. quiet => job[Loop] = Idle
      BY <1>0, <2>3 DEF PipelineInv, IInv, DecisionInv
    <3>. QED
      BY <1>1, <2>1, <3>1, <3>2 DEF PipelineInv, Current, Activated, Underway, Load
  <2>. QED
    BY <2>2, <2>3
<1>2. ASSUME NEW w \in Thread, Handler(w) PROVE PipelineInv'
  <2>1. CASE EndView(w)
    <3>1. job'[Loop] = job[Loop]
      BY <1>0, <2>1 DEF EndView, IInv, TypeOK
    <3>. QED
      BY <2>1, <3>1, PipelineFrame DEF EndView
  <2>. QED
    BY <1>1, <1>2, <2>1 DEF Handler, StartKyc, SubmitKyc, VerifyKyc, RejectKyc, SyncKyc, ViewKyc
<1>3. ASSUME NEW w \in Front, Onboarding(w) PROVE PipelineInv'
  <2>1. job'[Loop] = job[Loop]
    BY <1>0, <1>3 DEF Onboarding, StartConnect, CreateAccount, InsertProfile, IInv, TypeOK
  <2>2. CASE StartConnect(w)
    BY <2>1, <2>2, PipelineFrame DEF StartConnect
  <2>3. ASSUME NEW a \in Account, CreateAccount(w, a) PROVE PipelineInv'
    <3>1. \A b \in Account : /\ account'[b].at = account[b].at
                             /\ account'[b].status = "activated" <=> account[b].status = "activated"
      BY <2>3 DEF CreateAccount, IInv, TypeOK
    <3>2. linked = None \/ linked \in Account
      BY DEF IInv, TypeOK
    <3>. QED
      BY <2>1, <2>3, <3>1, <3>2 DEF PipelineInv, Current, Activated, Underway, GateOpen, CreateAccount
  <2>4. CASE InsertProfile(w) /\ linked # None
    BY <2>1, <2>4, PipelineFrame DEF InsertProfile, Stored
  <2>5. CASE InsertProfile(w) /\ linked = None
    <3>1. calls = {} /\ hook = None
      BY <2>5, KycAssumption DEF IInv, OnlyLinkedSpeaks, TypeOK, Call
    <3>2. linked' \in Account
      BY <1>0, <2>5 DEF InsertProfile, Stored, IInv, OnboardInv, Worker
    <3>3. quiet => heard = 0 /\ job[Loop] = Idle /\ GateOpen = FALSE
      BY <2>5, <3>1, GateType DEF PipelineInv, Current, Activated, Underway, IInv
    <3>4. quiet' = quiet /\ UNCHANGED <<profile, account, hook, calls, heard>>
      BY <2>5 DEF InsertProfile
    <3>5. linked' # None
      BY <3>2, KycAssumption
    <3>6. account[linked'].at \in 0..MaxNews
      BY <3>2 DEF IInv, TypeOK
    <3>7. Current' => heard # 0 \/ ~Activated'
      BY <3>2, <3>4, <3>5, <3>6, KycAssumption DEF Current, Activated, NewsInv
    <3>8. GateOpen' = GateOpen
      BY <3>4 DEF GateOpen
    <3>9. ~Underway' \/ ~quiet
      BY <2>1, <3>1, <3>3, <3>4 DEF Underway
    <3>. QED
      BY <2>1, <3>1, <3>3, <3>4, <3>5, <3>7, <3>8, <3>9 DEF PipelineInv
  <2>. QED
    BY <1>3, <2>2, <2>3, <2>4, <2>5 DEF Onboarding
<1>4. ASSUME NEW w \in Worker, Commit(w) PROVE PipelineInv'
  <2>. SUFFICES ASSUME quiet' PROVE PipelineInv'
    BY DEF PipelineInv
  <2>1. quiet /\ job[w].op = "callback" /\ profile' = Flushed(job[w])
    BY <1>4 DEF Commit
  <2>2. w = Loop
    BY <2>1 DEF LoopInv, Worker
  <2>3. job'[Loop] = Idle /\ UNCHANGED <<linked, account, hook, calls, heard>>
    BY <1>0, <1>4, <2>2 DEF Commit
  <2>4. /\ job[Loop] # Idle /\ job[Loop].pc = "commit" /\ job[Loop].seen = profile
        /\ job[Loop].target = Meaning(hook.status)
    BY <2>1, <2>2 DEF PipelineInv, Idle
  <2>5. profile # None /\ profile \in SellerProfile
    BY <2>4, <1>0 DEF IInv, DecisionInv, TypeOK
  <2>6. hook \notin calls
    BY <2>1, <2>4 DEF PipelineInv
  <2>7. profile'.kyc_status = job[Loop].target /\ profile'.payout_enabled = (job[Loop].target = "verified")
    BY <2>1, <2>2, <2>4, <2>5 DEF Flushed
  <2>8. profile' # None
    BY <1>0, <2>1, <2>2, <2>4, FlushedType, KycAssumption DEF IInv
  <2>9. GateOpen' <=> hook.status = "verified"
    BY <2>4, <2>7, <2>8 DEF GateOpen, Meaning
  <2>. QED
    BY <2>1, <2>3, <2>4, <2>6, <2>9 DEF PipelineInv, Current, Activated, Underway
<1>5. ASSUME NEW w \in Worker, Abort(w) PROVE PipelineInv'
  BY <1>5 DEF Abort, PipelineInv
<1>6. ASSUME NEW a \in Account, NEW status \in AccountStatus, Decide(a, status)
      PROVE  PipelineInv'
  <2>1. PICK at \in 1..MaxNews :
          /\ \A b \in Account : account[b].at < at
          /\ account' = [account EXCEPT ![a] = [status |-> status, at |-> at]]
    BY <1>6 DEF Decide
  <2>2. /\ UNCHANGED <<profile, linked, hook, calls, heard, job, quiet>>
    BY <1>6 DEF Decide
  <2>3. heard < at
    BY <2>1, KycAssumption DEF NewsInv, IInv, TypeOK
  <2>4. linked = a => ~Current'
    BY <2>1, <2>2, <2>3, KycAssumption DEF Current, IInv, TypeOK
  <2>5. linked # a => (Current' <=> Current) /\ (Activated' <=> Activated)
    BY <2>1, <2>2 DEF Current, Activated, IInv, TypeOK
  <2>. QED
    BY <2>2, <2>4, <2>5 DEF PipelineInv, Underway, GateOpen
<1>7. ASSUME NEW e \in events, Deliver(e) PROVE PipelineInv'
  <2>. SUFFICES ASSUME quiet' PROVE PipelineInv'
    BY DEF PipelineInv
  <2>1. quiet /\ linked = e.account /\ e.at >= heard /\ hook = None
    BY <1>7 DEF Deliver, Named
  <2> DEFINE c == [account |-> e.account, status |-> Reported(e.status)]
  <2>2. hook' = c /\ calls' = calls \cup {c} /\ UNCHANGED <<profile, linked, account, job>>
    BY <1>7, <2>1 DEF Deliver, Named
  <2>3. calls = {} /\ job[Loop] = Idle
    BY <2>1, KycAssumption DEF PipelineInv, IInv, TypeOK
  <2>4. heard' = e.at /\ e \in Event
    BY <1>7, <2>1, KycAssumption DEF Deliver, IInv, TypeOK, Event
  <2>5. linked # None /\ linked \in Account
    BY <2>1, <2>4, KycAssumption DEF Event
  <2>6. Current' => e.status = account[linked].status
    BY <2>1, <2>2, <2>4, <2>5, KycAssumption DEF Current, NewsInv, IInv, TypeOK, Event
  <2>7. c.status = "verified" <=> e.status = "activated"
    BY <2>4 DEF Reported, Event, AccountStatus
  <2>8. Current' => (hook'.status = "verified" <=> Activated')
    BY <2>2, <2>5, <2>6, <2>7 DEF Activated
  <2>9. Underway'
    BY <2>2 DEF Underway
  <2>. QED
    BY <2>2, <2>3, <2>5, <2>8, <2>9 DEF PipelineInv
<1>8. ASSUME NEW c \in calls, Callback(c) PROVE PipelineInv'
  <2>. SUFFICES ASSUME quiet' PROVE PipelineInv'
    BY DEF PipelineInv
  <2>1. quiet /\ calls' = calls \ {c} /\ UNCHANGED <<linked, account, hook, heard>>
    BY <1>8 DEF Callback, Load
  <2>2. c = hook /\ calls' = {}
    BY <1>8, <2>1 DEF PipelineInv
  <2>3. profile' = Loaded
    BY <1>8 DEF Callback, Load
  <2>4. job'[Loop] = [Idle EXCEPT !.op = "callback", !.pc = "commit", !.seen = Loaded,
                                  !.target = Meaning(c.status), !.fresh = TRUE]
    BY <1>0, <1>8 DEF Callback, Load, IInv, TypeOK
  <2>5. /\ job'[Loop].pc = "commit" /\ job'[Loop].op = "callback"
        /\ job'[Loop].target = Meaning(c.status) /\ job'[Loop].seen = profile'
    BY <2>3, <2>4 DEF Idle
  <2>6. job'[Loop] # Idle
    BY <2>5 DEF Idle
  <2>7. Underway /\ Underway'
    BY <1>8, <2>2, <2>6 DEF Underway
  <2>8. hook # None /\ hook \notin calls'
    BY <1>8, <2>2, KycAssumption DEF IInv, TypeOK
  <2>9. (Current' <=> Current) /\ (Activated' <=> Activated)
    BY <2>1 DEF Current, Activated
  <2>. QED
    BY <2>1, <2>2, <2>5, <2>7, <2>8, <2>9 DEF PipelineInv
<1>9. ASSUME NEW c \in calls, Lose(c) PROVE PipelineInv'
  BY <1>9 DEF Lose, PipelineInv
<1>10. CASE Answer
  <2>. SUFFICES ASSUME quiet' PROVE PipelineInv'
    BY DEF PipelineInv
  <2>1. quiet /\ hook \notin calls /\ job[Loop] = Idle /\ hook' = None
        /\ UNCHANGED <<profile, linked, account, calls, job, heard>>
    BY <1>10 DEF Answer
  <2>2. calls = {}
    BY <2>1 DEF PipelineInv
  <2>. QED
    BY <2>1, <2>2 DEF PipelineInv, Current, Activated, Underway, GateOpen
<1>11. CASE UNCHANGED vars
  BY <1>11, PipelineFrame DEF vars
<1>. QED
  BY <1>2, <1>3, <1>4, <1>5, <1>6, <1>7, <1>8, <1>9, <1>10, <1>11 DEF Next

LEMMA AgreeInit == Init => AgreeInv
<1>. SUFFICES ASSUME Init PROVE AgreeInv
  OBVIOUS
<1>1. IInv
  BY InvInit
<1>2. NewsInv
  BY DEF Init, NewsInv
<1>3. LoopInv
  BY DEF Init, LoopInv, Worker, Idle
<1>4. GateOpen = FALSE /\ ~Underway /\ ~Activated
  BY DEF Init, GateOpen, Underway, Activated, Worker
<1>5. PipelineInv
  BY <1>4 DEF Init, PipelineInv, Worker
<1>. QED
  BY <1>1, <1>2, <1>3, <1>5 DEF AgreeInv

\* With events in order, callbacks in time and nobody else deciding, the gate
\* agrees with Razorpay at rest, for any number of accounts and changes.
THEOREM AgreesWithRazorpayHolds == Spec => []AgreesWithRazorpay
<1>1. AgreeInv /\ [Next]_vars => AgreeInv'
  BY InvNext, NewsNext, LoopNext, PipelineNext DEF AgreeInv
<1>2. AgreeInv => AgreesWithRazorpay
  BY DEF AgreeInv, PipelineInv, AgreesWithRazorpay, Settled, Current, Activated, Underway
<1>. QED
  BY AgreeInit, <1>1, <1>2, PTL DEF Spec
=============================================================================
