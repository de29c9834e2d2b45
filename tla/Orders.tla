------------------------------- MODULE Orders -------------------------------
(***************************************************************************)
(* The order ledger of payments-service: the rows of the tables orders and *)
(* entitlements, the handlers that read and write them, and Razorpay as    *)
(* those handlers use it.                                                  *)
(*                                                                         *)
(* A handler runs in one database session at READ COMMITTED: it loads the  *)
(* order row, issues further queries that each see what is committed by    *)
(* then, and writes everything back in one commit.  Each of these is a     *)
(* step of its own, so that handlers for the same order interleave.        *)
(*                                                                         *)
(* razorpay_webhook is an async handler that never awaits once the body is *)
(* read: it occupies the event loop of its process from the first query to *)
(* the last notification.  All the other handlers are plain functions and  *)
(* run on the threads of the pool.                                         *)
(***************************************************************************)
EXTENDS Naturals, FiniteSets, Sequences

CONSTANTS
  Order,              \* ids of the orders that may be created
  Loops,              \* one event loop per service process
  Threads,            \* threads of the pool
  None,               \* absence of an order id, a payment id or an entitlement row
  Test,               \* the payment ids that test_confirm_order makes up
  SellerOf, BuyerOf,  \* the parties of each order
  LargeOrder,         \* orders of at least new_seller_threshold_cents
  NewSellerMaxSales,  \* new_seller_max_sales of evaluate_fraud_rules
  RapidBuyerLimit,    \* rapid_buyer_order_limit of evaluate_fraud_rules
  Handlers            \* the routes that are registered

Workers == Loops \cup Threads
Confirmations == {"verify", "webhook", "test_confirm"}

ASSUME OrdersAssumption ==
  /\ IsFiniteSet(Order) /\ None \notin Order /\ Test \notin Order \cup {None}
  /\ None \notin Workers
  /\ LargeOrder \subseteq Order
  /\ Handlers \subseteq Confirmations \cup {"create", "release", "refund"}
  /\ NewSellerMaxSales \in Nat /\ RapidBuyerLimit \in Nat

VARIABLES
  db,       \* the committed row of each order: status, hold_status, razorpay_payment_id
  ents,     \* ents[o][w]: the entitlement row that worker w inserted for order o
  rzp,      \* Razorpay's own record of each order's payment
  job,      \* what each worker is doing, and what it has read so far
  recent,   \* orders created in the last rapid_buyer_window_minutes, oldest first
  tokens,   \* orders with an unexpired signed download URL
  told      \* orders whose seller or buyer has received an order_paid notification

vars == <<db, ents, rzp, job, recent, tokens, told>>

-----------------------------------------------------------------------------
(* Rows and jobs                                                           *)

OrderStatus == {"absent", "pending_payment", "paid", "refunded"}
HoldStatus == {"none", "held", "released", "refunded"}
PaymentId == Order \cup {None, Test}  \* a Razorpay payment is named by the order it pays
Row == [status : OrderStatus, hold : HoldStatus, pid : PaymentId]

AbsentRow == [status |-> "absent", hold |-> "none", pid |-> None]
NewRow == [status |-> "pending_payment", hold |-> "none", pid |-> None]

EntitlementStatus == {"absent", "active", "revoked"}

Stage == {"idle", "checkout", "loaded", "matched", "scored", "emit",
          "release", "refunding", "settled", "revoking"}
Job == [pc : Stage, kind : Confirmations \cup {"none", "create", "release", "refund"},
        order : Order \cup {None}, seen : Row, pay : PaymentId,
        ent : Workers \cup {None}, held : BOOLEAN]

\* A job that was handed payment p, has read row seen of order o, and nothing else yet.
Reading(stage, kind, o, seen, p) ==
  [pc |-> stage, kind |-> kind, order |-> o, seen |-> seen, pay |-> p,
   ent |-> None, held |-> FALSE]

Idle == Reading("idle", "none", None, AbsentRow, None)

TypeOK ==
  /\ db \in [Order -> Row]
  /\ ents \in [Order -> [Workers -> EntitlementStatus]]
  /\ rzp \in [Order -> {"none", "created", "captured", "refunded"}]
  /\ job \in [Workers -> Job]
  /\ \A w \in Workers : job[w].pc # "idle" => job[w].order \in Order
  /\ recent \in Seq(Order)
  /\ tokens \in SUBSET Order
  /\ told \in SUBSET Order

Init ==
  /\ db = [o \in Order |-> AbsentRow]
  /\ ents = [o \in Order |-> [w \in Workers |-> "absent"]]
  /\ rzp = [o \in Order |-> "none"]
  /\ job = [w \in Workers |-> Idle]
  /\ recent = <<>>
  /\ tokens = {}
  /\ told = {}

\* The entitlement rows of an order, and the row that .first() may return.
\* Faulty variant: the query is restricted to active rows.
Rows(o) == {w \in Workers : ents[o][w] # "absent"}
ActiveRows(o) == {w \in Workers : ents[o][w] = "active"}
FirstEntitlement_activeOnly(o) == IF ActiveRows(o) = {} THEN {None} ELSE ActiveRows(o)
FirstEntitlement(o) == IF Rows(o) = {} THEN {None} ELSE Rows(o)

\* The session flushes an attribute only when it differs from the loaded value.
\* Faulty variant: every attribute is written back.
Written_always(new, seen, current) == new
Written(new, seen, current) == IF new # seen THEN new ELSE current
Flushed(new, seen, current) ==
  [status |-> Written(new.status, seen.status, current.status),
   hold |-> Written(new.hold, seen.hold, current.hold),
   pid |-> Written(new.pid, seen.pid, current.pid)]

\* Worker w starts to serve request kind for order o and reads the order's row.
Begin(w, kind, o, p, stage) ==
  /\ kind \in Handlers
  /\ w \in (IF kind = "webhook" THEN Loops ELSE Threads)
  /\ job[w].pc = "idle"
  /\ job' = [job EXCEPT ![w] = Reading(stage, kind, o, db[o], p)]

At(w, stage) == job[w].pc = stage
Goto(w, stage) == job' = [job EXCEPT ![w].pc = stage]
Finish(w) == job' = [job EXCEPT ![w] = Idle]

-----------------------------------------------------------------------------
(* create_order                                                            *)

\* The row is flushed but not committed, and the Razorpay order is created.
\* A failure up to here rolls back and leaves no trace.
OpenCheckout(w, o) ==
  /\ db[o].status = "absent"
  /\ \A v \in Workers : job[v].order # o
  /\ Begin(w, "create", o, None, "checkout")
  /\ rzp' = [rzp EXCEPT ![o] = "created"]
  /\ UNCHANGED <<db, ents, recent, tokens, told>>

CommitCheckout(w) ==
  /\ At(w, "checkout")
  /\ db' = [db EXCEPT ![job[w].order] = NewRow]
  /\ recent' = Append(recent, job[w].order)
  /\ Finish(w)
  /\ UNCHANGED <<ents, rzp, tokens, told>>

-----------------------------------------------------------------------------
(* verify_order_payment, razorpay_webhook, test_confirm_order              *)

Captured == {p \in Order : rzp[p] \in {"captured", "refunded"}}

\* The payment that the caller presents.  A signed event is about the order's
\* own Razorpay order; a payment signature proves that some Razorpay order was
\* paid, and verify does not compare it with the one recorded for o;
\* test_confirm asks for nothing.  Faulty variant: verify skips the signature.
Evidence_unverified(kind, o, p) ==
  \/ kind = "test_confirm" /\ p = Test
  \/ kind = "webhook" /\ p = o /\ p \in Captured
  \/ kind = "verify" /\ p \in Order
Evidence(kind, o, p) ==
  \/ kind = "test_confirm" /\ p = Test
  \/ kind = "webhook" /\ p = o /\ p \in Captured
  \/ kind = "verify" /\ p \in Captured

\* An order that is already paid is answered without any change.
Confirmable(o) == db[o].status \notin {"absent", "paid"}

LoadConfirmation(w, kind, o) ==
  /\ Confirmable(o)
  /\ \E p \in Order \cup {Test} : Evidence(kind, o, p) /\ Begin(w, kind, o, p, "loaded")
  /\ UNCHANGED <<db, ents, rzp, recent, tokens, told>>

\* The query for an entitlement of the order, in a confirmation or a refund.
FindEntitlement(w) ==
  /\ At(w, "loaded") \/ At(w, "settled")
  /\ \E e \in FirstEntitlement(job[w].order) :
       job' = [job EXCEPT
                 ![w].ent = e,
                 ![w].pc = IF At(w, "loaded") THEN "matched" ELSE "revoking"]
  /\ UNCHANGED <<db, ents, rzp, recent, tokens, told>>

PaidSales(o) == {p \in Order : SellerOf[p] = SellerOf[o] /\ db[p].status = "paid"}
RecentOrders(o) == {i \in DOMAIN recent : BuyerOf[recent[i]] = BuyerOf[o]}

\* Faulty variant: the first rule is off by one.
ShouldHold_offByOne(o) ==
  \/ Cardinality(PaidSales(o)) < NewSellerMaxSales /\ o \in LargeOrder
  \/ Cardinality(RecentOrders(o)) >= RapidBuyerLimit
ShouldHold(o) ==
  \/ Cardinality(PaidSales(o)) <= NewSellerMaxSales /\ o \in LargeOrder
  \/ Cardinality(RecentOrders(o)) >= RapidBuyerLimit

ScoreFraud(w) ==
  /\ At(w, "matched")
  /\ job' = [job EXCEPT ![w].held = ShouldHold(job[w].order), ![w].pc = "scored"]
  /\ UNCHANGED <<db, ents, rzp, recent, tokens, told>>

\* The payment id is the one that the caller presents; both events of Razorpay
\* that are handled, order.paid and payment.captured, carry their payment.
Confirmed(j) ==
  [status |-> "paid", hold |-> IF j.held THEN "held" ELSE "none", pid |-> j.pay]

\* One transaction: the order row and, when none was found, a new entitlement.
\* Faulty variant: only verify_order_payment issues an entitlement.
Issued_byVerifyOnly(w, j) ==
  IF j.ent = None /\ j.kind = "verify" THEN [ents EXCEPT ![j.order][w] = "active"] ELSE ents
Issued(w, j) ==
  IF j.ent = None THEN [ents EXCEPT ![j.order][w] = "active"] ELSE ents

CommitConfirmation(w) ==
  LET j == job[w] IN
  /\ At(w, "scored")
  /\ db' = [db EXCEPT ![j.order] = Flushed(Confirmed(j), j.seen, @)]
  /\ ents' = Issued(w, j)
  /\ job' = [job EXCEPT ![w] = Reading("emit", j.kind, j.order, AbsentRow, None)]
  /\ UNCHANGED <<rzp, recent, tokens, told>>

\* emit_notification to the seller and to the buyer; both may fail open.
EmitPaid(w) ==
  /\ At(w, "emit")
  /\ told' \in {told, told \cup {job[w].order}}
  /\ Finish(w)
  /\ UNCHANGED <<db, ents, rzp, recent, tokens>>

-----------------------------------------------------------------------------
(* release_order_hold                                                      *)

LoadRelease(w, o) ==
  /\ db[o].hold = "held"
  /\ Begin(w, "release", o, None, "release")
  /\ UNCHANGED <<db, ents, rzp, recent, tokens, told>>

CommitRelease(w) ==
  LET j == job[w] IN
  /\ At(w, "release")
  /\ db' = [db EXCEPT ![j.order] = Flushed([j.seen EXCEPT !.hold = "released"], j.seen, @)]
  /\ Finish(w)
  /\ UNCHANGED <<ents, rzp, recent, tokens, told>>

-----------------------------------------------------------------------------
(* refund_order                                                            *)

LoadRefund(w, o) ==
  /\ db[o].status \in {"paid", "pending_payment"}
  /\ Begin(w, "refund", o, None, "refunding")
  /\ UNCHANGED <<db, ents, rzp, recent, tokens, told>>

\* No payment id was read: Razorpay is not called.
SkipGateway(w) ==
  /\ At(w, "refunding") /\ job[w].seen.pid = None
  /\ Goto(w, "settled")
  /\ UNCHANGED <<db, ents, rzp, recent, tokens, told>>

\* Razorpay refunds a captured payment once.  The answer may get lost, and
\* the handler then ends with 502 as it does when the refund is refused.
GatewayRefund(w) ==
  LET j == job[w] IN
  /\ At(w, "refunding") /\ j.seen.pid \in Order /\ rzp[j.seen.pid] = "captured"
  /\ rzp' = [rzp EXCEPT ![j.seen.pid] = "refunded"]
  /\ Goto(w, "settled") \/ Finish(w)
  /\ UNCHANGED <<db, ents, recent, tokens, told>>

GatewayRefuses(w) ==
  /\ At(w, "refunding") /\ job[w].seen.pid # None
  /\ Finish(w)
  /\ UNCHANGED <<db, ents, rzp, recent, tokens, told>>

Refunded(j) == [j.seen EXCEPT !.status = "refunded", !.hold = "refunded"]

\* Only the one row that the query returned is revoked.
Revoked(j) ==
  IF j.ent = None THEN ents ELSE [ents EXCEPT ![j.order][j.ent] = "revoked"]

CommitRefund(w) ==
  LET j == job[w] IN
  /\ At(w, "revoking")
  /\ db' = [db EXCEPT ![j.order] = Flushed(Refunded(j), j.seen, @)]
  /\ ents' = Revoked(j)
  /\ Finish(w)
  /\ UNCHANGED <<rzp, recent, tokens, told>>

-----------------------------------------------------------------------------
(* Downloads, failures and the environment                                 *)

\* get_order_download looks at the order's status only.
IssueDownload(o) ==
  /\ db[o].status = "paid"
  /\ tokens' = tokens \cup {o}
  /\ UNCHANGED <<db, ents, rzp, job, recent, told>>

ExpireDownload(o) ==
  /\ o \in tokens
  /\ tokens' = tokens \ {o}
  /\ UNCHANGED <<db, ents, rzp, job, recent, told>>

\* An exception, a lost database connection or the end of the process: the
\* session is closed and whatever was not committed is gone.
Abort(w) ==
  /\ ~At(w, "idle")
  /\ Finish(w)
  /\ UNCHANGED <<db, ents, rzp, recent, tokens, told>>

\* The buyer pays in Razorpay Checkout.  No handler closes a Razorpay order,
\* so this may happen at any time once the buyer knows of it.
Pay(o) ==
  /\ db[o].status # "absent" /\ rzp[o] = "created"
  /\ rzp' = [rzp EXCEPT ![o] = "captured"]
  /\ UNCHANGED <<db, ents, job, recent, tokens, told>>

\* The oldest recent order leaves the velocity window.
Elapse ==
  /\ recent # <<>>
  /\ recent' = Tail(recent)
  /\ UNCHANGED <<db, ents, rzp, job, tokens, told>>

WorkerStep(w) ==
  \/ CommitCheckout(w)
  \/ FindEntitlement(w) \/ ScoreFraud(w) \/ CommitConfirmation(w) \/ EmitPaid(w)
  \/ CommitRelease(w)
  \/ SkipGateway(w) \/ GatewayRefund(w) \/ GatewayRefuses(w) \/ CommitRefund(w)

Next ==
  \/ \E w \in Workers, o \in Order :
       \/ OpenCheckout(w, o)
       \/ \E kind \in Confirmations : LoadConfirmation(w, kind, o)
       \/ LoadRelease(w, o)
       \/ LoadRefund(w, o)
  \/ \E w \in Workers : WorkerStep(w) \/ Abort(w)
  \/ \E o \in Order : IssueDownload(o) \/ ExpireDownload(o) \/ Pay(o)
  \/ Elapse

Spec == Init /\ [][Next]_vars

\* Razorpay delivers an event again until it is answered with 200, and no
\* step of a handler fails on every attempt.  Nobody is obliged to buy, to
\* pay, to call verify, to review a hold or to refund.
Fairness ==
  /\ \A w \in Workers : SF_vars(FindEntitlement(w)) /\ SF_vars(ScoreFraud(w))
  /\ \A w \in Workers : SF_vars(CommitConfirmation(w)) /\ WF_vars(WorkerStep(w))
  /\ \A w \in Loops, o \in Order : SF_vars(LoadConfirmation(w, "webhook", o))

LiveSpec == Spec /\ Fairness

-----------------------------------------------------------------------------
(* Properties that hold                                                    *)

\* An order is confirmed together with an entitlement: whatever a buyer or a
\* seller can observe of a sale (the paid row, a download URL, an order_paid
\* notification) exists only if an entitlement row does.
EntitledBeforeServed ==
  \A o \in Order :
    db[o].status = "paid" \/ o \in tokens \/ o \in told => Rows(o) # {}

\* The ledger never runs ahead of the money: a payment that an order records
\* was captured, a paid order records one, and an order that recorded a
\* payment is never pending again, whichever step a handler or the process
\* fails at.
MoneyTrail ==
  \A o \in Order :
    /\ db[o].pid \in Order => db[o].pid \in Captured
    /\ db[o].status = "paid" => db[o].pid # None
    /\ db[o].pid # None => db[o].status \in {"paid", "refunded"}

\* The requests that are about to insert an entitlement row for o: they have
\* looked for one and found none.
Entitling(o) ==
  {w \in Workers :
     job[w].order = o /\ job[w].pc \in {"matched", "scored"} /\ job[w].ent = None}

\* A revocation is final: no late event, retry or concurrent confirmation makes
\* a revoked row active again, and once an order has a revoked row, no request
\* begins to entitle its buyer anew, whatever becomes of the order's status.
\* Only those that had looked for a row before there was one may add theirs.
RevocationIsFinal ==
  [][\A o \in Order :
       (\E v \in Workers : ents[o][v] = "revoked")
         => /\ \A w \in Workers : ents[o][w] = "revoked" => ents'[o][w] = "revoked"
            /\ Entitling(o)' \subseteq Entitling(o)
            /\ Rows(o)' \subseteq Rows(o) \cup Entitling(o)]_vars

\* Without refunds, fraud rule 1 cannot be outrun by concurrent confirmations
\* of this order or of others: a large order that is paid and was not held has
\* more than NewSellerMaxSales other paid sales of its seller to show for it.
NewSellerHeld ==
  \A o \in LargeOrder :
    db[o].status = "paid" /\ db[o].hold = "none"
      => Cardinality(PaidSales(o) \ {o}) > NewSellerMaxSales

\* Only an admin's review takes an order off hold: no confirmation does.
HeldUntilReviewed ==
  [][\A o \in Order : db[o].hold = "held" => db'[o].hold # "none"]_vars

\* A captured payment eventually yields an entitlement, even when the order
\* was marked refunded before the event of its payment arrived.
EveryPaymentDelivers ==
  \A o \in Order : rzp[o] = "captured" ~> Rows(o) # {}

-----------------------------------------------------------------------------
(* A property that the repository states and that does not hold (README.md) *)

\* refund_order "transitions order to 'refunded', and revokes buyer
\* entitlement": no refunded order keeps an active entitlement.
RefundRevokes ==
  \A o \in Order : db[o].status = "refunded" => \A w \in Workers : ents[o][w] # "active"
=============================================================================
