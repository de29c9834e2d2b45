---------------------------- MODULE OrdersProofs ----------------------------
(***************************************************************************)
(* Proofs about Orders, for every set of orders, event loops and threads,  *)
(* every assignment of parties and amounts, every threshold of the fraud   *)
(* rules and every set of registered routes.                               *)
(***************************************************************************)
EXTENDS Orders, FiniteSetTheorems, TLAPS

-----------------------------------------------------------------------------
(* Type correctness                                                        *)

\* What Begin makes of a worker is a job, and only of worker w.
LEMMA BeginType ==
  ASSUME TypeOK, NEW w \in Workers, NEW o \in Order,
         NEW kind \in Confirmations \cup {"create", "release", "refund"},
         NEW p \in PaymentId, NEW stage \in Stage \ {"idle"},
         Begin(w, kind, o, p, stage)
  PROVE  /\ job' \in [Workers -> Job]
         /\ \A v \in Workers : job'[v].pc # "idle" => job'[v].order \in Order
<1>. DEFINE j == Reading(stage, kind, o, db[o], p)
<1>1. j \in Job /\ j.order = o
  BY DEF TypeOK, Reading, Job
<1>2. job' = [job EXCEPT ![w] = j]
  BY DEF Begin
<1>. QED
  BY <1>1, <1>2 DEF TypeOK

LEMMA IdleType == Idle \in Job /\ Idle.pc = "idle"
BY DEF Idle, Reading, Job, Stage, Row, AbsentRow, OrderStatus, HoldStatus, PaymentId

\* The end of a request leaves the worker idle.
LEMMA FinishType ==
  ASSUME TypeOK, NEW w \in Workers, Finish(w)
  PROVE  /\ job' \in [Workers -> Job]
         /\ \A v \in Workers : job'[v].pc # "idle" => job'[v].order \in Order
BY IdleType DEF TypeOK, Finish

\* So does a job that moves on to its next stage.
LEMMA GotoType ==
  ASSUME TypeOK, NEW w \in Workers, job[w].pc # "idle",
         NEW stage \in Stage, Goto(w, stage)
  PROVE  /\ job' \in [Workers -> Job]
         /\ \A v \in Workers : job'[v].pc # "idle" => job'[v].order \in Order
BY DEF TypeOK, Goto, Job

\* A flush stores a row, whatever was loaded and whatever is stored by now.
LEMMA FlushedType ==
  ASSUME NEW new \in Row, NEW seen \in Row, NEW current \in Row
  PROVE  Flushed(new, seen, current) \in Row
BY DEF Flushed, Written, Row

LEMMA InitType == Init => TypeOK
<1>1. AbsentRow \in Row
  BY DEF AbsentRow, Row, OrderStatus, HoldStatus, PaymentId
<1>. QED
  BY <1>1, IdleType DEF Init, TypeOK, EntitlementStatus

LEMMA NextType == TypeOK /\ [Next]_vars => TypeOK'
<1>. SUFFICES ASSUME TypeOK, [Next]_vars PROVE TypeOK'
  OBVIOUS
<1>1. ASSUME NEW w \in Workers, NEW o \in Order, OpenCheckout(w, o)
      PROVE  TypeOK'
  BY <1>1, BeginType DEF OpenCheckout, TypeOK, Stage, PaymentId
<1>2. ASSUME NEW w \in Workers, NEW o \in Order, NEW kind \in Confirmations,
             LoadConfirmation(w, kind, o)
      PROVE  TypeOK'
  <2>1. PICK p \in Order \cup {Test} : Begin(w, kind, o, p, "loaded")
    BY <1>2 DEF LoadConfirmation
  <2>. QED
    BY <1>2, <2>1, BeginType DEF LoadConfirmation, TypeOK, Stage, PaymentId
<1>3. ASSUME NEW w \in Workers, NEW o \in Order, LoadRelease(w, o)
      PROVE  TypeOK'
  BY <1>3, BeginType DEF LoadRelease, TypeOK, Stage, PaymentId
<1>4. ASSUME NEW w \in Workers, NEW o \in Order, LoadRefund(w, o)
      PROVE  TypeOK'
  BY <1>4, BeginType DEF LoadRefund, TypeOK, Stage, PaymentId
<1>5. ASSUME NEW w \in Workers, CommitCheckout(w)
      PROVE  TypeOK'
  <2>1. NewRow \in Row
    BY DEF NewRow, Row, OrderStatus, HoldStatus, PaymentId
  <2>2. job[w].order \in Order
    BY <1>5 DEF CommitCheckout, At, TypeOK
  <2>. QED
    BY <1>5, <2>1, <2>2, FinishType DEF CommitCheckout, TypeOK
<1>6. ASSUME NEW w \in Workers, FindEntitlement(w)
      PROVE  TypeOK'
  <2>1. PICK e \in FirstEntitlement(job[w].order) :
          job' = [job EXCEPT ![w].ent = e,
                             ![w].pc = IF At(w, "loaded") THEN "matched" ELSE "revoking"]
    BY <1>6 DEF FindEntitlement
  <2>2. e \in Workers \cup {None}
    BY DEF FirstEntitlement, Rows
  <2>3. job[w] \in Job /\ job[w].order \in Order
    BY <1>6 DEF FindEntitlement, At, TypeOK
  <2>4. job' \in [Workers -> Job] /\ job'[w].order = job[w].order
    BY <2>1, <2>2, <2>3 DEF TypeOK, Job, Stage
  <2>. QED
    BY <1>6, <2>1, <2>3, <2>4 DEF FindEntitlement, TypeOK
<1>7. ASSUME NEW w \in Workers, ScoreFraud(w)
      PROVE  TypeOK'
  <2>1. ShouldHold(job[w].order) \in BOOLEAN
    BY DEF ShouldHold
  <2>2. job[w] \in Job /\ job[w].order \in Order
    BY <1>7 DEF ScoreFraud, At, TypeOK
  <2>3. job' \in [Workers -> Job] /\ job'[w].order = job[w].order
    BY <1>7, <2>1, <2>2 DEF ScoreFraud, TypeOK, Job, Stage
  <2>. QED
    BY <1>7, <2>2, <2>3 DEF ScoreFraud, TypeOK
<1>8. ASSUME NEW w \in Workers, CommitConfirmation(w)
      PROVE  TypeOK'
  <2>. DEFINE j == job[w]
  <2>1. j \in Job /\ j.order \in Order /\ j.seen \in Row
    BY <1>8 DEF CommitConfirmation, At, TypeOK, Job
  <2>2. Confirmed(j) \in Row
    BY <2>1 DEF Job, Confirmed, Row, OrderStatus, HoldStatus, PaymentId
  <2>3. db' \in [Order -> Row]
    BY <1>8, <2>1, <2>2, FlushedType DEF CommitConfirmation, TypeOK
  <2>4. ents' \in [Order -> [Workers -> EntitlementStatus]]
    BY <1>8, <2>1 DEF CommitConfirmation, Issued, TypeOK, EntitlementStatus
  <2>5. AbsentRow \in Row
    BY DEF AbsentRow, Row, OrderStatus, HoldStatus, PaymentId
  <2>6. Reading("emit", j.kind, j.order, AbsentRow, None) \in Job
    BY <2>1, <2>5 DEF Reading, Job, Stage, PaymentId
  <2>7. Reading("emit", j.kind, j.order, AbsentRow, None).order = j.order
    BY DEF Reading
  <2>8. job' = [job EXCEPT ![w] = Reading("emit", j.kind, j.order, AbsentRow, None)]
    BY <1>8 DEF CommitConfirmation
  <2>9. \A v \in Workers : job'[v].pc # "idle" => job'[v].order \in Order
    BY <2>1, <2>7, <2>8 DEF TypeOK
  <2>10. job' \in [Workers -> Job]
    BY <2>6, <2>8 DEF TypeOK
  <2>. QED
    BY <1>8, <2>3, <2>4, <2>9, <2>10 DEF CommitConfirmation, TypeOK
<1>9. ASSUME NEW w \in Workers, EmitPaid(w)
      PROVE  TypeOK'
  <2>1. job[w].order \in Order
    BY <1>9 DEF EmitPaid, At, TypeOK
  <2>. QED
    BY <1>9, <2>1, FinishType DEF EmitPaid, TypeOK
<1>10. ASSUME NEW w \in Workers, CommitRelease(w)
       PROVE  TypeOK'
  <2>. DEFINE j == job[w]
              r == [j.seen EXCEPT !.hold = "released"]
  <2>1. j.order \in Order /\ j.seen \in Row
    BY <1>10 DEF CommitRelease, At, TypeOK, Job
  <2>2. r \in Row
    BY <2>1 DEF Row, HoldStatus
  <2>3. db' \in [Order -> Row]
    BY <1>10, <2>1, <2>2, FlushedType DEF CommitRelease, TypeOK
  <2>. QED
    BY <1>10, <2>3, FinishType DEF CommitRelease, TypeOK
<1>11. ASSUME NEW w \in Workers, SkipGateway(w)
       PROVE  TypeOK'
  BY <1>11, GotoType DEF SkipGateway, TypeOK, At, Stage
<1>12. ASSUME NEW w \in Workers, GatewayRefund(w)
       PROVE  TypeOK'
  <2>1. job' \in [Workers -> Job]
        /\ \A v \in Workers : job'[v].pc # "idle" => job'[v].order \in Order
    BY <1>12, GotoType, FinishType DEF GatewayRefund, At, Stage
  <2>. QED
    BY <1>12, <2>1 DEF GatewayRefund, TypeOK
<1>13. ASSUME NEW w \in Workers, GatewayRefuses(w)
       PROVE  TypeOK'
  BY <1>13, FinishType DEF GatewayRefuses, TypeOK
<1>14. ASSUME NEW w \in Workers, CommitRefund(w)
       PROVE  TypeOK'
  <2>. DEFINE j == job[w]
  <2>1. j.order \in Order /\ j.seen \in Row /\ j.ent \in Workers \cup {None}
    BY <1>14 DEF CommitRefund, At, TypeOK, Job
  <2>2. Refunded(j) \in Row
    BY <2>1 DEF Refunded, Row, OrderStatus, HoldStatus
  <2>3. db' \in [Order -> Row]
    BY <1>14, <2>1, <2>2, FlushedType DEF CommitRefund, TypeOK
  <2>4. ents' \in [Order -> [Workers -> EntitlementStatus]]
    BY <1>14, <2>1 DEF CommitRefund, Revoked, TypeOK, EntitlementStatus
  <2>. QED
    BY <1>14, <2>3, <2>4, FinishType DEF CommitRefund, TypeOK
<1>15. ASSUME NEW w \in Workers, Abort(w)
       PROVE  TypeOK'
  BY <1>15, FinishType DEF Abort, TypeOK
<1>16. ASSUME NEW o \in Order, IssueDownload(o) \/ ExpireDownload(o) \/ Pay(o)
       PROVE  TypeOK'
  BY <1>16 DEF IssueDownload, ExpireDownload, Pay, TypeOK
<1>17. CASE Elapse
  BY <1>17 DEF Elapse, TypeOK
<1>18. CASE UNCHANGED vars
  BY <1>18 DEF vars, TypeOK
<1>. QED
  BY <1>1, <1>2, <1>3, <1>4, <1>5, <1>6, <1>7, <1>8, <1>9, <1>10, <1>11, <1>12,
     <1>13, <1>14, <1>15, <1>16, <1>17, <1>18 DEF Next, WorkerStep

\* Every reachable state is well typed: rows, jobs and notifications only ever
\* refer to orders that exist, at whatever stage a handler is.
THEOREM TypeCorrect == Spec => []TypeOK
<1>. QED
  BY InitType, NextType, PTL DEF Spec

-----------------------------------------------------------------------------
(* The inductive invariant                                                 *)

Entitled(o) == \E w \in Workers : ents[o][w] # "absent"

\* What holds of the ledger between any two steps.
LedgerInv ==
  \A o \in Order :
    /\ db[o].status = "paid" \/ o \in tokens \/ o \in told => Entitled(o)
    /\ db[o].pid \in Order => db[o].pid \in Captured
    /\ db[o].status = "absent" => db[o].hold = "none" /\ rzp[o] \in {"none", "created"}
    /\ db[o].pid # None => db[o].status \in {"paid", "refunded"}
    /\ db[o].status = "paid" => db[o].pid # None

\* A handler that creates an order is alone with it.
CheckoutInv ==
  \A w \in Workers : job[w].pc = "checkout" =>
    /\ db[job[w].order].status = "absent"
    /\ \A v \in Workers \ {w} : job[v].order # job[w].order

\* What a handler that works on an existing order has read still bounds what
\* is stored: orders do not disappear, recorded payments stay recorded.
HandlerInv ==
  \A w \in Workers : job[w].pc \notin {"idle", "checkout"} =>
    /\ db[job[w].order].status # "absent"
    /\ job[w].seen.pid # None => db[job[w].order].pid # None

\* What a confirmation or a refund knows about entitlements and money.
EvidenceInv ==
  \A w \in Workers :
    /\ job[w].pc \in {"loaded", "matched", "scored"} =>
         /\ job[w].pay \in Captured \cup {Test}
         /\ job[w].seen.status # "paid"
    /\ job[w].pc \in {"matched", "scored", "revoking"} /\ job[w].ent # None =>
         ents[job[w].order][job[w].ent] # "absent"
    /\ job[w].pc \in {"matched", "scored"} /\ job[w].ent = None =>
         ents[job[w].order][w] = "absent"
    /\ job[w].pc = "emit" => Entitled(job[w].order)

IInv == LedgerInv /\ CheckoutInv /\ HandlerInv /\ EvidenceInv

USE DEF Entitled, At, Captured

\* CheckoutInv survives a step that starts no checkout, assigns no order to a
\* worker and leaves alone the orders that are being created.
LEMMA CheckoutFrame ==
  ASSUME TypeOK, CheckoutInv,
         \A v \in Workers : job'[v].order \in {job[v].order, None},
         \A v \in Workers : job'[v].pc = "checkout" =>
           job[v].pc = "checkout" /\ job'[v].order = job[v].order,
         \A o \in Order : db[o].status = "absent" => db'[o].status = "absent"
  PROVE  CheckoutInv'
<1>. SUFFICES ASSUME NEW w \in Workers, job'[w].pc = "checkout"
              PROVE  /\ db'[job'[w].order].status = "absent"
                     /\ \A v \in Workers \ {w} : job'[v].order # job'[w].order
  BY DEF CheckoutInv
<1>1. job[w].pc = "checkout" /\ job'[w].order = job[w].order /\ job[w].order \in Order
  BY DEF TypeOK
<1>2. /\ db[job[w].order].status = "absent"
      /\ \A v \in Workers \ {w} : job[v].order # job[w].order
  BY <1>1 DEF CheckoutInv
<1>. QED
  BY <1>1, <1>2, OrdersAssumption

LEMMA InitInv == Init => IInv
BY OrdersAssumption DEF Init, IInv, LedgerInv, CheckoutInv, HandlerInv, EvidenceInv, AbsentRow, Idle, Reading

LEMMA OpenCheckoutInv ==
  ASSUME TypeOK, IInv, NEW w \in Workers, NEW o \in Order, OpenCheckout(w, o)
  PROVE  IInv'
<1>. DEFINE j == Reading("checkout", "create", o, db[o], None)
<1>1. /\ job' = [job EXCEPT ![w] = j]
      /\ j.pc = "checkout" /\ j.order = o
      /\ db[o].status = "absent" /\ rzp' = [rzp EXCEPT ![o] = "created"]
      /\ \A v \in Workers : job[v].order # o
      /\ db' = db /\ ents' = ents /\ tokens' = tokens /\ told' = told
  BY DEF OpenCheckout, Begin, Reading
<1>. HIDE DEF j
<1>2. Captured' = Captured
  BY <1>1 DEF IInv, LedgerInv, TypeOK
<1>3. LedgerInv'
  <2>. SUFFICES ASSUME NEW q \in Order PROVE LedgerInv!(q)'
    BY DEF LedgerInv
  <2>1. LedgerInv!(q)
    BY DEF IInv, LedgerInv
  <2>2. rzp'[q] \in {rzp[q], "created"}
    BY <1>1 DEF TypeOK
  <2>3. q = o \/ rzp'[q] = rzp[q]
    BY <1>1 DEF TypeOK
  <2>. QED
    BY <1>1, <1>2, <2>1, <2>2, <2>3
<1>4. CheckoutInv'
  BY <1>1 DEF IInv, CheckoutInv, TypeOK
<1>5. HandlerInv'
  BY <1>1 DEF IInv, HandlerInv, TypeOK
<1>6. EvidenceInv'
  BY <1>1, <1>2 DEF IInv, EvidenceInv, TypeOK
<1>. QED
  BY <1>3, <1>4, <1>5, <1>6 DEF IInv

\* A request for an existing order begins: only the job of w changes.
LEMMA LoadInv ==
  ASSUME TypeOK, IInv, NEW w \in Workers, NEW o \in Order, NEW kind, NEW stage,
         db[o].status # "absent",
         stage \in {"loaded", "release", "refunding"},
         NEW p, stage = "loaded" => p \in Captured \cup {Test} /\ db[o].status # "paid",
         Begin(w, kind, o, p, stage),
         UNCHANGED <<db, ents, rzp, tokens, told>>
  PROVE  IInv'
<1>. DEFINE j == Reading(stage, kind, o, db[o], p)
<1>1. /\ job' = [job EXCEPT ![w] = j]
      /\ j.pc = stage /\ j.order = o /\ j.seen = db[o] /\ j.pay = p
  BY DEF Begin, Reading
<1>. HIDE DEF j
<1>2. LedgerInv'
  BY DEF IInv, LedgerInv
<1>3. CheckoutInv'
  BY <1>1 DEF IInv, CheckoutInv, TypeOK
<1>4. HandlerInv'
  BY <1>1 DEF IInv, HandlerInv, TypeOK
<1>5. EvidenceInv'
  BY <1>1 DEF IInv, EvidenceInv, TypeOK
<1>. QED
  BY <1>2, <1>3, <1>4, <1>5 DEF IInv

\* A request ends without touching the ledger.
LEMMA FinishInv ==
  ASSUME TypeOK, IInv, NEW w \in Workers, Finish(w),
         UNCHANGED <<db, ents, rzp, tokens>>,
         \/ told' = told
         \/ told' = told \cup {job[w].order} /\ Entitled(job[w].order)
  PROVE  IInv'
<1>1. job' = [job EXCEPT ![w] = Idle] /\ Idle.pc = "idle" /\ Idle.order = None
  BY DEF Finish, Idle, Reading
<1>2. LedgerInv'
  BY DEF IInv, LedgerInv
<1>3. CheckoutInv'
  BY <1>1, OrdersAssumption DEF IInv, CheckoutInv, TypeOK
<1>4. HandlerInv'
  BY <1>1 DEF IInv, HandlerInv, TypeOK
<1>5. EvidenceInv'
  BY <1>1 DEF IInv, EvidenceInv, TypeOK
<1>. QED
  BY <1>2, <1>3, <1>4, <1>5 DEF IInv

LEMMA CommitCheckoutInv ==
  ASSUME TypeOK, IInv, NEW w \in Workers, CommitCheckout(w)
  PROVE  IInv'
<1>. DEFINE o == job[w].order
<1>1. /\ job[w].pc = "checkout" /\ o \in Order
      /\ db' = [db EXCEPT ![o] = NewRow]
      /\ job' = [job EXCEPT ![w] = Idle] /\ Idle.pc = "idle" /\ Idle.order = None
      /\ NewRow.status = "pending_payment" /\ NewRow.pid = None
      /\ ents' = ents /\ rzp' = rzp /\ tokens' = tokens /\ told' = told
  BY DEF CommitCheckout, TypeOK, Finish, Idle, Reading, NewRow
<1>2. /\ db[o].status = "absent"
      /\ \A v \in Workers \ {w} : job[v].order # o
  BY <1>1 DEF IInv, CheckoutInv
<1>. HIDE DEF o
<1>3. LedgerInv'
  BY <1>1, <1>2, OrdersAssumption DEF IInv, LedgerInv, TypeOK
<1>4. CheckoutInv'
  BY <1>1, <1>2, OrdersAssumption DEF IInv, CheckoutInv, TypeOK
<1>5. HandlerInv'
  BY <1>1, <1>2 DEF IInv, HandlerInv, TypeOK
<1>6. EvidenceInv'
  BY <1>1, <1>2 DEF IInv, EvidenceInv, TypeOK
<1>. QED
  BY <1>3, <1>4, <1>5, <1>6 DEF IInv

LEMMA FindEntitlementInv ==
  ASSUME TypeOK, IInv, NEW w \in Workers, FindEntitlement(w)
  PROVE  IInv'
<1>1. PICK e \in FirstEntitlement(job[w].order) :
        job' = [job EXCEPT ![w].ent = e,
                           ![w].pc = IF At(w, "loaded") THEN "matched" ELSE "revoking"]
  BY DEF FindEntitlement
<1>2. job[w].pc \in {"loaded", "settled"} /\ job[w] \in Job
  BY DEF FindEntitlement, TypeOK
<1>. DEFINE s == IF At(w, "loaded") THEN "matched" ELSE "revoking"
<1>3. /\ \A v \in Workers \ {w} : job'[v] = job[v]
      /\ job'[w].pc = s /\ job'[w].ent = e
      /\ job'[w].order = job[w].order /\ job'[w].seen = job[w].seen
      /\ job'[w].pay = job[w].pay
  BY <1>1, <1>2 DEF TypeOK, Job
<1>4. IF e = None THEN \A v \in Workers : ents[job[w].order][v] = "absent"
                  ELSE ents[job[w].order][e] # "absent"
  BY OrdersAssumption DEF FirstEntitlement, Rows
<1>5. db' = db /\ ents' = ents /\ rzp' = rzp /\ tokens' = tokens /\ told' = told
  BY DEF FindEntitlement
<1>6. LedgerInv'
  BY <1>5 DEF IInv, LedgerInv
<1>7. CheckoutInv'
  BY <1>2, <1>3, <1>5 DEF IInv, CheckoutInv
<1>8. HandlerInv'
  BY <1>2, <1>3, <1>5 DEF IInv, HandlerInv
<1>9. EvidenceInv'
  BY <1>2, <1>3, <1>4, <1>5 DEF IInv, EvidenceInv
<1>. QED
  BY <1>6, <1>7, <1>8, <1>9 DEF IInv

LEMMA ScoreFraudInv ==
  ASSUME TypeOK, IInv, NEW w \in Workers, ScoreFraud(w)
  PROVE  IInv'
<1>1. job[w].pc = "matched" /\ job[w] \in Job
  BY DEF ScoreFraud, TypeOK
<1>2. /\ \A v \in Workers \ {w} : job'[v] = job[v]
      /\ job'[w].pc = "scored" /\ job'[w].ent = job[w].ent
      /\ job'[w].order = job[w].order /\ job'[w].seen = job[w].seen
      /\ job'[w].pay = job[w].pay
  BY <1>1 DEF ScoreFraud, TypeOK, Job
<1>3. db' = db /\ ents' = ents /\ rzp' = rzp /\ tokens' = tokens /\ told' = told
  BY DEF ScoreFraud
<1>4. LedgerInv'
  BY <1>3 DEF IInv, LedgerInv
<1>5. CheckoutInv'
  BY <1>1, <1>2, <1>3 DEF IInv, CheckoutInv
<1>6. HandlerInv'
  BY <1>1, <1>2, <1>3 DEF IInv, HandlerInv
<1>7. EvidenceInv'
  BY <1>1, <1>2, <1>3 DEF IInv, EvidenceInv
<1>. QED
  BY <1>4, <1>5, <1>6, <1>7 DEF IInv

LEMMA CommitConfirmationInv ==
  ASSUME TypeOK, IInv, NEW w \in Workers, CommitConfirmation(w)
  PROVE  IInv'
<1>. DEFINE j == job[w]
            o == j.order
            row == Flushed(Confirmed(j), j.seen, db[o])
<1>1. j.pc = "scored" /\ j \in Job /\ o \in Order
  BY DEF CommitConfirmation, TypeOK
<1>2. /\ db' = [db EXCEPT ![o] = row] /\ ents' = Issued(w, j)
      /\ rzp' = rzp /\ tokens' = tokens /\ told' = told
  BY DEF CommitConfirmation
<1>3. /\ \A v \in Workers \ {w} : job'[v] = job[v]
      /\ job'[w].pc = "emit" /\ job'[w].order = o /\ job'[w].seen.pid = None
  BY <1>1 DEF CommitConfirmation, TypeOK, Reading, AbsentRow
\* What was true of the order at this point.
<1>4. /\ db[o].status # "absent"
      /\ j.seen.pid # None => db[o].pid # None
      /\ j.pay \in Captured \cup {Test}
      /\ j.seen.status # "paid"
      /\ IF j.ent = None THEN ents[o][w] = "absent" ELSE ents[o][j.ent] # "absent"
  BY <1>1 DEF IInv, HandlerInv, EvidenceInv
\* What the flush makes of it.
<1>5. /\ row.status = "paid" /\ row.pid # None
      /\ row.pid \in Order => row.pid \in Captured
  <2>1. /\ row.status = Written("paid", j.seen.status, db[o].status)
        /\ row.pid = Written(j.pay, j.seen.pid, db[o].pid)
    BY DEF Flushed, Confirmed
  <2>2. db[o].pid \in Order => db[o].pid \in Captured
    BY <1>1 DEF IInv, LedgerInv
  <2>3. j.pay # None
    BY <1>4, OrdersAssumption
  <2>. QED
    BY <1>4, <2>1, <2>2, <2>3, OrdersAssumption DEF Written
\* The entitlement row comes with it.
<1>6. /\ \A q \in Order, v \in Workers : ents[q][v] # "absent" => ents'[q][v] # "absent"
      /\ \A q \in Order, v \in Workers \ {w} : ents'[q][v] = ents[q][v]
      /\ \E v \in Workers : ents'[o][v] # "absent"
  <2>1. CASE j.ent = None
    <3>1. ents' = [ents EXCEPT ![o][w] = "active"]
      BY <1>2, <2>1 DEF Issued
    <3>2. ents'[o][w] = "active"
      BY <1>1, <3>1 DEF TypeOK
    <3>3. \A q \in Order, v \in Workers :
            ents'[q][v] = IF q = o /\ v = w THEN "active" ELSE ents[q][v]
      BY <1>1, <3>1 DEF TypeOK
    <3>. QED
      BY <3>2, <3>3
  <2>2. CASE j.ent # None
    <3>1. ents' = ents /\ j.ent \in Workers
      BY <1>1, <1>2, <2>2 DEF Issued, Job
    <3>. QED
      BY <1>4, <2>2, <3>1
  <2>. QED
    BY <2>1, <2>2
<1>. HIDE DEF j, o, row
<1>7. LedgerInv'
  <2>. SUFFICES ASSUME NEW q \in Order PROVE LedgerInv!(q)'
    BY DEF LedgerInv
  <2>1. LedgerInv!(q)
    BY DEF IInv, LedgerInv
  <2>2. Entitled(q) => Entitled(q)'
    BY <1>6
  <2>3. CASE q = o
    BY <1>1, <1>2, <1>5, <1>6, <2>1, <2>2, <2>3 DEF TypeOK
  <2>4. CASE q # o
    BY <1>1, <1>2, <2>1, <2>2, <2>4 DEF TypeOK
  <2>. QED
    BY <2>3, <2>4
<1>8. CheckoutInv'
  <2>1. \A v \in Workers : job'[v].order = job[v].order
    BY <1>3 DEF j, o
  <2>2. \A q \in Order : db[q].status = "absent" => db'[q].status = "absent"
    BY <1>2, <1>4 DEF TypeOK
  <2>. QED
    BY <1>2, <1>3, <2>1, <2>2, CheckoutFrame DEF IInv
<1>9. HandlerInv'
  BY <1>1, <1>2, <1>3, <1>4, <1>5 DEF IInv, HandlerInv, TypeOK
<1>10. EvidenceInv'
  <2>. SUFFICES ASSUME NEW v \in Workers PROVE EvidenceInv!(v)'
    BY DEF EvidenceInv
  <2>1. EvidenceInv!(v)
    BY DEF IInv, EvidenceInv
  <2>2. CASE v = w
    BY <1>3, <1>6, <2>2
  <2>3. CASE v # w
    <3>1. job'[v] = job[v] /\ job[v] \in Job /\ (job[v].pc # "idle" => job[v].order \in Order)
      BY <1>3, <2>3 DEF TypeOK
    <3>2. job[v].pc # "idle" =>
            /\ \A u \in Workers : ents[job[v].order][u] # "absent" => ents'[job[v].order][u] # "absent"
            /\ ents'[job[v].order][v] = ents[job[v].order][v]
      BY <1>6, <2>3, <3>1
    <3>3. job[v].ent \in Workers \cup {None}
      BY <3>1 DEF Job
    <3>. QED
      BY <1>2, <2>1, <3>1, <3>2, <3>3
  <2>. QED
    BY <2>2, <2>3
<1>. QED
  BY <1>7, <1>8, <1>9, <1>10 DEF IInv

\* A release flushes the hold and nothing else.
LEMMA CommitReleaseInv ==
  ASSUME TypeOK, IInv, NEW w \in Workers, CommitRelease(w)
  PROVE  IInv'
<1>. DEFINE o == job[w].order
            row == Flushed([job[w].seen EXCEPT !.hold = "released"], job[w].seen, db[o])
<1>1. /\ job[w].pc = "release" /\ o \in Order /\ job[w].seen \in Row
      /\ db' = [db EXCEPT ![o] = row]
      /\ job' = [job EXCEPT ![w] = Idle] /\ Idle.pc = "idle" /\ Idle.order = None
      /\ ents' = ents /\ rzp' = rzp /\ tokens' = tokens /\ told' = told
  BY DEF CommitRelease, TypeOK, Job, Finish, Idle, Reading
<1>2. row.status = db[o].status /\ row.pid = db[o].pid /\ db[o].status # "absent"
  BY <1>1 DEF Flushed, Written, Row, IInv, HandlerInv
<1>. HIDE DEF o, row
<1>3. \A q \in Order : /\ db'[q].status = db[q].status /\ db'[q].pid = db[q].pid
                       /\ db[q].status = "absent" => db'[q] = db[q]
  BY <1>1, <1>2 DEF TypeOK
<1>4. LedgerInv'
  <2>. SUFFICES ASSUME NEW q \in Order PROVE LedgerInv!(q)'
    BY DEF LedgerInv
  <2>1. LedgerInv!(q)
    BY DEF IInv, LedgerInv
  <2>. QED
    BY <1>1, <1>3, <2>1
<1>5. CheckoutInv'
  BY <1>1, <1>3, OrdersAssumption DEF IInv, CheckoutInv, TypeOK
<1>6. HandlerInv'
  BY <1>1, <1>3 DEF IInv, HandlerInv, TypeOK
<1>7. EvidenceInv'
  BY <1>1 DEF IInv, EvidenceInv, TypeOK
<1>. QED
  BY <1>4, <1>5, <1>6, <1>7 DEF IInv

LEMMA SkipGatewayInv ==
  ASSUME TypeOK, IInv, NEW w \in Workers, SkipGateway(w)
  PROVE  IInv'
<1>1. job[w].pc = "refunding" /\ job[w] \in Job
  BY DEF SkipGateway, TypeOK
<1>2. /\ \A v \in Workers \ {w} : job'[v] = job[v]
      /\ job'[w].pc = "settled" /\ job'[w].order = job[w].order
      /\ job'[w].seen = job[w].seen
  BY <1>1 DEF SkipGateway, Goto, TypeOK, Job
<1>3. db' = db /\ ents' = ents /\ rzp' = rzp /\ tokens' = tokens /\ told' = told
  BY DEF SkipGateway
<1>4. LedgerInv'
  BY <1>3 DEF IInv, LedgerInv
<1>5. CheckoutInv'
  BY <1>1, <1>2, <1>3 DEF IInv, CheckoutInv
<1>6. HandlerInv'
  BY <1>1, <1>2, <1>3 DEF IInv, HandlerInv
<1>7. EvidenceInv'
  BY <1>1, <1>2, <1>3 DEF IInv, EvidenceInv
<1>. QED
  BY <1>4, <1>5, <1>6, <1>7 DEF IInv

\* Razorpay is asked to refund only an order whose payment was recorded.
LEMMA GatewayRefundInv ==
  ASSUME TypeOK, IInv, NEW w \in Workers, GatewayRefund(w)
  PROVE  IInv'
<1>. DEFINE o == job[w].order
<1>1. /\ job[w].pc = "refunding" /\ job[w] \in Job /\ o \in Order
      /\ \E p \in Order : rzp[p] = "captured" /\ rzp' = [rzp EXCEPT ![p] = "refunded"]
      /\ db' = db /\ ents' = ents /\ tokens' = tokens /\ told' = told
  BY DEF GatewayRefund, TypeOK
<1>2. /\ \A v \in Workers \ {w} : job'[v] = job[v]
      /\ \/ job'[w].pc = "settled" /\ job'[w].order = o /\ job'[w].seen = job[w].seen
         \/ job'[w].pc = "idle" /\ job'[w].order = None
  BY <1>1 DEF GatewayRefund, Goto, Finish, Idle, Reading, TypeOK, Job
<1>3. Captured' = Captured /\ \A q \in Order : rzp[q] \in {"none", "created"} => rzp'[q] = rzp[q]
  BY <1>1 DEF TypeOK
<1>. HIDE DEF o
<1>4. LedgerInv'
  BY <1>1, <1>3 DEF IInv, LedgerInv, TypeOK
<1>5. CheckoutInv'
  <2>1. \A v \in Workers : job'[v].order \in {job[v].order, None}
    BY <1>2 DEF o
  <2>2. \A v \in Workers : job'[v].pc = "checkout" => job[v].pc = "checkout"
    BY <1>2
  <2>. QED
    BY <1>1, <1>2, <2>1, <2>2, CheckoutFrame DEF IInv
<1>6. HandlerInv'
  BY <1>1, <1>2 DEF IInv, HandlerInv, o
<1>7. EvidenceInv'
  BY <1>1, <1>2 DEF IInv, EvidenceInv, TypeOK, o
<1>. QED
  BY <1>4, <1>5, <1>6, <1>7 DEF IInv

LEMMA CommitRefundInv ==
  ASSUME TypeOK, IInv, NEW w \in Workers, CommitRefund(w)
  PROVE  IInv'
<1>. DEFINE j == job[w]
            o == j.order
            row == Flushed(Refunded(j), j.seen, db[o])
<1>1. /\ j.pc = "revoking" /\ j \in Job /\ o \in Order /\ j.seen \in Row
      /\ db' = [db EXCEPT ![o] = row] /\ ents' = Revoked(j)
      /\ job' = [job EXCEPT ![w] = Idle] /\ Idle.pc = "idle" /\ Idle.order = None
      /\ rzp' = rzp /\ tokens' = tokens /\ told' = told
  BY DEF CommitRefund, TypeOK, Job, Finish, Idle, Reading
<1>2. /\ row.status \in {"refunded", db[o].status} /\ row.pid = db[o].pid
  BY <1>1 DEF Flushed, Written, Refunded, Row
<1>3. /\ db[o].status # "absent"
      /\ j.ent # None => ents[o][j.ent] # "absent"
  BY <1>1 DEF IInv, HandlerInv, EvidenceInv
<1>4. \A p \in Order, v \in Workers : ents'[p][v] = "absent" <=> ents[p][v] = "absent"
  BY <1>1, <1>3 DEF Revoked, TypeOK, Job
<1>. HIDE DEF j, o, row
<1>5. LedgerInv'
  <2>. SUFFICES ASSUME NEW q \in Order PROVE LedgerInv!(q)'
    BY DEF LedgerInv
  <2>1. LedgerInv!(q)
    BY DEF IInv, LedgerInv
  <2>2. Entitled(q) <=> Entitled(q)'
    BY <1>4
  <2>3. CASE q = o
    BY <1>1, <1>2, <1>3, <2>1, <2>2, <2>3 DEF TypeOK
  <2>4. CASE q # o
    BY <1>1, <2>1, <2>2, <2>4 DEF TypeOK
  <2>. QED
    BY <2>3, <2>4
<1>6. CheckoutInv'
  <2>1. \A v \in Workers : job'[v].order \in {job[v].order, None}
    BY <1>1 DEF TypeOK, j
  <2>2. \A v \in Workers : job'[v].pc = "checkout" =>
          job[v].pc = "checkout" /\ job'[v].order = job[v].order
    BY <1>1 DEF TypeOK, j
  <2>3. \A q \in Order : db[q].status = "absent" => db'[q].status = "absent"
    BY <1>1, <1>3 DEF TypeOK
  <2>. QED
    BY <1>1, <2>1, <2>2, <2>3, CheckoutFrame DEF IInv
<1>7. HandlerInv'
  BY <1>1, <1>2, <1>3 DEF IInv, HandlerInv, TypeOK
<1>8. EvidenceInv'
  <2>. SUFFICES ASSUME NEW v \in Workers PROVE EvidenceInv!(v)'
    BY DEF EvidenceInv
  <2>1. EvidenceInv!(v)
    BY DEF IInv, EvidenceInv
  <2>2. CASE v = w
    BY <1>1, <2>2 DEF TypeOK
  <2>3. CASE v # w
    <3>1. job'[v] = job[v] /\ job[v] \in Job /\ (job[v].pc # "idle" => job[v].order \in Order)
      BY <1>1, <2>3 DEF TypeOK
    <3>2. job[v].pc # "idle" => \A u \in Workers :
            ents'[job[v].order][u] = "absent" <=> ents[job[v].order][u] = "absent"
      BY <1>4, <3>1
    <3>3. job[v].ent \in Workers \cup {None}
      BY <3>1 DEF Job
    <3>. QED
      BY <1>1, <2>1, <3>1, <3>2, <3>3
  <2>. QED
    BY <2>2, <2>3
<1>. QED
  BY <1>5, <1>6, <1>7, <1>8 DEF IInv

LEMMA PayInv ==
  ASSUME TypeOK, IInv, NEW o \in Order, Pay(o)
  PROVE  IInv'
<1>1. LedgerInv'
  BY DEF Pay, IInv, LedgerInv, TypeOK
<1>2. CheckoutInv'
  BY DEF Pay, IInv, CheckoutInv, TypeOK
<1>3. HandlerInv'
  BY DEF Pay, IInv, HandlerInv
<1>4. EvidenceInv'
  BY DEF Pay, IInv, EvidenceInv, TypeOK
<1>. QED
  BY <1>1, <1>2, <1>3, <1>4 DEF IInv

LEMMA NextInv == TypeOK /\ IInv /\ [Next]_vars => IInv'
<1>. SUFFICES ASSUME TypeOK, IInv, [Next]_vars PROVE IInv'
  OBVIOUS
<1>1. ASSUME NEW w \in Workers, NEW o \in Order, NEW kind \in Confirmations,
             LoadConfirmation(w, kind, o)
      PROVE  IInv'
  BY <1>1, LoadInv DEF LoadConfirmation, Confirmable, Evidence
<1>2. ASSUME NEW w \in Workers, NEW o \in Order, LoadRelease(w, o)
      PROVE  IInv'
  <2>1. db[o].status # "absent"
    BY <1>2 DEF LoadRelease, IInv, LedgerInv
  <2>. QED
    BY <1>2, <2>1, LoadInv DEF LoadRelease
<1>3. ASSUME NEW w \in Workers, NEW o \in Order, LoadRefund(w, o)
      PROVE  IInv'
  BY <1>3, LoadInv DEF LoadRefund
<1>4. ASSUME NEW w \in Workers, EmitPaid(w)
      PROVE  IInv'
  <2>1. Entitled(job[w].order)
    BY <1>4 DEF EmitPaid, IInv, EvidenceInv
  <2>. QED
    BY <1>4, <2>1, FinishInv DEF EmitPaid
<1>5. ASSUME NEW w \in Workers, GatewayRefuses(w) \/ Abort(w)
      PROVE  IInv'
  BY <1>5, FinishInv DEF GatewayRefuses, Abort
<1>6. ASSUME NEW o \in Order, IssueDownload(o) \/ ExpireDownload(o)
      PROVE  IInv'
  BY <1>6 DEF IssueDownload, ExpireDownload, IInv, LedgerInv, CheckoutInv, HandlerInv,
     EvidenceInv
<1>7. CASE Elapse
  BY <1>7 DEF Elapse, IInv, LedgerInv, CheckoutInv, HandlerInv, EvidenceInv
<1>8. CASE UNCHANGED vars
  BY <1>8 DEF vars, IInv, LedgerInv, CheckoutInv, HandlerInv, EvidenceInv
<1>. QED
  BY <1>1, <1>2, <1>3, <1>4, <1>5, <1>6, <1>7, <1>8, OpenCheckoutInv, CommitCheckoutInv,
     FindEntitlementInv, ScoreFraudInv, CommitConfirmationInv, CommitReleaseInv,
     SkipGatewayInv, GatewayRefundInv, CommitRefundInv, PayInv DEF Next, WorkerStep

THEOREM Invariant == Spec => []IInv
<1>. QED
  BY InitInv, NextInv, TypeCorrect, PTL DEF Spec

-----------------------------------------------------------------------------
(* What the invariant says of the ledger                                   *)

\* A paid order, a download URL and an order_paid notification each prove an
\* entitlement row, however many handlers confirm or refund the order at once
\* and wherever one of them fails.
THEOREM EntitledBeforeServedHolds == Spec => []EntitledBeforeServed
<1>1. IInv => EntitledBeforeServed
  BY DEF IInv, LedgerInv, EntitledBeforeServed, Rows
<1>. QED
  BY <1>1, Invariant, PTL

\* The ledger and Razorpay's record of the money never contradict each other
\* in the way MoneyTrail rules out.
THEOREM MoneyTrailHolds == Spec => []MoneyTrail
<1>1. IInv => MoneyTrail
  BY DEF IInv, LedgerInv, MoneyTrail
<1>. QED
  BY <1>1, Invariant, PTL

\* No step makes a revoked entitlement row active again: a confirmation writes
\* only a row that it is the first to insert.  And a request that looks for a
\* row of the order finds the revoked one, so that none joins those that are
\* about to insert another.
THEOREM RevocationHolds == Spec => RevocationIsFinal
<1>. DEFINE Stays(o) == \A w \in Workers : ents[o][w] = "revoked" => ents'[o][w] = "revoked"
            Closed(o) == /\ Entitling(o)' \subseteq Entitling(o)
                         /\ Rows(o)' \subseteq Rows(o) \cup Entitling(o)
            Kept ==
              \A o \in Order :
                (\E v \in Workers : ents[o][v] = "revoked")
                  => /\ \A w \in Workers : ents[o][w] = "revoked" => ents'[o][w] = "revoked"
                     /\ Entitling(o)' \subseteq Entitling(o)
                     /\ Rows(o)' \subseteq Rows(o) \cup Entitling(o)
<1>1. TypeOK /\ IInv /\ Next => \A o \in Order : Stays(o)
  <2>. SUFFICES ASSUME TypeOK, IInv, Next PROVE \A o \in Order : Stays(o)
    OBVIOUS
  <2>1. ASSUME NEW w \in Workers, CommitConfirmation(w) PROVE \A o \in Order : Stays(o)
    <3>1. job[w].ent = None => ents[job[w].order][w] = "absent"
      BY <2>1 DEF CommitConfirmation, IInv, EvidenceInv
    <3>. QED
      BY <2>1, <3>1 DEF CommitConfirmation, Issued, TypeOK
  <2>2. ASSUME NEW w \in Workers, CommitRefund(w) PROVE \A o \in Order : Stays(o)
    BY <2>2 DEF CommitRefund, Revoked, TypeOK
  <2>3. CASE UNCHANGED ents
    BY <2>3
  <2>. QED
    BY <2>1, <2>2, <2>3 DEF Next, WorkerStep, OpenCheckout, CommitCheckout,
       LoadConfirmation, FindEntitlement, ScoreFraud, EmitPaid, LoadRelease,
       CommitRelease, LoadRefund, SkipGateway, GatewayRefund, GatewayRefuses,
       IssueDownload, ExpireDownload, Abort, Pay, Elapse
<1>2. TypeOK /\ IInv /\ Next
        => \A o \in Order : (\E v \in Workers : ents[o][v] = "revoked") => Closed(o)
  <2>. SUFFICES ASSUME TypeOK, IInv, Next, NEW o \in Order,
                       NEW v \in Workers, ents[o][v] = "revoked"
                PROVE  Closed(o)
    OBVIOUS
  <2>. USE DEF Entitling, Rows
  \* A worker that turns to something else was not about to insert, and inserts nothing.
  <2>1. ASSUME NEW w \in Workers, NEW j, job' = [job EXCEPT ![w] = j],
               j.pc \notin {"matched", "scored"}, UNCHANGED ents
        PROVE  Closed(o)
    BY <2>1 DEF TypeOK
  <2>2. ASSUME NEW w \in Workers, NEW p \in Order, NEW kind, NEW q,
               NEW stage \in {"checkout", "loaded", "release", "refunding"},
               Begin(w, kind, p, q, stage), UNCHANGED ents
        PROVE  Closed(o)
    <3>1. Reading(stage, kind, p, db[p], q).pc = stage
      BY DEF Reading
    <3>. QED
      BY <2>1, <2>2, <3>1 DEF Begin
  <2>3. ASSUME NEW w \in Workers, Finish(w), UNCHANGED ents PROVE Closed(o)
    BY <2>1, <2>3 DEF Finish, Idle, Reading
  <2>4. ASSUME NEW w \in Workers, FindEntitlement(w) PROVE Closed(o)
    <3>1. PICK e \in FirstEntitlement(job[w].order) :
            job' = [job EXCEPT ![w].ent = e, ![w].pc = IF At(w, "loaded") THEN "matched" ELSE "revoking"]
      BY <2>4 DEF FindEntitlement
    <3>2. /\ job'[w].ent = e /\ job'[w].order = job[w].order
          /\ \A x \in Workers \ {w} : job'[x] = job[x]
          /\ UNCHANGED ents
      BY <2>4, <3>1 DEF FindEntitlement, TypeOK, Job
    <3>3. job[w].order = o => e # None
      BY <3>1, OrdersAssumption DEF FirstEntitlement
    <3>. QED
      BY <3>2, <3>3
  <2>5. ASSUME NEW w \in Workers, ScoreFraud(w) PROVE Closed(o)
    <3>1. /\ job'[w].ent = job[w].ent /\ job'[w].order = job[w].order /\ job[w].pc = "matched"
          /\ \A x \in Workers \ {w} : job'[x] = job[x]
          /\ UNCHANGED ents
      BY <2>5 DEF ScoreFraud, TypeOK, Job
    <3>. QED
      BY <3>1
  <2>6. ASSUME NEW w \in Workers, SkipGateway(w) \/ GatewayRefund(w) PROVE Closed(o)
    <3>1. CASE Finish(w)
      BY <2>3, <2>6, <3>1 DEF SkipGateway, GatewayRefund
    <3>2. CASE Goto(w, "settled")
      <4>1. [job[w] EXCEPT !.pc = "settled"].pc = "settled"
        BY DEF TypeOK, Job
      <4>. QED
        BY <2>1, <2>6, <3>2, <4>1 DEF SkipGateway, GatewayRefund, Goto
    <3>. QED
      BY <2>6, <3>1, <3>2 DEF SkipGateway, GatewayRefund
  <2>7. ASSUME NEW w \in Workers, CommitConfirmation(w) PROVE Closed(o)
    <3>1. /\ job[w].pc = "scored" /\ job'[w].pc = "emit"
          /\ \A x \in Workers \ {w} : job'[x] = job[x]
          /\ ents' = IF job[w].ent = None THEN [ents EXCEPT ![job[w].order][w] = "active"] ELSE ents
      BY <2>7 DEF CommitConfirmation, Issued, TypeOK, Reading
    <3>. QED
      BY <3>1 DEF TypeOK
  <2>8. ASSUME NEW w \in Workers, CommitRefund(w) PROVE Closed(o)
    <3>1. /\ job'[w].pc = "idle" /\ \A x \in Workers \ {w} : job'[x] = job[x]
          /\ ents' = IF job[w].ent = None THEN ents
                     ELSE [ents EXCEPT ![job[w].order][job[w].ent] = "revoked"]
          /\ job[w].ent # None => ents[job[w].order][job[w].ent] # "absent"
      BY <2>8 DEF CommitRefund, Revoked, Finish, Idle, Reading, TypeOK, IInv, EvidenceInv
    <3>. QED
      BY <3>1 DEF TypeOK
  <2>9. CASE UNCHANGED <<job, ents>>
    BY <2>9
  <2>. QED
    BY <2>2, <2>3, <2>4, <2>5, <2>6, <2>7, <2>8, <2>9 DEF Next, WorkerStep, OpenCheckout,
       CommitCheckout, LoadConfirmation, EmitPaid, LoadRelease, CommitRelease, LoadRefund,
       GatewayRefuses, IssueDownload, ExpireDownload, Abort, Pay, Elapse
<1>3. TypeOK /\ IInv /\ [Next]_vars => [Kept]_vars
  BY <1>1, <1>2
<1>. QED
  BY <1>3, TypeCorrect, Invariant, PTL DEF Spec, RevocationIsFinal

-----------------------------------------------------------------------------
(* Fraud holds, for a service in which nobody refunds: with refunds neither *)
(* of the two properties holds (README.md).                                 *)

OtherSales(o) == PaidSales(o) \ {o}

\* What a request knows of the hold of its order, and of its seller's sales.
JobInv(j) ==
  /\ j.pc \notin {"refunding", "settled", "revoking"}
  /\ j.pc \in {"loaded", "matched", "scored"} => j.seen.hold = "none"
  /\ j.pc = "release" => j.seen.hold = "held" /\ db[j.order].status = "paid"
  /\ /\ j.pc = "scored" /\ j.held = FALSE /\ j.order \in LargeOrder
     /\ db[j.order].status # "paid"
     => Cardinality(OtherSales(j.order)) > NewSellerMaxSales

\* Only a paid order is held or released.
RowInv == \A o \in Order : db[o].status \in {"absent", "pending_payment"} => db[o].hold = "none"
PaidInv == \A o \in Order : db[o].status # "refunded"

HoldInv == RowInv /\ PaidInv /\ (\A w \in Workers : JobInv(job[w])) /\ NewSellerHeld

PaidStays == \A o \in Order : db[o].status = "paid" => db'[o].status = "paid"

\* A seller's sales can only grow while paid orders stay paid.
LEMMA SalesGrow ==
  ASSUME TypeOK, PaidStays, NEW o \in Order
  PROVE  /\ Cardinality(OtherSales(o)) \in Nat
         /\ Cardinality(OtherSales(o)') \in Nat
         /\ Cardinality(OtherSales(o)) <= Cardinality(OtherSales(o)')
<1>1. OtherSales(o) \subseteq OtherSales(o)' /\ OtherSales(o)' \subseteq Order
  BY DEF OtherSales, PaidSales, PaidStays
<1>2. IsFiniteSet(OtherSales(o)')
  BY <1>1, OrdersAssumption, FS_Subset
<1>. QED
  BY <1>1, <1>2, FS_Subset, FS_CardinalityType

\* What a job knows stays true while it is not rescheduled.
LEMMA JobFrame ==
  ASSUME TypeOK, PaidStays, NEW w \in Workers, JobInv(job[w]), job'[w] = job[w]
  PROVE  JobInv(job[w])'
<1>. SUFFICES ASSUME job[w].pc = "scored", job[w].held = FALSE, job[w].order \in LargeOrder,
                     db'[job[w].order].status # "paid"
              PROVE  Cardinality(OtherSales(job[w].order)') > NewSellerMaxSales
  BY DEF JobInv, PaidStays, TypeOK
<1>1. job[w].order \in Order
  BY DEF TypeOK
<1>2. Cardinality(OtherSales(job[w].order)) > NewSellerMaxSales
  BY <1>1 DEF JobInv, PaidStays
<1>. QED
  BY <1>1, <1>2, SalesGrow, OrdersAssumption

\* An order that keeps its row, or is not sold, stays held if it has to be.
LEMMA SellerFrame ==
  ASSUME TypeOK, PaidStays, NewSellerHeld, NEW o \in LargeOrder,
         db'[o].status = "paid" /\ db'[o].hold = "none"
           => db[o].status = "paid" /\ db[o].hold = "none"
  PROVE  NewSellerHeld!(o)'
<1>1. o \in Order
  BY OrdersAssumption
<1>2. /\ Cardinality(OtherSales(o)) \in Nat /\ Cardinality(OtherSales(o)') \in Nat
      /\ Cardinality(OtherSales(o)) <= Cardinality(OtherSales(o)')
  BY <1>1, SalesGrow
<1>3. CASE db[o].status = "paid" /\ db[o].hold = "none"
  <2>1. Cardinality(OtherSales(o)) > NewSellerMaxSales
    BY <1>3 DEF NewSellerHeld, OtherSales
  <2>. QED
    BY <1>2, <2>1, OrdersAssumption DEF OtherSales
<1>. QED
  BY <1>3

\* Nothing is lost by a step that leaves the rows alone and in which every job
\* goes on as it was, ends, or knows what JobInv asks of it.
LEMMA HoldFrame ==
  ASSUME TypeOK, HoldInv, db' = db,
         \A w \in Workers : job'[w] = job[w] \/ job'[w].pc \in {"idle", "checkout", "emit"}
                            \/ JobInv(job[w])'
  PROVE  HoldInv'
<1>1. PaidStays
  BY DEF PaidStays
<1>2. ASSUME NEW w \in Workers PROVE JobInv(job[w])'
  <2>1. CASE job'[w] = job[w]
    BY <1>1, <2>1, JobFrame DEF HoldInv
  <2>2. CASE job'[w].pc \in {"idle", "checkout", "emit"}
    BY <2>2 DEF JobInv
  <2>. QED
    BY <1>2, <2>1, <2>2
<1>3. NewSellerHeld'
  BY DEF HoldInv, NewSellerHeld, PaidSales
<1>. QED
  BY <1>2, <1>3 DEF HoldInv, RowInv, PaidInv

LEMMA HoldInit == Init => HoldInv
<1>. SUFFICES ASSUME Init PROVE HoldInv
  OBVIOUS
<1>1. LargeOrder \subseteq Order
  BY OrdersAssumption
<1>. QED
  BY <1>1 DEF Init, HoldInv, RowInv, PaidInv, JobInv, NewSellerHeld, Idle, Reading, AbsentRow

\* A request reads an unpaid order, or one that is held.
LEMMA HoldBegin ==
  ASSUME TypeOK, HoldInv, NEW w \in Workers, NEW o \in Order, NEW kind, NEW p, NEW stage,
         Begin(w, kind, o, p, stage), db' = db,
         \/ stage = "checkout"
         \/ stage = "loaded" /\ db[o].status \notin {"absent", "paid"}
         \/ stage = "release" /\ db[o].hold = "held"
  PROVE  HoldInv'
<1>. DEFINE j == Reading(stage, kind, o, db[o], p)
<1>1. job' = [job EXCEPT ![w] = j] /\ j.pc = stage /\ j.seen = db[o] /\ j.order = o
  BY DEF Begin, Reading
<1>. HIDE DEF j
<1>2. /\ stage = "loaded" => db[o].hold = "none"
      /\ stage = "release" => db[o].status = "paid"
  BY DEF HoldInv, RowInv, PaidInv, TypeOK, Row, OrderStatus
<1>3. JobInv(job[w])'
  BY <1>1, <1>2 DEF TypeOK, JobInv
<1>. QED
  BY <1>1, <1>3, HoldFrame DEF TypeOK

LEMMA HoldFinish ==
  ASSUME TypeOK, HoldInv, NEW w \in Workers, Finish(w), db' = db
  PROVE  HoldInv'
BY HoldFrame DEF Finish, Idle, Reading, TypeOK

\* The scoring query does not count the order itself until it is paid.
LEMMA HoldScore ==
  ASSUME TypeOK, HoldInv, NEW w \in Workers, ScoreFraud(w)
  PROVE  HoldInv'
<1>0. PICK o \in Order : o = job[w].order
  BY DEF ScoreFraud, At, TypeOK
<1>. DEFINE held == ShouldHold(o)
<1>1. /\ job[w].pc = "matched" /\ job[w] \in Job /\ db' = db
      /\ job' = [job EXCEPT ![w].held = held, ![w].pc = "scored"]
  BY <1>0 DEF ScoreFraud, At, TypeOK
<1>2. /\ job'[w].pc = "scored" /\ job'[w].held = held /\ job'[w].order = o
      /\ job'[w].seen = job[w].seen
      /\ \A v \in Workers \ {w} : job'[v] = job[v]
  BY <1>0, <1>1 DEF TypeOK, Job
<1>3. ASSUME held = FALSE, o \in LargeOrder, db[o].status # "paid"
      PROVE  Cardinality(OtherSales(o)) > NewSellerMaxSales
  <2>1. OtherSales(o) = PaidSales(o)
    BY <1>3 DEF OtherSales, PaidSales
  <2>2. Cardinality(PaidSales(o)) \in Nat
    <3>1. PaidSales(o) \subseteq Order
      BY DEF PaidSales
    <3>. QED
      BY <3>1, OrdersAssumption, FS_Subset, FS_CardinalityType
  <2>3. ~ (Cardinality(PaidSales(o)) <= NewSellerMaxSales)
    BY <1>3 DEF ShouldHold
  <2>. QED
    BY <2>1, <2>2, <2>3, OrdersAssumption
<1>4. OtherSales(o)' = OtherSales(o)
  BY <1>1, <1>2 DEF OtherSales, PaidSales
<1>5. JobInv(job[w])
  BY DEF HoldInv
<1>. HIDE DEF held
<1>6. JobInv(job[w])'
  <2>. SUFFICES ASSUME held = FALSE, o \in LargeOrder, db[o].status # "paid"
                PROVE  Cardinality(OtherSales(o)') > NewSellerMaxSales
    BY <1>1, <1>2, <1>5 DEF JobInv
  <2>. QED
    BY <1>3, <1>4
<1>. QED
  BY <1>1, <1>2, <1>6, HoldFrame

\* Whichever confirmation commits first decides the hold, and a later one can
\* only add to it.
LEMMA HoldConfirm ==
  ASSUME TypeOK, IInv, HoldInv, NEW w \in Workers, CommitConfirmation(w)
  PROVE  /\ HoldInv'
         /\ \A q \in Order : db[q].hold = "held" => db'[q].hold # "none"
<1>1. PICK o \in Order : o = job[w].order
  BY DEF CommitConfirmation, At, TypeOK
<1>. DEFINE j == job[w]
            row == Flushed(Confirmed(j), j.seen, db[o])
<1>2. /\ j.pc = "scored" /\ j \in Job /\ db' = [db EXCEPT ![o] = row]
      /\ \A v \in Workers \ {w} : job'[v] = job[v]
      /\ job'[w].pc = "emit"
  BY <1>1 DEF CommitConfirmation, At, TypeOK, Reading
<1>3. j.seen.status # "paid" /\ j.seen.hold = "none" /\ JobInv(j)
  BY <1>2 DEF IInv, EvidenceInv, HoldInv, JobInv
<1>4. /\ row.status = "paid"
      /\ row.hold \in {"held", db[o].hold}
      /\ row.hold = "none" => j.held = FALSE /\ db[o].hold = "none"
  BY <1>2, <1>3 DEF Flushed, Written, Confirmed, Job
<1>. HIDE DEF row
<1>5. /\ db'[o] = row
      /\ \A q \in Order \ {o} : db'[q] = db[q]
  BY <1>2 DEF TypeOK
<1>6. PaidStays
  BY <1>4, <1>5 DEF PaidStays
<1>7. ASSUME NEW v \in Workers PROVE JobInv(job[v])'
  <2>1. CASE v = w
    BY <1>2, <2>1 DEF JobInv
  <2>2. CASE v # w
    BY <1>2, <1>6, <2>2, JobFrame DEF HoldInv
  <2>. QED
    BY <2>1, <2>2
<1>8. NewSellerHeld'
  <2>. SUFFICES ASSUME NEW q \in LargeOrder, db'[q].status = "paid", db'[q].hold = "none"
                PROVE  Cardinality(OtherSales(q)') > NewSellerMaxSales
    BY DEF NewSellerHeld, OtherSales
  <2>1. q \in Order
    BY OrdersAssumption
  <2>2. CASE db[q].status = "paid" /\ db[q].hold = "none"
    BY <1>6, <2>2, SellerFrame DEF HoldInv, OtherSales
  <2>3. CASE q = o /\ db[o].status # "paid"
    <3>1. Cardinality(OtherSales(q)) > NewSellerMaxSales
      BY <1>1, <1>2, <1>3, <1>4, <1>5, <2>3 DEF JobInv
    <3>. QED
      BY <1>6, <2>1, <3>1, SalesGrow, OrdersAssumption
  <2>4. q # o => db[q].status = "paid" /\ db[q].hold = "none"
    BY <1>5, <2>1
  <2>5. db[o].status = "paid" /\ q = o => db[q].status = "paid" /\ db[q].hold = "none"
    BY <1>4, <1>5
  <2>. QED
    BY <2>2, <2>3, <2>4, <2>5
<1>9. RowInv' /\ PaidInv'
  BY <1>4, <1>5 DEF HoldInv, RowInv, PaidInv
<1>. QED
  BY <1>4, <1>5, <1>7, <1>8, <1>9 DEF HoldInv

\* A new row and a release neither sell nor hold an order.
LEMMA HoldCommit ==
  ASSUME TypeOK, IInv, HoldInv, NEW w \in Workers, CommitCheckout(w) \/ CommitRelease(w)
  PROVE  /\ HoldInv'
         /\ \A q \in Order : db[q].hold = "held" => db'[q].hold # "none"
<1>1. PICK o \in Order : o = job[w].order
  BY DEF CommitCheckout, CommitRelease, At, TypeOK
<1>2. PICK row : db' = [db EXCEPT ![o] = row] /\ db'[o] = row
  BY <1>1 DEF CommitCheckout, CommitRelease, TypeOK
<1>3. \/ row.status = "pending_payment" /\ row.hold = "none" /\ db[o].status = "absent"
      \/ row.status = "paid" /\ row.hold = "released" /\ db[o].status = "paid"
  <2>1. CASE CommitCheckout(w)
    <3>1. row = NewRow
      BY <1>1, <1>2, <2>1 DEF CommitCheckout, TypeOK
    <3>2. db[o].status = "absent"
      BY <1>1, <2>1 DEF CommitCheckout, At, IInv, CheckoutInv
    <3>. QED
      BY <3>1, <3>2 DEF NewRow
  <2>2. CASE CommitRelease(w)
    <3>1. row = Flushed([job[w].seen EXCEPT !.hold = "released"], job[w].seen, db[o])
      BY <1>1, <1>2, <2>2 DEF CommitRelease, TypeOK
    <3>2. /\ job[w].seen \in Row /\ job[w].seen.hold = "held"
          /\ db[o] \in Row /\ db[o].status = "paid"
      BY <1>1, <2>2 DEF CommitRelease, At, TypeOK, Job, HoldInv, JobInv
    <3>. QED
      BY <3>1, <3>2 DEF Flushed, Written, Row
  <2>. QED
    BY <2>1, <2>2
<1>4. /\ db'[o] = row
      /\ \A q \in Order \ {o} : db'[q] = db[q]
      /\ db[o].status = "absent" => db[o].hold = "none"
  BY <1>2 DEF TypeOK, HoldInv, RowInv
<1>5. PaidStays
  BY <1>3, <1>4 DEF PaidStays
<1>6. ASSUME NEW v \in Workers PROVE JobInv(job[v])'
  <2>1. job'[v] = job[v] \/ job'[v].pc = "idle"
    BY DEF CommitCheckout, CommitRelease, Finish, Idle, Reading, TypeOK
  <2>2. CASE job'[v] = job[v]
    BY <1>5, <2>2, JobFrame DEF HoldInv
  <2>3. CASE job'[v].pc = "idle"
    BY <2>3 DEF JobInv
  <2>. QED
    BY <2>1, <2>2, <2>3
<1>7. NewSellerHeld'
  <2>1. ASSUME NEW q \in LargeOrder PROVE NewSellerHeld!(q)'
    <3>1. q \in Order
      BY OrdersAssumption
    <3>. QED
      BY <1>3, <1>4, <1>5, <3>1, SellerFrame DEF HoldInv
  <2>. QED
    BY <2>1 DEF NewSellerHeld
<1>8. RowInv' /\ PaidInv'
  BY <1>3, <1>4 DEF HoldInv, RowInv, PaidInv
<1>. QED
  BY <1>3, <1>4, <1>6, <1>7, <1>8 DEF HoldInv

LEMMA HoldNext ==
  ASSUME "refund" \notin Handlers, TypeOK, IInv, HoldInv, [Next]_vars
  PROVE  /\ HoldInv'
         /\ \A q \in Order : db[q].hold = "held" => db'[q].hold # "none"
<1>1. ASSUME NEW w \in Workers, NEW o \in Order, OpenCheckout(w, o) PROVE HoldInv'
  BY <1>1, HoldBegin DEF OpenCheckout
<1>2. ASSUME NEW w \in Workers, NEW o \in Order, NEW kind \in Confirmations,
             LoadConfirmation(w, kind, o)
      PROVE  HoldInv'
  BY <1>2, HoldBegin DEF LoadConfirmation, Confirmable
<1>3. ASSUME NEW w \in Workers, NEW o \in Order, LoadRelease(w, o) PROVE HoldInv'
  BY <1>3, HoldBegin DEF LoadRelease
<1>4. ASSUME NEW w \in Workers, FindEntitlement(w) PROVE HoldInv'
  <2>1. JobInv(job[w]) /\ job[w] \in Job
    BY DEF HoldInv, TypeOK
  <2>2. At(w, "loaded") /\ db' = db
    BY <1>4, <2>1 DEF FindEntitlement, At, JobInv
  <2>3. PICK e : job' = [job EXCEPT ![w].ent = e, ![w].pc = "matched"]
    BY <1>4, <2>2 DEF FindEntitlement
  <2>4. /\ job'[w].pc = "matched" /\ job'[w].seen = job[w].seen
        /\ \A v \in Workers \ {w} : job'[v] = job[v]
    BY <2>1, <2>3 DEF TypeOK, Job
  <2>5. JobInv(job[w])'
    BY <2>1, <2>2, <2>4 DEF JobInv, At
  <2>. QED
    BY <2>2, <2>4, <2>5, HoldFrame
<1>5. ASSUME NEW w \in Workers, EmitPaid(w) \/ Abort(w) PROVE HoldInv'
  BY <1>5, HoldFinish DEF EmitPaid, Abort
<1>6. ASSUME NEW w \in Workers,
             \/ SkipGateway(w) \/ GatewayRefund(w) \/ GatewayRefuses(w) \/ CommitRefund(w)
      PROVE  FALSE
  BY <1>6 DEF SkipGateway, GatewayRefund, GatewayRefuses, CommitRefund, At, HoldInv, JobInv
<1>7. ASSUME NEW w \in Workers, NEW o \in Order, LoadRefund(w, o) PROVE FALSE
  BY <1>7 DEF LoadRefund, Begin
<1>8. CASE UNCHANGED <<db, job>>
  BY <1>8, HoldFrame
<1>9. \/ \E w \in Workers : CommitConfirmation(w) \/ CommitCheckout(w) \/ CommitRelease(w)
      \/ HoldInv' /\ db' = db
  <2>1. CASE \E o \in Order : IssueDownload(o) \/ ExpireDownload(o) \/ Pay(o)
    BY <1>8, <2>1 DEF IssueDownload, ExpireDownload, Pay
  <2>2. CASE Elapse
    BY <1>8, <2>2 DEF Elapse
  <2>3. CASE UNCHANGED vars
    BY <1>8, <2>3 DEF vars
  <2>4. CASE \E w \in Workers, o \in Order :
               \/ OpenCheckout(w, o)
               \/ \E kind \in Confirmations : LoadConfirmation(w, kind, o)
               \/ LoadRelease(w, o)
               \/ LoadRefund(w, o)
    BY <1>1, <1>2, <1>3, <1>7, <2>4 DEF OpenCheckout, LoadConfirmation, LoadRelease
  <2>5. CASE \E w \in Workers : WorkerStep(w) \/ Abort(w)
    BY <1>4, <1>5, <1>6, <2>5, HoldScore DEF WorkerStep, FindEntitlement, EmitPaid, Abort,
       ScoreFraud
  <2>. QED
    BY <2>1, <2>2, <2>3, <2>4, <2>5 DEF Next
<1>. QED
  BY <1>9, HoldConfirm, HoldCommit

\* Without refunds, a large order escapes the hold only when its seller has
\* more than NewSellerMaxSales other paid sales, however confirmations of this
\* order and of others interleave.
THEOREM NewSellerHeldHolds ==
  ASSUME "refund" \notin Handlers
  PROVE  Spec => []NewSellerHeld
<1>1. Init => HoldInv
  BY HoldInit
<1>2. TypeOK /\ IInv /\ HoldInv /\ [Next]_vars => HoldInv'
  BY HoldNext
<1>3. HoldInv => NewSellerHeld
  BY DEF HoldInv
<1>. QED
  BY <1>1, <1>2, <1>3, TypeCorrect, Invariant, PTL DEF Spec

\* Without refunds, no confirmation, however late, takes an order off hold.
THEOREM HeldUntilReviewedHolds ==
  ASSUME "refund" \notin Handlers
  PROVE  Spec => HeldUntilReviewed
<1>. DEFINE Kept == \A o \in Order : db[o].hold = "held" => db'[o].hold # "none"
<1>1. Init => HoldInv
  BY HoldInit
<1>2. TypeOK /\ IInv /\ HoldInv /\ [Next]_vars => HoldInv' /\ [Kept]_vars
  BY HoldNext
<1>. QED
  BY <1>1, <1>2, TypeCorrect, Invariant, PTL DEF Spec, HeldUntilReviewed

=============================================================================
