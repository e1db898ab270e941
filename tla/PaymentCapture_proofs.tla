----------------------- MODULE PaymentCapture_proofs -----------------------
(***************************************************************************)
(* Money and stock move once, and a store works only for orders whose      *)
(* money is booked, for any number of orders, attempts, charges and        *)
(* handlers, whichever of them die and however an order came to the store. *)
(* The flags on the order are what makes it so: the ledger can be read off *)
(* them (LedgerMatches), PAID is written with the booking, what is given   *)
(* back belongs to a cancelled order (OrdersSound), and so does what a     *)
(* handler is about to give back (CompensatesCancelled).                   *)
(***************************************************************************)
EXTENDS PaymentCapture, TLAPS

(* A charge is made on an attempt that exists (createRazorpayOrder).       *)
ChargesNamed ==
  \A c \in Charges :
    charge[c].state # "none" =>
      charge[c].payment \in Payments /\ payment[charge[c].payment] \in PaymentStatuses

(* A handler knows the attempt and the order its next write is about.      *)
Targeted(t) ==
  /\ t.kind \in {"create", "save"} => t.payment \in Payments
  /\ t.kind \in {"move", "release", "reverse"} => t.order \in Orders
TasksTargeted == \A p \in Handlers : Targeted(task[p])

Typing == TypeOK /\ ChargesNamed /\ TasksTargeted

(* The flags of an order tell what was moved for it.                       *)
Matches(l, doc) ==
  /\ l.captures = IF doc.captured THEN 1 ELSE 0
  /\ l.walletReturns = IF doc.reversed THEN 1 ELSE 0
  /\ l.releases = IF doc.stock = "released" THEN 1 ELSE 0
  /\ l.refunds <= l.captures
  /\ ~doc.reversed => l.refunds = 0
LedgerMatches == \A o \in Orders : Matches(ledger[o], order[o])

(* An order marked as paid, or accepted, is booked, and one that is not    *)
(* cancelled has been given nothing back.                                  *)
Sound(doc) ==
  /\ doc.paymentStatus = "PAID" \/ doc.status = "ACCEPTED" => doc.captured
  /\ doc.status # "CANCELLED" => ~doc.reversed /\ doc.stock = "reserved"
OrdersSound == \A o \in Orders : Sound(order[o])

(* What a handler gives back belongs to a cancelled order.                 *)
Compensating(t) == t.kind \in {"release", "reverse"}
CompensatesCancelled ==
  \A p \in Handlers : Compensating(task[p]) => order[task[p].order].status = "CANCELLED"

MoneyInv == Typing /\ LedgerMatches /\ OrdersSound /\ CompensatesCancelled

-----------------------------------------------------------------------------
(* An idle handler is well formed.                                         *)
LEMMA IdleTyped == Idle \in Tasks /\ Targeted(Idle) /\ ~Compensating(Idle)
  BY DEF Compensating, Idle, Tasks, TaskKinds, Callers, PaymentStatuses, Targeted

(* A checkout as it is placed satisfies the invariant.                     *)
LEMMA InitMoney == Init => MoneyInv
<1> SUFFICES ASSUME Init PROVE MoneyInv
  OBVIOUS
<1>1. order \in [Orders -> OrderDocs] /\ ledger \in [Orders -> Ledgers]
  BY DEF Init, OrderDocs, Ledgers, NewLedger
<1>2. task \in [Handlers -> Tasks] /\ TasksTargeted
  BY IdleTyped DEF Init, TasksTargeted
<1>3. charge \in [Charges -> [ state : {"none", "captured", "failed", "refunded"},
                               payment : Payments \cup {None} ]]
  BY DEF Init
<1>4. Typing
  BY <1>1, <1>2, <1>3 DEF Init, Typing, TypeOK, ChargesNamed
<1>5. LedgerMatches /\ OrdersSound
  BY DEF Init, LedgerMatches, Matches, NewLedger, OrdersSound, Sound
<1>6. CompensatesCancelled
  BY IdleTyped DEF Init, CompensatesCancelled
<1> QED BY <1>4, <1>5, <1>6 DEF MoneyInv

-----------------------------------------------------------------------------
(* Replacing one handler's task by a well-formed one keeps them all so.    *)
LEMMA TaskSet ==
  ASSUME Typing, NEW p \in Handlers, NEW t \in Tasks, Targeted(t),
         task' = [task EXCEPT ![p] = t]
  PROVE  task' \in [Handlers -> Tasks] /\ TasksTargeted'
<1>1. task' \in [Handlers -> Tasks]
  BY DEF Typing, TypeOK
<1>2. \A q \in Handlers : Targeted(task'[q])
  BY DEF Typing, TypeOK, TasksTargeted
<1> QED BY <1>1, <1>2 DEF TasksTargeted, Targeted

(* A handler that ends is well formed.                                     *)
LEMMA FinishTyped ==
  ASSUME Typing, NEW p \in Handlers, Finish(p)
  PROVE  task' \in [Handlers -> Tasks] /\ TasksTargeted'
  BY TaskSet, IdleTyped DEF Finish

(* What the handlers write into an order document leaves it one.           *)
LEMMA DocsTyped ==
  ASSUME NEW doc \in OrderDocs
  PROVE  /\ [doc EXCEPT !.captured = TRUE, !.paymentStatus = "PAID"] \in OrderDocs
         /\ [doc EXCEPT !.status = "CANCELLED"] \in OrderDocs
         /\ [doc EXCEPT !.status = "CANCELLED", !.paymentStatus = "FAILED",
                        !.stock = "released"] \in OrderDocs
         /\ [doc EXCEPT !.stock = "released"] \in OrderDocs
         /\ \A s \in {"CREATED", "PAID", "FAILED", "REFUNDED"} :
              /\ [doc EXCEPT !.paymentStatus = s] \in OrderDocs
              /\ [doc EXCEPT !.reversed = TRUE, !.paymentStatus = s] \in OrderDocs
  BY DEF OrderDocs

(* So does a document written for one order among the orders.              *)
LEMMA DocSet ==
  ASSUME Typing, NEW o \in Orders, NEW doc \in OrderDocs, order' = [order EXCEPT ![o] = doc]
  PROVE  order' \in [Orders -> OrderDocs]
  BY DEF Typing, TypeOK

(* The gateway's steps keep the records well formed.                       *)
LEMMA GatewayTypes ==
  ASSUME Typing, NEW c \in Charges,
         RefundCharge(c) \/ \E g \in Payments : Pay(c, g)
  PROVE  Typing'
<1> USE DEF Typing, TypeOK, ChargesNamed, TasksTargeted, Targeted
<1>1. CASE RefundCharge(c)
  BY <1>1 DEF RefundCharge
<1>2. ASSUME NEW g \in Payments, Pay(c, g) PROVE Typing'
  <2>1. payment[g] \in PaymentStatuses
    BY <1>2 DEF Pay, Chargeable
  <2>2. PICK state \in {"captured", "failed"} :
          charge' = [charge EXCEPT ![c] = [state |-> state, payment |-> g]]
    BY <1>2 DEF Pay
  <2>3. UNCHANGED <<order, payment, markers, ledger, task>>
    BY <1>2 DEF Pay
  <2> QED BY <2>1, <2>2, <2>3
<1> QED BY <1>1, <1>2

(* A payment attempt is created in two well-formed steps                   *)
(* (createPaymentOrderForOrderRef).                                        *)
LEMMA CreateTypes ==
  ASSUME Typing, NEW p \in Handlers, CreatePaymentRead(p) \/ CreatePayment(p)
  PROVE  Typing'
<1>1. CASE CreatePaymentRead(p)
  <2>1. PICK g \in Payments :
          task' = [task EXCEPT ![p] = [Idle EXCEPT !.kind = "create",
                                         !.caller = "checkout", !.payment = g]]
    BY <1>1 DEF CreatePaymentRead, Start
  <2> DEFINE t == [Idle EXCEPT !.kind = "create", !.caller = "checkout", !.payment = g]
  <2>2. t \in Tasks /\ Targeted(t)
    BY IdleTyped DEF Idle, Tasks, TaskKinds, Callers, Targeted
  <2>3. task' \in [Handlers -> Tasks] /\ TasksTargeted'
    BY <2>1, <2>2, TaskSet
  <2> QED BY <1>1, <2>3 DEF CreatePaymentRead, Typing, TypeOK, ChargesNamed
<1>2. CASE CreatePayment(p)
  <2>1. payment' \in [Payments -> PaymentStatuses \cup {None}]
    BY <1>2 DEF CreatePayment, Typing, TypeOK, PaymentStatuses
  <2>2. ChargesNamed'
    BY <1>2 DEF CreatePayment, Typing, TypeOK, ChargesNamed, PaymentStatuses
  <2>3. task' \in [Handlers -> Tasks] /\ TasksTargeted'
    BY <1>2, FinishTyped DEF CreatePayment
  <2> QED BY <1>2, <2>1, <2>2, <2>3 DEF CreatePayment, Typing, TypeOK
<1> QED BY <1>1, <1>2

(* A webhook or a verify call starts with an attempt that exists           *)
(* (processRazorpayWebhook, verifyRazorpayPaymentStatus).                  *)
LEMMA ReportTypes ==
  ASSUME Typing, NEW p \in Handlers, NEW c \in Charges,
         \/ \E event \in AllEvents : ReceiveWebhook(p, c, event)
         \/ \E valid \in BOOLEAN : VerifyPayment(p, c, valid)
  PROVE  Typing'
<1> DEFINE g == charge[c].payment
<1>1. charge[c].state # "none"
  BY DEF ReceiveWebhook, EventsOf, VerifyPayment
<1>2. g \in Payments /\ payment[g] \in PaymentStatuses
  BY <1>1 DEF Typing, ChargesNamed
<1>3. ASSUME NEW caller \in Callers, NEW next \in PaymentStatuses,
             task' = [task EXCEPT ![p] = Transition(caller, g, next)]
      PROVE  task' \in [Handlers -> Tasks] /\ TasksTargeted'
  <2>1. Transition(caller, g, next) \in Tasks /\ Targeted(Transition(caller, g, next))
    BY <1>2 DEF Transition, Idle, Tasks, TaskKinds, Targeted
  <2> QED BY <1>3, <2>1, TaskSet
<1>4. ASSUME NEW event \in AllEvents, ReceiveWebhook(p, c, event) PROVE Typing'
  <2>1. "webhook" \in Callers /\ mapRazorpayStatus(event) \in PaymentStatuses
    BY DEF Callers, mapRazorpayStatus, PaymentStatuses
  <2>2. task' \in [Handlers -> Tasks] /\ TasksTargeted'
    BY <1>3, <1>4, <2>1 DEF ReceiveWebhook, Start
  <2> QED BY <1>4, <2>2 DEF ReceiveWebhook, Typing, TypeOK, ChargesNamed
<1>5. ASSUME NEW valid \in BOOLEAN, VerifyPayment(p, c, valid) PROVE Typing'
  <2>1. "verify" \in Callers /\ {"CAPTURED", "FAILED"} \subseteq PaymentStatuses
    BY DEF Callers, PaymentStatuses
  <2>2. task' \in [Handlers -> Tasks] /\ TasksTargeted'
    BY <1>3, <1>5, <2>1 DEF VerifyPayment, Start
  <2> QED BY <1>5, <2>2 DEF VerifyPayment, Typing, TypeOK, ChargesNamed
<1> QED BY <1>4, <1>5

(* Saving the attempt goes on to side effects (transitionPaymentState).    *)
LEMMA SaveTypes ==
  ASSUME Typing, NEW p \in Handlers, SavePayment(p)
  PROVE  Typing'
<1>1. task[p] \in Tasks /\ task[p].payment \in Payments
  BY DEF Typing, TypeOK, TasksTargeted, Targeted, SavePayment, Busy
<1>2. Effects(task[p].next) \in {"capture", "fail", "refund", "reset"}
  BY DEF Effects
<1>3. /\ payment' \in [Payments -> PaymentStatuses \cup {None}]
      /\ ChargesNamed'
  BY <1>1 DEF Typing, TypeOK, ChargesNamed, SavePayment, Tasks
<1>4. task' \in [Handlers -> Tasks] /\ TasksTargeted'
  <2> DEFINE t == [task[p] EXCEPT !.kind = Effects(task[p].next), !.orders = Orders]
  <2>1. t \in Tasks /\ Targeted(t)
    BY <1>1, <1>2 DEF Tasks, TaskKinds, Targeted
  <2>2. CASE task' = [task EXCEPT ![p].kind = Effects(task[p].next), ![p].orders = Orders]
    <3>1. task' = [task EXCEPT ![p] = t]
      BY <2>2 DEF Typing, TypeOK
    <3> QED BY <2>1, <3>1, TaskSet
  <2>3. CASE Finish(p)
    BY <2>3, FinishTyped
  <2> QED BY <2>2, <2>3 DEF SavePayment
<1> QED BY <1>3, <1>4 DEF Typing, TypeOK, SavePayment

(* Booking an order is followed by handing over the same order, and that   *)
(* by the next order or the end of the loop.                               *)
LEMMA CaptureTypes ==
  ASSUME Typing, NEW p \in Handlers, CaptureOrder(p) \/ MoveOrder(p)
  PROVE  Typing'
<1>1. task[p] \in Tasks
  BY DEF Typing, TypeOK
<1>2. CASE CaptureOrder(p)
  <2>1. PICK o \in task[p].orders :
          /\ IF order[o].captured THEN UNCHANGED <<order, ledger>>
             ELSE /\ order' = [order EXCEPT ![o].captured = TRUE,
                                            ![o].paymentStatus = "PAID"]
                  /\ ledger' = [ledger EXCEPT ![o].captures = @ + 1]
          /\ task' = [task EXCEPT ![p].kind = "move", ![p].order = o]
    BY <1>2 DEF CaptureOrder
  <2>2. o \in Orders
    BY <1>1, <2>1 DEF Tasks
  <2>3. order' \in [Orders -> OrderDocs]
    <3>1. order \in [Orders -> OrderDocs] /\ order[o] \in OrderDocs
      BY <2>2 DEF Typing, TypeOK
    <3>2. \/ UNCHANGED order
          \/ order' = [order EXCEPT ![o] = [order[o] EXCEPT !.captured = TRUE,
                                                           !.paymentStatus = "PAID"]]
      BY <2>1, <3>1
    <3> QED BY <2>2, <3>1, <3>2, DocsTyped, DocSet
  <2>4. ledger' \in [Orders -> Ledgers]
    BY <2>1, <2>2 DEF Typing, TypeOK, Ledgers
  <2>5. task' \in [Handlers -> Tasks] /\ TasksTargeted'
    <3> DEFINE t == [task[p] EXCEPT !.kind = "move", !.order = o]
    <3>1. t \in Tasks /\ Targeted(t)
      BY <1>1, <2>2 DEF Tasks, TaskKinds, Targeted
    <3>2. task' = [task EXCEPT ![p] = t]
      BY <2>1 DEF Typing, TypeOK
    <3> QED BY <3>1, <3>2, TaskSet
  <2> QED BY <1>2, <2>3, <2>4, <2>5 DEF CaptureOrder, Typing, TypeOK, ChargesNamed
<1>3. CASE MoveOrder(p)
  <2>1. task[p].order \in Orders
    BY <1>3 DEF Typing, TasksTargeted, Targeted, MoveOrder, Busy
  <2>2. order' \in [Orders -> OrderDocs]
    BY <1>3, <2>1 DEF MoveOrder, GivenToStore, Typing, TypeOK, OrderDocs
  <2>3. task' \in [Handlers -> Tasks] /\ TasksTargeted'
    <3> DEFINE rest == task[p].orders \ {task[p].order}
               t == [task[p] EXCEPT !.kind = "capture", !.orders = rest, !.order = None]
    <3>1. t \in Tasks /\ Targeted(t)
      BY <1>1 DEF Tasks, TaskKinds, Targeted
    <3>2. CASE task' = [task EXCEPT ![p].kind = "capture", ![p].orders = rest,
                                    ![p].order = None]
      <4>1. task' = [task EXCEPT ![p] = t]
        BY <3>2 DEF Typing, TypeOK
      <4> QED BY <3>1, <4>1, TaskSet
    <3>3. CASE Finish(p)
      BY <3>3, FinishTyped
    <3> QED BY <1>3, <3>2, <3>3 DEF MoveOrder, NextOrder
  <2> QED BY <1>3, <2>2, <2>3 DEF MoveOrder, Typing, TypeOK, ChargesNamed
<1> QED BY <1>2, <1>3

(* The side effects of the other statuses write well-formed orders.        *)
LEMMA MirrorTypes ==
  ASSUME Typing, NEW p \in Handlers, FailOrders(p) \/ MirrorOrders(p)
  PROVE  Typing'
<1>1. order' \in [Orders -> OrderDocs] /\ ledger' \in [Orders -> Ledgers]
  <2>1. order \in [Orders -> OrderDocs] /\ ledger \in [Orders -> Ledgers]
    BY DEF Typing, TypeOK
  <2>2. \A l \in Ledgers : [l EXCEPT !.releases = @ + 1] \in Ledgers
    BY DEF Ledgers
  <2>3. CASE FailOrders(p)
    <3>1. order' \in [Orders -> OrderDocs]
      BY <2>1, <2>3, DocsTyped DEF FailOrders
    <3>2. ledger' \in [Orders -> Ledgers]
      BY <2>1, <2>2, <2>3 DEF FailOrders
    <3> QED BY <3>1, <3>2
  <2>4. CASE MirrorOrders(p)
    BY <2>1, <2>4, DocsTyped DEF MirrorOrders
  <2> QED BY <2>3, <2>4
<1>2. task' \in [Handlers -> Tasks] /\ TasksTargeted'
  BY FinishTyped DEF FailOrders, MirrorOrders
<1> QED BY <1>1, <1>2 DEF FailOrders, MirrorOrders, Typing, TypeOK, ChargesNamed

(* A cancellation goes on to compensate the order it cancelled             *)
(* (autoCancelExpiredOrders, customerCancelV2).                            *)
LEMMA CancelTypes ==
  ASSUME Typing, NEW p \in Handlers, NEW o \in Orders,
         PaymentTimeout(p, o) \/ CancelOrder(p, o)
  PROVE  Typing'
<1>1. order' \in [Orders -> OrderDocs]
  <2>1. order \in [Orders -> OrderDocs] /\ order[o] \in OrderDocs
    BY DEF Typing, TypeOK
  <2>2. order' = [order EXCEPT ![o] = [order[o] EXCEPT !.status = "CANCELLED"]]
    BY <2>1 DEF PaymentTimeout, CancelOrder
  <2> QED BY <2>1, <2>2, DocsTyped, DocSet
<1>2. task' \in [Handlers -> Tasks] /\ TasksTargeted'
  <2> DEFINE t == [Idle EXCEPT !.kind = "release", !.order = o]
  <2>1. t \in Tasks /\ Targeted(t)
    BY IdleTyped DEF Idle, Tasks, TaskKinds, Targeted
  <2>2. task' = [task EXCEPT ![p] = t]
    BY DEF PaymentTimeout, CancelOrder, Compensate, Start
  <2> QED BY <2>1, <2>2, TaskSet
<1> QED BY <1>1, <1>2 DEF PaymentTimeout, CancelOrder, Typing, TypeOK, ChargesNamed

(* Compensation writes well-formed orders (compensateOrderCancellation).   *)
LEMMA CompensateTypes ==
  ASSUME Typing, NEW p \in Handlers, ReleaseStock(p) \/ ReverseFinance(p)
  PROVE  Typing'
<1>1. task[p] \in Tasks /\ task[p].order \in Orders
  BY DEF Typing, TypeOK, TasksTargeted, Targeted, ReleaseStock, ReverseFinance, Busy
<1>2. order' \in [Orders -> OrderDocs]
  <2> DEFINE o == task[p].order
  <2>1. order \in [Orders -> OrderDocs] /\ order[o] \in OrderDocs
    BY <1>1 DEF Typing, TypeOK
  <2>2. CASE ReleaseStock(p)
    <3>1. order' = [order EXCEPT ![o] = [order[o] EXCEPT !.stock = "released"]]
      BY <1>1, <2>1, <2>2 DEF ReleaseStock
    <3> QED BY <1>1, <2>1, <3>1, DocsTyped, DocSet
  <2>3. CASE ReverseFinance(p)
    <3> DEFINE s == IF order[o].captured THEN "REFUNDED" ELSE order[o].paymentStatus
    <3>1. s \in {"CREATED", "PAID", "FAILED", "REFUNDED"}
      BY <2>1 DEF OrderDocs
    <3>2. \/ UNCHANGED order
          \/ order' = [order EXCEPT ![o] = [order[o] EXCEPT !.reversed = TRUE,
                                                           !.paymentStatus = s]]
      BY <1>1, <2>1, <2>3 DEF ReverseFinance
    <3> QED BY <1>1, <2>1, <3>1, <3>2, DocsTyped, DocSet
  <2> QED BY <2>2, <2>3
<1>3. ledger' \in [Orders -> Ledgers]
  <2>1. \A n \in Nat : n + 1 \in Nat
    OBVIOUS
  <2>2. CASE ReleaseStock(p)
    BY <1>1, <2>1, <2>2 DEF ReleaseStock, Typing, TypeOK, Ledgers
  <2>3. CASE ReverseFinance(p)
    BY <1>1, <2>1, <2>3 DEF ReverseFinance, Typing, TypeOK, Ledgers
  <2> QED BY <2>2, <2>3
<1>4. task' \in [Handlers -> Tasks] /\ TasksTargeted'
  <2> DEFINE t == [task[p] EXCEPT !.kind = "reverse"]
  <2>1. t \in Tasks /\ Targeted(t)
    BY <1>1 DEF Tasks, TaskKinds, Targeted
  <2>2. CASE ReleaseStock(p)
    <3>1. task' = [task EXCEPT ![p] = t]
      BY <2>2 DEF ReleaseStock, Continue, Typing, TypeOK
    <3> QED BY <2>1, <3>1, TaskSet
  <2>3. CASE ReverseFinance(p)
    BY <2>3, FinishTyped DEF ReverseFinance
  <2> QED BY <2>2, <2>3
<1> QED BY <1>2, <1>3, <1>4 DEF ReleaseStock, ReverseFinance, Typing, TypeOK, ChargesNamed

(* Every step keeps the records well formed.                               *)
LEMMA NextTypes == ASSUME Typing, [Next]_vars PROVE Typing'
<1>1. CASE UNCHANGED vars
  BY <1>1 DEF vars, Typing, TypeOK, ChargesNamed, TasksTargeted, Targeted
<1>2. ASSUME NEW o \in Orders, AlertStore(o) \/ ReassignStore(o) \/ StoreAccepts(o)
      PROVE  Typing'
  <2>1. order' \in [Orders -> OrderDocs]
    BY <1>2 DEF AlertStore, GivenToStore, ReassignStore, StoreAccepts, Typing, TypeOK,
                OrderDocs
  <2> QED BY <1>2, <2>1
          DEF AlertStore, ReassignStore, StoreAccepts, Typing, TypeOK, ChargesNamed, TasksTargeted, Targeted
<1>3. ASSUME NEW p \in Handlers, Crash(p) PROVE Typing'
  BY <1>3, FinishTyped DEF Crash, Typing, TypeOK, ChargesNamed
<1> QED BY <1>1, <1>2, <1>3, GatewayTypes, CreateTypes, ReportTypes, SaveTypes,
           CaptureTypes, MirrorTypes, CancelTypes, CompensateTypes
        DEF Next, Gateway, Begin, Proceed

-----------------------------------------------------------------------------
Books == LedgerMatches /\ OrdersSound /\ CompensatesCancelled

(* No step takes an order back from CANCELLED, so a handler that gives     *)
(* back may be kept waiting.                                               *)
CancelledStays ==
  \A o \in Orders : order[o].status = "CANCELLED" => order'[o].status = "CANCELLED"
NoNewCompensation ==
  \A q \in Handlers :
    Compensating(task'[q]) => Compensating(task[q]) /\ task'[q].order = task[q].order

(* Steps that start no compensation leave those under way with cancelled   *)
(* orders.                                                                 *)
LEMMA CompensationsKept ==
  ASSUME Typing, CompensatesCancelled, CancelledStays, NoNewCompensation
  PROVE  CompensatesCancelled'
<1> SUFFICES ASSUME NEW q \in Handlers, Compensating(task'[q])
             PROVE  order'[task'[q].order].status = "CANCELLED"
  BY DEF CompensatesCancelled, Compensating
<1>1. Compensating(task[q]) /\ task'[q].order = task[q].order
  BY DEF NoNewCompensation
<1>2. task[q].order \in Orders /\ order[task[q].order].status = "CANCELLED"
  BY <1>1 DEF Typing, TasksTargeted, Targeted, CompensatesCancelled, Compensating
<1> QED BY <1>1, <1>2 DEF CancelledStays

(* Starting anything but a compensation, or ending, starts none.           *)
LEMMA OtherTask ==
  ASSUME Typing, NEW p \in Handlers, NEW t, ~Compensating(t), task' = [task EXCEPT ![p] = t]
  PROVE  NoNewCompensation
  BY DEF Typing, TypeOK, NoNewCompensation

(* Steps that leave orders and ledger alone and start no compensation.     *)
LEMMA BooksFramed ==
  ASSUME Typing, Books, UNCHANGED <<order, ledger>>, NoNewCompensation
  PROVE  Books'
<1>1. CancelledStays
  BY DEF CancelledStays
<1>2. LedgerMatches'
  BY DEF Books, LedgerMatches, Matches
<1>3. OrdersSound'
  BY DEF Books, OrdersSound, Sound
<1> QED BY <1>1, <1>2, <1>3, CompensationsKept DEF Books

(* Steps that write one order, and move what its flags then say.           *)
LEMMA BooksOneOrder ==
  ASSUME Typing, Books, NEW o \in Orders, NEW doc, NEW l,
         order' = [order EXCEPT ![o] = doc], ledger' = [ledger EXCEPT ![o] = l],
         Matches(l, doc), Sound(doc), order[o].status = "CANCELLED" => doc.status = "CANCELLED"
  PROVE  LedgerMatches' /\ OrdersSound' /\ CancelledStays
<1>1. /\ order'[o] = doc /\ ledger'[o] = l
      /\ \A a \in Orders \ {o} : order'[a] = order[a] /\ ledger'[a] = ledger[a]
  BY DEF Typing, TypeOK
<1>2. \A a \in Orders : Matches(ledger'[a], order'[a]) /\ Sound(order'[a])
  BY <1>1 DEF Books, LedgerMatches, OrdersSound
<1>3. LedgerMatches' /\ OrdersSound'
  BY <1>2 DEF LedgerMatches, Matches, OrdersSound, Sound
<1>4. CancelledStays
  BY <1>1 DEF CancelledStays
<1> QED BY <1>3, <1>4

(* Beginnings, and saving the attempt, move nothing.                       *)
LEMMA BeginBooks ==
  ASSUME Typing, Books, NEW p \in Handlers,
         \/ CreatePaymentRead(p) \/ CreatePayment(p) \/ SavePayment(p) \/ Crash(p)
         \/ \E c \in Charges : \/ \E event \in AllEvents : ReceiveWebhook(p, c, event)
                               \/ \E valid \in BOOLEAN : VerifyPayment(p, c, valid)
  PROVE  Books'
<1>1. UNCHANGED <<order, ledger>>
  BY DEF CreatePaymentRead, CreatePayment, SavePayment, Crash, ReceiveWebhook, VerifyPayment
<1>2. ASSUME NEW t, ~Compensating(t), Start(p, t) PROVE NoNewCompensation
  BY <1>2, OtherTask DEF Start
<1>3. CASE Finish(p)
  <2>1. NoNewCompensation
    BY <1>3, IdleTyped, OtherTask DEF Finish
  <2> QED BY <1>1, <2>1, BooksFramed
<1>4. CASE CreatePaymentRead(p)
  <2>1. PICK g : Start(p, [Idle EXCEPT !.kind = "create", !.caller = "checkout",
                                       !.payment = g])
    BY <1>4 DEF CreatePaymentRead
  <2>2. NoNewCompensation
    BY <1>2, <2>1 DEF Idle, Compensating
  <2> QED BY <1>1, <2>2, BooksFramed
<1>5. CASE \E c \in Charges : \/ \E event \in AllEvents : ReceiveWebhook(p, c, event)
                              \/ \E valid \in BOOLEAN : VerifyPayment(p, c, valid)
  <2>1. PICK caller, g, next : Start(p, Transition(caller, g, next))
    BY <1>5 DEF ReceiveWebhook, VerifyPayment
  <2>2. NoNewCompensation
    BY <1>2, <2>1 DEF Transition, Idle, Compensating
  <2> QED BY <1>1, <2>2, BooksFramed
<1>6. CASE task' = [task EXCEPT ![p].kind = Effects(task[p].next), ![p].orders = Orders]
  <2> DEFINE t == [task[p] EXCEPT !.kind = Effects(task[p].next), !.orders = Orders]
  <2>1. Effects(task[p].next) \notin {"release", "reverse"}
    BY DEF Effects
  <2>2. task[p] \in Tasks /\ task \in [Handlers -> Tasks]
    BY DEF Typing, TypeOK
  <2>3. task' = [task EXCEPT ![p] = t] /\ ~Compensating(t)
    BY <1>6, <2>1, <2>2 DEF Tasks, Compensating
  <2>4. NoNewCompensation
    BY <2>3, OtherTask
  <2> QED BY <1>1, <2>4, BooksFramed
<1> QED BY <1>3, <1>4, <1>5, <1>6 DEF CreatePayment, SavePayment, Crash

(* Booking credits an order once, by its flag (handleOnlineOrderFinance).  *)
LEMMA CaptureBooks ==
  ASSUME Typing, Books, NEW p \in Handlers, CaptureOrder(p)
  PROVE  Books'
<1>1. task[p] \in Tasks /\ task \in [Handlers -> Tasks]
  BY DEF Typing, TypeOK
<1>2. PICK o \in Orders :
        /\ IF order[o].captured THEN UNCHANGED <<order, ledger>>
           ELSE /\ order' = [order EXCEPT ![o].captured = TRUE,
                                          ![o].paymentStatus = "PAID"]
                /\ ledger' = [ledger EXCEPT ![o].captures = @ + 1]
        /\ task' = [task EXCEPT ![p].kind = "move", ![p].order = o]
  BY <1>1 DEF CaptureOrder, Tasks
<1>3. order[o] \in OrderDocs /\ ledger[o] \in Ledgers
  BY DEF Typing, TypeOK
<1>4. NoNewCompensation
  <2> DEFINE t == [task[p] EXCEPT !.kind = "move", !.order = o]
  <2>1. task' = [task EXCEPT ![p] = t] /\ ~Compensating(t)
    BY <1>1, <1>2 DEF Tasks, Compensating
  <2> QED BY <2>1, OtherTask
<1>5. CASE order[o].captured
  BY <1>2, <1>4, <1>5, BooksFramed
<1>6. CASE ~order[o].captured
  <2> DEFINE doc == [order[o] EXCEPT !.captured = TRUE, !.paymentStatus = "PAID"]
             l == [ledger[o] EXCEPT !.captures = @ + 1]
  <2>1. order' = [order EXCEPT ![o] = doc] /\ ledger' = [ledger EXCEPT ![o] = l]
    BY <1>2, <1>3, <1>6 DEF Typing, TypeOK
  <2>2. Matches(ledger[o], order[o]) /\ Sound(order[o])
    BY DEF Books, LedgerMatches, OrdersSound
  <2>3. Matches(l, doc) /\ Sound(doc) /\ doc.status = order[o].status
    BY <1>3, <1>6, <2>2 DEF Matches, Sound, OrderDocs, Ledgers
  <2>4. LedgerMatches' /\ OrdersSound' /\ CancelledStays
    BY <2>1, <2>3, BooksOneOrder
  <2> QED BY <1>4, <2>4, CompensationsKept DEF Books
<1> QED BY <1>5, <1>6

(* An order given to a store moves nothing.                                *)
LEMMA GivenSound ==
  ASSUME NEW doc \in OrderDocs, NEW l, Matches(l, doc), Sound(doc)
  PROVE  /\ GivenToStore(doc) \in OrderDocs
         /\ Matches(l, GivenToStore(doc)) /\ Sound(GivenToStore(doc))
         /\ doc.status = "CANCELLED" => GivenToStore(doc).status = "CANCELLED"
  BY DEF GivenToStore, Matches, Sound, OrderDocs

(* The loop over the orders of a captured payment gives them to the store  *)
(* (moveOrderToSellerPendingAfterPayment).                                 *)
LEMMA MoveBooks ==
  ASSUME Typing, Books, NEW p \in Handlers, MoveOrder(p)
  PROVE  Books'
<1> DEFINE o == task[p].order
<1>1. o \in Orders
  BY DEF Typing, TasksTargeted, Targeted, MoveOrder, Busy
<1>2. /\ order[o] \in OrderDocs /\ Matches(ledger[o], order[o]) /\ Sound(order[o])
      /\ task[p] \in Tasks /\ task \in [Handlers -> Tasks]
  BY <1>1 DEF Typing, TypeOK, Books, LedgerMatches, OrdersSound
<1>3. /\ order' = [order EXCEPT ![o] = GivenToStore(order[o])]
      /\ ledger' = [ledger EXCEPT ![o] = ledger[o]]
  BY <1>1 DEF MoveOrder, Typing, TypeOK
<1>4. LedgerMatches' /\ OrdersSound' /\ CancelledStays
  BY <1>1, <1>2, <1>3, GivenSound, BooksOneOrder
<1>5. NoNewCompensation
  <2>1. CASE Finish(p)
    BY <2>1, IdleTyped, OtherTask DEF Finish
  <2>2. CASE ~Finish(p)
    <3> DEFINE rest == task[p].orders \ {o}
               t == [task[p] EXCEPT !.kind = "capture", !.orders = rest, !.order = None]
    <3>1. task' = [task EXCEPT ![p].kind = "capture", ![p].orders = rest, ![p].order = None]
      BY <2>2 DEF MoveOrder, NextOrder
    <3>2. task' = [task EXCEPT ![p] = t] /\ ~Compensating(t)
      BY <1>2, <3>1 DEF Tasks, Compensating
    <3> QED BY <3>2, OtherTask
  <2> QED BY <2>1, <2>2
<1> QED BY <1>4, <1>5, CompensationsKept DEF Books

(* The other side effects release the stock of the orders they cancel, and *)
(* mark none as paid.                                                      *)
LEMMA MirrorBooks ==
  ASSUME Typing, Books, NEW p \in Handlers, FailOrders(p) \/ MirrorOrders(p)
  PROVE  Books'
<1>1. NoNewCompensation
  BY IdleTyped, OtherTask DEF FailOrders, MirrorOrders, Finish
<1>2. \A o \in Orders : order[o] \in OrderDocs /\ ledger[o] \in Ledgers
  BY DEF Typing, TypeOK
<1>3. ASSUME NEW o \in Orders
      PROVE  /\ Matches(ledger'[o], order'[o]) /\ Sound(order'[o])
             /\ order[o].status = "CANCELLED" => order'[o].status = "CANCELLED"
  <2>1. Matches(ledger[o], order[o]) /\ Sound(order[o])
    BY DEF Books, LedgerMatches, OrdersSound
  <2>2. CASE MirrorOrders(p)
    <3>1. /\ ledger'[o] = ledger[o]
          /\ \E s \in {"REFUNDED", "CREATED"} :
               order'[o] = [order[o] EXCEPT !.paymentStatus = s]
      BY <2>2 DEF MirrorOrders
    <3> QED BY <1>2, <2>1, <3>1 DEF Matches, Sound, OrderDocs
  <2>3. CASE FailOrders(p) /\ order[o].status # "CREATED"
    <3>1. ledger'[o] = ledger[o] /\ order'[o] = order[o]
      BY <2>3 DEF FailOrders
    <3> QED BY <2>1, <3>1
  <2>4. CASE FailOrders(p) /\ order[o].status = "CREATED"
    <3>1. /\ order'[o] = [order[o] EXCEPT !.status = "CANCELLED",
                                          !.paymentStatus = "FAILED", !.stock = "released"]
          /\ ledger'[o] = IF order[o].stock = "reserved"
                          THEN [ledger[o] EXCEPT !.releases = @ + 1] ELSE ledger[o]
      BY <2>4 DEF FailOrders
    <3> QED BY <1>2, <2>1, <3>1 DEF Matches, Sound, OrderDocs, Ledgers
  <2> QED BY <2>2, <2>3, <2>4
<1>4. LedgerMatches' /\ OrdersSound' /\ CancelledStays
  BY <1>3 DEF LedgerMatches, Matches, OrdersSound, Sound, CancelledStays
<1> QED BY <1>1, <1>4, CompensationsKept DEF Books

(* An order is accepted when it is paid, hence booked; giving it to a      *)
(* store, again and again, moves nothing (sellerAcceptAtomic,              *)
(* placePhoneOrderForCustomer, adminReassignOrderToStore).                 *)
LEMMA StoreBooks ==
  ASSUME Typing, Books, NEW o \in Orders, AlertStore(o) \/ ReassignStore(o) \/ StoreAccepts(o)
  PROVE  Books'
<1>1. order[o] \in OrderDocs /\ Matches(ledger[o], order[o]) /\ Sound(order[o])
  BY DEF Typing, TypeOK, Books, LedgerMatches, OrdersSound
<1>2. PICK doc : /\ order' = [order EXCEPT ![o] = doc]
                 /\ Matches(ledger[o], doc) /\ Sound(doc)
                 /\ order[o].status = "CANCELLED" => doc.status = "CANCELLED"
  <2>1. CASE AlertStore(o)
    <3>1. order' = [order EXCEPT ![o] = GivenToStore(order[o])]
      BY <2>1 DEF AlertStore
    <3> QED BY <1>1, <3>1, GivenSound
  <2>2. CASE ReassignStore(o)
    <3> DEFINE doc == [order[o] EXCEPT !.status = "SELLER_PENDING", !.stock = "reserved"]
    <3>1. order' = [order EXCEPT ![o] = doc] /\ order[o].status # "CANCELLED"
      BY <2>2 DEF ReassignStore, Typing, TypeOK
    <3>2. Matches(ledger[o], doc) /\ Sound(doc)
      BY <1>1, <3>1 DEF Matches, Sound, OrderDocs
    <3> QED BY <3>1, <3>2
  <2>3. CASE StoreAccepts(o)
    <3> DEFINE doc == [order[o] EXCEPT !.status = "ACCEPTED"]
    <3>1. /\ order' = [order EXCEPT ![o] = doc]
          /\ order[o].status = "SELLER_PENDING" /\ order[o].paymentStatus = "PAID"
      BY <2>3 DEF StoreAccepts
    <3>2. Matches(ledger[o], doc) /\ Sound(doc)
      BY <1>1, <3>1 DEF Matches, Sound, OrderDocs
    <3> QED BY <3>1, <3>2
  <2> QED BY <2>1, <2>2, <2>3
<1>3. ledger' = [ledger EXCEPT ![o] = ledger[o]] /\ UNCHANGED task
  BY DEF AlertStore, ReassignStore, StoreAccepts, Typing, TypeOK
<1>4. LedgerMatches' /\ OrdersSound' /\ CancelledStays
  BY <1>2, <1>3, BooksOneOrder
<1>5. NoNewCompensation
  BY <1>3 DEF NoNewCompensation
<1> QED BY <1>4, <1>5, CompensationsKept DEF Books

(* A cancellation begins to give back what a cancelled order took.         *)
LEMMA CancelBooks ==
  ASSUME Typing, Books, NEW p \in Handlers, NEW o \in Orders,
         PaymentTimeout(p, o) \/ CancelOrder(p, o)
  PROVE  Books'
<1> DEFINE doc == [order[o] EXCEPT !.status = "CANCELLED"]
           t == [Idle EXCEPT !.kind = "release", !.order = o]
<1>1. order[o] \in OrderDocs /\ Matches(ledger[o], order[o]) /\ Sound(order[o])
  BY DEF Typing, TypeOK, Books, LedgerMatches, OrdersSound
<1>2. /\ order' = [order EXCEPT ![o] = doc] /\ ledger' = [ledger EXCEPT ![o] = ledger[o]]
      /\ task' = [task EXCEPT ![p] = t]
  BY DEF PaymentTimeout, CancelOrder, Compensate, Start, Typing, TypeOK
<1>3. Matches(ledger[o], doc) /\ Sound(doc) /\ doc.status = "CANCELLED"
  BY <1>1 DEF Matches, Sound, OrderDocs
<1>4. LedgerMatches' /\ OrdersSound' /\ CancelledStays
  BY <1>2, <1>3, BooksOneOrder
<1>5. CompensatesCancelled'
  <2> SUFFICES ASSUME NEW q \in Handlers, Compensating(task'[q])
               PROVE  order'[task'[q].order].status = "CANCELLED"
    BY DEF CompensatesCancelled, Compensating
  <2>1. CASE q = p
    <3>1. task'[q].order = o
      BY <1>2, <2>1 DEF Typing, TypeOK, Idle
    <3> QED BY <1>2, <1>3, <3>1 DEF Typing, TypeOK
  <2>2. CASE q # p
    <3>1. task'[q] = task[q]
      BY <1>2, <2>2 DEF Typing, TypeOK
    <3>2. task[q].order \in Orders /\ order[task[q].order].status = "CANCELLED"
      BY <3>1 DEF Typing, TasksTargeted, Targeted, Books, CompensatesCancelled, Compensating
    <3> QED BY <1>4, <3>1, <3>2 DEF CancelledStays
  <2> QED BY <2>1, <2>2
<1> QED BY <1>4, <1>5 DEF Books

(* Stock and money of a cancelled order are given back once, by their      *)
(* flags (releaseReservedStockForOrder, reverseOrderFinanceOnCancellation).*)
LEMMA CompensateBooks ==
  ASSUME Typing, Books, NEW p \in Handlers, ReleaseStock(p) \/ ReverseFinance(p)
  PROVE  Books'
<1> DEFINE o == task[p].order
<1>1. o \in Orders
  BY DEF Typing, TasksTargeted, Targeted, ReleaseStock, ReverseFinance, Busy
<1>2. /\ order[o] \in OrderDocs /\ ledger[o] \in Ledgers
      /\ task[p] \in Tasks /\ task \in [Handlers -> Tasks]
  BY <1>1 DEF Typing, TypeOK
<1>3. Matches(ledger[o], order[o]) /\ Sound(order[o]) /\ order[o].status = "CANCELLED"
  BY <1>1 DEF Books, LedgerMatches, OrdersSound, CompensatesCancelled, Compensating,
              ReleaseStock, ReverseFinance, Busy
<1>4. CASE ReleaseStock(p)
  <2> DEFINE doc == [order[o] EXCEPT !.stock = "released"]
             l == [ledger[o] EXCEPT !.releases =
                     IF order[o].stock = "reserved" THEN @ + 1 ELSE @]
  <2>1. order' = [order EXCEPT ![o] = doc] /\ ledger' = [ledger EXCEPT ![o] = l]
    BY <1>1, <1>2, <1>4 DEF ReleaseStock, Typing, TypeOK
  <2>2. Matches(l, doc) /\ Sound(doc) /\ doc.status = "CANCELLED"
    BY <1>2, <1>3 DEF Matches, Sound, OrderDocs, Ledgers
  <2>3. LedgerMatches' /\ OrdersSound' /\ CancelledStays
    BY <1>1, <2>1, <2>2, BooksOneOrder
  <2>4. NoNewCompensation
    <3>1. task' = [task EXCEPT ![p] = [task[p] EXCEPT !.kind = "reverse"]]
      BY <1>2, <1>4 DEF ReleaseStock, Continue
    <3>2. Compensating(task[p]) /\ task'[p].order = task[p].order
      BY <1>2, <1>4, <3>1 DEF ReleaseStock, Busy, Compensating, Tasks
    <3> QED BY <1>2, <3>1, <3>2 DEF NoNewCompensation
  <2> QED BY <2>3, <2>4, CompensationsKept DEF Books
<1>5. CASE ReverseFinance(p)
  <2>1. NoNewCompensation
    BY <1>5, IdleTyped, OtherTask DEF ReverseFinance, Finish
  <2>2. CASE order[o].reversed
    BY <1>5, <2>1, <2>2, BooksFramed DEF ReverseFinance
  <2>3. CASE ~order[o].reversed
    <3> DEFINE s == IF order[o].captured THEN "REFUNDED" ELSE order[o].paymentStatus
               doc == [order[o] EXCEPT !.reversed = TRUE, !.paymentStatus = s]
               l == [ledger[o] EXCEPT !.refunds = IF order[o].captured THEN @ + 1 ELSE @,
                                      !.walletReturns = @ + 1]
    <3>1. order' = [order EXCEPT ![o] = doc]
      BY <1>1, <1>2, <1>5, <2>3 DEF ReverseFinance, Typing, TypeOK
    <3>2. ledger' = [ledger EXCEPT ![o] = l]
      BY <1>1, <1>2, <1>5, <2>3 DEF ReverseFinance, Typing, TypeOK
    <3>3. Matches(l, doc)
      BY <1>2, <1>3, <2>3 DEF Matches, OrderDocs, Ledgers
    <3>4. Sound(doc) /\ doc.status = "CANCELLED"
      BY <1>2, <1>3 DEF Sound, OrderDocs
    <3>5. LedgerMatches' /\ OrdersSound' /\ CancelledStays
      BY <1>1, <3>1, <3>2, <3>3, <3>4, BooksOneOrder
    <3> QED BY <2>1, <3>5, CompensationsKept DEF Books
  <2> QED BY <2>2, <2>3
<1> QED BY <1>4, <1>5

(* Every step keeps the books.                                             *)
LEMMA NextBooks == ASSUME Typing, Books, [Next]_vars PROVE Books'
<1>1. CASE UNCHANGED vars
  BY <1>1, BooksFramed DEF vars, NoNewCompensation
<1>2. CASE Gateway
  <2>1. UNCHANGED <<order, ledger, task>>
    BY <1>2 DEF Gateway, RefundCharge, Pay
  <2> QED BY <2>1, BooksFramed DEF NoNewCompensation
<1> QED BY <1>1, <1>2, BeginBooks, CaptureBooks, MoveBooks, MirrorBooks, StoreBooks,
           CancelBooks, CompensateBooks
        DEF Next, Begin, Proceed

(* The inductive invariant holds in every reachable state.                 *)
LEMMA MoneyInvariant == Spec => []MoneyInv
<1>1. MoneyInv /\ [Next]_vars => MoneyInv'
  BY NextTypes, NextBooks DEF MoneyInv, Books
<1> QED BY InitMoney, <1>1, PTL DEF Spec

(* Orders, attempts, charges and handlers are well formed in every         *)
(* reachable state.                                                        *)
THEOREM PaymentTyped == Spec => []TypeOK
<1>1. MoneyInv => TypeOK
  BY DEF MoneyInv, Typing
<1> QED BY MoneyInvariant, <1>1, PTL

(* Verify calls, webhooks, timeouts and cancellations, interleaved in any  *)
(* way and dying anywhere, credit an order once, return its money at most  *)
(* once and never without having taken it, and release its stock once.     *)
THEOREM MoneyMovesOnce == Spec => []MovedOnce
<1>1. ASSUME MoneyInv PROVE MovedOnce
  <2> SUFFICES ASSUME NEW o \in Orders
               PROVE  /\ ledger[o].captures <= 1 /\ ledger[o].releases <= 1
                      /\ ledger[o].walletReturns <= 1
                      /\ ledger[o].refunds <= ledger[o].captures
    BY DEF MovedOnce
  <2>1. Matches(ledger[o], order[o])
    BY <1>1 DEF MoneyInv, LedgerMatches
  <2> QED BY <2>1 DEF Matches
<1> QED BY MoneyInvariant, <1>1, PTL

(* An order that a store has accepted is booked and nothing of it has been *)
(* given back, though it may have come to the store before it was paid     *)
(* (placePhoneOrderForCustomer, adminReassignOrderToStore) and a handler   *)
(* may die between any two writes.                                         *)
THEOREM AcceptedOrdersAreFunded == Spec => []AcceptedIsFunded
<1>1. ASSUME MoneyInv PROVE AcceptedIsFunded
  <2> SUFFICES ASSUME NEW o \in Orders, order[o].status = "ACCEPTED"
               PROVE  /\ ledger[o] = [ captures |-> 1, refunds |-> 0, walletReturns |-> 0,
                                       releases |-> 0 ]
                      /\ order[o].captured /\ order[o].stock = "reserved"
    BY DEF AcceptedIsFunded
  <2>1. Matches(ledger[o], order[o]) /\ Sound(order[o]) /\ ledger[o] \in Ledgers
    BY <1>1 DEF MoneyInv, LedgerMatches, OrdersSound, Typing, TypeOK
  <2> QED BY <2>1 DEF Matches, Sound, Ledgers
<1> QED BY MoneyInvariant, <1>1, PTL

-----------------------------------------------------------------------------
(* What a step may not do to an order: the body of ReportsSpareOrders.     *)
Spares ==
  \A o \in Orders :
    /\ order[o].status = "CANCELLED" => order'[o].status = "CANCELLED"
    /\ (\E p \in Handlers : Busy(p, "fail") /\ task'[p] # task[p])
         => (order[o].status # "CREATED" => order'[o] = order[o])

(* A step of a handler that does not work on a failed payment leaves those *)
(* that do alone.                                                          *)
LEMMA OnlyOwnTask ==
  ASSUME Typing, NEW p \in Handlers, ~Busy(p, "fail"), NEW t, task' = [task EXCEPT ![p] = t]
  PROVE  ~ \E q \in Handlers : Busy(q, "fail") /\ task'[q] # task[q]
  BY DEF Typing, TypeOK

(* Every step spares the orders that are cancelled or with the store.      *)
LEMMA NextSpares == ASSUME Typing, [Next]_vars PROVE Spares
<1>1. ASSUME UNCHANGED order PROVE Spares
  BY <1>1 DEF Spares
<1>2. ASSUME NEW p \in Handlers, FailOrders(p) PROVE Spares
  <2>1. ASSUME NEW o \in Orders, order[o].status # "CREATED" PROVE order'[o] = order[o]
    BY <1>2, <2>1 DEF FailOrders
  <2> QED BY <2>1 DEF Spares
<1>3. ASSUME NEW p \in Handlers, ~Busy(p, "fail"), NEW t,
             task' = [task EXCEPT ![p] = t],
             \A o \in Orders : order[o].status = "CANCELLED" => order'[o].status = "CANCELLED"
      PROVE  Spares
  BY <1>3, OnlyOwnTask DEF Spares
<1>4. \A o \in Orders : order[o] \in OrderDocs
  BY DEF Typing, TypeOK
<1>5. ASSUME NEW p \in Handlers, CaptureOrder(p) PROVE Spares
  <2>1. \A o \in Orders : order'[o].status = order[o].status
    BY <1>4, <1>5 DEF CaptureOrder, Typing, TypeOK, OrderDocs
  <2>2. \E t : task' = [task EXCEPT ![p] = t]
    BY <1>5 DEF CaptureOrder
  <2> QED BY <1>3, <1>5, <2>1, <2>2 DEF CaptureOrder, Busy
<1>6. ASSUME NEW p \in Handlers, MoveOrder(p) PROVE Spares
  <2>1. \A o \in Orders : order[o].status = "CANCELLED" => order'[o].status = "CANCELLED"
    BY <1>4, <1>6 DEF MoveOrder, GivenToStore, Typing, TypeOK, OrderDocs
  <2>2. \E t : task' = [task EXCEPT ![p] = t]
    BY <1>6 DEF MoveOrder, NextOrder, Finish
  <2> QED BY <1>3, <1>6, <2>1, <2>2 DEF MoveOrder, Busy
<1>7. ASSUME NEW p \in Handlers, MirrorOrders(p) PROVE Spares
  <2>1. \A o \in Orders : order'[o].status = order[o].status
    BY <1>4, <1>7 DEF MirrorOrders, OrderDocs
  <2> QED BY <1>3, <1>7, <2>1 DEF MirrorOrders, Busy, Finish
<1>8. ASSUME NEW p \in Handlers, ReleaseStock(p) \/ ReverseFinance(p) PROVE Spares
  <2>1. \A o \in Orders : order'[o].status = order[o].status
    BY <1>4, <1>8 DEF ReleaseStock, ReverseFinance, Typing, TypeOK, OrderDocs
  <2>2. \E t : task' = [task EXCEPT ![p] = t]
    BY <1>8 DEF ReleaseStock, Continue, ReverseFinance, Finish
  <2> QED BY <1>3, <1>8, <2>1, <2>2 DEF ReleaseStock, ReverseFinance, Busy
<1>9. ASSUME NEW o \in Orders, AlertStore(o) \/ ReassignStore(o) \/ StoreAccepts(o)
      PROVE  Spares
  BY <1>4, <1>9 DEF AlertStore, GivenToStore, ReassignStore, StoreAccepts, Spares, Typing,
                    TypeOK, OrderDocs
<1>10. ASSUME NEW p \in Handlers, NEW o \in Orders, PaymentTimeout(p, o) \/ CancelOrder(p, o)
       PROVE  Spares
  <2>1. \A a \in Orders : order[a].status = "CANCELLED" => order'[a].status = "CANCELLED"
    BY <1>4, <1>10 DEF PaymentTimeout, CancelOrder, Typing, TypeOK, OrderDocs
  <2>2. ~Busy(p, "fail") /\ \E t : task' = [task EXCEPT ![p] = t]
    BY <1>10 DEF PaymentTimeout, CancelOrder, Compensate, Start, Idle, Busy
  <2> QED BY <1>3, <2>1, <2>2
<1>11. ASSUME NEW p \in Handlers,
              \/ CreatePaymentRead(p) \/ CreatePayment(p) \/ SavePayment(p) \/ Crash(p)
              \/ \E c \in Charges : \/ \E event \in AllEvents : ReceiveWebhook(p, c, event)
                                    \/ \E valid \in BOOLEAN : VerifyPayment(p, c, valid)
       PROVE  Spares
  BY <1>1, <1>11 DEF CreatePaymentRead, CreatePayment, SavePayment, Crash, ReceiveWebhook,
                     VerifyPayment
<1>12. CASE UNCHANGED vars \/ Gateway
  BY <1>1, <1>12 DEF vars, Gateway, RefundCharge, Pay
<1> QED BY <1>2, <1>5, <1>6, <1>7, <1>8, <1>9, <1>10, <1>11, <1>12
        DEF Next, Begin, Proceed

(* A report of a payment, however late and whatever it says, never brings  *)
(* a cancelled order back, and one of a failure never takes an order away  *)
(* from the store (handleOrderSideEffectsFromPaymentStatus).               *)
THEOREM LateReportsSpareOrders == Spec => ReportsSpareOrders
<1>1. MoneyInv => Typing
  BY DEF MoneyInv
<1>2. Typing /\ [Next]_vars => [Spares]_vars
  BY NextSpares
<1> QED BY MoneyInvariant, <1>1, <1>2, PTL DEF Spec, ReportsSpareOrders, Spares
=============================================================================
