--------------------------- MODULE PaymentCapture ---------------------------
(***************************************************************************)
(* How the money of one checkout becomes known: the customer pays at the   *)
(* gateway, and the browser's verify call, the gateway's webhooks, the     *)
(* payment timeout and cancellations write the payment attempts and the    *)
(* orders of the checkout at the same time.                                *)
(*   services/paymentService.js, phoneOrderService.js,                     *)
(*   adminReassignOrderToStore of orderReassignService.js,                 *)
(*   handleOnlineOrderFinance and                                          *)
(*   reverseOrderFinanceOnCancellation of finance/orderFinanceService.js   *)
(*                                                                         *)
(* A handler that awaits between two writes sits in task[p] meanwhile; a   *)
(* transaction is one action.  Webhooks are delivered in any order and any *)
(* number of times; redelivering a recorded one changes nothing.           *)
(***************************************************************************)
EXTENDS Naturals

CONSTANTS
  Orders,      \* the orders of the checkout
  Payments,    \* bound: payment attempts (one gateway order each)
  Charges,     \* bound: charges the customer tries at the gateway
  Handlers,    \* processes that serve requests and jobs
  Events,      \* webhook events the gateway is subscribed to send
  Signatures,  \* set of BOOLEAN: may the signature of a verify call check out
  Mortal,      \* kinds of caller whose handler may die halfway
  None         \* no order, no payment attempt

AllEvents == {"authorized", "captured", "paid", "failed", "refunded"}
Callers == {"verify", "webhook", "checkout", "job"}

ASSUME PaymentAssumption ==
  /\ None \notin Orders \cup Payments
  /\ Events \subseteq AllEvents
  /\ Signatures \subseteq BOOLEAN
  /\ Mortal \subseteq Callers

VARIABLES
  order,     \* the order documents
  payment,   \* the status of each payment attempt
  charge,    \* at the gateway: what became of each charge
  markers,   \* charges some webhook of which has been recorded
  ledger,    \* what was moved for each order: money and stock
  task       \* what each handler is in the middle of

vars == <<order, payment, charge, markers, ledger, task>>

-----------------------------------------------------------------------------
PaymentStatuses ==
  {"CREATED", "PENDING", "AUTHORIZED", "CAPTURED", "FAILED", "REFUNDED", "CANCELLED"}

PAYMENT_TRANSITIONS ==
  [ CREATED    |-> {"PENDING", "AUTHORIZED", "CAPTURED", "FAILED", "CANCELLED"},
    PENDING    |-> {"AUTHORIZED", "CAPTURED", "FAILED", "CANCELLED"},
    AUTHORIZED |-> {"CAPTURED", "FAILED", "REFUNDED"},
    CAPTURED   |-> {"REFUNDED"},
    FAILED     |-> {},
    CANCELLED  |-> {},
    REFUNDED   |-> {} ]

CanTransitionPayment(from, to) == from = to \/ to \in PAYMENT_TRANSITIONS[from]

OrderDocs ==
  [ status : {"CREATED", "SELLER_PENDING", "ACCEPTED", "CANCELLED"},
    paymentStatus : {"CREATED", "PAID", "FAILED", "REFUNDED"},
    captured : BOOLEAN,                 \* financeFlags.onlinePaymentCaptured
    reversed : BOOLEAN,                 \* financeFlags.cancellationReversed
    stock : {"reserved", "released"} ]

Ledgers ==
  [ captures : Nat,                     \* credits of the platform's wallet
    refunds : Nat,                      \* debits of it
    walletReturns : Nat,                \* wallet money given back to the customer
    releases : Nat ]                    \* releases of the reserved stock

TaskKinds ==
  { "idle", "create", "save", "capture", "move", "fail", "refund", "reset",
    "release", "reverse" }

(* What a handler remembers: who called it, the attempt it works on, the   *)
(* status it read and the one it will write, the orders still to do.       *)
Tasks == [ kind : TaskKinds, caller : Callers, payment : Payments \cup {None},
           seen : PaymentStatuses, next : PaymentStatuses,
           orders : SUBSET Orders, order : Orders \cup {None} ]

Idle == [ kind |-> "idle", caller |-> "job", payment |-> None, seen |-> "CREATED",
          next |-> "CREATED", orders |-> {}, order |-> None ]

Start(p, t) == task[p] = Idle /\ task' = [task EXCEPT ![p] = t]
Busy(p, kind) == task[p].kind = kind
Finish(p) == task' = [task EXCEPT ![p] = Idle]
Continue(p, kind) == task' = [task EXCEPT ![p].kind = kind]

NewLedger == [captures |-> 0, refunds |-> 0, walletReturns |-> 0, releases |-> 0]

Init ==
  /\ order = [o \in Orders |->
                [ status |-> "CREATED", paymentStatus |-> "CREATED",
                  captured |-> FALSE, reversed |-> FALSE, stock |-> "reserved" ]]
  /\ payment = [g \in Payments |-> None]
  /\ charge = [c \in Charges |-> [state |-> "none", payment |-> None]]
  /\ markers = {}
  /\ ledger = [o \in Orders |-> NewLedger]
  /\ task = [p \in Handlers |-> Idle]

-----------------------------------------------------------------------------
(* The gateway (external).                                                 *)

(* A gateway order takes attempts until one is captured.                   *)
Chargeable(g) ==
  /\ payment[g] # None
  /\ \A c \in Charges : charge[c].payment = g => charge[c].state = "failed"

Pay(c, g) ==
  /\ charge[c].state = "none" /\ Chargeable(g)
  /\ \E state \in {"captured", "failed"} :
       charge' = [charge EXCEPT ![c] = [state |-> state, payment |-> g]]
  /\ UNCHANGED <<order, payment, markers, ledger, task>>

RefundCharge(c) ==
  /\ charge[c].state = "captured"
  /\ charge' = [charge EXCEPT ![c].state = "refunded"]
  /\ UNCHANGED <<order, payment, markers, ledger, task>>

(* The events the gateway has to report of a charge.                       *)
EventsOf(c) ==
  Events \cap CASE charge[c].state = "none" -> {}
                [] charge[c].state = "failed" -> {"failed"}
                [] charge[c].state = "captured" -> {"authorized", "captured", "paid"}
                [] OTHER -> {"authorized", "captured", "paid", "refunded"}

-----------------------------------------------------------------------------
(* A payment attempt is created unless one is open.                        *)

CreatePaymentRead(p) ==
  /\ \A o \in Orders : /\ order[o].status # "CANCELLED"
                       /\ order[o].paymentStatus \notin {"PAID", "REFUNDED"}
  /\ \A g \in Payments : payment[g] \notin {"CREATED", "PENDING"}
  /\ \E g \in Payments :
       /\ payment[g] = None
       /\ \A q \in Handlers : task[q].payment # g
       /\ Start(p, [Idle EXCEPT !.kind = "create", !.caller = "checkout", !.payment = g])
  /\ UNCHANGED <<order, payment, charge, markers, ledger>>

CreatePayment(p) ==
  /\ Busy(p, "create")
  /\ payment' = [payment EXCEPT ![task[p].payment] = "PENDING"]
  /\ Finish(p)
  /\ UNCHANGED <<order, charge, markers, ledger>>

-----------------------------------------------------------------------------
(* The payment attempt is read, checked against the table, and saved as    *)
(* decided on the read.                                                    *)

mapRazorpayStatus(event) ==
  CASE event = "captured" -> "CAPTURED"
    [] event = "failed" -> "FAILED"
    [] event = "refunded" -> "REFUNDED"
    [] event = "authorized" -> "AUTHORIZED"
    [] OTHER -> "PENDING"

Transition(caller, g, next) ==
  [Idle EXCEPT !.kind = "save", !.caller = caller, !.payment = g,
               !.seen = payment[g], !.next = next]

(* The marker of a webhook is the id of the charge it reports.             *)
ReceiveWebhook(p, c, event) ==
  /\ event \in EventsOf(c)
  /\ c \notin markers
  /\ markers' = markers \cup {c}
  /\ Start(p, Transition("webhook", charge[c].payment, mapRazorpayStatus(event)))
  /\ UNCHANGED <<order, payment, charge, ledger>>

(* The browser calls back once the gateway has taken the money.            *)
VerifyPayment(p, c, valid) ==
  /\ charge[c].state \in {"captured", "refunded"}
  /\ valid \in Signatures
  /\ Start(p, Transition("verify", charge[c].payment,
                         IF valid THEN "CAPTURED" ELSE "FAILED"))
  /\ UNCHANGED <<order, payment, charge, markers, ledger>>

Effects(next) ==
  CASE next = "CAPTURED" -> "capture"
    [] next \in {"FAILED", "CANCELLED"} -> "fail"
    [] next = "REFUNDED" -> "refund"
    [] OTHER -> "reset"

SavePaymentOnce(p) ==
  /\ Busy(p, "save")
  /\ IF task[p].seen # task[p].next /\ CanTransitionPayment(task[p].seen, task[p].next)
     THEN /\ payment' = [payment EXCEPT ![task[p].payment] = task[p].next]
          /\ task' = [task EXCEPT ![p].kind = Effects(task[p].next), ![p].orders = Orders]
     ELSE Finish(p) /\ UNCHANGED payment
  /\ UNCHANGED <<order, charge, markers, ledger>>

(* A status re-asserted is not saved, but its side effects run again.      *)
SavePayment(p) ==
  /\ Busy(p, "save")
  /\ \/ /\ CanTransitionPayment(task[p].seen, task[p].next)
        /\ payment' = IF task[p].seen = task[p].next THEN payment
                      ELSE [payment EXCEPT ![task[p].payment] = task[p].next]
        /\ task' = [task EXCEPT ![p].kind = Effects(task[p].next), ![p].orders = Orders]
     \/ /\ ~CanTransitionPayment(task[p].seen, task[p].next)
        /\ Finish(p) /\ UNCHANGED payment
  /\ UNCHANGED <<order, charge, markers, ledger>>

-----------------------------------------------------------------------------
(* The side effects on the orders of the checkout.                         *)

CaptureUnflagged(p) ==
  /\ Busy(p, "capture")
  /\ \E o \in task[p].orders :
       /\ order' = [order EXCEPT ![o].captured = TRUE, ![o].paymentStatus = "PAID"]
       /\ ledger' = [ledger EXCEPT ![o].captures = @ + 1]
       /\ task' = [task EXCEPT ![p].kind = "move", ![p].order = o]
  /\ UNCHANGED <<payment, charge, markers>>

(* handleOnlineOrderFinance: credited once, by the flag on the order.      *)
CaptureOrder(p) ==
  /\ Busy(p, "capture")
  /\ \E o \in task[p].orders :
       /\ IF order[o].captured
          THEN UNCHANGED <<order, ledger>>
          ELSE /\ order' = [order EXCEPT ![o].captured = TRUE,
                                         ![o].paymentStatus = "PAID"]
               /\ ledger' = [ledger EXCEPT ![o].captures = @ + 1]
       /\ task' = [task EXCEPT ![p].kind = "move", ![p].order = o]
  /\ UNCHANGED <<payment, charge, markers>>

(* The loop goes on to the next order of the checkout.                     *)
NextOrder(p) ==
  LET rest == task[p].orders \ {task[p].order} IN
  IF rest = {} THEN Finish(p)
  ELSE task' = [task EXCEPT ![p].kind = "capture", ![p].orders = rest, ![p].order = None]

MoveOrderUnfiltered(p) ==
  /\ Busy(p, "move")
  /\ order' = [order EXCEPT ![task[p].order].status = "SELLER_PENDING"]
  /\ NextOrder(p)
  /\ UNCHANGED <<payment, charge, markers, ledger>>

(* moveOrderToSellerPendingAfterPayment: one filtered update.              *)
GivenToStore(doc) ==
  [doc EXCEPT !.status = IF @ = "CREATED" THEN "SELLER_PENDING" ELSE @]

MoveOrder(p) ==
  /\ Busy(p, "move")
  /\ order' = [order EXCEPT ![task[p].order] = GivenToStore(@)]
  /\ NextOrder(p)
  /\ UNCHANGED <<payment, charge, markers, ledger>>

FailAllOrders(p) ==
  /\ Busy(p, "fail")
  /\ order' = [o \in Orders |->
                 [order[o] EXCEPT !.status = "CANCELLED", !.paymentStatus = "FAILED",
                                  !.stock = "released"]]
  /\ ledger' = [o \in Orders |-> [ledger[o] EXCEPT !.releases = @ + 1]]
  /\ Finish(p)
  /\ UNCHANGED <<payment, charge, markers>>

(* A failed payment cancels the orders the store has not been given, and   *)
(* releases their stock (one transaction).                                 *)
FailOrders(p) ==
  /\ Busy(p, "fail")
  /\ order' = [o \in Orders |->
                 IF order[o].status # "CREATED" THEN order[o]
                 ELSE [order[o] EXCEPT !.status = "CANCELLED",
                                       !.paymentStatus = "FAILED",
                                       !.stock = "released"]]
  /\ ledger' = [o \in Orders |->
                 IF order[o].status = "CREATED" /\ order[o].stock = "reserved"
                 THEN [ledger[o] EXCEPT !.releases = @ + 1] ELSE ledger[o]]
  /\ Finish(p)
  /\ UNCHANGED <<payment, charge, markers>>

MirrorPaymentStatus(p) ==
  /\ Busy(p, "refund") \/ Busy(p, "reset")
  /\ order' = [o \in Orders |-> [order[o] EXCEPT !.paymentStatus = task[p].next]]
  /\ Finish(p)
  /\ UNCHANGED <<payment, charge, markers, ledger>>

(* Any other status is only mirrored on the orders.                        *)
MirrorOrders(p) ==
  /\ Busy(p, "refund") \/ Busy(p, "reset")
  /\ order' = [o \in Orders |->
                 [order[o] EXCEPT !.paymentStatus =
                    IF Busy(p, "refund") THEN "REFUNDED" ELSE "CREATED"]]
  /\ Finish(p)
  /\ UNCHANGED <<payment, charge, markers, ledger>>

-----------------------------------------------------------------------------
(* The orders, as far as their money is concerned.                         *)

Compensate(p, o) ==
  Start(p, [Idle EXCEPT !.kind = "release", !.order = o])

(* An order taken over the phone is given to the store as it is placed,    *)
(* and again when its request is repeated, paid or not.                    *)
AlertStore(o) ==
  /\ order' = [order EXCEPT ![o] = GivenToStore(@)]
  /\ UNCHANGED <<payment, charge, markers, ledger, task>>

(* An open order is given to another store, paid or not, which has the     *)
(* stock from then on (one transaction).                                   *)
ReassignStore(o) ==
  /\ order[o].status # "CANCELLED"
  /\ order' = [order EXCEPT ![o].status = "SELLER_PENDING", ![o].stock = "reserved"]
  /\ UNCHANGED <<payment, charge, markers, ledger, task>>

PaymentTimeout(p, o) ==
  /\ order[o].status = "CREATED" /\ order[o].paymentStatus # "PAID"
  /\ order[o].stock = "reserved"
  /\ Compensate(p, o)
  /\ order' = [order EXCEPT ![o].status = "CANCELLED"]
  /\ UNCHANGED <<payment, charge, markers, ledger>>

StoreAccepts(o) ==
  /\ order[o].status = "SELLER_PENDING" /\ order[o].paymentStatus = "PAID"
  /\ order' = [order EXCEPT ![o].status = "ACCEPTED"]
  /\ UNCHANGED <<payment, charge, markers, ledger, task>>

(* The customer, the store, its deadline or an administrator cancels.      *)
CancelOrder(p, o) ==
  /\ order[o].status # "CANCELLED"
  /\ Compensate(p, o)
  /\ order' = [order EXCEPT ![o].status = "CANCELLED"]
  /\ UNCHANGED <<payment, charge, markers, ledger>>

(* compensateOrderCancellation: the stock first, then the money.           *)
ReleaseStock(p) ==
  /\ Busy(p, "release")
  /\ order' = [order EXCEPT ![task[p].order].stock = "released"]
  /\ ledger' = [ledger EXCEPT ![task[p].order].releases =
                  IF order[task[p].order].stock = "reserved" THEN @ + 1 ELSE @]
  /\ Continue(p, "reverse")
  /\ UNCHANGED <<payment, charge, markers>>

(* reverseOrderFinanceOnCancellation: once, by the flag on the order.      *)
ReverseFinance(p) ==
  LET o == task[p].order IN
  /\ Busy(p, "reverse")
  /\ IF order[o].reversed THEN UNCHANGED <<order, ledger>>
     ELSE /\ order' = [order EXCEPT ![o].reversed = TRUE,
                                    ![o].paymentStatus =
                                      IF order[o].captured THEN "REFUNDED" ELSE @]
          /\ ledger' = [ledger EXCEPT ![o].refunds = IF order[o].captured THEN @ + 1 ELSE @,
                                      ![o].walletReturns = @ + 1]
  /\ Finish(p)
  /\ UNCHANGED <<payment, charge, markers>>

Crash(p) ==
  /\ ~Busy(p, "idle") /\ task[p].caller \in Mortal
  /\ Finish(p)
  /\ UNCHANGED <<order, payment, charge, markers, ledger>>

-----------------------------------------------------------------------------
Gateway == \E c \in Charges : RefundCharge(c) \/ \E g \in Payments : Pay(c, g)

Begin(p) ==
  \/ CreatePaymentRead(p)
  \/ \E c \in Charges :
       \/ \E event \in AllEvents : ReceiveWebhook(p, c, event)
       \/ \E valid \in BOOLEAN : VerifyPayment(p, c, valid)
  \/ \E o \in Orders : PaymentTimeout(p, o) \/ CancelOrder(p, o)

Proceed(p) ==
  \/ CreatePayment(p) \/ SavePayment(p) \/ CaptureOrder(p) \/ MoveOrder(p)
  \/ FailOrders(p) \/ MirrorOrders(p) \/ ReleaseStock(p) \/ ReverseFinance(p)

Next ==
  \/ Gateway
  \/ \E o \in Orders : AlertStore(o) \/ ReassignStore(o) \/ StoreAccepts(o)
  \/ \E p \in Handlers : Begin(p) \/ Proceed(p) \/ Crash(p)

Spec == Init /\ [][Next]_vars

(* The gateway redelivers an event until it is answered, so each reported  *)
(* charge has an event received in the end, and handlers run to their end. *)
Delivery(c) == \E p \in Handlers, event \in AllEvents : ReceiveWebhook(p, c, event)

FairSpec ==
  /\ Spec
  /\ \A c \in Charges : SF_vars(Delivery(c))
  /\ \A p \in Handlers : WF_vars(Proceed(p))

-----------------------------------------------------------------------------
(* Properties.                                                             *)

(* The documents, the charges and the handlers in flight are well formed.  *)
TypeOK ==
  /\ order \in [Orders -> OrderDocs]
  /\ payment \in [Payments -> PaymentStatuses \cup {None}]
  /\ charge \in [Charges -> [ state : {"none", "captured", "failed", "refunded"},
                              payment : Payments \cup {None} ]]
  /\ markers \subseteq Charges
  /\ ledger \in [Orders -> Ledgers]
  /\ task \in [Handlers -> Tasks]

(* However often and by however many callers an order's payment is         *)
(* reported, and whoever cancels it, money and stock move at most once in  *)
(* each direction, and no money is returned that was not taken.            *)
MovedOnce ==
  \A o \in Orders :
    /\ ledger[o].captures <= 1 /\ ledger[o].releases <= 1
    /\ ledger[o].walletReturns <= 1
    /\ ledger[o].refunds <= ledger[o].captures

(* An order may be with a store before it is paid (AlertStore,             *)
(* ReassignStore), but once the store has accepted it, whichever way and   *)
(* however often it came there, its money is booked and neither money nor  *)
(* stock has been given back, although a cancellation writes the status    *)
(* first and gives back in later steps.                                    *)
AcceptedIsFunded ==
  \A o \in Orders :
    order[o].status = "ACCEPTED" =>
      /\ ledger[o] = [captures |-> 1, refunds |-> 0, walletReturns |-> 0, releases |-> 0]
      /\ order[o].captured /\ order[o].stock = "reserved"

(* No late report of a payment, captured or failed, brings a cancelled     *)
(* order back or takes an order away from the store: what the report says  *)
(* may be overtaken while its handler works on the payment attempt.        *)
ReportsSpareOrders ==
  [][\A o \in Orders :
       /\ order[o].status = "CANCELLED" => order'[o].status = "CANCELLED"
       /\ (\E p \in Handlers : Busy(p, "fail") /\ task'[p] # task[p])
            => (order[o].status # "CREATED" => order'[o] = order[o])]_vars

(* Every charge the gateway has captured ends with its orders handed to    *)
(* the store or cancelled, even if the handler of the browser's verify     *)
(* call dies halfway: the webhook does again what that handler began.      *)
CapturedIsHandled ==
  \A c \in Charges :
    charge[c].state = "captured" ~> \A o \in Orders : order[o].status # "CREATED"
=============================================================================
