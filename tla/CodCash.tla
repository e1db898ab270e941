------------------------------ MODULE CodCash ------------------------------
(***************************************************************************)
(* Cash collected at the door, until the platform has its share: of orders *)
(* a rider delivered, the cash he hands in or remits through the payment   *)
(* gateway; of orders a store delivered, the commission it owes, set off   *)
(* against its balance, paid through the gateway or handed to the desk.    *)
(*   orderSettlement.js, finance/orderFinanceService.js,                   *)
(*   finance/walletService.js, codRemittanceService.js,                    *)
(*   sellerCodCommissionService.js, admin/cashService.js,                  *)
(*   deliveredSettlementReconciliationJob.js                               *)
(*                                                                         *)
(* One rider and one store.  The rider's side consists of transactions,    *)
(* one action each; the store's wallets are read and saved in two steps.   *)
(* Orders are numbered in the order of their creation.                     *)
(***************************************************************************)
EXTENDS Integers, Sequences, FiniteSets, Functions

CONSTANTS
  RiderOrders,   \* cash orders delivered by the rider
  StoreOrders,   \* cash orders delivered by the store
  Cash,          \* what the rider owes of each: the total less his commission
  Commission,    \* what the store owes of each
  Balance,       \* the store's available balance at the start
  MaxPayments,   \* bound: payments opened at the gateway
  MaxAmount,     \* bound: the largest amount handed in or paid at once
  MaxCrashes,    \* bound: handlers that die or whose transaction aborts
  Handlers,      \* processes that serve requests, webhooks and jobs
  Settings       \* which orders there are, how many payments are opened at
                 \* most, the largest amount, and which surprises happen

Orders == RiderOrders \cup StoreOrders
Payments == 1 .. MaxPayments

(* What may go wrong: handlers overlap; a handler dies between two writes. *)
Surprises == {"together", "crash"}

ASSUME CodAssumption ==
  /\ Orders \subseteq Nat /\ IsFiniteSet(Orders) /\ RiderOrders \cap StoreOrders = {}
  /\ Cash \in [RiderOrders -> Nat]
  /\ Commission \in Nat \ {0} /\ Balance \in Nat
  /\ MaxPayments \in Nat /\ MaxAmount \in Nat /\ MaxCrashes \in Nat
  /\ Settings \subseteq
       [ orders : SUBSET Orders, payments : 0 .. MaxPayments, amount : 0 .. MaxAmount,
         surprises : SUBSET Surprises ]

VARIABLES
  order,     \* delivery, collection and remittance of each order
  wallet,    \* the rider's cash, the store's debt and balance, the platform
  payment,   \* payments at the gateway, opened by the rider or the store
  charged,   \* external: payments of which a charge was captured
  told,      \* captures whose webhook left its marker
  ledger,    \* how much was remitted in the name of each payment
  handed,    \* commission handed to the desk
  task,      \* what each handler is in the middle of
  crashes,   \* number of crashes so far
  setting    \* the setting of this behaviour

vars == <<order, wallet, payment, charged, told, ledger, handed, task, crashes, setting>>

-----------------------------------------------------------------------------
NewOrder ==
  [ delivered |-> FALSE,
    applied |-> FALSE,       \* deliveredSettlementApplied
    counted |-> FALSE,       \* codMarkedCollected
    collected |-> 0,         \* codCollectedAmount, net of the rider's commission
    remitted |-> 0 ]         \* codRemittedAmount

NoPayment == [by |-> "rider", status |-> "none", amount |-> 0, done |-> FALSE]
Statuses == {"none", "PENDING", "CAPTURED", "FAILED"}
Events == {"failed", "captured"}
StatusOf(event) == IF event = "captured" THEN "CAPTURED" ELSE "FAILED"

Kinds == {"idle", "settle", "count", "read", "write", "offset", "mark", "save",
          "gather", "apply"}

(* What a handler remembers: the order or payment (0: none) it works on,   *)
(* the event and the status and outcome it read, what it found to be       *)
(* settled on each order and how much of its amount is left, the changes   *)
(* of wallets it still makes, the balance it read, and what comes then.    *)
Idle ==
  [ kind |-> "idle", order |-> 0, payment |-> 0, event |-> "failed",
    status |-> "none", done |-> FALSE, found |-> [o \in Orders |-> 0], left |-> 0,
    settled |-> FALSE, todo |-> <<>>, seen |-> 0, then |-> "idle" ]

Init ==
  /\ order = [o \in Orders |-> NewOrder]
  /\ wallet = [cash |-> 0, due |-> 0, available |-> Balance, admin |-> 0]
  /\ payment = [p \in Payments |-> NoPayment]
  /\ charged = {}
  /\ told = {}
  /\ ledger = [p \in Payments |-> 0]
  /\ handed = 0
  /\ task = [h \in Handlers |-> Idle]
  /\ crashes = 0
  /\ setting \in Settings

Surprise(s) == s \in setting.surprises
Alone == Surprise("together") \/ \A h \in Handlers : task[h] = Idle
Start(h, t) == task[h] = Idle /\ Alone /\ task' = [task EXCEPT ![h] = t]
Busy(h, kind) == task[h].kind = kind
Continue(h, t) == task' = [task EXCEPT ![h] = t]
Finish(h) == Continue(h, Idle)

AtMost(m, n) == IF m < n THEN m ELSE n
Unclamped(n) == n
Clamp(n) == IF n < 0 THEN 0 ELSE n

-----------------------------------------------------------------------------
(* Delivery and collection.                                                *)

Settled(o) == [order EXCEPT ![o].delivered = TRUE, ![o].applied = TRUE]

Pending(o) == order[o].collected - order[o].remitted
Collected == {o \in RiderOrders : order[o].counted /\ Pending(o) > 0}
PendingCash == SumFunctionOnSet([o \in Orders |-> Pending(o)], Collected)

handleCodOrderFinance(o, net) ==
  IF order[o].counted THEN UNCHANGED <<order, wallet>>
  ELSE /\ order' = [order EXCEPT ![o].counted = TRUE, ![o].collected = net]
       /\ wallet' = [wallet EXCEPT !.cash = @ + net]

Deliver(h, o) ==
  /\ o \in setting.orders /\ ~order[o].delivered
  /\ order' = [order EXCEPT ![o].delivered = TRUE]
  /\ Start(h, [Idle EXCEPT !.kind = "settle", !.order = o])
  /\ UNCHANGED <<wallet, payment, charged, told, ledger, handed, crashes, setting>>

UnsettledOnly(o) == order[o].delivered /\ ~order[o].applied

(* The job looks for orders not settled, and for those of a rider with the *)
(* platform's logistics, as a rider's orders are here, not counted.        *)
Unsettled(o) ==
  order[o].delivered /\ (~order[o].applied \/ (o \in RiderOrders /\ ~order[o].counted))

SettleAgain(h, o) ==
  /\ o \in setting.orders /\ Unsettled(o)
  /\ Start(h, [Idle EXCEPT !.kind = "settle", !.order = o])
  /\ UNCHANGED <<order, wallet, payment, charged, told, ledger, handed, crashes, setting>>

(* The transaction, and the choice made on the document it returns.        *)
settleDeliveredOrder(h) ==
  LET o == task[h].order IN
  /\ Busy(h, "settle")
  /\ order' = Settled(o)
  /\ \/ order[o].counted /\ Finish(h)
     \/ ~order[o].counted /\ o \in RiderOrders
          /\ Continue(h, [task[h] EXCEPT !.kind = "count"])
     \/ ~order[o].counted /\ o \in StoreOrders
          /\ Continue(h, [task[h] EXCEPT !.kind = "read", !.then = "offset",
                          !.todo = <<[of |-> "due", change |-> Commission]>>])
  /\ UNCHANGED <<wallet, payment, charged, told, ledger, handed, crashes, setting>>

CountCash(h) ==
  /\ Busy(h, "count")
  /\ handleCodOrderFinance(task[h].order, Cash[task[h].order])
  /\ Finish(h)
  /\ UNCHANGED <<payment, charged, told, ledger, handed, crashes, setting>>

(* The endpoint settles whatever it is given, and charges no store.        *)
markOrderDeliveredAndSettle(h, o) ==
  /\ o \in setting.orders /\ (~order[o].applied \/ Unsettled(o))
  /\ order' = Settled(o)
  /\ \/ /\ o \in RiderOrders /\ ~order[o].counted
        /\ Start(h, [Idle EXCEPT !.kind = "count", !.order = o])
     \/ (o \in StoreOrders \/ order[o].counted) /\ Alone /\ UNCHANGED task
  /\ UNCHANGED <<wallet, payment, charged, told, ledger, handed, crashes, setting>>

(* The amount is the caller's word.                                        *)
markCodCollectedAfterDelivery(o, net) ==
  /\ Alone /\ o \in setting.orders \cap RiderOrders /\ net <= Cash[o]
  /\ order[o].delivered /\ ~order[o].counted
  /\ handleCodOrderFinance(o, net)
  /\ UNCHANGED <<payment, charged, told, ledger, handed, task, crashes, setting>>

-----------------------------------------------------------------------------
(* Wallets saved as they were read: one change of one balance at a time.   *)

ReadWallet(h) ==
  /\ Busy(h, "read")
  /\ Continue(h, [task[h] EXCEPT !.kind = "write", !.seen = wallet[Head(task[h].todo).of]])
  /\ UNCHANGED <<order, wallet, payment, charged, told, ledger, handed, crashes, setting>>

Overdrawn(h) ==
  LET op == Head(task[h].todo) IN op.of = "available" /\ task[h].seen + op.change < 0

WriteWallet(h) ==
  LET op == Head(task[h].todo)  rest == Tail(task[h].todo) IN
  /\ Busy(h, "write")
  /\ \/ Overdrawn(h) /\ Finish(h) /\ UNCHANGED wallet
     \/ /\ ~Overdrawn(h)
        /\ wallet' = [wallet EXCEPT ![op.of] = Clamp(task[h].seen + op.change)]
        /\ IF rest = <<>> /\ task[h].then = "idle" THEN Finish(h)
           ELSE Continue(h, [task[h] EXCEPT !.todo = rest, !.seen = 0,
                               !.kind = IF rest = <<>> THEN task[h].then ELSE "read"])
  /\ UNCHANGED <<order, payment, charged, told, ledger, handed, crashes, setting>>

(* Set off against the balance the store has from earlier sales.           *)
OffsetCommission(h) ==
  LET offset == AtMost(wallet.available, Commission) IN
  /\ Busy(h, "offset")
  /\ Continue(h, [task[h] EXCEPT
        !.then = "mark",
        !.kind = IF offset = 0 THEN "mark" ELSE "read",
        !.todo = IF offset = 0 THEN <<>>
                 ELSE << [of |-> "available", change |-> -offset],
                         [of |-> "due", change |-> -offset],
                         [of |-> "admin", change |-> offset] >>])
  /\ UNCHANGED <<order, wallet, payment, charged, told, ledger, handed, crashes, setting>>

(* The order's own codCommissionDue is not in the order's schema, and is   *)
(* not kept.                                                               *)
MarkCharged(h) ==
  LET o == task[h].order IN
  /\ Busy(h, "mark")
  /\ order' = [order EXCEPT ![o].counted = TRUE]
  /\ Finish(h)
  /\ UNCHANGED <<wallet, payment, charged, told, ledger, handed, crashes, setting>>

-----------------------------------------------------------------------------
(* Payments at the gateway.                                                *)

Opened == {p \in Payments : payment[p].status # "none"}
Newest(by) == {p \in Opened : /\ payment[p].by = by /\ payment[p].status = "PENDING"
                              /\ \A q \in Opened : payment[q].by = by
                                   /\ payment[q].status = "PENDING" => q <= p}

(* An open payment of the same amount is handed out again.                 *)
OpenPayment(by, amount) ==
  /\ \A p \in Newest(by) : payment[p].amount # amount
  /\ Cardinality(Opened) < setting.payments
  /\ \E p \in Payments \ Opened :
       /\ \A q \in Payments \ Opened : p <= q
       /\ payment' = [payment EXCEPT ![p] = [NoPayment EXCEPT !.by = by, !.status = "PENDING",
                                                              !.amount = amount]]
  /\ UNCHANGED <<order, wallet, charged, told, ledger, handed, task, crashes, setting>>

createCodRemittanceCheckout(amount) ==
  /\ Alone /\ amount <= AtMost(PendingCash, wallet.cash)
  /\ OpenPayment("rider", amount)

createSellerCodCommissionCheckout(amount) ==
  /\ Alone /\ amount <= wallet.due
  /\ OpenPayment("store", amount)

(* External.  Other charges of the payment may fail.                       *)
Capture(p) ==
  /\ p \in Opened \ charged
  /\ charged' = charged \cup {p}
  /\ UNCHANGED <<order, wallet, payment, told, ledger, handed, task, crashes, setting>>

HandlingAnew(p, event) ==
  [Idle EXCEPT !.kind = "save", !.payment = p, !.event = event,
               !.status = payment[p].status]

Handling(p, event) ==
  [Idle EXCEPT !.kind = "save", !.payment = p, !.event = event,
               !.status = payment[p].status, !.done = payment[p].done]

(* Its marker is recorded first, so a capture is reported once; a failed   *)
(* charge may be reported late.  Payments of stores have no handler: the   *)
(* webhook finds no order payment and is ignored.                          *)
Webhook(h, p, event) ==
  /\ p \in Opened
  /\ event = "captured" => p \in charged \ told
  /\ told' = IF event = "captured" THEN told \cup {p} ELSE told
  /\ IF payment[p].by = "rider" THEN Start(h, Handling(p, event)) ELSE UNCHANGED task
  /\ UNCHANGED <<order, wallet, payment, charged, ledger, handed, crashes, setting>>

(* Only a captured charge comes with a valid signature.  A captured        *)
(* payment of a store needs nothing more.                                  *)
Verify(h, p, event) ==
  /\ p \in Opened
  /\ event = "captured" => p \in charged
  /\ IF payment[p].status # "CAPTURED" THEN Start(h, Handling(p, event))
     ELSE /\ payment[p].by = "rider" /\ ~payment[p].done
          /\ Start(h, [Handling(p, "captured") EXCEPT !.kind = "gather"])
  /\ UNCHANGED <<order, wallet, payment, charged, told, ledger, handed, crashes, setting>>

CanFollow(p, from, to) == from \in {"PENDING", to}
CanTransition(p, from, to) ==
  from \in {"PENDING", to} \/ (payment[p].by = "store" /\ to = "CAPTURED")

(* A transition that the read status does not allow is skipped; what       *)
(* follows a capture is done all the same, unless it was done before.  Of  *)
(* a store nothing is recorded as done: no order keeps a commission due,   *)
(* so the loop that would settle orders finds none.                        *)
SavePayment(h) ==
  LET p == task[h].payment  to == StatusOf(task[h].event) IN
  /\ Busy(h, "save")
  /\ payment' = IF CanTransition(p, task[h].status, to)
                THEN [payment EXCEPT ![p].status = to] ELSE payment
  /\ IF to # "CAPTURED" \/ task[h].done THEN Finish(h)
     ELSE IF payment[p].by = "rider"
     THEN Continue(h, [task[h] EXCEPT !.kind = "gather"])
     ELSE Continue(h, [task[h] EXCEPT !.kind = "read", !.then = "idle",
                       !.todo = << [of |-> "due", change |-> -payment[p].amount],
                                   [of |-> "admin", change |-> payment[p].amount] >>])
  /\ UNCHANGED <<order, wallet, charged, told, ledger, handed, crashes, setting>>

-----------------------------------------------------------------------------
(* An amount spread over the rider's orders, the oldest first, with what   *)
(* each of them owed when the orders were read.                            *)

Owed == [o \in Orders |-> IF o \in Collected THEN Pending(o) ELSE 0]

Gather(h) ==
  /\ Busy(h, "gather")
  /\ Continue(h, [task[h] EXCEPT !.kind = "apply", !.found = Owed,
                                 !.left = payment[task[h].payment].amount])
  /\ UNCHANGED <<order, wallet, payment, charged, told, ledger, handed, crashes, setting>>

Listed(h) == IF task[h].left = 0 THEN {} ELSE {o \in Orders : task[h].found[o] > 0}
Oldest(h, o) == o \in Listed(h) /\ \A x \in Listed(h) : o <= x
Share(h, o) == AtMost(task[h].found[o], task[h].left)
Less(h, o) == [task[h] EXCEPT !.found[o] = 0, !.left = @ - Share(h, o), !.settled = TRUE]

AnyAmount(o, amount) == 0 < amount
Reconcilable(o, amount) == 0 < amount /\ amount <= Pending(o)

reconcileCodCash(o, amount) ==
  /\ order' = [order EXCEPT ![o].remitted = @ + amount]
  /\ wallet' = [wallet EXCEPT !.cash = Clamp(@ - amount), !.admin = @ + amount]

(* An order that owes less than it did ends the handler with an error.     *)
ReconcileNext(h, o) ==
  LET p == task[h].payment  amount == Share(h, o) IN
  /\ Busy(h, "apply") /\ Oldest(h, o)
  /\ \/ /\ Reconcilable(o, amount)
        /\ reconcileCodCash(o, amount)
        /\ Continue(h, Less(h, o))
        /\ ledger' = IF p = 0 THEN ledger ELSE [ledger EXCEPT ![p] = @ + amount]
     \/ ~Reconcilable(o, amount) /\ Finish(h) /\ UNCHANGED <<order, wallet, ledger>>
  /\ UNCHANGED <<payment, charged, told, handed, crashes, setting>>

RecordOnlySettled(h) ==
  LET p == task[h].payment IN
  /\ Busy(h, "apply") /\ Listed(h) = {}
  /\ payment' = IF p = 0 THEN payment ELSE [payment EXCEPT ![p].done = @ \/ task[h].settled]
  /\ Finish(h)
  /\ UNCHANGED <<order, wallet, charged, told, ledger, handed, crashes, setting>>

(* A remittance is complete even when nothing was left to settle.          *)
RecordSettlement(h) ==
  LET p == task[h].payment IN
  /\ Busy(h, "apply") /\ Listed(h) = {}
  /\ payment' = IF p = 0 THEN payment ELSE [payment EXCEPT ![p].done = TRUE]
  /\ Finish(h)
  /\ UNCHANGED <<order, wallet, charged, told, ledger, handed, crashes, setting>>

-----------------------------------------------------------------------------
(* Cash handed in at the desk.                                             *)

reconcileCodCashSubmission(o, amount) ==
  /\ Alone /\ o \in RiderOrders /\ Reconcilable(o, amount)
  /\ reconcileCodCash(o, amount)
  /\ UNCHANGED <<payment, charged, told, ledger, handed, task, crashes, setting>>

(* Submitted by the rider, or taken by the desk, which also looks at the   *)
(* rider's wallet.                                                         *)
HandInCash(h, amount, byDesk) ==
  /\ amount <= IF byDesk THEN AtMost(PendingCash, wallet.cash) ELSE PendingCash
  /\ Start(h, [Idle EXCEPT !.kind = "apply", !.found = Owed, !.left = amount])
  /\ UNCHANGED <<order, wallet, payment, charged, told, ledger, handed, crashes, setting>>

adminReconcileSellerCommission(h, amount) ==
  /\ amount <= wallet.due
  /\ Start(h, [Idle EXCEPT !.kind = "read",
                           !.todo = << [of |-> "due", change |-> -amount],
                                       [of |-> "admin", change |-> amount] >>])
  /\ handed' = handed + amount
  /\ UNCHANGED <<order, wallet, payment, charged, told, ledger, crashes, setting>>

-----------------------------------------------------------------------------
Crash(h) ==
  /\ Surprise("crash") /\ crashes < MaxCrashes /\ task[h] # Idle
  /\ Finish(h)
  /\ crashes' = crashes + 1
  /\ UNCHANGED <<order, wallet, payment, charged, told, ledger, handed, setting>>

Amounts == {n \in 1 .. MaxAmount : n <= setting.amount}

Work(h) ==
  \/ settleDeliveredOrder(h) \/ CountCash(h) \/ MarkCharged(h)
  \/ ReadWallet(h) \/ WriteWallet(h) \/ OffsetCommission(h)
  \/ SavePayment(h) \/ Gather(h) \/ RecordSettlement(h)
  \/ \E o \in Orders : ReconcileNext(h, o)

Serve(h) ==
  \/ \E o \in Orders : \/ Deliver(h, o) \/ SettleAgain(h, o)
                       \/ markOrderDeliveredAndSettle(h, o)
  \/ \E p \in Payments, event \in Events : Webhook(h, p, event) \/ Verify(h, p, event)
  \/ \E amount \in Amounts : \/ \E byDesk \in BOOLEAN : HandInCash(h, amount, byDesk)
                            \/ adminReconcileSellerCommission(h, amount)

Next ==
  \/ \E h \in Handlers : Work(h) \/ Serve(h) \/ Crash(h)
  \/ \E o \in RiderOrders : \E net \in 0 .. Cash[o] : markCodCollectedAfterDelivery(o, net)
  \/ \E o \in Orders, amount \in Amounts : reconcileCodCashSubmission(o, amount)
  \/ \E amount \in Amounts : \/ createCodRemittanceCheckout(amount)
                            \/ createSellerCodCommissionCheckout(amount)
  \/ \E p \in Payments : Capture(p)

Spec == Init /\ [][Next]_vars

(* A started handler ends.  The gateway reports a charge until it is       *)
(* answered, and the reconciliation job runs every minute: both find a     *)
(* handler sooner or later.  Nothing is assumed of rider, store and desk.  *)
Fairness ==
  /\ \A h \in Handlers : WF_vars(Work(h))
  /\ \A p \in Payments : SF_vars(\E h \in Handlers : Webhook(h, p, "captured"))
  /\ \A o \in Orders : SF_vars(\E h \in Handlers : SettleAgain(h, o))

FairSpec == Spec /\ Fairness

-----------------------------------------------------------------------------
OrderRecords ==
  [ delivered : BOOLEAN, applied : BOOLEAN, counted : BOOLEAN,
    collected : Nat, remitted : Nat ]
PaymentRecords ==
  [ by : {"rider", "store"}, status : Statuses, amount : Nat, done : BOOLEAN ]
Changes == [ of : {"due", "available", "admin"}, change : Int ]
Tasks ==
  [ kind : Kinds, order : Orders \cup {0}, payment : Payments \cup {0}, event : Events,
    status : Statuses, done : BOOLEAN, found : [Orders -> Nat], left : Nat,
    settled : BOOLEAN, todo : Seq(Changes), seen : Nat, then : Kinds ]

(* Every record is well formed; no wallet is ever negative, although each  *)
(* is saved as a handler read it, and although payments and set-offs may   *)
(* exceed what is still due when they arrive (walletService).              *)
TypeOK ==
  /\ order \in [Orders -> OrderRecords]
  /\ wallet \in [cash : Nat, due : Nat, available : Nat, admin : Nat]
  /\ payment \in [Payments -> PaymentRecords]
  /\ charged \subseteq Payments /\ told \subseteq charged
  /\ ledger \in [Payments -> Nat] /\ handed \in Nat
  /\ task \in [Handlers -> Tasks]
  /\ crashes \in 0 .. MaxCrashes /\ setting \in Settings

(* Whatever overlaps or dies, no order is counted for more than its cash,  *)
(* none is remitted for more than was counted, and the rider's wallet      *)
(* holds exactly the difference (handleCodOrderFinance, reconcileCodCash,  *)
(* and the loops that call it with amounts read earlier).                  *)
RemittedWithinCash ==
  \A o \in RiderOrders : order[o].remitted <= order[o].collected
                           /\ order[o].collected <= Cash[o]
CashAccounted ==
  /\ RemittedWithinCash
  /\ wallet.cash = SumFunctionOnSet([o \in Orders |-> Pending(o)], RiderOrders)

Calm == setting.surprises = {}
Charged(p) == IF p \in charged THEN payment[p].amount ELSE 0

(* While handlers neither overlap nor die, a payment of the rider settles  *)
(* at most what was charged, however often it is verified and reported     *)
(* (handleRemittancePaymentCaptured).                                      *)
RemitsWhatWasPaid == Calm => \A p \in Payments : ledger[p] <= Charged(p)

(* While handlers neither overlap nor die, the platform has what the rider *)
(* remitted, what the store's balance lost and what the store paid; and    *)
(* the store owes no more than it was charged and not set off, and no less *)
(* than it did not pay (applyDeliveredSettlement, handleCommission-        *)
(* PaymentCaptured, adminReconcileSellerCommission, in several writes).    *)
PaidByStore == {p \in Payments : payment[p].by = "store" /\ payment[p].status = "CAPTURED"}
CommissionAccounted ==
  Calm /\ (\A h \in Handlers : task[h] = Idle) =>
    LET offset == Balance - wallet.available
        paid == SumFunctionOnSet([p \in Payments |-> payment[p].amount], PaidByStore) + handed
        owed == Commission * Cardinality({o \in StoreOrders : order[o].counted})
        remitted == SumFunctionOnSet([o \in Orders |-> order[o].remitted], RiderOrders)
    IN /\ wallet.admin = remitted + offset + paid
       /\ wallet.due + offset <= owed
       /\ owed <= wallet.due + offset + paid

(* The cash of every order the rider delivered is counted in the end, also *)
(* when handlers die between settling and counting                         *)
(* (deliveredSettlementReconciliationJob).                                 *)
CashIsCounted == \A o \in RiderOrders : order[o].delivered ~> order[o].counted

(* While handlers neither overlap nor die, a remittance that was charged   *)
(* is applied to the rider's orders in the end, also when an earlier       *)
(* charge or a wrong signature has made the payment FAILED before          *)
(* (processCodRemittanceRazorpayWebhook).                                  *)
RemittanceIsApplied ==
  \A p \in Payments :
    Calm /\ payment[p].by = "rider" /\ p \in charged ~> payment[p].done
=============================================================================
