--------------------------- MODULE CodCash_proofs ---------------------------
(***************************************************************************)
(* Theorems about CodCash for any number of orders, payments and handlers: *)
(* the type invariant, the accounts of the rider's cash, that a payment    *)
(* settles no more than was charged, and the accounts of store and         *)
(* platform; the last two for handlers that neither overlap nor die.       *)
(*                                                                         *)
(* TypeInv adds to the type what a handler knows by its place in the code: *)
(* the order or payment it works on, and that it has a change of a wallet  *)
(* left to make.  CashInv adds that nothing is collected of an order that  *)
(* was not counted, BookInv that nothing is collected of other orders than *)
(* the rider's.  PaidInv is for undisturbed behaviours: one handler is     *)
(* busy, what it read still holds, and what it settled and has left comes  *)
(* to the amount of its payment.  StoreInv says of the same behaviours by  *)
(* how much the accounts are out while a handler is in the middle of its   *)
(* changes of wallets.  Sums are taken with the lemmas of FiniteSums.      *)
(***************************************************************************)
EXTENDS CodCash, SequenceTheorems, FiniteSums, TLAPS

TaskRight(t) ==
  /\ t.kind \in {"settle", "offset", "mark"} => t.order \in Orders
  /\ t.kind = "count" => t.order \in RiderOrders
  /\ t.kind \in {"read", "write"} =>
       /\ t.todo # <<>> /\ t.then \in {"offset", "mark", "idle"}
       /\ t.then # "idle" => t.order \in Orders
  /\ t.kind \in {"save", "gather"} => t.payment \in Payments

TasksRight == \A h \in Handlers : TaskRight(task[h])

TypeInv == TypeOK /\ TasksRight

LEMMA AtMostBounds ==
  ASSUME NEW m \in Nat, NEW n \in Nat
  PROVE  AtMost(m, n) \in Nat /\ AtMost(m, n) <= m /\ AtMost(m, n) <= n
  BY DEF AtMost

LEMMA ClampIsNat == ASSUME NEW n \in Int PROVE Clamp(n) \in Nat
  BY DEF Clamp

LEMMA IdleIsTask == Idle \in Tasks /\ TaskRight(Idle)
  <1>1. <<>> \in Seq(Changes)
    BY EmptySeq
  <1>2. [o \in Orders |-> 0] \in [Orders -> Nat]
    OBVIOUS
  <1>3. Idle \in Tasks
    BY <1>1, <1>2 DEF Idle, Tasks, Kinds, Events, Statuses
  <1>. QED
    BY <1>3 DEF Idle, TaskRight

(* A handler that goes on with a proper task leaves all tasks proper.      *)
LEMMA ContinueTyped ==
  ASSUME TypeInv, NEW h \in Handlers, NEW t \in Tasks, TaskRight(t), Continue(h, t)
  PROVE  task' \in [Handlers -> Tasks] /\ TasksRight'
  BY DEF TypeInv, TypeOK, TasksRight, Continue

LEMMA FinishTyped ==
  ASSUME TypeInv, NEW h \in Handlers, Finish(h)
  PROVE  task' \in [Handlers -> Tasks] /\ TasksRight'
  BY ContinueTyped, IdleIsTask DEF Finish

LEMMA StartTyped ==
  ASSUME TypeInv, NEW h \in Handlers, NEW t \in Tasks, TaskRight(t), Start(h, t)
  PROVE  task' \in [Handlers -> Tasks] /\ TasksRight'
  BY ContinueTyped DEF Start, Continue

LEMMA TasksKept ==
  ASSUME TypeInv, UNCHANGED task
  PROVE  task' \in [Handlers -> Tasks] /\ TasksRight'
  BY DEF TypeInv, TypeOK, TasksRight

(* The fields beside the tasks, and an unchanged setting.                  *)
DataOK ==
  /\ order \in [Orders -> OrderRecords]
  /\ wallet \in [cash : Nat, due : Nat, available : Nat, admin : Nat]
  /\ payment \in [Payments -> PaymentRecords]
  /\ charged \subseteq Payments /\ told \subseteq charged
  /\ ledger \in [Payments -> Nat] /\ handed \in Nat
  /\ crashes \in 0 .. MaxCrashes /\ setting \in Settings

LEMMA TypeParts ==
  ASSUME DataOK', task' \in [Handlers -> Tasks], TasksRight'
  PROVE  TypeInv'
  BY DEF TypeInv, TypeOK, DataOK

LEMMA PartsOfType == ASSUME TypeInv PROVE DataOK /\ task \in [Handlers -> Tasks] /\ TasksRight
  BY DEF TypeInv, TypeOK, DataOK

LEMMA TaskFields ==
  ASSUME TypeInv, NEW h \in Handlers
  PROVE  task[h] \in Tasks /\ TaskRight(task[h])
  BY DEF TypeInv, TypeOK, TasksRight

LEMMA PendingIsInt == ASSUME TypeInv, NEW o \in Orders PROVE Pending(o) \in Int
  BY DEF TypeInv, TypeOK, OrderRecords, Pending

LEMMA CashIsNat == ASSUME NEW o \in RiderOrders PROVE Cash[o] \in Nat /\ o \in Orders
  BY CodAssumption DEF Orders

LEMMA CollectionTyped ==
  ASSUME TypeInv, NEW o \in Orders, NEW net \in Nat, handleCodOrderFinance(o, net)
  PROVE  /\ order' \in [Orders -> OrderRecords]
         /\ wallet' \in [cash : Nat, due : Nat, available : Nat, admin : Nat]
  <1>1. CASE order[o].counted
    BY <1>1 DEF TypeInv, TypeOK, handleCodOrderFinance
  <1>2. CASE ~order[o].counted
    <2>1. order' = [order EXCEPT ![o].counted = TRUE, ![o].collected = net]
      BY <1>2 DEF handleCodOrderFinance
    <2>2. wallet' = [wallet EXCEPT !.cash = wallet.cash + net]
      BY <1>2 DEF handleCodOrderFinance
    <2>3. order' \in [Orders -> OrderRecords]
      BY <2>1 DEF TypeInv, TypeOK, OrderRecords
    <2>4. wallet' \in [cash : Nat, due : Nat, available : Nat, admin : Nat]
      BY <2>2 DEF TypeInv, TypeOK
    <2>. QED
      BY <2>3, <2>4
  <1>. QED
    BY <1>1, <1>2

LEMMA SettledTyped ==
  ASSUME TypeInv, NEW o \in Orders
  PROVE  Settled(o) \in [Orders -> OrderRecords]
  BY DEF TypeInv, TypeOK, OrderRecords, Settled

(* Delivery and collection.                                                *)
LEMMA DeliverTyped ==
  ASSUME TypeInv, NEW h \in Handlers, NEW o \in Orders, Deliver(h, o) \/ SettleAgain(h, o)
  PROVE  TypeInv'
  <1> DEFINE t == [Idle EXCEPT !.kind = "settle", !.order = o]
  <1>1. t \in Tasks /\ TaskRight(t)
    BY IdleIsTask DEF Tasks, Kinds, TaskRight
  <1>2. Start(h, t)
    BY DEF Deliver, SettleAgain
  <1>0. order' \in [Orders -> OrderRecords]
    <2>1. order' = order \/ order' = [order EXCEPT ![o].delivered = TRUE]
      BY DEF Deliver, SettleAgain
    <2>. QED
      BY <2>1 DEF TypeInv, TypeOK, OrderRecords
  <1>3. DataOK'
    BY <1>0 DEF Deliver, SettleAgain, TypeInv, TypeOK, DataOK
  <1>. QED
    BY <1>1, <1>2, <1>3, StartTyped, TypeParts

LEMMA SettleTyped ==
  ASSUME TypeInv, NEW h \in Handlers, settleDeliveredOrder(h)
  PROVE  TypeInv'
  <1> DEFINE o == task[h].order
             c == [task[h] EXCEPT !.kind = "count"]
             r == [task[h] EXCEPT !.kind = "read", !.then = "offset",
                       !.todo = <<[of |-> "due", change |-> Commission]>>]
  <1>1. o \in Orders /\ task[h] \in Tasks
    BY TaskFields DEF settleDeliveredOrder, Busy, TaskRight
  <1>2. DataOK'
    BY <1>1, SettledTyped DEF settleDeliveredOrder, TypeInv, TypeOK, DataOK
  <1>3. CASE Finish(h)
    BY <1>2, <1>3, FinishTyped, TypeParts
  <1>4. CASE o \in RiderOrders /\ Continue(h, c)
    <2>1. c \in Tasks /\ TaskRight(c)
      BY <1>1, <1>4 DEF Tasks, Kinds, TaskRight
    <2>. QED
      BY <2>1, <1>2, <1>4, ContinueTyped, TypeParts
  <1>5. CASE Continue(h, r)
    <2>1. r.todo \in Seq(Changes) /\ r.todo # <<>>
      BY <1>1, CodAssumption DEF Tasks, Changes
    <2>2. r \in Tasks /\ TaskRight(r)
      BY <1>1, <2>1 DEF Tasks, Kinds, TaskRight
    <2>. QED
      BY <2>2, <1>2, <1>5, ContinueTyped, TypeParts
  <1>. QED
    BY <1>3, <1>4, <1>5 DEF settleDeliveredOrder

LEMMA CountTyped ==
  ASSUME TypeInv, NEW h \in Handlers, CountCash(h)
  PROVE  TypeInv'
  <1>1. task[h].order \in RiderOrders
    BY TaskFields DEF CountCash, Busy, TaskRight
  <1>2. DataOK'
    BY <1>1, CashIsNat, CollectionTyped DEF CountCash, TypeInv, TypeOK, DataOK
  <1>. QED
    BY <1>2, FinishTyped, TypeParts DEF CountCash

LEMMA EndpointTyped ==
  ASSUME TypeInv, NEW h \in Handlers, NEW o \in Orders, markOrderDeliveredAndSettle(h, o)
  PROVE  TypeInv'
  <1> DEFINE t == [Idle EXCEPT !.kind = "count", !.order = o]
  <1>1. DataOK'
    BY SettledTyped DEF markOrderDeliveredAndSettle, TypeInv, TypeOK, DataOK
  <1>2. CASE o \in RiderOrders /\ Start(h, t)
    <2>1. t \in Tasks /\ TaskRight(t)
      BY <1>2, IdleIsTask DEF Tasks, Kinds, TaskRight
    <2>. QED
      BY <2>1, <1>1, <1>2, StartTyped, TypeParts
  <1>3. CASE UNCHANGED task
    BY <1>1, <1>3, TasksKept, TypeParts
  <1>. QED
    BY <1>2, <1>3 DEF markOrderDeliveredAndSettle

LEMMA MarkCollectedTyped ==
  ASSUME TypeInv, NEW o \in RiderOrders, NEW net \in 0 .. Cash[o],
         markCodCollectedAfterDelivery(o, net)
  PROVE  TypeInv'
  <1>1. o \in Orders /\ net \in Nat
    BY CashIsNat
  <1>2. DataOK'
    BY <1>1, CollectionTyped DEF markCodCollectedAfterDelivery, TypeInv, TypeOK, DataOK
  <1>. QED
    BY <1>2, TasksKept, TypeParts DEF markCodCollectedAfterDelivery

(* Wallets.                                                                *)
LEMMA ReadTyped ==
  ASSUME TypeInv, NEW h \in Handlers, ReadWallet(h)
  PROVE  TypeInv'
  <1> DEFINE n == wallet[Head(task[h].todo).of]
             t == [task[h] EXCEPT !.kind = "write", !.seen = n]
  <1>1. task[h] \in Tasks /\ TaskRight(task[h]) /\ task[h].kind = "read"
    BY TaskFields DEF ReadWallet, Busy
  <1>2. Head(task[h].todo) \in Changes
    BY <1>1, HeadTailProperties DEF Tasks, TaskRight
  <1>3. n \in Nat
    BY <1>2 DEF Changes, TypeInv, TypeOK
  <1>4. t \in Tasks /\ TaskRight(t)
    BY <1>1, <1>3 DEF Tasks, Kinds, TaskRight
  <1>5. DataOK'
    BY DEF ReadWallet, TypeInv, TypeOK, DataOK
  <1>6. Continue(h, t)
    BY DEF ReadWallet
  <1>. QED
    BY <1>4, <1>5, <1>6, ContinueTyped, TypeParts

LEMMA WriteTyped ==
  ASSUME TypeInv, NEW h \in Handlers, WriteWallet(h)
  PROVE  TypeInv'
  <1> DEFINE op == Head(task[h].todo)
             rest == Tail(task[h].todo)
             t == [task[h] EXCEPT !.todo = rest, !.seen = 0,
                                  !.kind = IF rest = <<>> THEN task[h].then ELSE "read"]
  <1>1. task[h] \in Tasks /\ TaskRight(task[h]) /\ task[h].kind = "write"
    BY TaskFields DEF WriteWallet, Busy
  <1>2. op \in Changes /\ rest \in Seq(Changes)
    BY <1>1, HeadTailProperties DEF Tasks, TaskRight
  <1>3. Clamp(task[h].seen + op.change) \in Nat
    <2>1. task[h].seen \in Nat /\ op.change \in Int
      BY <1>1, <1>2 DEF Tasks, Changes
    <2>2. task[h].seen + op.change \in Int
      BY <2>1
    <2>. QED
      BY <2>2, ClampIsNat
  <1>4. wallet' \in [cash : Nat, due : Nat, available : Nat, admin : Nat]
    BY <1>2, <1>3 DEF WriteWallet, Changes, TypeInv, TypeOK
  <1>5. DataOK'
    BY <1>4 DEF WriteWallet, TypeInv, TypeOK, DataOK
  <1>6. t \in Tasks /\ TaskRight(t)
    BY <1>1, <1>2 DEF Tasks, Kinds, TaskRight
  <1>7. Finish(h) \/ Continue(h, t)
    BY DEF WriteWallet
  <1>8. CASE Finish(h)
    BY <1>5, <1>8, FinishTyped, TypeParts
  <1>9. CASE Continue(h, t)
    BY <1>5, <1>6, <1>9, ContinueTyped, TypeParts
  <1>. QED
    BY <1>7, <1>8, <1>9

LEMMA OffsetTyped ==
  ASSUME TypeInv, NEW h \in Handlers, OffsetCommission(h)
  PROVE  TypeInv'
  <1> DEFINE offset == AtMost(wallet.available, Commission)
             ops == << [of |-> "available", change |-> -offset],
                       [of |-> "due", change |-> -offset],
                       [of |-> "admin", change |-> offset] >>
             t == [task[h] EXCEPT !.then = "mark",
                     !.kind = IF offset = 0 THEN "mark" ELSE "read",
                     !.todo = IF offset = 0 THEN <<>> ELSE ops]
  <1>1. task[h] \in Tasks /\ task[h].order \in Orders
    BY TaskFields DEF OffsetCommission, Busy, TaskRight
  <1>2. offset \in Nat
    <2>1. wallet.available \in Nat /\ Commission \in Nat
      BY CodAssumption DEF TypeInv, TypeOK
    <2>. QED
      BY <2>1, AtMostBounds
  <1>3. ops \in Seq(Changes) /\ ops # <<>> /\ <<>> \in Seq(Changes)
    <2> HIDE DEF offset
    <2>. QED
      BY <1>2, EmptySeq DEF Changes
  <1>4. Continue(h, t)
    BY DEF OffsetCommission
  <1>5. t \in Tasks /\ TaskRight(t)
    <2> HIDE DEF offset, ops
    <2>. QED
      BY <1>1, <1>2, <1>3 DEF Tasks, Kinds, TaskRight
  <1>6. DataOK'
    BY DEF OffsetCommission, TypeInv, TypeOK, DataOK
  <1>. QED
    BY <1>4, <1>5, <1>6, ContinueTyped, TypeParts

LEMMA MarkTyped ==
  ASSUME TypeInv, NEW h \in Handlers, MarkCharged(h)
  PROVE  TypeInv'
  <1>1. task[h] \in Tasks /\ task[h].order \in Orders
    BY TaskFields DEF MarkCharged, Busy, TaskRight
  <1>2. order' \in [Orders -> OrderRecords]
    <2>1. order' = [order EXCEPT ![task[h].order].counted = TRUE]
      BY DEF MarkCharged
    <2>. QED
      BY <1>1, <2>1 DEF TypeInv, TypeOK, OrderRecords
  <1>3. DataOK'
    BY <1>2 DEF MarkCharged, TypeInv, TypeOK, DataOK
  <1>. QED
    BY <1>3, FinishTyped, TypeParts DEF MarkCharged

(* Payments at the gateway.                                                *)
LEMMA OpenTyped ==
  ASSUME TypeInv, NEW amount \in Amounts,
         createCodRemittanceCheckout(amount) \/ createSellerCodCommissionCheckout(amount)
  PROVE  TypeInv'
  <1>1. PICK by \in {"rider", "store"} : OpenPayment(by, amount)
    BY DEF createCodRemittanceCheckout, createSellerCodCommissionCheckout
  <1>2. amount \in Nat
    BY CodAssumption DEF Amounts
  <1> DEFINE new == [NoPayment EXCEPT !.by = by, !.status = "PENDING", !.amount = amount]
  <1>3. new \in PaymentRecords
    BY <1>1, <1>2 DEF NoPayment, PaymentRecords, Statuses
  <1>4. PICK p \in Payments : payment' = [payment EXCEPT ![p] = new]
    BY <1>1 DEF OpenPayment
  <1>5. payment' \in [Payments -> PaymentRecords]
    BY <1>3, <1>4 DEF TypeInv, TypeOK
  <1>6. DataOK' /\ UNCHANGED task
    BY <1>1, <1>5 DEF OpenPayment, TypeInv, TypeOK, DataOK
  <1>. QED
    BY <1>6, TasksKept, TypeParts

LEMMA CaptureTyped ==
  ASSUME TypeInv, NEW p \in Payments, Capture(p)
  PROVE  TypeInv'
  <1>1. DataOK' /\ UNCHANGED task
    BY DEF Capture, TypeInv, TypeOK, DataOK
  <1>. QED
    BY <1>1, TasksKept, TypeParts

LEMMA HandlingTyped ==
  ASSUME TypeInv, NEW p \in Payments, NEW event \in Events
  PROVE  /\ Handling(p, event) \in Tasks /\ TaskRight(Handling(p, event))
         /\ [Handling(p, event) EXCEPT !.kind = "gather"] \in Tasks
         /\ TaskRight([Handling(p, event) EXCEPT !.kind = "gather"])
  <1>1. payment[p].status \in Statuses /\ payment[p].done \in BOOLEAN
    BY DEF TypeInv, TypeOK, PaymentRecords
  <1>2. Handling(p, event) \in Tasks
    BY <1>1, IdleIsTask DEF Handling, Tasks, Kinds
  <1>3. [Handling(p, event) EXCEPT !.kind = "gather"] \in Tasks
    BY <1>2 DEF Tasks, Kinds
  <1>. QED
    BY <1>2, <1>3 DEF Handling, Idle, TaskRight

LEMMA WebhookTyped ==
  ASSUME TypeInv, NEW h \in Handlers, NEW p \in Payments, NEW event \in Events,
         Webhook(h, p, event) \/ Verify(h, p, event)
  PROVE  TypeInv'
  <1> DEFINE g == [Handling(p, "captured") EXCEPT !.kind = "gather"]
  <1>1. DataOK'
    BY DEF Webhook, Verify, TypeInv, TypeOK, DataOK
  <1>2. Start(h, Handling(p, event)) \/ Start(h, g) \/ UNCHANGED task
    BY DEF Webhook, Verify
  <1>3. g \in Tasks /\ TaskRight(g)
    BY HandlingTyped DEF Events
  <1>4. CASE Start(h, Handling(p, event))
    BY <1>1, <1>4, HandlingTyped, StartTyped, TypeParts
  <1>5. CASE Start(h, g)
    BY <1>1, <1>3, <1>5, StartTyped, TypeParts
  <1>6. CASE UNCHANGED task
    BY <1>1, <1>6, TasksKept, TypeParts
  <1>. QED
    BY <1>2, <1>4, <1>5, <1>6

LEMMA SaveTyped ==
  ASSUME TypeInv, NEW h \in Handlers, SavePayment(h)
  PROVE  TypeInv'
  <1> DEFINE p == task[h].payment
             ops == << [of |-> "due", change |-> -payment[p].amount],
                       [of |-> "admin", change |-> payment[p].amount] >>
             g == [task[h] EXCEPT !.kind = "gather"]
             r == [task[h] EXCEPT !.kind = "read", !.then = "idle", !.todo = ops]
  <1>1. task[h] \in Tasks /\ TaskRight(task[h]) /\ p \in Payments
    BY TaskFields DEF SavePayment, Busy, TaskRight
  <1>2. payment' \in [Payments -> PaymentRecords]
    BY <1>1 DEF SavePayment, StatusOf, Statuses, TypeInv, TypeOK, PaymentRecords
  <1>3. DataOK'
    BY <1>2 DEF SavePayment, TypeInv, TypeOK, DataOK
  <1>4. payment[p].amount \in Nat
    BY <1>1 DEF TypeInv, TypeOK, PaymentRecords
  <1>5. ops \in Seq(Changes) /\ ops # <<>>
    BY <1>4 DEF Changes
  <1>6. g \in Tasks /\ TaskRight(g)
    BY <1>1 DEF Tasks, Kinds, TaskRight
  <1>7. Finish(h) \/ Continue(h, g) \/ Continue(h, r)
    BY DEF SavePayment
  <1>8. r \in Tasks /\ TaskRight(r)
    <2> HIDE DEF ops
    <2>. QED
      BY <1>1, <1>5 DEF Tasks, Kinds, TaskRight
  <1>9. CASE Finish(h)
    BY <1>3, <1>9, FinishTyped, TypeParts
  <1>10. CASE Continue(h, g)
    BY <1>3, <1>6, <1>10, ContinueTyped, TypeParts
  <1>11. CASE Continue(h, r)
    BY <1>3, <1>8, <1>11, ContinueTyped, TypeParts
  <1>. QED
    BY <1>7, <1>9, <1>10, <1>11

(* Amounts spread over the rider's orders.                                 *)
LEMMA FoundTyped ==
  ASSUME TypeInv
  PROVE  Owed \in [Orders -> Nat]
  <1>1. ASSUME NEW o \in Orders PROVE Owed[o] \in Nat
    BY PendingIsInt DEF Owed, Collected
  <1>2. Owed = [o \in Orders |-> Owed[o]]
    BY DEF Owed
  <1>. QED
    BY <1>1, <1>2

LEMMA GatherTyped ==
  ASSUME TypeInv, NEW h \in Handlers, Gather(h)
  PROVE  TypeInv'
  <1> DEFINE p == task[h].payment
             a == [task[h] EXCEPT !.kind = "apply", !.found = Owed, !.left = payment[p].amount]
  <1>1. task[h] \in Tasks /\ p \in Payments
    BY TaskFields DEF Gather, Busy, TaskRight
  <1>2. DataOK'
    BY DEF Gather, TypeInv, TypeOK, DataOK
  <1>3. payment[p].amount \in Nat
    BY <1>1 DEF TypeInv, TypeOK, PaymentRecords
  <1>4. Continue(h, a)
    BY DEF Gather
  <1>5. a \in Tasks /\ TaskRight(a)
    BY <1>1, <1>3, FoundTyped DEF Tasks, Kinds, TaskRight
  <1>. QED
    BY <1>2, <1>4, <1>5, ContinueTyped, TypeParts

LEMMA ShareBounds ==
  ASSUME TypeInv, NEW h \in Handlers, NEW o \in Orders
  PROVE  /\ Share(h, o) \in Nat /\ Share(h, o) <= task[h].found[o]
         /\ Share(h, o) <= task[h].left
         /\ task[h].found \in [Orders -> Nat] /\ task[h].left \in Nat
  BY TaskFields, AtMostBounds DEF Tasks, Share

LEMMA LessTyped ==
  ASSUME TypeInv, NEW h \in Handlers, NEW o \in Orders, task[h].kind = "apply"
  PROVE  Less(h, o) \in Tasks /\ TaskRight(Less(h, o))
  <1> DEFINE found == [task[h].found EXCEPT ![o] = 0]
             left == task[h].left - Share(h, o)
  <1>1. task[h] \in Tasks
    BY TaskFields
  <1>2. found \in [Orders -> Nat] /\ left \in Nat
    BY ShareBounds
  <1>3. Less(h, o) = [task[h] EXCEPT !.found = found, !.left = left, !.settled = TRUE]
    BY <1>1 DEF Less, Tasks
  <1>. QED
    <2> HIDE DEF found, left
    <2>. QED
      BY <1>1, <1>2, <1>3 DEF Tasks, TaskRight

LEMMA ReconcileTyped ==
  ASSUME TypeInv, NEW o \in Orders, NEW amount \in Nat, reconcileCodCash(o, amount)
  PROVE  /\ order' \in [Orders -> OrderRecords]
         /\ wallet' \in [cash : Nat, due : Nat, available : Nat, admin : Nat]
  <1>1. Clamp(wallet.cash - amount) \in Nat /\ wallet.admin + amount \in Nat
    BY ClampIsNat DEF TypeInv, TypeOK
  <1>2. wallet' = [wallet EXCEPT !.cash = Clamp(wallet.cash - amount),
                                 !.admin = wallet.admin + amount]
    BY DEF reconcileCodCash
  <1>3. order' = [order EXCEPT ![o].remitted = order[o].remitted + amount]
    BY DEF reconcileCodCash
  <1>4. order' \in [Orders -> OrderRecords]
    BY <1>3 DEF TypeInv, TypeOK, OrderRecords
  <1>5. wallet' \in [cash : Nat, due : Nat, available : Nat, admin : Nat]
    BY <1>1, <1>2 DEF TypeInv, TypeOK
  <1>. QED
    BY <1>4, <1>5

LEMMA ReconcileNextTyped ==
  ASSUME TypeInv, NEW h \in Handlers, NEW o \in Orders, ReconcileNext(h, o)
  PROVE  TypeInv'
  <1> DEFINE amount == Share(h, o)
             p == task[h].payment
  <1>1. task[h].kind = "apply" /\ amount \in Nat /\ p \in Payments \cup {0}
    BY ShareBounds, TaskFields DEF ReconcileNext, Busy, Tasks
  <1>2. CASE Reconcilable(o, amount) /\ reconcileCodCash(o, amount) /\ Continue(h, Less(h, o))
             /\ ledger' = IF p = 0 THEN ledger ELSE [ledger EXCEPT ![p] = @ + amount]
    <2>1. ledger' \in [Payments -> Nat]
      BY <1>1, <1>2 DEF TypeInv, TypeOK
    <2>2. DataOK'
      BY <1>1, <1>2, <2>1, ReconcileTyped DEF ReconcileNext, TypeInv, TypeOK, DataOK
    <2>. QED
      BY <1>1, <1>2, <2>2, LessTyped, ContinueTyped, TypeParts
  <1>3. CASE Finish(h) /\ UNCHANGED <<order, wallet, ledger>>
    <2>1. DataOK'
      BY <1>3 DEF ReconcileNext, TypeInv, TypeOK, DataOK
    <2>. QED
      BY <1>3, <2>1, FinishTyped, TypeParts
  <1>. QED
    BY <1>2, <1>3 DEF ReconcileNext

LEMMA RecordTyped ==
  ASSUME TypeInv, NEW h \in Handlers, RecordSettlement(h)
  PROVE  TypeInv'
  <1>1. task[h] \in Tasks
    BY TaskFields
  <1>2. task[h].payment \in Payments \cup {0}
    BY <1>1 DEF Tasks
  <1>3. payment' \in [Payments -> PaymentRecords]
    <2> DEFINE p == task[h].payment
    <2>1. CASE p = 0
      BY <2>1 DEF RecordSettlement, TypeInv, TypeOK
    <2>2. CASE p # 0
      BY <1>2, <2>2 DEF RecordSettlement, TypeInv, TypeOK, PaymentRecords
    <2>. QED
      BY <2>1, <2>2
  <1>4. DataOK'
    BY <1>3 DEF RecordSettlement, TypeInv, TypeOK, DataOK
  <1>. QED
    BY <1>4, FinishTyped, TypeParts DEF RecordSettlement

(* Cash handed in at the desk; crashes.                                    *)
LEMMA SubmissionTyped ==
  ASSUME TypeInv, NEW o \in Orders, NEW amount \in Amounts, reconcileCodCashSubmission(o, amount)
  PROVE  TypeInv'
  <1>1. amount \in Nat
    BY CodAssumption DEF Amounts
  <1>2. DataOK'
    BY <1>1, ReconcileTyped DEF reconcileCodCashSubmission, TypeInv, TypeOK, DataOK
  <1>. QED
    BY <1>2, TasksKept, TypeParts DEF reconcileCodCashSubmission

LEMMA HandInTyped ==
  ASSUME TypeInv, NEW h \in Handlers, NEW amount \in Amounts, NEW byDesk \in BOOLEAN,
         HandInCash(h, amount, byDesk)
  PROVE  TypeInv'
  <1> DEFINE t == [Idle EXCEPT !.kind = "apply", !.found = Owed, !.left = amount]
  <1>1. amount \in Nat
    BY CodAssumption DEF Amounts
  <1>2. t \in Tasks /\ TaskRight(t)
    BY <1>1, IdleIsTask, FoundTyped DEF Tasks, Kinds, TaskRight
  <1>3. DataOK'
    BY DEF HandInCash, TypeInv, TypeOK, DataOK
  <1>4. Start(h, t)
    BY DEF HandInCash
  <1>. QED
    BY <1>2, <1>3, <1>4, StartTyped, TypeParts

LEMMA DeskTyped ==
  ASSUME TypeInv, NEW h \in Handlers, NEW amount \in Amounts,
         adminReconcileSellerCommission(h, amount)
  PROVE  TypeInv'
  <1> DEFINE ops == << [of |-> "due", change |-> -amount], [of |-> "admin", change |-> amount] >>
             t == [Idle EXCEPT !.kind = "read", !.todo = ops]
  <1>1. amount \in Nat
    BY CodAssumption DEF Amounts
  <1>2. ops \in Seq(Changes) /\ ops # <<>>
    BY <1>1 DEF Changes
  <1>3. Start(h, t)
    BY DEF adminReconcileSellerCommission
  <1>4. t \in Tasks /\ TaskRight(t)
    <2>1. Idle.then = "idle"
      BY DEF Idle
    <2> HIDE DEF ops
    <2>. QED
      BY <2>1, <1>2, IdleIsTask DEF Tasks, Kinds, TaskRight
  <1>5. DataOK'
    BY <1>1 DEF adminReconcileSellerCommission, TypeInv, TypeOK, DataOK
  <1>. QED
    BY <1>3, <1>4, <1>5, StartTyped, TypeParts

LEMMA CrashTyped ==
  ASSUME TypeInv, NEW h \in Handlers, Crash(h)
  PROVE  TypeInv'
  <1>1. DataOK'
    BY CodAssumption DEF Crash, TypeInv, TypeOK, DataOK
  <1>. QED
    BY <1>1, FinishTyped, TypeParts DEF Crash

LEMMA InitTyped == Init => TypeInv
  <1> SUFFICES ASSUME Init PROVE TypeInv
    OBVIOUS
  <1>1. DataOK
    BY CodAssumption DEF Init, DataOK, NewOrder, OrderRecords, NoPayment, PaymentRecords,
       Statuses
  <1>2. task \in [Handlers -> Tasks] /\ TasksRight
    BY IdleIsTask DEF Init, TasksRight
  <1>. QED
    BY <1>1, <1>2 DEF TypeInv, TypeOK, DataOK

LEMMA WorkTyped ==
  ASSUME TypeInv, NEW h \in Handlers, Work(h)
  PROVE  TypeInv'
  BY SettleTyped, CountTyped, MarkTyped, ReadTyped, WriteTyped, OffsetTyped, SaveTyped,
     GatherTyped, RecordTyped, ReconcileNextTyped DEF Work

LEMMA ServeTyped ==
  ASSUME TypeInv, NEW h \in Handlers, Serve(h)
  PROVE  TypeInv'
  BY DeliverTyped, EndpointTyped, WebhookTyped, HandInTyped, DeskTyped DEF Serve

LEMMA NextTyped == TypeInv /\ [Next]_vars => TypeInv'
  <1> SUFFICES ASSUME TypeInv, [Next]_vars PROVE TypeInv'
    OBVIOUS
  <1>1. ASSUME NEW h \in Handlers, Work(h) \/ Serve(h) \/ Crash(h)
        PROVE  TypeInv'
    BY <1>1, WorkTyped, ServeTyped, CrashTyped
  <1>2. ASSUME NEW o \in RiderOrders, NEW net \in 0 .. Cash[o],
               markCodCollectedAfterDelivery(o, net)
        PROVE  TypeInv'
    BY <1>2, MarkCollectedTyped
  <1>3. ASSUME NEW o \in Orders, NEW amount \in Amounts, reconcileCodCashSubmission(o, amount)
        PROVE  TypeInv'
    BY <1>3, SubmissionTyped
  <1>4. ASSUME NEW amount \in Amounts,
               createCodRemittanceCheckout(amount) \/ createSellerCodCommissionCheckout(amount)
        PROVE  TypeInv'
    BY <1>4, OpenTyped
  <1>5. ASSUME NEW p \in Payments, Capture(p)
        PROVE  TypeInv'
    BY <1>5, CaptureTyped
  <1>6. CASE UNCHANGED vars
    BY <1>6 DEF vars, TypeInv, TypeOK, TasksRight
  <1>. QED
    BY <1>1, <1>2, <1>3, <1>4, <1>5, <1>6 DEF Next

LEMMA AlwaysTyped == Spec => []TypeInv
  BY InitTyped, NextTyped, PTL DEF Spec

(* Every record of orders, wallets, payments and handlers is well formed   *)
(* in every reachable state, and no wallet is ever negative, whichever     *)
(* handlers save what they read earlier.                                   *)
THEOREM CodTyped == Spec => []TypeOK
  <1>1. TypeInv => TypeOK
    BY DEF TypeInv
  <1>. QED
    BY <1>1, AlwaysTyped, PTL

-----------------------------------------------------------------------------
(* What is remitted of an order stays within its cash.                     *)

WithinCash(o) ==
  /\ order[o].remitted <= order[o].collected /\ order[o].collected <= Cash[o]
  /\ ~order[o].counted => order[o].collected = 0

CashInv == \A o \in RiderOrders : WithinCash(o)

LEMMA OrderFields ==
  ASSUME TypeInv, NEW o \in Orders
  PROVE  order \in [Orders -> OrderRecords] /\ order[o].collected \in Nat
         /\ order[o].remitted \in Nat /\ order[o].counted \in BOOLEAN
  BY DEF TypeInv, TypeOK, OrderRecords

(* Steps that neither count nor remit.                                     *)
SameCash ==
  \A o \in Orders : /\ order'[o].collected = order[o].collected
                    /\ order'[o].remitted = order[o].remitted
                    /\ order[o].counted => order'[o].counted

LEMMA SameCashKeeps == ASSUME CashInv, SameCash PROVE CashInv'
  BY DEF CashInv, WithinCash, SameCash, Orders

LEMMA UnchangedCash == ASSUME UNCHANGED order PROVE SameCash
  BY DEF SameCash

LEMMA SettledSameCash ==
  ASSUME TypeInv, NEW o \in Orders, order' = Settled(o)
  PROVE  SameCash
  BY OrderFields DEF Settled, SameCash, OrderRecords

LEMMA CountKeeps ==
  ASSUME TypeInv, CashInv, NEW o \in RiderOrders, NEW net \in Nat, net <= Cash[o],
         handleCodOrderFinance(o, net)
  PROVE  CashInv'
  <1>1. CASE order[o].counted
    BY <1>1, UnchangedCash, SameCashKeeps DEF handleCodOrderFinance
  <1>2. CASE ~order[o].counted
    <2>1. order' = [order EXCEPT ![o].counted = TRUE, ![o].collected = net]
      BY <1>2 DEF handleCodOrderFinance
    <2>2. o \in Orders /\ order[o].collected = 0 /\ order[o].remitted = 0
      BY <1>2, OrderFields DEF CashInv, WithinCash, Orders
    <2>3. order'[o].collected = net /\ order'[o].remitted = 0 /\ order'[o].counted
      BY <2>1, <2>2, OrderFields DEF OrderRecords
    <2>4. \A x \in RiderOrders : x # o => order'[x] = order[x]
      BY <2>1, OrderFields DEF Orders
    <2>. QED
      BY <2>3, <2>4 DEF CashInv, WithinCash
  <1>. QED
    BY <1>1, <1>2

LEMMA ReconcileKeeps ==
  ASSUME TypeInv, CashInv, NEW o \in Orders, NEW amount \in Nat,
         Reconcilable(o, amount), reconcileCodCash(o, amount)
  PROVE  CashInv'
  <1>1. order' = [order EXCEPT ![o].remitted = order[o].remitted + amount]
    BY DEF reconcileCodCash
  <1>2. /\ order'[o].remitted = order[o].remitted + amount
        /\ order'[o].collected = order[o].collected
        /\ order'[o].counted = order[o].counted
    BY <1>1, OrderFields DEF OrderRecords
  <1>3. order[o].remitted + amount <= order[o].collected
    BY OrderFields DEF Reconcilable, Pending
  <1>4. \A x \in RiderOrders : x # o => order'[x] = order[x]
    BY <1>1, OrderFields DEF Orders
  <1>. QED
    BY <1>2, <1>3, <1>4 DEF CashInv, WithinCash

LEMMA WorkKeepsCash ==
  ASSUME TypeInv, CashInv, NEW h \in Handlers, Work(h)
  PROVE  CashInv'
  <1>1. CASE settleDeliveredOrder(h)
    <2>1. task[h].order \in Orders
      BY <1>1, TaskFields DEF settleDeliveredOrder, Busy, TaskRight
    <2>. QED
      BY <1>1, <2>1, SettledSameCash, SameCashKeeps DEF settleDeliveredOrder
  <1>2. CASE CountCash(h)
    <2>1. task[h].order \in RiderOrders
      BY <1>2, TaskFields DEF CountCash, Busy, TaskRight
    <2>. QED
      BY <1>2, <2>1, CashIsNat, CountKeeps DEF CountCash
  <1>3. CASE MarkCharged(h)
    <2>1. task[h].order \in Orders
      BY <1>3, TaskFields DEF MarkCharged, Busy, TaskRight
    <2>2. order' = [order EXCEPT ![task[h].order].counted = TRUE]
      BY <1>3 DEF MarkCharged
    <2>3. SameCash
      BY <2>1, <2>2, OrderFields DEF SameCash, OrderRecords
    <2>. QED
      BY <2>3, SameCashKeeps
  <1>4. ASSUME NEW o \in Orders, ReconcileNext(h, o) PROVE CashInv'
    <2>1. Share(h, o) \in Nat
      BY ShareBounds
    <2>. QED
      BY <1>4, <2>1, ReconcileKeeps, UnchangedCash, SameCashKeeps DEF ReconcileNext
  <1>5. CASE ReadWallet(h) \/ WriteWallet(h) \/ OffsetCommission(h) \/ SavePayment(h)
             \/ Gather(h) \/ RecordSettlement(h)
    BY <1>5, UnchangedCash, SameCashKeeps
       DEF ReadWallet, WriteWallet, OffsetCommission, SavePayment, Gather, RecordSettlement
  <1>. QED
    BY <1>1, <1>2, <1>3, <1>4, <1>5 DEF Work

LEMMA ServeKeepsCash ==
  ASSUME TypeInv, CashInv, NEW h \in Handlers, Serve(h)
  PROVE  CashInv'
  <1>1. ASSUME NEW o \in Orders, Deliver(h, o) PROVE CashInv'
    <2>1. order' = [order EXCEPT ![o].delivered = TRUE]
      BY <1>1 DEF Deliver
    <2>2. SameCash
      BY <2>1, OrderFields DEF SameCash, OrderRecords
    <2>. QED
      BY <2>2, SameCashKeeps
  <1>2. ASSUME NEW o \in Orders, markOrderDeliveredAndSettle(h, o) PROVE CashInv'
    BY <1>2, SettledSameCash, SameCashKeeps DEF markOrderDeliveredAndSettle
  <1>3. ASSUME UNCHANGED order PROVE CashInv'
    BY <1>3, UnchangedCash, SameCashKeeps
  <1>. QED
    BY <1>1, <1>2, <1>3
       DEF Serve, SettleAgain, Webhook, Verify, HandInCash, adminReconcileSellerCommission

LEMMA NextKeepsCash == TypeInv /\ CashInv /\ [Next]_vars => CashInv'
  <1> SUFFICES ASSUME TypeInv, CashInv, [Next]_vars PROVE CashInv'
    OBVIOUS
  <1>1. ASSUME NEW h \in Handlers, Work(h) \/ Serve(h)
        PROVE  CashInv'
    BY <1>1, WorkKeepsCash, ServeKeepsCash
  <1>2. ASSUME NEW o \in RiderOrders, NEW net \in 0 .. Cash[o],
               markCodCollectedAfterDelivery(o, net)
        PROVE  CashInv'
    BY <1>2, CashIsNat, CountKeeps DEF markCodCollectedAfterDelivery
  <1>3. ASSUME NEW o \in Orders, NEW amount \in Amounts, reconcileCodCashSubmission(o, amount)
        PROVE  CashInv'
    <2>1. amount \in Nat
      BY CodAssumption DEF Amounts
    <2>. QED
      BY <1>3, <2>1, ReconcileKeeps DEF reconcileCodCashSubmission
  <1>4. ASSUME UNCHANGED order PROVE CashInv'
    BY <1>4, UnchangedCash, SameCashKeeps
  <1>. QED
    BY <1>1, <1>2, <1>3, <1>4
       DEF Next, Crash, createCodRemittanceCheckout, createSellerCodCommissionCheckout,
           OpenPayment, Capture, vars

LEMMA AlwaysWithinCash == Spec => [](TypeInv /\ CashInv)
  <1>1. Init => CashInv
    BY CashIsNat DEF Init, NewOrder, CashInv, WithinCash
  <1>. QED
    BY <1>1, InitTyped, NextTyped, NextKeepsCash, PTL DEF Spec

(* No order is counted for more than its cash or remitted for more than    *)
(* was counted, however the loops that remit overlap and wherever they     *)
(* end: reconcileCodCash looks again at what is pending.                   *)
THEOREM RemittancesWithinCash == Spec => []RemittedWithinCash
  <1>1. CashInv => RemittedWithinCash
    BY DEF CashInv, WithinCash, RemittedWithinCash
  <1>. QED
    BY <1>1, AlwaysWithinCash, PTL

-----------------------------------------------------------------------------
(* The rider's wallet holds what is pending of his orders.  His orders are *)
(* the only ones of which anything is collected, so no submission touches  *)
(* the wallet in the name of another.                                      *)

PendingOf == [o \in Orders |-> Pending(o)]

BookInv ==
  /\ wallet.cash = SumFunctionOnSet(PendingOf, RiderOrders)
  /\ \A o \in Orders \ RiderOrders : order[o].collected = 0

LEMMA RidersFinite == IsFiniteSet(RiderOrders) /\ RiderOrders \subseteq Orders
  BY CodAssumption, FS_Subset DEF Orders

LEMMA PendingIsNat ==
  ASSUME TypeInv, CashInv, NEW o \in RiderOrders
  PROVE  Pending(o) \in Nat /\ PendingOf[o] = Pending(o)
  BY OrderFields, RidersFinite DEF CashInv, WithinCash, Pending, PendingOf

(* Steps that neither collect nor remit and leave the wallet alone.        *)
LEMMA BooksKept ==
  ASSUME BookInv, SameCash, wallet'.cash = wallet.cash
  PROVE  BookInv'
  <1>1. PendingOf' = PendingOf
    BY DEF PendingOf, Pending, SameCash
  <1>. QED
    BY <1>1 DEF BookInv, SameCash

(* One order's pending cash and the wallet change by the same amount.      *)
LEMMA BooksMoved ==
  ASSUME TypeInv, CashInv, CashInv', TypeInv', BookInv, NEW o \in RiderOrders,
         \A x \in Orders : x # o => order'[x] = order[x],
         wallet'.cash = wallet.cash + (Pending(o)' - Pending(o))
  PROVE  BookInv'
  <1>1. \A x \in RiderOrders : PendingOf[x] = Pending(x) /\ PendingOf[x] \in Int
    BY PendingIsNat
  <1>2. \A x \in RiderOrders : PendingOf'[x] = Pending(x)' /\ PendingOf'[x] \in Int
    <2>1. \A x \in RiderOrders : Pending(x)' \in Int
      BY OrderFields, RidersFinite DEF TypeInv, TypeOK, OrderRecords, Pending
    <2>. QED
      BY <2>1, RidersFinite DEF PendingOf
  <1>3. \A x \in RiderOrders : x # o => PendingOf'[x] = PendingOf[x]
    BY <1>1, <1>2, RidersFinite DEF Pending
  <1>4. SumFunctionOnSet(PendingOf', RiderOrders)
          = SumFunctionOnSet(PendingOf, RiderOrders) + (PendingOf'[o] - PendingOf[o])
    BY <1>1, <1>2, <1>3, RidersFinite, SumChange
  <1>5. wallet'.cash = SumFunctionOnSet(PendingOf', RiderOrders)
    BY <1>1, <1>2, <1>4 DEF BookInv
  <1>6. \A x \in Orders \ RiderOrders : order'[x].collected = 0
    BY DEF BookInv
  <1>. QED
    BY <1>5, <1>6 DEF BookInv

LEMMA CountBooks ==
  ASSUME TypeInv, CashInv, TypeInv', CashInv', BookInv,
         NEW o \in RiderOrders, NEW net \in Nat, handleCodOrderFinance(o, net)
  PROVE  BookInv'
  <1>1. CASE order[o].counted
    BY <1>1, UnchangedCash, BooksKept DEF handleCodOrderFinance
  <1>2. CASE ~order[o].counted
    <2>1. order' = [order EXCEPT ![o].counted = TRUE, ![o].collected = net]
      BY <1>2 DEF handleCodOrderFinance
    <2>2. o \in Orders /\ order[o].collected = 0 /\ order[o].remitted = 0
      BY <1>2, OrderFields, RidersFinite DEF CashInv, WithinCash
    <2>3. Pending(o) = 0 /\ Pending(o)' = net
      BY <2>1, <2>2, OrderFields DEF OrderRecords, Pending
    <2>4. \A x \in Orders : x # o => order'[x] = order[x]
      BY <2>1, OrderFields
    <2>5. wallet'.cash = wallet.cash + net
      BY <1>2 DEF handleCodOrderFinance, TypeInv, TypeOK
    <2>. QED
      BY <2>3, <2>4, <2>5, BooksMoved
  <1>. QED
    BY <1>1, <1>2

(* The wallet holds at least what is pending of any one order, so what is  *)
(* remitted of it is there to be taken.                                    *)
LEMMA ReconcileBooks ==
  ASSUME TypeInv, CashInv, TypeInv', CashInv', BookInv,
         NEW o \in Orders, NEW amount \in Nat,
         Reconcilable(o, amount), reconcileCodCash(o, amount)
  PROVE  BookInv'
  <1>1. o \in RiderOrders
    <2>1. ASSUME o \notin RiderOrders PROVE FALSE
      <3>1. order[o].collected = 0
        BY <2>1 DEF BookInv
      <3>. QED
        BY <3>1, OrderFields DEF Reconcilable, Pending
    <2>. QED
      BY <2>1
  <1>2. order' = [order EXCEPT ![o].remitted = order[o].remitted + amount]
    BY DEF reconcileCodCash
  <1>3. /\ order'[o].remitted = order[o].remitted + amount
        /\ order'[o].collected = order[o].collected
        /\ \A x \in Orders : x # o => order'[x] = order[x]
    BY <1>2, OrderFields DEF OrderRecords
  <1>4. Pending(o)' - Pending(o) = -amount
    BY <1>3, OrderFields DEF Pending
  <1>5. amount <= wallet.cash
    <2>1. Pending(o) <= SumFunctionOnSet(PendingOf, RiderOrders)
      BY <1>1, PendingIsNat, RidersFinite, SumBounds
    <2>2. wallet.cash \in Nat /\ amount <= Pending(o) /\ Pending(o) \in Int
      BY PendingIsInt DEF Reconcilable, TypeInv, TypeOK
    <2>. QED
      BY <2>1, <2>2 DEF BookInv
  <1>6. wallet'.cash = Clamp(wallet.cash - amount)
    BY DEF reconcileCodCash, TypeInv, TypeOK
  <1>7. wallet'.cash = wallet.cash + (-amount)
    BY <1>5, <1>6 DEF Clamp, TypeInv, TypeOK
  <1>. QED
    BY <1>1, <1>3, <1>4, <1>7, BooksMoved

(* The wallets saved as they were read are the store's and the platform's. *)
LEMMA WriteBooks ==
  ASSUME TypeInv, NEW h \in Handlers, WriteWallet(h)
  PROVE  wallet'.cash = wallet.cash
  <1>1. task[h] \in Tasks /\ TaskRight(task[h]) /\ task[h].kind = "write"
    BY TaskFields DEF WriteWallet, Busy
  <1>2. Head(task[h].todo) \in Changes
    BY <1>1, HeadTailProperties DEF Tasks, TaskRight
  <1>3. Head(task[h].todo).of # "cash"
    BY <1>2 DEF Changes
  <1>. QED
    BY <1>3 DEF WriteWallet, TypeInv, TypeOK

LEMMA WorkBooks ==
  ASSUME TypeInv, CashInv, TypeInv', CashInv', BookInv, NEW h \in Handlers, Work(h)
  PROVE  BookInv'
  <1>1. CASE settleDeliveredOrder(h)
    <2>1. task[h].order \in Orders
      BY <1>1, TaskFields DEF settleDeliveredOrder, Busy, TaskRight
    <2>. QED
      BY <1>1, <2>1, SettledSameCash, BooksKept DEF settleDeliveredOrder
  <1>2. CASE CountCash(h)
    <2>1. task[h].order \in RiderOrders
      BY <1>2, TaskFields DEF CountCash, Busy, TaskRight
    <2>. QED
      BY <1>2, <2>1, CashIsNat, CountBooks DEF CountCash
  <1>3. CASE MarkCharged(h)
    <2>1. task[h].order \in Orders
      BY <1>3, TaskFields DEF MarkCharged, Busy, TaskRight
    <2>2. order' = [order EXCEPT ![task[h].order].counted = TRUE] /\ UNCHANGED wallet
      BY <1>3 DEF MarkCharged
    <2>3. SameCash
      BY <2>1, <2>2, OrderFields DEF SameCash, OrderRecords
    <2>. QED
      BY <2>2, <2>3, BooksKept
  <1>4. ASSUME NEW o \in Orders, ReconcileNext(h, o) PROVE BookInv'
    <2>1. Share(h, o) \in Nat
      BY ShareBounds
    <2>. QED
      BY <1>4, <2>1, ReconcileBooks, UnchangedCash, BooksKept DEF ReconcileNext
  <1>5. CASE WriteWallet(h)
    <2>1. UNCHANGED order
      BY <1>5 DEF WriteWallet
    <2>. QED
      BY <1>5, <2>1, WriteBooks, UnchangedCash, BooksKept
  <1>6. CASE ReadWallet(h) \/ OffsetCommission(h) \/ SavePayment(h)
             \/ Gather(h) \/ RecordSettlement(h)
    BY <1>6, UnchangedCash, BooksKept
       DEF ReadWallet, OffsetCommission, SavePayment, Gather, RecordSettlement
  <1>. QED
    BY <1>1, <1>2, <1>3, <1>4, <1>5, <1>6 DEF Work

LEMMA ServeBooks ==
  ASSUME TypeInv, BookInv, NEW h \in Handlers, Serve(h) \/ Crash(h)
  PROVE  BookInv'
  <1>1. ASSUME NEW o \in Orders, Deliver(h, o) PROVE BookInv'
    <2>1. order' = [order EXCEPT ![o].delivered = TRUE] /\ UNCHANGED wallet
      BY <1>1 DEF Deliver
    <2>2. SameCash
      BY <2>1, OrderFields DEF SameCash, OrderRecords
    <2>. QED
      BY <2>1, <2>2, BooksKept
  <1>2. ASSUME NEW o \in Orders, markOrderDeliveredAndSettle(h, o) PROVE BookInv'
    BY <1>2, SettledSameCash, BooksKept DEF markOrderDeliveredAndSettle
  <1>3. ASSUME UNCHANGED <<order, wallet>> PROVE BookInv'
    BY <1>3, UnchangedCash, BooksKept
  <1>. QED
    BY <1>1, <1>2, <1>3 DEF Serve, Crash, SettleAgain, Webhook, Verify, HandInCash,
       adminReconcileSellerCommission

LEMMA NextBooks ==
  TypeInv /\ CashInv /\ TypeInv' /\ CashInv' /\ BookInv /\ [Next]_vars => BookInv'
  <1> SUFFICES ASSUME TypeInv, CashInv, TypeInv', CashInv', BookInv, [Next]_vars
               PROVE  BookInv'
    OBVIOUS
  <1>1. ASSUME NEW h \in Handlers, Work(h) \/ Serve(h) \/ Crash(h)
        PROVE  BookInv'
    BY <1>1, WorkBooks, ServeBooks
  <1>2. ASSUME NEW o \in RiderOrders, NEW net \in 0 .. Cash[o],
               markCodCollectedAfterDelivery(o, net)
        PROVE  BookInv'
    BY <1>2, CashIsNat, CountBooks DEF markCodCollectedAfterDelivery
  <1>3. ASSUME NEW o \in Orders, NEW amount \in Amounts, reconcileCodCashSubmission(o, amount)
        PROVE  BookInv'
    <2>1. amount \in Nat
      BY CodAssumption DEF Amounts
    <2>. QED
      BY <1>3, <2>1, ReconcileBooks DEF reconcileCodCashSubmission
  <1>4. ASSUME UNCHANGED <<order, wallet>> PROVE BookInv'
    BY <1>4, UnchangedCash, BooksKept
  <1>. QED
    BY <1>1, <1>2, <1>3, <1>4 DEF Next, vars, createCodRemittanceCheckout,
       createSellerCodCommissionCheckout, OpenPayment, Capture

LEMMA InitBooks == Init => BookInv
  <1> SUFFICES ASSUME Init PROVE BookInv
    OBVIOUS
  <1>1. \A o \in RiderOrders : PendingOf[o] = 0
    BY RidersFinite DEF Init, PendingOf, Pending, NewOrder
  <1>2. SumFunctionOnSet(PendingOf, RiderOrders) = 0
    BY <1>1, RidersFinite, SumOfZeros
  <1>. QED
    BY <1>2 DEF Init, BookInv, NewOrder

(* The rider's wallet holds exactly what is pending of the orders that he  *)
(* delivered, whichever handlers overlap or die: handleCodOrderFinance and *)
(* reconcileCodCash change the order and the wallet together, and the      *)
(* wallet is never cut off at zero, because no order is remitted for more  *)
(* than is pending of it.                                                  *)
THEOREM CashIsAccounted == Spec => []CashAccounted
  <1>1. TypeInv /\ CashInv /\ BookInv => CashAccounted
    BY DEF CashInv, WithinCash, BookInv, PendingOf, CashAccounted, RemittedWithinCash
  <1>. QED
    BY <1>1, AlwaysWithinCash, InitBooks, NextBooks, PTL DEF Spec

-----------------------------------------------------------------------------
(* While handlers neither overlap nor die, a payment settles at most what  *)
(* was charged.                                                            *)

OneBusy == \A h, g \in Handlers : task[h] # Idle /\ task[g] # Idle => h = g
OnlyBusy(h) == \A g \in Handlers : g # h => task[g] = Idle

StepRight(h) ==
  LET t == task[h]  p == t.payment IN
  /\ t.kind = "save" =>
       /\ t.done = payment[p].done
       /\ t.event = "captured" => p \in charged
  /\ t.kind = "gather" => p \in charged /\ ~payment[p].done
  /\ t.kind = "apply" =>
       /\ \A o \in Orders : t.found[o] = 0 \/ t.found[o] <= Pending(o)
       /\ p # 0 => /\ p \in charged /\ ~payment[p].done
                   /\ ledger[p] + t.left = payment[p].amount

Quiet(p) == ledger[p] = 0 \/ payment[p].done
Applies(h, p) == task[h].kind = "apply" /\ task[h].payment = p

WithinCharge(p) ==
  /\ ledger[p] <= Charged(p)
  /\ payment[p].status = "CAPTURED" => p \in charged
  /\ p \in charged => payment[p].status # "none"

HandlersRight == OneBusy /\ \A h \in Handlers : StepRight(h)
PaymentsRight ==
  \A p \in Payments : WithinCharge(p) /\ (Quiet(p) \/ \E h \in Handlers : Applies(h, p))

PaidInv == Calm => HandlersRight /\ PaymentsRight

(* What every step below starts from.                                      *)
Undisturbed == TypeInv /\ Calm /\ HandlersRight /\ PaymentsRight

LEMMA PaymentFields ==
  ASSUME TypeInv, NEW p \in Payments
  PROVE  /\ payment \in [Payments -> PaymentRecords] /\ payment[p].amount \in Nat
         /\ payment[p].done \in BOOLEAN
         /\ ledger \in [Payments -> Nat] /\ ledger[p] \in Nat /\ charged \subseteq Payments
  BY DEF TypeInv, TypeOK, PaymentRecords

LEMMA OthersIdle ==
  ASSUME HandlersRight, NEW h \in Handlers, task[h].kind # "idle"
  PROVE  OnlyBusy(h)
  <1>1. task[h] # Idle
    BY DEF Idle
  <1>. QED
    BY <1>1 DEF HandlersRight, OneBusy, OnlyBusy

LEMMA AloneIdle ==
  ASSUME Calm, Alone
  PROVE  \A h \in Handlers : task[h] = Idle
  BY DEF Calm, Alone, Surprise

LEMMA NobodyApplies ==
  ASSUME Undisturbed, NEW h \in Handlers, OnlyBusy(h), task[h].kind # "apply"
  PROVE  \A p \in Payments : WithinCharge(p) /\ Quiet(p)
  <1>1. \A g \in Handlers : task[g].kind # "apply"
    BY DEF OnlyBusy, Idle
  <1>. QED
    BY <1>1 DEF Undisturbed, PaymentsRight, Applies

LEMMA IdleQuiet ==
  ASSUME Undisturbed, Alone
  PROVE  \A p \in Payments : WithinCharge(p) /\ Quiet(p)
  <1>1. \A g \in Handlers : task[g].kind # "apply"
    BY AloneIdle DEF Undisturbed, Idle
  <1>. QED
    BY <1>1 DEF Undisturbed, PaymentsRight, Applies

LEMMA IdleStepRight == ASSUME NEW h \in Handlers, task[h] = Idle PROVE StepRight(h)
  BY DEF StepRight, Idle

(* One handler moves on, the others being idle.                            *)
LEMMA MovesOn ==
  ASSUME TypeInv, NEW h \in Handlers, OnlyBusy(h), NEW t, Continue(h, t), StepRight(h)'
  PROVE  HandlersRight'
  <1>1. \A g \in Handlers : g # h => task'[g] = Idle
    BY DEF Continue, OnlyBusy, TypeInv, TypeOK
  <1>2. ASSUME NEW g \in Handlers, g # h PROVE StepRight(g)'
    <2>1. (task[g] = Idle)'
      BY <1>1, <1>2 DEF Idle
    <2>. QED
      BY <2>1 DEF StepRight, Idle
  <1>3. OneBusy'
    <2>1. Idle' = Idle
      BY DEF Idle
    <2>. QED
      BY <1>1, <2>1 DEF OneBusy
  <1>. QED
    BY <1>2, <1>3 DEF HandlersRight

LEMMA MovesAway ==
  ASSUME TypeInv, NEW h \in Handlers, OnlyBusy(h), Finish(h)
  PROVE  HandlersRight'
  <1>1. task'[h] = Idle
    BY DEF Finish, Continue, TypeInv, TypeOK
  <1>2. StepRight(h)'
    BY <1>1 DEF StepRight, Idle
  <1>3. Continue(h, Idle)
    BY DEF Finish
  <1>. QED
    BY <1>2, <1>3, MovesOn

LEMMA StaysIdle ==
  ASSUME Calm, Alone, UNCHANGED task
  PROVE  HandlersRight'
  <1>1. \A h \in Handlers : task'[h] = Idle
    BY AloneIdle
  <1>2. \A h \in Handlers : StepRight(h)'
    BY <1>1 DEF StepRight, Idle
  <1>3. OneBusy'
    <2>1. Idle' = Idle
      BY DEF Idle
    <2>. QED
      BY <1>1, <2>1 DEF OneBusy
  <1>. QED
    BY <1>2, <1>3 DEF HandlersRight

LEMMA Starts ==
  ASSUME Calm, NEW h \in Handlers, NEW t, Start(h, t)
  PROVE  Alone /\ OnlyBusy(h) /\ Continue(h, t) /\ task[h] = Idle
  BY AloneIdle DEF Start, OnlyBusy, Continue

(* Payments nobody applies are not disturbed by steps elsewhere.           *)
LEMMA PaymentsKept ==
  ASSUME \A p \in Payments : WithinCharge(p) /\ Quiet(p), UNCHANGED <<payment, charged, ledger>>
  PROVE  PaymentsRight'
  BY DEF PaymentsRight, WithinCharge, Quiet, Charged

LEMMA Concludes == ASSUME HandlersRight', PaymentsRight' PROVE PaidInv'
  BY DEF PaidInv

(* Kinds of steps of which nothing need be known.                          *)
Plain(t) == t.kind \notin {"save", "gather", "apply"}

LEMMA MovesOnPlainly ==
  ASSUME TypeInv, NEW h \in Handlers, OnlyBusy(h), NEW t, Continue(h, t), Plain(t)
  PROVE  HandlersRight'
  <1>1. task'[h] = t
    BY DEF Continue, TypeInv, TypeOK
  <1>2. StepRight(h)'
    BY <1>1 DEF StepRight, Plain
  <1>. QED
    BY <1>2, MovesOn

(* Delivery and collection.                                                *)
LEMMA DeliveryPaid ==
  ASSUME Undisturbed, NEW h \in Handlers, NEW o \in Orders,
         Deliver(h, o) \/ SettleAgain(h, o) \/ markOrderDeliveredAndSettle(h, o)
  PROVE  PaidInv'
  <1> USE DEF Undisturbed
  <1> DEFINE s == [Idle EXCEPT !.kind = "settle", !.order = o]
             c == [Idle EXCEPT !.kind = "count", !.order = o]
  <1>1. UNCHANGED <<payment, charged, ledger>>
    BY DEF Deliver, SettleAgain, markOrderDeliveredAndSettle
  <1>2. Plain(s) /\ Plain(c)
    BY DEF Plain, Idle
  <1>3. Start(h, s) \/ Start(h, c) \/ (Alone /\ UNCHANGED task)
    BY DEF Deliver, SettleAgain, markOrderDeliveredAndSettle
  <1>4. Alone
    BY <1>3 DEF Start
  <1>5. HandlersRight'
    <2> HIDE DEF s, c
    <2>. QED
      BY <1>2, <1>3, Starts, MovesOnPlainly, StaysIdle
  <1>. QED
    BY <1>1, <1>4, <1>5, IdleQuiet, PaymentsKept, Concludes

LEMMA SettlingPaid ==
  ASSUME Undisturbed, NEW h \in Handlers,
         settleDeliveredOrder(h) \/ CountCash(h) \/ MarkCharged(h) \/ OffsetCommission(h)
  PROVE  PaidInv'
  <1> USE DEF Undisturbed
  <1>1. task[h].kind \in {"settle", "count", "mark", "offset"}
    BY DEF settleDeliveredOrder, CountCash, MarkCharged, OffsetCommission, Busy
  <1>2. OnlyBusy(h)
    BY <1>1, OthersIdle
  <1>3. UNCHANGED <<payment, charged, ledger>>
    BY DEF settleDeliveredOrder, CountCash, MarkCharged, OffsetCommission
  <1>4. task[h] \in Tasks
    BY TaskFields
  <1>5. \E t : Plain(t) /\ Continue(h, t)
    <2>1. CASE Finish(h)
      BY <2>1 DEF Finish, Plain, Idle
    <2>2. CASE Continue(h, [task[h] EXCEPT !.kind = "count"])
      BY <2>2, <1>4 DEF Plain, Tasks
    <2>3. CASE Continue(h, [task[h] EXCEPT !.kind = "read", !.then = "offset",
                          !.todo = <<[of |-> "due", change |-> Commission]>>])
      BY <2>3, <1>4 DEF Plain, Tasks
    <2>4. CASE OffsetCommission(h)
      <3> DEFINE offset == AtMost(wallet.available, Commission)
                 kind == IF offset = 0 THEN "mark" ELSE "read"
                 todo == IF offset = 0 THEN <<>>
                         ELSE << [of |-> "available", change |-> -offset],
                                 [of |-> "due", change |-> -offset],
                                 [of |-> "admin", change |-> offset] >>
                 t == [task[h] EXCEPT !.then = "mark", !.kind = kind, !.todo = todo]
      <3>1. Continue(h, t)
        BY <2>4 DEF OffsetCommission
      <3>2. kind \in {"mark", "read"}
        OBVIOUS
      <3> HIDE DEF kind, todo
      <3>3. Plain(t)
        BY <1>4, <3>2 DEF Plain, Tasks
      <3>. QED
        BY <3>1, <3>3
    <2>. QED
      BY <2>1, <2>2, <2>3, <2>4 DEF settleDeliveredOrder, CountCash, MarkCharged
  <1>6. HandlersRight'
    BY <1>2, <1>5, MovesOnPlainly
  <1>. QED
    BY <1>1, <1>2, <1>3, <1>6, NobodyApplies, PaymentsKept, Concludes

LEMMA IdleStepsPaid ==
  ASSUME Undisturbed, Alone, UNCHANGED <<task, payment, charged, ledger>>
  PROVE  PaidInv'
  BY IdleQuiet, StaysIdle, PaymentsKept, Concludes DEF Undisturbed

(* Wallets.                                                                *)
LEMMA ReadPaid ==
  ASSUME Undisturbed, NEW h \in Handlers, ReadWallet(h)
  PROVE  PaidInv'
  <1> USE DEF Undisturbed
  <1> DEFINE n == wallet[Head(task[h].todo).of]
             t == [task[h] EXCEPT !.kind = "write", !.seen = n]
  <1>1. task[h].kind = "read" /\ OnlyBusy(h) /\ task[h] \in Tasks
    BY OthersIdle, TaskFields DEF ReadWallet, Busy
  <1>2. Continue(h, t) /\ UNCHANGED <<payment, charged, ledger>>
    BY DEF ReadWallet
  <1> HIDE DEF n
  <1>3. Plain(t)
    BY <1>1 DEF Plain, Tasks
  <1> HIDE DEF t
  <1>. QED
    BY <1>1, <1>2, <1>3, MovesOnPlainly, NobodyApplies, PaymentsKept, Concludes

LEMMA WritePaid ==
  ASSUME Undisturbed, NEW h \in Handlers, WriteWallet(h)
  PROVE  PaidInv'
  <1> USE DEF Undisturbed
  <1> DEFINE rest == Tail(task[h].todo)
             kind == IF rest = <<>> THEN task[h].then ELSE "read"
             t == [task[h] EXCEPT !.todo = rest, !.seen = 0, !.kind = kind]
  <1>1. task[h].kind = "write" /\ OnlyBusy(h)
    BY OthersIdle DEF WriteWallet, Busy
  <1>2. task[h] \in Tasks /\ task[h].then \in {"offset", "mark", "idle"}
    BY <1>1, TaskFields DEF TaskRight
  <1>3. (Finish(h) \/ Continue(h, t)) /\ UNCHANGED <<payment, charged, ledger>>
    BY DEF WriteWallet
  <1>4. kind \in {task[h].then, "read"}
    OBVIOUS
  <1> HIDE DEF rest, kind
  <1>5. Plain(t)
    BY <1>2, <1>4 DEF Plain, Tasks
  <1>6. HandlersRight'
    <2> HIDE DEF t
    <2>. QED
      BY <1>1, <1>3, <1>5, MovesOnPlainly, MovesAway
  <1>. QED
    BY <1>1, <1>3, <1>6, NobodyApplies, PaymentsKept, Concludes

(* Payments at the gateway.                                                *)
LEMMA OpenPaid ==
  ASSUME Undisturbed, NEW amount \in Amounts,
         createCodRemittanceCheckout(amount) \/ createSellerCodCommissionCheckout(amount)
  PROVE  PaidInv'
  <1> USE DEF Undisturbed
  <1>1. PICK by \in {"rider", "store"} : OpenPayment(by, amount)
    BY DEF createCodRemittanceCheckout, createSellerCodCommissionCheckout
  <1>2. Alone /\ UNCHANGED <<task, charged, ledger>>
    BY <1>1 DEF createCodRemittanceCheckout, createSellerCodCommissionCheckout, OpenPayment
  <1> DEFINE new == [NoPayment EXCEPT !.by = by, !.status = "PENDING", !.amount = amount]
  <1>3. PICK p \in Payments \ Opened : payment' = [payment EXCEPT ![p] = new]
    BY <1>1 DEF OpenPayment
  <1>4. new.status = "PENDING" /\ new.amount = amount /\ amount \in Nat
    BY CodAssumption DEF NoPayment, Amounts
  <1> HIDE DEF new
  <1>5. \A q \in Payments : WithinCharge(q) /\ Quiet(q)
    BY <1>2, IdleQuiet
  <1>6. payment[p].status = "none" /\ p \notin charged /\ ledger[p] = 0
    BY <1>3, <1>5, PaymentFields DEF Opened, WithinCharge, Charged
  <1>7. payment'[p] = new /\ \A q \in Payments : q # p => payment'[q] = payment[q]
    BY <1>3 DEF TypeInv, TypeOK
  <1>8. PaymentsRight'
    BY <1>2, <1>4, <1>5, <1>6, <1>7 DEF PaymentsRight, WithinCharge, Quiet, Charged
  <1>. QED
    BY <1>2, <1>8, StaysIdle, Concludes

LEMMA NothingMovesPaid ==
  ASSUME Undisturbed, UNCHANGED <<task, payment, ledger, order>>,
         charged \subseteq charged', \A p \in charged' \ charged : payment[p].status # "none"
  PROVE  PaidInv'
  <1> USE DEF Undisturbed
  <1>1. HandlersRight'
    <2>1. OneBusy'
      BY DEF HandlersRight, OneBusy, Idle
    <2>2. \A h \in Handlers : StepRight(h)'
      BY DEF HandlersRight, StepRight, Pending
    <2>. QED
      BY <2>1, <2>2 DEF HandlersRight
  <1>2. \A p \in Payments : ledger[p] \in Nat /\ payment[p].amount \in Nat
    BY PaymentFields
  <1>3. PaymentsRight'
    BY <1>2 DEF PaymentsRight, WithinCharge, Quiet, Charged, Applies
  <1>. QED
    BY <1>1, <1>3, Concludes

LEMMA HandlingRight ==
  ASSUME Undisturbed, NEW h \in Handlers, NEW p \in Payments, NEW event \in Events,
         event = "captured" => p \in charged, Start(h, Handling(p, event)),
         UNCHANGED <<payment, charged, ledger>>
  PROVE  PaidInv'
  <1> USE DEF Undisturbed
  <1> DEFINE t == Handling(p, event)
  <1>1. /\ t.kind = "save" /\ t.payment = p /\ t.event = event
        /\ t.done = payment[p].done
    BY DEF Handling, Idle
  <1> HIDE DEF t
  <1>2. Start(h, t)
    BY DEF t
  <1>3. task'[h] = t
    BY <1>2, Starts DEF Continue, TypeInv, TypeOK
  <1>4. StepRight(h)'
    BY <1>1, <1>3 DEF StepRight
  <1>5. Alone /\ OnlyBusy(h) /\ Continue(h, t)
    BY <1>2, Starts
  <1>6. HandlersRight'
    BY <1>4, <1>5, MovesOn
  <1>. QED
    BY <1>5, <1>6, IdleQuiet, PaymentsKept, Concludes

LEMMA WebhookPaid ==
  ASSUME Undisturbed, NEW h \in Handlers, NEW p \in Payments, NEW event \in Events,
         Webhook(h, p, event)
  PROVE  PaidInv'
  <1>1. event = "captured" => p \in charged
    BY DEF Webhook
  <1>2. UNCHANGED <<payment, charged, ledger, order>>
    BY DEF Webhook
  <1>3. CASE payment[p].by = "rider"
    <2>1. Start(h, Handling(p, event))
      BY <1>3 DEF Webhook
    <2>. QED
      BY <1>1, <1>2, <2>1, HandlingRight
  <1>4. CASE payment[p].by # "rider"
    <2>1. UNCHANGED task
      BY <1>4 DEF Webhook
    <2>. QED
      BY <1>2, <2>1, NothingMovesPaid
  <1>. QED
    BY <1>3, <1>4

LEMMA VerifyPaid ==
  ASSUME Undisturbed, NEW h \in Handlers, NEW p \in Payments, NEW event \in Events,
         Verify(h, p, event)
  PROVE  PaidInv'
  <1> USE DEF Undisturbed
  <1>1. event = "captured" => p \in charged
    BY DEF Verify
  <1>2. UNCHANGED <<payment, charged, ledger, order>>
    BY DEF Verify
  <1>3. CASE payment[p].status # "CAPTURED"
    <2>1. Start(h, Handling(p, event))
      BY <1>3 DEF Verify
    <2>. QED
      BY <1>1, <1>2, <2>1, HandlingRight
  <1>4. CASE payment[p].status = "CAPTURED"
    <2> DEFINE t == [Handling(p, "captured") EXCEPT !.kind = "gather"]
    <2>1. Start(h, t) /\ payment[p].by = "rider" /\ ~payment[p].done
      BY <1>4 DEF Verify
    <2>2. t.kind = "gather" /\ t.payment = p
      BY DEF Handling, Idle
    <2> HIDE DEF t
    <2>3. Alone /\ OnlyBusy(h) /\ Continue(h, t)
      BY <2>1, Starts
    <2>4. task'[h] = t
      BY <2>3 DEF Continue, TypeInv, TypeOK
    <2>5. p \in charged
      BY <1>4 DEF PaymentsRight, WithinCharge
    <2>6. StepRight(h)'
      BY <1>2, <2>1, <2>2, <2>4, <2>5 DEF StepRight
    <2>7. HandlersRight'
      BY <2>3, <2>6, MovesOn
    <2>. QED
      BY <1>2, <2>3, <2>7, IdleQuiet, PaymentsKept, Concludes
  <1>. QED
    BY <1>3, <1>4

LEMMA SavePaid ==
  ASSUME Undisturbed, NEW h \in Handlers, SavePayment(h)
  PROVE  PaidInv'
  <1> USE DEF Undisturbed
  <1> DEFINE p == task[h].payment
             to == StatusOf(task[h].event)
             ops == << [of |-> "due", change |-> -payment[p].amount],
                       [of |-> "admin", change |-> payment[p].amount] >>
             g == [task[h] EXCEPT !.kind = "gather"]
             r == [task[h] EXCEPT !.kind = "read", !.then = "idle", !.todo = ops]
  <1>1. task[h].kind = "save" /\ OnlyBusy(h)
    BY OthersIdle DEF SavePayment, Busy
  <1>2. task[h] \in Tasks /\ p \in Payments /\ StepRight(h)
    BY <1>1, TaskFields DEF TaskRight, HandlersRight
  <1>3. \A q \in Payments : WithinCharge(q) /\ Quiet(q)
    BY <1>1, NobodyApplies
  <1>4. UNCHANGED <<charged, ledger>>
    BY DEF SavePayment
  <1>5. to = "CAPTURED" => p \in charged
    BY <1>1, <1>2 DEF StepRight, StatusOf
  <1>6. to \in {"CAPTURED", "FAILED"}
    BY DEF StatusOf
  <1>7. payment' = payment \/ payment' = [payment EXCEPT ![p].status = to]
    BY DEF SavePayment
  <1>8. /\ payment'[p].by = payment[p].by /\ payment'[p].done = payment[p].done
        /\ payment'[p].amount = payment[p].amount
        /\ payment'[p].status \in {to, payment[p].status}
        /\ \A q \in Payments : q # p => payment'[q] = payment[q]
    BY <1>2, <1>7, PaymentFields DEF PaymentRecords
  <1>9. PaymentsRight'
    BY <1>3, <1>4, <1>5, <1>6, <1>8 DEF PaymentsRight, WithinCharge, Quiet, Charged
  <1>10. CASE Finish(h)
    BY <1>1, <1>9, <1>10, MovesAway, Concludes
  <1>11. CASE to = "CAPTURED" /\ ~task[h].done /\ Continue(h, g)
    <2>1. task'[h].kind = "gather" /\ task'[h].payment = p
      BY <1>2, <1>11 DEF Continue, TypeInv, TypeOK, Tasks
    <2>2. ~payment'[p].done
      BY <1>1, <1>2, <1>8, <1>11 DEF StepRight
    <2>3. StepRight(h)'
      BY <1>4, <1>5, <1>11, <2>1, <2>2 DEF StepRight
    <2> HIDE DEF g
    <2>. QED
      BY <1>1, <1>9, <1>11, <2>3, MovesOn, Concludes
  <1>12. CASE Continue(h, r)
    <2> HIDE DEF ops
    <2>1. Plain(r)
      BY <1>2 DEF Plain, Tasks
    <2> HIDE DEF r
    <2>. QED
      BY <1>1, <1>9, <1>12, <2>1, MovesOnPlainly, Concludes
  <1>. QED
    BY <1>10, <1>11, <1>12 DEF SavePayment

(* Amounts spread over the rider's orders.                                 *)
LEMMA OwedWithinPending ==
  ASSUME TypeInv, NEW o \in Orders
  PROVE  Owed[o] = 0 \/ Owed[o] <= Pending(o)
  <1>1. CASE o \in Collected
    <2>1. Owed[o] = Pending(o)
      BY <1>1 DEF Owed
    <2>2. o \in RiderOrders /\ Pending(o) > 0
      BY <1>1 DEF Collected
    <2>. QED
      BY <2>1, <2>2, PendingIsInt
  <1>2. CASE o \notin Collected
    BY <1>2 DEF Owed
  <1>. QED
    BY <1>1, <1>2

LEMMA GatherPaid ==
  ASSUME Undisturbed, NEW h \in Handlers, Gather(h)
  PROVE  PaidInv'
  <1> USE DEF Undisturbed
  <1> DEFINE p == task[h].payment
             a == [task[h] EXCEPT !.kind = "apply", !.found = Owed, !.left = payment[p].amount]
  <1>1. task[h].kind = "gather" /\ OnlyBusy(h)
    BY OthersIdle DEF Gather, Busy
  <1>2. task[h] \in Tasks /\ p \in Payments /\ StepRight(h)
    BY <1>1, TaskFields DEF TaskRight, HandlersRight
  <1>3. \A q \in Payments : WithinCharge(q) /\ Quiet(q)
    BY <1>1, NobodyApplies
  <1>4. UNCHANGED <<payment, charged, ledger, order>>
    BY DEF Gather
  <1>5. PaymentsRight'
    BY <1>3, <1>4, PaymentsKept
  <1>6. p \in charged /\ ~payment[p].done
    BY <1>1, <1>2 DEF StepRight
  <1>7. ledger[p] = 0 /\ payment[p].amount \in Nat
    BY <1>2, <1>3, <1>6, PaymentFields DEF Quiet
  <1>8. Continue(h, a)
    BY DEF Gather
  <1>9. /\ task'[h].kind = "apply" /\ task'[h].payment = p
        /\ task'[h].found = Owed /\ task'[h].left = payment[p].amount
    BY <1>2, <1>8 DEF Continue, TypeInv, TypeOK, Tasks
  <1>10. \A o \in Orders : Owed[o] = 0 \/ Owed[o] <= Pending(o)'
    BY <1>4, OwedWithinPending DEF Pending
  <1>11. StepRight(h)'
    <2> HIDE DEF p
    <2>. QED
      BY <1>4, <1>6, <1>7, <1>9, <1>10 DEF StepRight, p
  <1> HIDE DEF a
  <1>. QED
    BY <1>1, <1>5, <1>8, <1>11, MovesOn, Concludes

(* What was read is still pending, so no share is refused.                 *)
LEMMA ReconcileNextPaid ==
  ASSUME Undisturbed, NEW h \in Handlers, NEW o \in Orders, ReconcileNext(h, o)
  PROVE  PaidInv'
  <1> USE DEF Undisturbed
  <1> DEFINE p == task[h].payment
             amount == Share(h, o)
             left == task[h].left - amount
             found == [task[h].found EXCEPT ![o] = 0]
  <1>1. task[h].kind = "apply" /\ OnlyBusy(h) /\ Oldest(h, o)
    BY OthersIdle DEF ReconcileNext, Busy
  <1>2. /\ task[h] \in Tasks /\ p \in Payments \cup {0} /\ StepRight(h)
        /\ task[h].found \in [Orders -> Nat] /\ task[h].left \in Nat
    BY TaskFields DEF Tasks, HandlersRight
  <1>3. amount \in Nat /\ amount <= task[h].found[o] /\ amount <= task[h].left
    BY ShareBounds
  <1>4. task[h].found[o] > 0 /\ task[h].left > 0
    BY <1>1, <1>2 DEF Oldest, Listed
  <1>5. amount > 0
    BY <1>2, <1>4 DEF Share, AtMost
  <1>6. Reconcilable(o, amount)
    <2>1. task[h].found[o] <= Pending(o)
      BY <1>1, <1>2, <1>4 DEF StepRight
    <2>. QED
      BY <1>2, <1>3, <1>5, <2>1, PendingIsInt DEF Reconcilable
  <1>7. /\ reconcileCodCash(o, amount) /\ Continue(h, Less(h, o))
        /\ ledger' = IF p = 0 THEN ledger ELSE [ledger EXCEPT ![p] = ledger[p] + amount]
        /\ UNCHANGED <<payment, charged>>
    BY <1>6 DEF ReconcileNext
  <1>8. /\ task'[h].kind = "apply" /\ task'[h].payment = p
        /\ task'[h].found = found /\ task'[h].left = left
    BY <1>1, <1>2, <1>7 DEF Less, Continue, TypeInv, TypeOK, Tasks
  <1>9. \A x \in Orders : found[x] = 0 \/ found[x] <= Pending(x)'
    <2>1. ASSUME NEW x \in Orders, x # o PROVE Pending(x)' = Pending(x) /\ found[x] = task[h].found[x]
      BY <1>2, <1>7, <2>1, OrderFields DEF reconcileCodCash, Pending
    <2>2. found[o] = 0
      BY <1>2
    <2>. QED
      BY <1>1, <1>2, <2>1, <2>2 DEF StepRight
  <1>10. p # 0 => /\ p \in Payments /\ p \in charged /\ ~payment[p].done
                  /\ ledger[p] + task[h].left = payment[p].amount
    BY <1>1, <1>2 DEF StepRight
  <1>11. p # 0 => ledger'[p] = ledger[p] + amount /\ ledger'[p] + left = payment[p].amount
    BY <1>2, <1>3, <1>7, <1>10, PaymentFields
  <1>12. StepRight(h)'
    <2> HIDE DEF p, amount, left, found
    <2>. QED
      BY <1>7, <1>8, <1>9, <1>10, <1>11 DEF StepRight
  <1>13. HandlersRight'
    BY <1>1, <1>7, <1>12, MovesOn
  <1>14. ASSUME NEW q \in Payments
         PROVE  WithinCharge(q)' /\ (Quiet(q)' \/ \E g \in Handlers : Applies(g, q)')
    <2>1. CASE q = p
      <3>1. p # 0 /\ ledger'[p] <= payment[p].amount /\ p \in charged
        BY <1>2, <1>3, <1>10, <1>11, <2>1, PaymentFields DEF Payments
      <3>2. payment[p].status # "none"
        BY <2>1, <3>1 DEF PaymentsRight, WithinCharge
      <3>. QED
        BY <1>7, <1>8, <2>1, <3>1, <3>2 DEF WithinCharge, Charged, Applies, PaymentsRight
    <2>2. CASE q # p
      <3>1. ledger'[q] = ledger[q]
        BY <1>7, <2>2, PaymentFields
      <3>2. WithinCharge(q) /\ (Quiet(q) \/ \E g \in Handlers : Applies(g, q))
        BY DEF PaymentsRight
      <3>3. ~ \E g \in Handlers : Applies(g, q)
        BY <1>1, <2>2 DEF OnlyBusy, Applies, Idle
      <3>. QED
        BY <1>7, <3>1, <3>2, <3>3 DEF WithinCharge, Quiet, Charged
    <2>. QED
      BY <2>1, <2>2
  <1>15. PaymentsRight'
    BY <1>14 DEF PaymentsRight
  <1>. QED
    BY <1>13, <1>15, Concludes

LEMMA RecordPaid ==
  ASSUME Undisturbed, NEW h \in Handlers, RecordSettlement(h)
  PROVE  PaidInv'
  <1> USE DEF Undisturbed
  <1> DEFINE p == task[h].payment
  <1>1. task[h].kind = "apply" /\ OnlyBusy(h) /\ Finish(h)
    BY OthersIdle DEF RecordSettlement, Busy
  <1>2. task[h] \in Tasks /\ p \in Payments \cup {0}
    BY TaskFields DEF Tasks
  <1>3. UNCHANGED <<charged, ledger>>
    BY DEF RecordSettlement
  <1>4. payment' = IF p = 0 THEN payment ELSE [payment EXCEPT ![p].done = TRUE]
    BY DEF RecordSettlement
  <1>5. ASSUME NEW q \in Payments PROVE WithinCharge(q)' /\ Quiet(q)'
    <2>1. WithinCharge(q) /\ (Quiet(q) \/ \E g \in Handlers : Applies(g, q))
      BY DEF PaymentsRight
    <2>2. ASSUME NEW g \in Handlers, Applies(g, q) PROVE g = h /\ q = p
      BY <1>1, <2>2 DEF OnlyBusy, Applies, Idle
    <2>3. CASE q = p
      <3>1. p # 0
        BY <2>3 DEF Payments
      <3>2. /\ payment'[q].done /\ payment'[q].status = payment[q].status
            /\ payment'[q].amount = payment[q].amount
        BY <1>4, <2>3, <3>1, PaymentFields DEF PaymentRecords
      <3>. QED
        BY <1>3, <2>1, <3>2 DEF WithinCharge, Charged, Quiet
    <2>4. CASE q # p
      <3>1. payment'[q] = payment[q]
        BY <1>4, <2>4, PaymentFields
      <3>. QED
        BY <1>3, <2>1, <2>2, <2>4, <3>1 DEF WithinCharge, Charged, Quiet
    <2>. QED
      BY <2>3, <2>4
  <1>6. PaymentsRight'
    BY <1>5 DEF PaymentsRight
  <1>. QED
    BY <1>1, <1>6, MovesAway, Concludes

(* Cash handed in at the desk.                                             *)
LEMMA HandInPaid ==
  ASSUME Undisturbed, NEW h \in Handlers, NEW amount \in Amounts, NEW byDesk \in BOOLEAN,
         HandInCash(h, amount, byDesk)
  PROVE  PaidInv'
  <1> USE DEF Undisturbed
  <1> DEFINE t == [Idle EXCEPT !.kind = "apply", !.found = Owed, !.left = amount]
  <1>1. Start(h, t) /\ UNCHANGED <<payment, charged, ledger, order>>
    BY DEF HandInCash
  <1>2. t.kind = "apply" /\ t.payment = 0 /\ t.found = Owed
    BY DEF Idle
  <1> HIDE DEF t
  <1>3. Alone /\ OnlyBusy(h) /\ Continue(h, t)
    BY <1>1, Starts
  <1>4. task'[h] = t
    BY <1>3 DEF Continue, TypeInv, TypeOK
  <1>5. \A o \in Orders : Owed[o] = 0 \/ Owed[o] <= Pending(o)'
    BY <1>1, OwedWithinPending DEF Pending
  <1>6. StepRight(h)'
    BY <1>2, <1>4, <1>5 DEF StepRight
  <1>. QED
    BY <1>1, <1>3, <1>6, MovesOn, IdleQuiet, PaymentsKept, Concludes

LEMMA DeskPaid ==
  ASSUME Undisturbed, NEW h \in Handlers, NEW amount \in Amounts,
         adminReconcileSellerCommission(h, amount)
  PROVE  PaidInv'
  <1> USE DEF Undisturbed
  <1> DEFINE ops == << [of |-> "due", change |-> -amount], [of |-> "admin", change |-> amount] >>
             t == [Idle EXCEPT !.kind = "read", !.todo = ops]
  <1>1. Start(h, t) /\ UNCHANGED <<payment, charged, ledger>>
    BY DEF adminReconcileSellerCommission
  <1>2. Plain(t)
    BY DEF Plain, Idle
  <1> HIDE DEF t
  <1>3. Alone /\ OnlyBusy(h) /\ Continue(h, t)
    BY <1>1, Starts
  <1>. QED
    BY <1>1, <1>2, <1>3, MovesOnPlainly, IdleQuiet, PaymentsKept, Concludes

LEMMA HandlerPaid ==
  ASSUME Undisturbed, NEW h \in Handlers, Work(h) \/ Serve(h) \/ Crash(h)
  PROVE  PaidInv'
  <1>1. ~Crash(h)
    BY DEF Undisturbed, Calm, Crash, Surprise
  <1>2. CASE Work(h)
    BY <1>2, SettlingPaid, ReadPaid, WritePaid, SavePaid, GatherPaid, RecordPaid,
       ReconcileNextPaid DEF Work
  <1>3. CASE Serve(h)
    BY <1>3, DeliveryPaid, WebhookPaid, VerifyPaid, HandInPaid, DeskPaid DEF Serve
  <1>. QED
    BY <1>1, <1>2, <1>3

LEMMA SettingKept == ASSUME [Next]_vars PROVE UNCHANGED setting
  <1>1. ASSUME NEW h \in Handlers, Work(h) PROVE UNCHANGED setting
    BY <1>1 DEF Work, settleDeliveredOrder, CountCash, MarkCharged, ReadWallet, WriteWallet,
       OffsetCommission, SavePayment, Gather, RecordSettlement, ReconcileNext
  <1>2. ASSUME NEW h \in Handlers, Serve(h) \/ Crash(h) PROVE UNCHANGED setting
    BY <1>2 DEF Serve, Crash, Deliver, SettleAgain, markOrderDeliveredAndSettle, Webhook,
       Verify, HandInCash, adminReconcileSellerCommission
  <1>. QED
    BY <1>1, <1>2 DEF Next, vars, markCodCollectedAfterDelivery, reconcileCodCashSubmission,
       createCodRemittanceCheckout, createSellerCodCommissionCheckout, OpenPayment, Capture

LEMMA NextPaid == TypeInv /\ PaidInv /\ [Next]_vars => PaidInv'
  <1> SUFFICES ASSUME TypeInv, PaidInv, [Next]_vars PROVE PaidInv'
    OBVIOUS
  <1>1. CASE ~Calm
    BY <1>1, SettingKept DEF Calm, PaidInv
  <1>2. CASE Calm
    <2>1. Undisturbed
      BY <1>2 DEF Undisturbed, PaidInv
    <2>2. ASSUME NEW h \in Handlers, Work(h) \/ Serve(h) \/ Crash(h)
          PROVE  PaidInv'
      BY <2>1, <2>2, HandlerPaid
    <2>3. ASSUME NEW o \in RiderOrders, NEW net \in 0 .. Cash[o],
                 markCodCollectedAfterDelivery(o, net)
          PROVE  PaidInv'
      BY <2>1, <2>3, IdleStepsPaid DEF markCodCollectedAfterDelivery
    <2>4. ASSUME NEW o \in Orders, NEW amount \in Amounts, reconcileCodCashSubmission(o, amount)
          PROVE  PaidInv'
      BY <2>1, <2>4, IdleStepsPaid DEF reconcileCodCashSubmission
    <2>5. ASSUME NEW amount \in Amounts,
                 createCodRemittanceCheckout(amount) \/ createSellerCodCommissionCheckout(amount)
          PROVE  PaidInv'
      BY <2>1, <2>5, OpenPaid
    <2>6. ASSUME NEW p \in Payments, Capture(p)
          PROVE  PaidInv'
      BY <2>1, <2>6, NothingMovesPaid DEF Capture, Opened
    <2>7. CASE UNCHANGED vars
      BY <2>1, <2>7, NothingMovesPaid DEF vars
    <2>. QED
      BY <2>2, <2>3, <2>4, <2>5, <2>6, <2>7 DEF Next
  <1>. QED
    BY <1>1, <1>2

LEMMA InitPaid == Init => PaidInv
  <1> SUFFICES ASSUME Init PROVE PaidInv
    OBVIOUS
  <1>1. \A h \in Handlers : task[h] = Idle
    BY DEF Init
  <1>2. HandlersRight
    BY <1>1, IdleStepRight DEF HandlersRight, OneBusy
  <1>3. PaymentsRight
    BY DEF Init, PaymentsRight, WithinCharge, Quiet, Charged, NoPayment
  <1>. QED
    BY <1>2, <1>3 DEF PaidInv

(* A rider's payment settles no more than was charged, however often the   *)
(* rider verifies it and the gateway reports it, as long as handlers       *)
(* neither overlap nor die: the handler reads whether the payment was      *)
(* settled, and nothing it spreads is refused halfway.                     *)
THEOREM PaidIsRemittedOnce == Spec => []RemitsWhatWasPaid
  <1>1. PaidInv => RemitsWhatWasPaid
    BY DEF PaidInv, PaymentsRight, WithinCharge, RemitsWhatWasPaid
  <1>. QED
    BY <1>1, InitTyped, NextTyped, InitPaid, NextPaid, PTL DEF Spec

-----------------------------------------------------------------------------
(* While handlers neither overlap nor die, the accounts of the store and   *)
(* the platform agree.  Between handlers they do by CommissionAccounted;   *)
(* within one they are out by the changes it has still to make: charge,    *)
(* a commission due that its order does not show yet; off, taken from the  *)
(* balance and not yet from what is due; pay, paid and not yet taken from  *)
(* what is due; gain, what the platform has still to get.                  *)

Remitted == SumFunctionOnSet([o \in Orders |-> order[o].remitted], RiderOrders)
Lost == Balance - wallet.available
Paid == SumFunctionOnSet([p \in Payments |-> payment[p].amount], PaidByStore) + handed
Marked == Commission * Cardinality({o \in StoreOrders : order[o].counted})

Balanced(charge, off, pay, gain) ==
  /\ wallet.admin + gain = Remitted + Lost + Paid
  /\ wallet.due + Lost - off <= Marked + charge
  /\ Marked + charge <= wallet.due + Lost - off + Paid - pay

Due(n) == [of |-> "due", change |-> n]
Available(n) == [of |-> "available", change |-> n]
Admin(n) == [of |-> "admin", change |-> n]

Uncounted(h) == task[h].order \in StoreOrders /\ ~order[task[h].order].counted

(* The three sequences of changes a handler may be in the middle of.       *)
ChargesDue(h) ==
  /\ task[h].then = "offset" /\ task[h].todo = <<Due(Commission)>>
  /\ Uncounted(h) /\ Balanced(0, 0, 0, 0)

SetsOff(h) ==
  /\ task[h].then = "mark" /\ Uncounted(h)
  /\ \E x \in 0 .. Commission :
       \/ /\ task[h].todo = <<Available(-x), Due(-x), Admin(x)>>
          /\ x <= wallet.available /\ x <= wallet.due /\ Balanced(Commission, 0, 0, 0)
       \/ /\ task[h].todo = <<Due(-x), Admin(x)>>
          /\ x <= wallet.due /\ Balanced(Commission, x, 0, x)
       \/ task[h].todo = <<Admin(x)>> /\ Balanced(Commission, 0, 0, x)

Pays(h) ==
  /\ task[h].then = "idle"
  /\ \E a \in Nat :
       \/ task[h].todo = <<Due(-a), Admin(a)>> /\ Balanced(0, 0, a, a)
       \/ task[h].todo = <<Admin(a)>> /\ Balanced(0, 0, 0, a)

OfRider(p) == p \in Payments => payment[p].by = "rider"

Stage(h) ==
  \/ task[h].kind \in {"settle", "count"} /\ Balanced(0, 0, 0, 0)
  \/ /\ task[h].kind \in {"gather", "apply"} /\ OfRider(task[h].payment)
     /\ Balanced(0, 0, 0, 0)
  \/ /\ task[h].kind = "save" /\ Balanced(0, 0, 0, 0)
     /\ \/ OfRider(task[h].payment)
        \/ payment[task[h].payment].status # "CAPTURED" /\ ~task[h].done
  \/ /\ task[h].kind \in {"read", "write"} /\ (ChargesDue(h) \/ SetsOff(h) \/ Pays(h))
     /\ task[h].kind = "write" => task[h].seen = wallet[Head(task[h].todo).of]
  \/ /\ task[h].kind = "offset" /\ Uncounted(h) /\ Commission <= wallet.due
     /\ Balanced(Commission, 0, 0, 0)
  \/ task[h].kind = "mark" /\ Uncounted(h) /\ Balanced(Commission, 0, 0, 0)

(* Nothing is recorded as done of a store's payment.                       *)
StoresUndone == \A p \in Payments : payment[p].by = "store" => ~payment[p].done

StoreInv ==
  Calm => /\ StoresUndone
          /\ \/ (\A h \in Handlers : task[h] = Idle) /\ Balanced(0, 0, 0, 0)
             \/ \E h \in Handlers : task[h] # Idle /\ Stage(h)

(* What every step below starts from.                                      *)
InOrder == Undisturbed /\ CashInv /\ BookInv /\ StoreInv

LEMMA InOrderStage ==
  ASSUME InOrder, NEW h \in Handlers, task[h].kind # "idle"
  PROVE  OnlyBusy(h) /\ Stage(h) /\ StoresUndone
  <1>1. OnlyBusy(h) /\ task[h] # Idle
    BY OthersIdle DEF InOrder, Undisturbed, Idle
  <1>. QED
    BY <1>1 DEF InOrder, Undisturbed, StoreInv, OnlyBusy

LEMMA InOrderIdle ==
  ASSUME InOrder, Alone
  PROVE  Balanced(0, 0, 0, 0) /\ StoresUndone
  BY AloneIdle DEF InOrder, Undisturbed, StoreInv

(* How the invariant is concluded: the handler ends, goes on, or none is   *)
(* at work.                                                                *)
LEMMA EndsBalanced ==
  ASSUME InOrder, NEW h \in Handlers, OnlyBusy(h), Finish(h),
         StoresUndone', Balanced(0, 0, 0, 0)'
  PROVE  StoreInv'
  <1>1. \A g \in Handlers : task'[g] = Idle
    BY DEF InOrder, Undisturbed, TypeInv, TypeOK, OnlyBusy, Finish, Continue
  <1>2. Idle' = Idle
    BY DEF Idle
  <1>. QED
    BY <1>1, <1>2 DEF StoreInv

LEMMA GoesOnBalanced ==
  ASSUME NEW h \in Handlers, task'[h].kind # "idle", StoresUndone', Stage(h)'
  PROVE  StoreInv'
  <1>1. task'[h] # Idle'
    BY DEF Idle
  <1>. QED
    BY <1>1 DEF StoreInv

LEMMA StaysBalanced ==
  ASSUME InOrder, Alone, UNCHANGED task, StoresUndone', Balanced(0, 0, 0, 0)'
  PROVE  StoreInv'
  <1>1. \A g \in Handlers : task'[g] = Idle
    BY AloneIdle DEF InOrder, Undisturbed
  <1>2. Idle' = Idle
    BY DEF Idle
  <1>. QED
    BY <1>1, <1>2 DEF StoreInv

(* The four sums.                                                          *)
LEMMA StoreFinite ==
  /\ IsFiniteSet(StoreOrders) /\ StoreOrders \subseteq Orders
  /\ IsFiniteSet(Payments) /\ IsFiniteSet(PaidByStore) /\ PaidByStore \subseteq Payments
  /\ StoreOrders \cap RiderOrders = {} /\ Commission \in Nat \ {0} /\ Balance \in Nat
  <1>1. IsFiniteSet(Payments)
    BY CodAssumption, FS_Interval DEF Payments
  <1>2. PaidByStore \subseteq Payments
    BY DEF PaidByStore
  <1>3. IsFiniteSet(PaidByStore)
    BY <1>1, <1>2, FS_Subset
  <1>. QED
    BY <1>1, <1>2, <1>3, CodAssumption, FS_Subset DEF Orders

LEMMA SumsAreNumbers ==
  ASSUME TypeInv
  PROVE  Remitted \in Int /\ Lost \in Int /\ Paid \in Int /\ Marked \in Int
  <1>1. Remitted \in Int
    <2> DEFINE f == [o \in Orders |-> order[o].remitted]
    <2>1. \A o \in RiderOrders : f[o] \in Int
      BY OrderFields, RidersFinite
    <2> HIDE DEF f
    <2>2. SumFunctionOnSet(f, RiderOrders) \in Int
      BY <2>1, RidersFinite, SumSame
    <2>. QED
      BY <2>2 DEF Remitted, f
  <1>2. Paid \in Int
    <2> DEFINE f == [p \in Payments |-> payment[p].amount]
    <2>1. \A p \in PaidByStore : f[p] \in Int
      BY PaymentFields, StoreFinite
    <2> HIDE DEF f
    <2>2. SumFunctionOnSet(f, PaidByStore) \in Int
      BY <2>1, StoreFinite, SumSame
    <2>. QED
      BY <2>2 DEF Paid, f, TypeInv, TypeOK
  <1>3. Marked \in Int
    <2> DEFINE S == {o \in StoreOrders : order[o].counted}
    <2>1. IsFiniteSet(S)
      BY StoreFinite, FS_Subset
    <2>2. Cardinality(S) \in Nat
      BY <2>1, FS_CardinalityType
    <2> HIDE DEF S
    <2>3. Commission * Cardinality(S) \in Int
      BY <2>2, StoreFinite
    <2>. QED
      BY <2>3 DEF Marked, S
  <1>4. Lost \in Int
    BY StoreFinite DEF Lost, TypeInv, TypeOK
  <1>. QED
    BY <1>1, <1>2, <1>3, <1>4

LEMMA RemittedSame ==
  ASSUME \A o \in Orders : order'[o].remitted = order[o].remitted
  PROVE  Remitted' = Remitted
  <1>1. [o \in Orders |-> order'[o].remitted] = [o \in Orders |-> order[o].remitted]
    OBVIOUS
  <1>. QED
    BY <1>1 DEF Remitted

LEMMA MarkedSame ==
  ASSUME \A o \in StoreOrders : order'[o].counted = order[o].counted
  PROVE  Marked' = Marked
  <1>1. {o \in StoreOrders : order'[o].counted} = {o \in StoreOrders : order[o].counted}
    OBVIOUS
  <1>. QED
    BY <1>1 DEF Marked

LEMMA PaidSame ==
  ASSUME UNCHANGED <<payment, handed>>
  PROVE  Paid' = Paid
  BY DEF Paid, PaidByStore

SameSums == Remitted' = Remitted /\ Paid' = Paid /\ Marked' = Marked

(* Neither sum nor wallet changes, beside the rider's cash.                *)
LEMMA StillBalanced ==
  ASSUME SameSums, wallet'.due = wallet.due, wallet'.available = wallet.available,
         wallet'.admin = wallet.admin, NEW c, NEW f, NEW p, NEW g, Balanced(c, f, p, g)
  PROVE  Balanced(c, f, p, g)'
  BY DEF SameSums, Balanced, Lost

LEMMA RemittedGrows ==
  ASSUME TypeInv, NEW o \in RiderOrders, NEW amount \in Nat,
         order' = [order EXCEPT ![o].remitted = order[o].remitted + amount]
  PROVE  Remitted' = Remitted + amount
  <1> DEFINE f == [x \in Orders |-> order[x].remitted]
             g == [x \in Orders |-> order'[x].remitted]
  <1>1. \A x \in Orders : order'[x].remitted
                            = IF x = o THEN order[x].remitted + amount ELSE order[x].remitted
    BY OrderFields, RidersFinite DEF OrderRecords
  <1>2. \A x \in RiderOrders : f[x] \in Int /\ g[x] \in Int /\ (x # o => g[x] = f[x])
    BY <1>1, OrderFields, RidersFinite
  <1>3. g[o] - f[o] = amount
    BY <1>1, OrderFields, RidersFinite
  <1> HIDE DEF f, g
  <1>4. /\ SumFunctionOnSet(g, RiderOrders)
             = SumFunctionOnSet(f, RiderOrders) + (g[o] - f[o])
    BY <1>2, RidersFinite, SumChange
  <1>. QED
    BY <1>3, <1>4 DEF Remitted, f, g

LEMMA MarkedGrows ==
  ASSUME TypeInv, NEW o \in StoreOrders, ~order[o].counted,
         order' = [order EXCEPT ![o].counted = TRUE]
  PROVE  Marked' = Marked + Commission
  <1> DEFINE S == {x \in StoreOrders : order[x].counted}
             T == {x \in StoreOrders : order'[x].counted}
  <1>1. \A x \in StoreOrders : order'[x].counted = IF x = o THEN TRUE ELSE order[x].counted
    BY OrderFields, StoreFinite DEF OrderRecords
  <1>2. T = S \cup {o} /\ o \notin S
    BY <1>1
  <1>3. IsFiniteSet(S)
    BY StoreFinite, FS_Subset
  <1> HIDE DEF S, T
  <1>4. Cardinality(T) = Cardinality(S) + 1 /\ Cardinality(S) \in Nat
    BY <1>2, <1>3, FS_AddElement, FS_CardinalityType
  <1>5. Commission * Cardinality(T) = Commission * Cardinality(S) + Commission
    BY <1>4, StoreFinite
  <1>. QED
    BY <1>5 DEF Marked, S, T

LEMMA PaidGrows ==
  ASSUME TypeInv, NEW p \in Payments, payment[p].by = "store",
         payment[p].status # "CAPTURED",
         payment' = [payment EXCEPT ![p].status = "CAPTURED"], UNCHANGED handed
  PROVE  Paid' = Paid + payment[p].amount
  <1> DEFINE f == [x \in Payments |-> payment[x].amount]
             g == [x \in Payments |-> payment'[x].amount]
  <1>1. \A x \in Payments : /\ payment'[x].amount = payment[x].amount
                            /\ payment'[x].by = payment[x].by
                            /\ payment'[x].status = IF x = p THEN "CAPTURED" ELSE payment[x].status
    BY PaymentFields DEF PaymentRecords
  <1>2. g = f /\ f[p] = payment[p].amount /\ \A x \in Payments : f[x] \in Nat
    BY <1>1, PaymentFields
  <1>3. PaidByStore' = PaidByStore \cup {p} /\ p \notin PaidByStore
    BY <1>1 DEF PaidByStore
  <1> HIDE DEF f, g
  <1>4. SumFunctionOnSet(f, PaidByStore \cup {p}) = SumFunctionOnSet(f, PaidByStore) + f[p]
    BY <1>2, <1>3, StoreFinite, SumAdd
  <1>5. SumFunctionOnSet(f, PaidByStore) \in Int
    BY <1>2, StoreFinite, SumSame
  <1>6. handed \in Nat /\ handed' = handed
    BY DEF TypeInv, TypeOK
  <1>7. Paid' = SumFunctionOnSet(g, PaidByStore') + handed'
    BY DEF Paid, g
  <1>8. Paid = SumFunctionOnSet(f, PaidByStore) + handed
    BY DEF Paid, f
  <1>. QED
    BY <1>2, <1>3, <1>4, <1>5, <1>6, <1>7, <1>8, PaymentFields

(* Payments that no store had captured stay out of the sum.                *)
LEMMA PaidKept ==
  ASSUME TypeInv, UNCHANGED handed,
         \A p \in Payments : \/ payment'[p] = payment[p]
                             \/ p \notin PaidByStore /\ p \notin PaidByStore'
                             \/ /\ payment'[p].by = payment[p].by
                                /\ payment'[p].status = payment[p].status
                                /\ payment'[p].amount = payment[p].amount
  PROVE  Paid' = Paid
  <1> DEFINE f == [x \in Payments |-> payment[x].amount]
             g == [x \in Payments |-> payment'[x].amount]
  <1>1. PaidByStore' = PaidByStore
    BY DEF PaidByStore
  <1>2. \A p \in PaidByStore : f[p] \in Int /\ g[p] = f[p]
    BY <1>1, PaymentFields DEF PaidByStore
  <1> HIDE DEF f, g
  <1>3. SumFunctionOnSet(g, PaidByStore) = SumFunctionOnSet(f, PaidByStore)
    BY <1>2, StoreFinite, SumSame
  <1>. QED
    BY <1>1, <1>3 DEF Paid, f, g

(* Delivery and collection.                                                *)
LEMMA DeliveryBalanced ==
  ASSUME InOrder, NEW h \in Handlers, NEW o \in Orders,
         Deliver(h, o) \/ SettleAgain(h, o) \/ markOrderDeliveredAndSettle(h, o)
  PROVE  StoreInv'
  <1> USE DEF InOrder, Undisturbed
  <1> DEFINE s == [Idle EXCEPT !.kind = "settle", !.order = o]
             c == [Idle EXCEPT !.kind = "count", !.order = o]
  <1>1. UNCHANGED <<wallet, payment, handed>>
    BY DEF Deliver, SettleAgain, markOrderDeliveredAndSettle
  <1>2. \A x \in Orders : /\ order'[x].counted = order[x].counted
                          /\ order'[x].remitted = order[x].remitted
    <2>1. \/ order' = order \/ order' = Settled(o)
          \/ order' = [order EXCEPT ![o].delivered = TRUE]
      BY DEF Deliver, SettleAgain, markOrderDeliveredAndSettle
    <2>. QED
      BY <2>1, OrderFields DEF Settled, OrderRecords
  <1>3. SameSums
    BY <1>1, <1>2, RemittedSame, MarkedSame, PaidSame, StoreFinite DEF SameSums
  <1>4. Start(h, s) \/ Start(h, c) \/ (Alone /\ UNCHANGED task)
    BY DEF Deliver, SettleAgain, markOrderDeliveredAndSettle
  <1>5. Alone
    BY <1>4 DEF Start
  <1>6. Balanced(0, 0, 0, 0)' /\ StoresUndone'
    BY <1>1, <1>3, <1>5, InOrderIdle, StillBalanced DEF StoresUndone
  <1>7. ASSUME Start(h, s) \/ Start(h, c) PROVE task'[h].kind \in {"settle", "count"}
    BY <1>7 DEF Start, Idle, TypeInv, TypeOK
  <1>8. CASE Start(h, s) \/ Start(h, c)
    BY <1>6, <1>7, <1>8, GoesOnBalanced DEF Stage
  <1>9. CASE Alone /\ UNCHANGED task
    BY <1>6, <1>9, StaysBalanced
  <1>. QED
    BY <1>4, <1>8, <1>9

LEMMA SettleBalanced ==
  ASSUME InOrder, NEW h \in Handlers, settleDeliveredOrder(h)
  PROVE  StoreInv'
  <1> USE DEF InOrder, Undisturbed
  <1> DEFINE o == task[h].order
             r == [task[h] EXCEPT !.kind = "read", !.then = "offset",
                       !.todo = <<[of |-> "due", change |-> Commission]>>]
  <1>1. task[h].kind = "settle" /\ o \in Orders /\ task[h] \in Tasks
    BY TaskFields DEF settleDeliveredOrder, Busy, TaskRight
  <1>2. OnlyBusy(h) /\ Balanced(0, 0, 0, 0) /\ StoresUndone
    BY <1>1, InOrderStage DEF Stage
  <1>3. UNCHANGED <<wallet, payment, handed>> /\ order' = Settled(o)
    BY DEF settleDeliveredOrder
  <1>4. \A x \in Orders : /\ order'[x].counted = order[x].counted
                          /\ order'[x].remitted = order[x].remitted
    BY <1>1, <1>3, OrderFields DEF Settled, OrderRecords
  <1>5. SameSums
    BY <1>3, <1>4, RemittedSame, MarkedSame, PaidSame, StoreFinite DEF SameSums
  <1>6. Balanced(0, 0, 0, 0)' /\ StoresUndone'
    BY <1>2, <1>3, <1>5, StillBalanced DEF StoresUndone
  <1>7. CASE Finish(h)
    BY <1>2, <1>6, <1>7, EndsBalanced
  <1>8. CASE Continue(h, [task[h] EXCEPT !.kind = "count"])
    <2>1. task'[h].kind = "count"
      BY <1>1, <1>8 DEF Continue, TypeInv, TypeOK, Tasks
    <2>. QED
      BY <1>6, <2>1, GoesOnBalanced DEF Stage
  <1>9. CASE ~order[o].counted /\ o \in StoreOrders /\ Continue(h, r)
    <2>1. /\ task'[h].kind = "read" /\ task'[h].then = "offset"
          /\ task'[h].todo = <<Due(Commission)>> /\ task'[h].order = o
      BY <1>1, <1>9 DEF Continue, TypeInv, TypeOK, Tasks, Due
    <2>2. Uncounted(h)'
      BY <1>4, <1>9, <2>1, StoreFinite DEF Uncounted
    <2>3. ChargesDue(h)'
      BY <1>6, <2>1, <2>2 DEF ChargesDue, Due
    <2>. QED
      BY <1>6, <2>1, <2>3, GoesOnBalanced DEF Stage
  <1>. QED
    BY <1>7, <1>8, <1>9 DEF settleDeliveredOrder

(* Counting cash of a rider's order concerns neither store nor platform.   *)
LEMMA CollectionSums ==
  ASSUME TypeInv, CashInv, NEW o \in RiderOrders, NEW net \in Nat, handleCodOrderFinance(o, net),
         UNCHANGED <<payment, handed>>
  PROVE  /\ SameSums /\ wallet'.due = wallet.due /\ wallet'.available = wallet.available
         /\ wallet'.admin = wallet.admin
  <1>1. /\ \A x \in Orders : order'[x].remitted = order[x].remitted
        /\ \A x \in Orders : x # o => order'[x].counted = order[x].counted
    BY OrderFields, RidersFinite DEF handleCodOrderFinance, OrderRecords
  <1>2. SameSums
    BY <1>1, RemittedSame, MarkedSame, PaidSame, StoreFinite DEF SameSums
  <1>. QED
    BY <1>2 DEF handleCodOrderFinance, TypeInv, TypeOK

LEMMA CountBalanced ==
  ASSUME InOrder, NEW h \in Handlers, CountCash(h)
  PROVE  StoreInv'
  <1> USE DEF InOrder, Undisturbed
  <1>1. task[h].kind = "count" /\ task[h].order \in RiderOrders
    BY TaskFields DEF CountCash, Busy, TaskRight
  <1>2. OnlyBusy(h) /\ Balanced(0, 0, 0, 0) /\ StoresUndone
    BY <1>1, InOrderStage DEF Stage
  <1>3. /\ handleCodOrderFinance(task[h].order, Cash[task[h].order])
        /\ UNCHANGED <<payment, handed>> /\ Finish(h)
    BY DEF CountCash
  <1>4. /\ SameSums /\ wallet'.due = wallet.due /\ wallet'.available = wallet.available
        /\ wallet'.admin = wallet.admin
    BY <1>1, <1>3, CashIsNat, CollectionSums
  <1>5. Balanced(0, 0, 0, 0)' /\ StoresUndone'
    BY <1>2, <1>3, <1>4, StillBalanced DEF StoresUndone
  <1>. QED
    BY <1>2, <1>3, <1>5, EndsBalanced

LEMMA MarkBalanced ==
  ASSUME InOrder, NEW h \in Handlers, MarkCharged(h)
  PROVE  StoreInv'
  <1> USE DEF InOrder, Undisturbed
  <1> DEFINE o == task[h].order
  <1>1. task[h].kind = "mark"
    BY DEF MarkCharged, Busy
  <1>2. OnlyBusy(h) /\ Uncounted(h) /\ Balanced(Commission, 0, 0, 0) /\ StoresUndone
    BY <1>1, InOrderStage DEF Stage
  <1>3. /\ order' = [order EXCEPT ![o].counted = TRUE]
        /\ UNCHANGED <<wallet, payment, handed>> /\ Finish(h)
    BY DEF MarkCharged
  <1>4. o \in StoreOrders /\ ~order[o].counted
    BY <1>2 DEF Uncounted
  <1>5. Marked' = Marked + Commission
    BY <1>3, <1>4, MarkedGrows
  <1>6. \A x \in Orders : order'[x].remitted = order[x].remitted
    BY <1>3, <1>4, OrderFields, StoreFinite DEF OrderRecords
  <1>7. Remitted' = Remitted /\ Paid' = Paid
    BY <1>3, <1>6, RemittedSame, PaidSame
  <1>8. Balanced(0, 0, 0, 0)'
    <2>1. wallet.due \in Nat /\ wallet.admin \in Nat
      BY DEF TypeInv, TypeOK
    <2>. QED
      BY <1>2, <1>3, <1>5, <1>7, <2>1, SumsAreNumbers, StoreFinite DEF Balanced, Lost
  <1>. QED
    BY <1>2, <1>3, <1>8, EndsBalanced DEF StoresUndone

(* Wallets.                                                                *)
LEMMA ReadBalanced ==
  ASSUME InOrder, NEW h \in Handlers, ReadWallet(h)
  PROVE  StoreInv'
  <1> USE DEF InOrder, Undisturbed
  <1> DEFINE n == wallet[Head(task[h].todo).of]
             t == [task[h] EXCEPT !.kind = "write", !.seen = n]
  <1>1. task[h].kind = "read" /\ task[h] \in Tasks
    BY TaskFields DEF ReadWallet, Busy
  <1>2. StoresUndone /\ (ChargesDue(h) \/ SetsOff(h) \/ Pays(h))
    BY <1>1, InOrderStage DEF Stage
  <1>3. Continue(h, t) /\ UNCHANGED <<order, wallet, payment, handed>>
    BY DEF ReadWallet
  <1> HIDE DEF n
  <1>4. /\ task'[h].kind = "write" /\ task'[h].seen = n
        /\ task'[h].todo = task[h].todo /\ task'[h].then = task[h].then
        /\ task'[h].order = task[h].order
    BY <1>1, <1>3 DEF Continue, TypeInv, TypeOK, Tasks
  <1>5. SameSums
    BY <1>3, RemittedSame, MarkedSame, PaidSame DEF SameSums
  <1>6. \A c \in Nat, f \in Nat, p \in Nat, g \in Nat :
          Balanced(c, f, p, g) => Balanced(c, f, p, g)'
    BY <1>3, <1>5, StillBalanced
  <1>7. Uncounted(h) => Uncounted(h)'
    BY <1>3, <1>4 DEF Uncounted
  <1>8. ChargesDue(h) => ChargesDue(h)'
    BY <1>4, <1>6, <1>7 DEF ChargesDue, Due
  <1>9. SetsOff(h) => SetsOff(h)'
    BY <1>3, <1>4, <1>6, <1>7, StoreFinite DEF SetsOff, Due, Available, Admin
  <1>10. Pays(h) => Pays(h)'
    BY <1>4, <1>6 DEF Pays, Due, Admin
  <1>11. task'[h].seen = wallet'[Head(task'[h].todo).of]
    BY <1>3, <1>4 DEF n
  <1>. QED
    BY <1>2, <1>3, <1>4, <1>8, <1>9, <1>10, <1>11, GoesOnBalanced DEF Stage, StoresUndone

(* What a write does, given the change it makes and those that remain.     *)
LEMMA WriteClamps ==
  ASSUME InOrder, NEW h \in Handlers, WriteWallet(h),
         NEW op \in Changes, NEW rest \in Seq(Changes),
         Head(task[h].todo) = op, Tail(task[h].todo) = rest,
         op.of = "available" => 0 <= wallet[op.of] + op.change
  PROVE  /\ wallet' = [wallet EXCEPT ![op.of] = Clamp(wallet[op.of] + op.change)]
         /\ SameSums /\ UNCHANGED <<order, payment>>
         /\ rest = <<>> /\ task[h].then = "idle" => Finish(h)
         /\ ~(rest = <<>> /\ task[h].then = "idle") =>
              /\ task'[h].kind = IF rest = <<>> THEN task[h].then ELSE "read"
              /\ task'[h].todo = rest /\ task'[h].then = task[h].then
              /\ task'[h].order = task[h].order
  <1> USE DEF InOrder, Undisturbed
  <1>1. task[h].kind = "write" /\ task[h] \in Tasks
    BY TaskFields DEF WriteWallet, Busy
  <1>2. task[h].seen = wallet[op.of]
    BY <1>1, InOrderStage DEF Stage
  <1>3. op.change \in Int /\ wallet[op.of] \in Nat
    BY DEF Changes, TypeInv, TypeOK
  <1>4. ~Overdrawn(h)
    BY <1>2, <1>3 DEF Overdrawn
  <1>5. /\ wallet' = [wallet EXCEPT ![op.of] = Clamp(task[h].seen + op.change)]
        /\ IF rest = <<>> /\ task[h].then = "idle" THEN Finish(h)
           ELSE Continue(h, [task[h] EXCEPT !.todo = rest, !.seen = 0,
                               !.kind = IF rest = <<>> THEN task[h].then ELSE "read"])
        /\ UNCHANGED <<order, payment, handed>>
    BY <1>4 DEF WriteWallet
  <1>6. SameSums
    BY <1>5, RemittedSame, MarkedSame, PaidSame DEF SameSums
  <1> DEFINE kind == IF rest = <<>> THEN task[h].then ELSE "read"
  <1>7. ASSUME ~(rest = <<>> /\ task[h].then = "idle")
        PROVE  /\ task'[h].kind = kind /\ task'[h].todo = rest
               /\ task'[h].then = task[h].then /\ task'[h].order = task[h].order
    <2>1. Continue(h, [task[h] EXCEPT !.todo = rest, !.seen = 0, !.kind = kind])
      BY <1>5, <1>7
    <2> HIDE DEF kind
    <2>. QED
      BY <1>1, <2>1 DEF Continue, TypeInv, TypeOK, Tasks
  <1>. QED
    BY <1>2, <1>5, <1>6, <1>7

LEMMA WriteFacts ==
  ASSUME InOrder, NEW h \in Handlers, WriteWallet(h),
         NEW op \in Changes, NEW rest \in Seq(Changes),
         Head(task[h].todo) = op, Tail(task[h].todo) = rest,
         0 <= wallet[op.of] + op.change
  PROVE  /\ wallet' = [wallet EXCEPT ![op.of] = wallet[op.of] + op.change]
         /\ SameSums /\ UNCHANGED <<order, payment>>
         /\ rest = <<>> /\ task[h].then = "idle" => Finish(h)
         /\ ~(rest = <<>> /\ task[h].then = "idle") =>
              /\ task'[h].kind = IF rest = <<>> THEN task[h].then ELSE "read"
              /\ task'[h].todo = rest /\ task'[h].then = task[h].then
              /\ task'[h].order = task[h].order
  <1>1. wallet[op.of] \in Nat /\ op.change \in Int
    BY DEF InOrder, Undisturbed, Changes, TypeInv, TypeOK
  <1>2. Clamp(wallet[op.of] + op.change) = wallet[op.of] + op.change
    BY <1>1 DEF Clamp
  <1>. QED
    BY <1>2, WriteClamps

LEMMA Sequences ==
  /\ \A a \in Changes : Head(<<a>>) = a /\ Tail(<<a>>) = <<>> /\ <<>> \in Seq(Changes)
  /\ \A a, b \in Changes : /\ Head(<<a, b>>) = a /\ Tail(<<a, b>>) = <<b>>
                           /\ <<b>> \in Seq(Changes) /\ <<b>> # <<>>
  /\ \A a, b, c \in Changes : /\ Head(<<a, b, c>>) = a /\ Tail(<<a, b, c>>) = <<b, c>>
                              /\ <<b, c>> \in Seq(Changes) /\ <<b, c>> # <<>>
  OBVIOUS

LEMMA ChangesTyped ==
  ASSUME NEW n \in Int
  PROVE  /\ Due(n) \in Changes /\ Due(n).of = "due" /\ Due(n).change = n
         /\ Available(n) \in Changes /\ Available(n).of = "available" /\ Available(n).change = n
         /\ Admin(n) \in Changes /\ Admin(n).of = "admin" /\ Admin(n).change = n
  BY DEF Due, Available, Admin, Changes

LEMMA WalletNumbers ==
  ASSUME TypeInv
  PROVE  /\ wallet \in [cash : Nat, due : Nat, available : Nat, admin : Nat]
         /\ wallet.due \in Nat /\ wallet.available \in Nat /\ wallet.admin \in Nat
  BY DEF TypeInv, TypeOK

(* The charge: what is due grows by the commission.                        *)
LEMMA ChargeBalanced ==
  ASSUME InOrder, NEW h \in Handlers, WriteWallet(h), ChargesDue(h)
  PROVE  Stage(h)' /\ task'[h].kind # "idle"
  <1> USE DEF InOrder, Undisturbed
  <1> DEFINE op == Due(Commission)
  <1>1. op \in Changes /\ op.of = "due" /\ op.change = Commission
    BY StoreFinite, ChangesTyped
  <1>2. /\ task[h].todo = <<op>> /\ task[h].then = "offset"
        /\ Uncounted(h) /\ Balanced(0, 0, 0, 0)
    BY DEF ChargesDue
  <1> HIDE DEF op
  <1>3. Head(task[h].todo) = op /\ Tail(task[h].todo) = <<>> /\ <<>> \in Seq(Changes)
    BY <1>1, <1>2, Sequences
  <1>4. 0 <= wallet[op.of] + op.change
    BY <1>1, StoreFinite, WalletNumbers
  <1>5. /\ wallet' = [wallet EXCEPT !.due = wallet.due + Commission]
        /\ SameSums /\ UNCHANGED <<order, payment>>
        /\ task'[h].kind = "offset" /\ task'[h].order = task[h].order
    BY <1>1, <1>2, <1>3, <1>4, WriteFacts
  <1>6. /\ wallet'.due = wallet.due + Commission /\ wallet'.available = wallet.available
        /\ wallet'.admin = wallet.admin
    BY <1>5, WalletNumbers
  <1>7. Balanced(Commission, 0, 0, 0)'
    BY <1>2, <1>5, <1>6, SumsAreNumbers, WalletNumbers, StoreFinite
       DEF Balanced, SameSums, Lost
  <1>8. Uncounted(h)' /\ Commission <= wallet'.due
    BY <1>2, <1>5, <1>6, WalletNumbers, StoreFinite DEF Uncounted
  <1>. QED
    BY <1>5, <1>7, <1>8 DEF Stage

(* The set-off: from the balance, from what is due, to the platform.       *)
LEMMA SetOffBalanced ==
  ASSUME InOrder, NEW h \in Handlers, WriteWallet(h), SetsOff(h)
  PROVE  Stage(h)' /\ task'[h].kind # "idle"
  <1> USE DEF InOrder, Undisturbed
  <1>1. PICK x \in 0 .. Commission :
          \/ /\ task[h].todo = <<Available(-x), Due(-x), Admin(x)>>
             /\ x <= wallet.available /\ x <= wallet.due /\ Balanced(Commission, 0, 0, 0)
          \/ /\ task[h].todo = <<Due(-x), Admin(x)>>
             /\ x <= wallet.due /\ Balanced(Commission, x, 0, x)
          \/ task[h].todo = <<Admin(x)>> /\ Balanced(Commission, 0, 0, x)
    BY DEF SetsOff
  <1>2. task[h].then = "mark" /\ Uncounted(h)
    BY DEF SetsOff
  <1>3. x \in Nat /\ -x \in Int
    BY StoreFinite
  <1>4. CASE /\ task[h].todo = <<Available(-x), Due(-x), Admin(x)>>
             /\ x <= wallet.available /\ x <= wallet.due /\ Balanced(Commission, 0, 0, 0)
    <2> DEFINE op == Available(-x)
               rest == <<Due(-x), Admin(x)>>
    <2>1. /\ op \in Changes /\ op.of = "available" /\ op.change = -x
          /\ Head(task[h].todo) = op /\ Tail(task[h].todo) = rest
          /\ rest \in Seq(Changes) /\ rest # <<>>
      BY <1>3, <1>4, ChangesTyped, Sequences
    <2> HIDE DEF op, rest
    <2>2. 0 <= wallet[op.of] + op.change
      BY <1>3, <1>4, <2>1, WalletNumbers
    <2>3. /\ wallet' = [wallet EXCEPT !.available = wallet.available + (-x)]
          /\ SameSums /\ UNCHANGED <<order, payment>>
          /\ task'[h].kind = "read" /\ task'[h].todo = rest
          /\ task'[h].then = "mark" /\ task'[h].order = task[h].order
      BY <1>2, <2>1, <2>2, WriteFacts
    <2>4. /\ wallet'.available = wallet.available - x /\ wallet'.due = wallet.due
          /\ wallet'.admin = wallet.admin
      BY <1>3, <2>3, WalletNumbers
    <2>5. Balanced(Commission, x, 0, x)'
      BY <1>3, <1>4, <2>3, <2>4, SumsAreNumbers, WalletNumbers, StoreFinite
         DEF Balanced, SameSums, Lost
    <2>6. Uncounted(h)'
      BY <1>2, <2>3 DEF Uncounted
    <2>7. SetsOff(h)'
      BY <1>4, <2>3, <2>4, <2>5, <2>6 DEF SetsOff, rest, Due, Admin
    <2>. QED
      BY <2>3, <2>7 DEF Stage
  <1>5. CASE /\ task[h].todo = <<Due(-x), Admin(x)>>
             /\ x <= wallet.due /\ Balanced(Commission, x, 0, x)
    <2> DEFINE op == Due(-x)
               rest == <<Admin(x)>>
    <2>1. /\ op \in Changes /\ op.of = "due" /\ op.change = -x
          /\ Head(task[h].todo) = op /\ Tail(task[h].todo) = rest
          /\ rest \in Seq(Changes) /\ rest # <<>>
      BY <1>3, <1>5, ChangesTyped, Sequences
    <2> HIDE DEF op, rest
    <2>2. 0 <= wallet[op.of] + op.change
      BY <1>3, <1>5, <2>1, WalletNumbers
    <2>3. /\ wallet' = [wallet EXCEPT !.due = wallet.due + (-x)]
          /\ SameSums /\ UNCHANGED <<order, payment>>
          /\ task'[h].kind = "read" /\ task'[h].todo = rest
          /\ task'[h].then = "mark" /\ task'[h].order = task[h].order
      BY <1>2, <2>1, <2>2, WriteFacts
    <2>4. /\ wallet'.available = wallet.available /\ wallet'.due = wallet.due - x
          /\ wallet'.admin = wallet.admin
      BY <1>3, <2>3, WalletNumbers
    <2>5. Balanced(Commission, 0, 0, x)'
      BY <1>3, <1>5, <2>3, <2>4, SumsAreNumbers, WalletNumbers, StoreFinite
         DEF Balanced, SameSums, Lost
    <2>6. Uncounted(h)'
      BY <1>2, <2>3 DEF Uncounted
    <2>7. SetsOff(h)'
      BY <2>3, <2>5, <2>6 DEF SetsOff, rest, Admin
    <2>. QED
      BY <2>3, <2>7 DEF Stage
  <1>6. CASE task[h].todo = <<Admin(x)>> /\ Balanced(Commission, 0, 0, x)
    <2> DEFINE op == Admin(x)
    <2>1. /\ op \in Changes /\ op.of = "admin" /\ op.change = x
          /\ Head(task[h].todo) = op /\ Tail(task[h].todo) = <<>> /\ <<>> \in Seq(Changes)
      BY <1>3, <1>6, ChangesTyped, Sequences
    <2> HIDE DEF op
    <2>2. 0 <= wallet[op.of] + op.change
      BY <1>3, <2>1, WalletNumbers
    <2>3. /\ wallet' = [wallet EXCEPT !.admin = wallet.admin + x]
          /\ SameSums /\ UNCHANGED <<order, payment>>
          /\ task'[h].kind = "mark" /\ task'[h].order = task[h].order
      BY <1>2, <2>1, <2>2, WriteFacts
    <2>4. /\ wallet'.available = wallet.available /\ wallet'.due = wallet.due
          /\ wallet'.admin = wallet.admin + x
      BY <1>3, <2>3, WalletNumbers
    <2>5. Balanced(Commission, 0, 0, 0)'
      BY <1>3, <1>6, <2>3, <2>4, SumsAreNumbers, WalletNumbers, StoreFinite
         DEF Balanced, SameSums, Lost
    <2>6. Uncounted(h)'
      BY <1>2, <2>3 DEF Uncounted
    <2>. QED
      BY <2>3, <2>5, <2>6 DEF Stage
  <1>. QED
    BY <1>1, <1>4, <1>5, <1>6

(* A payment or a hand-over: from what is due, which may be less, and to   *)
(* the platform.                                                           *)
LEMMA PayBalanced ==
  ASSUME InOrder, NEW h \in Handlers, WriteWallet(h), Pays(h)
  PROVE  \/ Stage(h)' /\ task'[h].kind # "idle"
         \/ Finish(h) /\ Balanced(0, 0, 0, 0)'
  <1> USE DEF InOrder, Undisturbed
  <1>1. PICK a \in Nat :
          \/ task[h].todo = <<Due(-a), Admin(a)>> /\ Balanced(0, 0, a, a)
          \/ task[h].todo = <<Admin(a)>> /\ Balanced(0, 0, 0, a)
    BY DEF Pays
  <1>2. task[h].then = "idle" /\ -a \in Int /\ a \in Int
    BY DEF Pays
  <1>3. CASE task[h].todo = <<Due(-a), Admin(a)>> /\ Balanced(0, 0, a, a)
    <2> DEFINE op == Due(-a)
               rest == <<Admin(a)>>
    <2>1. /\ op \in Changes /\ op.of = "due" /\ op.change = -a
          /\ Head(task[h].todo) = op /\ Tail(task[h].todo) = rest
          /\ rest \in Seq(Changes) /\ rest # <<>>
      BY <1>2, <1>3, ChangesTyped, Sequences
    <2> HIDE DEF op, rest
    <2>2. /\ wallet' = [wallet EXCEPT !.due = Clamp(wallet.due + (-a))]
          /\ SameSums /\ task'[h].kind = "read" /\ task'[h].todo = rest
          /\ task'[h].then = "idle"
      BY <1>2, <2>1, WriteClamps
    <2>3. /\ wallet'.available = wallet.available /\ wallet'.admin = wallet.admin
          /\ wallet'.due <= wallet.due /\ wallet.due - a <= wallet'.due
          /\ wallet'.due \in Nat
      BY <2>2, WalletNumbers DEF Clamp
    <2>4. Balanced(0, 0, 0, a)'
      BY <1>3, <2>2, <2>3, SumsAreNumbers, WalletNumbers DEF Balanced, SameSums, Lost
    <2>5. Pays(h)'
      BY <2>2, <2>4 DEF Pays, rest, Admin
    <2>. QED
      BY <2>2, <2>5 DEF Stage
  <1>4. CASE task[h].todo = <<Admin(a)>> /\ Balanced(0, 0, 0, a)
    <2> DEFINE op == Admin(a)
    <2>1. /\ op \in Changes /\ op.of = "admin" /\ op.change = a
          /\ Head(task[h].todo) = op /\ Tail(task[h].todo) = <<>> /\ <<>> \in Seq(Changes)
      BY <1>2, <1>4, ChangesTyped, Sequences
    <2> HIDE DEF op
    <2>2. 0 <= wallet[op.of] + op.change
      BY <2>1, WalletNumbers
    <2>3. /\ wallet' = [wallet EXCEPT !.admin = wallet.admin + a]
          /\ SameSums /\ Finish(h)
      BY <1>2, <2>1, <2>2, WriteFacts
    <2>4. /\ wallet'.available = wallet.available /\ wallet'.due = wallet.due
          /\ wallet'.admin = wallet.admin + a
      BY <2>3, WalletNumbers
    <2>5. Balanced(0, 0, 0, 0)'
      BY <1>4, <2>3, <2>4, SumsAreNumbers, WalletNumbers DEF Balanced, SameSums, Lost
    <2>. QED
      BY <2>3, <2>5
  <1>. QED
    BY <1>1, <1>3, <1>4

LEMMA WriteBalanced ==
  ASSUME InOrder, NEW h \in Handlers, WriteWallet(h)
  PROVE  StoreInv'
  <1>1. task[h].kind = "write" /\ UNCHANGED payment
    BY DEF WriteWallet, Busy
  <1>2. OnlyBusy(h) /\ StoresUndone /\ (ChargesDue(h) \/ SetsOff(h) \/ Pays(h))
    BY <1>1, InOrderStage DEF Stage
  <1>3. StoresUndone'
    BY <1>1, <1>2 DEF StoresUndone
  <1>. QED
    BY <1>2, <1>3, ChargeBalanced, SetOffBalanced, PayBalanced, GoesOnBalanced, EndsBalanced

LEMMA OffsetBalanced ==
  ASSUME InOrder, NEW h \in Handlers, OffsetCommission(h)
  PROVE  StoreInv'
  <1> USE DEF InOrder, Undisturbed
  <1> DEFINE x == AtMost(wallet.available, Commission)
             kind == IF x = 0 THEN "mark" ELSE "read"
             todo == IF x = 0 THEN <<>> ELSE <<Available(-x), Due(-x), Admin(x)>>
  <1>1. task[h].kind = "offset" /\ task[h] \in Tasks
    BY TaskFields DEF OffsetCommission, Busy
  <1>2. /\ Uncounted(h) /\ Commission <= wallet.due /\ Balanced(Commission, 0, 0, 0)
        /\ StoresUndone
    BY <1>1, InOrderStage DEF Stage
  <1>3. Continue(h, [task[h] EXCEPT !.then = "mark", !.kind = kind, !.todo = todo])
    BY DEF OffsetCommission, Available, Due, Admin
  <1>4. UNCHANGED <<order, wallet, payment, handed>>
    BY DEF OffsetCommission
  <1>5. x \in 0 .. Commission /\ x <= wallet.available
    <2>1. wallet.available \in Nat /\ Commission \in Nat
      BY WalletNumbers, StoreFinite
    <2>2. x \in Nat /\ x <= wallet.available /\ x <= Commission
      BY <2>1, AtMostBounds
    <2> HIDE DEF x
    <2>. QED
      BY <2>1, <2>2
  <1> HIDE DEF x
  <1>6. /\ task'[h].kind = kind /\ task'[h].then = "mark" /\ task'[h].todo = todo
        /\ task'[h].order = task[h].order
    <2> HIDE DEF kind, todo
    <2>. QED
      BY <1>1, <1>3 DEF Continue, TypeInv, TypeOK, Tasks
  <1>7. SameSums
    BY <1>4, RemittedSame, MarkedSame, PaidSame DEF SameSums
  <1>8. Balanced(Commission, 0, 0, 0)' /\ Uncounted(h)' /\ StoresUndone'
    BY <1>2, <1>4, <1>6, <1>7, StillBalanced DEF Uncounted, StoresUndone
  <1>9. CASE x = 0
    BY <1>6, <1>8, <1>9, GoesOnBalanced DEF Stage
  <1>10. CASE x # 0
    <2>1. x <= wallet'.available /\ x <= wallet'.due
      BY <1>2, <1>4, <1>5, WalletNumbers, StoreFinite
    <2>2. task'[h].todo = <<Available(-x), Due(-x), Admin(x)>> /\ task'[h].kind = "read"
      BY <1>6, <1>10
    <2>3. SetsOff(h)'
      <3>1. \E y \in 0 .. Commission :
              /\ task'[h].todo = <<Available(-y), Due(-y), Admin(y)>>
              /\ y <= wallet'.available /\ y <= wallet'.due
        BY <1>5, <2>1, <2>2
      <3>. QED
        BY <1>6, <1>8, <3>1 DEF SetsOff, Available, Due, Admin
    <2>. QED
      BY <1>8, <2>2, <2>3, GoesOnBalanced DEF Stage
  <1>. QED
    BY <1>9, <1>10

(* Payments at the gateway.                                                *)
LEMMA WebhookBalanced ==
  ASSUME InOrder, NEW h \in Handlers, NEW p \in Payments, NEW event \in Events,
         Webhook(h, p, event) \/ Verify(h, p, event), task' # task
  PROVE  StoreInv'
  <1> USE DEF InOrder, Undisturbed
  <1> DEFINE s == Handling(p, event)
             g == [Handling(p, "captured") EXCEPT !.kind = "gather"]
  <1>1. UNCHANGED <<order, wallet, payment, handed>>
    BY DEF Webhook, Verify
  <1>2. SameSums
    BY <1>1, RemittedSame, MarkedSame, PaidSame DEF SameSums
  <1>3. \/ Start(h, s) /\ (payment[p].by = "rider" \/ payment[p].status # "CAPTURED")
        \/ Start(h, g) /\ payment[p].by = "rider"
    BY DEF Webhook, Verify
  <1>4. Balanced(0, 0, 0, 0)' /\ StoresUndone /\ StoresUndone'
    BY <1>1, <1>2, <1>3, InOrderIdle, StillBalanced DEF StoresUndone, Start
  <1>5. CASE Start(h, s) /\ (payment[p].by = "rider" \/ payment[p].status # "CAPTURED")
    <2>1. s.kind = "save" /\ s.payment = p /\ s.done = payment[p].done
      BY DEF Handling, Idle
    <2> HIDE DEF s
    <2>2. task'[h] = s
      BY <1>5 DEF Start, TypeInv, TypeOK
    <2>3. payment[p].by \in {"rider", "store"}
      BY DEF TypeInv, TypeOK, PaymentRecords
    <2>4. OfRider(p)' \/ (payment'[p].status # "CAPTURED" /\ ~task'[h].done)
      BY <1>1, <1>4, <1>5, <2>1, <2>2, <2>3 DEF OfRider, StoresUndone
    <2>. QED
      BY <1>4, <2>1, <2>2, <2>4, GoesOnBalanced DEF Stage, OfRider
  <1>6. CASE Start(h, g) /\ payment[p].by = "rider"
    <2>1. g.kind = "gather" /\ g.payment = p
      BY DEF Handling, Idle
    <2> HIDE DEF g
    <2>2. task'[h] = g
      BY <1>6 DEF Start, TypeInv, TypeOK
    <2>. QED
      BY <1>1, <1>4, <1>6, <2>1, <2>2, GoesOnBalanced DEF Stage, OfRider
  <1>. QED
    BY <1>3, <1>5, <1>6

(* Steps that concern none of it.                                          *)
LEMMA NothingChanges ==
  ASSUME InOrder, UNCHANGED <<order, wallet, payment, handed, task>>
  PROVE  StoreInv'
  <1>1. SameSums
    BY RemittedSame, MarkedSame, PaidSame DEF SameSums
  <1>2. ASSUME NEW h \in Handlers, Stage(h) PROVE Stage(h)'
    <2>1. \A c \in Nat, f \in Nat, p \in Nat, g \in Nat :
            Balanced(c, f, p, g) => Balanced(c, f, p, g)'
      BY <1>1, StillBalanced
    <2>2. Uncounted(h)' = Uncounted(h)
      BY DEF Uncounted
    <2>3. ChargesDue(h) => ChargesDue(h)'
      BY <2>1, <2>2 DEF ChargesDue, Due
    <2>4. SetsOff(h) => SetsOff(h)'
      BY <2>1, <2>2, StoreFinite DEF SetsOff, Due, Available, Admin
    <2>5. Pays(h) => Pays(h)'
      BY <2>1 DEF Pays, Due, Admin
    <2>6. Balanced(0, 0, 0, 0) => Balanced(0, 0, 0, 0)'
      BY <2>1
    <2>7. Balanced(Commission, 0, 0, 0) => Balanced(Commission, 0, 0, 0)'
      BY <2>1, StoreFinite
    <2>. QED
      BY <1>2, <2>2, <2>3, <2>4, <2>5, <2>6, <2>7 DEF Stage, OfRider
  <1>3. Balanced(0, 0, 0, 0) => Balanced(0, 0, 0, 0)'
    BY <1>1, StillBalanced
  <1>4. StoresUndone => StoresUndone'
    BY DEF StoresUndone
  <1>5. Idle' = Idle
    BY DEF Idle
  <1>. QED
    BY <1>2, <1>3, <1>4, <1>5 DEF InOrder, Undisturbed, StoreInv

LEMMA OpenBalanced ==
  ASSUME InOrder, NEW amount \in Amounts,
         createCodRemittanceCheckout(amount) \/ createSellerCodCommissionCheckout(amount)
  PROVE  StoreInv'
  <1> USE DEF InOrder, Undisturbed
  <1>1. PICK by \in {"rider", "store"} : OpenPayment(by, amount)
    BY DEF createCodRemittanceCheckout, createSellerCodCommissionCheckout
  <1>2. Alone /\ UNCHANGED <<order, wallet, handed, task>>
    BY <1>1 DEF OpenPayment, createCodRemittanceCheckout, createSellerCodCommissionCheckout
  <1> DEFINE new == [NoPayment EXCEPT !.by = by, !.status = "PENDING", !.amount = amount]
  <1>3. PICK q \in Payments \ Opened : payment' = [payment EXCEPT ![q] = new]
    BY <1>1 DEF OpenPayment
  <1>4. new.status = "PENDING" /\ ~new.done
    BY DEF NoPayment
  <1> HIDE DEF new
  <1>5. \A p \in Payments : payment'[p] = IF p = q THEN new ELSE payment[p]
    BY <1>3, PaymentFields
  <1>6. payment[q].status = "none"
    BY DEF Opened
  <1>7. Paid' = Paid
    <2>1. ASSUME NEW p \in Payments
          PROVE  payment'[p] = payment[p] \/ (p \notin PaidByStore /\ p \notin PaidByStore')
      BY <1>4, <1>5, <1>6 DEF PaidByStore
    <2>. QED
      BY <1>2, <2>1, PaidKept
  <1>8. SameSums
    BY <1>2, <1>7, RemittedSame, MarkedSame DEF SameSums
  <1>9. Balanced(0, 0, 0, 0)' /\ StoresUndone'
    BY <1>2, <1>4, <1>5, <1>8, InOrderIdle, StillBalanced DEF StoresUndone
  <1>. QED
    BY <1>2, <1>9, StaysBalanced

LEMMA SaveBalanced ==
  ASSUME InOrder, NEW h \in Handlers, SavePayment(h)
  PROVE  StoreInv'
  <1> USE DEF InOrder, Undisturbed
  <1> DEFINE p == task[h].payment
             to == StatusOf(task[h].event)
             a == payment[p].amount
             g == [task[h] EXCEPT !.kind = "gather"]
             r == [task[h] EXCEPT !.kind = "read", !.then = "idle",
                                  !.todo = <<Due(-a), Admin(a)>>]
  <1>1. task[h].kind = "save" /\ task[h] \in Tasks /\ p \in Payments
    BY TaskFields DEF SavePayment, Busy, TaskRight
  <1>2. /\ OnlyBusy(h) /\ Balanced(0, 0, 0, 0) /\ StoresUndone
        /\ OfRider(p) \/ (payment[p].status # "CAPTURED" /\ ~task[h].done)
    BY <1>1, InOrderStage DEF Stage
  <1>3. UNCHANGED <<order, wallet, handed>>
    BY DEF SavePayment
  <1>4. payment' = payment \/ payment' = [payment EXCEPT ![p].status = to]
    BY DEF SavePayment
  <1>5. \A q \in Payments : /\ payment'[q].by = payment[q].by
                            /\ payment'[q].done = payment[q].done
                            /\ payment'[q].amount = payment[q].amount
                            /\ q # p => payment'[q] = payment[q]
                            /\ payment'[q].status \in {payment[q].status, to}
    BY <1>1, <1>4, PaymentFields DEF PaymentRecords
  <1>6. StoresUndone'
    BY <1>2, <1>5 DEF StoresUndone
  <1>7. Remitted' = Remitted /\ Marked' = Marked
    BY <1>3, RemittedSame, MarkedSame
  <1>8. payment[p].by \in {"rider", "store"} /\ a \in Nat
    BY <1>1, PaymentFields DEF PaymentRecords
  <1>9. CASE to # "CAPTURED" \/ payment[p].by = "rider"
    <2>1. Paid' = Paid
      <3>1. p \notin PaidByStore /\ p \notin PaidByStore'
        BY <1>1, <1>2, <1>5, <1>8, <1>9 DEF PaidByStore, OfRider
      <3>2. ASSUME NEW q \in Payments
            PROVE  payment'[q] = payment[q] \/ (q \notin PaidByStore /\ q \notin PaidByStore')
        BY <1>5, <3>1
      <3>. QED
        BY <1>3, <3>2, PaidKept
    <2>2. Balanced(0, 0, 0, 0)'
      BY <1>2, <1>3, <1>7, <2>1, StillBalanced DEF SameSums
    <2>3. Finish(h) \/ (payment[p].by = "rider" /\ Continue(h, g))
      BY <1>9 DEF SavePayment
    <2>4. CASE Finish(h)
      BY <1>2, <1>6, <2>2, <2>4, EndsBalanced
    <2>5. CASE payment[p].by = "rider" /\ Continue(h, g)
      <3>1. task'[h].kind = "gather" /\ task'[h].payment = p
        BY <1>1, <2>5 DEF Continue, TypeInv, TypeOK, Tasks
      <3>. QED
        BY <1>1, <1>5, <1>6, <2>2, <2>5, <3>1, GoesOnBalanced DEF Stage, OfRider
    <2>. QED
      BY <2>3, <2>4, <2>5
  <1>10. CASE to = "CAPTURED" /\ payment[p].by = "store"
    <2>1. payment[p].status # "CAPTURED" /\ ~task[h].done
      BY <1>1, <1>2, <1>10 DEF OfRider
    <2>2. /\ payment' = [payment EXCEPT ![p].status = "CAPTURED"]
          /\ Continue(h, r)
      BY <1>10, <2>1 DEF SavePayment, CanTransition, Due, Admin
    <2>3. Paid' = Paid + a
      BY <1>1, <1>3, <1>10, <2>1, <2>2, PaidGrows
    <2>. PICK n \in Nat : n = a
      BY <1>8
    <2>4. Balanced(0, 0, n, n)'
      BY <1>2, <1>3, <1>7, <2>3, SumsAreNumbers, WalletNumbers DEF Balanced, Lost
    <2>5. /\ task'[h].kind = "read" /\ task'[h].then = "idle"
          /\ task'[h].todo = <<Due(-n), Admin(n)>>
      BY <1>1, <2>2 DEF Continue, TypeInv, TypeOK, Tasks
    <2>6. Pays(h)'
      BY <2>4, <2>5 DEF Pays, Due, Admin
    <2>. QED
      BY <1>6, <2>5, <2>6, GoesOnBalanced DEF Stage
  <1>. QED
    BY <1>8, <1>9, <1>10

(* Amounts spread over the rider's orders, and what is handed in.          *)
LEMMA GatherBalanced ==
  ASSUME InOrder, NEW h \in Handlers, Gather(h)
  PROVE  StoreInv'
  <1> USE DEF InOrder, Undisturbed
  <1>1. task[h].kind = "gather" /\ task[h] \in Tasks
    BY TaskFields DEF Gather, Busy
  <1>2. Balanced(0, 0, 0, 0) /\ OfRider(task[h].payment) /\ StoresUndone
    BY <1>1, InOrderStage DEF Stage
  <1>3. UNCHANGED <<order, wallet, payment, handed>>
    BY DEF Gather
  <1>4. task'[h].kind = "apply" /\ task'[h].payment = task[h].payment
    BY <1>1 DEF Gather, Continue, TypeInv, TypeOK, Tasks
  <1>5. SameSums
    BY <1>3, RemittedSame, MarkedSame, PaidSame DEF SameSums
  <1>6. Balanced(0, 0, 0, 0)' /\ OfRider(task[h].payment)' /\ StoresUndone'
    BY <1>2, <1>3, <1>4, <1>5, StillBalanced DEF OfRider, StoresUndone
  <1>. QED
    BY <1>3, <1>4, <1>6, GoesOnBalanced DEF Stage, OfRider

(* What is remitted goes to the platform.                                  *)
LEMMA ReconcileBalanced ==
  ASSUME InOrder, Balanced(0, 0, 0, 0), NEW o \in Orders, NEW amount \in Nat,
         Reconcilable(o, amount), reconcileCodCash(o, amount), UNCHANGED <<payment, handed>>
  PROVE  Balanced(0, 0, 0, 0)'
  <1> USE DEF InOrder, Undisturbed
  <1>1. o \in RiderOrders
    <2>1. order[o].collected # 0
      BY OrderFields DEF Reconcilable, Pending
    <2>. QED
      BY <2>1 DEF BookInv
  <1>2. order' = [order EXCEPT ![o].remitted = order[o].remitted + amount]
    BY DEF reconcileCodCash
  <1>3. Remitted' = Remitted + amount
    BY <1>1, <1>2, RemittedGrows
  <1>4. \A x \in StoreOrders : order'[x].counted = order[x].counted
    BY <1>1, <1>2, OrderFields, StoreFinite DEF OrderRecords
  <1>5. Marked' = Marked /\ Paid' = Paid
    BY <1>4, MarkedSame, PaidSame
  <1>6. /\ wallet'.due = wallet.due /\ wallet'.available = wallet.available
        /\ wallet'.admin = wallet.admin + amount
    BY WalletNumbers DEF reconcileCodCash
  <1>. QED
    BY <1>3, <1>5, <1>6, SumsAreNumbers, WalletNumbers DEF Balanced, Lost

LEMMA ReconcileNextBalanced ==
  ASSUME InOrder, NEW h \in Handlers, NEW o \in Orders, ReconcileNext(h, o)
  PROVE  StoreInv'
  <1> USE DEF InOrder, Undisturbed
  <1>1. task[h].kind = "apply" /\ task[h] \in Tasks
    BY TaskFields DEF ReconcileNext, Busy
  <1>2. /\ Balanced(0, 0, 0, 0) /\ OfRider(task[h].payment) /\ StoresUndone
        /\ OnlyBusy(h)
    BY <1>1, InOrderStage DEF Stage
  <1>3. UNCHANGED <<payment, handed>>
    BY DEF ReconcileNext
  <1>4. StoresUndone'
    BY <1>2, <1>3 DEF StoresUndone
  <1>5. CASE Reconcilable(o, Share(h, o)) /\ reconcileCodCash(o, Share(h, o))
             /\ Continue(h, Less(h, o))
    <2>1. Share(h, o) \in Nat
      BY ShareBounds
    <2>2. Balanced(0, 0, 0, 0)'
      BY <1>2, <1>3, <1>5, <2>1, ReconcileBalanced
    <2>3. task'[h].kind = "apply" /\ task'[h].payment = task[h].payment
      BY <1>1, <1>5 DEF Less, Continue, TypeInv, TypeOK, Tasks
    <2>. QED
      BY <1>2, <1>3, <1>4, <2>2, <2>3, GoesOnBalanced DEF Stage, OfRider
  <1>6. CASE Finish(h) /\ UNCHANGED <<order, wallet, ledger>>
    <2>1. SameSums
      BY <1>3, <1>6, RemittedSame, MarkedSame, PaidSame DEF SameSums
    <2>2. Balanced(0, 0, 0, 0)'
      BY <1>2, <1>6, <2>1, StillBalanced
    <2>. QED
      BY <1>2, <1>4, <1>6, <2>2, EndsBalanced
  <1>. QED
    BY <1>5, <1>6 DEF ReconcileNext

LEMMA RecordBalanced ==
  ASSUME InOrder, NEW h \in Handlers, RecordSettlement(h)
  PROVE  StoreInv'
  <1> USE DEF InOrder, Undisturbed
  <1> DEFINE p == task[h].payment
  <1>1. task[h].kind = "apply" /\ p \in Payments \cup {0}
    BY TaskFields DEF RecordSettlement, Busy, Tasks
  <1>2. OnlyBusy(h) /\ Balanced(0, 0, 0, 0) /\ OfRider(p) /\ StoresUndone
    BY <1>1, InOrderStage DEF Stage
  <1>3. UNCHANGED <<order, wallet, handed>> /\ Finish(h)
    BY DEF RecordSettlement
  <1>4. payment' = IF p = 0 THEN payment ELSE [payment EXCEPT ![p].done = TRUE]
    BY DEF RecordSettlement
  <1>5. \A q \in Payments : /\ payment'[q].by = payment[q].by
                            /\ payment'[q].status = payment[q].status
                            /\ payment'[q].amount = payment[q].amount
                            /\ q # p => payment'[q] = payment[q]
    BY <1>1, <1>4, PaymentFields DEF PaymentRecords
  <1>6. Paid' = Paid
    BY <1>3, <1>5, PaidKept
  <1>7. SameSums
    BY <1>3, <1>6, RemittedSame, MarkedSame DEF SameSums
  <1>8. Balanced(0, 0, 0, 0)'
    BY <1>2, <1>3, <1>7, StillBalanced
  <1>9. StoresUndone'
    <2>1. ASSUME NEW q \in Payments, payment'[q].by = "store" PROVE ~payment'[q].done
      <3>1. q # p
        BY <1>2, <1>5, <2>1 DEF OfRider
      <3>. QED
        BY <1>2, <1>5, <2>1, <3>1 DEF StoresUndone
    <2>. QED
      BY <2>1 DEF StoresUndone
  <1>. QED
    BY <1>2, <1>3, <1>8, <1>9, EndsBalanced

LEMMA HandInBalanced ==
  ASSUME InOrder, NEW h \in Handlers, NEW amount \in Amounts, NEW byDesk \in BOOLEAN,
         HandInCash(h, amount, byDesk)
  PROVE  StoreInv'
  <1> USE DEF InOrder, Undisturbed
  <1> DEFINE t == [Idle EXCEPT !.kind = "apply", !.found = Owed, !.left = amount]
  <1>1. Start(h, t) /\ UNCHANGED <<order, wallet, payment, handed>>
    BY DEF HandInCash
  <1>2. t.kind = "apply" /\ t.payment = 0
    BY DEF Idle
  <1> HIDE DEF t
  <1>3. task'[h] = t /\ Alone
    BY <1>1 DEF Start, TypeInv, TypeOK
  <1>4. SameSums
    BY <1>1, RemittedSame, MarkedSame, PaidSame DEF SameSums
  <1>5. Balanced(0, 0, 0, 0)' /\ StoresUndone'
    BY <1>1, <1>3, <1>4, InOrderIdle, StillBalanced DEF StoresUndone
  <1>6. 0 \notin Payments
    BY CodAssumption DEF Payments
  <1>. QED
    BY <1>2, <1>3, <1>5, <1>6, GoesOnBalanced DEF Stage, OfRider

LEMMA DeskBalanced ==
  ASSUME InOrder, NEW h \in Handlers, NEW amount \in Amounts,
         adminReconcileSellerCommission(h, amount)
  PROVE  StoreInv'
  <1> USE DEF InOrder, Undisturbed
  <1> DEFINE t == [Idle EXCEPT !.kind = "read", !.todo = <<Due(-amount), Admin(amount)>>]
  <1>1. /\ Start(h, t) /\ UNCHANGED <<order, wallet, payment>>
        /\ handed' = handed + amount
    BY DEF adminReconcileSellerCommission, Due, Admin
  <1>2. amount \in Nat
    BY CodAssumption DEF Amounts
  <1>3. t.kind = "read" /\ t.then = "idle" /\ t.todo = <<Due(-amount), Admin(amount)>>
    BY DEF Idle
  <1> HIDE DEF t
  <1>4. task'[h] = t /\ Alone
    BY <1>1 DEF Start, TypeInv, TypeOK
  <1>5. Balanced(0, 0, 0, 0) /\ StoresUndone
    BY <1>4, InOrderIdle
  <1>6. Remitted' = Remitted /\ Marked' = Marked
    BY <1>1, RemittedSame, MarkedSame
  <1>7. Paid' = Paid + amount
    <2> DEFINE s == SumFunctionOnSet([p \in Payments |-> payment[p].amount], PaidByStore)
    <2>1. Paid = s + handed
      BY DEF Paid
    <2>2. Paid' = s + handed'
      BY <1>1 DEF Paid, PaidByStore
    <2> HIDE DEF s
    <2>3. Paid \in Int /\ handed \in Nat
      BY SumsAreNumbers DEF TypeInv, TypeOK
    <2>4. s \in Int
      <3> DEFINE f == [p \in Payments |-> payment[p].amount]
      <3>1. \A p \in PaidByStore : f[p] \in Int
        BY PaymentFields, StoreFinite
      <3> HIDE DEF f
      <3>2. SumFunctionOnSet(f, PaidByStore) \in Int
        BY <3>1, StoreFinite, SumSame
      <3>. QED
        BY <3>2 DEF s, f
    <2>. QED
      BY <1>1, <1>2, <2>1, <2>2, <2>3, <2>4
  <1>8. Balanced(0, 0, amount, amount)'
    BY <1>1, <1>2, <1>5, <1>6, <1>7, SumsAreNumbers, WalletNumbers DEF Balanced, Lost
  <1>9. Pays(h)'
    BY <1>2, <1>3, <1>4, <1>8 DEF Pays, Due, Admin
  <1>. QED
    BY <1>1, <1>3, <1>4, <1>5, <1>9, GoesOnBalanced DEF Stage, StoresUndone

LEMMA HandlerBalanced ==
  ASSUME InOrder, NEW h \in Handlers, Work(h) \/ Serve(h) \/ Crash(h)
  PROVE  StoreInv'
  <1>1. ~Crash(h)
    BY DEF InOrder, Undisturbed, Calm, Crash, Surprise
  <1>2. CASE Work(h)
    BY <1>2, SettleBalanced, CountBalanced, MarkBalanced, ReadBalanced, WriteBalanced,
       OffsetBalanced, SaveBalanced, GatherBalanced, RecordBalanced, ReconcileNextBalanced
       DEF Work
  <1>3. CASE Serve(h)
    <2>1. ASSUME NEW p \in Payments, NEW event \in Events, Webhook(h, p, event) \/ Verify(h, p, event)
          PROVE  StoreInv'
      <3>1. UNCHANGED <<order, wallet, payment, handed>>
        BY <2>1 DEF Webhook, Verify
      <3>. QED
        BY <2>1, <3>1, WebhookBalanced, NothingChanges
    <2>. QED
      BY <1>3, <2>1, DeliveryBalanced, HandInBalanced, DeskBalanced DEF Serve
  <1>. QED
    BY <1>1, <1>2, <1>3

LEMMA NextBalanced ==
  TypeInv /\ CashInv /\ BookInv /\ PaidInv /\ StoreInv /\ [Next]_vars => StoreInv'
  <1> SUFFICES ASSUME TypeInv, CashInv, BookInv, PaidInv, StoreInv, [Next]_vars
               PROVE  StoreInv'
    OBVIOUS
  <1>1. CASE ~Calm
    BY <1>1, SettingKept DEF Calm, StoreInv
  <1>2. CASE Calm
    <2>1. InOrder
      BY <1>2 DEF InOrder, Undisturbed, PaidInv
    <2>2. ASSUME NEW h \in Handlers, Work(h) \/ Serve(h) \/ Crash(h)
          PROVE  StoreInv'
      BY <2>1, <2>2, HandlerBalanced
    <2>3. ASSUME NEW o \in RiderOrders, NEW net \in 0 .. Cash[o],
                 markCodCollectedAfterDelivery(o, net)
          PROVE  StoreInv'
      <3>1. /\ Alone /\ handleCodOrderFinance(o, net)
            /\ UNCHANGED <<payment, handed, task>> /\ net \in Nat
        BY <2>3, CashIsNat DEF markCodCollectedAfterDelivery
      <3>2. /\ SameSums /\ wallet'.due = wallet.due /\ wallet'.available = wallet.available
            /\ wallet'.admin = wallet.admin
        BY <3>1, CollectionSums
      <3>3. Balanced(0, 0, 0, 0)' /\ StoresUndone'
        BY <2>1, <3>1, <3>2, InOrderIdle, StillBalanced DEF StoresUndone
      <3>. QED
        BY <2>1, <3>1, <3>3, StaysBalanced
    <2>4. ASSUME NEW o \in Orders, NEW amount \in Amounts, reconcileCodCashSubmission(o, amount)
          PROVE  StoreInv'
      <3>1. /\ Alone /\ Reconcilable(o, amount) /\ reconcileCodCash(o, amount)
            /\ UNCHANGED <<payment, handed, task>> /\ amount \in Nat
        BY <2>4, CodAssumption DEF reconcileCodCashSubmission, Amounts
      <3>2. Balanced(0, 0, 0, 0) /\ StoresUndone
        BY <2>1, <3>1, InOrderIdle
      <3>3. Balanced(0, 0, 0, 0)' /\ StoresUndone'
        BY <2>1, <3>1, <3>2, ReconcileBalanced DEF StoresUndone
      <3>. QED
        BY <2>1, <3>1, <3>3, StaysBalanced
    <2>5. ASSUME NEW amount \in Amounts,
                 createCodRemittanceCheckout(amount) \/ createSellerCodCommissionCheckout(amount)
          PROVE  StoreInv'
      BY <2>1, <2>5, OpenBalanced
    <2>6. ASSUME NEW p \in Payments, Capture(p)
          PROVE  StoreInv'
      BY <2>1, <2>6, NothingChanges DEF Capture
    <2>7. CASE UNCHANGED vars
      BY <2>1, <2>7, NothingChanges DEF vars
    <2>. QED
      BY <2>2, <2>3, <2>4, <2>5, <2>6, <2>7 DEF Next
  <1>. QED
    BY <1>1, <1>2

LEMMA InitBalanced == Init => StoreInv
  <1> SUFFICES ASSUME Init PROVE StoreInv
    OBVIOUS
  <1>1. \A h \in Handlers : task[h] = Idle
    BY DEF Init
  <1>2. StoresUndone
    BY DEF Init, StoresUndone, NoPayment
  <1>3. Remitted = 0
    <2> DEFINE f == [o \in Orders |-> order[o].remitted]
    <2>1. \A o \in RiderOrders : f[o] = 0
      BY RidersFinite DEF Init, NewOrder
    <2> HIDE DEF f
    <2>2. SumFunctionOnSet(f, RiderOrders) = 0
      BY <2>1, RidersFinite, SumOfZeros
    <2>. QED
      BY <2>2 DEF Remitted, f
  <1>4. Paid = 0
    <2>1. PaidByStore = {}
      BY DEF Init, PaidByStore, NoPayment
    <2>2. SumFunctionOnSet([p \in Payments |-> payment[p].amount], {}) = 0
      BY SumEmpty
    <2>. QED
      BY <2>1, <2>2 DEF Paid, Init
  <1>5. Marked = 0
    <2>1. {o \in StoreOrders : order[o].counted} = {}
      BY StoreFinite DEF Init, NewOrder
    <2>2. Cardinality({o \in StoreOrders : order[o].counted}) = 0
      BY <2>1, FS_EmptySet, Zenon
    <2>3. Marked = Commission * 0
      BY <2>2, Zenon DEF Marked
    <2>. QED
      BY <2>3, StoreFinite
  <1>6. wallet.due = 0 /\ wallet.admin = 0 /\ Lost = 0
    BY StoreFinite DEF Init, Lost
  <1>. QED
    BY <1>1, <1>2, <1>3, <1>4, <1>5, <1>6 DEF StoreInv, Balanced

(* While handlers neither overlap nor die, whenever none is at work the    *)
(* platform has what was remitted, set off and paid, and the store owes    *)
(* what it was charged, less what it set off and at most what it paid      *)
(* (applyDeliveredSettlement, handleCommissionPaymentCaptured,             *)
(* adminReconcileSellerCommission).                                        *)
THEOREM CommissionIsAccounted == Spec => []CommissionAccounted
  <1>1. TypeInv /\ StoreInv => CommissionAccounted
    <2> SUFFICES ASSUME TypeInv, StoreInv, Calm, \A h \in Handlers : task[h] = Idle
                 PROVE  CommissionAccounted
      BY DEF CommissionAccounted
    <2>1. Balanced(0, 0, 0, 0)
      BY DEF StoreInv
    <2>2. /\ wallet.admin = Remitted + Lost + Paid
          /\ wallet.due + Lost <= Marked
          /\ Marked <= wallet.due + Lost + Paid
      BY <2>1, SumsAreNumbers, WalletNumbers DEF Balanced
    <2>. QED
      BY <2>2 DEF CommissionAccounted, Remitted, Lost, Paid, Marked
  <1>. QED
    BY <1>1, AlwaysWithinCash, InitBooks, NextBooks, InitPaid, NextPaid, InitBalanced,
       NextBalanced, PTL DEF Spec
=============================================================================
