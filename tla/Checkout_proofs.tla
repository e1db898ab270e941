-------------------------- MODULE Checkout_proofs --------------------------
(***************************************************************************)
(* Checkouts under every fault, for any number of keys, orders, handlers   *)
(* and customers: one order carries a key, the coupon counts its           *)
(* redemptions within its limits, and stock and wallets stay natural       *)
(* numbers.  Without cancellations from a stale read nothing is oversold.  *)
(*                                                                         *)
(* One order per key rests on PlacingIsNew: whoever is in the transaction  *)
(* has looked for an order with its key and found none, and one placed     *)
(* since then has left its group behind, which the unique index sees.      *)
(*                                                                         *)
(* What customers are told rests on Truth, in the last part: whatever      *)
(* would tell of an order has one behind it, and while calm whoever        *)
(* refuses a request is the only one to serve it.                          *)
(***************************************************************************)
EXTENDS Checkout, FiniteSetTheorems, TLAPS

Serving == {"check", "acquire", "lookup", "found", "place", "placed", "duplicate",
            "refused"}
GivingBack == {"cancel", "read", "release", "mark", "restore", "reverse"}

(* A request under way has its key, a cancellation an order that exists.   *)
NamesItsSubject(t) ==
  /\ t.kind \in Serving => t.key \in Keys
  /\ t.kind \in GivingBack => t.order \in Orders /\ order[t.order].status # "none"

PlacingIsNew(t) == t.kind = "place" => Carrying(t.key) = {} \/ t.key \in groups

Right(t) == NamesItsSubject(t) /\ PlacingIsNew(t)

TasksRight == \A h \in Handlers : Right(task[h])

OrdersRight ==
  \A o \in Orders :
    IF order[o].status = "none" THEN order[o] = NoOrder
    ELSE order[o].request \in Keys /\ order[o].key \in {order[o].request, None}

KeyInv == TypeOK /\ TasksRight /\ OrdersRight /\ OneOrderPerKey

-----------------------------------------------------------------------------
LEMMA RequestTyped ==
  ASSUME TypeOK
  PROVE  /\ setting.surprises \subseteq Surprises
         /\ \A k \in Keys : Request[k] \in Requests
         /\ UsageLimit \in Nat
BY CheckoutAssumption DEF TypeOK, Request, UsageLimit

(* An answer, a next step, the end and the start of a task are well formed. *)
LEMMA IdleTyped == Idle \in Tasks
BY CheckoutAssumption DEF Idle, Tasks, TaskKinds

LEMMA FinishTyped ==
  ASSUME TypeOK, NEW h \in Handlers, Finish(h)
  PROVE  task' \in [Handlers -> Tasks]
BY IdleTyped DEF Finish, TypeOK

LEMMA ContinueTyped ==
  ASSUME TypeOK, NEW h \in Handlers, NEW kind \in TaskKinds, Continue(h, kind)
  PROVE  task' \in [Handlers -> Tasks]
<1>1. task \in [Handlers -> Tasks]
  BY DEF TypeOK
<1> QED BY <1>1 DEF Continue, Tasks

LEMMA AnswerTyped ==
  ASSUME TypeOK, NEW h \in Handlers, NEW a \in Answers, Answer(h, a)
  PROVE  task' \in [Handlers -> Tasks] /\ told' \in [Keys -> Answers]
<1>1. told \in [Keys -> Answers]
  BY DEF TypeOK
<1>2. told' \in [Keys -> Answers]
  BY <1>1 DEF Answer
<1>3. Finish(h)
  BY DEF Answer
<1> QED BY <1>2, <1>3, FinishTyped

LEMMA StartTyped ==
  ASSUME TypeOK, NEW h \in Handlers, NEW t \in Tasks, Start(h, t)
  PROVE  task' \in [Handlers -> Tasks]
BY DEF Start, TypeOK

LEMMA NewTasksTyped ==
  /\ \A k \in Keys : [Idle EXCEPT !.kind = "check", !.key = k] \in Tasks
  /\ \A o \in Orders : /\ Compensating(o) \in Tasks
                       /\ [Compensating(o) EXCEPT !.kind = "cancel"] \in Tasks
BY IdleTyped DEF Compensating, Tasks, TaskKinds

(* The cache after any of its operations.                                  *)
LEMMA CacheTyped ==
  ASSUME TypeOK, NEW k
  PROVE  /\ WithResult(k) \in [Keys -> CacheEntries]
         /\ WithError(k) \in [Keys -> CacheEntries]
         /\ WithoutLock(k) \in [Keys -> CacheEntries]
         /\ [cache EXCEPT ![k].locked = TRUE] \in [Keys -> CacheEntries]
         /\ [cache EXCEPT ![k].error = FALSE] \in [Keys -> CacheEntries]
         /\ [cache EXCEPT ![k].result = FALSE] \in [Keys -> CacheEntries]
BY DEF TypeOK, WithResult, WithError, WithoutLock, CacheEntries

(* An order after any write to it.                                         *)
LEMMA OrderTyped ==
  ASSUME TypeOK, NEW o
  PROVE  /\ [order EXCEPT ![o].status = "cancelled"] \in [Orders -> OrderRecords]
         /\ [order EXCEPT ![o].reservation = "RELEASED"] \in [Orders -> OrderRecords]
         /\ [order EXCEPT ![o].redeemed = FALSE] \in [Orders -> OrderRecords]
         /\ [order EXCEPT ![o].reversed = TRUE] \in [Orders -> OrderRecords]
         /\ [order EXCEPT ![o].status = "cancelled", ![o].reservation = "RELEASED",
                          ![o].redeemed = FALSE] \in [Orders -> OrderRecords]
<1>1. order \in [Orders -> OrderRecords]
  BY DEF TypeOK
<1>2. [order EXCEPT ![o].status = "cancelled"] \in [Orders -> OrderRecords]
  BY <1>1 DEF OrderRecords
<1>3. [order EXCEPT ![o].reservation = "RELEASED"] \in [Orders -> OrderRecords]
  BY <1>1 DEF OrderRecords
<1>4. [order EXCEPT ![o].redeemed = FALSE] \in [Orders -> OrderRecords]
  BY <1>1 DEF OrderRecords
<1>5. [order EXCEPT ![o].reversed = TRUE] \in [Orders -> OrderRecords]
  BY <1>1 DEF OrderRecords
<1>6. [order EXCEPT ![o].status = "cancelled", ![o].reservation = "RELEASED",
                    ![o].redeemed = FALSE] \in [Orders -> OrderRecords]
  <2> DEFINE new == [order EXCEPT ![o].status = "cancelled", ![o].reservation = "RELEASED",
                                  ![o].redeemed = FALSE]
  <2>1. \A p \in Orders :
          new[p] = IF p = o THEN [order[p] EXCEPT !.status = "cancelled",
                                    !.reservation = "RELEASED", !.redeemed = FALSE]
                   ELSE order[p]
    BY <1>1
  <2>2. new = [p \in Orders |-> new[p]]
    BY <1>1
  <2>3. \A p \in Orders :
          [order[p] EXCEPT !.status = "cancelled", !.reservation = "RELEASED",
                           !.redeemed = FALSE] \in OrderRecords
    BY <1>1 DEF OrderRecords
  <2> HIDE DEF new
  <2>4. \A p \in Orders : new[p] \in OrderRecords
    BY <1>1, <2>1, <2>3
  <2>5. new \in [Orders -> OrderRecords]
    BY <2>2, <2>4
  <2> QED BY <2>5 DEF new
<1> QED BY <1>2, <1>3, <1>4, <1>5, <1>6

(* The transaction takes one unit, at most one use and at most one of the  *)
(* wallet, none of which was used up.                                      *)
LEMMA CommitTyped ==
  ASSUME TypeOK, NEW k \in Keys, Commit(k)
  PROVE  /\ order' \in [Orders -> OrderRecords] /\ groups' \subseteq Keys
         /\ stock' \in Nat /\ coupon' \in [usedCount : Nat, isActive : BOOLEAN]
         /\ wallet' \in [Customers -> Nat] /\ cart' \subseteq Customers
<1>1. Request[k] \in Requests
  BY RequestTyped
<1>2. NewOrder(k) \in OrderRecords
  BY <1>1 DEF NewOrder, OrderRecords, Requests
<1>3. order' \in [Orders -> OrderRecords] /\ groups' \subseteq Keys /\ cart' \subseteq Customers
  BY <1>2 DEF Commit, TypeOK
<1>4. stock' \in Nat
  BY DEF Commit, Possible, reserveStockForItems, TypeOK
<1>5. coupon' \in [usedCount : Nat, isActive : BOOLEAN]
  BY RequestTyped DEF Commit, consumeCouponUsageAtomic, TypeOK
<1>6. wallet' \in [Customers -> Nat]
  <2>1. CASE Request[k].wallet
    BY <2>1, <1>1 DEF Commit, Possible, TypeOK, Requests
  <2>2. CASE ~Request[k].wallet
    BY <2>2 DEF Commit, TypeOK
  <2> QED BY <2>1, <2>2
<1> QED BY <1>3, <1>4, <1>5, <1>6

-----------------------------------------------------------------------------
(* Every step keeps everything well formed.                                *)
LEMMA ServeTyped ==
  ASSUME TypeOK, TasksRight, NEW h \in Handlers, Serve(h)
  PROVE  TypeOK'
<1>1. CASE checkIdempotency(h)
  <2>1. \/ Continue(h, "acquire") /\ UNCHANGED told
        \/ Answer(h, "failed") \/ Answer(h, "order") \/ Answer(h, "busy")
    BY <1>1 DEF checkIdempotency
  <2>2. task' \in [Handlers -> Tasks]
    BY <2>1, ContinueTyped, AnswerTyped DEF TaskKinds, Answers
  <2>3. told \in [Keys -> Answers]
    BY DEF TypeOK
  <2>4. told' \in [Keys -> Answers]
    BY <2>1, <2>3, AnswerTyped DEF Answers
  <2> QED BY <1>1, <2>2, <2>4 DEF checkIdempotency, TypeOK, goods
<1>2. CASE acquireIdempotencyLock(h)
  <2>1. \/ Continue(h, "lookup") /\ UNCHANGED told
        \/ Answer(h, "busy")
    BY <1>2 DEF acquireIdempotencyLock
  <2>2. task' \in [Handlers -> Tasks]
    BY <2>1, ContinueTyped, AnswerTyped DEF TaskKinds, Answers
  <2>3. told \in [Keys -> Answers] /\ cache \in [Keys -> CacheEntries]
    BY DEF TypeOK
  <2>4. told' \in [Keys -> Answers]
    BY <2>1, <2>3, AnswerTyped DEF Answers
  <2>5. \/ cache' = [cache EXCEPT ![task[h].key].locked = TRUE]
        \/ UNCHANGED cache
    BY <1>2 DEF acquireIdempotencyLock
  <2>6. [cache EXCEPT ![task[h].key].locked = TRUE] \in [Keys -> CacheEntries]
    BY CacheTyped
  <2>7. cache' \in [Keys -> CacheEntries]
    BY <2>3, <2>5, <2>6
  <2> QED BY <1>2, <2>2, <2>4, <2>7 DEF acquireIdempotencyLock, TypeOK, goods
<1>3. CASE findExistingCheckoutByIdempotency(h)
  <2>1. Continue(h, "found") \/ Continue(h, "place")
    BY <1>3 DEF findExistingCheckoutByIdempotency
  <2>2. task' \in [Handlers -> Tasks]
    BY <2>1, ContinueTyped DEF TaskKinds
  <2> QED BY <1>3, <2>2 DEF findExistingCheckoutByIdempotency, TypeOK, goods
<1>4. CASE ReturnExisting(h)
  <2>1. Answer(h, "order") \/ Answer(h, "failed")
    BY <1>4 DEF ReturnExisting
  <2>2. task' \in [Handlers -> Tasks] /\ told' \in [Keys -> Answers]
    BY <2>1, AnswerTyped DEF Answers
  <2>3. cache \in [Keys -> CacheEntries] /\ WithResult(task[h].key) \in [Keys -> CacheEntries]
    BY CacheTyped DEF TypeOK
  <2>4. cache' \in [Keys -> CacheEntries]
    BY <1>4, <2>3 DEF ReturnExisting
  <2> QED BY <1>4, <2>2, <2>4 DEF ReturnExisting, TypeOK, goods
<1>5. CASE PlaceOrder(h)
  <2>1. Continue(h, "placed")
    BY <1>5 DEF PlaceOrder
  <2>2. task' \in [Handlers -> Tasks]
    BY <2>1, ContinueTyped DEF TaskKinds
  <2>3. task[h].key \in Keys
    BY <1>5 DEF PlaceOrder, Busy, TasksRight, Right, NamesItsSubject, Serving
  <2>4. Commit(task[h].key) /\ UNCHANGED <<cache, told, crashes, setting>>
    BY <1>5 DEF PlaceOrder
  <2> QED BY <2>2, <2>3, <2>4, CommitTyped DEF TypeOK
<1>6. CASE RefuseOrder(h)
  <2>1. Continue(h, "refused")
    BY <1>6 DEF RefuseOrder
  <2>2. task' \in [Handlers -> Tasks]
    BY <2>1, ContinueTyped DEF TaskKinds
  <2> QED BY <1>6, <2>2 DEF RefuseOrder, TypeOK, goods
<1>7. CASE DuplicateKey(h)
  <2>1. Continue(h, "duplicate")
    BY <1>7 DEF DuplicateKey
  <2>2. task' \in [Handlers -> Tasks]
    BY <2>1, ContinueTyped DEF TaskKinds
  <2> QED BY <1>7, <2>2 DEF DuplicateKey, TypeOK, goods
<1>8. CASE UnknownCommit(h)
  <2>1. Continue(h, "refused") /\ UNCHANGED <<cache, told, crashes, setting>>
    BY <1>8 DEF UnknownCommit
  <2>2. task' \in [Handlers -> Tasks]
    BY <2>1, ContinueTyped DEF TaskKinds
  <2>3. task[h].key \in Keys
    BY <1>8 DEF UnknownCommit, Busy, TasksRight, Right, NamesItsSubject, Serving
  <2>4. CASE Commit(task[h].key)
    BY <2>1, <2>2, <2>3, <2>4, CommitTyped DEF TypeOK
  <2>5. CASE UNCHANGED <<groups, order, goods>>
    BY <2>1, <2>2, <2>5 DEF TypeOK, goods
  <2> QED BY <1>8, <2>4, <2>5 DEF UnknownCommit
<1>9. CASE RetryConflict(h)
  <2>1. task[h] \in Tasks /\ task \in [Handlers -> Tasks]
    BY DEF TypeOK
  <2>2. task[h].tries + 1 \in 0..MaxRetries
    BY <1>9, <2>1, CheckoutAssumption DEF RetryConflict, Tasks
  <2> DEFINE again == [task[h] EXCEPT !.kind = "check", !.tries = @ + 1]
  <2>3. task' = [task EXCEPT ![h] = again]
    BY <1>9, <2>1 DEF RetryConflict
  <2>4. again \in Tasks
    BY <2>1, <2>2 DEF Tasks, TaskKinds
  <2> HIDE DEF again
  <2>5. task' \in [Handlers -> Tasks]
    BY <2>1, <2>3, <2>4
  <2>6. cache \in [Keys -> CacheEntries] /\ WithoutLock(task[h].key) \in [Keys -> CacheEntries]
    BY CacheTyped DEF TypeOK
  <2>7. cache' \in [Keys -> CacheEntries]
    BY <1>9, <2>6 DEF RetryConflict
  <2> QED BY <1>9, <2>5, <2>7 DEF RetryConflict, TypeOK, goods
<1>10. CASE GiveUp(h)
  <2>1. Answer(h, "busy")
    BY <1>10 DEF GiveUp
  <2>2. task' \in [Handlers -> Tasks] /\ told' \in [Keys -> Answers]
    BY <2>1, AnswerTyped DEF Answers
  <2>3. cache \in [Keys -> CacheEntries] /\ WithoutLock(task[h].key) \in [Keys -> CacheEntries]
    BY CacheTyped DEF TypeOK
  <2>4. cache' \in [Keys -> CacheEntries]
    BY <1>10, <2>3 DEF GiveUp
  <2> QED BY <1>10, <2>2, <2>4 DEF GiveUp, TypeOK, goods
<1>11. CASE StoreResult(h)
  <2>1. Answer(h, "order")
    BY <1>11 DEF StoreResult
  <2>2. task' \in [Handlers -> Tasks] /\ told' \in [Keys -> Answers]
    BY <2>1, AnswerTyped DEF Answers
  <2>3. cache \in [Keys -> CacheEntries] /\ WithResult(task[h].key) \in [Keys -> CacheEntries]
    BY CacheTyped DEF TypeOK
  <2>4. cache' \in [Keys -> CacheEntries]
    BY <1>11, <2>3 DEF StoreResult
  <2> QED BY <1>11, <2>2, <2>4 DEF StoreResult, TypeOK, goods
<1>12. CASE StoreError(h)
  <2>1. Answer(h, "failed")
    BY <1>12 DEF StoreError
  <2>2. task' \in [Handlers -> Tasks] /\ told' \in [Keys -> Answers]
    BY <2>1, AnswerTyped DEF Answers
  <2>3. cache \in [Keys -> CacheEntries] /\ WithError(task[h].key) \in [Keys -> CacheEntries]
    BY CacheTyped DEF TypeOK
  <2>4. cache' \in [Keys -> CacheEntries]
    BY <1>12, <2>3 DEF StoreError
  <2> QED BY <1>12, <2>2, <2>4 DEF StoreError, TypeOK, goods
<1> QED BY <1>1, <1>2, <1>3, <1>4, <1>5, <1>6, <1>7, <1>8, <1>9, <1>10, <1>11, <1>12
        DEF Serve

LEMMA GivingBackTyped ==
  ASSUME TypeOK, TasksRight, OrdersRight, NEW h \in Handlers, Compensate(h)
  PROVE  TypeOK'
<1>1. CASE AdminCancel(h)
  <2>1. Continue(h, "read")
        /\ order' = [order EXCEPT ![task[h].order].status = "cancelled"]
    BY <1>1 DEF AdminCancel
  <2>2. task' \in [Handlers -> Tasks]
    BY <2>1, ContinueTyped DEF TaskKinds
  <2>3. order' \in [Orders -> OrderRecords]
    BY <2>1, OrderTyped
  <2> QED BY <1>1, <2>2, <2>3 DEF AdminCancel, TypeOK, goods
<1>2. CASE CompensateRead(h)
  <2>1. Continue(h, "restore") \/ Continue(h, "release")
    BY <1>2 DEF CompensateRead
  <2>2. task' \in [Handlers -> Tasks]
    BY <2>1, ContinueTyped DEF TaskKinds
  <2> QED BY <1>2, <2>2 DEF CompensateRead, TypeOK, goods
<1>3. CASE releaseReservedStockForOrder(h)
  <2>1. Continue(h, "mark")
    BY <1>3 DEF releaseReservedStockForOrder
  <2>2. task' \in [Handlers -> Tasks]
    BY <2>1, ContinueTyped DEF TaskKinds
  <2> QED BY <1>3, <2>2 DEF releaseReservedStockForOrder, TypeOK
<1>4. CASE MarkReleased(h)
  <2>1. Continue(h, "restore")
        /\ order' = [order EXCEPT ![task[h].order].reservation = "RELEASED"]
    BY <1>4 DEF MarkReleased
  <2>2. task' \in [Handlers -> Tasks]
    BY <2>1, ContinueTyped DEF TaskKinds
  <2>3. order' \in [Orders -> OrderRecords]
    BY <2>1, OrderTyped
  <2> QED BY <1>4, <2>2, <2>3 DEF MarkReleased, TypeOK, goods
<1>5. CASE releaseCouponUsageForOrder(h)
  <2>1. Continue(h, "reverse") /\ GiveCouponBack(task[h].order)
    BY <1>5 DEF releaseCouponUsageForOrder
  <2>2. task' \in [Handlers -> Tasks]
    BY <2>1, ContinueTyped DEF TaskKinds
  <2>3. /\ order \in [Orders -> OrderRecords]
        /\ [order EXCEPT ![task[h].order].redeemed = FALSE] \in [Orders -> OrderRecords]
    BY OrderTyped DEF TypeOK
  <2>4. order' \in [Orders -> OrderRecords]
    <3>1. CASE order' = [order EXCEPT ![task[h].order].redeemed = FALSE]
      BY <2>3, <3>1
    <3>2. CASE UNCHANGED order
      BY <2>3, <3>2
    <3> QED BY <2>1, <3>1, <3>2 DEF GiveCouponBack
  <2>5. coupon \in [usedCount : Nat, isActive : BOOLEAN]
    BY DEF TypeOK
  <2>6. coupon' \in [usedCount : Nat, isActive : BOOLEAN]
    BY <2>1, <2>5 DEF GiveCouponBack
  <2> QED BY <1>5, <2>2, <2>4, <2>6 DEF releaseCouponUsageForOrder, TypeOK
<1>6. CASE reverseOrderFinanceOnCancellation(h)
  <2>1. Finish(h)
    BY <1>6 DEF reverseOrderFinanceOnCancellation
  <2>2. task' \in [Handlers -> Tasks]
    BY <2>1, FinishTyped
  <2>3. /\ order \in [Orders -> OrderRecords]
        /\ [order EXCEPT ![task[h].order].reversed = TRUE] \in [Orders -> OrderRecords]
    BY OrderTyped DEF TypeOK
  <2>4. order' \in [Orders -> OrderRecords]
    <3>1. CASE order' = [order EXCEPT ![task[h].order].reversed = TRUE]
      BY <2>3, <3>1
    <3>2. CASE UNCHANGED order
      BY <2>3, <3>2
    <3> QED BY <1>6, <3>1, <3>2 DEF reverseOrderFinanceOnCancellation
  <2>5. wallet \in [Customers -> Nat]
    BY DEF TypeOK
  <2>6. \/ wallet' = [wallet EXCEPT ![CustomerOf(task[h].order)] = @ + 1]
        \/ UNCHANGED wallet
    BY <1>6 DEF reverseOrderFinanceOnCancellation
  <2>7. wallet' \in [Customers -> Nat]
    BY <2>5, <2>6
  <2> QED BY <1>6, <2>2, <2>4, <2>7 DEF reverseOrderFinanceOnCancellation, TypeOK
<1> QED BY <1>1, <1>2, <1>3, <1>4, <1>5, <1>6 DEF Compensate

LEMMA TypeStep ==
  ASSUME TypeOK, TasksRight, OrdersRight, [Next]_vars
  PROVE  TypeOK'
<1>1. ASSUME NEW h \in Handlers, Serve(h) PROVE TypeOK'
  BY <1>1, ServeTyped
<1>2. ASSUME NEW h \in Handlers, Compensate(h) PROVE TypeOK'
  BY <1>2, GivingBackTyped
<1>3. ASSUME NEW h \in Handlers, Crash(h) PROVE TypeOK'
  <2>1. task' \in [Handlers -> Tasks]
    BY <1>3, FinishTyped DEF Crash
  <2>2. crashes' \in 0..MaxCrashes
    BY <1>3, CheckoutAssumption DEF Crash, TypeOK
  <2> QED BY <1>3, <2>1, <2>2 DEF Crash, TypeOK, goods
<1>4. ASSUME NEW h \in Handlers, NEW k \in Keys, Ask(h, k) PROVE TypeOK'
  <2>1. task' \in [Handlers -> Tasks]
    BY <1>4, StartTyped, NewTasksTyped DEF Ask
  <2>2. told' \in [Keys -> Answers]
    BY <1>4 DEF Ask, TypeOK, Answers
  <2> QED BY <1>4, <2>1, <2>2 DEF Ask, TypeOK, goods
<1>5. ASSUME NEW h \in Handlers, NEW o \in Orders, CancelOrder(h, o) PROVE TypeOK'
  <2>1. task' \in [Handlers -> Tasks]
    BY <1>5, StartTyped, NewTasksTyped DEF CancelOrder
  <2>2. order' \in [Orders -> OrderRecords]
    BY <1>5, OrderTyped DEF CancelOrder
  <2> QED BY <1>5, <2>1, <2>2 DEF CancelOrder, TypeOK, goods
<1>6. ASSUME NEW h \in Handlers, NEW o \in Orders, AdminCancelRead(h, o) PROVE TypeOK'
  <2>1. task' \in [Handlers -> Tasks]
    BY <1>6, StartTyped, NewTasksTyped DEF AdminCancelRead
  <2> QED BY <1>6, <2>1 DEF AdminCancelRead, TypeOK, goods
<1>7. ASSUME NEW o \in Orders, PaymentFails(o) PROVE TypeOK'
  <2>1. order' \in [Orders -> OrderRecords]
    BY <1>7, OrderTyped DEF PaymentFails
  <2>2. stock' \in Nat
    BY <1>7 DEF PaymentFails, TypeOK
  <2>3. coupon' \in [usedCount : Nat, isActive : BOOLEAN]
    BY <1>7 DEF PaymentFails, TypeOK
  <2> QED BY <1>7, <2>1, <2>2, <2>3 DEF PaymentFails, TypeOK
<1>8. ASSUME NEW k \in Keys, LockExpires(k) PROVE TypeOK'
  <2>1. cache' \in [Keys -> CacheEntries]
    BY <1>8, CacheTyped DEF LockExpires
  <2> QED BY <1>8, <2>1 DEF LockExpires, TypeOK, goods
<1>9. ASSUME NEW k \in Keys, ErrorExpires(k) PROVE TypeOK'
  <2>1. cache' \in [Keys -> CacheEntries]
    BY <1>9, CacheTyped DEF ErrorExpires
  <2> QED BY <1>9, <2>1 DEF ErrorExpires, TypeOK, goods
<1>10. ASSUME NEW k \in Keys, ResultExpires(k) PROVE TypeOK'
  <2>1. cache' \in [Keys -> CacheEntries]
    BY <1>10, CacheTyped DEF ResultExpires
  <2> QED BY <1>10, <2>1 DEF ResultExpires, TypeOK, goods
<1>13. ASSUME NEW k \in Keys, GroupExpires(k) PROVE TypeOK'
  BY <1>13 DEF GroupExpires, TypeOK, goods
<1>14. ASSUME NEW k \in Keys, ForgetKey(k) PROVE TypeOK'
  <2>1. order \in [Orders -> OrderRecords]
    BY DEF TypeOK
  <2>2. \A o \in Orders : [order[o] EXCEPT !.key = None] \in OrderRecords
    BY <2>1 DEF OrderRecords
  <2>3. order' \in [Orders -> OrderRecords]
    BY <1>14, <2>1, <2>2 DEF ForgetKey
  <2> QED BY <1>14, <2>3 DEF ForgetKey, TypeOK, goods
<1>11. ASSUME NEW c \in Customers, FillCart(c) PROVE TypeOK'
  BY <1>11 DEF FillCart, TypeOK
<1>12. CASE UNCHANGED vars
  BY <1>12 DEF vars, goods, TypeOK
<1> QED BY <1>1, <1>2, <1>3, <1>4, <1>5, <1>6, <1>7, <1>8, <1>9, <1>10, <1>11, <1>12,
           <1>13, <1>14 DEF Next

-----------------------------------------------------------------------------
(* One order for each key.                                                 *)

(* No order comes or goes, and none changes its key.                       *)
KeysKept ==
  \A o \in Orders : /\ order'[o].key = order[o].key
                    /\ order'[o].request = order[o].request
                    /\ order'[o].status = "none" <=> order[o].status = "none"
                    /\ order[o].status = "none" => order'[o] = order[o]

LEMMA FinishRight ==
  ASSUME TypeOK, TasksRight, NEW h \in Handlers, Finish(h)
  PROVE  \A i \in Handlers : Right(task'[i])
<1>1. Right(Idle)
  BY DEF Right, NamesItsSubject, PlacingIsNew, Idle, Serving, GivingBack
<1>2. \A i \in Handlers : task'[i] = IF i = h THEN Idle ELSE task[i]
  BY DEF Finish, TypeOK
<1> HIDE DEF Idle, Right
<1> QED BY <1>1, <1>2 DEF TasksRight

LEMMA ContinueRight ==
  ASSUME TypeOK, TasksRight, NEW h \in Handlers, NEW kind \in TaskKinds, Continue(h, kind),
         kind \in Serving => task[h].kind \in Serving,
         kind \in GivingBack => task[h].kind \in GivingBack,
         kind = "place" => Carrying(task[h].key) = {}
  PROVE  \A i \in Handlers : Right(task'[i])
<1> DEFINE t == [task[h] EXCEPT !.kind = kind]
<1>1. t.kind = kind /\ t.key = task[h].key /\ t.order = task[h].order
  BY DEF TypeOK, Tasks
<1>2. Right(task[h])
  BY DEF TasksRight
<1>3. Right(t)
  BY <1>1, <1>2 DEF Right, NamesItsSubject, PlacingIsNew
<1>4. \A i \in Handlers : task'[i] = IF i = h THEN t ELSE task[i]
  BY DEF Continue, TypeOK
<1> HIDE DEF t
<1> QED BY <1>3, <1>4 DEF TasksRight

LEMMA StartRight ==
  ASSUME TypeOK, TasksRight, NEW h \in Handlers, NEW t, Right(t), Start(h, t)
  PROVE  \A i \in Handlers : Right(task'[i])
<1>1. \A i \in Handlers : task'[i] = IF i = h THEN t ELSE task[i]
  BY DEF Start, TypeOK
<1> QED BY <1>1 DEF TasksRight

LEMMA KeepsKeys ==
  ASSUME KeyInv, TypeOK', KeysKept, groups' = groups, \A i \in Handlers : Right(task'[i])
  PROVE  KeyInv'
<1>1. OrdersRight' /\ OneOrderPerKey'
  BY DEF KeyInv, OrdersRight, OneOrderPerKey, KeysKept
<1>2. ASSUME NEW i \in Handlers PROVE Right(task[i])'
  <2>1. Right(task'[i])
    OBVIOUS
  <2>2. NamesItsSubject(task[i])'
    BY <2>1 DEF Right, NamesItsSubject, KeysKept
  <2>3. Carrying(task[i].key)' = Carrying(task'[i].key)
    BY DEF Carrying, KeysKept
  <2>4. PlacingIsNew(task[i])'
    BY <2>1, <2>3 DEF Right, PlacingIsNew
  <2> QED BY <2>2, <2>4 DEF Right
<1> QED BY <1>1, <1>2 DEF KeyInv, TasksRight

(* The transaction: nobody has an order of this key, and whoever else is   *)
(* about to place one will see its group.                                  *)
LEMMA PlacesNewKey ==
  ASSUME KeyInv, TypeOK', NEW h \in Handlers, Busy(h, "place"), Commit(task[h].key),
         NEW kind \in {"placed", "refused"}, Continue(h, kind)
  PROVE  KeyInv'
<1> DEFINE k == task[h].key
<1>1. k \in Keys /\ Carrying(k) = {}
  BY DEF KeyInv, TasksRight, Right, NamesItsSubject, PlacingIsNew, Busy, Serving, Commit
<1>2. PICK o \in Orders : order[o] = NoOrder /\ order' = [order EXCEPT ![o] = NewOrder(k)]
  BY DEF Commit
<1>3. groups' = groups \cup {k}
  BY DEF Commit
<1>4. /\ NewOrder(k).key = k /\ NewOrder(k).request = k
      /\ NewOrder(k).status = "placed"
  BY DEF NewOrder
<1>5. \A p \in Orders : order'[p] = IF p = o THEN NewOrder(k) ELSE order[p]
  BY <1>2 DEF KeyInv, TypeOK
<1>6. k # None
  BY <1>1, CheckoutAssumption
<1> HIDE DEF k, NewOrder
<1>7. OrdersRight'
  BY <1>1, <1>4, <1>5 DEF KeyInv, OrdersRight
<1>8. OneOrderPerKey'
  BY <1>1, <1>4, <1>5, <1>6 DEF KeyInv, OneOrderPerKey, Carrying
<1>9. order[o].status = "none"
  BY <1>2 DEF NoOrder
<1>10. \A i \in Handlers : Right(task'[i])
  <2>1. task[h].kind \in Serving
    BY DEF Busy, Serving
  <2> QED BY <2>1, ContinueRight DEF KeyInv, TaskKinds, Serving, GivingBack
<1>11. ASSUME NEW i \in Handlers PROVE Right(task[i])'
  <2>1. Right(task'[i])
    BY <1>10
  <2>2. NamesItsSubject(task[i])'
    BY <2>1, <1>4, <1>5 DEF Right, NamesItsSubject
  <2>3. PlacingIsNew(task[i])'
    <3>1. CASE task'[i].key = k
      BY <3>1, <1>3 DEF PlacingIsNew
    <3>2. CASE task'[i].key # k
      <4>1. Carrying(task'[i].key) = {} => Carrying(task[i].key)' = {}
        BY <3>2, <1>4, <1>5 DEF Carrying
      <4> QED BY <2>1, <4>1, <1>3 DEF Right, PlacingIsNew
    <3> QED BY <3>1, <3>2
  <2> QED BY <2>2, <2>3 DEF Right
<1> QED BY <1>7, <1>8, <1>11 DEF KeyInv, TasksRight

LEMMA ServeKeepsKeys ==
  ASSUME KeyInv, TypeOK', NEW h \in Handlers, Serve(h)
  PROVE  KeyInv'
<1> USE DEF KeyInv
<1>1. CASE checkIdempotency(h)
  <2>1. KeysKept /\ groups' = groups
    BY <1>1 DEF checkIdempotency, KeysKept
  <2>2. Busy(h, "check") /\ (Continue(h, "acquire") \/ Finish(h))
    BY <1>1 DEF checkIdempotency, Answer
  <2>3. \A i \in Handlers : Right(task'[i])
    BY <2>2, ContinueRight, FinishRight DEF Busy, TaskKinds, Serving, GivingBack
  <2> QED BY <2>1, <2>3, KeepsKeys
<1>2. CASE acquireIdempotencyLock(h)
  <2>1. KeysKept /\ groups' = groups
    BY <1>2 DEF acquireIdempotencyLock, KeysKept
  <2>2. Busy(h, "acquire") /\ (Continue(h, "lookup") \/ Finish(h))
    BY <1>2 DEF acquireIdempotencyLock, Answer
  <2>3. \A i \in Handlers : Right(task'[i])
    BY <2>2, ContinueRight, FinishRight DEF Busy, TaskKinds, Serving, GivingBack
  <2> QED BY <2>1, <2>3, KeepsKeys
<1>3. CASE findExistingCheckoutByIdempotency(h)
  <2>1. KeysKept /\ groups' = groups
    BY <1>3 DEF findExistingCheckoutByIdempotency, KeysKept
  <2>2. /\ Busy(h, "lookup")
        /\ \/ Continue(h, "found")
           \/ Carrying(task[h].key) = {} /\ Continue(h, "place")
    BY <1>3 DEF findExistingCheckoutByIdempotency, CheckoutOf
  <2>3. \A i \in Handlers : Right(task'[i])
    BY <2>2, ContinueRight DEF Busy, TaskKinds, Serving, GivingBack
  <2> QED BY <2>1, <2>3, KeepsKeys
<1>4. CASE ReturnExisting(h)
  <2>1. KeysKept /\ groups' = groups
    BY <1>4 DEF ReturnExisting, KeysKept
  <2>2. Finish(h)
    BY <1>4 DEF ReturnExisting, Answer
  <2> QED BY <2>1, <2>2, FinishRight, KeepsKeys
<1>5. CASE PlaceOrder(h)
  BY <1>5, PlacesNewKey DEF PlaceOrder
<1>6. CASE RefuseOrder(h)
  <2>1. KeysKept /\ groups' = groups
    BY <1>6 DEF RefuseOrder, KeysKept
  <2>2. Busy(h, "place") /\ Continue(h, "refused")
    BY <1>6 DEF RefuseOrder
  <2>3. \A i \in Handlers : Right(task'[i])
    BY <2>2, ContinueRight DEF Busy, TaskKinds, Serving, GivingBack
  <2> QED BY <2>1, <2>3, KeepsKeys
<1>7. CASE DuplicateKey(h)
  <2>1. KeysKept /\ groups' = groups
    BY <1>7 DEF DuplicateKey, KeysKept
  <2>2. Busy(h, "place") /\ Continue(h, "duplicate")
    BY <1>7 DEF DuplicateKey
  <2>3. \A i \in Handlers : Right(task'[i])
    BY <2>2, ContinueRight DEF Busy, TaskKinds, Serving, GivingBack
  <2> QED BY <2>1, <2>3, KeepsKeys
<1>8. CASE UnknownCommit(h)
  <2>1. Busy(h, "place") /\ Continue(h, "refused")
    BY <1>8 DEF UnknownCommit
  <2>2. CASE Commit(task[h].key)
    BY <2>1, <2>2, PlacesNewKey
  <2>3. CASE UNCHANGED <<groups, order, goods>>
    <3>1. KeysKept /\ groups' = groups
      BY <2>3 DEF KeysKept
    <3>2. \A i \in Handlers : Right(task'[i])
      BY <2>1, ContinueRight DEF Busy, TaskKinds, Serving, GivingBack
    <3> QED BY <3>1, <3>2, KeepsKeys
  <2> QED BY <1>8, <2>2, <2>3 DEF UnknownCommit
<1>9. CASE RetryConflict(h)
  <2>1. KeysKept /\ groups' = groups
    BY <1>9 DEF RetryConflict, KeysKept
  <2> DEFINE again == [task[h] EXCEPT !.kind = "check", !.tries = @ + 1]
  <2>2. \A i \in Handlers : task'[i] = IF i = h THEN again ELSE task[i]
    BY <1>9 DEF RetryConflict, TypeOK
  <2>3. again.kind = "check" /\ again.key = task[h].key
    BY DEF TypeOK, Tasks
  <2>4. task[h].key \in Keys
    BY <1>9 DEF RetryConflict, Busy, TasksRight, Right, NamesItsSubject, Serving
  <2> HIDE DEF again
  <2>5. Right(again)
    BY <2>3, <2>4 DEF Right, NamesItsSubject, PlacingIsNew, GivingBack
  <2>6. \A i \in Handlers : Right(task'[i])
    BY <2>2, <2>5 DEF TasksRight
  <2> QED BY <2>1, <2>6, KeepsKeys
<1>10. CASE GiveUp(h)
  <2>1. KeysKept /\ groups' = groups
    BY <1>10 DEF GiveUp, KeysKept
  <2>2. Finish(h)
    BY <1>10 DEF GiveUp, Answer
  <2> QED BY <2>1, <2>2, FinishRight, KeepsKeys
<1>11. CASE StoreResult(h)
  <2>1. KeysKept /\ groups' = groups
    BY <1>11 DEF StoreResult, KeysKept
  <2>2. Finish(h)
    BY <1>11 DEF StoreResult, Answer
  <2> QED BY <2>1, <2>2, FinishRight, KeepsKeys
<1>12. CASE StoreError(h)
  <2>1. KeysKept /\ groups' = groups
    BY <1>12 DEF StoreError, KeysKept
  <2>2. Finish(h)
    BY <1>12 DEF StoreError, Answer
  <2> QED BY <2>1, <2>2, FinishRight, KeepsKeys
<1> QED BY <1>1, <1>2, <1>3, <1>4, <1>5, <1>6, <1>7, <1>8, <1>9, <1>10, <1>11, <1>12
        DEF Serve

LEMMA GivingBackKeepsKeys ==
  ASSUME KeyInv, TypeOK', NEW h \in Handlers, Compensate(h)
  PROVE  KeyInv'
<1> USE DEF KeyInv
<1>1. CASE AdminCancel(h)
  <2>1. Busy(h, "cancel") /\ Continue(h, "read")
    BY <1>1 DEF AdminCancel
  <2>2. task[h].order \in Orders /\ order[task[h].order].status # "none"
    BY <2>1 DEF Busy, TasksRight, Right, NamesItsSubject, GivingBack
  <2>3. KeysKept /\ groups' = groups
    BY <1>1, <2>2 DEF AdminCancel, KeysKept, TypeOK, OrderRecords
  <2>4. \A i \in Handlers : Right(task'[i])
    BY <2>1, ContinueRight DEF Busy, TaskKinds, Serving, GivingBack
  <2> QED BY <2>3, <2>4, KeepsKeys
<1>2. CASE CompensateRead(h)
  <2>1. KeysKept /\ groups' = groups
    BY <1>2 DEF CompensateRead, KeysKept
  <2>2. Busy(h, "read") /\ (Continue(h, "restore") \/ Continue(h, "release"))
    BY <1>2 DEF CompensateRead
  <2>3. \A i \in Handlers : Right(task'[i])
    BY <2>2, ContinueRight DEF Busy, TaskKinds, Serving, GivingBack
  <2> QED BY <2>1, <2>3, KeepsKeys
<1>3. CASE releaseReservedStockForOrder(h)
  <2>1. KeysKept /\ groups' = groups
    BY <1>3 DEF releaseReservedStockForOrder, KeysKept
  <2>2. Busy(h, "release") /\ Continue(h, "mark")
    BY <1>3 DEF releaseReservedStockForOrder
  <2>3. \A i \in Handlers : Right(task'[i])
    BY <2>2, ContinueRight DEF Busy, TaskKinds, Serving, GivingBack
  <2> QED BY <2>1, <2>3, KeepsKeys
<1>4. CASE MarkReleased(h)
  <2>1. Busy(h, "mark") /\ Continue(h, "restore")
    BY <1>4 DEF MarkReleased
  <2>2. task[h].order \in Orders /\ order[task[h].order].status # "none"
    BY <2>1 DEF Busy, TasksRight, Right, NamesItsSubject, GivingBack
  <2>3. KeysKept /\ groups' = groups
    BY <1>4, <2>2 DEF MarkReleased, KeysKept, TypeOK, OrderRecords
  <2>4. \A i \in Handlers : Right(task'[i])
    BY <2>1, ContinueRight DEF Busy, TaskKinds, Serving, GivingBack
  <2> QED BY <2>3, <2>4, KeepsKeys
<1>5. CASE releaseCouponUsageForOrder(h)
  <2>1. Busy(h, "restore") /\ Continue(h, "reverse")
    BY <1>5 DEF releaseCouponUsageForOrder
  <2>2. task[h].order \in Orders /\ order[task[h].order].status # "none"
    BY <2>1 DEF Busy, TasksRight, Right, NamesItsSubject, GivingBack
  <2>3. KeysKept /\ groups' = groups
    BY <1>5, <2>2 DEF releaseCouponUsageForOrder, KeysKept, TypeOK, OrderRecords, GiveCouponBack
  <2>4. \A i \in Handlers : Right(task'[i])
    BY <2>1, ContinueRight DEF Busy, TaskKinds, Serving, GivingBack
  <2> QED BY <2>3, <2>4, KeepsKeys
<1>6. CASE reverseOrderFinanceOnCancellation(h)
  <2>1. Busy(h, "reverse") /\ Finish(h)
    BY <1>6 DEF reverseOrderFinanceOnCancellation
  <2>2. task[h].order \in Orders /\ order[task[h].order].status # "none"
    BY <2>1 DEF Busy, TasksRight, Right, NamesItsSubject, GivingBack
  <2>3. KeysKept /\ groups' = groups
    BY <1>6, <2>2 DEF reverseOrderFinanceOnCancellation, KeysKept, TypeOK, OrderRecords
  <2>4. \A i \in Handlers : Right(task'[i])
    BY <2>1, FinishRight
  <2> QED BY <2>3, <2>4, KeepsKeys
<1> QED BY <1>1, <1>2, <1>3, <1>4, <1>5, <1>6 DEF Compensate

LEMMA KeyStep ==
  ASSUME KeyInv, [Next]_vars
  PROVE  KeyInv'
<1>1. TypeOK'
  BY TypeStep DEF KeyInv
<1>2. (\A i \in Handlers : task'[i] = task[i]) => \A i \in Handlers : Right(task'[i])
  BY DEF KeyInv, TasksRight
<1>3. ASSUME NEW h \in Handlers, Serve(h) PROVE KeyInv'
  BY <1>1, <1>3, ServeKeepsKeys
<1>4. ASSUME NEW h \in Handlers, Compensate(h) PROVE KeyInv'
  BY <1>1, <1>4, GivingBackKeepsKeys
<1>5. ASSUME NEW h \in Handlers, Crash(h) PROVE KeyInv'
  <2>1. KeysKept /\ groups' = groups /\ Finish(h)
    BY <1>5 DEF Crash, KeysKept
  <2> QED BY <1>1, <2>1, FinishRight, KeepsKeys DEF KeyInv
<1>6. ASSUME NEW h \in Handlers, NEW k \in Keys, Ask(h, k) PROVE KeyInv'
  <2>1. KeysKept /\ groups' = groups
    BY <1>6 DEF Ask, KeysKept
  <2> DEFINE t == [Idle EXCEPT !.kind = "check", !.key = k]
  <2>2. Right(t)
    BY DEF Right, NamesItsSubject, PlacingIsNew, Idle, GivingBack
  <2>3. Start(h, t)
    BY <1>6 DEF Ask
  <2> HIDE DEF t
  <2>4. \A i \in Handlers : Right(task'[i])
    BY <2>2, <2>3, StartRight DEF KeyInv
  <2> QED BY <1>1, <2>1, <2>4, KeepsKeys
<1>7. ASSUME NEW h \in Handlers, NEW o \in Orders, CancelOrder(h, o) PROVE KeyInv'
  <2>1. KeysKept /\ groups' = groups
    BY <1>7 DEF CancelOrder, KeysKept, KeyInv, TypeOK, OrderRecords
  <2>2. Right(Compensating(o))
    BY <1>7 DEF CancelOrder, Right, NamesItsSubject, PlacingIsNew, Compensating, Idle,
                Serving
  <2>3. \A i \in Handlers : Right(task'[i])
    BY <1>7, <2>2, StartRight DEF KeyInv, CancelOrder
  <2> QED BY <1>1, <2>1, <2>3, KeepsKeys
<1>8. ASSUME NEW h \in Handlers, NEW o \in Orders, AdminCancelRead(h, o) PROVE KeyInv'
  <2>1. KeysKept /\ groups' = groups
    BY <1>8 DEF AdminCancelRead, KeysKept
  <2> DEFINE t == [Compensating(o) EXCEPT !.kind = "cancel"]
  <2>2. Right(t)
    BY <1>8 DEF AdminCancelRead, Right, NamesItsSubject, PlacingIsNew, Compensating, Idle,
                Serving
  <2>3. Start(h, t)
    BY <1>8 DEF AdminCancelRead
  <2> HIDE DEF t
  <2>4. \A i \in Handlers : Right(task'[i])
    BY <2>2, <2>3, StartRight DEF KeyInv
  <2> QED BY <1>1, <2>1, <2>4, KeepsKeys
<1>9. ASSUME NEW o \in Orders, PaymentFails(o) PROVE KeyInv'
  <2>1. KeysKept /\ groups' = groups
    BY <1>9 DEF PaymentFails, KeysKept, KeyInv, TypeOK, OrderRecords
  <2>2. task' = task
    BY <1>9 DEF PaymentFails
  <2> QED BY <1>1, <1>2, <2>1, <2>2, KeepsKeys
<1>10. ASSUME NEW k \in Keys, LockExpires(k) \/ ErrorExpires(k) \/ ResultExpires(k)
       PROVE  KeyInv'
  <2>1. KeysKept /\ groups' = groups /\ task' = task
    BY <1>10 DEF LockExpires, ErrorExpires, ResultExpires, KeysKept
  <2> QED BY <1>1, <1>2, <2>1, KeepsKeys
<1>11. ASSUME NEW k \in Keys, GroupExpires(k) PROVE KeyInv'
  <2>1. UNCHANGED <<order, task>> /\ groups' = groups \ {k} /\ Quiet(k)
    BY <1>11 DEF GroupExpires
  <2>2. OrdersRight' /\ OneOrderPerKey'
    BY <2>1 DEF KeyInv, OrdersRight, OneOrderPerKey
  <2>3. ASSUME NEW i \in Handlers PROVE Right(task[i])'
    <3>1. Right(task[i]) /\ task[i].key # k
      BY <2>1 DEF KeyInv, TasksRight, Quiet
    <3> QED BY <2>1, <3>1 DEF Right, NamesItsSubject, PlacingIsNew, Carrying
  <2> QED BY <1>1, <2>2, <2>3 DEF KeyInv, TasksRight
<1>12. ASSUME NEW c \in Customers, FillCart(c) PROVE KeyInv'
  <2>1. KeysKept /\ groups' = groups /\ task' = task
    BY <1>12 DEF FillCart, KeysKept
  <2> QED BY <1>1, <1>2, <2>1, KeepsKeys
<1>14. ASSUME NEW k \in Keys, ForgetKey(k) PROVE KeyInv'
  <2>1. UNCHANGED <<task, groups>>
    BY <1>14 DEF ForgetKey
  <2>2. \A o \in Orders : /\ order'[o].key = IF order[o].key = k THEN None ELSE order[o].key
                          /\ order'[o].request = order[o].request
                          /\ order'[o].status = order[o].status
                          /\ order[o].key # k => order'[o] = order[o]
    BY <1>14 DEF ForgetKey, KeyInv, TypeOK, OrderRecords
  <2>3. k # None /\ NoOrder.key = None
    BY CheckoutAssumption DEF NoOrder
  <2>4. OrdersRight' /\ OneOrderPerKey'
    BY <2>2, <2>3 DEF KeyInv, OrdersRight, OneOrderPerKey
  <2>5. ASSUME NEW i \in Handlers PROVE Right(task[i])'
    <3>1. Right(task[i])
      BY DEF KeyInv, TasksRight
    <3>2. task[i].kind \in Serving => task[i].key # None
      BY <3>1, CheckoutAssumption DEF Right, NamesItsSubject
    <3>3. task[i].key # None /\ Carrying(task[i].key) = {} => Carrying(task[i].key)' = {}
      BY <2>1, <2>2 DEF Carrying
    <3> QED BY <2>1, <2>2, <3>1, <3>2, <3>3 DEF Right, NamesItsSubject, PlacingIsNew, Serving
  <2> QED BY <1>1, <2>4, <2>5 DEF KeyInv, TasksRight
<1>13. CASE UNCHANGED vars
  <2>1. KeysKept /\ groups' = groups /\ task' = task
    BY <1>13 DEF vars, KeysKept
  <2> QED BY <1>1, <1>2, <2>1, KeepsKeys
<1> QED BY <1>3, <1>4, <1>5, <1>6, <1>7, <1>8, <1>9, <1>10, <1>11, <1>12, <1>13, <1>14
        DEF Next

LEMMA KeyInit == Init => KeyInv
<1> SUFFICES ASSUME Init PROVE KeyInv
  OBVIOUS
<1>1. TypeOK
  <2>1. NoOrder \in OrderRecords /\ 0 \in 0..MaxCrashes /\ Balance \in Nat /\ Stock \in Nat
    BY CheckoutAssumption DEF NoOrder, OrderRecords
  <2>2. order \in [Orders -> OrderRecords] /\ task \in [Handlers -> Tasks]
    BY <2>1, IdleTyped DEF Init
  <2> QED BY <2>1, <2>2 DEF Init, TypeOK, CacheEntries, Answers
<1>2. TasksRight
  BY DEF Init, TasksRight, Right, NamesItsSubject, PlacingIsNew, Idle, Serving, GivingBack
<1>3. OrdersRight /\ OneOrderPerKey
  BY DEF Init, OrdersRight, OneOrderPerKey, NoOrder
<1> QED BY <1>1, <1>2, <1>3 DEF KeyInv

LEMMA KeyInvariant == Spec => []KeyInv
BY KeyInit, KeyStep, PTL DEF Spec

(* Whatever fails, the records of a checkout stay well formed, and neither *)
(* the stock nor a wallet goes below zero.                                 *)
THEOREM CheckoutTyped == Spec => []TypeOK
BY KeyInvariant, PTL DEF KeyInv

(* Doubled requests, locks that run out under their holders, an unreachable *)
(* cache, unknown commits and crashes notwithstanding, placeOrderAtomic     *)
(* places no second order under an idempotency key while the first carries  *)
(* it: until cleanupExpiredIdempotencyKeys.js takes the key off, although   *)
(* the checkout group and its unique index may be gone before.              *)
THEOREM KeyPlacesOneOrder == Spec => []OneOrderPerKey
BY KeyInvariant, PTL DEF KeyInv

-----------------------------------------------------------------------------
(* The accounts.  A step places an order, gives its coupon or its wallet   *)
(* debit back, fails its payment, or leaves the accounts alone.            *)

Reverses(o) ==
  /\ ~order[o].reversed
  /\ order' = [order EXCEPT ![o].reversed = TRUE]
  /\ wallet' = IF Request[order[o].request].wallet
               THEN [wallet EXCEPT ![CustomerOf(o)] = @ + 1] ELSE wallet

Passes(k) == \/ LockExpires(k) \/ ErrorExpires(k) \/ ResultExpires(k)
             \/ GroupExpires(k) \/ ForgetKey(k)

AccountsKept ==
  /\ UNCHANGED <<coupon, wallet>>
  /\ \A o \in Orders : /\ order'[o].request = order[o].request
                       /\ order'[o].redeemed = order[o].redeemed
                       /\ order'[o].reversed = order[o].reversed

AccountsChange ==
  \/ \E k \in Keys : Commit(k)
  \/ \E o \in Orders : /\ order[o].status # "none"
                       /\ \/ GiveCouponBack(o) /\ UNCHANGED wallet
                          \/ Reverses(o) /\ UNCHANGED coupon
  \/ \E o \in Orders : PaymentFails(o)

LEMMA TaskOrderExists ==
  ASSUME KeyInv, NEW h \in Handlers, task[h].kind \in GivingBack
  PROVE  task[h].order \in Orders /\ order[task[h].order].status # "none"
BY DEF KeyInv, TasksRight, Right, NamesItsSubject

LEMMA Effects ==
  ASSUME KeyInv, [Next]_vars
  PROVE  setting' = setting /\ (AccountsChange \/ AccountsKept)
<1>0. order \in [Orders -> OrderRecords]
  BY DEF KeyInv, TypeOK
<1>1. ASSUME NEW h \in Handlers, Serve(h)
      PROVE  setting' = setting /\ (AccountsChange \/ AccountsKept)
  <2>1. CASE PlaceOrder(h) \/ UnknownCommit(h)
    <3>1. task[h].key \in Keys
      BY <2>1 DEF PlaceOrder, UnknownCommit, Busy, KeyInv, TasksRight, Right,
                  NamesItsSubject, Serving
    <3>2. /\ setting' = setting
          /\ Commit(task[h].key) \/ UNCHANGED <<order, coupon, wallet>>
      BY <2>1 DEF PlaceOrder, UnknownCommit, goods
    <3> QED BY <3>1, <3>2 DEF AccountsChange, AccountsKept
  <2>2. CASE ~PlaceOrder(h) /\ ~UnknownCommit(h)
    <3>1. UNCHANGED <<order, goods, setting>>
      BY <1>1, <2>2 DEF Serve, checkIdempotency, acquireIdempotencyLock, ReturnExisting,
         findExistingCheckoutByIdempotency, RefuseOrder, DuplicateKey, RetryConflict,
         GiveUp, StoreResult, StoreError
    <3> QED BY <3>1 DEF AccountsKept, goods
  <2> QED BY <2>1, <2>2
<1>2. ASSUME NEW h \in Handlers, Compensate(h)
      PROVE  setting' = setting /\ (AccountsChange \/ AccountsKept)
  <2>1. CASE AdminCancel(h)
    BY <1>0, <2>1 DEF AdminCancel, AccountsKept, goods, OrderRecords
  <2>2. CASE CompensateRead(h) \/ releaseReservedStockForOrder(h)
    BY <2>2 DEF CompensateRead, releaseReservedStockForOrder, AccountsKept, goods
  <2>3. CASE MarkReleased(h)
    BY <1>0, <2>3 DEF MarkReleased, AccountsKept, goods, OrderRecords
  <2>4. CASE releaseCouponUsageForOrder(h)
    <3>1. task[h].order \in Orders /\ order[task[h].order].status # "none"
      BY <2>4, TaskOrderExists DEF releaseCouponUsageForOrder, Busy, GivingBack
    <3> QED BY <2>4, <3>1 DEF releaseCouponUsageForOrder, AccountsChange
  <2>5. CASE reverseOrderFinanceOnCancellation(h)
    <3>1. task[h].order \in Orders /\ order[task[h].order].status # "none"
      BY <2>5, TaskOrderExists DEF reverseOrderFinanceOnCancellation, Busy, GivingBack
    <3>2. CASE order[task[h].order].reversed
      BY <2>5, <3>2 DEF reverseOrderFinanceOnCancellation, AccountsKept
    <3>3. CASE ~order[task[h].order].reversed
      BY <2>5, <3>1, <3>3 DEF reverseOrderFinanceOnCancellation, Reverses, AccountsChange
    <3> QED BY <3>2, <3>3
  <2> QED BY <1>2, <2>1, <2>2, <2>3, <2>4, <2>5 DEF Compensate
<1>3. ASSUME NEW h \in Handlers, NEW o \in Orders, CancelOrder(h, o)
      PROVE  setting' = setting /\ (AccountsChange \/ AccountsKept)
  BY <1>0, <1>3 DEF CancelOrder, AccountsKept, goods, OrderRecords
<1>4. ASSUME NEW o \in Orders, PaymentFails(o)
      PROVE  setting' = setting /\ (AccountsChange \/ AccountsKept)
  BY <1>4 DEF PaymentFails, AccountsChange
<1>5. ASSUME \/ \E h \in Handlers : Crash(h)
             \/ \E h \in Handlers, k \in Keys : Ask(h, k)
             \/ \E h \in Handlers, o \in Orders : AdminCancelRead(h, o)
             \/ \E k \in Keys : Passes(k)
             \/ \E c \in Customers : FillCart(c)
             \/ UNCHANGED vars
      PROVE  setting' = setting /\ (AccountsChange \/ AccountsKept)
  <2>1. ASSUME NEW k \in Keys, ForgetKey(k) PROVE setting' = setting /\ AccountsKept
    BY <1>0, <2>1 DEF ForgetKey, AccountsKept, goods, OrderRecords
  <2>2. CASE ~\E k \in Keys : ForgetKey(k)
    BY <1>5, <2>2 DEF Crash, Ask, AdminCancelRead, Passes, LockExpires, ErrorExpires,
       ResultExpires, GroupExpires, FillCart, vars, goods, AccountsKept
  <2> QED BY <2>1, <2>2
<1> QED BY <1>1, <1>2, <1>3, <1>4, <1>5 DEF Next, Passes

(* The transaction fills an empty document.                                *)
LEMMA CommitPlaces ==
  ASSUME KeyInv, NEW k \in Keys, Commit(k)
  PROVE  \E o \in Orders :
           /\ order[o] = NoOrder
           /\ \A p \in Orders : order'[p] = IF p = o THEN NewOrder(k) ELSE order[p]
<1>1. PICK o \in Orders : order[o] = NoOrder /\ order' = [order EXCEPT ![o] = NewOrder(k)]
  BY DEF Commit
<1> QED BY <1>1 DEF KeyInv, TypeOK

-----------------------------------------------------------------------------
Redeemed == {o \in Orders : order[o].redeemed}

LEMMA CouponStep ==
  ASSUME KeyInv, CouponAccounted, [Next]_vars
  PROVE  CouponAccounted'
<1> DEFINE OncePerCustomer == \A o1, o2 \in Redeemed : CustomerOf(o1) = CustomerOf(o2) => o1 = o2
           Counted == coupon.usedCount = Cardinality(Redeemed) /\ coupon.usedCount <= UsageLimit
<1>1. Counted /\ OncePerCustomer
  BY DEF CouponAccounted, Redeemed
<1>2. IsFiniteSet(Redeemed)
  BY CheckoutAssumption, FS_Subset DEF Redeemed
<1>3. /\ Cardinality(Redeemed) \in Nat /\ UsageLimit \in Nat
      /\ coupon \in [usedCount : Nat, isActive : BOOLEAN]
      /\ order \in [Orders -> OrderRecords]
  BY <1>2, FS_CardinalityType, RequestTyped DEF KeyInv, TypeOK
<1>4. setting' = setting /\ UsageLimit' = UsageLimit
  BY Effects DEF UsageLimit
<1>5. SUFFICES Counted' /\ OncePerCustomer'
  BY DEF CouponAccounted, Redeemed
<1>6. ASSUME NEW o \in Orders, order[o].redeemed, coupon'.usedCount = coupon.usedCount - 1,
             \A p \in Orders : order'[p].request = order[p].request,
             \A p \in Orders : order'[p].redeemed = (p # o /\ order[p].redeemed)
      PROVE  Counted' /\ OncePerCustomer'
  <2>1. Redeemed' = Redeemed \ {o} /\ o \in Redeemed
    BY <1>6 DEF Redeemed
  <2>2. Cardinality(Redeemed \ {o}) = Cardinality(Redeemed) - 1
    BY <1>2, <2>1, FS_RemoveElement
  <2>3. Counted'
    BY <1>1, <1>3, <1>4, <1>6, <2>1, <2>2
  <2>4. OncePerCustomer'
    BY <1>1, <1>4, <1>6, <2>1 DEF CustomerOf, Request, Redeemed
  <2> QED BY <2>3, <2>4
<1>7. ASSUME coupon' = coupon,
             \A p \in Orders : order'[p].request = order[p].request /\ order'[p].redeemed = order[p].redeemed
      PROVE  Counted' /\ OncePerCustomer'
  <2>1. Redeemed' = Redeemed
    BY <1>7 DEF Redeemed
  <2> QED BY <1>1, <1>4, <1>7, <2>1 DEF CustomerOf, Request, Redeemed
<1>8. ASSUME NEW o \in Orders, order[o].redeemed
      PROVE  coupon.usedCount # 0
  <2>1. Redeemed # {} /\ (Cardinality(Redeemed) = 0 <=> Redeemed = {})
    BY <1>2, <1>8, FS_EmptySet DEF Redeemed
  <2> QED BY <1>1, <2>1
<1>9. ASSUME NEW k \in Keys, Commit(k) PROVE Counted' /\ OncePerCustomer'
  <2>1. PICK o \in Orders :
           /\ order[o] = NoOrder
           /\ \A p \in Orders : order'[p] = IF p = o THEN NewOrder(k) ELSE order[p]
    BY <1>9, CommitPlaces
  <2>2. o \notin Redeemed
    BY <2>1 DEF Redeemed, NoOrder
  <2>3. Request[k] \in Requests /\ Request' = Request
    BY <1>4, RequestTyped DEF KeyInv, Request
  <2>4. \A p \in Redeemed : CustomerOf(p)' = CustomerOf(p)
    BY <2>1, <2>2, <2>3 DEF CustomerOf, Redeemed
  <2>5. CASE Request[k].coupon
    <3>1. coupon'.usedCount = coupon.usedCount + 1
      BY <1>9, <2>5 DEF Commit, consumeCouponUsageAtomic
    <3>2. UsableBy(Request[k].customer)
      BY <1>9, <2>5 DEF Commit, Possible
    <3>3. Redeemed' = Redeemed \cup {o} /\ CustomerOf(o)' = Request[k].customer
      BY <2>1, <2>3, <2>5 DEF Redeemed, NewOrder, CustomerOf
    <3>4. Cardinality(Redeemed \cup {o}) = Cardinality(Redeemed) + 1
      BY <1>2, <2>2, FS_AddElement
    <3>5. Counted'
      BY <1>1, <1>3, <1>4, <3>1, <3>2, <3>3, <3>4 DEF UsableBy
    <3>6. \A p \in Redeemed : CustomerOf(p) # Request[k].customer
      BY <3>2 DEF UsableBy, Redeemed
    <3>7. OncePerCustomer'
      <4> SUFFICES ASSUME NEW p \in Redeemed', NEW q \in Redeemed',
                          CustomerOf(p)' = CustomerOf(q)'
                   PROVE  p = q
        OBVIOUS
      <4>1. (p \in Redeemed \/ p = o) /\ (q \in Redeemed \/ q = o)
        BY <3>3
      <4>2. CASE p \in Redeemed /\ q \in Redeemed
        BY <1>1, <2>4, <4>2
      <4>3. CASE p = o /\ q \in Redeemed
        BY <2>4, <3>3, <3>6, <4>3
      <4>4. CASE p \in Redeemed /\ q = o
        BY <2>4, <3>3, <3>6, <4>4
      <4> QED BY <4>1, <4>2, <4>3, <4>4
    <3> QED BY <3>5, <3>7
  <2>6. CASE ~Request[k].coupon
    <3>1. coupon' = coupon
      BY <1>9, <2>6 DEF Commit, consumeCouponUsageAtomic
    <3>2. Redeemed' = Redeemed
      BY <2>1, <2>6, <2>3 DEF Redeemed, NewOrder, NoOrder, Requests
    <3> QED BY <1>1, <1>4, <2>4, <3>1, <3>2
  <2> QED BY <2>5, <2>6
<1>10. ASSUME NEW o \in Orders, GiveCouponBack(o) PROVE Counted' /\ OncePerCustomer'
  <2>1. CASE order[o].redeemed
    <3>1. order' = [order EXCEPT ![o].redeemed = FALSE]
          /\ coupon'.usedCount = coupon.usedCount - 1
      BY <1>3, <1>8, <1>10, <2>1 DEF GiveCouponBack
    <3>2. \A p \in Orders : /\ order'[p].request = order[p].request
                            /\ order'[p].redeemed = (p # o /\ order[p].redeemed)
      BY <1>3, <3>1 DEF OrderRecords
    <3> QED BY <1>6, <2>1, <3>1, <3>2
  <2>2. CASE ~order[o].redeemed
    BY <1>7, <1>10, <2>2 DEF GiveCouponBack
  <2> QED BY <2>1, <2>2
<1>11. ASSUME NEW o \in Orders, PaymentFails(o) PROVE Counted' /\ OncePerCustomer'
  <2>1. \A p \in Orders : /\ order'[p].request = order[p].request
                          /\ order'[p].redeemed = (p # o /\ order[p].redeemed)
    BY <1>3, <1>11 DEF PaymentFails, OrderRecords
  <2>2. CASE order[o].redeemed
    <3>1. coupon'.usedCount = coupon.usedCount - 1
      BY <1>3, <1>8, <1>11, <2>2 DEF PaymentFails
    <3> QED BY <1>6, <2>1, <2>2, <3>1
  <2>3. CASE ~order[o].redeemed
    <3>1. coupon' = coupon
      BY <1>11, <2>3 DEF PaymentFails
    <3>2. \A p \in Orders : order'[p].redeemed = order[p].redeemed
      BY <1>3, <2>1, <2>3 DEF OrderRecords
    <3> QED BY <1>7, <2>1, <3>1, <3>2
  <2> QED BY <2>2, <2>3
<1>12. ASSUME NEW o \in Orders, Reverses(o), UNCHANGED coupon PROVE Counted' /\ OncePerCustomer'
  <2>1. \A p \in Orders : order'[p].request = order[p].request /\ order'[p].redeemed = order[p].redeemed
    BY <1>3, <1>12 DEF Reverses, OrderRecords
  <2> QED BY <1>7, <1>12, <2>1
<1>13. CASE AccountsKept
  BY <1>7, <1>13 DEF AccountsKept
<1> QED BY Effects, <1>9, <1>10, <1>11, <1>12, <1>13 DEF AccountsChange

(* Checkouts, cancellations and failed payments race for the coupon, yet   *)
(* usedCount is the number of its redemptions, within the limit and once   *)
(* for each customer (consumeCouponUsageAtomic, releaseCouponUsageForOrder). *)
THEOREM CouponIsAccounted == Spec => []CouponAccounted
<1>1. Init => CouponAccounted
  <2> SUFFICES ASSUME Init PROVE CouponAccounted
    OBVIOUS
  <2>1. {o \in Orders : order[o].redeemed} = {}
    BY DEF Init, NoOrder
  <2>2. Cardinality({}) = 0 /\ 0 <= UsageLimit
    BY FS_EmptySet, CheckoutAssumption DEF Init, UsageLimit
  <2> QED BY <2>1, <2>2 DEF Init, CouponAccounted
<1>2. KeyInv /\ CouponAccounted /\ [Next]_vars => CouponAccounted'
  BY CouponStep
<1> QED BY <1>1, <1>2, KeyInvariant, PTL DEF Spec

-----------------------------------------------------------------------------
(* The orders whose wallet debit customer c has not got back.              *)
Debited(c) == {o \in Orders : /\ order[o].request # None /\ CustomerOf(o) = c
                              /\ Request[order[o].request].wallet
                              /\ ~order[o].reversed}

LEMMA WalletStep ==
  ASSUME KeyInv, WalletAccounted, [Next]_vars
  PROVE  WalletAccounted'
<1>1. SUFFICES ASSUME NEW c \in Customers
               PROVE  wallet'[c] + Cardinality(Debited(c)') = Balance
  BY DEF WalletAccounted, Debited
<1>2. wallet[c] + Cardinality(Debited(c)) = Balance
  BY DEF WalletAccounted, Debited
<1>3. IsFiniteSet(Debited(c))
  BY CheckoutAssumption, FS_Subset DEF Debited
<1>4. /\ Cardinality(Debited(c)) \in Nat /\ wallet \in [Customers -> Nat]
      /\ order \in [Orders -> OrderRecords]
  BY <1>3, FS_CardinalityType DEF KeyInv, TypeOK
<1>5. setting' = setting /\ Request' = Request
  BY Effects DEF Request
<1>6. ASSUME wallet' = wallet,
             \A p \in Orders : order'[p].request = order[p].request /\ order'[p].reversed = order[p].reversed
      PROVE  wallet'[c] + Cardinality(Debited(c)') = Balance
  <2>1. Debited(c)' = Debited(c)
    BY <1>5, <1>6 DEF Debited, CustomerOf
  <2> QED BY <1>2, <1>6, <2>1
<1>7. ASSUME NEW k \in Keys, Commit(k)
      PROVE  wallet'[c] + Cardinality(Debited(c)') = Balance
  <2>1. PICK o \in Orders :
           /\ order[o] = NoOrder
           /\ \A p \in Orders : order'[p] = IF p = o THEN NewOrder(k) ELSE order[p]
    BY <1>7, CommitPlaces
  <2>2. o \notin Debited(c)
    BY <2>1 DEF Debited, NoOrder
  <2>3. /\ order'[o].request = k /\ k # None /\ ~order'[o].reversed
        /\ Request[k] \in Requests
    BY <2>1, RequestTyped, CheckoutAssumption DEF KeyInv, NewOrder
  <2>4. CASE Request[k].wallet /\ Request[k].customer = c
    <3>1. wallet[c] > 0 /\ wallet'[c] = wallet[c] - 1
      BY <1>4, <1>7, <2>4 DEF Commit, Possible
    <3>2. Debited(c)' = Debited(c) \cup {o}
      BY <1>5, <2>1, <2>3, <2>4 DEF Debited, CustomerOf
    <3>3. Cardinality(Debited(c) \cup {o}) = Cardinality(Debited(c)) + 1
      BY <1>3, <2>2, FS_AddElement
    <3> QED BY <1>2, <1>4, <3>1, <3>2, <3>3
  <2>5. CASE ~(Request[k].wallet /\ Request[k].customer = c)
    <3>1. wallet'[c] = wallet[c]
      BY <1>4, <1>7, <2>5 DEF Commit
    <3>2. Debited(c)' = Debited(c)
      BY <1>5, <2>1, <2>2, <2>3, <2>5 DEF Debited, CustomerOf
    <3> QED BY <1>2, <3>1, <3>2
  <2> QED BY <2>4, <2>5
<1>8. ASSUME NEW o \in Orders, order[o].status # "none", Reverses(o)
      PROVE  wallet'[c] + Cardinality(Debited(c)') = Balance
  <2>1. \A p \in Orders : /\ order'[p].request = order[p].request
                          /\ order'[p].reversed = (p = o \/ order[p].reversed)
    BY <1>4, <1>8 DEF Reverses, OrderRecords
  <2>2. order[o].request # None /\ ~order[o].reversed
    BY <1>8, CheckoutAssumption DEF KeyInv, OrdersRight, Reverses
  <2>3. Debited(c)' = Debited(c) \ {o}
    BY <1>5, <2>1 DEF Debited, CustomerOf
  <2>4. CASE Request[order[o].request].wallet /\ CustomerOf(o) = c
    <3>1. wallet'[c] = wallet[c] + 1
      BY <1>4, <1>8, <2>4 DEF Reverses
    <3>2. o \in Debited(c)
      BY <2>2, <2>4 DEF Debited
    <3>3. Cardinality(Debited(c) \ {o}) = Cardinality(Debited(c)) - 1
      BY <1>3, <3>2, FS_RemoveElement
    <3> QED BY <1>2, <1>4, <2>3, <3>1, <3>3
  <2>5. CASE ~(Request[order[o].request].wallet /\ CustomerOf(o) = c)
    <3>1. wallet'[c] = wallet[c]
      BY <1>4, <1>8, <2>5 DEF Reverses
    <3>2. o \notin Debited(c)
      BY <2>5 DEF Debited
    <3>3. Debited(c) \ {o} = Debited(c)
      BY <3>2
    <3> QED BY <1>2, <2>3, <3>1, <3>3
  <2> QED BY <2>4, <2>5
<1>9. ASSUME NEW o \in Orders, (GiveCouponBack(o) /\ UNCHANGED wallet) \/ PaymentFails(o)
      PROVE  wallet'[c] + Cardinality(Debited(c)') = Balance
  <2>1. wallet' = wallet
    BY <1>9 DEF PaymentFails
  <2>2. \A p \in Orders : order'[p].request = order[p].request /\ order'[p].reversed = order[p].reversed
    BY <1>4, <1>9 DEF GiveCouponBack, PaymentFails, OrderRecords
  <2> QED BY <1>6, <2>1, <2>2
<1>10. CASE AccountsKept
  BY <1>6, <1>10 DEF AccountsKept
<1> QED BY Effects, <1>7, <1>8, <1>9, <1>10 DEF AccountsChange

(* What an order took from the wallet in the transaction is given back at  *)
(* most once by reverseOrderFinanceOnCancellation, whoever compensates.    *)
THEOREM WalletIsAccounted == Spec => []WalletAccounted
<1>1. Init => WalletAccounted
  <2> SUFFICES ASSUME Init, NEW c \in Customers
               PROVE  wallet[c] + Cardinality(Debited(c)) = Balance
    BY DEF WalletAccounted, Debited
  <2>1. Debited(c) = {}
    BY DEF Init, NoOrder, Debited
  <2>2. Cardinality({}) = 0 /\ Balance \in Nat
    BY FS_EmptySet, CheckoutAssumption
  <2> QED BY <2>1, <2>2 DEF Init
<1>2. KeyInv /\ WalletAccounted /\ [Next]_vars => WalletAccounted'
  BY WalletStep
<1> QED BY <1>1, <1>2, KeyInvariant, PTL DEF Spec

-----------------------------------------------------------------------------
(* Stock, while no admin cancels from a stale read: whoever gives back has *)
(* its order to itself, and the order is cancelled.  Owed are the units of *)
(* standing orders and those a compensation has still to return.           *)
Returning == {"read", "release"}

CompensatesAlone ==
  /\ \A h \in Handlers : task[h].kind \in GivingBack =>
       task[h].kind # "cancel" /\ order[task[h].order].status = "cancelled"
  /\ \A h1, h2 \in Handlers :
       /\ task[h1].kind \in GivingBack /\ task[h2].kind \in GivingBack
       /\ task[h1].order = task[h2].order
       => h1 = h2

Owed ==
  {o \in Orders : \/ order[o].status = "placed"
                  \/ \E h \in Handlers : task[h].kind \in Returning /\ task[h].order = o}

StockInv ==
  Surprise("staleCancel") \/ (CompensatesAlone /\ stock + Cardinality(Owed) <= Stock)

LEMMA OwedFinite ==
  ASSUME TypeOK
  PROVE  IsFiniteSet(Owed) /\ Cardinality(Owed) \in Nat /\ stock \in Nat /\ Stock \in Nat
<1>1. IsFiniteSet(Owed)
  BY CheckoutAssumption, FS_Subset DEF Owed
<1> QED BY <1>1, FS_CardinalityType, CheckoutAssumption DEF TypeOK

(* A task goes on with its order, or starts something else.                *)
GoesOn(t, u) ==
  \/ u.kind \notin GivingBack
  \/ /\ t.kind \in GivingBack /\ u.order = t.order /\ u.kind # "cancel"
     /\ u.kind \in Returning => t.kind \in Returning

LEMMA ContinueGoesOn ==
  ASSUME TypeOK, NEW h \in Handlers, NEW kind \in TaskKinds, Continue(h, kind),
         \/ kind \notin GivingBack
         \/ /\ task[h].kind \in GivingBack /\ kind # "cancel"
            /\ kind \in Returning => task[h].kind \in Returning
  PROVE  \A i \in Handlers : task'[i] = task[i] \/ GoesOn(task[i], task'[i])
<1> DEFINE t == [task[h] EXCEPT !.kind = kind]
<1>1. t.kind = kind /\ t.order = task[h].order
  BY DEF TypeOK, Tasks
<1>2. \A i \in Handlers : task'[i] = IF i = h THEN t ELSE task[i]
  BY DEF Continue, TypeOK
<1> HIDE DEF t
<1> QED BY <1>1, <1>2 DEF GoesOn

LEMMA FinishGoesOn ==
  ASSUME TypeOK, NEW h \in Handlers, Finish(h)
  PROVE  \A i \in Handlers : task'[i] = task[i] \/ GoesOn(task[i], task'[i])
<1>1. Idle.kind \notin GivingBack
  BY DEF Idle, GivingBack
<1>2. \A i \in Handlers : task'[i] = IF i = h THEN Idle ELSE task[i]
  BY DEF Finish, TypeOK
<1> HIDE DEF Idle
<1> QED BY <1>1, <1>2 DEF GoesOn

(* Steps that neither take stock nor return it.                            *)
LEMMA StockKept ==
  ASSUME KeyInv, TypeOK', StockInv, UNCHANGED <<stock, setting>>,
         \A o \in Orders : order'[o].status = order[o].status,
         \A i \in Handlers : task'[i] = task[i] \/ GoesOn(task[i], task'[i])
  PROVE  StockInv'
<1>1. SUFFICES ASSUME ~Surprise("staleCancel")
               PROVE  CompensatesAlone' /\ stock + Cardinality(Owed)' <= Stock
  BY DEF StockInv, Surprise
<1>2. CompensatesAlone /\ stock + Cardinality(Owed) <= Stock
  BY <1>1 DEF StockInv
<1>3. \A i \in Handlers : task'[i].kind \in GivingBack
        => /\ task[i].kind \in GivingBack /\ task'[i].order = task[i].order
           /\ task'[i].kind # "cancel"
           /\ task'[i].kind \in Returning => task[i].kind \in Returning
  BY <1>2 DEF GoesOn, CompensatesAlone
<1>4. \A i \in Handlers : task[i].kind \in GivingBack => task[i].order \in Orders
  BY DEF KeyInv, TasksRight, Right, NamesItsSubject
<1>5. CompensatesAlone'
  BY <1>2, <1>3, <1>4 DEF CompensatesAlone
<1>6. Owed' \subseteq Owed
  BY <1>3 DEF Owed, Returning, GivingBack
<1>7. Cardinality(Owed') <= Cardinality(Owed) /\ Cardinality(Owed') \in Nat
  BY <1>6, OwedFinite, FS_Subset, FS_CardinalityType DEF KeyInv
<1> QED BY <1>2, <1>5, <1>7, OwedFinite DEF KeyInv

(* The transaction takes a unit for a new order.                           *)
LEMMA StockTaken ==
  ASSUME KeyInv, StockInv, NEW k \in Keys, Commit(k), setting' = setting,
         \A i \in Handlers : task'[i] = task[i] \/ GoesOn(task[i], task'[i])
  PROVE  StockInv'
<1>1. SUFFICES ASSUME ~Surprise("staleCancel")
               PROVE  CompensatesAlone' /\ stock' + Cardinality(Owed)' <= Stock
  BY DEF StockInv, Surprise
<1>2. CompensatesAlone /\ stock + Cardinality(Owed) <= Stock
  BY <1>1 DEF StockInv
<1>3. PICK o \in Orders :
         /\ order[o] = NoOrder
         /\ \A p \in Orders : order'[p] = IF p = o THEN NewOrder(k) ELSE order[p]
  BY CommitPlaces
<1>4. \A i \in Handlers : task'[i].kind \in GivingBack
        => /\ task[i].kind \in GivingBack /\ task'[i].order = task[i].order
           /\ task'[i].kind # "cancel"
           /\ task'[i].kind \in Returning => task[i].kind \in Returning
  BY <1>2 DEF GoesOn, CompensatesAlone
<1>5. \A i \in Handlers : task[i].kind \in GivingBack
        => task[i].order \in Orders /\ task[i].order # o
  BY <1>3 DEF KeyInv, TasksRight, Right, NamesItsSubject, NoOrder
<1>6. CompensatesAlone'
  BY <1>2, <1>3, <1>4, <1>5 DEF CompensatesAlone
<1>7. Owed' \subseteq Owed \cup {o}
  BY <1>3, <1>4 DEF Owed, Returning, GivingBack
<1>8. IsFiniteSet(Owed \cup {o}) /\ Cardinality(Owed \cup {o}) <= Cardinality(Owed) + 1
  BY OwedFinite, FS_AddElement DEF KeyInv
<1>9. Cardinality(Owed') <= Cardinality(Owed) + 1 /\ Cardinality(Owed') \in Nat
  <2>1. IsFiniteSet(Owed') /\ Cardinality(Owed') <= Cardinality(Owed \cup {o})
    BY <1>7, <1>8, FS_Subset
  <2>2. Cardinality(Owed') \in Nat /\ Cardinality(Owed \cup {o}) \in Nat
    BY <2>1, <1>8, FS_CardinalityType
  <2> QED BY <1>8, <2>1, <2>2, OwedFinite DEF KeyInv
<1>10. stock' = stock - 1
  BY DEF Commit, reserveStockForItems
<1> QED BY <1>2, <1>6, <1>9, <1>10, OwedFinite DEF KeyInv

(* A unit comes back for an order that is owed no longer.                  *)
LEMMA StockReturned ==
  ASSUME KeyInv, NEW o \in Orders, o \in Owed, stock' \in {stock, stock + 1},
         Owed' \subseteq Owed \ {o}, stock + Cardinality(Owed) <= Stock
  PROVE  stock' + Cardinality(Owed') <= Stock
<1>1. IsFiniteSet(Owed \ {o}) /\ Cardinality(Owed \ {o}) = Cardinality(Owed) - 1
  BY OwedFinite, FS_RemoveElement DEF KeyInv
<1>2. Cardinality(Owed') <= Cardinality(Owed \ {o}) /\ Cardinality(Owed') \in Nat
  BY <1>1, FS_Subset, FS_CardinalityType
<1> QED BY <1>1, <1>2, OwedFinite DEF KeyInv

LEMMA ServeStock ==
  ASSUME KeyInv, TypeOK', StockInv, NEW h \in Handlers, Serve(h)
  PROVE  StockInv'
<1>1. CASE PlaceOrder(h) \/ UnknownCommit(h)
  <2>1. /\ Continue(h, "placed") \/ Continue(h, "refused")
        /\ Busy(h, "place") /\ setting' = setting
        /\ Commit(task[h].key) \/ UNCHANGED <<order, stock>>
    BY <1>1 DEF PlaceOrder, UnknownCommit, goods
  <2>2. \A i \in Handlers : task'[i] = task[i] \/ GoesOn(task[i], task'[i])
    BY <2>1, ContinueGoesOn DEF KeyInv, TaskKinds, GivingBack
  <2>3. task[h].key \in Keys
    BY <2>1 DEF Busy, KeyInv, TasksRight, Right, NamesItsSubject, Serving
  <2> QED BY <2>1, <2>2, <2>3, StockTaken, StockKept
<1>2. CASE ~PlaceOrder(h) /\ ~UnknownCommit(h)
  <2>1. UNCHANGED <<order, stock, setting>>
    BY <1>2 DEF Serve, checkIdempotency, acquireIdempotencyLock, ReturnExisting,
       findExistingCheckoutByIdempotency, RefuseOrder, DuplicateKey, RetryConflict,
       GiveUp, StoreResult, StoreError, goods
  <2>2. \/ Finish(h) \/ RetryConflict(h)
        \/ \E kind \in {"acquire", "lookup", "found", "place", "refused", "duplicate"} :
             Continue(h, kind)
    BY <1>2 DEF Serve, checkIdempotency, acquireIdempotencyLock, ReturnExisting,
       findExistingCheckoutByIdempotency, RefuseOrder, DuplicateKey, GiveUp,
       StoreResult, StoreError, Answer
  <2>3. \A i \in Handlers : task'[i] = task[i] \/ GoesOn(task[i], task'[i])
    <3>1. CASE Finish(h)
      BY <3>1, FinishGoesOn DEF KeyInv
    <3>2. CASE RetryConflict(h)
      <4>1. \A i \in Handlers : i # h => task'[i] = task[i]
        BY <3>2 DEF RetryConflict, KeyInv, TypeOK
      <4>2. task'[h].kind = "check"
        BY <3>2 DEF RetryConflict, KeyInv, TypeOK, Tasks
      <4> QED BY <4>1, <4>2 DEF GoesOn, GivingBack
    <3>3. ASSUME NEW kind \in {"acquire", "lookup", "found", "place", "refused", "duplicate"},
                 Continue(h, kind)
          PROVE  \A i \in Handlers : task'[i] = task[i] \/ GoesOn(task[i], task'[i])
      BY <3>3, ContinueGoesOn DEF KeyInv, TaskKinds, GivingBack
    <3> QED BY <2>2, <3>1, <3>2, <3>3
  <2> QED BY <2>1, <2>3, StockKept
<1> QED BY <1>1, <1>2

LEMMA GivingBackStock ==
  ASSUME KeyInv, TypeOK', StockInv, ~Surprise("staleCancel"), NEW h \in Handlers,
         Compensate(h)
  PROVE  StockInv'
<1>1. order \in [Orders -> OrderRecords]
  BY DEF KeyInv, TypeOK
<1>2. CompensatesAlone /\ stock + Cardinality(Owed) <= Stock
  BY DEF StockInv
<1>3. CASE AdminCancel(h)
  BY <1>2, <1>3 DEF AdminCancel, Busy, CompensatesAlone, GivingBack
<1>4. CASE releaseReservedStockForOrder(h)
  <2> DEFINE o == task[h].order
  <2>1. Busy(h, "release") /\ Continue(h, "mark") /\ stock' = stock + 1
        /\ UNCHANGED <<order, setting>>
    BY <1>4 DEF releaseReservedStockForOrder
  <2>2. o \in Orders /\ o \in Owed /\ order[o].status = "cancelled"
    BY <1>2, <2>1, TaskOrderExists DEF Busy, GivingBack, Owed, Returning, CompensatesAlone
  <2> DEFINE t == [task[h] EXCEPT !.kind = "mark"]
  <2>3. t.kind = "mark" /\ t.order = o
    BY DEF KeyInv, TypeOK, Tasks
  <2>4. \A i \in Handlers : task'[i] = IF i = h THEN t ELSE task[i]
    BY <2>1 DEF Continue, KeyInv, TypeOK
  <2>5. task[h].kind = "release"
    BY <2>1 DEF Busy
  <2> HIDE DEF t
  <2>6. CompensatesAlone'
    BY <1>2, <2>1, <2>2, <2>3, <2>4, <2>5 DEF CompensatesAlone, GivingBack
  <2>7. \A i \in Handlers \ {h} : task[i].kind \in Returning => task[i].order # o
    BY <1>2, <2>5 DEF CompensatesAlone, GivingBack, Returning
  <2>8. Owed' \subseteq Owed \ {o}
    BY <2>1, <2>2, <2>3, <2>4, <2>7 DEF Owed, Returning
  <2>9. stock' + Cardinality(Owed') <= Stock
    BY <1>2, <2>1, <2>2, <2>8, StockReturned
  <2> QED BY <2>6, <2>9 DEF StockInv
<1>5. CASE ~AdminCancel(h) /\ ~releaseReservedStockForOrder(h)
  <2>1. /\ UNCHANGED <<stock, setting>>
        /\ \A o \in Orders : order'[o].status = order[o].status
    BY <1>1, <1>5 DEF Compensate, CompensateRead, MarkReleased, releaseCouponUsageForOrder,
       GiveCouponBack, reverseOrderFinanceOnCancellation, goods, OrderRecords
  <2>2. \/ Busy(h, "read") /\ (Continue(h, "restore") \/ Continue(h, "release"))
        \/ Busy(h, "mark") /\ Continue(h, "restore")
        \/ Busy(h, "restore") /\ Continue(h, "reverse")
        \/ Finish(h)
    BY <1>5 DEF Compensate, CompensateRead, MarkReleased, releaseCouponUsageForOrder,
       reverseOrderFinanceOnCancellation
  <2>3. \A i \in Handlers : task'[i] = task[i] \/ GoesOn(task[i], task'[i])
    BY <2>2, ContinueGoesOn, FinishGoesOn DEF KeyInv, Busy, TaskKinds, GivingBack, Returning
  <2> QED BY <2>1, <2>3, StockKept
<1> QED BY <1>3, <1>4, <1>5

LEMMA StockStep ==
  ASSUME KeyInv, TypeOK', StockInv, [Next]_vars
  PROVE  StockInv'
<1>1. setting' = setting
  BY Effects
<1>2. SUFFICES ASSUME ~Surprise("staleCancel") PROVE StockInv'
  BY <1>1 DEF StockInv, Surprise
<1>3. CompensatesAlone /\ stock + Cardinality(Owed) <= Stock
  BY <1>2 DEF StockInv
<1>4. ASSUME NEW h \in Handlers, Serve(h) PROVE StockInv'
  BY <1>4, ServeStock
<1>5. ASSUME NEW h \in Handlers, Compensate(h) PROVE StockInv'
  BY <1>2, <1>5, GivingBackStock
<1>6. ASSUME NEW h \in Handlers, Crash(h) PROVE StockInv'
  <2>1. UNCHANGED <<stock, setting, order>> /\ Finish(h)
    BY <1>6 DEF Crash, goods
  <2> QED BY <2>1, FinishGoesOn, StockKept DEF KeyInv
<1>7. ASSUME NEW h \in Handlers, NEW k \in Keys, Ask(h, k) PROVE StockInv'
  <2>1. UNCHANGED <<stock, setting, order>>
    BY <1>7 DEF Ask, goods
  <2> DEFINE t == [Idle EXCEPT !.kind = "check", !.key = k]
  <2>2. t.kind \notin GivingBack
    BY DEF Idle, GivingBack
  <2>3. \A i \in Handlers : task'[i] = IF i = h THEN t ELSE task[i]
    BY <1>7 DEF Ask, Start, KeyInv, TypeOK
  <2> HIDE DEF t
  <2>4. \A i \in Handlers : task'[i] = task[i] \/ GoesOn(task[i], task'[i])
    BY <2>2, <2>3 DEF GoesOn
  <2> QED BY <2>1, <2>4, StockKept
<1>8. ASSUME NEW h \in Handlers, NEW o \in Orders, CancelOrder(h, o) PROVE StockInv'
  <2>1. /\ order[o].status = "placed" /\ UNCHANGED <<stock, setting>>
        /\ order' = [order EXCEPT ![o].status = "cancelled"]
    BY <1>8 DEF CancelOrder, goods
  <2>2. \A p \in Orders :
          order'[p].status = IF p = o THEN "cancelled" ELSE order[p].status
    BY <2>1 DEF KeyInv, TypeOK, OrderRecords
  <2> DEFINE t == Compensating(o)
  <2>3. t.kind = "read" /\ t.order = o
    BY DEF Compensating, Idle
  <2>4. \A i \in Handlers : task'[i] = IF i = h THEN t ELSE task[i]
    BY <1>8 DEF CancelOrder, Start, KeyInv, TypeOK
  <2> HIDE DEF t
  <2>5. \A i \in Handlers : task[i].kind \in GivingBack
          => task[i].order \in Orders /\ task[i].order # o
    BY <1>3, <2>1, TaskOrderExists DEF CompensatesAlone
  <2>6. CompensatesAlone'
    BY <1>3, <2>2, <2>3, <2>4, <2>5 DEF CompensatesAlone
  <2>7. Owed' \subseteq Owed
    BY <2>1, <2>2, <2>3, <2>4 DEF Owed
  <2>8. Cardinality(Owed') <= Cardinality(Owed) /\ Cardinality(Owed') \in Nat
    BY <2>7, OwedFinite, FS_Subset, FS_CardinalityType DEF KeyInv
  <2>9. stock' + Cardinality(Owed') <= Stock
    BY <1>3, <2>1, <2>8, OwedFinite DEF KeyInv
  <2> QED BY <2>6, <2>9 DEF StockInv
<1>9. ASSUME NEW h \in Handlers, NEW o \in Orders, AdminCancelRead(h, o) PROVE StockInv'
  BY <1>2, <1>9 DEF AdminCancelRead
<1>10. ASSUME NEW o \in Orders, PaymentFails(o) PROVE StockInv'
  <2>1. /\ order[o].status = "placed" /\ UNCHANGED <<task, setting>>
        /\ stock' \in {stock, stock + 1}
    BY <1>10 DEF PaymentFails
  <2>2. \A p \in Orders :
          order'[p].status = IF p = o THEN "cancelled" ELSE order[p].status
    BY <1>10 DEF PaymentFails, KeyInv, TypeOK, OrderRecords
  <2>3. \A i \in Handlers : task[i].kind \in GivingBack
          => task[i].order \in Orders /\ task[i].order # o
    BY <1>3, <2>1, TaskOrderExists DEF CompensatesAlone
  <2>4. CompensatesAlone'
    BY <1>3, <2>1, <2>2, <2>3 DEF CompensatesAlone
  <2>5. o \in Owed /\ Owed' \subseteq Owed \ {o}
    BY <2>1, <2>2, <2>3 DEF Owed, Returning, GivingBack
  <2>6. stock' + Cardinality(Owed') <= Stock
    BY <1>3, <2>1, <2>5, StockReturned
  <2> QED BY <2>4, <2>6 DEF StockInv
<1>11. ASSUME \/ \E k \in Keys : Passes(k)
              \/ \E c \in Customers : FillCart(c)
              \/ UNCHANGED vars
       PROVE  StockInv'
  <2>1. UNCHANGED <<stock, setting, task>>
    BY <1>11 DEF Passes, LockExpires, ErrorExpires, ResultExpires, GroupExpires, ForgetKey,
       FillCart, vars, goods
  <2>2. \A o \in Orders : order'[o].status = order[o].status
    BY <1>11 DEF Passes, LockExpires, ErrorExpires, ResultExpires, GroupExpires, ForgetKey,
       FillCart, vars, goods, KeyInv, TypeOK, OrderRecords
  <2> QED BY <2>1, <2>2, StockKept
<1> QED BY <1>4, <1>5, <1>6, <1>7, <1>8, <1>9, <1>10, <1>11 DEF Next, Passes

(* Unless an admin cancels from a stale read, the units left and those of  *)
(* standing orders are never more than there were: every unit that comes   *)
(* back (applyCancellationCompensation, a failed payment) comes back once. *)
THEOREM StockIsNotOversold == Spec => []NeverOversold
<1>1. Init => StockInv
  <2> SUFFICES ASSUME Init PROVE StockInv
    OBVIOUS
  <2>1. CompensatesAlone /\ Owed = {}
    BY DEF Init, NoOrder, Idle, Owed, CompensatesAlone, GivingBack, Returning
  <2>2. Cardinality({}) = 0 /\ Stock \in Nat
    BY FS_EmptySet, CheckoutAssumption
  <2> QED BY <2>1, <2>2 DEF Init, StockInv
<1>2. KeyInv /\ KeyInv' /\ StockInv /\ [Next]_vars => StockInv'
  BY StockStep DEF KeyInv
<1>3. KeyInv /\ StockInv => NeverOversold
  <2> SUFFICES ASSUME KeyInv, StockInv, ~Surprise("staleCancel")
               PROVE  stock + Cardinality({o \in Orders : order[o].status = "placed"}) <= Stock
    BY DEF NeverOversold
  <2> DEFINE placed == {o \in Orders : order[o].status = "placed"}
  <2>1. placed \subseteq Owed
    BY DEF Owed
  <2>2. Cardinality(placed) <= Cardinality(Owed) /\ Cardinality(placed) \in Nat
    BY <2>1, OwedFinite, FS_Subset, FS_CardinalityType DEF KeyInv
  <2> QED BY <2>2, OwedFinite DEF StockInv, KeyInv
<1> QED BY <1>1, <1>2, <1>3, KeyInvariant, PTL DEF Spec

-----------------------------------------------------------------------------
(***************************************************************************)
(* What customers are told.  That an order is placed is only said with an  *)
(* order behind it: each of the five places that make a handler say so has *)
(* one (Kept, Grounded).  That it failed is only said for good reason in   *)
(* calm weather, when a request is served alone: then nobody else places   *)
(* an order between the refusal of one handler and its answer, and no      *)
(* handler that starts later passes the cached error.                      *)
(***************************************************************************)

HasOrder(k) == OrdersOf(k) # {}
HasKey(k) == Carrying(k) # {}

Kept(k) == told[k] = "order" \/ cache[k].result \/ k \in groups => HasOrder(k)

Owning == {"found", "placed", "duplicate"}
Grounded(t) == t.kind \in Owning => HasOrder(t.key)

(* A handler has a key only while it serves a request.                     *)
KeyHeld(t) == t.kind \notin Serving => t.key = None

ServedAlone(h) ==
  task[h].key # None =>
    /\ told[task[h].key] = "nothing"
    /\ \A i \in Handlers : task[i].key = task[h].key => i = h
    /\ task[h].kind \in {"place", "refused"} => ~HasKey(task[h].key)
    /\ task[h].kind # "check" => ~cache[task[h].key].error

Denied(k) == told[k] = "failed" \/ cache[k].error => ~HasKey(k)

CalmTruth == (\A h \in Handlers : ServedAlone(h)) /\ (\A k \in Keys : Denied(k))

Truth ==
  /\ \A h \in Handlers : KeyHeld(task[h]) /\ Grounded(task[h])
  /\ \A k \in Keys : Kept(k)
  /\ Calm => CalmTruth

-----------------------------------------------------------------------------
(* What a step of h leaves alone, when h serves the request k.             *)
Exchanged(h, k) ==
  /\ \A i \in Handlers \ {h} : task'[i] = task[i]
  /\ \A j \in Keys \ {k} : /\ told'[j] = told[j] /\ cache'[j] = cache[j]
                           /\ j \in groups' <=> j \in groups
                           /\ (HasOrder(j)' <=> HasOrder(j)) /\ (HasKey(j)' <=> HasKey(j))
  /\ HasOrder(k) => HasOrder(k)'
  /\ task'[h] = Idle \/ (task'[h].key = k /\ task'[h].kind \in Serving)
  /\ setting' = setting

(* What it must see to for its own key.                                    *)
OwnKept(h, k) ==
  /\ told'[k] = "order" \/ cache'[k].result \/ k \in groups' => HasOrder(k)'
  /\ task'[h].kind \in Owning => HasOrder(k)'

OwnCalm(h, k) ==
  /\ task'[h].key = k => /\ told'[k] = "nothing"
                         /\ task'[h].kind \in {"place", "refused"} => ~HasKey(k)'
                         /\ task'[h].kind # "check" => ~cache'[k].error
  /\ told'[k] = "failed" \/ cache'[k].error => ~HasKey(k)'

LEMMA ExchangeKeepsTruth ==
  ASSUME KeyInv, Truth, NEW h \in Handlers, NEW k \in Keys, task[h].key = k,
         Exchanged(h, k), OwnKept(h, k), Calm => OwnCalm(h, k)
  PROVE  Truth'
<1>1. Idle.kind = "idle" /\ Idle.key = None
  BY DEF Idle
<1>2. k # None
  BY CheckoutAssumption
<1>3. \A i \in Handlers \ {h} : task'[i] = task[i]
  BY DEF Exchanged
<1>4. \A j \in Keys \ {k} : /\ told'[j] = told[j] /\ cache'[j] = cache[j]
                            /\ j \in groups' <=> j \in groups
                            /\ (HasOrder(j)' <=> HasOrder(j)) /\ (HasKey(j)' <=> HasKey(j))
  BY DEF Exchanged
<1>5. task'[h] = Idle \/ (task'[h].key = k /\ task'[h].kind \in Serving)
  BY DEF Exchanged
<1>6. ASSUME NEW i \in Handlers \ {h}, task[i].key \in Keys
      PROVE  HasOrder(task[i].key) => HasOrder(task[i].key)'
  <2> DEFINE j == task[i].key
  <2>1. PICK jj \in Keys : jj = task[i].key /\ jj = task'[i].key
    BY <1>3, <1>6
  <2>2. HasOrder(jj) => HasOrder(jj)'
    BY <1>4 DEF Exchanged
  <2> QED BY <2>1, <2>2 DEF HasOrder, HasKey, OrdersOf, Carrying
<1>7. ASSUME NEW i \in Handlers PROVE KeyHeld(task[i])' /\ Grounded(task[i])'
  <2>1. CASE i = h
    BY <1>1, <1>5, <2>1 DEF KeyHeld, Grounded, OwnKept, Owning, HasOrder, OrdersOf
  <2>2. CASE i # h
    <3>1. KeyHeld(task[i]) /\ Grounded(task[i]) /\ Right(task[i])
      BY DEF Truth, KeyInv, TasksRight
    <3>2. task[i].kind \in Owning => task[i].key \in Keys
      BY <3>1 DEF Right, NamesItsSubject, Owning, Serving
    <3> QED BY <1>3, <1>6, <2>2, <3>1, <3>2 DEF KeyHeld, Grounded
  <2> QED BY <2>1, <2>2
<1>8. ASSUME NEW j \in Keys PROVE Kept(j)'
  <2>1. CASE j = k
    BY <2>1 DEF OwnKept, Kept
  <2>2. CASE j # k
    BY <1>4, <2>2 DEF Truth, Kept
  <2> QED BY <2>1, <2>2
<1>9. ASSUME Calm' PROVE CalmTruth'
  <2>1. Calm /\ CalmTruth /\ OwnCalm(h, k)
    BY <1>9 DEF Calm, Exchanged, Truth
  <2>2. ASSUME NEW i \in Handlers PROVE ServedAlone(i)'
    <3>1. CASE i = h
      <4>1. CASE task'[h] = Idle
        BY <1>1, <3>1, <4>1 DEF ServedAlone
      <4>2. CASE task'[h].key = k
        <5>1. \A q \in Handlers : task'[q].key = k => q = h
          BY <1>2, <1>3, <2>1 DEF CalmTruth, ServedAlone
        <5>2. /\ HasOrder(task[h].key)' <=> HasOrder(k)'
              /\ HasKey(task[h].key)' <=> HasKey(k)'
          BY <4>2 DEF HasOrder, HasKey, OrdersOf, Carrying
        <5> QED BY <2>1, <3>1, <4>2, <5>1, <5>2 DEF OwnCalm, ServedAlone
      <4> QED BY <1>5, <4>1, <4>2
    <3>2. CASE i # h
      <4> SUFFICES ASSUME task'[i].key # None PROVE ServedAlone(i)'
        BY DEF ServedAlone
      <4>1. ServedAlone(i) /\ ServedAlone(h) /\ task'[i] = task[i]
        BY <1>3, <2>1, <3>2 DEF CalmTruth
      <4>2. task[i].key # k
        BY <1>2, <3>2, <4>1 DEF ServedAlone
      <4>3. KeyHeld(task[i]) /\ Right(task[i])
        BY DEF Truth, KeyInv, TasksRight
      <4>4. PICK j \in Keys \ {k} : j = task[i].key
        BY <4>1, <4>2, <4>3 DEF KeyHeld, Right, NamesItsSubject
      <4>5. \A q \in Handlers : task'[q].key = j => q = i
        <5>1. \A q \in Handlers : task[q].key = j => q = i
          BY <4>1, <4>4 DEF ServedAlone
        <5>2. task'[h].key # j
          BY <1>1, <1>5, <4>1, <4>4
        <5> QED BY <1>3, <5>1, <5>2
      <4>6. /\ HasOrder(task[i].key)' <=> HasOrder(j)'
            /\ HasKey(task[i].key)' <=> HasKey(j)'
        BY <4>1, <4>4 DEF HasOrder, HasKey, OrdersOf, Carrying
      <4>7. /\ task'[i].key = j /\ told'[j] = told[j] /\ cache'[j] = cache[j]
            /\ (HasOrder(j)' <=> HasOrder(j)) /\ (HasKey(j)' <=> HasKey(j))
        BY <1>4, <4>1, <4>4
      <4> QED BY <4>1, <4>4, <4>5, <4>6, <4>7 DEF ServedAlone
    <3> QED BY <3>1, <3>2
  <2>3. ASSUME NEW j \in Keys PROVE Denied(j)'
    <3>1. CASE j = k
      BY <2>1, <3>1 DEF OwnCalm, Denied
    <3>2. CASE j # k
      BY <1>4, <2>1, <3>2 DEF CalmTruth, Denied
    <3> QED BY <3>1, <3>2
  <2> QED BY <2>2, <2>3 DEF CalmTruth
<1> QED BY <1>7, <1>8, <1>9 DEF Truth

-----------------------------------------------------------------------------
(* The pieces such a step is made of.                                      *)
LEMMA OrdersStay ==
  ASSUME \A o \in Orders : order'[o].request = order[o].request /\ order'[o].key = order[o].key
  PROVE  \A k \in Keys : /\ HasOrder(k)' <=> HasOrder(k)
                         /\ HasKey(k)' <=> HasKey(k)
BY DEF HasOrder, HasKey, OrdersOf, Carrying

LEMMA TasksAfter ==
  ASSUME TypeOK, NEW h \in Handlers
  PROVE  /\ Finish(h) => task'[h] = Idle /\ \A i \in Handlers \ {h} : task'[i] = task[i]
         /\ \A kind \in TaskKinds : Continue(h, kind)
              => /\ task'[h].kind = kind /\ task'[h].key = task[h].key
                 /\ \A i \in Handlers \ {h} : task'[i] = task[i]
BY DEF TypeOK, Finish, Continue, Tasks

LEMMA AnswerAfter ==
  ASSUME TypeOK, NEW h \in Handlers, NEW k \in Keys, task[h].key = k, NEW a, Answer(h, a)
  PROVE  /\ told'[k] = a /\ task'[h] = Idle
         /\ \A j \in Keys \ {k} : told'[j] = told[j]
         /\ \A i \in Handlers \ {h} : task'[i] = task[i]
BY TasksAfter DEF Answer, TypeOK

LEMMA CacheAfter ==
  ASSUME TypeOK, NEW k \in Keys
  PROVE  /\ \A j \in Keys \ {k} : /\ WithResult(k)[j] = cache[j] /\ WithError(k)[j] = cache[j]
                                  /\ WithoutLock(k)[j] = cache[j]
         /\ WithResult(k)[k].result /\ WithResult(k)[k].error = cache[k].error
         /\ WithError(k)[k].error /\ WithError(k)[k].result = cache[k].result
         /\ WithoutLock(k)[k].error = cache[k].error
         /\ WithoutLock(k)[k].result = cache[k].result
<1>1. cache \in [Keys -> CacheEntries]
  BY DEF TypeOK
<1> QED BY <1>1 DEF WithResult, WithError, WithoutLock, CacheEntries

(* The transaction leaves an order of its key behind.                      *)
LEMMA CommitOwns ==
  ASSUME KeyInv, NEW k \in Keys, Commit(k)
  PROVE  HasOrder(k)' /\ \A j \in Keys \ {k} : /\ HasOrder(j)' <=> HasOrder(j)
                                               /\ HasKey(j)' <=> HasKey(j)
<1>1. PICK o \in Orders :
        /\ order[o] = NoOrder
        /\ \A p \in Orders : order'[p] = IF p = o THEN NewOrder(k) ELSE order[p]
  BY CommitPlaces
<1>2. /\ NewOrder(k).key = k /\ NewOrder(k).request = k
      /\ NoOrder.key = None /\ NoOrder.request = None /\ None \notin Keys
  BY CheckoutAssumption DEF NewOrder, NoOrder
<1> QED BY <1>1, <1>2 DEF HasOrder, HasKey, OrdersOf, Carrying

(* What the handler knows before it serves on.                             *)
LEMMA Known ==
  ASSUME KeyInv, Truth, NEW h \in Handlers, NEW k \in Keys, task[h].key = k
  PROVE  /\ Kept(k)
         /\ task[h].kind \in Owning => HasOrder(k)
         /\ Calm => /\ told[k] = "nothing" /\ Denied(k)
                    /\ task[h].kind \in {"place", "refused"} => ~HasKey(k)
                    /\ task[h].kind # "check" => ~cache[k].error
<1>1. k # None
  BY CheckoutAssumption
<1> QED BY <1>1 DEF Truth, CalmTruth, ServedAlone, Grounded

-----------------------------------------------------------------------------
(* In front of the transaction.                                            *)
LEMMA AskingTruth ==
  ASSUME KeyInv, Truth, NEW h \in Handlers, NEW k \in Keys, task[h].key = k,
         \/ checkIdempotency(h) \/ acquireIdempotencyLock(h)
         \/ findExistingCheckoutByIdempotency(h) \/ ReturnExisting(h)
  PROVE  Exchanged(h, k) /\ OwnKept(h, k) /\ (Calm => OwnCalm(h, k))
<1> USE DEF KeyInv
<1>1. UNCHANGED <<order, groups, setting>>
  BY DEF checkIdempotency, acquireIdempotencyLock, findExistingCheckoutByIdempotency,
         ReturnExisting
<1>2. \A j \in Keys : /\ HasOrder(j)' <=> HasOrder(j)
                      /\ HasKey(j)' <=> HasKey(j)
  BY <1>1, OrdersStay
<1>3. Idle.kind = "idle" /\ Idle.key = None /\ k # None
  BY CheckoutAssumption DEF Idle
<1>4. /\ Kept(k)
      /\ task[h].kind \in Owning => HasOrder(k)
      /\ Calm => /\ told[k] = "nothing" /\ Denied(k)
                 /\ task[h].kind \in {"place", "refused"} => ~HasKey(k)
                 /\ task[h].kind # "check" => ~cache[k].error
  BY Known
<1> USE DEF Exchanged, OwnKept, OwnCalm, Owning, Serving, Kept, Denied, Busy
<1>5. CASE checkIdempotency(h)
  <2>1. cache' = cache
    BY <1>5 DEF checkIdempotency
  <2>2. CASE Continue(h, "acquire") /\ UNCHANGED told
             /\ (~(cache[k].error \/ cache[k].result \/ cache[k].locked) \/ Surprise("cacheDown"))
    <3>1. /\ task'[h].kind = "acquire" /\ task'[h].key = k
          /\ \A i \in Handlers \ {h} : task'[i] = task[i]
      BY <2>2, TasksAfter DEF TaskKinds
    <3>2. Calm => ~cache[k].error
      BY <2>2 DEF Calm, Surprise
    <3>3. Exchanged(h, k)
      BY <1>1, <1>2, <2>1, <2>2, <3>1
    <3>4. OwnKept(h, k)
      BY <1>1, <1>2, <1>4, <2>1, <2>2, <3>1
    <3>5. Calm => OwnCalm(h, k)
      BY <1>1, <1>2, <1>4, <2>1, <2>2, <3>1, <3>2
    <3> QED BY <3>3, <3>4, <3>5
  <2>3. ASSUME NEW a, Answer(h, a), a = "order" => cache[k].result,
               a = "failed" => cache[k].error
        PROVE  Exchanged(h, k) /\ OwnKept(h, k) /\ (Calm => OwnCalm(h, k))
    <3>1. /\ told'[k] = a /\ task'[h] = Idle
          /\ \A j \in Keys \ {k} : told'[j] = told[j]
          /\ \A i \in Handlers \ {h} : task'[i] = task[i]
      BY <2>3, AnswerAfter
    <3>2. Exchanged(h, k)
      BY <1>1, <1>2, <2>1, <3>1
    <3>3. OwnKept(h, k)
      BY <1>1, <1>2, <1>3, <1>4, <2>1, <2>3, <3>1
    <3>4. Calm => OwnCalm(h, k)
      BY <1>2, <1>3, <1>4, <2>1, <2>3, <3>1
    <3> QED BY <3>2, <3>3, <3>4
  <2> QED BY <1>5, <2>2, <2>3 DEF checkIdempotency
<1>6. CASE acquireIdempotencyLock(h)
  <2>1. /\ \A j \in Keys \ {k} : cache'[j] = cache[j]
        /\ cache'[k].error = cache[k].error /\ cache'[k].result = cache[k].result
    BY <1>6 DEF acquireIdempotencyLock, TypeOK, CacheEntries
  <2>2. CASE Answer(h, "busy")
    <3>1. /\ told'[k] = "busy" /\ task'[h] = Idle
          /\ \A j \in Keys \ {k} : told'[j] = told[j]
          /\ \A i \in Handlers \ {h} : task'[i] = task[i]
      BY <2>2, AnswerAfter
    <3> QED BY <1>1, <1>2, <1>3, <1>4, <2>1, <3>1
  <2>3. CASE Continue(h, "lookup") /\ UNCHANGED told
    <3>1. /\ task'[h].kind = "lookup" /\ task'[h].key = k
          /\ \A i \in Handlers \ {h} : task'[i] = task[i]
      BY <2>3, TasksAfter DEF TaskKinds
    <3> QED BY <1>1, <1>2, <1>4, <1>6, <2>1, <2>3, <3>1 DEF acquireIdempotencyLock
  <2> QED BY <1>6, <2>2, <2>3 DEF acquireIdempotencyLock
<1>7. CASE findExistingCheckoutByIdempotency(h)
  <2>1. UNCHANGED <<cache, told>> /\ task[h].kind = "lookup"
    BY <1>7 DEF findExistingCheckoutByIdempotency
  <2>2. CASE CheckoutOf(k)
    <3>1. Continue(h, "found")
      BY <1>7, <2>2 DEF findExistingCheckoutByIdempotency
    <3>2. /\ task'[h].kind = "found" /\ task'[h].key = k
          /\ \A i \in Handlers \ {h} : task'[i] = task[i]
      BY <3>1, TasksAfter DEF TaskKinds
    <3>3. HasOrder(k)
      <4>1. Carrying(k) # {} => OrdersOf(k) # {}
        BY <1>3 DEF Carrying, OrdersOf, OrdersRight, NoOrder
      <4> QED BY <1>4, <2>2, <4>1 DEF CheckoutOf, HasOrder
    <3> QED BY <1>1, <1>2, <1>4, <2>1, <3>2, <3>3
  <2>3. CASE ~CheckoutOf(k)
    <3>1. Continue(h, "place")
      BY <1>7, <2>3 DEF findExistingCheckoutByIdempotency
    <3>2. /\ task'[h].kind = "place" /\ task'[h].key = k
          /\ \A i \in Handlers \ {h} : task'[i] = task[i]
      BY <3>1, TasksAfter DEF TaskKinds
    <3>3. ~HasKey(k)
      BY <2>3 DEF CheckoutOf, HasKey
    <3> QED BY <1>1, <1>2, <1>4, <2>1, <3>2, <3>3
  <2> QED BY <2>2, <2>3
<1>8. CASE ReturnExisting(h)
  <2>1. task[h].kind = "found" /\ HasOrder(k)
    BY <1>4, <1>8 DEF ReturnExisting
  <2>2. /\ \A j \in Keys \ {k} : cache'[j] = cache[j]
        /\ cache'[k].error = cache[k].error
    BY <1>8, CacheAfter DEF ReturnExisting
  <2>3. PICK a \in Answers : Answer(h, a) /\ (a = "failed" => Surprise("cacheDown"))
    BY <1>8 DEF ReturnExisting, Answers
  <2>4. /\ told'[k] = a /\ task'[h] = Idle
        /\ \A j \in Keys \ {k} : told'[j] = told[j]
        /\ \A i \in Handlers \ {h} : task'[i] = task[i]
    BY <2>3, AnswerAfter
  <2>5. Calm => ~Surprise("cacheDown")
    BY DEF Calm, Surprise
  <2>6. Exchanged(h, k)
    BY <1>1, <1>2, <2>2, <2>4
  <2>7. OwnKept(h, k)
    BY <1>2, <2>1
  <2>8. Calm => OwnCalm(h, k)
    BY <1>2, <1>3, <1>4, <2>1, <2>2, <2>3, <2>4, <2>5
  <2> QED BY <2>6, <2>7, <2>8
<1> QED BY <1>5, <1>6, <1>7, <1>8

-----------------------------------------------------------------------------
(* The transaction, and what follows it.                                   *)
LEMMA PlacingTruth ==
  ASSUME KeyInv, Truth, NEW h \in Handlers, NEW k \in Keys, task[h].key = k,
         PlaceOrder(h) \/ RefuseOrder(h) \/ DuplicateKey(h) \/ UnknownCommit(h)
  PROVE  Exchanged(h, k) /\ OwnKept(h, k) /\ (Calm => OwnCalm(h, k))
<1> USE DEF KeyInv
<1>1. UNCHANGED <<cache, told, setting>> /\ task[h].kind = "place"
  BY DEF PlaceOrder, RefuseOrder, DuplicateKey, UnknownCommit, Busy
<1>2. /\ Kept(k)
      /\ Calm => /\ told[k] = "nothing" /\ Denied(k)
                 /\ ~HasKey(k) /\ ~cache[k].error
  BY <1>1, Known
<1>3. PICK kind \in {"placed", "refused", "duplicate"} : Continue(h, kind)
  BY DEF PlaceOrder, RefuseOrder, DuplicateKey, UnknownCommit
<1>4. /\ task'[h].kind = kind /\ task'[h].key = k
      /\ \A i \in Handlers \ {h} : task'[i] = task[i]
  BY <1>3, TasksAfter DEF TaskKinds
<1> USE DEF Exchanged, OwnKept, OwnCalm, Owning, Serving, Kept, Denied
<1>5. CASE PlaceOrder(h)
  <2>1. Commit(k) /\ kind = "placed"
    <3>1. Commit(k) /\ Continue(h, "placed")
      BY <1>5 DEF PlaceOrder
    <3>2. task'[h].kind = "placed"
      BY <3>1, TasksAfter DEF TaskKinds
    <3> QED BY <1>4, <3>1, <3>2
  <2>2. HasOrder(k)' /\ \A j \in Keys \ {k} : /\ HasOrder(j)' <=> HasOrder(j)
                                              /\ HasKey(j)' <=> HasKey(j)
    BY <2>1, CommitOwns
  <2>3. groups' = groups \cup {k}
    BY <2>1 DEF Commit
  <2> QED BY <1>1, <1>2, <1>4, <2>1, <2>2, <2>3
<1>6. CASE RefuseOrder(h)
  <2>1. UNCHANGED <<order, groups>> /\ kind = "refused"
    <3>1. UNCHANGED <<order, groups>> /\ Continue(h, "refused")
      BY <1>6 DEF RefuseOrder
    <3>2. task'[h].kind = "refused"
      BY <3>1, TasksAfter DEF TaskKinds
    <3> QED BY <1>4, <3>1, <3>2
  <2>2. \A j \in Keys : /\ HasOrder(j)' <=> HasOrder(j)
                        /\ HasKey(j)' <=> HasKey(j)
    BY <2>1, OrdersStay
  <2> QED BY <1>1, <1>2, <1>4, <2>1, <2>2
<1>7. CASE DuplicateKey(h)
  <2>1. UNCHANGED <<order, groups>> /\ k \in groups
    BY <1>7 DEF DuplicateKey
  <2>2. \A j \in Keys : /\ HasOrder(j)' <=> HasOrder(j)
                        /\ HasKey(j)' <=> HasKey(j)
    BY <2>1, OrdersStay
  <2>3. HasOrder(k)
    BY <1>2, <2>1
  <2> QED BY <1>1, <1>2, <1>4, <2>1, <2>2, <2>3
<1>8. CASE UnknownCommit(h)
  <2>1. ~Calm
    BY <1>8 DEF UnknownCommit, Surprise, Calm
  <2>2. kind = "refused"
    <3>1. task'[h].kind = "refused"
      BY <1>8, TasksAfter DEF UnknownCommit, TaskKinds
    <3> QED BY <1>4, <3>1
  <2>3. CASE Commit(k)
    <3>1. HasOrder(k)' /\ \A j \in Keys \ {k} : /\ HasOrder(j)' <=> HasOrder(j)
                                                /\ HasKey(j)' <=> HasKey(j)
      BY <2>3, CommitOwns
    <3>2. groups' = groups \cup {k}
      BY <2>3 DEF Commit
    <3> QED BY <1>1, <1>4, <2>1, <2>2, <3>1, <3>2
  <2>4. CASE UNCHANGED <<groups, order, goods>>
    <3>1. \A j \in Keys : /\ HasOrder(j)' <=> HasOrder(j)
                          /\ HasKey(j)' <=> HasKey(j)
      BY <2>4, OrdersStay
    <3> QED BY <1>1, <1>2, <1>4, <2>1, <2>2, <2>4, <3>1
  <2> QED BY <1>8, <2>3, <2>4 DEF UnknownCommit
<1> QED BY <1>5, <1>6, <1>7, <1>8

LEMMA AnsweringTruth ==
  ASSUME KeyInv, Truth, NEW h \in Handlers, NEW k \in Keys, task[h].key = k,
         RetryConflict(h) \/ GiveUp(h) \/ StoreResult(h) \/ StoreError(h)
  PROVE  Exchanged(h, k) /\ OwnKept(h, k) /\ (Calm => OwnCalm(h, k))
<1> USE DEF KeyInv
<1>1. UNCHANGED <<order, groups, setting>>
  BY DEF RetryConflict, GiveUp, StoreResult, StoreError
<1>2. \A j \in Keys : /\ HasOrder(j)' <=> HasOrder(j)
                      /\ HasKey(j)' <=> HasKey(j)
  BY <1>1, OrdersStay
<1>3. Idle.kind = "idle" /\ Idle.key = None /\ k # None
  BY CheckoutAssumption DEF Idle
<1>4. /\ Kept(k)
      /\ task[h].kind \in Owning => HasOrder(k)
      /\ Calm => /\ told[k] = "nothing" /\ Denied(k)
                 /\ task[h].kind \in {"place", "refused"} => ~HasKey(k)
                 /\ task[h].kind # "check" => ~cache[k].error
  BY Known
<1>5. cache' \in {cache, WithoutLock(k), WithResult(k), WithError(k)}
  BY DEF RetryConflict, GiveUp, StoreResult, StoreError
<1>6. \A j \in Keys \ {k} : cache'[j] = cache[j]
  BY <1>5, CacheAfter
<1> USE DEF Exchanged, OwnKept, OwnCalm, Owning, Serving, Kept, Denied, Busy
<1>7. CASE RetryConflict(h)
  <2> DEFINE again == [task[h] EXCEPT !.kind = "check", !.tries = @ + 1]
  <2>1. task' = [task EXCEPT ![h] = again] /\ UNCHANGED told /\ task[h].kind = "place"
    BY <1>7 DEF RetryConflict
  <2>2. again.kind = "check" /\ again.key = k
    BY DEF TypeOK, Tasks
  <2> HIDE DEF again
  <2>3. task'[h] = again /\ \A i \in Handlers \ {h} : task'[i] = task[i]
    BY <2>1 DEF TypeOK
  <2>4. cache'[k].error = cache[k].error /\ cache'[k].result = cache[k].result
    BY <1>7, CacheAfter DEF RetryConflict
  <2> QED BY <1>1, <1>2, <1>4, <1>6, <2>1, <2>2, <2>3, <2>4
<1>8. CASE GiveUp(h)
  <2>1. /\ told'[k] = "busy" /\ task'[h] = Idle
        /\ \A j \in Keys \ {k} : told'[j] = told[j]
        /\ \A i \in Handlers \ {h} : task'[i] = task[i]
    BY <1>8, AnswerAfter DEF GiveUp
  <2>2. /\ cache'[k].error = cache[k].error /\ cache'[k].result = cache[k].result
        /\ task[h].kind = "place"
    BY <1>8, CacheAfter DEF GiveUp
  <2> QED BY <1>1, <1>2, <1>3, <1>4, <1>6, <2>1, <2>2
<1>9. CASE StoreResult(h)
  <2>1. /\ told'[k] = "order" /\ task'[h] = Idle
        /\ \A j \in Keys \ {k} : told'[j] = told[j]
        /\ \A i \in Handlers \ {h} : task'[i] = task[i]
    BY <1>9, AnswerAfter DEF StoreResult
  <2>2. cache'[k].error = cache[k].error /\ task[h].kind \in {"placed", "duplicate"}
    BY <1>9, CacheAfter DEF StoreResult
  <2> QED BY <1>1, <1>2, <1>3, <1>4, <1>6, <2>1, <2>2
<1>10. CASE StoreError(h)
  <2>1. /\ told'[k] = "failed" /\ task'[h] = Idle
        /\ \A j \in Keys \ {k} : told'[j] = told[j]
        /\ \A i \in Handlers \ {h} : task'[i] = task[i]
    BY <1>10, AnswerAfter DEF StoreError
  <2>2. cache'[k].result = cache[k].result /\ task[h].kind = "refused"
    BY <1>10, CacheAfter DEF StoreError
  <2> QED BY <1>1, <1>2, <1>3, <1>4, <1>6, <2>1, <2>2
<1> QED BY <1>7, <1>8, <1>9, <1>10

-----------------------------------------------------------------------------
(* Steps that serve nobody: they tell nobody anything, and the cache only  *)
(* forgets.                                                                *)
ServesNobody ==
  /\ \A o \in Orders : /\ order'[o].request = order[o].request
                       /\ order'[o].key \in {order[o].key, None}
  /\ groups' \subseteq groups
  /\ UNCHANGED <<told, setting>>
  /\ \A k \in Keys : /\ cache'[k].result => cache[k].result
                     /\ cache'[k].error => cache[k].error
  /\ \A i \in Handlers : \/ task'[i] = task[i]
                         \/ task'[i].key = None /\ task'[i].kind \notin Serving

LEMMA ServingNobodyKeepsTruth ==
  ASSUME KeyInv, Truth, ServesNobody
  PROVE  Truth'
<1>1. \A k \in Keys : (HasOrder(k)' <=> HasOrder(k)) /\ (HasKey(k)' => HasKey(k))
  BY CheckoutAssumption DEF HasOrder, HasKey, OrdersOf, Carrying, ServesNobody
<1>2. ASSUME NEW i \in Handlers
      PROVE  /\ HasOrder(task[i].key)' <=> HasOrder(task'[i].key)
             /\ task'[i].key \in Keys /\ HasKey(task[i].key)' => HasKey(task'[i].key)
  BY CheckoutAssumption DEF HasOrder, HasKey, OrdersOf, Carrying, ServesNobody
<1>3. ASSUME NEW i \in Handlers PROVE KeyHeld(task[i])' /\ Grounded(task[i])'
  <2>1. CASE task'[i] = task[i]
    BY <1>2, <2>1 DEF Truth, KeyHeld, Grounded
  <2>2. CASE task'[i].key = None /\ task'[i].kind \notin Serving
    BY <2>2 DEF KeyHeld, Grounded, Owning, Serving
  <2> QED BY <2>1, <2>2 DEF ServesNobody
<1>4. ASSUME NEW k \in Keys PROVE Kept(k)'
  BY <1>1 DEF Truth, Kept, ServesNobody
<1>5. ASSUME Calm' PROVE CalmTruth'
  <2>1. CalmTruth
    BY <1>5 DEF Calm, ServesNobody, Truth
  <2>2. ASSUME NEW i \in Handlers, task'[i].key # None PROVE ServedAlone(i)'
    <3>1. task'[i] = task[i] /\ ServedAlone(i)
      BY <2>1, <2>2 DEF ServesNobody, CalmTruth
    <3>2. KeyHeld(task[i]) /\ Right(task[i])
      BY DEF Truth, KeyInv, TasksRight
    <3>3. task[i].key \in Keys
      BY <2>2, <3>1, <3>2 DEF KeyHeld, Right, NamesItsSubject
    <3>4. \A q \in Handlers : task'[q].key = task'[i].key => q = i
      BY <2>2, <3>1 DEF ServesNobody, ServedAlone
    <3>5. told'[task'[i].key] = "nothing"
      BY <2>2, <3>1 DEF ServesNobody, ServedAlone
    <3>6. task'[i].kind # "check" => ~cache'[task'[i].key].error
      BY <2>2, <3>1, <3>3 DEF ServesNobody, ServedAlone
    <3>7. task'[i].kind \in {"place", "refused"} => ~HasKey(task[i].key)'
      BY <1>2, <2>2, <3>1, <3>3 DEF ServedAlone
    <3> QED BY <3>4, <3>5, <3>6, <3>7 DEF ServedAlone
  <2>3. ASSUME NEW k \in Keys PROVE Denied(k)'
    BY <1>1, <2>1 DEF CalmTruth, Denied, ServesNobody
  <2> QED BY <2>2, <2>3 DEF CalmTruth, ServedAlone
<1> QED BY <1>3, <1>4, <1>5 DEF Truth

(* A request begins to be served, alone unless it is sent twice.           *)
LEMMA AskTruth ==
  ASSUME KeyInv, Truth, NEW h \in Handlers, NEW k \in Keys, Ask(h, k)
  PROVE  Truth'
<1> DEFINE t == [Idle EXCEPT !.kind = "check", !.key = k]
<1>1. t.kind = "check" /\ t.key = k /\ k # None
  BY CheckoutAssumption DEF Idle
<1>2. \A i \in Handlers : task'[i] = IF i = h THEN t ELSE task[i]
  BY DEF Ask, Start, KeyInv, TypeOK
<1> HIDE DEF t
<1>3. UNCHANGED <<cache, groups, order, setting>>
  BY DEF Ask
<1>4. \A j \in Keys : told'[j] = IF j = k THEN "nothing" ELSE told[j]
  BY DEF Ask, KeyInv, TypeOK
<1>5. \A j \in Keys : /\ HasOrder(j)' <=> HasOrder(j)
                      /\ HasKey(j)' <=> HasKey(j)
  BY <1>3, OrdersStay
<1>6. ASSUME NEW i \in Handlers PROVE (HasOrder(task[i].key)' <=> HasOrder(task'[i].key))
             /\ (HasKey(task[i].key)' <=> HasKey(task'[i].key))
  BY <1>3 DEF HasOrder, HasKey, OrdersOf, Carrying
<1>7. ASSUME NEW i \in Handlers PROVE KeyHeld(task[i])' /\ Grounded(task[i])'
  <2>1. CASE i = h
    BY <1>1, <1>2, <2>1 DEF KeyHeld, Grounded, Owning, Serving
  <2>2. CASE i # h
    BY <1>2, <1>6, <2>2 DEF Truth, KeyHeld, Grounded
  <2> QED BY <2>1, <2>2
<1>8. ASSUME NEW j \in Keys PROVE Kept(j)'
  BY <1>3, <1>4, <1>5 DEF Truth, Kept
<1>9. ASSUME Calm' PROVE CalmTruth'
  <2>1. CalmTruth /\ Quiet(k)
    BY <1>3, <1>9 DEF Calm, Surprise, Truth, Ask
  <2>2. ASSUME NEW i \in Handlers, task'[i].key # None PROVE ServedAlone(i)'
    <3>1. CASE i = h
      <4>1. \A q \in Handlers : task'[q].key = k => q = h
        BY <1>2, <2>1 DEF Quiet
      <4> QED BY <1>1, <1>2, <1>4, <3>1, <4>1 DEF ServedAlone
    <3>2. CASE i # h
      <4>1. task'[i] = task[i] /\ ServedAlone(i) /\ task[i].key # k
        BY <1>2, <2>1, <3>2 DEF CalmTruth, Quiet
      <4>2. KeyHeld(task[i]) /\ Right(task[i])
        BY DEF Truth, KeyInv, TasksRight
      <4>3. task[i].key \in Keys
        BY <2>2, <4>1, <4>2 DEF KeyHeld, Right, NamesItsSubject
      <4>4. \A q \in Handlers : task'[q].key = task'[i].key => q = i
        BY <1>1, <1>2, <2>2, <4>1 DEF ServedAlone
      <4>5. told'[task'[i].key] = "nothing"
        BY <1>4, <2>2, <4>1, <4>3 DEF ServedAlone
      <4>6. task'[i].kind # "check" => ~cache'[task'[i].key].error
        BY <1>3, <2>2, <4>1 DEF ServedAlone
      <4>7. task'[i].kind \in {"place", "refused"} => ~HasKey(task[i].key)'
        BY <1>6, <2>2, <4>1 DEF ServedAlone
      <4> QED BY <4>4, <4>5, <4>6, <4>7 DEF ServedAlone
    <3> QED BY <3>1, <3>2
  <2>3. ASSUME NEW j \in Keys PROVE Denied(j)'
    BY <1>3, <1>4, <1>5, <2>1 DEF CalmTruth, Denied
  <2> QED BY <2>2, <2>3 DEF CalmTruth, ServedAlone
<1> QED BY <1>7, <1>8, <1>9 DEF Truth

LEMMA GivingBackTruth ==
  ASSUME KeyInv, Truth, NEW h \in Handlers, Compensate(h)
  PROVE  ServesNobody
<1> USE DEF KeyInv
<1>1. UNCHANGED <<cache, groups, told, setting>>
  BY DEF Compensate, AdminCancel, CompensateRead, releaseReservedStockForOrder,
         MarkReleased, releaseCouponUsageForOrder, reverseOrderFinanceOnCancellation
<1>2. \A o \in Orders : order'[o].request = order[o].request /\ order'[o].key = order[o].key
  <2>1. order \in [Orders -> OrderRecords]
    BY DEF TypeOK
  <2>2. CASE AdminCancel(h) \/ MarkReleased(h)
    BY <2>1, <2>2 DEF AdminCancel, MarkReleased, OrderRecords
  <2>3. CASE CompensateRead(h) \/ releaseReservedStockForOrder(h)
    BY <2>3 DEF CompensateRead, releaseReservedStockForOrder
  <2>4. CASE releaseCouponUsageForOrder(h)
    BY <2>1, <2>4 DEF releaseCouponUsageForOrder, GiveCouponBack, OrderRecords
  <2>5. CASE reverseOrderFinanceOnCancellation(h)
    BY <2>1, <2>5 DEF reverseOrderFinanceOnCancellation, OrderRecords
  <2> QED BY <2>2, <2>3, <2>4, <2>5 DEF Compensate
<1>3. /\ Finish(h) \/ \E kind \in GivingBack : Continue(h, kind)
      /\ task[h].kind \in GivingBack
  BY DEF Compensate, AdminCancel, CompensateRead, releaseReservedStockForOrder,
         MarkReleased, releaseCouponUsageForOrder, reverseOrderFinanceOnCancellation,
         Busy, GivingBack
<1>4. task[h].key = None
  BY <1>3 DEF Truth, KeyHeld, Serving, GivingBack
<1>5. Idle.key = None /\ Idle.kind \notin Serving
  BY DEF Idle, Serving
<1>6. task'[h].key = None /\ task'[h].kind \notin Serving
  BY <1>3, <1>4, <1>5, TasksAfter DEF GivingBack, Serving, TaskKinds
<1>7. \A i \in Handlers \ {h} : task'[i] = task[i]
  BY <1>3, TasksAfter DEF GivingBack, TaskKinds
<1> QED BY <1>1, <1>2, <1>6, <1>7 DEF ServesNobody

LEMMA OthersServeNobody ==
  ASSUME KeyInv, Truth,
         \/ \E h \in Handlers : Crash(h)
         \/ \E h \in Handlers, o \in Orders : CancelOrder(h, o) \/ AdminCancelRead(h, o)
         \/ \E o \in Orders : PaymentFails(o)
         \/ \E k \in Keys : Passes(k)
         \/ \E c \in Customers : FillCart(c)
         \/ UNCHANGED vars
  PROVE  ServesNobody
<1> USE DEF KeyInv, TypeOK
<1>1. ASSUME NEW h \in Handlers, Crash(h) PROVE ServesNobody
  <2>1. Idle.key = None /\ Idle.kind \notin Serving
    BY DEF Idle, Serving
  <2>2. UNCHANGED <<cache, groups, order, told, setting>> /\ Finish(h)
    BY <1>1 DEF Crash
  <2> QED BY <2>1, <2>2, TasksAfter DEF ServesNobody
<1>2. ASSUME NEW h \in Handlers, NEW o \in Orders, CancelOrder(h, o) \/ AdminCancelRead(h, o)
      PROVE  ServesNobody
  <2> DEFINE reading == Compensating(o)
             saving == [Compensating(o) EXCEPT !.kind = "cancel"]
  <2>1. /\ reading.key = None /\ reading.kind \notin Serving
        /\ saving.key = None /\ saving.kind \notin Serving
    BY DEF Compensating, Idle, Serving
  <2>2. task' = [task EXCEPT ![h] = reading] \/ task' = [task EXCEPT ![h] = saving]
    BY <1>2 DEF CancelOrder, AdminCancelRead, Start
  <2> HIDE DEF reading, saving
  <2>3. \A i \in Handlers : task'[i] \in {task[i], reading, saving}
    BY <2>2
  <2>4. \A p \in Orders : order'[p].request = order[p].request /\ order'[p].key = order[p].key
    BY <1>2 DEF CancelOrder, AdminCancelRead, OrderRecords
  <2> QED BY <1>2, <2>1, <2>3, <2>4 DEF CancelOrder, AdminCancelRead, ServesNobody
<1>3. ASSUME NEW o \in Orders, PaymentFails(o) PROVE ServesNobody
  BY <1>3 DEF PaymentFails, ServesNobody, OrderRecords
<1>4. ASSUME NEW k \in Keys, Passes(k)
      PROVE  ServesNobody
  <2>1. \A j \in Keys : /\ cache'[j].result => cache[j].result
                        /\ cache'[j].error => cache[j].error
    BY <1>4 DEF Passes, LockExpires, ErrorExpires, ResultExpires, GroupExpires, ForgetKey,
       WithoutLock, CacheEntries
  <2>2. \A o \in Orders : /\ order'[o].request = order[o].request
                          /\ order'[o].key \in {order[o].key, None}
    BY <1>4 DEF Passes, LockExpires, ErrorExpires, ResultExpires, GroupExpires, ForgetKey,
       OrderRecords
  <2> QED BY <1>4, <2>1, <2>2 DEF Passes, LockExpires, ErrorExpires, ResultExpires,
             GroupExpires, ForgetKey, ServesNobody
<1>5. ASSUME NEW c \in Customers, FillCart(c) PROVE ServesNobody
  BY <1>5 DEF FillCart, ServesNobody
<1>6. CASE UNCHANGED vars
  BY <1>6 DEF vars, ServesNobody
<1> QED BY <1>1, <1>2, <1>3, <1>4, <1>5, <1>6

LEMMA TruthStep ==
  ASSUME KeyInv, Truth, [Next]_vars
  PROVE  Truth'
<1>1. ASSUME NEW h \in Handlers, Serve(h) PROVE Truth'
  <2>1. task[h].kind \in Serving
    BY <1>1 DEF Serve, checkIdempotency, acquireIdempotencyLock, ReturnExisting,
       findExistingCheckoutByIdempotency, PlaceOrder, RefuseOrder, DuplicateKey,
       UnknownCommit, RetryConflict, GiveUp, StoreResult, StoreError, Busy, Serving
  <2>2. task[h].key \in Keys
    BY <2>1 DEF KeyInv, TasksRight, Right, NamesItsSubject
  <2>3. PICK k \in Keys : task[h].key = k
    BY <2>2
  <2>4. Exchanged(h, k) /\ OwnKept(h, k) /\ (Calm => OwnCalm(h, k))
    BY <1>1, <2>3, AskingTruth, PlacingTruth, AnsweringTruth DEF Serve
  <2> QED BY <2>3, <2>4, ExchangeKeepsTruth
<1>2. ASSUME NEW h \in Handlers, Compensate(h) PROVE Truth'
  BY <1>2, GivingBackTruth, ServingNobodyKeepsTruth
<1> QED BY <1>1, <1>2, AskTruth, OthersServeNobody, ServingNobodyKeepsTruth
        DEF Next, Passes

(* Whatever fails, whoever is told that the order is placed has an order;  *)
(* and as long as a request is sent again only after its answer or the     *)
(* death of its process, the cache works, locks outlast their holders and  *)
(* every commit is known to have landed or not, whoever is told that it    *)
(* failed has none that carries its key, though processes die, cancellations *)
(* race and keys are forgotten.                                            *)
THEOREM AnswersTellTheTruth == Spec => []AnswersAreTrue
<1>1. Init => Truth
  <2> SUFFICES ASSUME Init PROVE Truth
    OBVIOUS
  <2>1. Idle.kind = "idle" /\ Idle.key = None
        /\ NoOrder.key = None /\ NoOrder.request = None
    BY DEF Idle, NoOrder
  <2>2. \A k \in Keys : ~HasOrder(k) /\ ~HasKey(k)
    BY <2>1, CheckoutAssumption DEF Init, HasOrder, HasKey, OrdersOf, Carrying
  <2>3. \A h \in Handlers : KeyHeld(task[h]) /\ Grounded(task[h]) /\ ServedAlone(h)
    BY <2>1 DEF Init, KeyHeld, Grounded, Owning, ServedAlone
  <2>4. \A k \in Keys : Kept(k) /\ Denied(k)
    BY <2>2 DEF Init, Kept, Denied
  <2> QED BY <2>3, <2>4 DEF Truth, CalmTruth
<1>2. KeyInv /\ Truth /\ [Next]_vars => Truth'
  BY TruthStep
<1>3. Truth => AnswersAreTrue
  BY DEF Truth, CalmTruth, Kept, Denied, HasOrder, HasKey, AnswersAreTrue
<1> QED BY <1>1, <1>2, <1>3, KeyInvariant, PTL DEF Spec
=============================================================================
