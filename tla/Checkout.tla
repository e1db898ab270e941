------------------------------ MODULE Checkout ------------------------------
(***************************************************************************)
(* Placing an order under an idempotency key: the cache of locks, results  *)
(* and errors in front of it, the transaction that takes stock, coupon,    *)
(* wallet and cart, the retries around it, and the cancellation that gives *)
(* those back.                                                             *)
(*   placeOrderAtomic of orderPlacementService.js, idempotencyService.js,  *)
(*   stockService.js, couponUsageService.js, orderCompensation.js          *)
(*                                                                         *)
(* Every order is for one unit of one product.  The transaction runs on a  *)
(* snapshot and every document it decides by it also writes, so it is one  *)
(* action; the calls to the cache and the writes of a compensation are     *)
(* steps of their own, and a handler sits in task[h] between them.         *)
(***************************************************************************)
EXTENDS Naturals, FiniteSets

CONSTANTS
  Keys,        \* idempotency keys, one per request the customers make
  Orders,      \* bound: order documents there may ever be
  Handlers,    \* processes that serve requests
  Customers,
  Stock,       \* units of the product
  Balance,     \* of each customer's wallet at the start
  MaxRetries,  \* CHECKOUT_TRANSIENT_RETRIES
  MaxCrashes,  \* bound: processes that die
  Settings,    \* what is asked under each key, how often the coupon may be
               \* used, and which surprises happen
  None         \* no key, no order

(* A request is sent again while it is being served; a lock runs out while *)
(* its holder is at work; the cache cannot be reached; it is not known     *)
(* whether a commit landed; an admin cancels an order from a stale read; a *)
(* process dies; the cleanup script is run.                                *)
Surprises == {"doubled", "expired", "cacheDown", "unknownCommit", "staleCancel", "crash",
              "cleanup"}

(* What a request asks for, and what it pays with.                         *)
Requests == [ customer : Customers, fromCart : BOOLEAN, coupon : BOOLEAN,
              wallet : BOOLEAN, online : BOOLEAN ]

ASSUME CheckoutAssumption ==
  /\ None \notin Keys \cup Orders
  /\ IsFiniteSet(Orders)
  /\ {Stock, Balance, MaxRetries, MaxCrashes} \subseteq Nat
  /\ Settings \subseteq [requests : [Keys -> Requests], usageLimit : Nat,
                         surprises : SUBSET Surprises]

VARIABLES
  cache,       \* of each key: lock, result and error
  groups,      \* keys of the checkout groups, which a unique index covers
  order,       \* the orders
  stock,       \* units left
  coupon,      \* the coupon
  wallet,      \* what each customer has left
  cart,        \* customers with the product in their cart
  told,        \* the last answer to the request of each key
  task,        \* what each handler is in the middle of
  crashes,     \* how many processes have died
  setting      \* the requests, the limit and the surprises of this behaviour

goods == <<stock, coupon, wallet, cart>>
vars == <<cache, groups, order, goods, told, task, crashes, setting>>

-----------------------------------------------------------------------------
CacheEntries == [locked : BOOLEAN, result : BOOLEAN, error : BOOLEAN]

OrderRecords ==
  [ request : Keys \cup {None}, \* whose customer, payment and coupon it has
    key : Keys \cup {None},     \* placement.idempotencyKey, until it is forgotten
    status : {"none", "placed", "cancelled"},
    reservation : {"RESERVED", "RELEASED"},
    redeemed : BOOLEAN,          \* a redemption of the coupon names it
    reversed : BOOLEAN ]         \* cancellationReversed

NoOrder == [ request |-> None, key |-> None, status |-> "none",
             reservation |-> "RELEASED", redeemed |-> FALSE, reversed |-> FALSE ]

Answers == {"nothing", "order", "failed", "busy"}

TaskKinds ==
  { "idle", "check", "acquire", "lookup", "found", "place", "placed", "duplicate",
    "refused", "cancel", "read", "release", "mark", "restore", "reverse" }

Tasks == [ kind : TaskKinds, key : Keys \cup {None}, order : Orders \cup {None},
           tries : 0..MaxRetries ]

Idle == [kind |-> "idle", key |-> None, order |-> None, tries |-> 0]

Start(h, t) == task[h] = Idle /\ task' = [task EXCEPT ![h] = t]
Busy(h, kind) == task[h].kind = kind
Continue(h, kind) == task' = [task EXCEPT ![h].kind = kind]
Finish(h) == task' = [task EXCEPT ![h] = Idle]

Answer(h, a) ==
  /\ told' = [told EXCEPT ![task[h].key] = a]
  /\ Finish(h)

Surprise(s) == s \in setting.surprises
Request == setting.requests
UsageLimit == setting.usageLimit

(* Nobody is serving the request.                                          *)
Quiet(k) == \A h \in Handlers : task[h].key # k

OrdersOf(k) == {o \in Orders : order[o].request = k}
Carrying(k) == {o \in Orders : order[o].key = k}
CustomerOf(o) == Request[order[o].request].customer

Init ==
  /\ cache = [k \in Keys |-> [locked |-> FALSE, result |-> FALSE, error |-> FALSE]]
  /\ groups = {}
  /\ order = [o \in Orders |-> NoOrder]
  /\ stock = Stock
  /\ coupon = [usedCount |-> 0, isActive |-> TRUE]
  /\ wallet = [c \in Customers |-> Balance]
  /\ cart = Customers
  /\ told = [k \in Keys |-> "nothing"]
  /\ task = [h \in Handlers |-> Idle]
  /\ crashes = 0
  /\ setting \in Settings

-----------------------------------------------------------------------------
(* The request, and the cache in front of it.                              *)

Ask(h, k) ==
  /\ Quiet(k) \/ Surprise("doubled")
  /\ Start(h, [Idle EXCEPT !.kind = "check", !.key = k])
  /\ told' = [told EXCEPT ![k] = "nothing"]
  /\ UNCHANGED <<cache, groups, order, goods, crashes, setting>>

(* A cached error comes before a cached result.                            *)
checkIdempotency(h) ==
  LET entry == cache[task[h].key] IN
  /\ Busy(h, "check")
  /\ \/ entry.error /\ Answer(h, "failed")
     \/ ~entry.error /\ entry.result /\ Answer(h, "order")
     \/ ~entry.error /\ ~entry.result /\ entry.locked /\ Answer(h, "busy")
     \/ /\ ~(entry.error \/ entry.result \/ entry.locked) \/ Surprise("cacheDown")
        /\ Continue(h, "acquire")
        /\ UNCHANGED told
  /\ UNCHANGED <<cache, groups, order, goods, crashes, setting>>

(* Without the cache the lock counts as acquired.                          *)
acquireIdempotencyLock(h) ==
  LET k == task[h].key IN
  /\ Busy(h, "acquire")
  /\ \/ /\ cache[k].locked
        /\ Answer(h, "busy")
        /\ UNCHANGED cache
     \/ /\ ~cache[k].locked
        /\ cache' = [cache EXCEPT ![k].locked = TRUE]
        /\ Continue(h, "lookup")
        /\ UNCHANGED told
     \/ /\ Surprise("cacheDown")
        /\ Continue(h, "lookup")
        /\ UNCHANGED <<cache, told>>
  /\ UNCHANGED <<groups, order, goods, crashes, setting>>

CheckoutOfGroup(k) == k \in groups

(* The checkout group of the key, or an order that still carries it.       *)
CheckoutOf(k) == k \in groups \/ Carrying(k) # {}

PlaceWithoutLookup(h) ==
  /\ Busy(h, "lookup")
  /\ Continue(h, "place")
  /\ UNCHANGED <<cache, groups, order, goods, told, crashes, setting>>

findExistingCheckoutByIdempotency(h) ==
  /\ Busy(h, "lookup")
  /\ Continue(h, IF CheckoutOf(task[h].key) THEN "found" ELSE "place")
  /\ UNCHANGED <<cache, groups, order, goods, told, crashes, setting>>

WithResult(k) == [cache EXCEPT ![k].result = TRUE, ![k].locked = FALSE]
WithError(k) == [cache EXCEPT ![k].error = TRUE, ![k].locked = FALSE]
WithoutLock(k) == [cache EXCEPT ![k].locked = FALSE]

(* An earlier order is the answer.  Without a client of the cache it is not *)
(* cached; with one that fails the call throws.                            *)
ReturnExisting(h) ==
  /\ Busy(h, "found")
  /\ \/ cache' = WithResult(task[h].key) /\ Answer(h, "order")
     \/ /\ Surprise("cacheDown") /\ UNCHANGED cache
        /\ Answer(h, "order") \/ Answer(h, "failed")
  /\ UNCHANGED <<groups, order, goods, crashes, setting>>

-----------------------------------------------------------------------------
(* The transaction.                                                        *)

UsableAgainBy(c) == coupon.isActive /\ coupon.usedCount < UsageLimit

UsableBy(c) ==
  /\ coupon.isActive
  /\ coupon.usedCount < UsageLimit
  /\ \A o \in Orders : order[o].redeemed => CustomerOf(o) # c

PossibleWithoutStock(k) ==
  LET r == Request[k] IN
  /\ r.fromCart => r.customer \in cart
  /\ r.wallet => wallet[r.customer] > 0
  /\ r.coupon => UsableBy(r.customer)

Possible(k) ==
  LET r == Request[k] IN
  /\ r.fromCart => r.customer \in cart
  /\ stock > 0
  /\ r.wallet => wallet[r.customer] > 0
  /\ r.coupon => UsableBy(r.customer)

NewOrder(k) == [ request |-> k, key |-> k, status |-> "placed",
                 reservation |-> "RESERVED", redeemed |-> Request[k].coupon, reversed |-> FALSE ]

NextOrder == CHOOSE o \in Orders : order[o] = NoOrder

reserveStockForItems == stock' = stock - 1

(* The coupon is switched off by the use that reaches its limit.           *)
consumeCouponUsageAtomic(k) ==
  coupon' = IF Request[k].coupon
            THEN [usedCount |-> coupon.usedCount + 1,
                  isActive |-> coupon.isActive /\ coupon.usedCount + 1 < UsageLimit]
            ELSE coupon

CommitWithoutIndex(k) ==
  /\ Possible(k)
  /\ groups' = groups \cup {k}
  /\ \E o \in Orders : /\ order[o] = NoOrder /\ o = NextOrder
                       /\ order' = [order EXCEPT ![o] = NewOrder(k)]
  /\ reserveStockForItems
  /\ consumeCouponUsageAtomic(k)
  /\ wallet' = IF Request[k].wallet
               THEN [wallet EXCEPT ![Request[k].customer] = @ - 1] ELSE wallet
  /\ cart' = cart \ {Request[k].customer}

Commit(k) ==
  /\ Possible(k) /\ k \notin groups
  /\ groups' = groups \cup {k}
  /\ \E o \in Orders : /\ order[o] = NoOrder /\ o = NextOrder
                       /\ order' = [order EXCEPT ![o] = NewOrder(k)]
  /\ reserveStockForItems
  /\ consumeCouponUsageAtomic(k)
  /\ wallet' = IF Request[k].wallet
               THEN [wallet EXCEPT ![Request[k].customer] = @ - 1] ELSE wallet
  /\ cart' = cart \ {Request[k].customer}

PlaceOrder(h) ==
  /\ Busy(h, "place")
  /\ Commit(task[h].key)
  /\ Continue(h, "placed")
  /\ UNCHANGED <<cache, told, crashes, setting>>

RefuseOrder(h) ==
  /\ Busy(h, "place")
  /\ ~Possible(task[h].key)
  /\ Continue(h, "refused")
  /\ UNCHANGED <<cache, groups, order, goods, told, crashes, setting>>

(* The unique index finds the group of another request of the same key.    *)
DuplicateKey(h) ==
  /\ Busy(h, "place")
  /\ Possible(task[h].key) /\ task[h].key \in groups
  /\ Continue(h, "duplicate")
  /\ UNCHANGED <<cache, groups, order, goods, told, crashes, setting>>

(* A commit whose outcome stays unknown is an error like any other, whether *)
(* it landed or not.                                                       *)
UnknownCommit(h) ==
  /\ Busy(h, "place")
  /\ Surprise("unknownCommit") /\ Possible(task[h].key) /\ task[h].key \notin groups
  /\ \/ Commit(task[h].key)
     \/ UNCHANGED <<groups, order, goods>>
  /\ Continue(h, "refused")
  /\ UNCHANGED <<cache, told, crashes, setting>>

(* A write conflict rolls back: the lock is given up and it all starts     *)
(* again, a few times.                                                     *)
RetryConflict(h) ==
  /\ Busy(h, "place")
  /\ task[h].tries < MaxRetries
  /\ \/ cache' = WithoutLock(task[h].key)
     \/ Surprise("cacheDown") /\ UNCHANGED cache
  /\ task' = [task EXCEPT ![h] = [task[h] EXCEPT !.kind = "check", !.tries = @ + 1]]
  /\ UNCHANGED <<groups, order, goods, told, crashes, setting>>

(* The last conflict, and every error worth another request, are not cached. *)
GiveUp(h) ==
  /\ Busy(h, "place")
  /\ \/ cache' = WithoutLock(task[h].key)
     \/ Surprise("cacheDown") /\ UNCHANGED cache
  /\ Answer(h, "busy")
  /\ UNCHANGED <<groups, order, goods, crashes, setting>>

StoreResult(h) ==
  /\ Busy(h, "placed") \/ Busy(h, "duplicate")
  /\ \/ cache' = WithResult(task[h].key)
     \/ Surprise("cacheDown") /\ UNCHANGED cache
  /\ Answer(h, "order")
  /\ UNCHANGED <<groups, order, goods, crashes, setting>>

StoreError(h) ==
  /\ Busy(h, "refused")
  /\ \/ cache' = WithError(task[h].key)
     \/ Surprise("cacheDown") /\ UNCHANGED cache
  /\ Answer(h, "failed")
  /\ UNCHANGED <<groups, order, goods, crashes, setting>>

-----------------------------------------------------------------------------
(* What time does: a lock lasts a minute, an error an hour, a result and   *)
(* the checkout group a day, after which a script also takes the key off   *)
(* the orders; no request is under way that long.                          *)

Holding == {"lookup", "found", "place", "placed", "duplicate", "refused"}

LockOutlivesHolder(k) ==
  /\ cache[k].locked /\ Surprise("expired")
  /\ cache' = WithoutLock(k)
  /\ UNCHANGED <<groups, order, goods, told, task, crashes, setting>>

LockExpires(k) ==
  /\ cache[k].locked
  /\ \/ Surprise("expired")
     \/ \A h \in Handlers : task[h].key = k => task[h].kind \notin Holding
  /\ cache' = WithoutLock(k)
  /\ UNCHANGED <<groups, order, goods, told, task, crashes, setting>>

ErrorExpires(k) ==
  /\ cache[k].error /\ Quiet(k)
  /\ cache' = [cache EXCEPT ![k].error = FALSE]
  /\ UNCHANGED <<groups, order, goods, told, task, crashes, setting>>

ResultExpires(k) ==
  /\ cache[k].result /\ Quiet(k)
  /\ cache' = [cache EXCEPT ![k].result = FALSE]
  /\ UNCHANGED <<groups, order, goods, told, task, crashes, setting>>

(* The database deletes the group.                                         *)
GroupExpires(k) ==
  /\ k \in groups /\ Quiet(k)
  /\ groups' = groups \ {k}
  /\ UNCHANGED <<cache, order, goods, told, task, crashes, setting>>

(* cleanupExpiredIdempotencyKeys.js.                                       *)
ForgetKey(k) ==
  /\ Surprise("cleanup") /\ Carrying(k) # {} /\ Quiet(k)
  /\ order' = [o \in Orders |-> IF order[o].key = k THEN [order[o] EXCEPT !.key = None]
                               ELSE order[o]]
  /\ UNCHANGED <<cache, groups, goods, told, task, crashes, setting>>

FillCart(c) ==
  /\ c \notin cart
  /\ cart' = cart \cup {c}
  /\ UNCHANGED <<cache, groups, order, stock, coupon, wallet, told, task, crashes,
                 setting>>

-----------------------------------------------------------------------------
(* Giving back.                                                            *)

Compensating(o) == [Idle EXCEPT !.kind = "read", !.order = o]

(* Every cancellation but the admin's finds the order uncancelled and      *)
(* cancels it in one update.                                               *)
CancelOrder(h, o) ==
  /\ order[o].status = "placed"
  /\ Start(h, Compensating(o))
  /\ order' = [order EXCEPT ![o].status = "cancelled"]
  /\ UNCHANGED <<cache, groups, goods, told, crashes, setting>>

(* The admin's saves the document it read.                                 *)
AdminCancelRead(h, o) ==
  /\ Surprise("staleCancel") /\ order[o].status = "placed"
  /\ Start(h, [Compensating(o) EXCEPT !.kind = "cancel"])
  /\ UNCHANGED <<cache, groups, order, goods, told, crashes, setting>>

AdminCancel(h) ==
  /\ Busy(h, "cancel")
  /\ order' = [order EXCEPT ![task[h].order].status = "cancelled"]
  /\ Continue(h, "read")
  /\ UNCHANGED <<cache, groups, goods, told, crashes, setting>>

(* The compensation looks at the reservation once, before the writes.      *)
CompensateRead(h) ==
  /\ Busy(h, "read")
  /\ Continue(h, IF order[task[h].order].reservation = "RELEASED" THEN "restore"
                 ELSE "release")
  /\ UNCHANGED <<cache, groups, order, goods, told, crashes, setting>>

releaseReservedStockForOrder(h) ==
  /\ Busy(h, "release")
  /\ stock' = stock + 1
  /\ Continue(h, "mark")
  /\ UNCHANGED <<cache, groups, order, coupon, wallet, cart, told, crashes, setting>>

MarkReleased(h) ==
  /\ Busy(h, "mark")
  /\ order' = [order EXCEPT ![task[h].order].reservation = "RELEASED"]
  /\ Continue(h, "restore")
  /\ UNCHANGED <<cache, groups, goods, told, crashes, setting>>

(* Whoever deletes the redemption gives the use back; the coupon stays off. *)
GiveCouponBack(o) ==
  IF order[o].redeemed
  THEN /\ order' = [order EXCEPT ![o].redeemed = FALSE]
       /\ coupon' = [coupon EXCEPT !.usedCount = IF @ = 0 THEN 0 ELSE @ - 1]
  ELSE UNCHANGED <<order, coupon>>

releaseCouponUsageForOrder(h) ==
  /\ Busy(h, "restore")
  /\ GiveCouponBack(task[h].order)
  /\ Continue(h, "reverse")
  /\ UNCHANGED <<cache, groups, stock, wallet, cart, told, crashes, setting>>

ReverseAgain(h) ==
  LET o == task[h].order IN
  /\ Busy(h, "reverse")
  /\ order' = [order EXCEPT ![o].reversed = TRUE]
  /\ wallet' = IF Request[order[o].request].wallet
               THEN [wallet EXCEPT ![CustomerOf(o)] = @ + 1] ELSE wallet
  /\ Finish(h)
  /\ UNCHANGED <<cache, groups, stock, coupon, cart, told, crashes, setting>>

reverseOrderFinanceOnCancellation(h) ==
  LET o == task[h].order IN
  /\ Busy(h, "reverse")
  /\ IF order[o].reversed THEN UNCHANGED <<order, wallet>>
     ELSE /\ order' = [order EXCEPT ![o].reversed = TRUE]
          /\ wallet' = IF Request[order[o].request].wallet
                       THEN [wallet EXCEPT ![CustomerOf(o)] = @ + 1] ELSE wallet
  /\ Finish(h)
  /\ UNCHANGED <<cache, groups, stock, coupon, cart, told, crashes, setting>>

PaymentFailsWhenever(o) ==
  /\ order[o].status # "none" /\ Request[order[o].request].online
  /\ stock' = IF order[o].reservation = "RELEASED" THEN stock ELSE stock + 1
  /\ coupon' = IF order[o].redeemed
               THEN [coupon EXCEPT !.usedCount = IF @ = 0 THEN 0 ELSE @ - 1] ELSE coupon
  /\ order' = [order EXCEPT ![o].status = "cancelled", ![o].reservation = "RELEASED",
                            ![o].redeemed = FALSE]
  /\ UNCHANGED <<cache, groups, wallet, cart, told, task, crashes, setting>>

(* A failed payment cancels an order still waiting for it: one transaction, *)
(* which reverses no finance.                                              *)
PaymentFails(o) ==
  /\ order[o].status = "placed" /\ Request[order[o].request].online
  /\ stock' = IF order[o].reservation = "RELEASED" THEN stock ELSE stock + 1
  /\ coupon' = IF order[o].redeemed
               THEN [coupon EXCEPT !.usedCount = IF @ = 0 THEN 0 ELSE @ - 1] ELSE coupon
  /\ order' = [order EXCEPT ![o].status = "cancelled", ![o].reservation = "RELEASED",
                            ![o].redeemed = FALSE]
  /\ UNCHANGED <<cache, groups, wallet, cart, told, task, crashes, setting>>

-----------------------------------------------------------------------------
(* A process dies: its transaction is rolled back, its lock stays.         *)
Crash(h) ==
  /\ Surprise("crash") /\ crashes < MaxCrashes /\ task[h] # Idle
  /\ crashes' = crashes + 1
  /\ Finish(h)
  /\ UNCHANGED <<cache, groups, order, goods, told, setting>>

Serve(h) ==
  \/ checkIdempotency(h) \/ acquireIdempotencyLock(h)
  \/ findExistingCheckoutByIdempotency(h) \/ ReturnExisting(h)
  \/ PlaceOrder(h) \/ RefuseOrder(h) \/ DuplicateKey(h) \/ UnknownCommit(h)
  \/ RetryConflict(h) \/ GiveUp(h) \/ StoreResult(h) \/ StoreError(h)

Compensate(h) ==
  \/ AdminCancel(h) \/ CompensateRead(h) \/ releaseReservedStockForOrder(h)
  \/ MarkReleased(h) \/ releaseCouponUsageForOrder(h)
  \/ reverseOrderFinanceOnCancellation(h)

Next ==
  \/ \E h \in Handlers : Serve(h) \/ Compensate(h) \/ Crash(h)
  \/ \E h \in Handlers, k \in Keys : Ask(h, k)
  \/ \E h \in Handlers, o \in Orders : CancelOrder(h, o) \/ AdminCancelRead(h, o)
  \/ \E o \in Orders : PaymentFails(o)
  \/ \E k \in Keys : \/ LockExpires(k) \/ ErrorExpires(k) \/ ResultExpires(k)
                     \/ GroupExpires(k) \/ ForgetKey(k)
  \/ \E c \in Customers : FillCart(c)

Spec == Init /\ [][Next]_vars

(* A process at work goes on; a customer who has no final answer asks      *)
(* again; a lock whose holder is gone runs out.                            *)
FairSpec ==
  /\ Spec
  /\ \A h \in Handlers : WF_vars(Serve(h)) /\ WF_vars(Compensate(h))
  /\ \A k \in Keys :
       /\ SF_vars(\E h \in Handlers : told[k] \in {"nothing", "busy"} /\ Ask(h, k))
       /\ WF_vars(LockExpires(k))

-----------------------------------------------------------------------------
(* Properties.                                                             *)

TypeOK ==
  /\ cache \in [Keys -> CacheEntries]
  /\ groups \subseteq Keys
  /\ order \in [Orders -> OrderRecords]
  /\ stock \in Nat
  /\ coupon \in [usedCount : Nat, isActive : BOOLEAN]
  /\ wallet \in [Customers -> Nat]
  /\ cart \subseteq Customers
  /\ told \in [Keys -> Answers]
  /\ task \in [Handlers -> Tasks]
  /\ crashes \in 0..MaxCrashes
  /\ setting \in Settings

(* However often a request is sent, whatever becomes of the cache, of its  *)
(* locks and of the process that serves it, one order carries its key: no  *)
(* second one is placed until the key is taken off the first, a day later. *)
OneOrderPerKey ==
  \A o1, o2 \in Orders : order[o1].key = order[o2].key => order[o1].key = None \/ o1 = o2

(* The units left and those of standing orders are never more than there   *)
(* were, unless an admin cancels from a stale read: two compensations of   *)
(* one order each return its units.                                        *)
NeverOversold ==
  Surprise("staleCancel")
    \/ stock + Cardinality({o \in Orders : order[o].status = "placed"}) <= Stock

(* The coupon counts its redemptions, within its limit and once for each   *)
(* customer, though checkouts and cancellations race for it.               *)
CouponAccounted ==
  LET redeemed == {o \in Orders : order[o].redeemed} IN
  /\ coupon.usedCount = Cardinality(redeemed) /\ coupon.usedCount <= UsageLimit
  /\ \A o1, o2 \in redeemed : CustomerOf(o1) = CustomerOf(o2) => o1 = o2

(* What a customer's orders took from the wallet is taken once and given   *)
(* back at most once, though two compensations may work on one order.      *)
WalletAccounted ==
  \A c \in Customers :
    wallet[c] + Cardinality({o \in Orders : /\ order[o].request # None /\ CustomerOf(o) = c
                                           /\ Request[order[o].request].wallet
                                           /\ ~order[o].reversed}) = Balance

Calm == setting.surprises \subseteq {"staleCancel", "crash", "cleanup"}

(* A customer told that the order is placed has one; a customer told that  *)
(* it failed has none of that key, as long as a request is sent again only *)
(* after its answer or the death of its process, the cache works, locks    *)
(* outlast their holders and the outcome of every commit is known.         *)
AnswersAreTrue ==
  \A k \in Keys : /\ told[k] = "order" => OrdersOf(k) # {}
                  /\ Calm /\ told[k] = "failed" => Carrying(k) = {}

(* Under the same conditions a customer who keeps asking while the order   *)
(* carries the key learns of it, though processes died over it.            *)
LearnsOfOrder ==
  \A k \in Keys : Calm /\ Carrying(k) # {} ~> told[k] = "order" \/ Carrying(k) = {}
=============================================================================
