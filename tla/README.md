# A TLA+ model of the order and payment core

This directory holds the verification project of the marketplace backend in
`src/backend/app`: specifications of what happens to an order and its money from the
checkout to the payment of the store, configurations that check them with TLC, and proofs,
checked by the TLA+ proof system, that the most important properties hold for every number of
actors. Paths below are relative to `src/backend/app` unless they start with `src/`.

## 1. The system

The five parts modelled follow an order through its life: it is placed (`Checkout`), paid
(`PaymentCapture`), worked on (`OrderWorkflow`), and after its delivery the store gets its
share (`SellerSettlement`) and the platform its share of the cash (`CodCash`).

An order is one MongoDB document. Request handlers of several Express processes, queue
consumers and periodic sweeps read and write it concurrently; none holds a lock. What
keeps them apart is a convention that most of them follow: the last write is a
`findOneAndUpdate` whose filter repeats the condition that was checked. The interesting
behaviour is in the handlers that do not, in the writes that come after the guarded one
(stock, wallet, ledger), and in what happens when a process dies in between.

### Components, their state and operations

| Component | Source | State | Operations |
|---|---|---|---|
| Order state machine | `services/orderStateMachine.js`, `constants/orderWorkflow.js` | none (a table) | `canTransition`, `assertTransition`, the mapping to the legacy `status` |
| Order workflow | `services/orderWorkflowService.js` | `workflowStatus`, `deliveryBoy`, `deliverySearchMeta`, `deliverySearchExpiresAt`, `sellerPendingExpiresAt`, `skippedBy`, `cancellationRequest` | accept / reject / seller timeout, search and its timeout job, rider accept / assign / arrive / pick up / deliver, store-driven delivery, customer cancellation and its approval |
| Scheduled activation | `services/orderActivationService.js` | `schedule.activationAt` | the activation job and its sweep |
| Auto-cancel job | `jobs/orderAutoCancelJob.js` | none | sweeps of overdue acceptances, payments, searches, activations |
| Customer pickup | `services/customerPickupService.js` | `customerPickup` | ready, verify |
| Guest courier | `services/guestCourier*Service.js` | assignment documents, `guestCourierAssignment` | assign, e-mail, arrive, pick up, deliver, revoke |
| Reassignment | `services/orderReassignService.js` | rewrites most of the order | one transaction |
| Phone orders | `services/phoneOrderService.js` | none of its own | places an order for a caller and gives it to the store unpaid |
| Reschedule, disputes | `services/orderRescheduleService.js`, `services/disputeService.js` | `reschedule`, dispute documents | apply; raise, resolve |
| Other status endpoints | `controller/orderController.js`, `controller/orderLifecycleController.js`, `controller/deliveryController.js` | the same fields | `updateOrderStatus`, `skipOrder`, self-logistics, admin override, delivery code |
| Compensation | `services/orderCompensation.js` | `stockReservation`, coupon use, finance | after every cancelling write |
| Payment capture | `services/paymentService.js`, `constants/payment.js` | payment attempts, webhook markers, `paymentStatus` | create attempt, verify, webhook, side effects |
| Order finance | `services/finance/orderFinanceService.js` | wallets, ledger, `financeFlags` | capture, reverse, settle |
| Stock | `services/stockService.js` | product stock, `stockReservation` | reserve, commit, release |
| Placement | `services/orderPlacementService.js`, `models/checkoutGroup.js` | orders, checkout groups | `placeOrderAtomic` |
| Idempotency keys | `services/idempotencyService.js`, `src/backend/scripts/cleanupExpiredIdempotencyKeys.js` | lock, result and error of a key in the cache; the key on group and orders | check, acquire, store, release; forget |
| Coupons | `services/couponUsageService.js` | `usedCount`, redemptions | consume, release |
| Settlement and payouts | `services/finance/sellerSettlementService.js`, `services/finance/payoutService.js`, holds in `controller/adminFinanceController.js` | `settlementStatus`, `sellerSettlement`, payout rows, the store's wallet | sweep, review, hold, pay, retry, webhook, reconcile |
| Complaints | `services/complaintService.js` | complaint documents, the hold of a settlement | raise, approve, reassign, refund, close |
| Cash of riders | `services/orderSettlement.js`, `services/codRemittanceService.js`, `services/admin/cashService.js`, `controller/orderFinanceController.js` | `codCollectedAmount`, `codRemittedAmount`, `cashInHand`, remittances | settle, count, hand in, remit, verify, webhook |
| Commission of stores on cash orders | `services/orderSettlement.js`, `services/sellerCodCommissionService.js`, `services/finance/walletService.js` | `codCommissionDue`, balances, payments | charge, set off, pay, hand in |
| Cash of guest couriers, price adjustment, preorders, OTP, scheduler lock | `services/*` | their own documents | not modelled |
| Catalog, search, cache, media, authentication, notifications, rewards, web client | - | - | reads and I/O around the order core |

### How they interact

- Placement writes the order (`CREATED` if it is paid online, else `SELLER_PENDING`) with
  its stock reserved, in one transaction behind a cached lock. `Checkout` models it; its
  result is the initial state of `OrderWorkflow` and `PaymentCapture`.
- The gateway's webhook and the browser's verify call move a payment attempt; its side
  effects book the money on every order of the checkout, then hand them to the store. An
  order taken over the phone, or reassigned, is with the store before that, which may
  accept it only once it is paid.
- The store's acceptance starts the search for a rider (or hold, pickup, own delivery).
  The search window's timeout job retries, falls back to another method, or cancels.
- An administrator may give the order to a guest courier, to a rider, or to another store.
- Every cancellation writes the status and then calls the compensation, which gives back
  stock, coupon and money.
- Every handler that writes `DELIVERED` then settles the order: it creates the store's
  payout, which waits for the return window, complaints, holds and a review. If the order
  was paid in cash, it counts the rider's cash or charges the store its commission.
- Two jobs look after what was left half done: one polls payouts under way at the gateway,
  one settles delivered orders again.

### What is hard

`PROJECT.json` lists each hazard at its line. In short: unguarded saves of a document read
earlier (pickup, payment attempts, `updateOrderStatus`, overrides); two consumers of the
same timeout job; an approval or a cancellation decided on a stale read; processes that
die between the two or three writes of a handler; webhooks redelivered, reordered or dropped
by the marker that makes them idempotent; a verify call racing the webhook of the same
charge; a payment timeout racing a late capture; a lock that runs out, or a cache that
fails, while an order is placed; commits of unknown outcome; transfers whose answer is
lost, that are reported twice or reversed; wallets saved as they were read; loops over
amounts that were read before; an order handed over before its money. A hazard listed there
without a property is in the models, but what one would wish for does not hold; its note
says what does.

### What makes each component correct

- Workflow: follows the state machine; one assignee; nobody holds an order that is still
  offered; a rider is not replaced; an approval spares an accepted order; an unpaid order
  gets nowhere; the search is not cut short and does not go on for ever.
- Compensation: a live order holds its stock, a cancelled one gives it back.
- Payment: money and stock move once; an order the store has accepted is funded; a
  captured charge ends with its orders handled; late reports spare other orders.
- Checkout: one order carries a key; nothing oversold; coupon and wallet accounted for; a
  customer's answer is true, and one who keeps asking learns of the order.
- Settlement: one payout stands; the wallet agrees with the payouts; the store is paid
  once; a locked settlement is paid and moves no more money; a claimed one ends.
- Cash: what a rider holds is what he collected and did not remit; a payment settles what
  was paid, once; a store owes what it was charged and neither set off nor paid; cash of
  delivered orders is counted, and remittances are applied, in the end.

## 2. Modules

| Module | Content |
|---|---|
| `OrderStateMachine` | statuses, transition table, classes of the legacy status |
| `OrderLifecycle` | abstract specification: one status that moves along the table or one of four named service steps, or restarts by a reassignment |
| `OrderWorkflow` | one order and everybody who moves it |
| `PaymentCapture` | the orders of one checkout, payment attempts, charges, webhooks, ledger |
| `Checkout` | placing orders under idempotency keys: cache, transaction, retries, compensation |
| `SellerSettlement` | the settlement of one delivered order |
| `CodCash` | cash orders of one rider and one store after delivery |
| `MCOrderWorkflow`, `MCPaymentCapture`, `MCCheckout`, `MCSellerSettlement`, `MCCodCash` | model values, settings and symmetry for TLC |
| `OrderWorkflow_proofs` | type invariant of `OrderWorkflow` |
| `OrderAssignment_proofs`, `OrderLifecycle_proofs` | its safety properties and the refinement |
| `FiniteSums` | what `SumFunctionOnSet` returns, and how a change at one point moves it |
| `PaymentCapture_proofs`, `Checkout_proofs`, `SellerSettlement_proofs`, `CodCash_proofs` | type invariants and safety of these |

### OrderWorkflow and the code

`order` is the document, a record with the code's field names. A guarded update is one
action: filter = guard, `$set` = `EXCEPT`. A handler that reads, awaits and writes is two
actions; between them process `p` holds `task[p]`, with what the handler remembers of its
read. The actions carry the handlers' names without the suffix `Atomic`. A cancelling
write leaves its handler in the task `"compensate"`; `Compensate` is its second half.

Processes are divided into `Requests` and `Jobs` so that a configuration can bound
requests and job consumers apart. `Endpoints` names endpoints that write a status without
guarding on it, so that a property may be stated for the system without them, and is
checked, or shown to fail, with them.

Decisions that a reader of the code will want to know:

- A stored time is a boolean that says on which side of now it lies: `sellerOpen`,
  `deadlinePassed`, `searchOpen`, `activationDue`. The deadline's default (placement plus
  24 hours) is a deadline like any other.
- The legacy `status` is a function of `workflowStatus`. The packed signal of the store
  and updates of the legacy field alone by `updateOrderStatus` are left out.
- Codes (delivery OTP, pickup OTP, QR, guest tokens) are abstracted to the handler that a
  correct one lets through.
- `AlertStore` gives an unpaid order to its store, as for an order taken over the phone;
  any order may be one.
- `"external_logistics"` stands for platform logistics with `logisticsMode` external.
- `assignmentVersion` guards nothing and is left out. `windows` is a history variable,
  `reassigns` a bound.
- One step: the read and guarded update of a rider's acceptance, `skipOrder`, the re-read
  and update at the end of `processDeliveryTimeoutJob`, the two reads before marking ready
  for pickup, and the compensation (its parts are apart in `PaymentCapture`).
- The reassignment is a transaction. As in the code it does not renew the acceptance
  deadline, the cancellation request or the search window.
- Mongoose refuses a save that replaces an array when the document's version has moved.
  `verifyCustomerPickup` is the one modelled handler this applies to, and only another
  save (a reassignment, another verification) moves the version. The model lets the save
  go through; it has more behaviours than the code here, never fewer.
- `PREORDER_HOLD` and `AWAITING_EXTRA_PAYMENT` are in the table but not entered yet.

### PaymentCapture and the code

`payment[g]` is the status of an attempt, `order[o]` what the payment code reads and writes
of an order, `ledger[o]` counts what was moved for it. The gateway is external: it takes
charges on an attempt until one is captured, may refund, and has events to report of each
charge. Payments are captured at once, as `payment_capture: 1` asks for.

- `transitionPaymentState` is two actions: `Transition`, what the caller's read put into
  `task[p]`, and `SavePayment`, the save decided on it.
- The side effects of a capture are a loop with two writes per order (`CaptureOrder`,
  `MoveOrder`), in any order; those of a failure one transaction (`FailOrders`).
- A webhook's marker is the id of its charge, so each charge has one webhook processed;
  recording the marker and reading the attempt are one step, and a redelivery of a recorded
  webhook changes nothing.
- A transaction is one action and its abort a `Crash`. A crash may hit the callers in
  `Mortal`.
- `AlertStore` is what `placePhoneOrderForCustomer` does with the orders it placed, and
  `ReassignStore` what a reassignment does to status and stock: either gives an unpaid
  order to a store. Any order may be a phone order, and the alert may come at any time,
  which is more than the code does. `GivenToStore` is the filtered update it shares with
  a capture.
- Preorders, which that update leaves alone, are left out.
- `walletReturns` counts the returns of wallet money spent at checkout. The checkout
  group's own status, pay links, subscriptions and COD remittances are left out. The
  later life of an order is reduced to `ACCEPTED` and `CANCELLED`.

### Settings and surprises

`Checkout`, `SellerSettlement` and `CodCash` have a variable `setting` that is chosen in
the initial state and never changes. It says what there is to do and which *surprises*
happen: handlers that overlap, processes that die, answers that are lost. One run then
checks several kinds of fault, and a property that some fault breaks says of which
settings it speaks (`Calm`). The theorems are about any set of settings.

### Checkout and the code

- The transaction of `placeOrderAtomic` reads a snapshot, and every document it decides by
  it also writes (product, coupon, wallet, cart), so of two overlapping transactions one
  aborts: it is one action, `PlaceOrder`, and an abort is `RetryConflict` or `GiveUp`. The
  calls to the cache before and after it are steps of their own.
- `groups` are the checkout groups of which the unique index on the key knows. After a day
  the cache drops the result (`ResultExpires`) and the database the group
  (`GroupExpires`). The orders live on, but their key is due as well: the next run of
  `cleanupExpiredIdempotencyKeys.js` takes it off (`ForgetKey`, with the surprise
  `"cleanup"`). From then on a request of the key places a new order, as the code means it
  to; `OneOrderPerKey` is about the orders that carry a key. `order[o].request` remembers
  which request an order was placed for and is never erased. No request is under way for
  a day (`Quiet`).
- Without a client of the cache, `storeIdempotencyResult` returns and the answer is the
  order; with one that fails it throws (`ReturnExisting`).
- `UnknownCommit` is `commitWithRetry` giving up: the order is there or not.
- The compensation is split into its writes here (`CompensateRead` to
  `reverseOrderFinanceOnCancellation`). Guarded cancellations start it once. `updateOrderStatus`
  decides by the status it read (`AdminCancelRead`, `AdminCancel`) and may start it again.
- Every order is for one unit of one product, and each customer may use the coupon once.
  Prices, schedules, preorder allocations and orders of several stores are left out. The
  payload of a key is fixed, so its checksum never differs.
- `AnswersAreTrue` speaks of settings in which no request is doubled, no lock runs out
  before its holder is done, the cache works and the outcome of commits is known. Each of
  these breaks it: see *Disagreements*.

### SellerSettlement and the code

- `order` has the fields of `settlementStatus` and `sellerSettlement`, and the state of the
  order's complaint; `payout` the rows that name it; `wallet` counts in units of its
  payout. Payouts of other orders touch none of these.
- `paySettlement` is a chain of steps: read and check, claim, cancel the stale payout,
  create the one to pay, pay (`PayManually`, or `CreateSellerPayout` at the gateway), and
  `finalizeSettlement`, `RecordTransfer` or `failSettlement`. Functions of `payoutService` are
  transactions, one action each.
- The gateway is external: it takes one transfer per key, ends it, may lose its answer,
  repeat a webhook and reverse a transfer.
- Handlers that save a document they read before (`markReviewed`, the admin's holds,
  `retrySettlement`) may save over a newer one only with the surprise `"overtaken"`;
  without it, `Fresh` lets them save while what they read still stands.
- A complaint's step reads the order before its transaction and updates it unconditionally
  in there; read and update are one step here, and no property depends on it.
- A claim is made only while a payout row is left, so the bound on rows never stops a
  payment halfway.

### CodCash and the code

- The rider's side consists of transactions (`settleDeliveredOrder`, `handleCodOrderFinance`,
  `reconcileCodCash`), one action each. The loops that remit an amount read the orders once
  (`Gather`, `HandInCash`) and then go through what they found, a transaction per order.
- The store's wallet is read and saved without a session; `ReadWallet` and `WriteWallet` are
  two actions, and `todo` lists the changes a handler still makes.
- Without the surprise `"together"` a handler starts only when all are idle (`Alone`).
  `Crash` is a dying process or an aborted transaction.
- A webhook leaves its marker first, so a capture is reported to a handler once. Payments
  of stores have no webhook handler.
- `paymentBreakdown.codCommissionDue` is not in the schema of orders, so Mongoose drops it
  when it is written; the loops over orders that owe a commission find none, and the
  commission a store owes is what its wallet says. `order` has no such field here either.
- The reconciliation job asks an order whose cash was not counted for the fulfilment method
  `platform_logistics`, which all the rider's orders have here.
- Left out: cash for items added later, platform-wide totals, remitting the order of a
  store by name of a rider, and payments of more than the rider's cash. Opening a payment
  is one step. A version error on the second save of a record would change nothing.

## 3. Runs

All configurations say `CHECK_DEADLOCK FALSE`: a closed order, or a settled checkout, is
the end of the behaviour.

| Run | Instance | Shows |
|---|---|---|
| `workflow_platform` | 2 riders, 2 requests, 2 jobs, crashes, all platform and seller methods, scheduled or not, online or not, 1 reassignment, 2 attempts | `TypeOK`, `UnpaidGoesNowhere`, `LiveOrderHoldsStock`, and the refinement `FollowsLifecycle` |
| `workflow_endpoints` | the unguarded endpoints `reschedule`, `selfLogistics`, `adminOverride`, 2 riders, 1 reassignment | `RiderKept`, `ApprovalSparesRider` |
| `workflow_guest` | 2 guest couriers and a rider, 2 requests and 2 timeout consumers, pickup as fallback, `updateStatus` | `OneAssignee`, `NobodyHoldsOfferedOrder`, `SearchNotCutShort` |
| `workflow_liveness` | a rider, a guest courier, 2 timeout consumers, disputes and codes | `SellerDecisionEnds`, `SearchEnds`, `CancelledGivesBack` |
| `payment_races` | 2 attempts, 2 charges, 2 handlers that may die, every event, good and bad signatures, hand-overs of unpaid orders | `TypeOK`, `MovedOnce`, `AcceptedIsFunded`, `ReportsSpareOrders` |
| `payment_liveness` | a checkout of 2 orders, verify may die | `CapturedIsHandled` |
| `checkout_races` | 2 requests for the last unit, for the coupon's one use per customer, or of 2 customers for its last use, 2 handlers, 3 orders, one kind of fault at a time | `TypeOK`, `OneOrderPerKey`, `NeverOversold`, `CouponAccounted`, `WalletAccounted`, `AnswersAreTrue` |
| `checkout_liveness` | one request with dying processes, stale cancellations and forgotten keys | `LearnsOfOrder` |
| `settlement_races` | 2 handlers; by hand with every surprise; through the gateway with dying processes | `TypeOK`, `OneStandingPayout`, `WalletMatchesPayouts`, `PaidOnce`, `LockedIsPaid`, `LockedMovesNoMoney` |
| `settlement_liveness` | 3 rows, both ways of paying undisturbed; a gateway that loses, repeats and reverses | `ClaimEnds` |
| `cod_cash` | 2 orders at a time of a rider, a store or one of each; overlapping, dying and undisturbed handlers | `TypeOK`, `CashAccounted`, `RemitsWhatWasPaid`, `CommissionAccounted`, `CashIsCounted`, `RemittanceIsApplied` |

Bounds. One order suffices for the workflow, since no handler writes two; two of each kind
of actor give every pairwise race, and a third adds none that the guards, which compare
with `None` or with the acting process only, could tell apart. Two attempts of the search
are the smallest number with a retry and an end (`workflow_endpoints` has one: its
properties are not about retries). Two charges on two attempts cover a failed and a
succeeded charge of one attempt, and a charge on each of two. Symmetry is declared only in
runs without liveness.

Two requests and two handlers show every race of a checkout; three orders leave room for a
second order of one key; one unit, one use per customer, one retry and one crash, and in
one setting a limit of one use for two customers, reach every refusal. The runs combine
few faults; the theorems are about any combination.

A settlement needs a row to fail and one to pay again, and two keys to pay with; a third row
lets a reversed transfer be paid anew. In `cod_cash` the rider's orders
carry 2 and 1, so that amounts fall short of an order, end on it, and go beyond it; a
store's balance of 1 pays half of a commission of 2. Two payments are opened only without
faults, and none by overlapping handlers of a store, where their debts would only multiply
states.

Fairness (`FairSpec`). Workflow: the clocks advance, `orderAutoCancelJob` runs
periodically in the scheduler process (weak fairness of `Sweep`; the sweep enqueues the
same handlers as the delayed jobs), and a started handler ends. Nothing is assumed of
stores, riders, customers or administrators. `Crashes` is off, since nothing repeats a
compensation that died. Payment: the gateway redelivers an event until it is answered
(strong fairness of the delivery per charge: handlers may be busy at times), and handlers
proceed. Checkout: a process at work goes on, the lock of one that is gone runs out (it
has a time to live), and a customer without a final answer asks again; the last is an
assumption about customers, and `LearnsOfOrder` is about those who do. Settlement: the
gateway ends its transfers, handlers go on, and `reconcileProcessingPayouts` finds a process
to run in. Cash: as for payments, and `deliveredSettlementReconciliationJob` runs again and
again.

### Disagreements found

`retry_pays_twice` expects a violation. The comment on `sellerSettlement.idempotencyKey`
(`models/order.js`) promises one key per settlement, so that a retry cannot pay twice; a
retry makes a new key out of the clock, and after a lost answer the gateway takes both
transfers.

What follows was met while modelling. No run is kept for it; the models contain the
behaviour unless it says otherwise, and the properties exclude it by name or by setting.

Workflow and payment:

- Marking an order ready for pickup looks at its fulfilment method only and revives a
  cancelled order, out of which the table has no way.
- A store that delivers itself and has marked the order packed is stuck: the next step is
  handing over, which is refused for such orders.
- A webhook of an earlier failed charge, decided on a stale read, overwrites `CAPTURED`.
- After a failed charge the attempt is `FAILED`, which is terminal; the capture of the
  next charge is refused, its marker already recorded.
- The branch for failed payments cancels by itself: wallet money spent at checkout is not
  returned, though `orderCompensation.js` calls itself the single place for reversals.

Checkout:

- A request that passed `checkIdempotency` acquires the lock after another one was refused
  and released it: an order is placed beside a cached error, and the customer is told that
  it failed. A lock that runs out, a cache that fails between the two calls, and a commit
  whose outcome stays unknown end the same way.
- `storeIdempotencyResult` of an existing checkout is outside the `try`: with the cache down,
  a failure is reported for an order that exists.
- A cancellation by `updateOrderStatus` from a stale read compensates twice and returns the
  units twice (`NeverOversold` excludes it).
- A coupon that reached its limit stays deactivated when a use is released.
- The cleanup script is scheduled nowhere in the repository. Where it is not run, an order's
  key is never forgotten: `findExistingCheckoutByIdempotency` finds the order for ever.

Settlement:

- Paid by hand: retried while the payment is under way, or after a crash between
  `processPayout` and `finalizeSettlement`, `createPendingPayoutForOrder` hands out the completed
  row. If the retry goes through the gateway, the store is paid twice.
- A failed row is handed out again, so a retry by hand after a failure webhook never
  succeeds.
- The payout desk completes a payout that a transfer is paying: the settlement stays
  `PAYING`, or `RecordTransfer` revives the row and it is credited twice.
- A crash between the claim and the call of the gateway leaves `PAYING` for ever.
- A failure webhook delivered late clears the key of a newer payment.
- Reviewing or holding from a stale read erases key, lock or state.
- A reversal after completion leaves `lockedAt`, so a retry never pays.
- The query of `returnWindowReleaseJob` matches no order that `settleDeliveredOrder` held.
- Closing a complaint releases `HOLD` and leaves `manualSettlementHold`.
- A success webhook refused because of `HOLD` leaves the row `PROCESSING`.

Cash:

- A remittance that verify and webhook apply at once, or again after a loop that ended
  midway, settles more than was paid (`codRemittanceService.js` says that only as much as
  was paid is deducted).
- The admin's endpoint `markOrderDeliveredAndSettle` never charges a store; nor is a store
  ever charged when the process dies, or a write fails, after the order was settled: the
  reconciliation job looks for riders' orders.
- Updates of a store's wallet that overlap are lost, and two verifications at once lower
  the debt twice.
- Payments of stores have no webhook: a charge whose browser is closed is never applied,
  nor one whose handler dies after saving `CAPTURED`, since a repetition is answered
  "already captured".
- `codCommissionDue` of orders is never stored (above), so the guard `ordersReconciled`
  blocks nothing, and the stores' list of orders shows no commission due.
- `Transaction` has no type `"Settlement"`: verifying a store's payment ends with an error
  after all money has moved.

Properties that hold only without a part of the system are stated for the rest:
`FollowsLifecycle` and `LiveOrderHoldsStock` fail with guest couriers (revoking one reopens
the search from any status), customer pickup, and the unguarded endpoints; `RiderKept`
fails with the `deliveryBoyId` field of `updateOrderStatus`; `SearchNotCutShort` with a
reassignment during a timeout handler; `CancelledGivesBack` with crashes;
`CapturedIsHandled` with an `authorized` event sent first or a dying webhook handler.

## 4. Proofs

The proofs hold for every value of the constants that satisfies the named assumptions
`ConstantsAssumption`, `PaymentAssumption`, `CheckoutAssumption`, `SettlementAssumption` and
`CodAssumption`: any number of riders, couriers, processes, orders, attempts, charges, keys,
rows, payments and settings.

| Theorem | States | Extra assumption |
|---|---|---|
| `Typed` | `Spec => []TypeOK` | none |
| `AssignmentsExclusive` | `Spec => []OneAssignee` and that nobody holds an offered order | `AssignmentsGuarded`: no override, no `deliveryBoyId`, reschedules only without guest couriers |
| `OfferedOrdersAreFree` | `Spec => []NobodyHoldsOfferedOrder` | `AssignmentsGuarded` |
| `RidersKeepTheirOrder` | `Spec => RiderKept` | no `deliveryBoyId` |
| `ApprovalsSpareRiders` | `Spec => ApprovalSparesRider` | none |
| `SearchesRunTheirCourse` | `Spec => SearchNotCutShort` | `SearchGuarded`: `MaxReassign = 0`, no reschedules, no override |
| `ImplementsLifecycle` | `Spec => FollowsLifecycle` | `StatusGuarded`: no guest couriers, customer pickup or unguarded endpoints |
| `LiveOrdersHoldStock` | `Spec => []LiveOrderHoldsStock` | `StatusGuarded` |
| `UnpaidOrdersWait` | `Spec => []UnpaidGoesNowhere` | `StatusGuarded` |
| `PaymentTyped` | `Spec => []TypeOK` | none |
| `MoneyMovesOnce` | `Spec => []MovedOnce` | none |
| `AcceptedOrdersAreFunded` | `Spec => []AcceptedIsFunded` | none |
| `LateReportsSpareOrders` | `Spec => ReportsSpareOrders` | none |
| `CheckoutTyped` | `Spec => []TypeOK` | none |
| `KeyPlacesOneOrder` | `Spec => []OneOrderPerKey` | none |
| `AnswersTellTheTruth` | `Spec => []AnswersAreTrue` | none (its second half speaks of `Calm`) |
| `CouponIsAccounted` | `Spec => []CouponAccounted` | none |
| `WalletIsAccounted` | `Spec => []WalletAccounted` | none |
| `StockIsNotOversold` | `Spec => []NeverOversold` | none |
| `SettlementTyped` | `Spec => []TypeOK` | none |
| `OnePayoutStands`, `WalletIsTrue`, `StorePaidOnce`, `LockedWasPaid` | `OneStandingPayout`, `WalletMatchesPayouts`, `PaidOnce`, `LockedIsPaid` as invariants | `SettlementsGuarded` |
| `LockedStaysPaid` | `Spec => LockedMovesNoMoney` | `SettlementsGuarded`: every setting pays by hand only, with any surprise; or through the gateway, with no surprise but dying handlers, and these only without payments by hand |
| `CodTyped` | `Spec => []TypeOK` | none |
| `RemittancesWithinCash` | `Spec => []RemittedWithinCash`, the first half of `CashAccounted` | none |
| `CashIsAccounted` | `Spec => []CashAccounted` | none |
| `PaidIsRemittedOnce` | `Spec => []RemitsWhatWasPaid` | none (the property speaks of `Calm`) |
| `CommissionIsAccounted` | `Spec => []CommissionAccounted` | none (the property speaks of `Calm`) |
| `SumChange`, `SumBounds` | a change of a function at one point of a finite set changes its sum there by the difference; each term is at most the sum | none |

The inductive invariants, and why they are needed:

- `TypeInv` = `TypeOK` and `RetryHasAttempts`. A timeout handler writes the attempt it read
  plus one, so it must not remember the last.
- `AssignmentInv` = `OneAssignee` and `NobodyHoldsOfferedOrder`. The rider's acceptance
  looks for a rider only; that no guest courier holds the order follows from its status.
- `LifeInv`: only a cancelled order has a handler that compensates, and it stays
  cancelled. Without this a compensation could release the stock of a live order.
  With it `UnpaidGoesNowhere` is inductive: a step that takes an order on is the store's,
  which asks for the payment (`PaymentStep`); every other finds the order taken on.
- `MoneyInv`: the ledger can be read off the order's flags (`LedgerMatches`); an order
  marked paid or accepted is booked, and of one that is not cancelled nothing has been
  given back (`OrdersSound`); a handler that gives back does so for a cancelled order
  (`CompensatesCancelled`), which no report, alert or reassignment brings back; each
  handler knows the attempt and order it writes (`TasksTargeted`), and charges are made on
  existing attempts (`ChargesNamed`). `AcceptedIsFunded` alone is not inductive: the store
  looks at `paymentStatus` only.
- `KeyInv` (`Checkout`): whoever is in the transaction has looked for an order of its key
  and found none (`PlacingIsNew`); one placed since then has left its group behind, which
  the unique index sees. The bounds on coupon and stock are counted against the set of
  orders; that nothing is oversold needs, besides, that without cancellations from a stale
  read each order is compensated by one handler, which owes its unit until it returns it.
- `HandInv` (`SellerSettlement`): no row has a transfer, at most one row stands and the
  wallet agrees with it (`OneRow`), and whoever is about to lock has seen it paid
  (`LocksPaid`). A completed row is neither cancelled nor processed again, which is why
  handing it out again does no harm by hand.
- `GateInv` (`SellerSettlement`): every claim has one owner (`Gate`): the handler that made
  it, the transfer it sent, the handler that carries back the outcome, or nobody where a
  handler died. What is claimed by nobody was never sent, the row in question is the one
  that stands, and a handler crediting the store is the only one to do so. `OneRow` alone
  is not inductive here: two owners of a claim would credit it twice.
  `SettlementsGuarded` covers the settings of `settlement_races` for any number of rows,
  keys and handlers, and cannot be widened: for each surprise it excludes TLC finds a
  counterexample with 2 handlers and 3 keys. A stale save, a transfer taken back or a retry
  too early breaks `WalletMatchesPayouts`, and so does a crash with payments by hand mixed
  in; the payout desk, a report delivered twice or a lost answer breaks `PaidOnce` (the
  lost answer is the run `retry_pays_twice`).
- `TypeInv`, `CashInv`, `PaidInv` (`CodCash`): a handler at a place in the code has an order
  or payment and a change of a wallet left to make; nothing is collected of an order that
  was not counted; while handlers are alone, one is busy, what it read still holds, and
  what it settled and has left is the amount of its payment. The middle part is needed
  because a share that is refused would end the loop without recording it as settled.
- `SearchInv` (`OrderWorkflow`): before a search begins no handler is deciding about one
  (`NobodySearchesYet`); in it, every attempt's window has passed but the open one
  (`WindowsCounted`); and the windows on which a handler's decision rests have passed
  (`DecisionsEarned`). `SearchGuarded` is needed: TLC shows `SearchNotCutShort` violated as
  soon as an order may be reassigned once or a scheduled one rescheduled, because a handler
  that decided in the search before then ends the new one.
- `Truth` (`Checkout`): everything that would tell a customer of an order has one behind it
  (`Grounded`: a handler that found or placed one; `Kept`: what was told, the cached result,
  the group document); and while calm, a handler that serves a key serves it alone and has
  found no order that carries it when it places or refuses (`ServedAlone`), nor does one
  when a refusal was told or is cached (`Denied`). Alone the answers are not
  inductive: a second handler of the key could place after the refusal.
- `BookInv` (`CodCash`): the rider's wallet is the sum of what his orders have pending. It
  needs nothing of the handlers, since count and wallet move in one write.
- `StoreInv` (`CodCash`): while handlers are alone, the books balance up to what the one
  busy handler has left to write; each stage of each handler says what that is. This is
  where a wallet saved from an old read would break the argument.

`SumFunctionOnSet` chooses a recursive function over subsets. `FiniteSums` proves that one
exists and is unique by induction on the cardinality, with the induction done on sets of
numbers (`LeastNumber` from the well-foundedness of `<`, then `CountingUp`), since the
library's induction theorems cannot be instantiated here; after that every total moves by
`SumChange`.

Each proof has one lemma per group of actions and, under it, a step per action. What
several actions do to one field is a lemma cited by name (`DispatchTyped`, `BooksOneOrder`,
`MovesStayBooked`).

Only model-checked: the liveness properties (`LearnsOfOrder`, `CashIsCounted`,
`RemittanceIsApplied`, `CancelledGivesBack`, `SearchEnds`, `SellerDecisionEnds`,
`CapturedIsHandled`, `ClaimEnds`) and the violation.
Liveness under fairness is outside what the provers used here do. Every invariant and
every action property the passing runs check is stated by a theorem.

## 5. Not modelled, and the plan

Not modelled for a reason that will not change: pure I/O (notifications, media, search,
cache), authentication, the web client, arithmetic of prices, and the queue library.

Not modelled yet, in the order they would come next:

1. Price adjustment (`services/orderPriceAdjustmentService.js`), which enters
   `AWAITING_EXTRA_PAYMENT`: `finalizePendingAdjustment` refunds before its guarded update.
2. Cash of guest couriers (`services/guestCourierFinanceService.js`): remittances save the
   liability as it was read, a process that dies after `DELIVERED` never credits the
   platform, and a liability created late overwrites `codPendingAmount` from an old read.
3. Stock of several products and the failure halfway; preorder allocations; one-time
   passwords and their attempts; the scheduler's lock.
4. A composition of `PaymentCapture` and `OrderWorkflow` over the shared fields, with
   `OrderLifecycle` as its specification, and of `SellerSettlement` with its deliveries.
5. Abstract specifications of a settlement (owed, paid or cancelled) and of a remittance,
   with `SellerSettlement` and `CodCash` shown to implement them.
