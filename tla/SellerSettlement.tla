-------------------------- MODULE SellerSettlement --------------------------
(***************************************************************************)
(* The store's share of one delivered, paid order, from delivery to the    *)
(* bank: the payout rows and the store's wallet, the review-before-pay     *)
(* desk, complaints and holds, payment by hand or through the payout       *)
(* gateway, its webhooks, and the sweeps that run every minute.            *)
(*   finance/sellerSettlementService.js, finance/payoutService.js,         *)
(*   settleDeliveredOrder of finance/orderFinanceService.js, the holds of  *)
(*   adminFinanceController.js and complaintService.js                     *)
(*                                                                         *)
(* Every payout of the order has the same amount, which is the unit of the *)
(* wallet.  A handler that awaits between two writes sits in task[p]       *)
(* meanwhile; a database transaction is one action.                        *)
(***************************************************************************)
EXTENDS Naturals, FiniteSets

CONSTANTS
  Payouts,     \* bound: payout rows the order may ever have
  Keys,        \* bound: idempotency keys a payment may claim the order with
  Handlers,    \* processes that serve requests, webhooks and jobs
  Settings,    \* which ways of paying are used, and which surprises happen
  None         \* no key, no payout

Modes == {"MANUAL", "AUTOMATIC"}

(* What may go wrong around a payment: a handler saves a document that was *)
(* changed since it read it; the gateway takes a transfer but its answer   *)
(* is lost; a webhook is delivered again later; a settled transfer is      *)
(* reversed; the payout desk processes the payouts of the settlement; a    *)
(* payment by hand is retried while it is still under way; a handler dies. *)
Surprises == {"overtaken", "lost", "redelivered", "reversed", "desk", "hasty", "crash"}

ASSUME SettlementAssumption ==
  /\ None \notin Payouts \cup Keys
  /\ Settings \subseteq [modes : SUBSET Modes, surprises : SUBSET Surprises]

VARIABLES
  order,       \* the settlement fields of the order and of its complaint
  payout,      \* the payout rows
  wallet,      \* the store's wallet
  transfer,    \* at the gateway: what became of the transfer of each key
  told,        \* outcomes of transfers the gateway has reported
  task,        \* what each handler is in the middle of
  setting      \* the setting of this behaviour

vars == <<order, payout, wallet, transfer, told, task, setting>>

-----------------------------------------------------------------------------
States == {"none", "WINDOW_OPEN", "HELD", "READY", "REVIEWED", "PAYING",
           "SETTLED", "FAILED"}

Orders ==
  [ state : States,                                  \* settlementState
    sellerPayout : {"PENDING", "HOLD", "COMPLETED"},
    applied : BOOLEAN,                               \* deliveredSettlementApplied
    manualHold : BOOLEAN,                            \* manualSettlementHold
    reviewed : BOOLEAN,
    key : Keys \cup {None},                          \* idempotencyKey
    locked : BOOLEAN,                                \* lockedAt
    mode : Modes,
    windowOpen : BOOLEAN,                            \* complaint and return window
    complaint : {"none", "open", "approved", "refunded", "closed"} ]

PayoutStatuses == {"none", "PENDING", "PROCESSING", "COMPLETED", "FAILED", "CANCELLED"}
TransferStates == {"none", "processing", "processed", "failed", "reversed"}
Outcomes == {"processed", "failed", "reversed"}

TaskKinds ==
  { "idle", "settle", "sweep", "review", "hold", "release", "reset", "check",
    "claim", "cancel", "create", "process", "refused", "call", "record", "fail",
    "credit", "finalize" }

NewOrder ==
  [ state |-> "none", sellerPayout |-> "PENDING", applied |-> FALSE,
    manualHold |-> FALSE, reviewed |-> FALSE, key |-> None, locked |-> FALSE,
    mode |-> "MANUAL", windowOpen |-> TRUE, complaint |-> "none" ]

(* What a handler remembers: the fields it read and writes back or depends *)
(* on, the way of paying, the key it claimed the order with, the payout it *)
(* works on.                                                               *)
Seen == [ state : States, sellerPayout : {"PENDING", "HOLD", "COMPLETED"},
          key : Keys \cup {None}, locked : BOOLEAN, mode : Modes ]
Tasks == [ kind : TaskKinds, seen : Seen, mode : Modes,
           key : Keys \cup {None}, payout : Payouts \cup {None} ]

Nothing == [ state |-> "none", sellerPayout |-> "PENDING", key |-> None,
             locked |-> FALSE, mode |-> "MANUAL" ]
Idle == [ kind |-> "idle", seen |-> Nothing, mode |-> "MANUAL",
          key |-> None, payout |-> None ]

Start(p, t) == task[p] = Idle /\ task' = [task EXCEPT ![p] = t]
Busy(p, kind) == task[p].kind = kind
Continue(p, kind) == task' = [task EXCEPT ![p].kind = kind]
Finish(p) == task' = [task EXCEPT ![p] = Idle]
Reading(kind, seen) == [Idle EXCEPT !.kind = kind, !.seen = seen]

StateSeen == [Nothing EXCEPT !.state = order.state]
ClaimSeen == [Nothing EXCEPT !.state = order.state, !.key = order.key]
PayoutSeen == [Nothing EXCEPT !.sellerPayout = order.sellerPayout]
ReviewSeen == [Nothing EXCEPT !.sellerPayout = order.sellerPayout, !.key = order.key,
                              !.locked = order.locked, !.mode = order.mode]

Surprise(s) == s \in setting.surprises

(* Without the surprise, what was read still stands when it is saved.      *)
Fresh(p, seen) == Surprise("overtaken") \/ task[p].seen = seen

Init ==
  /\ order = NewOrder
  /\ payout = [q \in Payouts |-> [status |-> "none", transfer |-> None]]
  /\ wallet = [pending |-> 0, available |-> 0]
  /\ transfer = [k \in Keys |-> "none"]
  /\ told = {}
  /\ task = [p \in Handlers |-> Idle]
  /\ setting \in Settings

-----------------------------------------------------------------------------
(* The payout rows and the wallet behind them (payoutService).             *)

Open == {q \in Payouts : payout[q].status \in {"PENDING", "PROCESSING"}}
Standing == {q \in Payouts : payout[q].status \notin {"none", "CANCELLED"}}
Paid == {q \in Payouts : payout[q].status = "COMPLETED"}
Promised == Standing \ Paid

NextPayout == CHOOSE q \in Payouts : payout[q].status = "none"

Less(n) == IF n = 0 THEN 0 ELSE n - 1

createPayoutUnlessOpen(q) ==
  IF Open # {}
  THEN q \in Open /\ UNCHANGED <<payout, wallet>>
  ELSE /\ payout[q].status = "none" /\ q = NextPayout
       /\ payout' = [payout EXCEPT ![q].status = "PENDING"]
       /\ wallet' = [wallet EXCEPT !.pending = @ + 1]

(* The payout that stands is handed out again, whatever its status.        *)
createPendingPayoutForOrder(q) ==
  IF Standing # {}
  THEN q \in Standing /\ UNCHANGED <<payout, wallet>>
  ELSE /\ payout[q].status = "none" /\ q = NextPayout
       /\ payout' = [payout EXCEPT ![q].status = "PENDING"]
       /\ wallet' = [wallet EXCEPT !.pending = @ + 1]

cancelKeepsPending ==
  IF Open = {} THEN UNCHANGED <<payout, wallet>>
  ELSE /\ \E q \in Open : payout' = [payout EXCEPT ![q].status = "CANCELLED"]
       /\ UNCHANGED wallet

cancelPendingPayoutForOrder ==
  IF Open = {} THEN UNCHANGED <<payout, wallet>>
  ELSE \E q \in Open :
         /\ payout' = [payout EXCEPT ![q].status = "CANCELLED"]
         /\ wallet' = [wallet EXCEPT !.pending = Less(@)]

OnHold == order.sellerPayout = "HOLD" \/ order.manualHold
ProcessableAgain(q) == q \in Standing /\ ~OnHold
Processable(q) == q \in Open /\ ~OnHold

(* One transaction: row, wallet and order.                                 *)
processPayout(q) ==
  /\ Processable(q)
  /\ payout' = [payout EXCEPT ![q].status = "COMPLETED"]
  /\ wallet' = [pending |-> Less(wallet.pending), available |-> wallet.available + 1]
  /\ order' = [order EXCEPT !.sellerPayout = "COMPLETED"]

(* The payout desk and the batch job process what they find.               *)
ProcessAtDesk(q) ==
  /\ "AUTOMATIC" \in setting.modes => Surprise("desk")
  /\ processPayout(q)
  /\ UNCHANGED <<transfer, told, task, setting>>

-----------------------------------------------------------------------------
(* Settlement of the delivery: the payout is created in a transaction of   *)
(* its own, before that of the order commits.                              *)

SettleDelivery(p, q) ==
  /\ ~order.applied
  /\ createPendingPayoutForOrder(q)
  /\ Start(p, Reading("settle", PayoutSeen))
  /\ UNCHANGED <<order, transfer, told, setting>>

(* A write conflict or another failure aborts; the reconciliation job      *)
(* settles again.                                                          *)
settleDeliveredOrder(p) ==
  /\ Busy(p, "settle")
  /\ \/ /\ ~order.applied /\ PayoutSeen = task[p].seen
        /\ order' = [order EXCEPT !.applied = TRUE,
                      !.sellerPayout = IF order.windowOpen THEN "HOLD"
                                       ELSE IF Paid = {} THEN "PENDING" ELSE @]
     \/ UNCHANGED order
  /\ Finish(p)
  /\ UNCHANGED <<payout, wallet, transfer, told, setting>>

WindowCloses ==
  /\ order.windowOpen
  /\ order' = [order EXCEPT !.windowOpen = FALSE]
  /\ UNCHANGED <<payout, wallet, transfer, told, task, setting>>

-----------------------------------------------------------------------------
(* Complaints: the order is read before the transaction that updates it    *)
(* without looking again; here the read and the update are one step.       *)

Finished == order.sellerPayout = "COMPLETED"

holdSettlement ==
  IF Finished THEN order
  ELSE [order EXCEPT !.sellerPayout = "HOLD", !.state = "HELD"]

releaseSettlement ==
  IF Finished THEN order
  ELSE [order EXCEPT !.sellerPayout = "PENDING",
                     !.state = IF order.windowOpen THEN "WINDOW_OPEN" ELSE "READY"]

RaiseComplaint ==
  /\ order.complaint = "none" /\ order.windowOpen
  /\ order' = [holdSettlement EXCEPT !.complaint = "open"]

ApproveComplaint ==
  /\ order.complaint = "open"
  /\ order' = [(IF order.manualHold THEN order ELSE releaseSettlement)
                 EXCEPT !.complaint = "approved"]

ReassignComplaint ==
  /\ order.complaint = "approved"
  /\ order' = [order EXCEPT !.complaint = "open"]

RefundComplaint ==
  /\ order.complaint \in {"open", "approved"}
  /\ order' = [order EXCEPT !.complaint = "refunded"]

(* A false complaint is closed without a refund.                           *)
CloseComplaint ==
  /\ order.complaint \in {"open", "refunded"}
  /\ order' = [releaseSettlement EXCEPT !.complaint = "closed"]

Complain ==
  /\ \/ RaiseComplaint \/ ApproveComplaint \/ ReassignComplaint
     \/ RefundComplaint \/ CloseComplaint
  /\ UNCHANGED <<payout, wallet, transfer, told, task, setting>>

-----------------------------------------------------------------------------
(* The checks of the settlement desk, and the sweep that applies them.     *)

ComplaintBlocks(o) == o.complaint \in {"open", "refunded"}
ComplaintClear(o) == ~ComplaintBlocks(o) /\ (o.complaint = "none" => ~o.windowOpen)

computeChecks(o) == ComplaintClear(o) /\ ~o.manualHold

resolveStateAsStatus(o) ==
  IF o.locked THEN "SETTLED"
  ELSE IF o.state \in {"SETTLED", "PAYING", "FAILED"} THEN o.state
  ELSE IF ComplaintBlocks(o) THEN "HOLD"
  ELSE IF computeChecks(o) THEN IF o.reviewed THEN "REVIEWED" ELSE "READY"
  ELSE "WINDOW_OPEN"

resolveSettlementState(o) ==
  IF o.locked THEN "SETTLED"
  ELSE IF o.state \in {"SETTLED", "PAYING", "FAILED"} THEN o.state
  ELSE IF ComplaintBlocks(o) THEN "HELD"
  ELSE IF computeChecks(o) THEN IF o.reviewed THEN "REVIEWED" ELSE "READY"
  ELSE IF ComplaintClear(o) THEN "HELD" ELSE "WINDOW_OPEN"

markReadySweepRead(p) ==
  /\ order.state \in {"none", "WINDOW_OPEN", "HELD"}
  /\ resolveSettlementState(order) # order.state
  /\ Start(p, Reading("sweep",
       [Nothing EXCEPT !.state = resolveSettlementState(order)]))
  /\ UNCHANGED <<order, payout, wallet, transfer, told, setting>>

(* Written whatever has become of the order.                               *)
markReadySweep(p) ==
  /\ Busy(p, "sweep")
  /\ order' = [order EXCEPT !.state = task[p].seen.state]
  /\ Finish(p)
  /\ UNCHANGED <<payout, wallet, transfer, told, setting>>

(* A review saves the settlement fields of the document it read.           *)
markReviewedRead(p) ==
  /\ ~order.locked /\ computeChecks(order)
  /\ Start(p, Reading("review", ReviewSeen))
  /\ UNCHANGED <<order, payout, wallet, transfer, told, setting>>

markReviewed(p) ==
  /\ Busy(p, "review")
  /\ order' = IF Fresh(p, ReviewSeen)
              THEN [order EXCEPT !.reviewed = TRUE, !.state = "REVIEWED",
                                 !.sellerPayout = task[p].seen.sellerPayout,
                                 !.key = task[p].seen.key,
                                 !.locked = task[p].seen.locked,
                                 !.mode = task[p].seen.mode]
              ELSE order
  /\ Finish(p)
  /\ UNCHANGED <<payout, wallet, transfer, told, setting>>

(* The holds of the admin save the settlement status they read.            *)
holdSellerPayoutRead(p) ==
  /\ order.sellerPayout # "COMPLETED"
  /\ Start(p, Reading("hold", StateSeen))
  /\ UNCHANGED <<order, payout, wallet, transfer, told, setting>>

holdSellerPayout(p) ==
  /\ Busy(p, "hold")
  /\ order' = IF Fresh(p, StateSeen)
              THEN [order EXCEPT !.sellerPayout = "HOLD", !.manualHold = TRUE,
                                 !.state = task[p].seen.state]
              ELSE order
  /\ Finish(p)
  /\ UNCHANGED <<payout, wallet, transfer, told, setting>>

releaseSellerPayoutRead(p) ==
  /\ order.sellerPayout = "HOLD"
  /\ Start(p, Reading("release", StateSeen))
  /\ UNCHANGED <<order, payout, wallet, transfer, told, setting>>

releaseSellerPayout(p) ==
  /\ Busy(p, "release")
  /\ order' = IF Fresh(p, StateSeen)
              THEN [order EXCEPT !.sellerPayout = "PENDING", !.manualHold = FALSE,
                                 !.state = task[p].seen.state]
              ELSE order
  /\ Finish(p)
  /\ UNCHANGED <<payout, wallet, transfer, told, setting>>

-----------------------------------------------------------------------------
(* Payment (paySettlement).                                                *)

Payable ==
  /\ ~order.locked /\ order.state # "SETTLED"
  /\ order.reviewed /\ computeChecks(order)

paySettlementRead(p, mode) ==
  /\ mode \in setting.modes
  /\ Payable
  /\ Start(p, [Idle EXCEPT !.kind = "claim", !.mode = mode])
  /\ UNCHANGED <<order, payout, wallet, transfer, told, setting>>

(* The key is new: it holds the time of the payment.  Bound: a claim is    *)
(* made only while a payout row is left for it.                            *)
FreshKey(k) ==
  /\ transfer[k] = "none" /\ order.key # k
  /\ \A p \in Handlers : task[p].key # k
  /\ \E q \in Payouts : payout[q].status = "none"

NextKey == CHOOSE k \in Keys : FreshKey(k)

ClaimUnlessLocked(p) ==
  /\ Busy(p, "claim")
  /\ IF ~order.locked /\ order.state # "SETTLED"
     THEN \E k \in Keys :
            /\ FreshKey(k) /\ k = NextKey
            /\ order' = [order EXCEPT !.key = k, !.mode = task[p].mode, !.state = "PAYING"]
            /\ task' = [task EXCEPT ![p].kind = "cancel", ![p].key = k]
     ELSE Finish(p) /\ UNCHANGED order
  /\ UNCHANGED <<payout, wallet, transfer, told, setting>>

ClaimSettlement(p) ==
  /\ Busy(p, "claim")
  /\ IF ~order.locked /\ order.key = None /\ order.state # "SETTLED"
     THEN \E k \in Keys :
            /\ FreshKey(k) /\ k = NextKey
            /\ order' = [order EXCEPT !.key = k, !.mode = task[p].mode, !.state = "PAYING"]
            /\ task' = [task EXCEPT ![p].kind = "cancel", ![p].key = k]
     ELSE Finish(p) /\ UNCHANGED order
  /\ UNCHANGED <<payout, wallet, transfer, told, setting>>

CancelStale(p) ==
  /\ Busy(p, "cancel")
  /\ cancelPendingPayoutForOrder
  /\ Continue(p, "create")
  /\ UNCHANGED <<order, transfer, told, setting>>

(* By hand, a transaction number must have been given.                     *)
CreateSettled(p, q) ==
  /\ Busy(p, "create")
  /\ createPendingPayoutForOrder(q)
  /\ \E next \in IF task[p].mode = "MANUAL" THEN {"process", "fail"} ELSE {"call"} :
       task' = [task EXCEPT ![p].kind = next, ![p].payout = q]
  /\ UNCHANGED <<order, transfer, told, setting>>

PayManually(p) ==
  /\ Busy(p, "process")
  /\ IF Processable(task[p].payout)
     THEN processPayout(task[p].payout) /\ Continue(p, "finalize")
     ELSE Continue(p, "refused") /\ UNCHANGED <<order, payout, wallet>>
  /\ UNCHANGED <<transfer, told, setting>>

RefuseManualAsPaid(p) ==
  /\ Busy(p, "refused")
  /\ Continue(p, "finalize")
  /\ UNCHANGED <<order, payout, wallet, transfer, told, setting>>

RefuseManual(p) ==
  /\ Busy(p, "refused")
  /\ IF payout[task[p].payout].status = "COMPLETED" THEN Finish(p) ELSE Continue(p, "fail")
  /\ UNCHANGED <<order, payout, wallet, transfer, told, setting>>

failSettlement(p) ==
  /\ Busy(p, "fail")
  /\ order' = [order EXCEPT !.state = "FAILED", !.key = None]
  /\ Finish(p)
  /\ UNCHANGED <<payout, wallet, transfer, told, setting>>

finalizeSettlement(p) ==
  /\ Busy(p, "finalize")
  /\ order' = IF order.locked \/ order.state = "SETTLED" THEN order
              ELSE [order EXCEPT !.state = "SETTLED", !.locked = TRUE, !.mode = task[p].mode]
  /\ Finish(p)
  /\ UNCHANGED <<payout, wallet, transfer, told, setting>>

(* The gateway accepts the transfer or rejects it; its answer may be lost. *)
CreateSellerPayout(p) ==
  /\ Busy(p, "call")
  /\ \/ /\ transfer' = [transfer EXCEPT ![task[p].key] = "processing"]
        /\ \/ Continue(p, "record")
           \/ Surprise("lost") /\ Continue(p, "fail")
     \/ Continue(p, "fail") /\ UNCHANGED transfer
  /\ UNCHANGED <<order, payout, wallet, told, setting>>

RecordTransfer(p) ==
  /\ Busy(p, "record")
  /\ payout' = [payout EXCEPT ![task[p].payout] =
                  [status |-> "PROCESSING", transfer |-> task[p].key]]
  /\ Finish(p)
  /\ UNCHANGED <<order, wallet, transfer, told, setting>>

(* A retry gives up the claim of a failed payment, then pays anew.         *)
Retryable ==
  \/ order.state = "FAILED"
  \/ /\ order.state = "PAYING" /\ order.mode = "MANUAL"
     /\ \E q \in Payouts : payout[q].status \in {"PENDING", "FAILED", "CANCELLED"}
     /\ Surprise("hasty") \/ \A p \in Handlers : task[p].key = None

retrySettlementRead(p, mode) ==
  /\ mode \in setting.modes
  /\ Retryable
  /\ Start(p, [Reading("reset", ClaimSeen) EXCEPT !.mode = mode])
  /\ UNCHANGED <<order, payout, wallet, transfer, told, setting>>

retrySettlement(p) ==
  /\ Busy(p, "reset")
  /\ IF Fresh(p, ClaimSeen)
     THEN /\ order' = [order EXCEPT !.key = None, !.state = "REVIEWED"]
          /\ task' = [task EXCEPT ![p].kind = "check", ![p].seen = Nothing]
     ELSE Finish(p) /\ UNCHANGED order
  /\ UNCHANGED <<payout, wallet, transfer, told, setting>>

PayAgain(p) ==
  /\ Busy(p, "check")
  /\ IF Payable THEN Continue(p, "claim") ELSE Finish(p)
  /\ UNCHANGED <<order, payout, wallet, transfer, told, setting>>

-----------------------------------------------------------------------------
(* The gateway (external), its webhooks, and the job that polls it.        *)

TransferEnds(k) ==
  /\ \/ transfer[k] = "processing" /\ \E s \in {"processed", "failed"} :
          transfer' = [transfer EXCEPT ![k] = s]
     \/ /\ Surprise("reversed") /\ transfer[k] = "processed"
        /\ transfer' = [transfer EXCEPT ![k] = "reversed"]
  /\ UNCHANGED <<order, payout, wallet, told, task, setting>>

webhookFailsRowOnly(p, q, outcome) ==
  LET next == IF outcome # "processed" THEN "idle"
              ELSE IF payout[q].status = "COMPLETED" THEN "finalize" ELSE "credit" IN
  /\ Start(p, IF next = "idle" THEN Idle
              ELSE [Idle EXCEPT !.kind = next, !.mode = "AUTOMATIC", !.payout = q])
  /\ payout' = IF outcome = "processed" THEN payout
               ELSE [payout EXCEPT ![q].status = "FAILED"]
  /\ told' = told \cup {<<payout[q].transfer, outcome>>}
  /\ UNCHANGED <<order, wallet, transfer, setting>>

(* Success credits the wallet unless that was done; failure fails the row, *)
(* whatever its status.                                                    *)
handlePayoutWebhook(p, q, outcome) ==
  LET next == IF outcome # "processed" THEN "fail"
              ELSE IF payout[q].status = "COMPLETED" THEN "finalize" ELSE "credit" IN
  /\ Start(p, [Idle EXCEPT !.kind = next, !.mode = "AUTOMATIC", !.payout = q])
  /\ payout' = IF outcome = "processed" THEN payout
               ELSE [payout EXCEPT ![q].status = "FAILED"]
  /\ told' = told \cup {<<payout[q].transfer, outcome>>}
  /\ UNCHANGED <<order, wallet, transfer, setting>>

(* An outcome the gateway reports: the latest, or an earlier one again.    *)
Reported(q) ==
  IF payout[q].transfer = None THEN {}
  ELSE {s \in Outcomes :
          /\ transfer[payout[q].transfer] = s
          /\ <<payout[q].transfer, s>> \notin told \/ Surprise("redelivered")}

ReceiveWebhook(p, q) == \E s \in Reported(q) : handlePayoutWebhook(p, q, s)

ReconcileProcessing(p, q) ==
  /\ payout[q].status = "PROCESSING" /\ payout[q].transfer # None
  /\ transfer[payout[q].transfer] \in Outcomes
  /\ handlePayoutWebhook(p, q, transfer[payout[q].transfer])

CreditTransferred(p) ==
  /\ Busy(p, "credit")
  /\ IF Processable(task[p].payout)
     THEN processPayout(task[p].payout) /\ Continue(p, "finalize")
     ELSE Finish(p) /\ UNCHANGED <<order, payout, wallet>>
  /\ UNCHANGED <<transfer, told, setting>>

Crash(p) ==
  /\ Surprise("crash") /\ task[p] # Idle
  /\ Finish(p)
  /\ UNCHANGED <<order, payout, wallet, transfer, told, setting>>

-----------------------------------------------------------------------------
(* The steps a handler takes by itself once it has begun.                  *)
Resume(p) ==
  \/ settleDeliveredOrder(p) \/ markReadySweep(p) \/ markReviewed(p)
  \/ holdSellerPayout(p) \/ releaseSellerPayout(p) \/ ClaimSettlement(p)
  \/ CancelStale(p) \/ (\E q \in Payouts : CreateSettled(p, q)) \/ PayManually(p)
  \/ RefuseManual(p) \/ failSettlement(p) \/ finalizeSettlement(p)
  \/ CreateSellerPayout(p) \/ RecordTransfer(p) \/ retrySettlement(p)
  \/ PayAgain(p) \/ CreditTransferred(p)

Begin(p) ==
  \/ \E q \in Payouts : SettleDelivery(p, q) \/ ReceiveWebhook(p, q)
                          \/ ReconcileProcessing(p, q)
  \/ \E mode \in Modes : paySettlementRead(p, mode) \/ retrySettlementRead(p, mode)
  \/ markReadySweepRead(p) \/ markReviewedRead(p)
  \/ holdSellerPayoutRead(p) \/ releaseSellerPayoutRead(p)

Next ==
  \/ \E p \in Handlers : Begin(p) \/ Resume(p) \/ Crash(p)
  \/ \E q \in Payouts : ProcessAtDesk(q)
  \/ \E k \in Keys : TransferEnds(k)
  \/ Complain \/ WindowCloses

Spec == Init /\ [][Next]_vars

(* Handlers go on, the gateway ends its transfers, and the job that polls  *)
(* it finds a process to run in again and again.                           *)
Fairness ==
  /\ \A p \in Handlers : WF_vars(Resume(p))
  /\ \A k \in Keys : WF_vars(TransferEnds(k))
  /\ SF_vars(\E p \in Handlers, q \in Payouts : ReconcileProcessing(p, q))

FairSpec == Spec /\ Fairness

-----------------------------------------------------------------------------
TypeOK ==
  /\ order \in Orders
  /\ payout \in [Payouts -> [status : PayoutStatuses, transfer : Keys \cup {None}]]
  /\ wallet \in [pending : Nat, available : Nat]
  /\ transfer \in [Keys -> TransferStates]
  /\ told \subseteq (Keys \X Outcomes)
  /\ task \in [Handlers -> Tasks]
  /\ setting \in Settings

(* The settlement desk cancels a payout before it creates the one it pays, *)
(* retries do so again and the delivery creates one of its own: never do   *)
(* two payouts of the order stand.                                         *)
OneStandingPayout == Cardinality(Standing) <= 1

(* The wallet promises the store exactly the payouts not yet paid, and has *)
(* credited exactly those that are, whatever was cancelled, paid twice or  *)
(* left half done.                                                         *)
WalletMatchesPayouts ==
  /\ wallet.pending = Cardinality(Promised)
  /\ wallet.available = Cardinality(Paid)

(* The store is paid once: a transfer the gateway has not failed and a     *)
(* payment by hand never come together, nor do two of either.              *)
Transferred == {k \in Keys : transfer[k] \in {"processing", "processed"}}
PaidByHand == {q \in Paid : payout[q].transfer = None}
PaidOnce == Cardinality(Transferred) + Cardinality(PaidByHand) <= 1

(* A settlement is locked with its payout paid, and once it is locked no   *)
(* request, webhook or retry still under way moves money.                  *)
LockedIsPaid == order.locked => Paid # {}
LockedMovesNoMoney == [][order.locked => UNCHANGED <<payout, wallet>>]_vars

(* A claimed settlement is paid, fails, or waits behind a hold.            *)
ClaimEnds ==
  ({"overtaken", "desk", "crash"} \cap setting.surprises = {} /\ order.key # None)
     ~> (order.key = None \/ order.locked \/ OnHold)
=============================================================================
