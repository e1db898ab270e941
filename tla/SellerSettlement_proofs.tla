---------------------- MODULE SellerSettlement_proofs ----------------------
(***************************************************************************)
(* A settlement paid by hand, whatever is saved over, retried too early,   *)
(* processed at the payout desk or left half done by a crash; or through   *)
(* the gateway, with handlers that die over it.  For any number of payout  *)
(* rows, payments and handlers one payout of the order stands, the wallet  *)
(* agrees with it, the store is paid once, and a locked settlement is a    *)
(* paid one that moves no more money.  By hand, the row that stands is     *)
(* handed out again by createPendingPayoutForOrder and a completed row is  *)
(* neither cancelled nor processed again (OneRow).  Through the gateway, a *)
(* claim has one owner: its handler, its transfer, the handler that carries*)
(* back the transfer's outcome, or nobody where a handler died (Gate).     *)
(***************************************************************************)
EXTENDS SellerSettlement, FiniteSetTheorems, TLAPS

(* No payment goes through the gateway.                                    *)
ByHandOnly(s) == s.modes \subseteq {"MANUAL"}

(* Payments also go through the gateway, which answers every call, reports *)
(* an outcome once and never takes it back; nobody saves a stale document  *)
(* or uses the payout desk; and handlers may die unless payments by hand   *)
(* are mixed in.                                                           *)
ThroughGateway(s) ==
  /\ "AUTOMATIC" \in s.modes /\ s.surprises \subseteq {"crash"}
  /\ "crash" \in s.surprises => "MANUAL" \notin s.modes

HandSetting == ByHandOnly(setting)
GatewaySetting == ThroughGateway(setting)

SettlementsGuarded == \A s \in Settings : ByHandOnly(s) \/ ThroughGateway(s)

(* So no row has a transfer, and no handler is making or reporting one.    *)
NoTransfers ==
  /\ \A q \in Payouts : payout[q].transfer = None
  /\ \A k \in Keys : transfer[k] = "none"
  /\ \A p \in Handlers : /\ task[p].mode = "MANUAL"
                         /\ task[p].kind \notin {"call", "record", "credit"}

(* No payout stands, or one that is paid or still promised.                *)
OneRow ==
  \/ Standing = {} /\ wallet.pending = 0 /\ wallet.available = 0
  \/ \E q \in Payouts :
       /\ Standing = {q}
       /\ IF payout[q].status = "COMPLETED"
          THEN wallet.pending = 0 /\ wallet.available = 1
          ELSE wallet.pending = 1 /\ wallet.available = 0

(* Whoever locks the settlement, or writes back a lock, has seen it paid.  *)
LocksPaid ==
  /\ LockedIsPaid
  /\ \A p \in Handlers : task[p].kind = "finalize" \/ task[p].seen.locked => Paid # {}

HandInv == TypeOK /\ NoTransfers /\ OneRow /\ LocksPaid

-----------------------------------------------------------------------------
(* A fresh task of any kind is well formed.                                *)
LEMMA IdleTyped ==
  /\ Idle \in Tasks /\ Nothing \in Seen
  /\ \A kind \in TaskKinds, seen \in Seen : Reading(kind, seen) \in Tasks
<1>1. Nothing \in Seen
  BY DEF Nothing, Seen, States, Modes
<1>2. Idle \in Tasks
  BY <1>1 DEF Idle, Tasks, TaskKinds, Modes
<1>3. ASSUME NEW kind \in TaskKinds, NEW seen \in Seen PROVE Reading(kind, seen) \in Tasks
  BY <1>2 DEF Reading, Tasks
<1> QED BY <1>1, <1>2, <1>3

(* What a handler reads of the order is well formed, and so is the state   *)
(* the checks give it.                                                     *)
LEMMA SeenTyped ==
  ASSUME TypeOK
  PROVE  /\ StateSeen \in Seen /\ ClaimSeen \in Seen
         /\ PayoutSeen \in Seen /\ ReviewSeen \in Seen
         /\ [Nothing EXCEPT !.state = resolveSettlementState(order)] \in Seen
<1> USE IdleTyped
<1>1. order \in Orders
  BY DEF TypeOK
<1>2. StateSeen \in Seen
  BY <1>1 DEF Orders, StateSeen, Seen
<1>3. ClaimSeen \in Seen
  BY <1>1 DEF Orders, ClaimSeen, Seen
<1>4. PayoutSeen \in Seen
  BY <1>1 DEF Orders, PayoutSeen, Seen
<1>5. ReviewSeen \in Seen
  BY <1>1 DEF Orders, ReviewSeen, Seen
<1>6. resolveSettlementState(order) \in States
  BY <1>1 DEF Orders, resolveSettlementState, States
<1>7. [Nothing EXCEPT !.state = resolveSettlementState(order)] \in Seen
  BY <1>6 DEF Seen
<1> QED BY <1>2, <1>3, <1>4, <1>5, <1>7

(* The wallet never shows a debt.                                          *)
LEMMA LessTyped == \A n \in Nat : Less(n) \in Nat
  BY DEF Less

(* Creating and cancelling rows keep rows and wallet well formed           *)
(* (createPendingPayoutForOrder, cancelPendingPayoutForOrder).             *)
LEMMA RowsTyped ==
  ASSUME TypeOK,
         cancelPendingPayoutForOrder \/ \E q \in Payouts : createPendingPayoutForOrder(q)
  PROVE  /\ payout' \in [Payouts -> [status : PayoutStatuses, transfer : Keys \cup {None}]]
         /\ wallet' \in [pending : Nat, available : Nat]
  BY LessTyped, SMT DEF TypeOK, cancelPendingPayoutForOrder, createPendingPayoutForOrder,
     PayoutStatuses, Open

(* So does processing one (processPayout).                                 *)
LEMMA ProcessTyped ==
  ASSUME TypeOK, NEW q, processPayout(q)
  PROVE  /\ payout' \in [Payouts -> [status : PayoutStatuses, transfer : Keys \cup {None}]]
         /\ wallet' \in [pending : Nat, available : Nat]
         /\ order' \in Orders
<1>1. payout' \in [Payouts -> [status : PayoutStatuses, transfer : Keys \cup {None}]]
  BY DEF TypeOK, processPayout, PayoutStatuses
<1>2. wallet' \in [pending : Nat, available : Nat]
  BY LessTyped DEF TypeOK, processPayout
<1>3. order' \in Orders
  BY DEF TypeOK, processPayout, Orders
<1> QED BY <1>1, <1>2, <1>3

(* Ending a task or moving it on keeps the tasks well formed.              *)
LEMMA TasksTyped ==
  ASSUME TypeOK, NEW p \in Handlers
  PROVE  /\ Finish(p) => task' \in [Handlers -> Tasks]
         /\ \A kind \in TaskKinds : Continue(p, kind) => task' \in [Handlers -> Tasks]
         /\ \A t \in Tasks : Start(p, t) => task' \in [Handlers -> Tasks]
  BY IdleTyped DEF TypeOK, Finish, Continue, Start, Tasks

(* Names of ways of paying and of settlement states.                       *)
LEMMA ModesNamed == "MANUAL" \in Modes /\ "AUTOMATIC" \in Modes
  BY DEF Modes

LEMMA StateNames ==
  {"HELD", "READY", "WINDOW_OPEN", "REVIEWED", "PAYING", "SETTLED", "FAILED"} \subseteq States
  BY DEF States

(* The fields handlers write leave the order well formed.                  *)
LEMMA OrderWrites ==
  ASSUME NEW o \in Orders
  PROVE  /\ \A s \in States : /\ [o EXCEPT !.sellerPayout = "HOLD", !.state = s] \in Orders
                             /\ [o EXCEPT !.sellerPayout = "PENDING", !.state = s] \in Orders
         /\ \A k \in Keys, m \in Modes :
              [o EXCEPT !.key = k, !.mode = m, !.state = "PAYING"] \in Orders
         /\ [o EXCEPT !.key = None, !.state = "REVIEWED"] \in Orders
         /\ [o EXCEPT !.state = "FAILED", !.key = None] \in Orders
         /\ \A m \in Modes :
              [o EXCEPT !.state = "SETTLED", !.locked = TRUE, !.mode = m] \in Orders
         /\ \A s \in {"PENDING", "HOLD", "COMPLETED"} :
              [o EXCEPT !.applied = TRUE, !.sellerPayout = s] \in Orders
  BY StateNames DEF Orders

(* The order after a complaint's hold or release is well formed.           *)
LEMMA HoldTyped ==
  ASSUME TypeOK
  PROVE  holdSettlement \in Orders /\ releaseSettlement \in Orders
<1>1. order \in Orders
  BY DEF TypeOK
<1>2. holdSettlement \in Orders
  BY <1>1, OrderWrites, StateNames, ModesNamed DEF holdSettlement
<1>3. releaseSettlement \in Orders
  BY <1>1, OrderWrites, StateNames, ModesNamed DEF releaseSettlement
<1> QED BY <1>2, <1>3

(* Complaints and the clock keep the order well formed.                    *)
LEMMA ComplaintTypes ==
  ASSUME TypeOK, Complain \/ WindowCloses
  PROVE  TypeOK'
<1>1. order' \in Orders
  <2> USE HoldTyped DEF TypeOK
  <2>1. CASE RaiseComplaint
    BY <2>1 DEF RaiseComplaint, Orders
  <2>2. CASE ApproveComplaint
    BY <2>2 DEF ApproveComplaint, Orders
  <2>3. CASE ReassignComplaint \/ RefundComplaint \/ WindowCloses
    BY <2>3 DEF ReassignComplaint, RefundComplaint, WindowCloses, Orders
  <2>4. CASE CloseComplaint
    BY <2>4 DEF CloseComplaint, Orders
  <2> QED BY <2>1, <2>2, <2>3, <2>4 DEF Complain
<1> QED BY <1>1 DEF TypeOK, Complain, WindowCloses

(* What a handler writes back of what it read is well formed.              *)
LEMMA SaveTypes ==
  ASSUME TypeOK, NEW p \in Handlers,
         \/ settleDeliveredOrder(p) \/ markReadySweep(p) \/ markReviewed(p)
         \/ holdSellerPayout(p) \/ releaseSellerPayout(p)
         \/ failSettlement(p) \/ finalizeSettlement(p)
  PROVE  TypeOK'
<1>1. task[p].seen \in Seen /\ task[p].mode \in Modes
  BY DEF TypeOK, Tasks
<1>2. task' \in [Handlers -> Tasks]
  BY TasksTyped DEF settleDeliveredOrder, markReadySweep, markReviewed, holdSellerPayout,
     releaseSellerPayout, failSettlement, finalizeSettlement
<1>3. order' \in Orders
  <2>0. order \in Orders
    BY DEF TypeOK
  <2> USE <1>1, <2>0 DEF Orders, Seen
  <2>1. CASE settleDeliveredOrder(p)
    <3>1. \/ order' = order
          \/ \E s \in {"PENDING", "HOLD", order.sellerPayout} :
               order' = [order EXCEPT !.applied = TRUE, !.sellerPayout = s]
      BY <2>1 DEF settleDeliveredOrder
    <3>2. order.sellerPayout \in {"PENDING", "HOLD", "COMPLETED"}
      OBVIOUS
    <3> HIDE DEF Orders
    <3> QED BY <3>1, <3>2, OrderWrites
  <2>2. CASE markReadySweep(p)
    BY <2>2 DEF markReadySweep
  <2>3. CASE markReviewed(p)
    BY <2>3, StateNames DEF markReviewed
  <2>4. CASE holdSellerPayout(p)
    BY <2>4 DEF holdSellerPayout
  <2>5. CASE releaseSellerPayout(p)
    BY <2>5 DEF releaseSellerPayout
  <2>6. CASE failSettlement(p) \/ finalizeSettlement(p)
    <3> HIDE DEF Orders
    <3>1. [order EXCEPT !.state = "FAILED", !.key = None] \in Orders
      BY <2>0, OrderWrites
    <3>2. [order EXCEPT !.state = "SETTLED", !.locked = TRUE, !.mode = task[p].mode] \in Orders
      BY <1>1, <2>0, OrderWrites
    <3>3. CASE failSettlement(p)
      BY <3>1, <3>3 DEF failSettlement
    <3>4. CASE finalizeSettlement(p)
      BY <2>0, <3>2, <3>4 DEF finalizeSettlement
    <3> QED BY <2>6, <3>3, <3>4
  <2> QED BY <2>1, <2>2, <2>3, <2>4, <2>5, <2>6
<1>4. UNCHANGED <<payout, wallet, transfer, told, setting>>
  BY DEF settleDeliveredOrder, markReadySweep, markReviewed, holdSellerPayout,
     releaseSellerPayout, failSettlement, finalizeSettlement
<1> QED BY <1>2, <1>3, <1>4 DEF TypeOK

(* The steps of a payment are well formed (paySettlement, retrySettlement).*)
LEMMA PaymentTypes ==
  ASSUME TypeOK, NEW p \in Handlers,
         \/ ClaimSettlement(p) \/ CancelStale(p) \/ \E q \in Payouts : CreateSettled(p, q)
         \/ PayManually(p) \/ RefuseManual(p) \/ CreateSellerPayout(p) \/ RecordTransfer(p)
         \/ retrySettlement(p) \/ PayAgain(p) \/ CreditTransferred(p)
  PROVE  TypeOK'
<1> USE TasksTyped DEF TaskKinds
<1>0. task[p] \in Tasks
  BY DEF TypeOK
<1>1. CASE ClaimSettlement(p)
  <2>1. order' \in Orders
    <3>1. order \in Orders /\ task[p].mode \in Modes
      BY <1>0 DEF TypeOK, Tasks
    <3>2. \/ order' = order
          \/ \E k \in Keys :
               order' = [order EXCEPT !.key = k, !.mode = task[p].mode, !.state = "PAYING"]
      BY <1>1 DEF ClaimSettlement
    <3>3. ASSUME NEW k \in Keys,
                 order' = [order EXCEPT !.key = k, !.mode = task[p].mode, !.state = "PAYING"]
          PROVE  order' \in Orders
      <4>1. \A m \in Modes : [order EXCEPT !.key = k, !.mode = m, !.state = "PAYING"] \in Orders
        BY <3>1, OrderWrites
      <4> QED BY <3>1, <3>3, <4>1
    <3> QED BY <3>1, <3>2, <3>3
  <2>2. task' \in [Handlers -> Tasks]
    <3>1. CASE Finish(p)
      BY <3>1
    <3>2. ASSUME NEW k \in Keys, task' = [task EXCEPT ![p].kind = "cancel", ![p].key = k]
          PROVE  task' \in [Handlers -> Tasks]
      <4>1. task' = [task EXCEPT ![p] = [task[p] EXCEPT !.kind = "cancel", !.key = k]]
        BY <3>2 DEF TypeOK
      <4>2. [task[p] EXCEPT !.kind = "cancel", !.key = k] \in Tasks
        BY <1>0 DEF Tasks
      <4> QED BY <4>1, <4>2 DEF TypeOK
    <3> QED BY <1>1, <3>1, <3>2 DEF ClaimSettlement
  <2> QED BY <1>1, <2>1, <2>2 DEF ClaimSettlement, TypeOK
<1>2. CASE CancelStale(p)
  BY <1>2, RowsTyped DEF CancelStale, TypeOK
<1>3. ASSUME NEW q \in Payouts, CreateSettled(p, q) PROVE TypeOK'
  <2>1. task' \in [Handlers -> Tasks]
    <3>1. PICK next \in {"process", "fail", "call"} :
            task' = [task EXCEPT ![p].kind = next, ![p].payout = q]
      BY <1>3 DEF CreateSettled
    <3>2. task' = [task EXCEPT ![p] = [task[p] EXCEPT !.kind = next, !.payout = q]]
      BY <3>1 DEF TypeOK
    <3>3. [task[p] EXCEPT !.kind = next, !.payout = q] \in Tasks
      BY <1>0 DEF Tasks
    <3> QED BY <3>2, <3>3 DEF TypeOK
  <2>2. /\ payout' \in [Payouts -> [status : PayoutStatuses, transfer : Keys \cup {None}]]
        /\ wallet' \in [pending : Nat, available : Nat]
    BY <1>3, RowsTyped DEF CreateSettled
  <2> QED BY <1>3, <2>1, <2>2 DEF CreateSettled, TypeOK
<1>4. CASE PayManually(p)
  <2>1. task' \in [Handlers -> Tasks]
    BY <1>4 DEF PayManually
  <2>2. CASE Processable(task[p].payout)
    BY <1>4, <2>1, <2>2, ProcessTyped DEF PayManually, TypeOK
  <2>3. CASE ~Processable(task[p].payout)
    BY <1>4, <2>1, <2>3 DEF PayManually, TypeOK
  <2> QED BY <2>2, <2>3
<1>5. CASE RefuseManual(p) \/ PayAgain(p)
  <2>1. task' \in [Handlers -> Tasks]
    BY <1>5 DEF RefuseManual, PayAgain
  <2> QED BY <1>5, <2>1 DEF RefuseManual, PayAgain, TypeOK
<1>6. CASE CreateSellerPayout(p)
  <2>1. transfer' \in [Keys -> TransferStates]
    BY <1>6 DEF CreateSellerPayout, TypeOK, TransferStates
  <2>2. task' \in [Handlers -> Tasks]
    BY <1>6 DEF CreateSellerPayout
  <2> QED BY <1>6, <2>1, <2>2 DEF CreateSellerPayout, TypeOK
<1>7. CASE RecordTransfer(p)
  <2>1. payout' \in [Payouts -> [status : PayoutStatuses, transfer : Keys \cup {None}]]
    BY <1>0, <1>7 DEF RecordTransfer, TypeOK, PayoutStatuses, Tasks
  <2> QED BY <1>7, <2>1 DEF RecordTransfer, TypeOK
<1>8. CASE retrySettlement(p)
  <2>1. order' \in Orders
    <3>1. order \in Orders
      BY DEF TypeOK
    <3> QED BY <1>8, <3>1, OrderWrites DEF retrySettlement
  <2>2. task' \in [Handlers -> Tasks]
    <3>1. CASE Finish(p)
      BY <3>1
    <3>2. CASE task' = [task EXCEPT ![p].kind = "check", ![p].seen = Nothing]
      <4>1. task' = [task EXCEPT ![p] = [task[p] EXCEPT !.kind = "check", !.seen = Nothing]]
        BY <3>2 DEF TypeOK
      <4>2. [task[p] EXCEPT !.kind = "check", !.seen = Nothing] \in Tasks
        BY <1>0, IdleTyped DEF Tasks
      <4> QED BY <4>1, <4>2 DEF TypeOK
    <3> QED BY <1>8, <3>1, <3>2 DEF retrySettlement
  <2> QED BY <1>8, <2>1, <2>2 DEF retrySettlement, TypeOK
<1>9. CASE CreditTransferred(p)
  <2>1. task' \in [Handlers -> Tasks]
    BY <1>9 DEF CreditTransferred
  <2>2. CASE Processable(task[p].payout)
    BY <1>9, <2>1, <2>2, ProcessTyped DEF CreditTransferred, TypeOK
  <2>3. CASE ~Processable(task[p].payout)
    BY <1>9, <2>1, <2>3 DEF CreditTransferred, TypeOK
  <2> QED BY <2>2, <2>3
<1> QED BY <1>1, <1>2, <1>3, <1>4, <1>5, <1>6, <1>7, <1>8, <1>9

(* A request, a sweep or a webhook starts with a well-formed task.         *)
LEMMA BeginTypes ==
  ASSUME TypeOK, NEW p \in Handlers, Begin(p)
  PROVE  TypeOK'
<1> USE TasksTyped
<1>1. ASSUME NEW q \in Payouts, SettleDelivery(p, q) PROVE TypeOK'
  <2>1. Reading("settle", PayoutSeen) \in Tasks
    BY IdleTyped, SeenTyped DEF TaskKinds
  <2> QED BY <1>1, <2>1, RowsTyped DEF SettleDelivery, TypeOK
<1>2. ASSUME NEW q \in Payouts, NEW s \in Outcomes, handlePayoutWebhook(p, q, s),
             payout[q].transfer # None
      PROVE  TypeOK'
  <2>1. payout' \in [Payouts -> [status : PayoutStatuses, transfer : Keys \cup {None}]]
    BY <1>2 DEF handlePayoutWebhook, TypeOK, PayoutStatuses
  <2>2. told' \subseteq Keys \X Outcomes
    BY <1>2 DEF handlePayoutWebhook, TypeOK
  <2>3. \A kind \in TaskKinds :
          [Idle EXCEPT !.kind = kind, !.mode = "AUTOMATIC", !.payout = q] \in Tasks
    BY IdleTyped, ModesNamed DEF Tasks
  <2>4. task' \in [Handlers -> Tasks]
    BY <1>2, <2>3 DEF handlePayoutWebhook, TaskKinds
  <2> QED BY <1>2, <2>1, <2>2, <2>4 DEF handlePayoutWebhook, TypeOK
<1>3. ASSUME NEW q \in Payouts, ReceiveWebhook(p, q) \/ ReconcileProcessing(p, q)
      PROVE  TypeOK'
  BY <1>2, <1>3 DEF ReceiveWebhook, ReconcileProcessing, Reported
<1>4. ASSUME NEW mode \in Modes, paySettlementRead(p, mode) PROVE TypeOK'
  <2>1. [Idle EXCEPT !.kind = "claim", !.mode = mode] \in Tasks
    BY IdleTyped DEF Tasks, TaskKinds
  <2> QED BY <1>4, <2>1 DEF paySettlementRead, TypeOK
<1>5. ASSUME NEW mode \in Modes, retrySettlementRead(p, mode) PROVE TypeOK'
  <2>1. Reading("reset", ClaimSeen) \in Tasks
    BY IdleTyped, SeenTyped DEF TaskKinds
  <2>2. [Reading("reset", ClaimSeen) EXCEPT !.mode = mode] \in Tasks
    BY <2>1 DEF Tasks
  <2> QED BY <1>5, <2>2 DEF retrySettlementRead, TypeOK
<1>6. CASE markReadySweepRead(p)
  <2>1. Reading("sweep", [Nothing EXCEPT !.state = resolveSettlementState(order)]) \in Tasks
    BY IdleTyped, SeenTyped DEF TaskKinds
  <2> QED BY <1>6, <2>1 DEF markReadySweepRead, TypeOK
<1>7. CASE markReviewedRead(p)
  <2>1. Reading("review", ReviewSeen) \in Tasks
    BY IdleTyped, SeenTyped DEF TaskKinds
  <2> QED BY <1>7, <2>1 DEF markReviewedRead, TypeOK
<1>8. CASE holdSellerPayoutRead(p) \/ releaseSellerPayoutRead(p)
  <2>1. Reading("hold", StateSeen) \in Tasks /\ Reading("release", StateSeen) \in Tasks
    BY IdleTyped, SeenTyped DEF TaskKinds
  <2> QED BY <1>8, <2>1 DEF holdSellerPayoutRead, releaseSellerPayoutRead, TypeOK
<1> QED BY <1>1, <1>3, <1>4, <1>5, <1>6, <1>7, <1>8 DEF Begin

(* Every step keeps the documents and the handlers well formed.            *)
LEMMA TypeStep == TypeOK /\ [Next]_vars => TypeOK'
<1> SUFFICES ASSUME TypeOK, [Next]_vars PROVE TypeOK'
  OBVIOUS
<1>1. ASSUME NEW p \in Handlers, Begin(p) PROVE TypeOK'
  BY <1>1, BeginTypes
<1>2. ASSUME NEW p \in Handlers, Resume(p) PROVE TypeOK'
  BY <1>2, SaveTypes, PaymentTypes DEF Resume
<1>3. ASSUME NEW p \in Handlers, Crash(p) PROVE TypeOK'
  BY <1>3, TasksTyped DEF Crash, TypeOK
<1>4. ASSUME NEW q \in Payouts, ProcessAtDesk(q) PROVE TypeOK'
  BY <1>4, ProcessTyped DEF ProcessAtDesk, TypeOK
<1>5. ASSUME NEW k \in Keys, TransferEnds(k) PROVE TypeOK'
  <2>1. transfer' \in [Keys -> TransferStates]
    BY <1>5 DEF TransferEnds, TypeOK, TransferStates
  <2> QED BY <1>5, <2>1 DEF TransferEnds, TypeOK
<1>6. CASE Complain \/ WindowCloses
  BY <1>6, ComplaintTypes
<1>7. CASE UNCHANGED vars
  BY <1>7 DEF vars, TypeOK
<1> QED BY <1>1, <1>2, <1>3, <1>4, <1>5, <1>6, <1>7 DEF Next

(* The order, its payouts, the wallet and the handlers in flight are well  *)
(* formed in every reachable state, whatever is paid how.                  *)
THEOREM SettlementTyped == Spec => []TypeOK
<1>1. Init => TypeOK
  <2> SUFFICES ASSUME Init PROVE TypeOK
    OBVIOUS
  <2>1. order \in Orders
    BY DEF Init, NewOrder, Orders, States, Modes
  <2>2. payout \in [Payouts -> [status : PayoutStatuses, transfer : Keys \cup {None}]]
    BY DEF Init, PayoutStatuses
  <2>3. task \in [Handlers -> Tasks]
    BY IdleTyped DEF Init
  <2>4. wallet \in [pending : Nat, available : Nat] /\ transfer \in [Keys -> TransferStates]
    BY DEF Init, TransferStates
  <2>5. told \subseteq Keys \X Outcomes /\ setting \in Settings
    BY DEF Init
  <2> QED BY <2>1, <2>2, <2>3, <2>4, <2>5 DEF TypeOK
<1> QED BY <1>1, TypeStep, PTL DEF Spec

-----------------------------------------------------------------------------
(* Payment by hand.                                                        *)

(* What a step may do to rows and wallet.                                  *)
Creates(q) ==
  /\ Standing = {} /\ payout[q].status = "none"
  /\ payout' = [payout EXCEPT ![q].status = "PENDING"]
  /\ wallet' = [wallet EXCEPT !.pending = @ + 1]
Cancels(q) ==
  /\ q \in Open
  /\ payout' = [payout EXCEPT ![q].status = "CANCELLED"]
  /\ wallet' = [wallet EXCEPT !.pending = Less(@)]
Pays(q) ==
  /\ q \in Open
  /\ payout' = [payout EXCEPT ![q].status = "COMPLETED"]
  /\ wallet' = [pending |-> Less(wallet.pending), available |-> wallet.available + 1]
RowStep ==
  \/ UNCHANGED <<payout, wallet>>
  \/ \E q \in Payouts : Creates(q) \/ Cancels(q) \/ Pays(q)

(* The steps of a handler that works by hand are row steps, and none of    *)
(* them touches the gateway.                                               *)
LEMMA HandSteps ==
  ASSUME HandSetting, HandInv, [Next]_vars
  PROVE  RowStep /\ NoTransfers'
<1> USE DEF HandInv
<1>0. setting.modes \subseteq {"MANUAL"}
  BY DEF HandSetting, ByHandOnly
<1>1. \A q \in Payouts : createPendingPayoutForOrder(q) => RowStep
  BY DEF createPendingPayoutForOrder, RowStep, Creates
<1>2. cancelPendingPayoutForOrder => RowStep
  BY DEF cancelPendingPayoutForOrder, RowStep, Cancels, Open
<1>3. \A q : processPayout(q) => RowStep
  BY DEF processPayout, Processable, RowStep, Pays, Open
<1>4. RowStep
  <2>1. ASSUME NEW p \in Handlers, Begin(p) PROVE RowStep
    <3>1. \A q \in Payouts : ~ReceiveWebhook(p, q) /\ ~ReconcileProcessing(p, q)
      BY DEF ReceiveWebhook, Reported, ReconcileProcessing, NoTransfers
    <3> QED BY <1>1, <2>1, <3>1 DEF Begin, SettleDelivery, paySettlementRead,
            retrySettlementRead, markReadySweepRead, markReviewedRead,
            holdSellerPayoutRead, releaseSellerPayoutRead, RowStep
  <2>2. ASSUME NEW p \in Handlers, Resume(p) PROVE RowStep
    <3>1. ~CreateSellerPayout(p) /\ ~RecordTransfer(p) /\ ~CreditTransferred(p)
      BY DEF CreateSellerPayout, RecordTransfer, CreditTransferred, Busy, NoTransfers
    <3>2. CASE CancelStale(p) \/ \E q \in Payouts : CreateSettled(p, q)
      BY <1>1, <1>2, <3>2 DEF CancelStale, CreateSettled
    <3>3. CASE PayManually(p)
      BY <1>3, <3>3 DEF PayManually, RowStep
    <3>4. CASE \/ settleDeliveredOrder(p) \/ markReadySweep(p) \/ markReviewed(p)
               \/ holdSellerPayout(p) \/ releaseSellerPayout(p) \/ ClaimSettlement(p)
               \/ RefuseManual(p) \/ failSettlement(p) \/ finalizeSettlement(p)
               \/ retrySettlement(p) \/ PayAgain(p)
      BY <3>4 DEF settleDeliveredOrder, markReadySweep, markReviewed, holdSellerPayout,
         releaseSellerPayout, ClaimSettlement, RefuseManual, failSettlement,
         finalizeSettlement, retrySettlement, PayAgain, RowStep
    <3> QED BY <2>2, <3>1, <3>2, <3>3, <3>4 DEF Resume
  <2>3. ASSUME NEW q \in Payouts, ProcessAtDesk(q) PROVE RowStep
    BY <1>3, <2>3 DEF ProcessAtDesk
  <2>4. ASSUME \/ \E p \in Handlers : Crash(p)
               \/ \E k \in Keys : TransferEnds(k)
               \/ Complain \/ WindowCloses \/ UNCHANGED vars
        PROVE  RowStep
    BY <2>4 DEF Crash, TransferEnds, Complain, WindowCloses, vars, RowStep
  <2> QED BY <2>1, <2>2, <2>3, <2>4 DEF Next
<1>5. \A q \in Payouts : payout'[q].transfer = None
  BY <1>4 DEF RowStep, Creates, Cancels, Pays, NoTransfers, TypeOK
<1>6. \A k \in Keys : transfer'[k] = "none"
  <2>1. ASSUME NEW p \in Handlers, Begin(p) PROVE UNCHANGED transfer
    BY <2>1 DEF Begin, SettleDelivery, ReceiveWebhook, ReconcileProcessing,
       handlePayoutWebhook, paySettlementRead, retrySettlementRead, markReadySweepRead,
       markReviewedRead, holdSellerPayoutRead, releaseSellerPayoutRead
  <2>2. ASSUME NEW p \in Handlers, Resume(p) PROVE UNCHANGED transfer
    <3>1. ~CreateSellerPayout(p)
      BY DEF CreateSellerPayout, Busy, NoTransfers
    <3> QED BY <2>2, <3>1 DEF Resume, settleDeliveredOrder, markReadySweep, markReviewed,
            holdSellerPayout, releaseSellerPayout, ClaimSettlement, CancelStale,
            CreateSettled, PayManually, RefuseManual, failSettlement, finalizeSettlement,
            RecordTransfer, retrySettlement, PayAgain, CreditTransferred
  <2>3. ASSUME NEW k \in Keys, TransferEnds(k) PROVE FALSE
    BY <2>3 DEF TransferEnds, NoTransfers
  <2>4. ASSUME \/ \E p \in Handlers : Crash(p)
               \/ \E q \in Payouts : ProcessAtDesk(q)
               \/ Complain \/ WindowCloses \/ UNCHANGED vars
        PROVE  UNCHANGED transfer
    BY <2>4 DEF Crash, ProcessAtDesk, Complain, WindowCloses, vars
  <2> QED BY <2>1, <2>2, <2>3, <2>4 DEF Next, NoTransfers
<1>7. ASSUME NEW r \in Handlers
      PROVE  task'[r].mode = "MANUAL" /\ task'[r].kind \notin {"call", "record", "credit"}
  <2> DEFINE ByHand(t) == t.mode = "MANUAL" /\ t.kind \notin {"call", "record", "credit"}
  <2>0. /\ ByHand(task[r]) /\ ByHand(Idle) /\ task \in [Handlers -> Tasks]
        /\ \A seen \in Seen, kind \in {"settle", "sweep", "review", "hold", "release", "reset"} :
             ByHand(Reading(kind, seen))
    BY DEF NoTransfers, Idle, Reading, TypeOK
  <2>1. ASSUME NEW p \in Handlers, Begin(p) PROVE ByHand(task'[r])
    <3>1. \A q \in Payouts : ~ReceiveWebhook(p, q) /\ ~ReconcileProcessing(p, q)
      BY DEF ReceiveWebhook, Reported, ReconcileProcessing, NoTransfers
    <3>2. ASSUME NEW q \in Payouts, SettleDelivery(p, q) PROVE ByHand(task'[r])
      BY <2>0, <3>2, SeenTyped DEF SettleDelivery, Start
    <3>3. ASSUME NEW mode \in Modes, paySettlementRead(p, mode) PROVE ByHand(task'[r])
      <4>1. mode = "MANUAL"
        BY <1>0, <3>3 DEF paySettlementRead
      <4>2. ByHand([Idle EXCEPT !.kind = "claim", !.mode = mode])
        BY <4>1 DEF Idle
      <4> QED BY <2>0, <3>3, <4>2 DEF paySettlementRead, Start
    <3>4. ASSUME NEW mode \in Modes, retrySettlementRead(p, mode) PROVE ByHand(task'[r])
      <4>1. mode = "MANUAL"
        BY <1>0, <3>4 DEF retrySettlementRead
      <4>2. ByHand([Reading("reset", ClaimSeen) EXCEPT !.mode = mode])
        BY <4>1 DEF Idle, Reading
      <4> QED BY <2>0, <3>4, <4>2 DEF retrySettlementRead, Start
    <3>5. CASE \/ markReadySweepRead(p) \/ markReviewedRead(p)
               \/ holdSellerPayoutRead(p) \/ releaseSellerPayoutRead(p)
      BY <2>0, <3>5, SeenTyped DEF markReadySweepRead, markReviewedRead,
         holdSellerPayoutRead, releaseSellerPayoutRead, Start
    <3> QED BY <2>1, <3>1, <3>2, <3>3, <3>4, <3>5 DEF Begin
  <2>2. ASSUME NEW p \in Handlers, Resume(p) PROVE ByHand(task'[r])
    <3>1. task[p].mode = "MANUAL" /\ ~CreateSellerPayout(p) /\ ~RecordTransfer(p)
          /\ ~CreditTransferred(p)
      BY DEF CreateSellerPayout, RecordTransfer, CreditTransferred, Busy, NoTransfers
    <3>2. ASSUME Finish(p) PROVE ByHand(task'[r])
      BY <2>0, <3>2 DEF Finish
    <3>3. ASSUME NEW kind \in {"create", "finalize", "refused", "fail", "claim"},
                 Continue(p, kind)
          PROVE  ByHand(task'[r])
      BY <2>0, <3>3 DEF Continue, Tasks
    <3>4. CASE ClaimSettlement(p)
      <4>1. Finish(p) \/ \E k \in Keys : task' = [task EXCEPT ![p].kind = "cancel", ![p].key = k]
        BY <3>4 DEF ClaimSettlement
      <4>2. ASSUME NEW k \in Keys, task' = [task EXCEPT ![p].kind = "cancel", ![p].key = k]
            PROVE  ByHand(task'[r])
        BY <2>0, <4>2 DEF Tasks
      <4> QED BY <3>2, <4>1, <4>2
    <3>5. ASSUME NEW q \in Payouts, CreateSettled(p, q) PROVE ByHand(task'[r])
      BY <2>0, <3>1, <3>5 DEF CreateSettled, Tasks
    <3>6. CASE retrySettlement(p)
      BY <2>0, <3>2, <3>6 DEF retrySettlement, Tasks
    <3>7. CASE CancelStale(p) \/ PayManually(p) \/ RefuseManual(p) \/ PayAgain(p)
      BY <3>2, <3>3, <3>7 DEF CancelStale, PayManually, RefuseManual, PayAgain
    <3>8. CASE \/ settleDeliveredOrder(p) \/ markReadySweep(p) \/ markReviewed(p)
               \/ holdSellerPayout(p) \/ releaseSellerPayout(p)
               \/ failSettlement(p) \/ finalizeSettlement(p)
      BY <3>2, <3>8 DEF settleDeliveredOrder, markReadySweep, markReviewed,
         holdSellerPayout, releaseSellerPayout, failSettlement, finalizeSettlement
    <3> QED BY <2>2, <3>1, <3>4, <3>5, <3>6, <3>7, <3>8 DEF Resume
  <2>3. ASSUME NEW p \in Handlers, Crash(p) PROVE ByHand(task'[r])
    BY <2>0, <2>3 DEF Crash, Finish
  <2>4. ASSUME \/ \E k \in Keys : TransferEnds(k)
               \/ \E q \in Payouts : ProcessAtDesk(q)
               \/ Complain \/ WindowCloses \/ UNCHANGED vars
        PROVE  ByHand(task'[r])
    BY <2>0, <2>4 DEF TransferEnds, ProcessAtDesk, Complain, WindowCloses, vars
  <2> QED BY <2>1, <2>2, <2>3, <2>4 DEF Next
<1> QED BY <1>4, <1>5, <1>6, <1>7 DEF NoTransfers

(* The row that stands and the wallet follow the steps.                    *)
LEMMA RowsKept ==
  ASSUME TypeOK, OneRow, RowStep
  PROVE  OneRow' /\ (Paid # {} => Paid' # {} /\ UNCHANGED <<payout, wallet>>)
<1> USE DEF TypeOK, Standing, Paid, Open
<1>1. CASE UNCHANGED <<payout, wallet>>
  BY <1>1 DEF OneRow
<1>2. ASSUME NEW q \in Payouts, Creates(q)
      PROVE  OneRow' /\ Paid = {}
  <2>1. Standing' = {q} /\ payout'[q].status = "PENDING" /\ Paid = {}
    BY <1>2 DEF Creates
  <2>2. wallet'.pending = 1 /\ wallet'.available = 0
    BY <1>2 DEF Creates, OneRow
  <2> QED BY <2>1, <2>2 DEF OneRow
<1>3. ASSUME NEW q \in Payouts, Cancels(q) \/ Pays(q)
      PROVE  OneRow' /\ Paid = {}
  <2>1. Standing = {q} /\ wallet.pending = 1 /\ wallet.available = 0 /\ Paid = {}
    BY <1>3 DEF Cancels, Pays, OneRow
  <2>2. CASE Cancels(q)
    <3>1. Standing' = {} /\ wallet'.pending = 0 /\ wallet'.available = 0
      BY <2>1, <2>2 DEF Cancels, Less
    <3> HIDE DEF TypeOK, Standing
    <3> QED BY <2>1, <3>1 DEF OneRow
  <2>3. CASE Pays(q)
    <3>1. Standing' = {q} /\ payout'[q].status = "COMPLETED"
      BY <2>1, <2>3 DEF Pays
    <3>2. wallet'.pending = 0 /\ wallet'.available = 1
      BY <2>1, <2>3 DEF Pays, Less
    <3> HIDE DEF TypeOK, Standing
    <3> QED BY <2>1, <3>1, <3>2 DEF OneRow
  <2> QED BY <1>3, <2>1, <2>2, <2>3
<1> QED BY <1>1, <1>2, <1>3 DEF RowStep

(* Locks follow payments: whoever writes one back has seen the row paid,   *)
(* and a paid row stays paid (finalizeSettlement, markReviewed).           *)
LEMMA LocksKept ==
  ASSUME TypeOK, LocksPaid, [Next]_vars, Paid # {} => Paid' # {}
  PROVE  LocksPaid'
<1>0. /\ order \in Orders /\ task \in [Handlers -> Tasks]
      /\ order.locked => Paid # {}
      /\ \A p \in Handlers : task[p].kind = "finalize" \/ task[p].seen.locked => Paid # {}
      /\ Idle.kind # "finalize" /\ ~Idle.seen.locked
  BY DEF TypeOK, LocksPaid, LockedIsPaid, Idle, Nothing
<1>1. order'.locked => Paid' # {}
  <2> DEFINE Honest == order'.locked => order.locked \/ Paid # {}
  <2>0. order' = order => Honest
    OBVIOUS
  <2>1. ASSUME NEW p \in Handlers, Begin(p) PROVE Honest
    BY <2>0, <2>1 DEF Begin, SettleDelivery, ReceiveWebhook, ReconcileProcessing,
       handlePayoutWebhook, paySettlementRead, retrySettlementRead, markReadySweepRead,
       markReviewedRead, holdSellerPayoutRead, releaseSellerPayoutRead
  <2>2. ASSUME NEW p \in Handlers, Resume(p)
        PROVE  Honest
    <3>1. CASE markReviewed(p)
      BY <1>0, <3>1 DEF markReviewed, Orders
    <3>2. CASE finalizeSettlement(p)
      BY <1>0, <3>2 DEF finalizeSettlement, Busy
    <3>3. CASE settleDeliveredOrder(p)
      BY <1>0, <3>3 DEF settleDeliveredOrder, Orders
    <3>4. CASE \/ markReadySweep(p) \/ holdSellerPayout(p) \/ releaseSellerPayout(p)
               \/ failSettlement(p) \/ retrySettlement(p)
      BY <1>0, <3>4 DEF markReadySweep, holdSellerPayout, releaseSellerPayout,
         failSettlement, retrySettlement, Orders
    <3>5. CASE ClaimSettlement(p)
      BY <1>0, <3>5 DEF ClaimSettlement, Orders
    <3>6. CASE PayManually(p) \/ CreditTransferred(p)
      BY <1>0, <3>6 DEF PayManually, CreditTransferred, processPayout, Orders
    <3>7. CASE \/ CancelStale(p) \/ (\E q \in Payouts : CreateSettled(p, q))
               \/ RefuseManual(p) \/ CreateSellerPayout(p) \/ RecordTransfer(p) \/ PayAgain(p)
      BY <3>7 DEF CancelStale, CreateSettled, RefuseManual, CreateSellerPayout,
         RecordTransfer, PayAgain
    <3> QED BY <2>2, <3>1, <3>2, <3>3, <3>4, <3>5, <3>6, <3>7 DEF Resume
  <2>3. ASSUME NEW q \in Payouts, ProcessAtDesk(q) PROVE Honest
    BY <1>0, <2>3 DEF ProcessAtDesk, processPayout, Orders
  <2>4. ASSUME Complain PROVE Honest
    <3>1. holdSettlement.locked = order.locked /\ releaseSettlement.locked = order.locked
          /\ holdSettlement \in Orders /\ releaseSettlement \in Orders
      BY <1>0, HoldTyped DEF holdSettlement, releaseSettlement, Orders
    <3>2. order'.locked = order.locked
      BY <1>0, <2>4, <3>1 DEF Complain, RaiseComplaint, ApproveComplaint, ReassignComplaint,
         RefundComplaint, CloseComplaint, Orders
    <3> QED BY <1>0, <3>2
  <2>5. ASSUME WindowCloses PROVE Honest
    BY <1>0, <2>5 DEF WindowCloses, Orders
  <2>6. ASSUME \/ \E p \in Handlers : Crash(p)
               \/ \E k \in Keys : TransferEnds(k)
               \/ UNCHANGED vars
        PROVE  Honest
    BY <2>0, <2>6 DEF Crash, TransferEnds, vars
  <2>7. Honest
    <3> HIDE DEF Honest
    <3> QED BY <2>1, <2>2, <2>3, <2>4, <2>5, <2>6 DEF Next
  <2> QED BY <1>0, <2>7
<1>2. ASSUME NEW r \in Handlers, task'[r].kind = "finalize" \/ task'[r].seen.locked
      PROVE  Paid' # {}
  <2> DEFINE Cautious(t) == t.kind = "finalize" \/ t.seen.locked => Paid # {}
  <2>0. /\ Cautious(task[r]) /\ Cautious(Idle)
        /\ \A kind \in {"claim", "reset"}, mode \in Modes :
             Cautious([Idle EXCEPT !.kind = kind, !.mode = mode])
    BY <1>0 DEF Idle
  <2>1. ASSUME NEW p \in Handlers, Begin(p) PROVE Cautious(task'[r])
    <3>1. ASSUME NEW q \in Payouts, NEW s, handlePayoutWebhook(p, q, s)
          PROVE  Cautious(task'[r])
      <4>1. \A kind \in {"fail", "credit"} :
              Cautious([Idle EXCEPT !.kind = kind, !.mode = "AUTOMATIC", !.payout = q])
        BY <1>0 DEF Idle
      <4>2. payout[q].status = "COMPLETED"
              => Cautious([Idle EXCEPT !.kind = "finalize", !.mode = "AUTOMATIC", !.payout = q])
        BY DEF Paid
      <4> HIDE DEF Cautious
      <4> QED BY <1>0, <2>0, <3>1, <4>1, <4>2 DEF handlePayoutWebhook, Start
    <3>2. /\ Cautious(Reading("settle", PayoutSeen)) /\ Cautious(Reading("review", ReviewSeen))
          /\ Cautious(Reading("hold", StateSeen)) /\ Cautious(Reading("release", StateSeen))
          /\ Cautious(Reading("sweep", [Nothing EXCEPT !.state = resolveSettlementState(order)]))
      BY <1>0 DEF Reading, Idle, Nothing, PayoutSeen, ReviewSeen, StateSeen
    <3>3. \A mode : /\ Cautious([Idle EXCEPT !.kind = "claim", !.mode = mode])
                    /\ Cautious([Reading("reset", ClaimSeen) EXCEPT !.mode = mode])
      BY <1>0 DEF Reading, Idle, Nothing, ClaimSeen
    <3>4. ASSUME NEW t, Start(p, t), Cautious(t) PROVE Cautious(task'[r])
      BY <1>0, <2>0, <3>4 DEF Start
    <3> HIDE DEF Cautious
    <3> QED BY <2>1, <3>1, <3>2, <3>3, <3>4 DEF Begin, SettleDelivery, paySettlementRead,
            retrySettlementRead, markReadySweepRead, markReviewedRead,
            holdSellerPayoutRead, releaseSellerPayoutRead, ReceiveWebhook, ReconcileProcessing
  <2>2. ASSUME NEW p \in Handlers, Resume(p) PROVE Cautious(task'[r]) \/ Paid' # {}
    <3>2. ASSUME Finish(p) PROVE Cautious(task'[r])
      BY <1>0, <2>0, <3>2 DEF Finish
    <3>3. ASSUME NEW kind \in {"create", "refused", "fail", "claim", "record"}, Continue(p, kind)
          PROVE  Cautious(task'[r])
      BY <1>0, <3>3 DEF Continue, Tasks
    <3>4. CASE ClaimSettlement(p)
      <4>1. Finish(p) \/ \E k \in Keys : task' = [task EXCEPT ![p].kind = "cancel", ![p].key = k]
        BY <3>4 DEF ClaimSettlement
      <4>2. ASSUME NEW k \in Keys, task' = [task EXCEPT ![p].kind = "cancel", ![p].key = k]
            PROVE  Cautious(task'[r])
        BY <1>0, <4>2 DEF Tasks
      <4> QED BY <3>2, <4>1, <4>2
    <3>5. ASSUME NEW q \in Payouts, CreateSettled(p, q) PROVE Cautious(task'[r])
      <4>1. PICK next \in {"process", "fail", "call"} :
              task' = [task EXCEPT ![p].kind = next, ![p].payout = q]
        BY <3>5 DEF CreateSettled
      <4> QED BY <1>0, <4>1 DEF Tasks
    <3>6. CASE retrySettlement(p)
      <4>1. Finish(p) \/ task' = [task EXCEPT ![p].kind = "check", ![p].seen = Nothing]
        BY <3>6 DEF retrySettlement
      <4>2. ASSUME task' = [task EXCEPT ![p].kind = "check", ![p].seen = Nothing]
            PROVE  Cautious(task'[r])
        BY <1>0, <4>2 DEF Tasks, Nothing
      <4> QED BY <3>2, <4>1, <4>2
    <3>7. CASE CancelStale(p) \/ RefuseManual(p) \/ PayAgain(p)
      BY <3>2, <3>3, <3>7 DEF CancelStale, RefuseManual, PayAgain
    <3>8. CASE PayManually(p) \/ CreditTransferred(p)
      <4>1. CASE Processable(task[p].payout)
        BY <3>8, <4>1 DEF PayManually, CreditTransferred, processPayout, Processable, Open,
           Paid, TypeOK
      <4> QED BY <3>2, <3>3, <3>8, <4>1 DEF PayManually, CreditTransferred
    <3>1. CASE CreateSellerPayout(p) \/ RecordTransfer(p)
      BY <3>1, <3>2, <3>3 DEF CreateSellerPayout, RecordTransfer
    <3>9. CASE \/ settleDeliveredOrder(p) \/ markReadySweep(p) \/ markReviewed(p)
               \/ holdSellerPayout(p) \/ releaseSellerPayout(p)
               \/ failSettlement(p) \/ finalizeSettlement(p)
      BY <3>2, <3>9 DEF settleDeliveredOrder, markReadySweep, markReviewed,
         holdSellerPayout, releaseSellerPayout, failSettlement, finalizeSettlement
    <3> QED BY <2>2, <3>1, <3>4, <3>5, <3>6, <3>7, <3>8, <3>9 DEF Resume
  <2>3. ASSUME NEW p \in Handlers, Crash(p) PROVE Cautious(task'[r])
    BY <1>0, <2>0, <2>3 DEF Crash, Finish
  <2>4. ASSUME \/ \E k \in Keys : TransferEnds(k)
               \/ \E q \in Payouts : ProcessAtDesk(q)
               \/ Complain \/ WindowCloses \/ UNCHANGED vars
        PROVE  Cautious(task'[r])
    BY <2>0, <2>4 DEF TransferEnds, ProcessAtDesk, Complain, WindowCloses, vars
  <2>5. Cautious(task'[r]) \/ Paid' # {}
    <3> HIDE DEF Cautious
    <3> QED BY <2>1, <2>2, <2>3, <2>4 DEF Next
  <2> QED BY <1>2, <2>5
<1> QED BY <1>1, <1>2 DEF LocksPaid, LockedIsPaid

(* The setting never changes.                                              *)
LEMMA SettingKept == [Next]_vars => setting' = setting
<1> SUFFICES ASSUME [Next]_vars PROVE setting' = setting
  OBVIOUS
<1>1. ASSUME NEW p \in Handlers, Begin(p) \/ Crash(p) PROVE setting' = setting
  BY <1>1 DEF Begin, Crash, SettleDelivery, ReceiveWebhook, ReconcileProcessing,
     handlePayoutWebhook, paySettlementRead, retrySettlementRead, markReadySweepRead,
     markReviewedRead, holdSellerPayoutRead, releaseSellerPayoutRead
<1>2. ASSUME NEW p \in Handlers, Resume(p) PROVE setting' = setting
  BY <1>2 DEF Resume, settleDeliveredOrder, markReadySweep, markReviewed, holdSellerPayout,
     releaseSellerPayout, ClaimSettlement, CancelStale, CreateSettled, PayManually,
     RefuseManual, failSettlement, finalizeSettlement, CreateSellerPayout, RecordTransfer,
     retrySettlement, PayAgain, CreditTransferred
<1>3. ASSUME \/ \E q \in Payouts : ProcessAtDesk(q)
             \/ \E k \in Keys : TransferEnds(k)
             \/ Complain \/ WindowCloses \/ UNCHANGED vars
      PROVE  setting' = setting
  BY <1>3 DEF ProcessAtDesk, TransferEnds, Complain, WindowCloses, vars
<1> QED BY <1>1, <1>2, <1>3 DEF Next

(* The rows, the wallet and the locks of a settlement paid by hand.        *)
LEMMA HandInvariant == Spec => [](HandSetting => HandInv)
<1>1. Init /\ TypeOK => HandInv
  <2> SUFFICES ASSUME Init, TypeOK PROVE HandInv
    OBVIOUS
  <2>1. NoTransfers
    BY DEF Init, NoTransfers, Idle
  <2>2. OneRow
    BY DEF Init, OneRow, Standing
  <2>3. LocksPaid
    BY DEF Init, LocksPaid, LockedIsPaid, NewOrder, Idle, Nothing
  <2> QED BY <2>1, <2>2, <2>3 DEF HandInv
<1>2. (HandSetting => HandInv) /\ [Next]_vars /\ TypeOK'
        => (HandSetting => HandInv)'
  <2> SUFFICES ASSUME HandSetting => HandInv, [Next]_vars, TypeOK',
                      HandSetting'
               PROVE  HandInv'
    OBVIOUS
  <2>0. HandSetting /\ HandInv
    BY SettingKept DEF HandSetting, ByHandOnly
  <2>1. RowStep /\ NoTransfers'
    BY <2>0, HandSteps
  <2>2. OneRow' /\ (Paid # {} => Paid' # {})
    BY <2>0, <2>1, RowsKept DEF HandInv
  <2>3. LocksPaid'
    BY <2>0, <2>2, LocksKept DEF HandInv
  <2> QED BY <2>1, <2>2, <2>3 DEF HandInv
<1> QED BY <1>1, <1>2, SettlementTyped, PTL DEF Spec

-----------------------------------------------------------------------------
(* Payment through the gateway.  A claim has one owner from ClaimSettlement *)
(* on: the handler that pays, then the row that waits for the transfer,    *)
(* then whoever reports its failure, and only that report gives it up.     *)

ClaimKinds == {"cancel", "create", "call", "process", "refused", "record"}
Acting(p) == task[p].key # None \/ task[p].kind = "fail"
Passive(t) == t.key = None /\ t.kind \notin ClaimKinds \cup {"fail", "credit"}

NothingSent == \A k \in Keys : transfer[k] \in {"none", "failed"}
NoneProcessing == \A q \in Payouts : payout[q].status # "PROCESSING"

(* What is so while p works on a claim or reports its failure.             *)
Owns(p) ==
  /\ order.key # None /\ task[p].key \in {None, order.key}
  /\ \A r \in Handlers : Acting(r) => r = p
  /\ task[p].kind \in ClaimKinds \cup {"fail", "finalize"}
  /\ NoneProcessing
  /\ task[p].kind # "finalize" => Paid = {}
  /\ task[p].kind # "record" => NothingSent
  /\ task[p].kind \in {"cancel", "create", "call"} => transfer[order.key] = "none"
  /\ task[p].kind = "record" => transfer[order.key] # "none"
  /\ task[p].kind \in ClaimKinds \ {"cancel", "create"} => task[p].payout \in Standing
  /\ task[p].kind \in {"call", "record"} => task[p].mode = "AUTOMATIC"
  /\ task[p].key # None /\ order.state = "PAYING" => order.mode = task[p].mode

ClaimsOwned ==
  \A p \in Handlers : /\ Acting(p) => Owns(p)
                      /\ task[p].kind \in ClaimKinds => task[p].key # None

(* Only the transfer of the claim may be under way or have succeeded.      *)
UnclaimedIsUnsent == order.key = None => Paid = {} /\ NoneProcessing /\ NothingSent
SentForClaim ==
  \A k \in Keys : /\ transfer[k] # "reversed"
                  /\ transfer[k] \in {"processing", "processed"} => k = order.key

(* What a row says of its transfer.                                        *)
RowRight(q) ==
  LET t == payout[q].transfer IN
  /\ payout[q].status \in {"none", "PENDING", "CANCELLED"} => t = None
  /\ payout[q].status = "PROCESSING" => t # None /\ t = order.key /\ transfer[t] # "none"
  /\ payout[q].status = "COMPLETED" =>
       IF t = None THEN NothingSent ELSE transfer[t] = "processed"
  /\ payout[q].status = "FAILED" =>
       t # None /\ transfer[t] = "failed" /\ <<t, "failed">> \in told
RowsRight == \A q \in Payouts : RowRight(q)

CreditRight(p) ==
  task[p].kind = "credit" =>
    /\ task[p].payout # None /\ payout[task[p].payout].transfer # None
    /\ transfer[payout[task[p].payout].transfer] = "processed"
CreditsRight == \A p \in Handlers : CreditRight(p)

(* A settlement that failed is claimed by nobody; one being paid by hand   *)
(* has the handler that pays it, so that no retry takes its claim away.    *)
StateRight ==
  /\ order.state = "FAILED" => order.key = None
  /\ order.state = "PAYING" =>
       ~order.locked /\ (order.mode = "AUTOMATIC" \/ \E p \in Handlers : task[p].key # None)

TaskRight(t) ==
  /\ t.kind = "reset" => t.seen.state = "FAILED"
  /\ t.kind = "sweep" => t.seen.state \notin {"FAILED", "PAYING"}
  /\ t.kind \in {"claim", "check", "reset"} \/ t.key # None => t.mode \in setting.modes
TasksRight == \A p \in Handlers : TaskRight(task[p])

Gate ==
  /\ ClaimsOwned /\ UnclaimedIsUnsent /\ SentForClaim /\ RowsRight
  /\ CreditsRight /\ StateRight /\ TasksRight
GateInv == TypeOK /\ OneRow /\ LocksPaid /\ Gate

(* A row about to be credited is with the gateway or paid.                 *)
LEMMA CreditedRow ==
  ASSUME TypeOK, Gate, NEW p \in Handlers, task[p].kind = "credit"
  PROVE  /\ task[p].payout \in Payouts
         /\ payout[task[p].payout].transfer \in Keys
         /\ transfer[payout[task[p].payout].transfer] = "processed"
         /\ payout[task[p].payout].status \in {"PROCESSING", "COMPLETED"}
<1> DEFINE q == task[p].payout
<1>1. task[p] \in Tasks /\ CreditRight(p)
  BY DEF TypeOK, Gate, CreditsRight
<1>2. q \in Payouts /\ payout[q].transfer # None
      /\ transfer[payout[q].transfer] = "processed"
  BY <1>1 DEF CreditRight, Tasks
<1>3. payout[q].transfer \in Keys /\ payout[q].status \in PayoutStatuses
  BY <1>2 DEF TypeOK
<1>4. RowRight(q)
  BY <1>2 DEF Gate, RowsRight
<1>5. payout[q].status \in {"PROCESSING", "COMPLETED"}
  BY <1>2, <1>3, <1>4 DEF RowRight, PayoutStatuses
<1> QED BY <1>2, <1>3, <1>5

(* So nobody credits while nothing is paid or with the gateway.            *)
LEMMA NobodyCredits ==
  ASSUME TypeOK, Gate, Paid = {}, NoneProcessing
  PROVE  \A p \in Handlers : task[p].kind # "credit"
  BY CreditedRow DEF Paid, NoneProcessing

(* While a row is with the gateway, or one it paid is credited, nobody has *)
(* the claim in hand.                                                      *)
LEMMA NobodyActs ==
  ASSUME TypeOK, Gate,
         ~NoneProcessing \/ \E p \in Handlers : task[p].kind = "credit"
  PROVE  \A r \in Handlers : ~Acting(r)
<1> SUFFICES ASSUME NEW r \in Handlers, Acting(r) PROVE FALSE
  OBVIOUS
<1>1. Owns(r)
  BY DEF Gate, ClaimsOwned
<1>2. PICK p \in Handlers : task[p].kind = "credit"
  BY <1>1 DEF Owns
<1>3. transfer[payout[task[p].payout].transfer] = "processed"
      /\ payout[task[p].payout].transfer \in Keys
      /\ task[p].payout \in Payouts
      /\ payout[task[p].payout].status \in {"PROCESSING", "COMPLETED"}
  BY <1>2, CreditedRow
<1>4. ~NothingSent
  BY <1>3 DEF NothingSent
<1>5. Paid = {}
  BY <1>1, <1>4 DEF Owns
<1>6. NoneProcessing
  BY <1>1 DEF Owns
<1> QED BY <1>3, <1>5, <1>6 DEF Paid, NoneProcessing

(* Steps that leave claim, transfers and owner alone.                      *)
OrderKept ==
  /\ order'.key = order.key /\ order'.locked = order.locked
  /\ order'.state \in {"FAILED", "PAYING"} => order'.state = order.state
                                              /\ order'.mode = order.mode
RowsKeptOrMade ==
  \/ payout' = payout
  \/ \E q \in Payouts : /\ payout[q].status = "none"
                        /\ payout' = [payout EXCEPT ![q].status = "PENDING"]
TasksKept ==
  \A r \in Handlers : \/ task'[r] = task[r]
                      \/ Passive(task[r]) /\ Passive(task'[r]) /\ TaskRight(task'[r])
QuietStep == OrderKept /\ RowsKeptOrMade /\ TasksKept /\ UNCHANGED <<transfer, told, setting>>

(* What a new row changes: nothing of what was paid, sent or failed.       *)
LEMMA QuietRows ==
  ASSUME TypeOK, RowsKeptOrMade
  PROVE  /\ Paid' = Paid /\ Standing \subseteq Standing'
         /\ NoneProcessing' <=> NoneProcessing
         /\ \A q \in Payouts : /\ payout'[q].transfer = payout[q].transfer
                               /\ \/ payout'[q].status = payout[q].status
                                  \/ payout[q].status = "none" /\ payout'[q].status = "PENDING"
<1>1. \A q \in Payouts : /\ payout'[q].transfer = payout[q].transfer
                         /\ \/ payout'[q].status = payout[q].status
                            \/ payout[q].status = "none" /\ payout'[q].status = "PENDING"
  BY DEF TypeOK, RowsKeptOrMade
<1> QED BY <1>1 DEF Paid, Standing, NoneProcessing

LEMMA QuietKept ==
  ASSUME TypeOK, Gate, QuietStep
  PROVE  Gate'
<1>1. /\ OrderKept /\ TasksKept /\ UNCHANGED <<transfer, told, setting>>
      /\ Paid' = Paid /\ Standing \subseteq Standing'
      /\ NoneProcessing' <=> NoneProcessing
  BY QuietRows DEF QuietStep
<1>2. NothingSent' <=> NothingSent
  BY <1>1 DEF NothingSent
<1>3. \A r \in Handlers : /\ Acting(r)' <=> Acting(r)
                          /\ Acting(r) \/ task'[r].kind \in ClaimKinds \cup {"credit"}
                               => task'[r] = task[r]
  BY <1>1 DEF TasksKept, Passive, Acting
<1>4. ClaimsOwned'
  <2> SUFFICES ASSUME NEW p \in Handlers
               PROVE  /\ Acting(p)' => Owns(p)'
                      /\ task'[p].kind \in ClaimKinds => task'[p].key # None
    BY DEF ClaimsOwned
  <2>1. ASSUME Acting(p)' PROVE Owns(p)'
    <3>1. Owns(p) /\ task'[p] = task[p]
      BY <1>3, <2>1 DEF Gate, ClaimsOwned
    <3> QED BY <1>1, <1>2, <1>3, <3>1 DEF Owns, OrderKept
  <2>2. ASSUME task'[p].kind \in ClaimKinds PROVE task'[p].key # None
    BY <1>3, <2>2 DEF Gate, ClaimsOwned
  <2> QED BY <2>1, <2>2
<1>5. UnclaimedIsUnsent' /\ SentForClaim'
  BY <1>1, <1>2 DEF Gate, UnclaimedIsUnsent, SentForClaim, OrderKept
<1>6. RowsRight'
  <2> SUFFICES ASSUME NEW q \in Payouts PROVE RowRight(q)'
    BY DEF RowsRight
  <2>1. RowRight(q)
    BY DEF Gate, RowsRight
  <2>2. /\ payout'[q].transfer = payout[q].transfer
        /\ \/ payout'[q].status = payout[q].status
           \/ payout[q].status = "none" /\ payout'[q].status = "PENDING"
    BY QuietRows DEF QuietStep
  <2> QED BY <1>1, <1>2, <2>1, <2>2 DEF RowRight, OrderKept
<1>7. CreditsRight'
  <2> SUFFICES ASSUME NEW p \in Handlers, task'[p].kind = "credit" PROVE CreditRight(p)'
    BY DEF CreditsRight, CreditRight
  <2>1. task'[p] = task[p]
    BY <1>3
  <2>2. task[p].payout \in Payouts /\ payout[task[p].payout].transfer # None
        /\ transfer[payout[task[p].payout].transfer] = "processed" /\ task[p].payout # None
    BY <2>1, CreditedRow DEF Gate, CreditsRight, CreditRight
  <2>3. payout'[task[p].payout].transfer = payout[task[p].payout].transfer
    BY <2>2, QuietRows DEF QuietStep
  <2> QED BY <1>1, <2>1, <2>2, <2>3 DEF CreditRight
<1>8. StateRight'
  <2>1. \A p \in Handlers : task[p].key # None => task'[p].key # None
    BY <1>1 DEF TasksKept, Passive
  <2> QED BY <1>1, <2>1 DEF Gate, StateRight, OrderKept
<1>9. TasksRight'
  BY <1>1 DEF Gate, TasksRight, TasksKept, TaskRight
<1> QED BY <1>4, <1>5, <1>6, <1>7, <1>8, <1>9 DEF Gate

-----------------------------------------------------------------------------
(* Steps that are quiet: everything before a claim, and everything about   *)
(* complaints, holds and reviews.                                          *)

(* A handler that is not in a payment changes to one that is not, or ends. *)
LEMMA TasksQuiet ==
  ASSUME TypeOK, Gate, NEW p \in Handlers, NEW t, Passive(t), TaskRight(t),
         task[p] = Idle \/ Passive(task[p]), task' = [task EXCEPT ![p] = t]
  PROVE  TasksKept
<1>1. Passive(Idle)
  BY DEF Passive, Idle, ClaimKinds
<1>2. Passive(task[p]) /\ task'[p] = t /\ \A r \in Handlers : r # p => task'[r] = task[r]
  BY <1>1 DEF TypeOK
<1> QED BY <1>2 DEF TasksKept

LEMMA IdleQuietly == Passive(Idle) /\ TaskRight(Idle)
  BY DEF Passive, Idle, TaskRight, ClaimKinds

(* Which tasks are passive.                                                *)
LEMMA PassiveTasks ==
  ASSUME TypeOK, Gate, NEW p \in Handlers,
         task[p].kind \in {"settle", "sweep", "review", "hold", "release", "claim", "check",
                           "reset", "idle"}
  PROVE  Passive(task[p])
<1>1. ~Acting(p)
  BY DEF Gate, ClaimsOwned, Owns, ClaimKinds
<1> QED BY <1>1 DEF Acting, Passive, ClaimKinds

(* The beginnings of requests, sweeps and settlements.                     *)
LEMMA BeginQuiet ==
  ASSUME TypeOK, Gate, NEW p \in Handlers,
         \/ \E q \in Payouts : SettleDelivery(p, q)
         \/ \E mode \in Modes : paySettlementRead(p, mode)
         \/ markReadySweepRead(p) \/ markReviewedRead(p)
         \/ holdSellerPayoutRead(p) \/ releaseSellerPayoutRead(p)
  PROVE  Gate'
<1>1. \A kind \in {"settle", "review", "hold", "release"} : \A seen :
        Passive(Reading(kind, seen)) /\ TaskRight(Reading(kind, seen))
  BY DEF Passive, TaskRight, Reading, Idle, ClaimKinds
<1>2. ASSUME NEW t, Start(p, t), Passive(t), TaskRight(t),
             UNCHANGED <<order, transfer, told, setting>>, RowsKeptOrMade
      PROVE  Gate'
  <2>1. TasksKept
    BY <1>2, TasksQuiet DEF Start
  <2>2. OrderKept
    BY <1>2 DEF OrderKept
  <2> QED BY <1>2, <2>1, <2>2, QuietKept DEF QuietStep
<1>3. ASSUME NEW q \in Payouts, SettleDelivery(p, q) PROVE Gate'
  <2>1. RowsKeptOrMade
    BY <1>3 DEF SettleDelivery, createPendingPayoutForOrder, RowsKeptOrMade
  <2> QED BY <1>1, <1>2, <1>3, <2>1 DEF SettleDelivery
<1>4. ASSUME NEW mode \in Modes, paySettlementRead(p, mode) PROVE Gate'
  <2>1. Passive([Idle EXCEPT !.kind = "claim", !.mode = mode])
        /\ TaskRight([Idle EXCEPT !.kind = "claim", !.mode = mode])
    BY <1>4 DEF Passive, TaskRight, Idle, ClaimKinds, paySettlementRead
  <2> QED BY <1>2, <1>4, <2>1 DEF paySettlementRead, RowsKeptOrMade
<1>5. CASE markReadySweepRead(p)
  <2>1. resolveSettlementState(order) \notin {"FAILED", "PAYING"}
    BY <1>5 DEF markReadySweepRead, resolveSettlementState
  <2>2. [Nothing EXCEPT !.state = resolveSettlementState(order)].state \notin {"FAILED", "PAYING"}
    BY <2>1 DEF Nothing
  <2>3. \A seen : seen.state \notin {"FAILED", "PAYING"}
          => Passive(Reading("sweep", seen)) /\ TaskRight(Reading("sweep", seen))
    BY DEF Passive, TaskRight, Idle, ClaimKinds, Reading
  <2> QED BY <1>2, <1>5, <2>2, <2>3 DEF markReadySweepRead, RowsKeptOrMade
<1>6. CASE markReviewedRead(p) \/ holdSellerPayoutRead(p) \/ releaseSellerPayoutRead(p)
  BY <1>1, <1>2, <1>6 DEF markReviewedRead, holdSellerPayoutRead, releaseSellerPayoutRead,
     RowsKeptOrMade
<1> QED BY <1>3, <1>4, <1>5, <1>6

(* Nothing is retried but a failed payment: by hand, the handler that pays *)
(* is still there.                                                         *)
LEMMA RetryReadQuiet ==
  ASSUME TypeOK, Gate, GatewaySetting, NEW p \in Handlers, NEW mode \in Modes,
         retrySettlementRead(p, mode)
  PROVE  Gate'
<1>1. order.state = "FAILED"
  BY DEF retrySettlementRead, Retryable, GatewaySetting, ThroughGateway, Surprise, Gate,
     StateRight
<1> DEFINE t == [Reading("reset", ClaimSeen) EXCEPT !.mode = mode]
<1>2. Passive(t) /\ TaskRight(t)
  BY <1>1 DEF Passive, TaskRight, Reading, Idle, ClaimKinds, ClaimSeen, Nothing,
     retrySettlementRead
<1>3. Start(p, t)
  BY DEF retrySettlementRead
<1>4. TasksKept
  <2> HIDE DEF t
  <2> QED BY <1>2, <1>3, TasksQuiet DEF Start
<1> QED BY <1>4, QuietKept DEF QuietStep, OrderKept, RowsKeptOrMade, retrySettlementRead

(* Saves of what was read, which still stands, and of sweeps.              *)
LEMMA SavesQuiet ==
  ASSUME TypeOK, Gate, GatewaySetting, NEW p \in Handlers,
         \/ settleDeliveredOrder(p) \/ markReadySweep(p) \/ markReviewed(p)
         \/ holdSellerPayout(p) \/ releaseSellerPayout(p) \/ PayAgain(p)
         \/ retrySettlement(p)
  PROVE  Gate'
<1>0. order \in Orders /\ task[p] \in Tasks /\ \A seen : Fresh(p, seen) => task[p].seen = seen
  BY DEF TypeOK, Fresh, Surprise, GatewaySetting, ThroughGateway
<1>1. Passive(task[p])
  BY PassiveTasks DEF settleDeliveredOrder, markReadySweep, markReviewed, holdSellerPayout,
     releaseSellerPayout, PayAgain, retrySettlement, Busy
<1>2. OrderKept
  <2>1. CASE settleDeliveredOrder(p) \/ PayAgain(p)
    BY <1>0, <2>1 DEF settleDeliveredOrder, PayAgain, OrderKept, Orders
  <2>2. CASE markReadySweep(p)
    <3>1. task[p].seen.state \notin {"FAILED", "PAYING"}
      BY <2>2 DEF markReadySweep, Busy, Gate, TasksRight, TaskRight
    <3> QED BY <1>0, <2>2, <3>1 DEF markReadySweep, OrderKept, Orders
  <2>3. CASE markReviewed(p)
    BY <1>0, <2>3 DEF markReviewed, OrderKept, Orders, ReviewSeen, Nothing
  <2>4. CASE holdSellerPayout(p) \/ releaseSellerPayout(p)
    <3>1. Fresh(p, StateSeen) => task[p].seen.state = order.state
      BY <1>0 DEF StateSeen, Nothing
    <3>2. \/ order' = order
          \/ /\ task[p].seen.state = order.state
             /\ \E payable \in {"HOLD", "PENDING"}, held \in BOOLEAN :
                  order' = [order EXCEPT !.sellerPayout = payable, !.manualHold = held,
                                         !.state = task[p].seen.state]
      BY <2>4, <3>1 DEF holdSellerPayout, releaseSellerPayout
    <3> QED BY <1>0, <3>2 DEF OrderKept, Orders
  <2>5. CASE retrySettlement(p)
    <3>1. Fresh(p, ClaimSeen) => order.state = "FAILED"
      <4>1. task[p].seen.state = "FAILED"
        BY <2>5 DEF retrySettlement, Busy, Gate, TasksRight, TaskRight
      <4> QED BY <1>0, <4>1 DEF ClaimSeen, Nothing
    <3>2. Fresh(p, ClaimSeen) => order.key = None
      BY <3>1 DEF Gate, StateRight
    <3> QED BY <1>0, <2>5, <3>2 DEF retrySettlement, OrderKept, Orders
  <2> QED BY <2>1, <2>2, <2>3, <2>4, <2>5
<1>3. TasksKept
  <2>1. ASSUME Finish(p) PROVE TasksKept
    BY <1>1, <2>1, IdleQuietly, TasksQuiet DEF Finish
  <2>2. CASE PayAgain(p) /\ ~Finish(p)
    <3> DEFINE t == [task[p] EXCEPT !.kind = "claim"]
    <3>1. task' = [task EXCEPT ![p] = t]
      BY <2>2 DEF PayAgain, Continue, TypeOK
    <3>2. TaskRight(task[p]) /\ task[p].kind = "check"
      BY <2>2 DEF PayAgain, Busy, Gate, TasksRight
    <3>3. Passive(t) /\ TaskRight(t)
      BY <1>0, <1>1, <3>2 DEF Tasks, Passive, TaskRight, ClaimKinds
    <3> HIDE DEF t
    <3> QED BY <1>1, <3>1, <3>3, TasksQuiet
  <2>3. CASE retrySettlement(p) /\ ~Finish(p)
    <3> DEFINE t == [task[p] EXCEPT !.kind = "check", !.seen = Nothing]
    <3>1. task' = [task EXCEPT ![p] = t]
      BY <2>3 DEF retrySettlement, TypeOK
    <3>2. TaskRight(task[p]) /\ task[p].kind = "reset"
      BY <2>3 DEF retrySettlement, Busy, Gate, TasksRight
    <3>3. Passive(t) /\ TaskRight(t)
      BY <1>0, <1>1, <3>2 DEF Tasks, Passive, TaskRight, ClaimKinds
    <3> HIDE DEF t
    <3> QED BY <1>1, <3>1, <3>3, TasksQuiet
  <2> QED BY <2>1, <2>2, <2>3 DEF settleDeliveredOrder, markReadySweep, markReviewed,
          holdSellerPayout, releaseSellerPayout, PayAgain, retrySettlement
<1>4. UNCHANGED <<payout, transfer, told, setting>>
  BY DEF settleDeliveredOrder, markReadySweep, markReviewed, holdSellerPayout,
     releaseSellerPayout, PayAgain, retrySettlement
<1> QED BY <1>2, <1>3, <1>4, QuietKept DEF QuietStep, RowsKeptOrMade

(* Complaints and the clock.                                               *)
LEMMA ComplaintQuiet ==
  ASSUME TypeOK, Gate, Complain \/ WindowCloses
  PROVE  Gate'
<1>0. order \in Orders
  BY DEF TypeOK
<1>1. OrderKept
  <2> DEFINE Same(o) == /\ o \in Orders /\ o.key = order.key /\ o.locked = order.locked
                        /\ o.state \in {"FAILED", "PAYING"}
                             => o.state = order.state /\ o.mode = order.mode
  <2>1. Same(order) /\ Same(holdSettlement) /\ Same(releaseSettlement)
    BY <1>0, HoldTyped DEF holdSettlement, releaseSettlement, Orders
  <2>2. \A o, c : Same(o) => /\ [o EXCEPT !.complaint = c].key = order.key
                             /\ [o EXCEPT !.complaint = c].locked = order.locked
                             /\ [o EXCEPT !.complaint = c].state = o.state
                             /\ [o EXCEPT !.complaint = c].mode = o.mode
    BY DEF Orders
  <2>3. CASE RaiseComplaint
    BY <2>1, <2>2, <2>3 DEF RaiseComplaint, OrderKept
  <2>4. CASE ApproveComplaint
    BY <2>1, <2>2, <2>4 DEF ApproveComplaint, OrderKept
  <2>5. CASE ReassignComplaint \/ RefundComplaint
    BY <1>0, <2>5 DEF ReassignComplaint, RefundComplaint, OrderKept, Orders
  <2>6. CASE CloseComplaint
    BY <2>1, <2>2, <2>6 DEF CloseComplaint, OrderKept
  <2>7. CASE WindowCloses
    BY <1>0, <2>7 DEF WindowCloses, OrderKept, Orders
  <2> QED BY <2>3, <2>4, <2>5, <2>6, <2>7 DEF Complain
<1> QED BY <1>1, QuietKept DEF QuietStep, RowsKeptOrMade, TasksKept, Complain, WindowCloses

-----------------------------------------------------------------------------
(* Steps of the handler that has the claim.                                *)

(* It is alone.                                                            *)
LEMMA OwnerAlone ==
  ASSUME TypeOK, Gate, NEW p \in Handlers, Acting(p)
  PROVE  /\ Owns(p) /\ TaskRight(task[p])
         /\ \A r \in Handlers \ {p} : ~Acting(r)
         /\ task[p].kind # "finalize" => \A r \in Handlers : task[r].kind # "credit"
<1>1. Owns(p) /\ TaskRight(task[p])
  BY DEF Gate, ClaimsOwned, TasksRight
<1>2. \A r \in Handlers \ {p} : ~Acting(r)
  BY <1>1 DEF Owns
<1>3. task[p].kind # "finalize" => \A r \in Handlers : task[r].kind # "credit"
  BY <1>1, NobodyCredits DEF Owns
<1> QED BY <1>1, <1>2, <1>3

(* When nobody else acts or credits, only p's new task has to be right.    *)
LEMMA SoleStep ==
  ASSUME TypeOK, Gate, NEW p \in Handlers, NEW t, TaskRight(t), setting' = setting,
         task' = [task EXCEPT ![p] = t],
         \A r \in Handlers \ {p} : ~Acting(r) /\ task[r].kind # "credit"
  PROVE  /\ task'[p] = t
         /\ \A r \in Handlers : Acting(r)' => r = p
         /\ TasksRight'
         /\ /\ t.key # None \/ t.kind = "fail" => Owns(p)'
            /\ t.kind \in ClaimKinds => t.key # None
            => ClaimsOwned'
         /\ t.kind # "credit" => CreditsRight'
<1>1. task'[p] = t /\ \A r \in Handlers \ {p} : task'[r] = task[r]
  BY DEF TypeOK
<1>2. \A r \in Handlers : Acting(r)' => r = p
  BY <1>1 DEF Acting
<1>3. TasksRight'
  <2> SUFFICES ASSUME NEW r \in Handlers PROVE TaskRight(task[r])'
    BY DEF TasksRight, TaskRight
  <2>1. CASE r = p
    BY <1>1, <2>1 DEF TaskRight
  <2>2. CASE r # p
    BY <1>1, <2>2 DEF Gate, TasksRight, TaskRight
  <2> QED BY <2>1, <2>2
<1>4. ASSUME t.key # None \/ t.kind = "fail" => Owns(p)', t.kind \in ClaimKinds => t.key # None
      PROVE  ClaimsOwned'
  <2> SUFFICES ASSUME NEW r \in Handlers
               PROVE  /\ Acting(r)' => Owns(r)'
                      /\ task'[r].kind \in ClaimKinds => task'[r].key # None
    BY DEF ClaimsOwned
  <2>1. CASE r = p
    BY <1>1, <1>4, <2>1 DEF Acting
  <2>2. CASE r # p
    BY <1>1, <1>2, <2>2 DEF Gate, ClaimsOwned
  <2> QED BY <2>1, <2>2
<1>5. t.kind # "credit" => CreditsRight'
  BY <1>1 DEF CreditsRight, CreditRight
<1> QED BY <1>1, <1>2, <1>3, <1>4, <1>5

(* A claim is made while there is none, so nothing was sent or paid        *)
(* (ClaimSettlement).                                                      *)
LEMMA ClaimKept ==
  ASSUME TypeOK, Gate, NEW p \in Handlers, ClaimSettlement(p)
  PROVE  Gate'
<1>0. order \in Orders /\ task[p] \in Tasks /\ Passive(task[p]) /\ TaskRight(task[p])
      /\ task[p].kind = "claim"
  BY PassiveTasks DEF TypeOK, ClaimSettlement, Busy, Gate, TasksRight
<1>1. CASE Finish(p) /\ UNCHANGED order
  <2>1. TasksKept
    BY <1>0, <1>1, IdleQuietly, TasksQuiet DEF Finish
  <2> QED BY <1>1, <2>1, QuietKept DEF QuietStep, OrderKept, RowsKeptOrMade, ClaimSettlement
<1>2. ASSUME NEW k \in Keys, FreshKey(k), order.key = None, ~order.locked,
             order' = [order EXCEPT !.key = k, !.mode = task[p].mode, !.state = "PAYING"],
             task' = [task EXCEPT ![p].kind = "cancel", ![p].key = k]
      PROVE  Gate'
  <2> DEFINE t == [task[p] EXCEPT !.kind = "cancel", !.key = k]
  <2>0. UNCHANGED <<payout, wallet, transfer, told, setting>>
    BY DEF ClaimSettlement
  <2>1. Paid = {} /\ NoneProcessing /\ NothingSent
    BY <1>2 DEF Gate, UnclaimedIsUnsent
  <2>2. \A r \in Handlers \ {p} : ~Acting(r) /\ task[r].kind # "credit"
    BY <1>2, <2>1, NobodyCredits DEF Gate, ClaimsOwned, Owns
  <2>3. task' = [task EXCEPT ![p] = t]
    BY <1>2 DEF TypeOK
  <2>4. t.kind = "cancel" /\ t.key = k /\ t.mode = task[p].mode /\ TaskRight(t)
    BY <1>0 DEF Tasks, TaskRight
  <2> HIDE DEF t
  <2>5. /\ order'.key = k /\ order'.state = "PAYING" /\ order'.mode = task[p].mode
        /\ order'.locked = order.locked /\ k # None
    BY <1>0, <1>2, SettlementAssumption DEF Orders
  <2>6. Paid' = {} /\ NoneProcessing' /\ NothingSent' /\ transfer'[k] = "none"
    BY <1>2, <2>0, <2>1 DEF Paid, NoneProcessing, NothingSent, FreshKey
  <2>7. task'[p] = t /\ \A r \in Handlers : Acting(r)' => r = p
    BY <2>0, <2>2, <2>3, <2>4, SoleStep
  <2>8. Owns(p)'
    BY <2>4, <2>5, <2>6, <2>7 DEF Owns, ClaimKinds
  <2>9. ClaimsOwned' /\ CreditsRight' /\ TasksRight'
    BY <2>0, <2>2, <2>3, <2>4, <2>5, <2>8, SoleStep
  <2>10. UnclaimedIsUnsent' /\ SentForClaim'
    BY <2>0, <2>5, <2>6 DEF UnclaimedIsUnsent, SentForClaim, NothingSent
  <2>11. RowsRight'
    BY <2>0, <2>1, <2>6 DEF Gate, RowsRight, RowRight, NoneProcessing
  <2>12. StateRight'
    BY <1>2, <2>4, <2>5, <2>7 DEF StateRight
  <2> QED BY <2>9, <2>10, <2>11, <2>12 DEF Gate
<1> QED BY <1>1, <1>2 DEF ClaimSettlement

(* Before it pays, the owner changes no transfer: what it does to rows     *)
(* leaves nothing paid or with the gateway.                                *)
LEMMA PreparationKept ==
  ASSUME TypeOK, Gate, NEW p \in Handlers, NEW t, Acting(p),
         task[p].kind \notin {"finalize", "record"},
         task' = [task EXCEPT ![p] = t], TaskRight(t),
         t.key = task[p].key, t.mode = task[p].mode, t.key # None,
         t.kind \in {"create", "process", "refused", "call", "fail"},
         t.kind \in {"create", "call"} => task[p].kind \in {"cancel", "create", "call"},
         t.kind \notin {"create", "fail"} => t.payout \in Standing',
         t.kind = "call" => t.mode = "AUTOMATIC",
         UNCHANGED <<order, transfer, told, setting>>,
         Paid' = {}, NoneProcessing', RowsRight'
  PROVE  Gate'
<1>1. Owns(p) /\ \A r \in Handlers \ {p} : ~Acting(r) /\ task[r].kind # "credit"
  BY OwnerAlone
<1>2. task'[p] = t /\ \A r \in Handlers : Acting(r)' => r = p
  BY <1>1, SoleStep
<1>3. NothingSent /\ NothingSent'
  BY <1>1 DEF Owns, NothingSent
<1>4. Owns(p)'
  BY <1>1, <1>2, <1>3 DEF Owns, ClaimKinds
<1>5. ClaimsOwned' /\ CreditsRight' /\ TasksRight'
  BY <1>1, <1>4, SoleStep
<1>6. UnclaimedIsUnsent' /\ SentForClaim'
  BY <1>3 DEF UnclaimedIsUnsent, SentForClaim, Gate
<1>7. StateRight'
  BY <1>2 DEF Gate, StateRight
<1> QED BY <1>5, <1>6, <1>7 DEF Gate

(* Cancelling the row that waits and creating one (CancelStale,            *)
(* CreateSettled).                                                         *)
LEMMA StaleCancelled ==
  ASSUME TypeOK, Gate, NEW p \in Handlers, CancelStale(p)
  PROVE  Gate'
<1>0. task[p].kind = "cancel" /\ task[p] \in Tasks /\ Acting(p) /\ task[p].key # None
  BY DEF CancelStale, Busy, Gate, ClaimsOwned, ClaimKinds, TypeOK, Acting
<1>1. Owns(p) /\ TaskRight(task[p]) /\ Paid = {} /\ NoneProcessing
  BY <1>0, OwnerAlone DEF Owns
<1> DEFINE t == [task[p] EXCEPT !.kind = "create"]
<1>2. task' = [task EXCEPT ![p] = t]
  BY DEF CancelStale, Continue, TypeOK
<1>3. t.kind = "create" /\ t.key = task[p].key /\ t.mode = task[p].mode /\ TaskRight(t)
  BY <1>0, <1>1 DEF Tasks, TaskRight
<1>4. \A q \in Payouts : /\ payout'[q].transfer = payout[q].transfer
                         /\ \/ payout'[q].status = payout[q].status
                            \/ payout[q].status = "PENDING" /\ payout'[q].status = "CANCELLED"
  BY <1>1 DEF CancelStale, cancelPendingPayoutForOrder, Open, TypeOK, NoneProcessing
<1>5. UNCHANGED <<order, transfer, told, setting>>
  BY DEF CancelStale
<1>6. Paid' = {} /\ NoneProcessing'
  BY <1>1, <1>4 DEF Paid, NoneProcessing
<1>7. RowsRight'
  <2>1. NothingSent' <=> NothingSent
    BY <1>5 DEF NothingSent
  <2> QED BY <1>4, <1>5, <2>1 DEF Gate, RowsRight, RowRight
<1> HIDE DEF t
<1> QED BY <1>0, <1>2, <1>3, <1>5, <1>6, <1>7, PreparationKept

LEMMA SettledCreated ==
  ASSUME TypeOK, Gate, NEW p \in Handlers, NEW q \in Payouts, CreateSettled(p, q)
  PROVE  Gate'
<1>0. task[p].kind = "create" /\ task[p] \in Tasks /\ Acting(p) /\ task[p].key # None
  BY DEF CreateSettled, Busy, Gate, ClaimsOwned, ClaimKinds, TypeOK, Acting
<1>1. Owns(p) /\ TaskRight(task[p]) /\ Paid = {} /\ NoneProcessing
  BY <1>0, OwnerAlone DEF Owns
<1>2. PICK next \in (IF task[p].mode = "MANUAL" THEN {"process", "fail"} ELSE {"call"}) :
        task' = [task EXCEPT ![p].kind = next, ![p].payout = q]
  BY DEF CreateSettled
<1> DEFINE t == [task[p] EXCEPT !.kind = next, !.payout = q]
<1>3. task' = [task EXCEPT ![p] = t]
  BY <1>2 DEF TypeOK
<1>4. /\ t.kind = next /\ t.key = task[p].key /\ t.mode = task[p].mode /\ t.payout = q
      /\ TaskRight(t) /\ next \in {"process", "fail", "call"}
      /\ next = "call" => t.mode = "AUTOMATIC"
  BY <1>0, <1>1, <1>2 DEF Tasks, TaskRight, Modes
<1>5. UNCHANGED <<order, transfer, told, setting>>
  BY DEF CreateSettled
<1>6. RowsKeptOrMade
  BY DEF CreateSettled, createPendingPayoutForOrder, RowsKeptOrMade
<1>7. Paid' = {} /\ NoneProcessing'
  BY <1>1, <1>6, QuietRows
<1>8. q \in Standing'
  BY DEF CreateSettled, createPendingPayoutForOrder, Standing, TypeOK
<1>9. RowsRight'
  <2>1. NothingSent' <=> NothingSent
    BY <1>5 DEF NothingSent
  <2>2. \A r \in Payouts : /\ payout'[r].transfer = payout[r].transfer
                           /\ \/ payout'[r].status = payout[r].status
                              \/ payout[r].status = "none" /\ payout'[r].status = "PENDING"
    BY <1>6, QuietRows
  <2> QED BY <1>5, <2>1, <2>2 DEF Gate, RowsRight, RowRight
<1> HIDE DEF t
<1> QED BY <1>0, <1>3, <1>4, <1>5, <1>7, <1>8, <1>9, PreparationKept

(* By hand: the row is paid, or refused because of a hold (PayManually).   *)
LEMMA HandPaid ==
  ASSUME TypeOK, Gate, NEW p \in Handlers, PayManually(p)
  PROVE  Gate'
<1>0. task[p].kind = "process" /\ task[p] \in Tasks /\ Acting(p) /\ task[p].key # None
  BY DEF PayManually, Busy, Gate, ClaimsOwned, ClaimKinds, TypeOK, Acting
<1>1. /\ Owns(p) /\ TaskRight(task[p]) /\ Paid = {} /\ NoneProcessing /\ NothingSent
      /\ \A r \in Handlers \ {p} : ~Acting(r) /\ task[r].kind # "credit"
      /\ task[p].payout \in Standing
  BY <1>0, OwnerAlone DEF Owns, ClaimKinds
<1>2. UNCHANGED <<transfer, told, setting>>
  BY DEF PayManually
<1>3. CASE ~Processable(task[p].payout)
  <2> DEFINE t == [task[p] EXCEPT !.kind = "refused"]
  <2>1. task' = [task EXCEPT ![p] = t] /\ UNCHANGED <<order, payout>>
    BY <1>3 DEF PayManually, Continue, TypeOK
  <2>2. /\ t.kind = "refused" /\ t.key = task[p].key /\ t.mode = task[p].mode
        /\ t.payout = task[p].payout /\ TaskRight(t)
    BY <1>0, <1>1 DEF Tasks, TaskRight
  <2>3. Paid' = {} /\ NoneProcessing' /\ Standing' = Standing /\ NothingSent'
    BY <1>1, <1>2, <2>1 DEF Paid, NoneProcessing, Standing, NothingSent
  <2>4. RowsRight'
    BY <1>1, <1>2, <2>1, <2>3 DEF Gate, RowsRight, RowRight
  <2> HIDE DEF t
  <2> QED BY <1>0, <1>1, <1>2, <2>1, <2>2, <2>3, <2>4, PreparationKept
<1>4. CASE Processable(task[p].payout)
  <2> DEFINE t == [task[p] EXCEPT !.kind = "finalize"]
             q == task[p].payout
  <2>1. task' = [task EXCEPT ![p] = t]
    BY <1>4 DEF PayManually, Continue, TypeOK
  <2>2. /\ t.kind = "finalize" /\ t.key = task[p].key /\ t.mode = task[p].mode
        /\ TaskRight(t)
    BY <1>0, <1>1 DEF Tasks, TaskRight
  <2>3. /\ q \in Payouts /\ payout[q].status = "PENDING"
        /\ payout' = [payout EXCEPT ![q].status = "COMPLETED"]
        /\ order' = [order EXCEPT !.sellerPayout = "COMPLETED"]
    BY <1>1, <1>4 DEF PayManually, processPayout, Processable, Open, NoneProcessing
  <2>4. /\ order'.key = order.key /\ order'.state = order.state /\ order'.mode = order.mode
        /\ order'.locked = order.locked
    BY <2>3 DEF TypeOK, Orders
  <2>5. NoneProcessing' /\ NothingSent'
    BY <1>1, <1>2, <2>3 DEF NoneProcessing, NothingSent, TypeOK
  <2> HIDE DEF t
  <2>6. task'[p] = t /\ \A r \in Handlers : Acting(r)' => r = p
    BY <1>1, <1>2, <2>1, <2>2, SoleStep
  <2>7. Owns(p)'
    BY <1>1, <1>2, <2>2, <2>4, <2>5, <2>6 DEF Owns, ClaimKinds
  <2>8. ClaimsOwned' /\ CreditsRight' /\ TasksRight'
    BY <1>0, <1>1, <1>2, <2>1, <2>2, <2>7, SoleStep DEF ClaimKinds
  <2>9. UnclaimedIsUnsent' /\ SentForClaim'
    BY <1>1, <1>2, <2>4, <2>5 DEF UnclaimedIsUnsent, SentForClaim, Gate, Owns
  <2>10. RowsRight'
    <3> SUFFICES ASSUME NEW r \in Payouts PROVE RowRight(r)'
      BY DEF RowsRight
    <3>1. RowRight(r)
      BY DEF Gate, RowsRight
    <3>2. CASE r = q
      BY <1>2, <2>3, <2>5, <3>1, <3>2 DEF RowRight, TypeOK
    <3>3. CASE r # q
      BY <1>2, <2>3, <2>4, <2>5, <3>1, <3>3 DEF RowRight, TypeOK
    <3> QED BY <3>2, <3>3
  <2>11. StateRight'
    BY <1>0, <2>2, <2>4, <2>6 DEF Gate, StateRight
  <2> QED BY <2>8, <2>9, <2>10, <2>11 DEF Gate
<1> QED BY <1>3, <1>4

(* A refused payment fails: the row was not paid by another (RefuseManual).*)
LEMMA HandRefused ==
  ASSUME TypeOK, Gate, NEW p \in Handlers, RefuseManual(p)
  PROVE  Gate'
<1>0. task[p].kind = "refused" /\ task[p] \in Tasks /\ Acting(p) /\ task[p].key # None
  BY DEF RefuseManual, Busy, Gate, ClaimsOwned, ClaimKinds, TypeOK, Acting
<1>1. /\ Owns(p) /\ TaskRight(task[p]) /\ Paid = {} /\ NoneProcessing
      /\ task[p].payout \in Standing
  BY <1>0, OwnerAlone DEF Owns, ClaimKinds
<1> DEFINE t == [task[p] EXCEPT !.kind = "fail"]
<1>2. Continue(p, "fail")
  BY <1>1 DEF RefuseManual, Standing, Paid
<1>3. task' = [task EXCEPT ![p] = t] /\ UNCHANGED <<order, payout, transfer, told, setting>>
  BY <1>2 DEF RefuseManual, Continue, TypeOK
<1>4. t.kind = "fail" /\ t.key = task[p].key /\ t.mode = task[p].mode /\ TaskRight(t)
  BY <1>0, <1>1 DEF Tasks, TaskRight
<1>5. Paid' = {} /\ NoneProcessing' /\ (NothingSent' <=> NothingSent)
  BY <1>1, <1>3 DEF Paid, NoneProcessing, NothingSent
<1>6. RowsRight'
  BY <1>3, <1>5 DEF Gate, RowsRight, RowRight
<1> HIDE DEF t
<1> QED BY <1>0, <1>3, <1>4, <1>5, <1>6, PreparationKept

(* Whoever reports a failure gives the claim up (failSettlement).          *)
LEMMA FailKept ==
  ASSUME TypeOK, Gate, NEW p \in Handlers, failSettlement(p)
  PROVE  Gate'
<1>0. task[p].kind = "fail" /\ Acting(p)
  BY DEF failSettlement, Busy, Acting
<1>1. /\ Paid = {} /\ NoneProcessing /\ NothingSent
      /\ \A r \in Handlers \ {p} : ~Acting(r) /\ task[r].kind # "credit"
  BY <1>0, OwnerAlone DEF Owns
<1>2. /\ UNCHANGED <<payout, transfer, told, setting>>
      /\ task' = [task EXCEPT ![p] = Idle]
      /\ order'.key = None /\ order'.state = "FAILED"
  BY DEF failSettlement, Finish, TypeOK, Orders
<1>3. Idle.key = None /\ Idle.kind = "idle" /\ TaskRight(Idle)
  BY IdleQuietly DEF Idle
<1>4. ClaimsOwned' /\ CreditsRight' /\ TasksRight'
  BY <1>1, <1>2, <1>3, SoleStep DEF ClaimKinds
<1>5. Paid' = {} /\ NoneProcessing' /\ NothingSent'
  BY <1>1, <1>2 DEF Paid, NoneProcessing, NothingSent
<1>6. UnclaimedIsUnsent' /\ SentForClaim'
  BY <1>2, <1>5 DEF UnclaimedIsUnsent, SentForClaim, NothingSent
<1>7. RowsRight'
  BY <1>1, <1>2, <1>5 DEF Gate, RowsRight, RowRight, NoneProcessing
<1>8. StateRight'
  BY <1>2 DEF StateRight
<1> QED BY <1>4, <1>6, <1>7, <1>8 DEF Gate

(* The gateway takes the transfer or rejects it (CreateSellerPayout).      *)
LEMMA CallKept ==
  ASSUME TypeOK, Gate, GatewaySetting, NEW p \in Handlers, CreateSellerPayout(p)
  PROVE  Gate'
<1>0. task[p].kind = "call" /\ task[p] \in Tasks /\ Acting(p) /\ task[p].key # None
  BY DEF CreateSellerPayout, Busy, Gate, ClaimsOwned, ClaimKinds, TypeOK, Acting
<1>1. /\ Owns(p) /\ TaskRight(task[p]) /\ Paid = {} /\ NoneProcessing /\ NothingSent
      /\ \A r \in Handlers \ {p} : ~Acting(r) /\ task[r].kind # "credit"
      /\ task[p].payout \in Standing /\ task[p].key = order.key /\ order.key \in Keys
      /\ transfer[order.key] = "none" /\ task[p].mode = "AUTOMATIC"
  BY <1>0, OwnerAlone DEF Owns, ClaimKinds, Tasks
<1>2. UNCHANGED <<order, payout, told, setting>> /\ Paid' = {} /\ NoneProcessing'
      /\ Standing' = Standing
  BY <1>1 DEF CreateSellerPayout, Paid, NoneProcessing, Standing
<1>3. CASE Continue(p, "fail") /\ UNCHANGED transfer
  <2> DEFINE t == [task[p] EXCEPT !.kind = "fail"]
  <2>1. task' = [task EXCEPT ![p] = t]
    BY <1>3 DEF Continue, TypeOK
  <2>2. t.kind = "fail" /\ t.key = task[p].key /\ t.mode = task[p].mode /\ TaskRight(t)
    BY <1>0, <1>1 DEF Tasks, TaskRight
  <2>3. RowsRight'
    BY <1>2, <1>3 DEF Gate, RowsRight, RowRight, NothingSent
  <2> HIDE DEF t
  <2> QED BY <1>0, <1>2, <1>3, <2>1, <2>2, <2>3, PreparationKept
<1>4. CASE transfer' = [transfer EXCEPT ![task[p].key] = "processing"] /\ Continue(p, "record")
  <2> DEFINE t == [task[p] EXCEPT !.kind = "record"]
  <2>1. task' = [task EXCEPT ![p] = t]
    BY <1>4 DEF Continue, TypeOK
  <2>2. /\ t.kind = "record" /\ t.key = task[p].key /\ t.mode = task[p].mode
        /\ t.payout = task[p].payout /\ TaskRight(t)
    BY <1>0, <1>1 DEF Tasks, TaskRight
  <2>3. /\ transfer'[order.key] = "processing"
        /\ \A k \in Keys \ {order.key} : transfer'[k] = transfer[k]
    BY <1>1, <1>4 DEF TypeOK
  <2> HIDE DEF t
  <2>4. task'[p] = t /\ \A r \in Handlers : Acting(r)' => r = p
    BY <1>1, <1>2, <2>1, <2>2, SoleStep
  <2>5. Owns(p)'
    BY <1>1, <1>2, <2>2, <2>3, <2>4 DEF Owns, ClaimKinds
  <2>6. ClaimsOwned' /\ CreditsRight' /\ TasksRight'
    BY <1>0, <1>1, <1>2, <2>1, <2>2, <2>5, SoleStep
  <2>7. UnclaimedIsUnsent' /\ SentForClaim'
    <3>1. order.key # None
      BY <1>1 DEF Owns
    <3> QED BY <1>1, <1>2, <2>3, <3>1 DEF UnclaimedIsUnsent, SentForClaim, NothingSent
  <2>8. RowsRight'
    <3> SUFFICES ASSUME NEW r \in Payouts PROVE RowRight(r)'
      BY DEF RowsRight
    <3>1. RowRight(r) /\ payout[r].status \notin {"PROCESSING", "COMPLETED"}
      BY <1>1 DEF Gate, RowsRight, NoneProcessing, Paid
    <3>2. payout[r].transfer \in Keys \cup {None}
      BY DEF TypeOK
    <3> QED BY <1>1, <1>2, <2>3, <3>1, <3>2 DEF RowRight
  <2>9. StateRight'
    BY <1>0, <1>2, <2>2, <2>4 DEF Gate, StateRight
  <2> QED BY <2>6, <2>7, <2>8, <2>9 DEF Gate
<1> QED BY <1>3, <1>4 DEF CreateSellerPayout, Surprise, GatewaySetting, ThroughGateway

(* The transfer is recorded with the row, which waits for its outcome      *)
(* (RecordTransfer).                                                       *)
LEMMA RecordKept ==
  ASSUME TypeOK, Gate, NEW p \in Handlers, RecordTransfer(p)
  PROVE  Gate'
<1>0. task[p].kind = "record" /\ task[p] \in Tasks /\ Acting(p) /\ task[p].key # None
  BY DEF RecordTransfer, Busy, Gate, ClaimsOwned, ClaimKinds, TypeOK, Acting
<1>1. /\ Owns(p) /\ Paid = {} /\ NoneProcessing
      /\ \A r \in Handlers \ {p} : ~Acting(r) /\ task[r].kind # "credit"
      /\ task[p].payout \in Standing /\ task[p].key = order.key /\ order.key # None
      /\ transfer[order.key] # "none" /\ task[p].mode = "AUTOMATIC"
      /\ order.state = "PAYING" => order.mode = "AUTOMATIC"
  BY <1>0, OwnerAlone DEF Owns, ClaimKinds, Tasks
<1> DEFINE q == task[p].payout
<1>2. /\ UNCHANGED <<order, transfer, told, setting>> /\ task' = [task EXCEPT ![p] = Idle]
      /\ q \in Payouts /\ payout'[q] = [status |-> "PROCESSING", transfer |-> order.key]
      /\ \A r \in Payouts \ {q} : payout'[r] = payout[r]
  BY <1>1 DEF RecordTransfer, Finish, TypeOK, Standing
<1>3. Idle.key = None /\ Idle.kind = "idle" /\ TaskRight(Idle)
  BY IdleQuietly DEF Idle
<1>4. ClaimsOwned' /\ CreditsRight' /\ TasksRight'
  BY <1>1, <1>2, <1>3, SoleStep DEF ClaimKinds
<1>5. UnclaimedIsUnsent' /\ SentForClaim'
  BY <1>1, <1>2 DEF UnclaimedIsUnsent, SentForClaim, Gate
<1>6. RowsRight'
  <2> SUFFICES ASSUME NEW r \in Payouts PROVE RowRight(r)'
    BY DEF RowsRight
  <2>1. CASE r = q
    BY <1>1, <1>2, <2>1 DEF RowRight
  <2>2. CASE r # q
    <3>1. RowRight(r) /\ payout'[r] = payout[r] /\ (NothingSent' <=> NothingSent)
      BY <1>2, <2>2 DEF Gate, RowsRight, NothingSent
    <3> QED BY <1>2, <3>1 DEF RowRight
  <2> QED BY <2>1, <2>2
<1>7. StateRight'
  BY <1>1, <1>2 DEF Gate, StateRight
<1> QED BY <1>4, <1>5, <1>6, <1>7 DEF Gate

(* Locking the settlement: by the handler that paid by hand, or by one     *)
(* that credited the transfer (finalizeSettlement).                        *)
LEMMA FinalizeKept ==
  ASSUME TypeOK, Gate, NEW p \in Handlers, finalizeSettlement(p)
  PROVE  Gate'
<1>0. task[p].kind = "finalize" /\ order \in Orders
  BY DEF finalizeSettlement, Busy, TypeOK
<1>1. /\ UNCHANGED <<payout, transfer, told, setting>>
      /\ task' = [task EXCEPT ![p] = Idle]
      /\ order'.key = order.key
      /\ \/ order' = order /\ order.state # "PAYING"
         \/ order'.state = "SETTLED"
  BY <1>0 DEF finalizeSettlement, Finish, Orders, Gate, StateRight
<1>2. task'[p] = Idle /\ \A r \in Handlers \ {p} : task'[r] = task[r]
  BY <1>1 DEF TypeOK
<1>3. Idle.key = None /\ Idle.kind = "idle" /\ TaskRight(Idle)
  BY IdleQuietly DEF Idle
<1>4. /\ Paid' = Paid /\ Standing' = Standing /\ (NoneProcessing' <=> NoneProcessing)
      /\ (NothingSent' <=> NothingSent)
  BY <1>1 DEF Paid, Standing, NoneProcessing, NothingSent
<1>5. \A r \in Handlers : Acting(r)' => Acting(r) /\ r # p
  BY <1>2, <1>3 DEF Acting
<1>6. ClaimsOwned'
  <2> SUFFICES ASSUME NEW r \in Handlers
               PROVE  /\ Acting(r)' => Owns(r)'
                      /\ task'[r].kind \in ClaimKinds => task'[r].key # None
    BY DEF ClaimsOwned
  <2>1. ASSUME Acting(r)' PROVE Owns(r)'
    <3>1. Owns(r) /\ task'[r] = task[r] /\ \A i \in Handlers : Acting(i)' => i = r
      BY <1>2, <1>5, <2>1 DEF Gate, ClaimsOwned, Owns
    <3> QED BY <1>1, <1>4, <3>1 DEF Owns
  <2>2. task'[r].kind \in ClaimKinds => task'[r].key # None
    BY <1>2, <1>3 DEF Gate, ClaimsOwned, ClaimKinds
  <2> QED BY <2>1, <2>2
<1>7. UnclaimedIsUnsent' /\ SentForClaim' /\ RowsRight'
  BY <1>1, <1>4 DEF Gate, UnclaimedIsUnsent, SentForClaim, RowsRight, RowRight
<1>8. CreditsRight' /\ TasksRight'
  <2> SUFFICES ASSUME NEW r \in Handlers PROVE CreditRight(r)' /\ TaskRight(task[r])'
    BY DEF CreditsRight, TasksRight
  <2>1. CASE r = p
    BY <1>2, <1>3, <2>1 DEF CreditRight, TaskRight, Idle
  <2>2. CASE r # p
    BY <1>1, <1>2, <2>2 DEF Gate, CreditsRight, CreditRight, TasksRight, TaskRight
  <2> QED BY <2>1, <2>2
<1>9. StateRight'
  BY <1>1 DEF Gate, StateRight
<1> QED BY <1>6, <1>7, <1>8, <1>9 DEF Gate

(* The outcome of a transfer is reported (handlePayoutWebhook): a failure  *)
(* takes the row from the gateway and leaves the claim to the handler.     *)
LEMMA WebhookKept ==
  ASSUME TypeOK, OneRow, Gate, GatewaySetting, NEW p \in Handlers, NEW q \in Payouts,
         ReceiveWebhook(p, q) \/ ReconcileProcessing(p, q)
  PROVE  Gate'
<1> DEFINE k == payout[q].transfer
<1>0. PICK s \in Outcomes :
        /\ handlePayoutWebhook(p, q, s) /\ k # None /\ transfer[k] = s
        /\ <<k, s>> \notin told \/ payout[q].status = "PROCESSING"
  BY DEF ReceiveWebhook, ReconcileProcessing, Reported, GatewaySetting, ThroughGateway,
     Surprise
<1>1. k \in Keys /\ payout[q].status \in PayoutStatuses /\ RowRight(q)
  BY <1>0 DEF TypeOK, Gate, RowsRight
<1>2. s \in {"processed", "failed"}
  BY <1>0, <1>1 DEF Gate, SentForClaim, Outcomes
<1>3. UNCHANGED <<order, transfer, setting>> /\ told \subseteq told' /\ <<k, s>> \in told'
  BY <1>0 DEF handlePayoutWebhook
<1>4. task[p] = Idle /\ ~Acting(p) /\ Passive(task[p])
  BY <1>0, IdleQuietly DEF handlePayoutWebhook, Start, Passive, Acting
<1> DEFINE New(kind) == [Idle EXCEPT !.kind = kind, !.mode = "AUTOMATIC", !.payout = q]
<1>5. \A kind : /\ New(kind).kind = kind /\ New(kind).key = None /\ New(kind).payout = q
  BY DEF Idle
<1>6. CASE s = "processed"
  <2>1. PICK kind \in {"credit", "finalize"} : task' = [task EXCEPT ![p] = New(kind)]
    BY <1>0, <1>6 DEF handlePayoutWebhook, Start
  <2>2. payout' = payout
    BY <1>0, <1>6 DEF handlePayoutWebhook
  <2>3. /\ task'[p] = New(kind) /\ \A r \in Handlers \ {p} : task'[r] = task[r]
        /\ New(kind).kind = kind /\ New(kind).key = None /\ New(kind).payout = q
    BY <1>5, <2>1 DEF TypeOK
  <2> HIDE DEF New
  <2>4. \A r \in Handlers : (Acting(r)' <=> Acting(r)) /\ (Acting(r) => r # p)
    BY <1>4, <2>1, <2>3 DEF Acting
  <2>5. /\ Paid' = Paid /\ Standing' = Standing /\ (NoneProcessing' <=> NoneProcessing)
        /\ (NothingSent' <=> NothingSent)
    BY <1>3, <2>2 DEF Paid, Standing, NoneProcessing, NothingSent
  <2>6. ClaimsOwned'
    <3> SUFFICES ASSUME NEW r \in Handlers
                 PROVE  /\ Acting(r)' => Owns(r)'
                        /\ task'[r].kind \in ClaimKinds => task'[r].key # None
      BY DEF ClaimsOwned
    <3>1. ASSUME Acting(r)' PROVE Owns(r)'
      <4>1. Owns(r) /\ task'[r] = task[r]
        BY <2>3, <2>4, <3>1 DEF Gate, ClaimsOwned
      <4> QED BY <1>3, <2>4, <2>5, <4>1 DEF Owns
    <3>2. task'[r].kind \in ClaimKinds => task'[r].key # None
      BY <2>1, <2>3 DEF Gate, ClaimsOwned, ClaimKinds
    <3> QED BY <3>1, <3>2
  <2>7. UnclaimedIsUnsent' /\ SentForClaim' /\ RowsRight'
    BY <1>3, <2>2, <2>5 DEF Gate, UnclaimedIsUnsent, SentForClaim, RowsRight, RowRight
  <2>8. CreditsRight' /\ TasksRight'
    <3> SUFFICES ASSUME NEW r \in Handlers PROVE CreditRight(r)' /\ TaskRight(task[r])'
      BY DEF CreditsRight, TasksRight
    <3>0. q # None
      BY SettlementAssumption
    <3>1. CASE r = p
      BY <1>0, <1>3, <1>6, <2>1, <2>2, <2>3, <3>0, <3>1 DEF CreditRight, TaskRight
    <3>2. CASE r # p
      BY <1>3, <2>2, <2>3, <3>2 DEF Gate, CreditsRight, CreditRight, TasksRight, TaskRight
    <3> QED BY <3>1, <3>2
  <2>9. StateRight'
    <3>1. \A r \in Handlers : task[r].key # None => task'[r].key # None
      BY <1>4, <2>3 DEF Acting
    <3> QED BY <1>3, <3>1 DEF Gate, StateRight
  <2> QED BY <2>6, <2>7, <2>8, <2>9 DEF Gate
<1>7. CASE s = "failed"
  <2>1. payout[q].status = "PROCESSING" /\ k = order.key
    BY <1>0, <1>1, <1>7 DEF RowRight, PayoutStatuses
  <2>2. /\ task' = [task EXCEPT ![p] = New("fail")]
        /\ payout' = [payout EXCEPT ![q].status = "FAILED"]
    BY <1>0, <1>7 DEF handlePayoutWebhook, Start
  <2>3. New("fail").kind = "fail" /\ New("fail").key = None /\ TaskRight(New("fail"))
    BY <1>5 DEF TaskRight
  <2> HIDE DEF New
  <2>4. \A r \in Payouts : r # q => payout[r].status \in {"none", "CANCELLED"}
    BY <2>1 DEF OneRow, Standing
  <2>5. /\ payout'[q].status = "FAILED" /\ payout'[q].transfer = k
        /\ \A r \in Payouts \ {q} : payout'[r] = payout[r]
    BY <2>2 DEF TypeOK
  <2>6. Paid' = {} /\ NoneProcessing'
    BY <2>4, <2>5 DEF Paid, NoneProcessing
  <2>7. NothingSent /\ NothingSent'
    <3>1. \A i \in Keys : transfer[i] \in TransferStates
      BY DEF TypeOK
    <3> QED BY <1>0, <1>3, <1>7, <2>1, <3>1 DEF Gate, SentForClaim, NothingSent, TransferStates
  <2>8. \A r \in Handlers : ~Acting(r)
    BY <2>1, NobodyActs DEF NoneProcessing
  <2>9. \A r \in Handlers : task[r].kind # "credit"
    <3> SUFFICES ASSUME NEW r \in Handlers, task[r].kind = "credit" PROVE FALSE
      OBVIOUS
    <3>1. payout[task[r].payout].transfer \in Keys
          /\ transfer[payout[task[r].payout].transfer] = "processed"
      BY CreditedRow
    <3> QED BY <2>7, <3>1 DEF NothingSent
  <2>10. task'[p] = New("fail") /\ \A r \in Handlers : Acting(r)' => r = p
    BY <1>3, <2>2, <2>3, <2>8, <2>9, SoleStep
  <2>11. order.key # None
    BY <1>0, <2>1
  <2>12. Owns(p)'
    BY <1>3, <2>3, <2>6, <2>7, <2>10, <2>11 DEF Owns, ClaimKinds
  <2>13. ClaimsOwned' /\ CreditsRight' /\ TasksRight'
    BY <1>3, <2>2, <2>3, <2>8, <2>9, <2>12, SoleStep DEF ClaimKinds
  <2>14. UnclaimedIsUnsent' /\ SentForClaim'
    BY <1>3, <2>11 DEF UnclaimedIsUnsent, SentForClaim, Gate
  <2>15. RowsRight'
    <3> SUFFICES ASSUME NEW r \in Payouts PROVE RowRight(r)'
      BY DEF RowsRight
    <3>1. CASE r = q
      BY <1>0, <1>3, <1>7, <2>5, <3>1 DEF RowRight
    <3>2. CASE r # q
      BY <2>4, <2>5, <3>2 DEF RowRight, Gate, RowsRight
    <3> QED BY <3>1, <3>2
  <2>16. StateRight'
    BY <1>3, <2>8 DEF Gate, StateRight, Acting
  <2> QED BY <2>13, <2>14, <2>15, <2>16 DEF Gate
<1> QED BY <1>2, <1>6, <1>7

(* The transfer is credited, or waits behind a hold (CreditTransferred).   *)
LEMMA CreditKept ==
  ASSUME TypeOK, OneRow, Gate, NEW p \in Handlers, CreditTransferred(p)
  PROVE  Gate'
<1>0. task[p].kind = "credit" /\ task[p] \in Tasks
  BY DEF CreditTransferred, Busy, TypeOK
<1> DEFINE q == task[p].payout
           k == payout[q].transfer
<1>1. /\ q \in Payouts /\ k \in Keys /\ transfer[k] = "processed"
      /\ payout[q].status \in {"PROCESSING", "COMPLETED"}
  BY <1>0, CreditedRow
<1>2. \A r \in Handlers : ~Acting(r)
  BY <1>0, NobodyActs
<1>3. order.key # None
  BY <1>1 DEF Gate, UnclaimedIsUnsent, NothingSent
<1>4. UNCHANGED <<transfer, told, setting>>
  BY DEF CreditTransferred
<1>5. PICK t : /\ task' = [task EXCEPT ![p] = t] /\ t.key = None
               /\ t.kind \in {"idle", "finalize"} /\ TaskRight(t)
  <2>1. Idle.kind = "idle" /\ Idle.key = None /\ TaskRight(Idle)
    BY IdleQuietly DEF Idle
  <2>2. CASE Finish(p)
    BY <2>1, <2>2 DEF Finish
  <2>3. CASE Continue(p, "finalize")
    <3> DEFINE u == [task[p] EXCEPT !.kind = "finalize"]
    <3>1. task' = [task EXCEPT ![p] = u]
      BY <2>3 DEF Continue, TypeOK
    <3>2. u.kind = "finalize" /\ u.key = None
      BY <1>0, <1>2 DEF Tasks, Acting
    <3>3. TaskRight(u)
      BY <3>2 DEF TaskRight
    <3> HIDE DEF u
    <3> QED BY <3>1, <3>2, <3>3
  <2> QED BY <2>2, <2>3 DEF CreditTransferred
<1>6. task'[p] = t /\ \A r \in Handlers \ {p} : task'[r] = task[r]
  BY <1>5 DEF TypeOK
<1>7. \A r \in Handlers : ~Acting(r)'
  BY <1>2, <1>5, <1>6 DEF Acting
<1>8. \/ payout' = payout
      \/ payout' = [payout EXCEPT ![q].status = "COMPLETED"] /\ payout[q].status = "PROCESSING"
  BY <1>1 DEF CreditTransferred, processPayout, Processable, Open
<1>9. \A r \in Payouts : /\ payout'[r].transfer = payout[r].transfer
                         /\ \/ payout'[r].status = payout[r].status
                            \/ r = q /\ payout'[r].status = "COMPLETED"
  BY <1>8 DEF TypeOK
<1>10. /\ order'.key = order.key /\ order'.state = order.state /\ order'.mode = order.mode
       /\ order'.locked = order.locked
  BY DEF CreditTransferred, processPayout, TypeOK, Orders
<1>11. ClaimsOwned'
  BY <1>5, <1>6, <1>7 DEF ClaimsOwned, Gate, ClaimKinds
<1>12. UnclaimedIsUnsent' /\ SentForClaim'
  BY <1>3, <1>4, <1>10 DEF UnclaimedIsUnsent, SentForClaim, Gate
<1>13. RowsRight'
  <2> SUFFICES ASSUME NEW r \in Payouts PROVE RowRight(r)'
    BY DEF RowsRight
  <2>0. RowRight(r) /\ (NothingSent' <=> NothingSent) /\ k # None
    BY <1>1, <1>4, SettlementAssumption DEF Gate, RowsRight, NothingSent
  <2>1. CASE payout'[r].status = payout[r].status
    BY <1>4, <1>9, <1>10, <2>0, <2>1 DEF RowRight
  <2>2. CASE r = q /\ payout'[r].status = "COMPLETED"
    BY <1>1, <1>4, <1>9, <2>0, <2>2 DEF RowRight
  <2> QED BY <1>9, <2>1, <2>2
<1>14. CreditsRight' /\ TasksRight'
  <2> SUFFICES ASSUME NEW r \in Handlers PROVE CreditRight(r)' /\ TaskRight(task[r])'
    BY DEF CreditsRight, TasksRight
  <2>1. CASE r = p
    BY <1>4, <1>5, <1>6, <2>1 DEF CreditRight, TaskRight
  <2>2. CASE r # p
    <3>1. TaskRight(task[r])'
      BY <1>4, <1>6, <2>2 DEF Gate, TasksRight, TaskRight
    <3>2. ASSUME task[r].kind = "credit" PROVE CreditRight(r)'
      <4>1. task[r].payout \in Payouts
        BY <3>2, CreditedRow
      <4> QED BY <1>4, <1>6, <1>9, <2>2, <3>2, <4>1 DEF Gate, CreditsRight, CreditRight
    <3> QED BY <1>6, <2>2, <3>1, <3>2 DEF CreditRight
  <2> QED BY <2>1, <2>2
<1>15. StateRight'
  BY <1>2, <1>10 DEF Gate, StateRight, Acting
<1> QED BY <1>11, <1>12, <1>13, <1>14, <1>15 DEF Gate

(* A transfer succeeds or fails.                                           *)
LEMMA TransferKept ==
  ASSUME TypeOK, Gate, GatewaySetting, NEW k \in Keys, TransferEnds(k)
  PROVE  Gate'
<1>0. PICK s \in {"processed", "failed"} :
        transfer' = [transfer EXCEPT ![k] = s] /\ transfer[k] = "processing"
  BY DEF TransferEnds, Surprise, GatewaySetting, ThroughGateway
<1>1. UNCHANGED <<order, payout, wallet, told, task, setting>>
  BY DEF TransferEnds
<1>2. transfer'[k] = s /\ \A i \in Keys \ {k} : transfer'[i] = transfer[i]
  BY <1>0 DEF TypeOK
<1>3. k = order.key /\ ~NothingSent
  BY <1>0 DEF Gate, SentForClaim, NothingSent
<1>4. /\ Paid' = Paid /\ Standing' = Standing /\ (NoneProcessing' <=> NoneProcessing)
      /\ \A r \in Handlers : Acting(r)' <=> Acting(r)
  BY <1>1 DEF Paid, Standing, NoneProcessing, Acting
<1>5. ClaimsOwned'
  <2> SUFFICES ASSUME NEW r \in Handlers
               PROVE  /\ Acting(r)' => Owns(r)'
                      /\ task'[r].kind \in ClaimKinds => task'[r].key # None
    BY DEF ClaimsOwned
  <2>1. ASSUME Acting(r)' PROVE Owns(r)'
    <3>1. Owns(r) /\ task[r].kind = "record"
      BY <1>3, <1>4, <2>1 DEF Gate, ClaimsOwned, Owns
    <3> QED BY <1>1, <1>2, <1>3, <1>4, <3>1 DEF Owns
  <2>2. task'[r].kind \in ClaimKinds => task'[r].key # None
    BY <1>1 DEF Gate, ClaimsOwned
  <2> QED BY <2>1, <2>2
<1>6. UnclaimedIsUnsent' /\ SentForClaim'
  <2>1. order.key # None
    BY <1>3, SettlementAssumption
  <2> QED BY <1>1, <1>2, <1>3, <2>1 DEF UnclaimedIsUnsent, SentForClaim, Gate
<1>7. RowsRight'
  <2> SUFFICES ASSUME NEW r \in Payouts PROVE RowRight(r)'
    BY DEF RowsRight
  <2>1. RowRight(r) /\ payout[r].transfer \in Keys \cup {None}
    BY DEF Gate, RowsRight, TypeOK
  <2> QED BY <1>0, <1>1, <1>2, <1>3, <2>1 DEF RowRight
<1>8. CreditsRight' /\ TasksRight'
  <2>1. \A r \in Handlers : task[r].kind = "credit" =>
          /\ payout[task[r].payout].transfer \in Keys \ {k}
          /\ task[r].payout # None /\ payout[task[r].payout].transfer # None
          /\ transfer[payout[task[r].payout].transfer] = "processed"
    BY <1>0, CreditedRow DEF Gate, CreditsRight, CreditRight
  <2> QED BY <1>1, <1>2, <2>1 DEF CreditsRight, CreditRight, Gate, TasksRight, TaskRight
<1>9. StateRight'
  BY <1>1 DEF Gate, StateRight
<1> QED BY <1>5, <1>6, <1>7, <1>8, <1>9 DEF Gate

(* A handler dies.  Its claim stays, which is why handlers may not die     *)
(* where payments by hand, which a retry takes over, are mixed in.         *)
LEMMA CrashKept ==
  ASSUME TypeOK, Gate, GatewaySetting, NEW p \in Handlers, Crash(p)
  PROVE  Gate'
<1>0. /\ UNCHANGED <<order, payout, wallet, transfer, told, setting>>
      /\ task' = [task EXCEPT ![p] = Idle] /\ setting.modes \subseteq {"AUTOMATIC"}
  <2>1. setting.modes \subseteq Modes
    BY SettlementAssumption DEF TypeOK
  <2>2. "MANUAL" \notin setting.modes
    BY DEF Crash, Surprise, GatewaySetting, ThroughGateway
  <2> QED BY <2>1, <2>2 DEF Crash, Finish, Modes
<1>1. task'[p] = Idle /\ \A r \in Handlers \ {p} : task'[r] = task[r]
  BY <1>0 DEF TypeOK
<1>2. Idle.key = None /\ Idle.kind = "idle" /\ TaskRight(Idle)
  BY IdleQuietly DEF Idle
<1>3. /\ Paid' = Paid /\ Standing' = Standing /\ (NoneProcessing' <=> NoneProcessing)
      /\ (NothingSent' <=> NothingSent)
      /\ \A r \in Handlers : Acting(r)' => Acting(r) /\ r # p
  BY <1>0, <1>1, <1>2 DEF Paid, Standing, NoneProcessing, NothingSent, Acting
<1>4. ClaimsOwned'
  <2> SUFFICES ASSUME NEW r \in Handlers
               PROVE  /\ Acting(r)' => Owns(r)'
                      /\ task'[r].kind \in ClaimKinds => task'[r].key # None
    BY DEF ClaimsOwned
  <2>1. ASSUME Acting(r)' PROVE Owns(r)'
    <3>1. Owns(r) /\ task'[r] = task[r] /\ \A i \in Handlers : Acting(i)' => i = r
      BY <1>1, <1>3, <2>1 DEF Gate, ClaimsOwned, Owns
    <3> QED BY <1>0, <1>3, <3>1 DEF Owns
  <2>2. task'[r].kind \in ClaimKinds => task'[r].key # None
    BY <1>1, <1>2 DEF Gate, ClaimsOwned, ClaimKinds
  <2> QED BY <2>1, <2>2
<1>5. UnclaimedIsUnsent' /\ SentForClaim' /\ RowsRight'
  BY <1>0, <1>3 DEF Gate, UnclaimedIsUnsent, SentForClaim, RowsRight, RowRight
<1>6. CreditsRight' /\ TasksRight'
  <2> SUFFICES ASSUME NEW r \in Handlers PROVE CreditRight(r)' /\ TaskRight(task[r])'
    BY DEF CreditsRight, TasksRight
  <2>1. CASE r = p
    BY <1>1, <1>2, <2>1 DEF CreditRight, TaskRight, Idle
  <2>2. CASE r # p
    BY <1>0, <1>1, <2>2 DEF Gate, CreditsRight, CreditRight, TasksRight, TaskRight
  <2> QED BY <2>1, <2>2
<1>7. StateRight'
  <2>1. order.state = "PAYING" => order.mode = "AUTOMATIC"
    <3> SUFFICES ASSUME order.state = "PAYING", NEW r \in Handlers, task[r].key # None
                 PROVE  order.mode = "AUTOMATIC"
      BY DEF Gate, StateRight
    <3>1. Owns(r) /\ TaskRight(task[r])
      BY OwnerAlone DEF Acting
    <3> QED BY <1>0, <3>1 DEF Owns, TaskRight
  <2> QED BY <1>0, <2>1 DEF Gate, StateRight
<1> QED BY <1>4, <1>5, <1>6, <1>7 DEF Gate

-----------------------------------------------------------------------------
(* What a step through the gateway does to rows and wallet: besides what   *)
(* one by hand does, a row that stands goes to the gateway or comes back   *)
(* failed.  Nothing of it happens once the row is paid.                    *)
Moves(q) ==
  /\ q \in Promised /\ wallet' = wallet
  /\ \E status \in {"PROCESSING", "FAILED"}, k \in Keys \cup {None} :
       payout' = [payout EXCEPT ![q] = [status |-> status, transfer |-> k]]

LEMMA MovesKept ==
  ASSUME TypeOK, OneRow, NEW q \in Payouts, Moves(q)
  PROVE  OneRow' /\ Paid = {}
<1>1. Standing = {q} /\ payout[q].status # "COMPLETED" /\ wallet.pending = 1
      /\ wallet.available = 0 /\ Paid = {}
  BY DEF Moves, OneRow, Promised, Standing, Paid
<1>2. payout'[q].status \in {"PROCESSING", "FAILED"}
      /\ \A r \in Payouts \ {q} : payout'[r] = payout[r]
  BY DEF Moves, TypeOK
<1>3. Standing' = {q}
  BY <1>1, <1>2 DEF Standing
<1>4. wallet' = wallet
  BY DEF Moves
<1> QED BY <1>1, <1>2, <1>3, <1>4 DEF OneRow

LEMMA GateSteps ==
  ASSUME GatewaySetting, GateInv, [Next]_vars
  PROVE  RowStep \/ \E q \in Payouts : Moves(q)
<1> USE DEF GateInv
<1>1. \A q \in Payouts : createPendingPayoutForOrder(q) => RowStep
  BY DEF createPendingPayoutForOrder, RowStep, Creates
<1>2. cancelPendingPayoutForOrder => RowStep
  BY DEF cancelPendingPayoutForOrder, RowStep, Cancels, Open
<1>3. \A q : processPayout(q) => RowStep
  BY DEF processPayout, Processable, RowStep, Pays, Open
<1>4. ASSUME NEW p \in Handlers, NEW q \in Payouts,
             ReceiveWebhook(p, q) \/ ReconcileProcessing(p, q)
      PROVE  RowStep \/ Moves(q)
  <2> DEFINE k == payout[q].transfer
  <2>1. PICK s \in Outcomes :
          /\ handlePayoutWebhook(p, q, s) /\ k # None /\ transfer[k] = s
          /\ <<k, s>> \notin told \/ payout[q].status = "PROCESSING"
    BY <1>4 DEF ReceiveWebhook, ReconcileProcessing, Reported, GatewaySetting,
       ThroughGateway, Surprise
  <2>2. k \in Keys /\ payout[q].status \in PayoutStatuses /\ RowRight(q)
    BY <2>1 DEF TypeOK, Gate, RowsRight
  <2>3. s \in {"processed", "failed"}
    BY <2>1, <2>2 DEF Gate, SentForClaim, Outcomes
  <2>4. CASE s = "processed"
    BY <2>1, <2>4 DEF handlePayoutWebhook, RowStep
  <2>5. CASE s = "failed"
    <3>1. payout[q].status = "PROCESSING"
      BY <2>1, <2>2, <2>5 DEF RowRight, PayoutStatuses
    <3>2. payout' = [payout EXCEPT ![q].status = "FAILED"] /\ wallet' = wallet
      BY <2>1, <2>5 DEF handlePayoutWebhook
    <3>3. payout[q] \in [status : PayoutStatuses, transfer : Keys \cup {None}]
      BY DEF TypeOK
    <3>4. [payout[q] EXCEPT !.status = "FAILED"] = [status |-> "FAILED", transfer |-> k]
      BY <3>3
    <3>5. payout' = [payout EXCEPT ![q] = [status |-> "FAILED", transfer |-> k]]
      BY <3>2, <3>4 DEF TypeOK
    <3> QED BY <2>2, <3>1, <3>2, <3>5 DEF Moves, Promised, Standing, Paid
  <2> QED BY <2>3, <2>4, <2>5
<1>5. ASSUME NEW p \in Handlers, RecordTransfer(p) PROVE \E q \in Payouts : Moves(q)
  <2>1. task[p].kind = "record" /\ task[p] \in Tasks /\ Acting(p)
    BY <1>5 DEF RecordTransfer, Busy, TypeOK, Gate, ClaimsOwned, ClaimKinds, Acting
  <2>2. task[p].payout \in Standing /\ Paid = {} /\ task[p].key \in Keys \cup {None}
    BY <2>1, OwnerAlone DEF Owns, ClaimKinds, Tasks
  <2> QED BY <1>5, <2>2 DEF RecordTransfer, Moves, Promised, Standing
<1>6. ASSUME NEW p \in Handlers, Begin(p) PROVE RowStep \/ \E q \in Payouts : Moves(q)
  BY <1>1, <1>4, <1>6 DEF Begin, SettleDelivery, paySettlementRead, retrySettlementRead,
     markReadySweepRead, markReviewedRead, holdSellerPayoutRead, releaseSellerPayoutRead,
     RowStep
<1>7. ASSUME NEW p \in Handlers, Resume(p) PROVE RowStep \/ \E q \in Payouts : Moves(q)
  <2>1. CASE CancelStale(p) \/ \E q \in Payouts : CreateSettled(p, q)
    BY <1>1, <1>2, <2>1 DEF CancelStale, CreateSettled
  <2>2. CASE PayManually(p) \/ CreditTransferred(p)
    BY <1>3, <2>2 DEF PayManually, CreditTransferred, RowStep
  <2>3. CASE \/ settleDeliveredOrder(p) \/ markReadySweep(p) \/ markReviewed(p)
             \/ holdSellerPayout(p) \/ releaseSellerPayout(p) \/ ClaimSettlement(p)
             \/ RefuseManual(p) \/ failSettlement(p) \/ finalizeSettlement(p)
             \/ CreateSellerPayout(p) \/ retrySettlement(p) \/ PayAgain(p)
    BY <2>3 DEF settleDeliveredOrder, markReadySweep, markReviewed, holdSellerPayout,
       releaseSellerPayout, ClaimSettlement, RefuseManual, failSettlement,
       finalizeSettlement, CreateSellerPayout, retrySettlement, PayAgain, RowStep
  <2> QED BY <1>5, <1>7, <2>1, <2>2, <2>3 DEF Resume
<1>8. ASSUME NEW q \in Payouts, ProcessAtDesk(q) PROVE RowStep
  BY <1>3, <1>8 DEF ProcessAtDesk
<1>9. ASSUME \/ \E p \in Handlers : Crash(p)
             \/ \E k \in Keys : TransferEnds(k)
             \/ Complain \/ WindowCloses \/ UNCHANGED vars
      PROVE  RowStep
  BY <1>9 DEF Crash, TransferEnds, Complain, WindowCloses, vars, RowStep
<1> QED BY <1>6, <1>7, <1>8, <1>9 DEF Next

(* Every step of a settlement paid through the gateway.                    *)
LEMMA GateKept ==
  ASSUME GatewaySetting, GateInv, [Next]_vars
  PROVE  Gate'
<1> USE DEF GateInv
<1>1. ASSUME NEW p \in Handlers, Begin(p) PROVE Gate'
  BY <1>1, BeginQuiet, RetryReadQuiet, WebhookKept DEF Begin
<1>2. ASSUME NEW p \in Handlers, Resume(p) PROVE Gate'
  BY <1>2, SavesQuiet, ClaimKept, StaleCancelled, SettledCreated, HandPaid, HandRefused,
     FailKept, FinalizeKept, CallKept, RecordKept, CreditKept DEF Resume
<1>3. ASSUME NEW p \in Handlers, Crash(p) PROVE Gate'
  BY <1>3, CrashKept
<1>4. ASSUME NEW q \in Payouts, ProcessAtDesk(q) PROVE Gate'
  BY <1>4 DEF ProcessAtDesk, GatewaySetting, ThroughGateway, Surprise
<1>5. ASSUME NEW k \in Keys, TransferEnds(k) PROVE Gate'
  BY <1>5, TransferKept
<1>6. CASE Complain \/ WindowCloses
  BY <1>6, ComplaintQuiet
<1>7. CASE UNCHANGED vars
  BY <1>7, QuietKept DEF QuietStep, OrderKept, RowsKeptOrMade, TasksKept, vars
<1> QED BY <1>1, <1>2, <1>3, <1>4, <1>5, <1>6, <1>7 DEF Next

LEMMA GateRowsKept ==
  ASSUME GatewaySetting, GateInv, [Next]_vars
  PROVE  OneRow' /\ (Paid # {} => Paid' # {} /\ UNCHANGED <<payout, wallet>>)
<1>1. CASE RowStep
  BY <1>1, RowsKept DEF GateInv
<1>2. CASE \E q \in Payouts : Moves(q)
  BY <1>2, MovesKept DEF GateInv
<1> QED BY <1>1, <1>2, GateSteps

(* The rows, the claim and the locks of one paid through the gateway.      *)
LEMMA GateInvariant == Spec => [](GatewaySetting => GateInv)
<1>1. Init /\ TypeOK => GateInv
  <2> SUFFICES ASSUME Init, TypeOK PROVE GateInv
    OBVIOUS
  <2>1. OneRow
    BY DEF Init, OneRow, Standing
  <2>2. LocksPaid
    BY DEF Init, LocksPaid, LockedIsPaid, NewOrder, Idle, Nothing
  <2>3. ClaimsOwned /\ CreditsRight /\ TasksRight
    BY DEF Init, ClaimsOwned, Acting, CreditsRight, CreditRight, TasksRight, TaskRight, Idle,
       ClaimKinds
  <2>4. UnclaimedIsUnsent /\ SentForClaim /\ RowsRight /\ StateRight
    BY DEF Init, UnclaimedIsUnsent, Paid, NoneProcessing, NothingSent, SentForClaim, RowsRight,
       RowRight, StateRight, NewOrder
  <2> QED BY <2>1, <2>2, <2>3, <2>4 DEF GateInv, Gate
<1>2. (GatewaySetting => GateInv) /\ [Next]_vars /\ TypeOK' => (GatewaySetting => GateInv)'
  <2> SUFFICES ASSUME GatewaySetting => GateInv, [Next]_vars, TypeOK', GatewaySetting'
               PROVE  GateInv'
    OBVIOUS
  <2>1. GatewaySetting /\ GateInv
    BY SettingKept DEF GatewaySetting, ThroughGateway
  <2>2. OneRow' /\ (Paid # {} => Paid' # {})
    BY <2>1, GateRowsKept
  <2>3. LocksPaid'
    BY <2>1, <2>2, LocksKept DEF GateInv
  <2> QED BY <2>1, <2>2, <2>3, GateKept DEF GateInv
<1> QED BY <1>1, <1>2, SettlementTyped, PTL DEF Spec

-----------------------------------------------------------------------------
(* Both ways of paying.                                                    *)
Settled == TypeOK /\ OneRow /\ LocksPaid /\ PaidOnce

LEMMA HandPaysOnce == HandInv => Settled
<1> SUFFICES ASSUME HandInv PROVE PaidOnce
  BY DEF HandInv, Settled
<1>1. Transferred = {}
  BY DEF HandInv, NoTransfers, Transferred
<1>2. PaidByHand = {} \/ \E q \in Payouts : PaidByHand = {q}
  BY DEF HandInv, OneRow, Standing, Paid, PaidByHand
<1>3. Cardinality(PaidByHand) \in {0, 1}
  BY <1>2, FS_EmptySet, FS_Singleton
<1> QED BY <1>1, <1>3, FS_EmptySet DEF PaidOnce

(* One transfer is the claim's, and none was sent if the row was paid by   *)
(* hand.                                                                   *)
LEMMA GatewayPaysOnce == GateInv => Settled
<1> SUFFICES ASSUME GateInv PROVE PaidOnce
  BY DEF GateInv, Settled
<1>0. Cardinality({}) = 0 /\ \A x : Cardinality({x}) = 1
  BY FS_EmptySet, FS_Singleton
<1>1. Transferred = {} \/ Transferred = {order.key}
  BY DEF GateInv, Gate, SentForClaim, Transferred
<1>2. PaidByHand = {} \/ \E q \in Payouts : PaidByHand = {q}
  BY DEF GateInv, OneRow, Standing, Paid, PaidByHand
<1>3. PaidByHand # {} => Transferred = {}
  BY DEF GateInv, Gate, RowsRight, RowRight, PaidByHand, Paid, NothingSent, Transferred
<1>4. Cardinality(Transferred) \in {0, 1} /\ Cardinality(PaidByHand) \in {0, 1}
  BY <1>0, <1>1, <1>2
<1>5. Cardinality(Transferred) = 0 \/ Cardinality(PaidByHand) = 0
  BY <1>0, <1>3
<1> QED BY <1>4, <1>5 DEF PaidOnce

LEMMA SettledInvariant == SettlementsGuarded => (Spec => []Settled)
<1> SUFFICES ASSUME SettlementsGuarded PROVE Spec => []Settled
  OBVIOUS
<1>1. TypeOK => HandSetting \/ GatewaySetting
  BY DEF SettlementsGuarded, TypeOK, HandSetting, GatewaySetting
<1>2. TypeOK /\ (HandSetting => HandInv) /\ (GatewaySetting => GateInv) => Settled
  BY <1>1, HandPaysOnce, GatewayPaysOnce
<1> QED BY <1>2, SettlementTyped, HandInvariant, GateInvariant, PTL

(* However often a settlement is claimed, refused, retried or processed at *)
(* the desk, by hand or with handlers that die over a transfer, at most    *)
(* one payout of the order stands.                                         *)
THEOREM OnePayoutStands == SettlementsGuarded => (Spec => []OneStandingPayout)
<1>1. Settled => OneStandingPayout
  <2> SUFFICES ASSUME Settled PROVE OneStandingPayout
    OBVIOUS
  <2>1. Standing = {} \/ \E q \in Payouts : Standing = {q}
    BY DEF Settled, OneRow
  <2>2. Cardinality(Standing) \in {0, 1}
    BY <2>1, FS_EmptySet, FS_Singleton
  <2> QED BY <2>2 DEF OneStandingPayout
<1> QED BY <1>1, SettledInvariant, PTL

(* The wallet owes the store what is promised and holds what is paid.      *)
THEOREM WalletIsTrue == SettlementsGuarded => (Spec => []WalletMatchesPayouts)
<1>1. Settled => WalletMatchesPayouts
  <2> SUFFICES ASSUME Settled PROVE WalletMatchesPayouts
    OBVIOUS
  <2>0. Cardinality({}) = 0 /\ \A q : Cardinality({q}) = 1
    BY FS_EmptySet, FS_Singleton
  <2>1. CASE Standing = {} /\ wallet.pending = 0 /\ wallet.available = 0
    <3>1. Paid = {} /\ Promised = {}
      BY <2>1 DEF Standing, Paid, Promised
    <3> QED BY <2>0, <2>1, <3>1 DEF WalletMatchesPayouts
  <2>2. ASSUME NEW q \in Payouts, Standing = {q},
               IF payout[q].status = "COMPLETED"
               THEN wallet.pending = 0 /\ wallet.available = 1
               ELSE wallet.pending = 1 /\ wallet.available = 0
        PROVE  WalletMatchesPayouts
    <3>1. CASE payout[q].status = "COMPLETED"
      <4>1. Paid = {q} /\ Promised = {}
        BY <2>2, <3>1 DEF Standing, Paid, Promised
      <4> QED BY <2>0, <2>2, <3>1, <4>1 DEF WalletMatchesPayouts
    <3>2. CASE payout[q].status # "COMPLETED"
      <4>1. Paid = {} /\ Promised = {q}
        BY <2>2, <3>2 DEF Standing, Paid, Promised
      <4> QED BY <2>0, <2>2, <3>2, <4>1 DEF WalletMatchesPayouts
    <3> QED BY <3>1, <3>2
  <2> QED BY <2>1, <2>2 DEF Settled, OneRow
<1> QED BY <1>1, SettledInvariant, PTL

(* The store is paid at most once: one transfer or one payment by hand.    *)
THEOREM StorePaidOnce == SettlementsGuarded => (Spec => []PaidOnce)
<1>1. Settled => PaidOnce
  BY DEF Settled
<1> QED BY <1>1, SettledInvariant, PTL

(* A settlement is locked only with its payout paid (finalizeSettlement).  *)
THEOREM LockedWasPaid == SettlementsGuarded => (Spec => []LockedIsPaid)
<1>1. Settled => LockedIsPaid
  BY DEF Settled, LocksPaid
<1> QED BY <1>1, SettledInvariant, PTL

(* A locked settlement stays as it was paid: no claim, retry, cancellation,*)
(* desk run or webhook still under way touches its rows or the wallet.     *)
THEOREM LockedStaysPaid == SettlementsGuarded => (Spec => LockedMovesNoMoney)
<1> SUFFICES ASSUME SettlementsGuarded PROVE Spec => LockedMovesNoMoney
  OBVIOUS
<1>1. TypeOK /\ (HandSetting => HandInv) /\ (GatewaySetting => GateInv) /\ [Next]_vars
        => [order.locked => UNCHANGED <<payout, wallet>>]_vars
  <2> SUFFICES ASSUME TypeOK, HandSetting => HandInv, GatewaySetting => GateInv,
                      [Next]_vars, order.locked
               PROVE  UNCHANGED <<payout, wallet>>
    OBVIOUS
  <2>1. CASE HandSetting
    BY <2>1, HandSteps, RowsKept DEF HandInv, LocksPaid, LockedIsPaid
  <2>2. CASE GatewaySetting
    BY <2>2, GateRowsKept DEF GateInv, LocksPaid, LockedIsPaid
  <2>3. HandSetting \/ GatewaySetting
    BY DEF SettlementsGuarded, TypeOK, HandSetting, GatewaySetting
  <2> QED BY <2>1, <2>2, <2>3
<1> QED BY <1>1, SettlementTyped, HandInvariant, GateInvariant, PTL DEF Spec, LockedMovesNoMoney
=============================================================================
