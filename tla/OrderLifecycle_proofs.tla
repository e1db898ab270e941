----------------------- MODULE OrderLifecycle_proofs -----------------------
(***************************************************************************)
(* The workflow implements the abstract lifecycle, and an order that is    *)
(* not cancelled holds its stock. Both need the same strengthening: only a *)
(* cancelled order has a handler that compensates, and no handler is in    *)
(* the middle of the customer pickup, whose last write is not guarded.     *)
(***************************************************************************)
EXTENDS OrderWorkflow_proofs

(* The handlers that write the status only under a guard: no endpoints     *)
(* that save without one, no guest couriers (whose revocation reopens the  *)
(* search from any status), no customer pickup.                            *)
StatusGuarded ==
  /\ Couriers = {} /\ Endpoints = {}
  /\ "customer_pickup" \notin Methods /\ "customerPickup" \notin Policy

(* The handlers whose last write would not be guarded.                     *)
PickupTasks == {"pickupReady", "pickupVerify"}

(* Nothing is under dispute or collected by the customer, a handler        *)
(* compensates only what is cancelled, and an order that is not cancelled  *)
(* holds its stock.                                                        *)
LifeInv ==
  /\ order.fulfillmentMethod # "customer_pickup"
  /\ Status # "DISPUTED"
  /\ LiveOrderHoldsStock
  /\ \A p \in Processes : task[p].kind \notin PickupTasks
  /\ \A p \in Processes : task[p].kind = "compensate" => Status = "CANCELLED"

(* A step of the lifecycle, or none.                                       *)
Moves == Lifecycle!Next \/ order'.workflowStatus = Status

(* What a step may do to the document. *)
DocumentStep ==
  /\ Moves
  /\ order'.fulfillmentMethod # "customer_pickup"
  /\ order'.workflowStatus # "DISPUTED"
  /\ \/ order'.stock = order.stock
     \/ order'.stock = "reserved"
     \/ order'.workflowStatus = "CANCELLED"

(* A step along the table, or one of the steps the services add, is a step *)
(* of the lifecycle (orderStateMachine.js).                                *)
LEMMA MoveByTable ==
  ASSUME order'.workflowStatus \in WorkflowStatuses,
         \/ CanTransition(Status, order'.workflowStatus)
         \/ <<Status, order'.workflowStatus>> \in Lifecycle!ServiceSteps
  PROVE  Moves
  BY DEF Moves, Lifecycle!Next, Lifecycle!Advance, Status, CanTransition,
         WorkflowStatuses, Lifecycle!CanTransition, Lifecycle!WorkflowStatuses,
         TRANSITIONS, Lifecycle!TRANSITIONS

(* The lifecycle never leaves CANCELLED.                                   *)
LEMMA CancelledStays ==
  ASSUME Moves, Status = "CANCELLED" PROVE order'.workflowStatus = "CANCELLED"
  BY DEF Moves, Lifecycle!Next, Lifecycle!Restart, Lifecycle!Advance,
         Lifecycle!CanTransition, Lifecycle!TRANSITIONS, Lifecycle!ServiceSteps, Status

(* Every open status may be cancelled, except CREATED                      *)
(* (orderStateMachine.js).                                                 *)
LEMMA MayBeCancelled ==
  \A s \in WorkflowStatuses \ {"CREATED", "DELIVERED", "DISPUTED"} : CanTransition(s, "CANCELLED")
  BY DEF WorkflowStatuses, CanTransition, TRANSITIONS

(* The status is one of the table's.                                       *)
LEMMA StatusTyped == ASSUME TypeInv PROVE Status \in WorkflowStatuses
  BY DEF TypeInv, TypeOK, Orders, Status

(* A guarded write that moves along the lifecycle keeps the invariant.     *)
LEMMA LifeStep ==
  ASSUME LifeInv, DocumentStep, UNCHANGED task PROVE LifeInv'
  BY CancelledStays DEF LifeInv, DocumentStep, LiveOrderHoldsStock, Status

(* So does one by a handler that compensates only after cancelling.        *)
LEMMA LifeTaskStep ==
  ASSUME TypeInv, LifeInv, DocumentStep,
         NEW p, NEW t \in Tasks, task' = [task EXCEPT ![p] = t],
         t.kind \notin PickupTasks,
         t.kind = "compensate" => order'.workflowStatus = "CANCELLED"
  PROVE  LifeInv'
<1>1. LiveOrderHoldsStock'
  BY CancelledStays DEF LifeInv, DocumentStep, LiveOrderHoldsStock, Status
<1>2. /\ \A q \in Processes : task'[q].kind \notin PickupTasks
      /\ \A q \in Processes : task'[q].kind = "compensate" => order'.workflowStatus = "CANCELLED"
  BY CancelledStays DEF LifeInv, DocumentStep, TypeInv, TypeOK, Status
<1> QED BY <1>1, <1>2 DEF LifeInv, DocumentStep, Status

(* So does the end of a handler.                                           *)
LEMMA LifeFinish ==
  ASSUME TypeInv, LifeInv, DocumentStep, NEW p, Finish(p) PROVE LifeInv'
  BY LifeTaskStep, TasksTyped DEF Finish, PickupTasks

(* So does the start of a handler that neither collects nor compensates.   *)
LEMMA LifeStart ==
  ASSUME TypeInv, LifeInv, DocumentStep,
         NEW p, NEW kind \in TaskKinds \ (PickupTasks \cup {"compensate"}), Start(p, Task(kind))
  PROVE  LifeInv'
  BY LifeTaskStep, TasksTyped DEF Start

(* A write that keeps status, stock and method is a step of the document.  *)
LEMMA SameStatus ==
  ASSUME LifeInv, order'.workflowStatus = Status, order'.stock = order.stock,
         order'.fulfillmentMethod = order.fulfillmentMethod
  PROVE  DocumentStep
  BY DEF LifeInv, DocumentStep, Moves

(* A cancellation from a status that allows it keeps the invariant; the    *)
(* stock is still held and its handler compensates next.                   *)
LEMMA LifeCancel ==
  ASSUME TypeInv, LifeInv, NEW p, NEW doc \in Orders, Cancel(p, doc),
         doc.stock = order.stock, doc.fulfillmentMethod = order.fulfillmentMethod,
         \/ CanTransition(Status, "CANCELLED")
         \/ <<Status, "CANCELLED">> \in Lifecycle!ServiceSteps
  PROVE  DocumentStep /\ LifeInv'
<1>1. /\ order'.workflowStatus = "CANCELLED" /\ order'.stock = order.stock
      /\ order'.fulfillmentMethod = order.fulfillmentMethod
  BY DEF Cancel, Orders
<1>2. Moves
  BY <1>1, MoveByTable DEF WorkflowStatuses
<1>3. DocumentStep
  BY <1>1, <1>2 DEF DocumentStep, LifeInv
<1>4. Task("compensate") \in Tasks /\ Task("compensate").kind = "compensate"
  BY TasksTyped DEF TaskKinds
<1> QED BY <1>1, <1>3, <1>4, LifeTaskStep DEF Cancel, PickupTasks

(* The passing of time stutters.                                           *)
LEMMA TimeFollows ==
  ASSUME StatusGuarded, TypeInv, LifeInv, Time
  PROVE  DocumentStep /\ LifeInv'
<1> USE DEF TypeInv, TypeOK
<1>1. CASE SellerWindowCloses
  <2>1. DocumentStep
    BY <1>1, SameStatus DEF SellerWindowCloses, Orders, Status
  <2> QED BY <1>1, <2>1, LifeStep DEF SellerWindowCloses
<1>2. CASE DeadlinePasses
  <2>1. DocumentStep
    BY <1>2, SameStatus DEF DeadlinePasses, Orders, Status
  <2> QED BY <1>2, <2>1, LifeStep DEF DeadlinePasses
<1>3. CASE SearchWindowCloses
  <2>1. DocumentStep
    BY <1>3, SameStatus DEF SearchWindowCloses, Orders, Status
  <2> QED BY <1>3, <2>1, LifeStep DEF SearchWindowCloses
<1>4. CASE ActivationDue
  <2>1. DocumentStep
    BY <1>4, SameStatus DEF ActivationDue, Orders, Status
  <2> QED BY <1>4, <2>1, LifeStep DEF ActivationDue
<1> QED BY <1>1, <1>2, <1>3, <1>4 DEF Time

(* A rider moves the order along the table.                                *)
LEMMA RiderStepFollows ==
  ASSUME StatusGuarded, TypeInv, LifeInv, NEW r \in Riders, RiderStep(r)
  PROVE  DocumentStep /\ LifeInv'
<1> USE DEF TypeInv, TypeOK
<1>1. CASE DeliveryAccept(r)
  <2>1. /\ order'.workflowStatus = "DELIVERY_ASSIGNED" /\ order'.stock = order.stock
        /\ order'.fulfillmentMethod = order.fulfillmentMethod
    BY <1>1 DEF DeliveryAccept, Orders
  <2>2. DocumentStep
    BY <1>1, <2>1, MoveByTable
    DEF DeliveryAccept, DocumentStep, LifeInv, WorkflowStatuses, CanTransition, TRANSITIONS
  <2> QED BY <1>1, <2>1, <2>2, LifeStep DEF DeliveryAccept
<1>2. CASE AdminAssignRider(r)
  <2>1. /\ order'.workflowStatus = "DELIVERY_ASSIGNED" /\ order'.stock = order.stock
        /\ order'.fulfillmentMethod = order.fulfillmentMethod
    BY <1>2 DEF AdminAssignRider, Orders
  <2>2. DocumentStep
    BY <1>2, <2>1, MoveByTable
    DEF AdminAssignRider, DocumentStep, LifeInv, WorkflowStatuses, CanTransition, TRANSITIONS
  <2> QED BY <1>2, <2>1, <2>2, LifeStep DEF AdminAssignRider
<1>3. CASE SkipOrder(r)
  <2>1. DocumentStep
    BY <1>3, SameStatus DEF SkipOrder, Orders, Status
  <2> QED BY <1>3, <2>1, LifeStep DEF SkipOrder
<1>4. CASE MarkArrivedAtStore(r)
  <2>1. /\ order'.workflowStatus = "PICKUP_READY" /\ order'.stock = order.stock
        /\ order'.fulfillmentMethod = order.fulfillmentMethod
    BY <1>4 DEF MarkArrivedAtStore, Orders
  <2>2. DocumentStep
    BY <1>4, <2>1, MoveByTable
    DEF MarkArrivedAtStore, DocumentStep, LifeInv, WorkflowStatuses, CanTransition, TRANSITIONS
  <2> QED BY <1>4, <2>1, <2>2, LifeStep DEF MarkArrivedAtStore
<1>5. CASE ConfirmPickup(r)
  <2>1. /\ order'.workflowStatus = "OUT_FOR_DELIVERY" /\ order'.stock = order.stock
        /\ order'.fulfillmentMethod = order.fulfillmentMethod
    BY <1>5 DEF ConfirmPickup, Orders
  <2>2. DocumentStep
    BY <1>5, <2>1, MoveByTable
    DEF ConfirmPickup, DocumentStep, LifeInv, WorkflowStatuses, CanTransition, TRANSITIONS
  <2> QED BY <1>5, <2>1, <2>2, LifeStep DEF ConfirmPickup
<1>6. CASE VerifyHandoffAndDeliver(r)
  <2>1. /\ order'.workflowStatus = "DELIVERED" /\ order'.stock = order.stock
        /\ order'.fulfillmentMethod = order.fulfillmentMethod
    BY <1>6 DEF VerifyHandoffAndDeliver, Orders
  <2>2. DocumentStep
    BY <1>6, <2>1, MoveByTable
    DEF VerifyHandoffAndDeliver, DocumentStep, LifeInv, WorkflowStatuses, CanTransition, TRANSITIONS
  <2> QED BY <1>6, <2>1, <2>2, LifeStep DEF VerifyHandoffAndDeliver
<1> QED BY <1>1, <1>2, <1>3, <1>4, <1>5, <1>6 DEF RiderStep

(* An accepted order is dispatched along the table.                        *)
LEMMA DispatchFollows ==
  ASSUME NEW doc \in Orders, doc.fulfillmentMethod # "customer_pickup",
         order' = Dispatch(doc), doc.stock = order.stock,
         Status \in {"SELLER_PENDING", "SCHEDULED_HOLD"}
  PROVE  DocumentStep
<1>1. /\ order'.workflowStatus \in {"EXTERNAL_LOGISTICS_PENDING", "DELIVERY_SEARCH"}
      /\ order'.stock = order.stock
      /\ order'.fulfillmentMethod = doc.fulfillmentMethod
  BY DEF Dispatch, OpenSearch, Orders
<1>2. CanTransition(Status, order'.workflowStatus)
  BY <1>1 DEF CanTransition, TRANSITIONS
<1> QED BY <1>1, <1>2, MoveByTable DEF DocumentStep, WorkflowStatuses

(* The single guarded writes move along the table, or restart the order.   *)
LEMMA PlainRequestFollows ==
  ASSUME StatusGuarded, TypeInv, LifeInv, PlainRequest
  PROVE  DocumentStep /\ LifeInv'
<1> USE DEF TypeInv, TypeOK
<1>1. CASE SellerAccept
  <2>1. DocumentStep
    <3>1. CASE order' = [order EXCEPT !.workflowStatus = "SCHEDULED_HOLD"]
      <4>1. /\ order'.workflowStatus = "SCHEDULED_HOLD" /\ order'.stock = order.stock
            /\ order'.fulfillmentMethod = order.fulfillmentMethod
        BY <3>1 DEF Orders
      <4> QED BY <1>1, <4>1, MoveByTable
          DEF SellerAccept, DocumentStep, LifeInv, WorkflowStatuses, CanTransition, TRANSITIONS
    <3>2. ASSUME NEW method \in AcceptMethods,
                 order' = Dispatch([order EXCEPT !.fulfillmentMethod = method])
          PROVE  DocumentStep
      <4>1. method \in FulfillmentMethods \ {"customer_pickup"}
        BY DEF AcceptMethods, Orders, FulfillmentMethods, StatusGuarded, LifeInv
      <4> DEFINE doc == [order EXCEPT !.fulfillmentMethod = method]
      <4>2. doc \in Orders /\ doc.fulfillmentMethod = method /\ doc.stock = order.stock
        BY <4>1 DEF Orders
      <4> HIDE DEF doc
      <4>3. order' = Dispatch(doc)
        BY <3>2 DEF doc
      <4> QED BY <1>1, <4>1, <4>2, <4>3, DispatchFollows DEF SellerAccept
    <3> QED BY <1>1, <3>1, <3>2 DEF SellerAccept
  <2> QED BY <1>1, <2>1, LifeStep DEF SellerAccept
<1>2. CASE SellerResendSearch
  <2>1. DocumentStep
    BY <1>2, SameStatus DEF SellerResendSearch, Orders, Status
  <2> QED BY <1>2, <2>1, LifeStep DEF SellerResendSearch
<1>3. CASE SellerHandOver
  <2>1. /\ order'.workflowStatus = "HANDED_OVER_TO_LOGISTICS" /\ order'.stock = order.stock
        /\ order'.fulfillmentMethod = order.fulfillmentMethod
    BY <1>3 DEF SellerHandOver, Orders
  <2>2. DocumentStep
    BY <1>3, <2>1, MoveByTable
    DEF SellerHandOver, DocumentStep, LifeInv, WorkflowStatuses, CanTransition, TRANSITIONS
  <2> QED BY <1>3, <2>1, <2>2, LifeStep DEF SellerHandOver
<1>4. CASE RejectCancellation
  <2>1. DocumentStep
    BY <1>4, SameStatus DEF RejectCancellation, Orders, Status
  <2> QED BY <1>4, <2>1, LifeStep DEF RejectCancellation
<1>5. CASE ReassignStore
  <2>1. /\ order'.workflowStatus = "SELLER_PENDING" /\ order'.stock = "reserved"
        /\ order'.fulfillmentMethod = order.fulfillmentMethod
    BY <1>5 DEF ReassignStore, Orders
  <2>2. Moves
    BY <1>5, <2>1 DEF ReassignStore, Moves, Lifecycle!Next, Lifecycle!Restart, Status
  <2>3. DocumentStep
    BY <2>1, <2>2 DEF DocumentStep, LifeInv
  <2> QED BY <1>5, <2>3, LifeStep DEF ReassignStore
<1>6. ASSUME NEW next \in {"PICKUP_READY", "OUT_FOR_DELIVERY", "DELIVERED"},
             SellerUpdateStatus(next)
      PROVE  DocumentStep /\ LifeInv'
  <2>1. /\ order'.workflowStatus = next /\ order'.stock = order.stock
        /\ order'.fulfillmentMethod = order.fulfillmentMethod
    BY <1>6 DEF SellerUpdateStatus, Orders
  <2>2. DocumentStep
    BY <1>6, <2>1, MoveByTable
    DEF SellerUpdateStatus, DocumentStep, LifeInv, WorkflowStatuses, CanTransition, TRANSITIONS
  <2> QED BY <1>6, <2>1, <2>2, LifeStep DEF SellerUpdateStatus
<1>7. ASSUME NEW next \in WorkflowStatuses,
             SelfLogisticsStatus(next) \/ AdminLogisticsOverride(next)
      PROVE  DocumentStep /\ LifeInv'
  BY <1>7 DEF SelfLogisticsStatus, AdminLogisticsOverride, StatusGuarded
<1>8. CASE PaymentFailed
  <2>1. /\ order'.workflowStatus = "CANCELLED"
        /\ order'.fulfillmentMethod = order.fulfillmentMethod
    BY <1>8 DEF PaymentFailed, Orders
  <2>2. DocumentStep
    BY <1>8, <2>1, MoveByTable
    DEF PaymentFailed, DocumentStep, LifeInv, WorkflowStatuses, Lifecycle!ServiceSteps
  <2> QED BY <1>8, <2>2, LifeStep DEF PaymentFailed
<1>9. CASE AlertStore
  <2>1. /\ order'.workflowStatus = "SELLER_PENDING" /\ order'.stock = order.stock
        /\ order'.fulfillmentMethod = order.fulfillmentMethod
    BY <1>9 DEF AlertStore, Orders
  <2>2. DocumentStep
    BY <1>9, <2>1, MoveByTable
    DEF AlertStore, DocumentStep, LifeInv, WorkflowStatuses, CanTransition, TRANSITIONS
  <2> QED BY <1>9, <2>2, LifeStep DEF AlertStore
<1> QED BY <1>1, <1>2, <1>3, <1>4, <1>5, <1>6, <1>7, <1>8, <1>9 DEF PlainRequest

(* The cancellations of the store and the customer move along the table;   *)
(* the other first halves stutter.                                         *)
LEMMA BeginRequestFollows ==
  ASSUME StatusGuarded, TypeInv, LifeInv,
         NEW p \in Requests, BeginRequest(p)
  PROVE  DocumentStep /\ LifeInv'
<1> USE DEF TypeInv, TypeOK
<1>1. CASE SellerAcceptTooLate(p)
  BY <1>1, LifeCancel DEF SellerAcceptTooLate, CanTransition, TRANSITIONS
<1>2. CASE SellerReject(p)
  BY <1>2, LifeCancel DEF SellerReject, CanTransition, TRANSITIONS
<1>3. CASE ListSellerOrders(p)
  BY <1>3, LifeCancel DEF ListSellerOrders, CanTransition, TRANSITIONS
<1>4. CASE CustomerCancel(p)
  BY <1>4, LifeCancel DEF CustomerCancel, CanTransition, TRANSITIONS
<1>5. CASE PaymentCaptured(p)
  <2>1. DocumentStep
    BY <1>5, SameStatus DEF PaymentCaptured, Orders, Status
  <2> QED BY <1>5, <2>1, LifeStart DEF PaymentCaptured, TaskKinds, PickupTasks
<1>6. CASE RequestCancellation(p)
  <2>1. DocumentStep
    BY <1>6, SameStatus DEF RequestCancellation, Orders, Status
  <2> QED BY <1>6, <2>1, LifeStart DEF RequestCancellation, TaskKinds, PickupTasks
<1>7. CASE ApproveCancellation(p)
  <2>1. DocumentStep
    BY <1>7, SameStatus DEF ApproveCancellation, Orders, Status
  <2> QED BY <1>7, <2>1, LifeStart DEF ApproveCancellation, TaskKinds, PickupTasks
<1>8. CASE MarkReadyForPickup(p)
  BY <1>8 DEF MarkReadyForPickup, LifeInv
<1>9. CASE VerifyCustomerPickup(p)
  BY <1>9 DEF VerifyCustomerPickup, LifeInv
<1>10. CASE \/ RescheduleRead(p) \/ RaiseDispute(p) \/ ResolveDispute(p)
            \/ UpdateOrderStatus(p)
            \/ \E c \in Couriers : AssignGuestCourier(p, c) \/ GuestVerifyOtp(p, c)
            \/ \E r \in Riders : ValidateDeliveryOtp(p, r)
  BY <1>10
  DEF StatusGuarded, RescheduleRead, RaiseDispute, ResolveDispute,
      UpdateOrderStatus, ValidateDeliveryOtp
<1> QED BY <1>1, <1>2, <1>3, <1>4, <1>5, <1>6, <1>7, <1>8, <1>9, <1>10 DEF
       BeginRequest

(* The jobs cancel or dispatch along the table, or by a step the services  *)
(* add.                                                                    *)
LEMMA BeginJobFollows ==
  ASSUME StatusGuarded, TypeInv, LifeInv,
         NEW p \in Jobs, BeginJob(p)
  PROVE  DocumentStep /\ LifeInv'
<1> USE DEF TypeInv, TypeOK
<1>1. CASE PaymentTimeout(p)
  BY <1>1, LifeCancel DEF PaymentTimeout, Lifecycle!ServiceSteps
<1>2. CASE SellerTimeoutJob(p)
  <2>1. CASE order' = [order EXCEPT !.sellerOpen = TRUE] /\ UNCHANGED task
    BY <2>1, SameStatus, LifeStep DEF Orders, Status
  <2>2. CASE Cancel(p, order)
    BY <1>2, <2>2, LifeCancel DEF SellerTimeoutJob, CanTransition, TRANSITIONS
  <2> QED BY <1>2, <2>1, <2>2 DEF SellerTimeoutJob
<1>3. CASE ActivationJob(p)
  <2>1. CASE order' = Dispatch(order) /\ UNCHANGED task
    BY <1>3, <2>1, DispatchFollows, LifeStep DEF ActivationJob, LifeInv
  <2>2. CASE Cancel(p, order)
    BY <1>3, <2>2, LifeCancel DEF ActivationJob, CanTransition, TRANSITIONS
  <2> QED BY <1>3, <2>1, <2>2 DEF ActivationJob
<1>4. CASE DeliveryTimeoutRead(p)
  <2>1. DocumentStep
    BY <1>4, SameStatus DEF DeliveryTimeoutRead, Status
  <2> DEFINE retry == [Task("searchRetry") EXCEPT !.seen = order.attempt]
  <2>2. order.attempt \in 0..MaxAttempts
    BY ConstantsAssumption DEF Orders
  <2>3. retry \in Tasks /\ retry.kind = "searchRetry"
    BY <2>2, TasksTyped DEF Tasks, TaskKinds
  <2>4. Start(p, retry) \/ Start(p, Task("searchEnd"))
    BY <1>4 DEF DeliveryTimeoutRead
  <2> HIDE DEF retry
  <2> QED BY <2>1, <2>3, <2>4, LifeTaskStep, LifeStart DEF Start, TaskKinds, PickupTasks
<1> QED BY <1>1, <1>2, <1>3, <1>4 DEF BeginJob

(* The second halves move along the table however stale their read,        *)
(* because their write is guarded; compensation finds the order cancelled. *)
LEMMA EndFollows ==
  ASSUME StatusGuarded, TypeInv, LifeInv,
         NEW p \in Processes, End(p)
  PROVE  DocumentStep /\ LifeInv'
<1> USE DEF TypeInv, TypeOK
<1>1. CASE MoveToSellerPending(p)
  <2>1. CASE Status = "CREATED"
    <3>1. /\ order'.workflowStatus = "SELLER_PENDING" /\ order'.stock = order.stock
          /\ order'.fulfillmentMethod = order.fulfillmentMethod
      BY <1>1, <2>1 DEF MoveToSellerPending, Orders
    <3>2. DocumentStep
      BY <2>1, <3>1, MoveByTable
      DEF DocumentStep, LifeInv, WorkflowStatuses, CanTransition, TRANSITIONS
    <3> QED BY <1>1, <3>2, LifeFinish DEF MoveToSellerPending
  <2>2. CASE Status # "CREATED"
    BY <1>1, <2>2, SameStatus, LifeFinish DEF MoveToSellerPending, Status
  <2> QED BY <2>1, <2>2
<1>2. CASE SubmitCancellation(p)
  <2>1. DocumentStep
    BY <1>2, SameStatus DEF SubmitCancellation, Orders, Status
  <2> QED BY <1>2, <2>1, LifeFinish DEF SubmitCancellation
<1>3. CASE ApplyApproval(p)
  <2>1. CASE ApprovalStands /\ Cancel(p, [order EXCEPT !.cancellationRequest = "approved"])
    <3> DEFINE doc == [order EXCEPT !.cancellationRequest = "approved"]
    <3>1. /\ doc \in Orders /\ doc.stock = order.stock
          /\ doc.fulfillmentMethod = order.fulfillmentMethod
      BY DEF Orders, RequestStatuses
    <3>2. \/ CanTransition(Status, "CANCELLED")
          \/ <<Status, "CANCELLED">> \in Lifecycle!ServiceSteps
      BY <2>1, StatusTyped, MayBeCancelled
      DEF ApprovalStands, LegacyClosed, LifeInv, Lifecycle!ServiceSteps
    <3> HIDE DEF doc
    <3>3. Cancel(p, doc)
      BY <2>1 DEF doc
    <3> QED BY <3>1, <3>2, <3>3, LifeCancel
  <2>2. CASE Finish(p) /\ UNCHANGED order
    BY <2>2, SameStatus, LifeFinish DEF Status
  <2> QED BY <1>3, <2>1, <2>2 DEF ApplyApproval
<1>4. CASE DeliveryTimeoutRetry(p)
  <2>1. DocumentStep
    BY <1>4, SameStatus DEF DeliveryTimeoutRetry, Orders, Status
  <2> QED BY <1>4, <2>1, LifeFinish DEF DeliveryTimeoutRetry
<1>5. CASE DeliveryTimeoutEnd(p)
  <2>1. CASE Status = "DELIVERY_SEARCH" /\ Cancel(p, order)
    BY <2>1, LifeCancel DEF CanTransition, TRANSITIONS
  <2>2. CASE /\ Status = "DELIVERY_SEARCH"
             /\ order' = [order EXCEPT !.workflowStatus = "EXTERNAL_LOGISTICS_PENDING",
                                       !.fulfillmentMethod = "seller_delivery"]
             /\ Finish(p)
    <3>1. /\ order'.workflowStatus = "EXTERNAL_LOGISTICS_PENDING"
          /\ order'.stock = order.stock /\ order'.fulfillmentMethod = "seller_delivery"
      BY <2>2 DEF Orders
    <3>2. DocumentStep
      BY <2>2, <3>1, MoveByTable DEF DocumentStep, WorkflowStatuses, Lifecycle!ServiceSteps
    <3> QED BY <2>2, <3>2, LifeFinish
  <2>3. CASE Finish(p) /\ UNCHANGED order
    BY <2>3, SameStatus, LifeFinish DEF Status
  <2> QED BY <1>5, <2>1, <2>2, <2>3 DEF DeliveryTimeoutEnd, StatusGuarded
<1>6. CASE Compensate(p)
  <2>1. Status = "CANCELLED"
    BY <1>6 DEF Compensate, Busy, LifeInv
  <2>2. /\ order'.workflowStatus = Status
        /\ order'.fulfillmentMethod = order.fulfillmentMethod
    BY <1>6 DEF Compensate, Orders, Status
  <2>3. DocumentStep
    BY <2>1, <2>2 DEF DocumentStep, Moves, LifeInv
  <2> QED BY <1>6, <2>3, LifeFinish DEF Compensate
<1>7. CASE SavePickupReady(p) \/ SavePickupVerified(p)
  BY <1>7 DEF SavePickupReady, SavePickupVerified, Busy, LifeInv, PickupTasks
<1>8. CASE AssignmentEmailSent(p) \/ CompleteGuestAssignment(p)
  <2>1. DocumentStep
    BY <1>8, SameStatus DEF AssignmentEmailSent, CompleteGuestAssignment, Status
  <2> QED BY <1>8, <2>1, LifeFinish DEF AssignmentEmailSent, CompleteGuestAssignment
<1>9. CASE \/ ApplyReschedule(p) \/ MarkDisputed(p) \/ MarkResolved(p)
            \/ MarkDeliveredByOtp(p)
            \/ SaveUpdateCancel(p) \/ SaveUpdateDeliver(p) \/ SaveUpdateRider(p)
  BY <1>9
  DEF StatusGuarded, ApplyReschedule, MarkDisputed, MarkResolved,
      MarkDeliveredByOtp, SaveUpdateCancel, SaveUpdateDeliver, SaveUpdateRider
<1> QED BY <1>1, <1>2, <1>3, <1>4, <1>5, <1>6, <1>7, <1>8, <1>9 DEF End,
       EndRequest, EndJob

(* Every step is one of the lifecycle and keeps the invariant.             *)
LEMMA NextFollows ==
  ASSUME StatusGuarded, TypeInv, LifeInv, [Next]_vars PROVE Moves /\ LifeInv'
<1>1. CASE UNCHANGED vars
  BY <1>1, SameStatus, LifeStep DEF vars, Status, DocumentStep
<1>2. ASSUME NEW p \in Processes, Crash(p) PROVE DocumentStep /\ LifeInv'
  BY <1>2, SameStatus, LifeFinish DEF Crash, Status
<1>3. CASE \E c \in Couriers : CourierStep(c)
  BY <1>3 DEF StatusGuarded
<1> QED BY <1>1, <1>2, <1>3, TimeFollows, RiderStepFollows, PlainRequestFollows,
           BeginRequestFollows, BeginJobFollows, EndFollows DEF Next, DocumentStep

(* A new order starts where the lifecycle starts.                          *)
LEMMA InitFollows == StatusGuarded /\ Init => LifeInv /\ Lifecycle!Init
<1> SUFFICES ASSUME StatusGuarded, Init PROVE LifeInv /\ Lifecycle!Init
  OBVIOUS
<1>1. /\ order.fulfillmentMethod # "customer_pickup"
      /\ Status \in {"CREATED", "SELLER_PENDING"} /\ order.stock = "reserved"
  BY DEF StatusGuarded, Init, Status
<1>2. \A p \in Processes : task[p].kind = "idle"
  BY TasksTyped DEF Init
<1> QED BY <1>1, <1>2 DEF LifeInv, LiveOrderHoldsStock, PickupTasks, Lifecycle!Init, Status

(* With only the guarded handlers, the order moves along the table of      *)
(* orderStateMachine.js and the steps the services add, whatever the       *)
(* interleaving of requests, jobs and crashes: no stale timeout, late      *)
(* acceptance or approval moves a cancelled or delivered order.            *)
THEOREM ImplementsLifecycle ==
  ASSUME StatusGuarded PROVE Spec => FollowsLifecycle
<1>1. Init => TypeInv /\ LifeInv /\ Lifecycle!Init
  BY InitTyped, InitFollows
<1>2. TypeInv /\ LifeInv /\ [Next]_vars => (TypeInv /\ LifeInv)'
  BY NextTyped, NextFollows
<1>3. TypeInv /\ LifeInv /\ [Next]_vars => [Lifecycle!Next]_(order.workflowStatus)
  BY NextFollows DEF Moves, Status
<1> QED BY <1>1, <1>2, <1>3, PTL DEF Spec, FollowsLifecycle, Lifecycle!Spec

(* With only the guarded handlers, stock is given back by                  *)
(* compensateOrderCancellation only for an order that is cancelled and     *)
(* stays so: an order somebody still works on holds its stock.             *)
THEOREM LiveOrdersHoldStock ==
  ASSUME StatusGuarded PROVE Spec => []LiveOrderHoldsStock
<1>1. Init => TypeInv /\ LifeInv
  BY InitTyped, InitFollows
<1>2. TypeInv /\ LifeInv /\ [Next]_vars => (TypeInv /\ LifeInv)'
  BY NextTyped, NextFollows
<1>3. LifeInv => LiveOrderHoldsStock
  BY DEF LifeInv
<1> QED BY <1>1, <1>2, <1>3, PTL DEF Spec

-----------------------------------------------------------------------------
(* The statuses of an order the store has not taken on.                    *)
Untaken == {"CREATED", "SELLER_PENDING", "CANCELLED"}

(* A step never makes an order unpaid, and takes it on only if it may be   *)
(* paid for later or has been paid.                                        *)
PaymentStep ==
  /\ order'.online = order.online
  /\ order.paid => order'.paid
  /\ Status \in Untaken /\ order'.workflowStatus \notin Untaken => Payable

(* Cancelling asks for no payment.                                         *)
LEMMA CancelPays ==
  ASSUME NEW p, NEW doc \in Orders, Cancel(p, doc),
         doc.online = order.online, doc.paid = order.paid
  PROVE  PaymentStep
  BY DEF Cancel, Orders, PaymentStep, Untaken

(* Dispatching an order asks for its payment only if it was not taken on.  *)
LEMMA DispatchPays ==
  ASSUME NEW doc \in Orders, order' = Dispatch(doc),
         doc.online = order.online, doc.paid = order.paid,
         Status \notin Untaken \/ Payable
  PROVE  PaymentStep
  BY DEF Dispatch, OpenSearch, Orders, PaymentStep

(* Time and riders leave the payment alone and find the order taken on.    *)
LEMMA OpenStepPays ==
  ASSUME TypeInv, Time \/ \E r \in Riders : RiderStep(r)
  PROVE  PaymentStep
<1> USE DEF TypeInv, TypeOK, Orders, PaymentStep, Untaken, Status
<1>1. CASE Time
  BY <1>1 DEF Time, SellerWindowCloses, DeadlinePasses, SearchWindowCloses, ActivationDue
<1>2. ASSUME NEW r \in Riders, RiderStep(r) PROVE PaymentStep
  BY <1>2 DEF RiderStep, DeliveryAccept, AdminAssignRider, SkipOrder,
              MarkArrivedAtStore, ConfirmPickup, VerifyHandoffAndDeliver
<1> QED BY <1>1, <1>2

(* Of the single guarded writes only the store's acceptance takes an order *)
(* on, and it asks for the payment.                                        *)
LEMMA PlainRequestPays ==
  ASSUME StatusGuarded, TypeInv, LifeInv, PlainRequest
  PROVE  PaymentStep
<1> USE DEF TypeInv, TypeOK
<1>1. CASE SellerAccept
  <2>1. CASE order' = [order EXCEPT !.workflowStatus = "SCHEDULED_HOLD"]
    BY <1>1, <2>1 DEF SellerAccept, Orders, PaymentStep
  <2>2. ASSUME NEW method \in AcceptMethods,
               order' = Dispatch([order EXCEPT !.fulfillmentMethod = method])
        PROVE  PaymentStep
    <3> DEFINE doc == [order EXCEPT !.fulfillmentMethod = method]
    <3>1. doc \in Orders /\ doc.online = order.online /\ doc.paid = order.paid
      BY DEF AcceptMethods, Orders, FulfillmentMethods
    <3>2. order' = Dispatch(doc)
      BY <2>2
    <3> HIDE DEF doc
    <3> QED BY <1>1, <3>1, <3>2, DispatchPays DEF SellerAccept
  <2> QED BY <1>1, <2>1, <2>2 DEF SellerAccept
<1>2. CASE SellerResendSearch \/ RejectCancellation
  BY <1>2 DEF SellerResendSearch, RejectCancellation, Orders, PaymentStep, Status
<1>3. CASE SellerHandOver
  BY <1>3 DEF SellerHandOver, Orders, PaymentStep, Untaken
<1>4. CASE ReassignStore \/ AlertStore \/ PaymentFailed
  BY <1>4 DEF ReassignStore, AlertStore, PaymentFailed, Orders, PaymentStep, Untaken
<1>5. ASSUME NEW next \in {"PICKUP_READY", "OUT_FOR_DELIVERY", "DELIVERED"},
             SellerUpdateStatus(next)
      PROVE  PaymentStep
  <2>1. Status \notin Untaken
    BY <1>5 DEF SellerUpdateStatus, CanTransition, TRANSITIONS, Untaken
  <2> QED BY <1>5, <2>1 DEF SellerUpdateStatus, Orders, PaymentStep
<1>6. ASSUME NEW next \in WorkflowStatuses,
             SelfLogisticsStatus(next) \/ AdminLogisticsOverride(next)
      PROVE  PaymentStep
  BY <1>6 DEF SelfLogisticsStatus, AdminLogisticsOverride, StatusGuarded
<1> QED BY <1>1, <1>2, <1>3, <1>4, <1>5, <1>6 DEF PlainRequest

(* First halves cancel, record a payment, or only read.                    *)
LEMMA BeginPays ==
  ASSUME StatusGuarded, TypeInv, LifeInv, NEW p \in Processes,
         BeginRequest(p) \/ BeginJob(p)
  PROVE  PaymentStep
<1> USE DEF TypeInv, TypeOK
<1>1. CASE \/ SellerAcceptTooLate(p) \/ SellerReject(p) \/ ListSellerOrders(p)
           \/ CustomerCancel(p) \/ PaymentTimeout(p)
  BY <1>1, CancelPays
  DEF SellerAcceptTooLate, SellerReject, ListSellerOrders, CustomerCancel, PaymentTimeout
<1>2. CASE PaymentCaptured(p)
  BY <1>2 DEF PaymentCaptured, Orders, PaymentStep, Status
<1>3. CASE \/ RequestCancellation(p) \/ ApproveCancellation(p)
           \/ MarkReadyForPickup(p) \/ VerifyCustomerPickup(p) \/ DeliveryTimeoutRead(p)
  BY <1>3 DEF RequestCancellation, ApproveCancellation, MarkReadyForPickup,
              VerifyCustomerPickup, DeliveryTimeoutRead, PaymentStep, Status
<1>4. CASE SellerTimeoutJob(p)
  <2>1. CASE order' = [order EXCEPT !.sellerOpen = TRUE]
    BY <2>1 DEF Orders, PaymentStep, Status
  <2> QED BY <1>4, <2>1, CancelPays DEF SellerTimeoutJob
<1>5. CASE ActivationJob(p)
  <2>1. CASE order' = Dispatch(order)
    BY <1>5, <2>1, DispatchPays DEF ActivationJob, Untaken
  <2> QED BY <1>5, <2>1, CancelPays DEF ActivationJob
<1>6. CASE \/ RescheduleRead(p) \/ RaiseDispute(p) \/ ResolveDispute(p)
           \/ UpdateOrderStatus(p)
           \/ \E c \in Couriers : AssignGuestCourier(p, c) \/ GuestVerifyOtp(p, c)
           \/ \E r \in Riders : ValidateDeliveryOtp(p, r)
  BY <1>6
  DEF StatusGuarded, RescheduleRead, RaiseDispute, ResolveDispute,
      UpdateOrderStatus, ValidateDeliveryOtp
<1> QED BY <1>1, <1>2, <1>3, <1>4, <1>5, <1>6 DEF BeginRequest, BeginJob

(* Second halves release a paid order to the store, cancel, or find the    *)
(* order in the search.                                                    *)
LEMMA EndPays ==
  ASSUME StatusGuarded, TypeInv, LifeInv, NEW p \in Processes, End(p)
  PROVE  PaymentStep
<1> USE DEF TypeInv, TypeOK
<1>1. CASE MoveToSellerPending(p)
  BY <1>1 DEF MoveToSellerPending, Orders, PaymentStep, Untaken, Status
<1>2. CASE SubmitCancellation(p) \/ DeliveryTimeoutRetry(p) \/ Compensate(p)
  BY <1>2 DEF SubmitCancellation, DeliveryTimeoutRetry, Compensate, Orders,
              PaymentStep, Status
<1>3. CASE ApplyApproval(p)
  <2>1. CASE Cancel(p, [order EXCEPT !.cancellationRequest = "approved"])
    <3> DEFINE doc == [order EXCEPT !.cancellationRequest = "approved"]
    <3>1. doc \in Orders /\ doc.online = order.online /\ doc.paid = order.paid
      BY DEF Orders, RequestStatuses
    <3>2. Cancel(p, doc)
      BY <2>1
    <3> HIDE DEF doc
    <3> QED BY <3>1, <3>2, CancelPays
  <2>2. CASE UNCHANGED order
    BY <2>2 DEF PaymentStep, Status
  <2> QED BY <1>3, <2>1, <2>2 DEF ApplyApproval
<1>4. CASE DeliveryTimeoutEnd(p)
  <2>1. CASE Cancel(p, order)
    BY <2>1, CancelPays
  <2> QED BY <1>4, <2>1 DEF DeliveryTimeoutEnd, Orders, PaymentStep, Untaken, Status
<1>5. CASE AssignmentEmailSent(p) \/ CompleteGuestAssignment(p)
  BY <1>5 DEF AssignmentEmailSent, CompleteGuestAssignment, PaymentStep, Status
<1>6. CASE SavePickupReady(p) \/ SavePickupVerified(p)
  BY <1>6 DEF SavePickupReady, SavePickupVerified, Busy, LifeInv, PickupTasks
<1>7. CASE \/ ApplyReschedule(p) \/ MarkDisputed(p) \/ MarkResolved(p)
           \/ MarkDeliveredByOtp(p)
           \/ SaveUpdateCancel(p) \/ SaveUpdateDeliver(p) \/ SaveUpdateRider(p)
  BY <1>7
  DEF StatusGuarded, ApplyReschedule, MarkDisputed, MarkResolved,
      MarkDeliveredByOtp, SaveUpdateCancel, SaveUpdateDeliver, SaveUpdateRider
<1> QED BY <1>1, <1>2, <1>3, <1>4, <1>5, <1>6, <1>7 DEF End, EndRequest, EndJob

(* Every step respects the payment, so an unpaid order stays untaken.      *)
LEMMA NextPays ==
  ASSUME StatusGuarded, TypeInv, LifeInv, UnpaidGoesNowhere, [Next]_vars
  PROVE  UnpaidGoesNowhere'
<1>1. UNCHANGED vars \/ (\E p \in Processes : Crash(p)) => PaymentStep
  BY DEF vars, Crash, PaymentStep, Status
<1>2. ~ \E c \in Couriers : CourierStep(c)
  BY DEF StatusGuarded
<1>3. PaymentStep
  BY <1>1, <1>2, OpenStepPays, PlainRequestPays, BeginPays, EndPays DEF Next, Processes
<1>4. order'.online \in BOOLEAN /\ order'.paid \in BOOLEAN
  BY NextTyped DEF TypeInv, TypeOK, Orders
<1> QED BY <1>3, <1>4 DEF PaymentStep, UnpaidGoesNowhere, Untaken, Payable,
           TypeInv, TypeOK, Orders, Status

(* With only the guarded handlers, an order to be paid online is not       *)
(* packed, carried or delivered before its payment is captured: the store  *)
(* takes it on only when paid, a reassignment sends it back to a store,    *)
(* and every later handler finds it taken on.                              *)
THEOREM UnpaidOrdersWait ==
  ASSUME StatusGuarded PROVE Spec => []UnpaidGoesNowhere
<1>1. Init => TypeInv /\ LifeInv /\ UnpaidGoesNowhere
  <2>1. Init => UnpaidGoesNowhere
    BY DEF Init, UnpaidGoesNowhere, Status
  <2> QED BY <2>1, InitTyped, InitFollows
<1>2. TypeInv /\ LifeInv /\ UnpaidGoesNowhere /\ [Next]_vars
        => (TypeInv /\ LifeInv /\ UnpaidGoesNowhere)'
  BY NextTyped, NextFollows, NextPays
<1> QED BY <1>1, <1>2, PTL DEF Spec
=============================================================================
