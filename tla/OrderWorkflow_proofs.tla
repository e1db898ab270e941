------------------------ MODULE OrderWorkflow_proofs ------------------------
(***************************************************************************)
(* The order document and the handlers in flight stay well formed. The     *)
(* only conjunct that does not follow from itself is the attempt counter:  *)
(* a delivery timeout writes the attempt it read plus one, so what it      *)
(* remembers has to be below the maximum (RetryHasAttempts).               *)
(***************************************************************************)
EXTENDS OrderWorkflow, TLAPS

(* A timeout handler that will rebroadcast read an attempt that was not    *)
(* the last one (processDeliveryTimeoutJob).                               *)
RetryHasAttempts ==
  \A p \in Processes : task[p].kind = "searchRetry" => task[p].seen < MaxAttempts

(* The inductive invariant behind TypeOK.                                  *)
TypeInv == TypeOK /\ RetryHasAttempts

(* A freshly placed order is well formed (orderPlacementService).          *)
LEMMA InitTyped == Init => TypeInv
<1> SUFFICES ASSUME Init PROVE TypeInv
  OBVIOUS
<1>1. order \in Orders
  BY ConstantsAssumption DEF Init, Orders, WorkflowStatuses, RequestStatuses
<1>2. TypeInv
  BY <1>1, ConstantsAssumption
  DEF Init, TypeInv, TypeOK, RetryHasAttempts, AssignmentStatuses, Idle, Tasks, TaskKinds
<1> QED BY <1>2

(* The tasks the handlers start are tasks.                                 *)
LEMMA TasksTyped ==
  /\ Idle \in Tasks /\ Idle.kind = "idle"
  /\ \A kind \in TaskKinds : Task(kind) \in Tasks /\ Task(kind).kind = kind
<1>1. Idle \in Tasks /\ Idle.kind = "idle"
  BY ConstantsAssumption DEF Idle, Tasks, TaskKinds
<1>2. \A kind \in TaskKinds : Task(kind) \in Tasks /\ Task(kind).kind = kind
  BY <1>1 DEF Task, Tasks
<1> QED BY <1>1, <1>2

(* Replacing one handler's task by a well-formed one keeps them all so.    *)
LEMMA SetTask ==
  ASSUME TypeInv, NEW p, NEW t \in Tasks,
         t.kind = "searchRetry" => t.seen < MaxAttempts,
         task' = [task EXCEPT ![p] = t]
  PROVE  task' \in [Processes -> Tasks] /\ RetryHasAttempts'
  BY DEF TypeInv, TypeOK, RetryHasAttempts

(* A handler that ends leaves the handlers well formed.                    *)
LEMMA FinishTyped ==
  ASSUME TypeInv, NEW p, Finish(p)
  PROVE  task' \in [Processes -> Tasks] /\ RetryHasAttempts'
  BY SetTask, TasksTyped DEF Finish

(* A handler that only remembers its kind leaves the handlers well formed. *)
LEMMA StartTyped ==
  ASSUME TypeInv, NEW p, NEW kind \in TaskKinds \ {"searchRetry"}, Start(p, Task(kind))
  PROVE  task' \in [Processes -> Tasks] /\ RetryHasAttempts'
  BY SetTask, TasksTyped DEF Start

(* Every path that cancels writes a well-formed order and goes on to       *)
(* compensate (orderCompensation).                                         *)
LEMMA CancelTyped ==
  ASSUME TypeInv, NEW p, NEW doc \in Orders, Cancel(p, doc)
  PROVE  order' \in Orders /\ task' \in [Processes -> Tasks] /\ RetryHasAttempts'
<1>1. order' \in Orders
  BY DEF Cancel, Orders, WorkflowStatuses
<1>2. task' \in [Processes -> Tasks] /\ RetryHasAttempts'
  BY SetTask, TasksTyped DEF Cancel, TaskKinds
<1> QED BY <1>1, <1>2

(* Dispatching an accepted order, by whatever method, yields a well-formed *)
(* order.                                                                  *)
LEMMA DispatchTyped ==
  ASSUME NEW doc \in Orders
  PROVE  Dispatch(doc) \in Orders
<1>1. OpenSearch(doc) \in Orders
  <2>1. 1 \in 1..MaxAttempts /\ "DELIVERY_SEARCH" \in WorkflowStatuses
    BY ConstantsAssumption DEF WorkflowStatuses
  <2> QED BY <2>1 DEF OpenSearch, Orders
<1>2. \A s \in WorkflowStatuses : [doc EXCEPT !.workflowStatus = s] \in Orders
  BY DEF Orders
<1>3. "SELLER_ACCEPTED" \in WorkflowStatuses /\ "EXTERNAL_LOGISTICS_PENDING" \in WorkflowStatuses
  BY DEF WorkflowStatuses
<1>4. \/ Dispatch(doc) = [doc EXCEPT !.workflowStatus = "SELLER_ACCEPTED"]
      \/ Dispatch(doc) = [doc EXCEPT !.workflowStatus = "EXTERNAL_LOGISTICS_PENDING"]
      \/ Dispatch(doc) = OpenSearch(doc)
  BY DEF Dispatch
<1> QED BY <1>1, <1>2, <1>3, <1>4

(* A single guarded write of the document keeps the invariant.             *)
LEMMA OrderStep ==
  ASSUME TypeInv, order' \in Orders, UNCHANGED <<assignments, task, reassigns, windows>>
  PROVE  TypeInv'
  BY DEF TypeInv, TypeOK, RetryHasAttempts

(* A write of the document by a handler that starts or ends keeps it.      *)
LEMMA OrderTaskStep ==
  ASSUME TypeInv, order' \in Orders, task' \in [Processes -> Tasks], RetryHasAttempts',
         UNCHANGED <<assignments, reassigns, windows>>
  PROVE  TypeInv'
  BY DEF TypeInv, TypeOK

(* Setting the status through updateOrderStatus begins by reading only.    *)
LEMMA UpdateStarts ==
  ASSUME TypeInv, NEW p, UpdateOrderStatus(p)
  PROVE  /\ UNCHANGED <<order, assignments, reassigns, windows>>
         /\ \E t \in Tasks : /\ Start(p, t)
                             /\ t.kind \in {"updateCancel", "updateDeliver", "updateRider"}
<1> DEFINE seen(requested) == [Task("updateCancel") EXCEPT !.requested = requested]
<1>1. \A kind \in {"updateCancel", "updateDeliver", "updateRider"} :
        Task(kind) \in Tasks /\ Task(kind).kind = kind
  BY TasksTyped DEF TaskKinds
<1>2. \A requested \in BOOLEAN :
        seen(requested) \in Tasks /\ seen(requested).kind = "updateCancel"
  BY <1>1 DEF Tasks
<1>3. \/ \E requested \in BOOLEAN : Start(p, seen(requested))
      \/ Start(p, Task("updateDeliver")) \/ Start(p, Task("updateRider"))
  BY DEF UpdateOrderStatus
<1> HIDE DEF seen
<1> QED BY <1>1, <1>2, <1>3 DEF UpdateOrderStatus

(* What it saves is a well-formed order, whichever rider it names.         *)
LEMMA UpdateSaves ==
  ASSUME TypeInv, NEW rider \in NamedRiders, NEW requested \in BOOLEAN
  PROVE  /\ rider \in Riders \cup {None}
         /\ [order EXCEPT !.deliveryBoy = rider,
                          !.cancellationRequest = IF requested THEN "approved" ELSE @] \in Orders
<1>1. rider \in Riders \cup {None}
  BY DEF NamedRiders, TypeInv, TypeOK, Orders
<1> QED BY <1>1 DEF TypeInv, TypeOK, Orders, RequestStatuses

(* The passing of time keeps the invariant.                                *)
LEMMA TimeTyped == ASSUME TypeInv, Time PROVE TypeInv'
<1> USE DEF TypeInv, TypeOK
<1>1. CASE SellerWindowCloses
  BY <1>1, OrderStep DEF SellerWindowCloses, Orders
<1>2. CASE DeadlinePasses
  BY <1>2, OrderStep DEF DeadlinePasses, Orders
<1>3. CASE SearchWindowCloses
  <2>1. windows' \in 0..MaxAttempts
    BY <1>3, ConstantsAssumption DEF SearchWindowCloses
  <2>2. order' \in Orders
    BY <1>3 DEF SearchWindowCloses, Orders
  <2> QED BY <1>3, <2>1, <2>2 DEF SearchWindowCloses, RetryHasAttempts
<1>4. CASE ActivationDue
  BY <1>4, OrderStep DEF ActivationDue, Orders
<1> QED BY <1>1, <1>2, <1>3, <1>4 DEF Time

(* What a rider does, or an administrator with a rider, keeps it.          *)
LEMMA RiderStepTyped == ASSUME TypeInv, NEW r \in Riders, RiderStep(r) PROVE TypeInv'
<1> USE DEF TypeInv, TypeOK
<1>1. CASE DeliveryAccept(r)
  BY <1>1, OrderStep DEF DeliveryAccept, Orders, WorkflowStatuses
<1>2. CASE AdminAssignRider(r)
  BY <1>2, OrderStep DEF AdminAssignRider, Orders, WorkflowStatuses
<1>3. CASE SkipOrder(r)
  BY <1>3, OrderStep DEF SkipOrder, Orders
<1>4. CASE MarkArrivedAtStore(r)
  BY <1>4, OrderStep DEF MarkArrivedAtStore, Orders, WorkflowStatuses
<1>5. CASE ConfirmPickup(r)
  BY <1>5, OrderStep DEF ConfirmPickup, Orders, WorkflowStatuses
<1>6. CASE VerifyHandoffAndDeliver(r)
  BY <1>6, OrderStep DEF VerifyHandoffAndDeliver, Orders, WorkflowStatuses
<1> QED BY <1>1, <1>2, <1>3, <1>4, <1>5, <1>6 DEF RiderStep

(* What a guest courier's link does keeps it.                              *)
LEMMA CourierStepTyped == ASSUME TypeInv, NEW c \in Couriers, CourierStep(c) PROVE TypeInv'
<1> USE DEF TypeInv, TypeOK
<1>1. CASE GuestArrived(c)
  BY <1>1, OrderStep DEF GuestArrived, Orders, WorkflowStatuses
<1>2. CASE GuestConfirmPickup(c)
  BY <1>2, OrderStep DEF GuestConfirmPickup, Orders, WorkflowStatuses
<1>3. CASE GuestLinkExpires(c)
  BY <1>3 DEF GuestLinkExpires, AssignmentStatuses, RetryHasAttempts
<1>4. CASE RevokeGuestCourier(c)
  <2>1. order' \in Orders
    <3>1. ASSUME NEW skipped \in {order.skippedBy, {}},
                 order' = [order EXCEPT !.guestCourierAssignment = None,
                                        !.workflowStatus = "DELIVERY_SEARCH",
                                        !.skippedBy = skipped]
          PROVE  order' \in Orders
      BY <3>1 DEF Orders, WorkflowStatuses
    <3> QED BY <1>4, <3>1 DEF RevokeGuestCourier
  <2>2. assignments' \in [Couriers -> AssignmentStatuses]
    BY <1>4 DEF RevokeGuestCourier, AssignmentStatuses
  <2> QED BY <1>4, <2>1, <2>2 DEF RevokeGuestCourier, RetryHasAttempts
<1> QED BY <1>1, <1>2, <1>3, <1>4 DEF CourierStep

(* The requests that are one guarded write keep it.                        *)
LEMMA PlainRequestTyped == ASSUME TypeInv, PlainRequest PROVE TypeInv'
<1> USE DEF TypeInv, TypeOK
<1>1. CASE SellerAccept
  <2>1. order' \in Orders
    <3>1. CASE order' = [order EXCEPT !.workflowStatus = "SCHEDULED_HOLD"]
      BY <3>1 DEF Orders, WorkflowStatuses
    <3>2. ASSUME NEW method \in AcceptMethods,
                 order' = Dispatch([order EXCEPT !.fulfillmentMethod = method])
          PROVE  order' \in Orders
      <4>1. AcceptMethods \subseteq FulfillmentMethods
        BY DEF AcceptMethods, Orders, FulfillmentMethods
      <4>2. [order EXCEPT !.fulfillmentMethod = method] \in Orders
        BY <4>1 DEF Orders
      <4> QED BY <3>2, <4>2, DispatchTyped
    <3> QED BY <1>1, <3>1, <3>2 DEF SellerAccept
  <2>2. windows' \in 0..MaxAttempts
    BY <1>1, ConstantsAssumption DEF SellerAccept
  <2> QED BY <1>1, <2>1, <2>2 DEF SellerAccept, RetryHasAttempts
<1>2. CASE SellerResendSearch
  BY <1>2, OrderStep DEF SellerResendSearch, Orders
<1>3. CASE SellerHandOver
  BY <1>3, OrderStep DEF SellerHandOver, Orders, WorkflowStatuses
<1>4. CASE RejectCancellation
  BY <1>4, OrderStep DEF RejectCancellation, Orders, RequestStatuses
<1>5. CASE ReassignStore
  <2>1. 1 \in 1..MaxAttempts /\ reassigns' \in 0..MaxReassign
    BY <1>5, ConstantsAssumption DEF ReassignStore
  <2>2. order' \in Orders
    BY <1>5, <2>1 DEF ReassignStore, Orders, WorkflowStatuses
  <2>3. assignments' \in [Couriers -> AssignmentStatuses]
    BY <1>5 DEF ReassignStore, AssignmentStatuses
  <2> QED BY <1>5, <2>1, <2>2, <2>3 DEF ReassignStore, RetryHasAttempts
<1>6. ASSUME NEW next \in {"PICKUP_READY", "OUT_FOR_DELIVERY", "DELIVERED"},
             SellerUpdateStatus(next)
      PROVE  TypeInv'
  BY <1>6, OrderStep DEF SellerUpdateStatus, Orders, WorkflowStatuses
<1>7. ASSUME NEW next \in WorkflowStatuses, SelfLogisticsStatus(next) PROVE TypeInv'
  BY <1>7, OrderStep DEF SelfLogisticsStatus, Orders
<1>8. ASSUME NEW next \in WorkflowStatuses, AdminLogisticsOverride(next) PROVE TypeInv'
  BY <1>8, OrderStep DEF AdminLogisticsOverride, Orders
<1>9. CASE PaymentFailed
  BY <1>9, OrderStep DEF PaymentFailed, Orders, WorkflowStatuses
<1>10. CASE AlertStore
  BY <1>10, OrderStep DEF AlertStore, Orders, WorkflowStatuses
<1> QED BY <1>1, <1>2, <1>3, <1>4, <1>5, <1>6, <1>7, <1>8, <1>9, <1>10 DEF PlainRequest

(* The first halves of requests, and the cancellations, keep it.           *)
LEMMA BeginRequestTyped ==
  ASSUME TypeInv, NEW p \in Requests, BeginRequest(p) PROVE TypeInv'
<1> USE DEF TypeInv, TypeOK
<1>1. CASE SellerAcceptTooLate(p)
  BY <1>1, CancelTyped, OrderTaskStep DEF SellerAcceptTooLate
<1>2. CASE SellerReject(p)
  BY <1>2, CancelTyped, OrderTaskStep DEF SellerReject
<1>3. CASE ListSellerOrders(p)
  BY <1>3, CancelTyped, OrderTaskStep DEF ListSellerOrders
<1>4. CASE CustomerCancel(p)
  BY <1>4, CancelTyped, OrderTaskStep DEF CustomerCancel
<1>5. CASE PaymentCaptured(p)
  <2>1. order' \in Orders
    BY <1>5 DEF PaymentCaptured, Orders
  <2> QED BY <1>5, <2>1, StartTyped, OrderTaskStep DEF PaymentCaptured, TaskKinds
<1>6. CASE MarkReadyForPickup(p)
  BY <1>6, StartTyped, OrderTaskStep DEF MarkReadyForPickup, TaskKinds
<1>7. CASE VerifyCustomerPickup(p)
  BY <1>7, StartTyped, OrderTaskStep DEF VerifyCustomerPickup, TaskKinds
<1>8. CASE RequestCancellation(p)
  BY <1>8, StartTyped, OrderTaskStep DEF RequestCancellation, TaskKinds
<1>9. CASE ApproveCancellation(p)
  BY <1>9, StartTyped, OrderTaskStep DEF ApproveCancellation, TaskKinds
<1>10. CASE RescheduleRead(p)
  BY <1>10, StartTyped, OrderTaskStep DEF RescheduleRead, TaskKinds
<1>11. CASE RaiseDispute(p)
  BY <1>11, StartTyped, OrderTaskStep DEF RaiseDispute, TaskKinds
<1>12. CASE ResolveDispute(p)
  BY <1>12, StartTyped, OrderTaskStep DEF ResolveDispute, TaskKinds
<1>13. CASE UpdateOrderStatus(p)
  <2>1. PICK t \in Tasks : /\ Start(p, t)
                           /\ t.kind \in {"updateCancel", "updateDeliver", "updateRider"}
    BY <1>13, UpdateStarts
  <2>2. UNCHANGED <<order, assignments, reassigns, windows>>
    BY <1>13, UpdateStarts
  <2>3. task' \in [Processes -> Tasks] /\ RetryHasAttempts'
    BY <2>1, SetTask DEF Start
  <2> QED BY <2>2, <2>3, OrderTaskStep
<1>14. ASSUME NEW c \in Couriers, AssignGuestCourier(p, c) PROVE TypeInv'
  <2>1. order' \in Orders
    BY <1>14 DEF AssignGuestCourier, Orders, WorkflowStatuses
  <2>2. assignments' \in [Couriers -> AssignmentStatuses]
    BY <1>14 DEF AssignGuestCourier, AssignmentStatuses
  <2>3. /\ [Task("email") EXCEPT !.courier = c] \in Tasks
        /\ [Task("email") EXCEPT !.courier = c].kind = "email"
    BY TasksTyped DEF Tasks, TaskKinds
  <2>4. task' \in [Processes -> Tasks] /\ RetryHasAttempts'
    BY <1>14, <2>3, SetTask DEF AssignGuestCourier, Start
  <2> QED BY <1>14, <2>1, <2>2, <2>4 DEF AssignGuestCourier
<1>15. ASSUME NEW c \in Couriers, GuestVerifyOtp(p, c) PROVE TypeInv'
  <2>1. order' \in Orders
    BY <1>15 DEF GuestVerifyOtp, Orders, WorkflowStatuses
  <2>2. /\ [Task("guestDone") EXCEPT !.courier = c] \in Tasks
        /\ [Task("guestDone") EXCEPT !.courier = c].kind = "guestDone"
    BY TasksTyped DEF Tasks, TaskKinds
  <2> QED BY <1>15, <2>1, <2>2, SetTask, OrderTaskStep DEF GuestVerifyOtp, Start
<1>16. ASSUME NEW r \in Riders, ValidateDeliveryOtp(p, r) PROVE TypeInv'
  BY <1>16, StartTyped, OrderTaskStep DEF ValidateDeliveryOtp, TaskKinds
<1> QED BY <1>1, <1>2, <1>3, <1>4, <1>5, <1>6, <1>7, <1>8, <1>9, <1>10, <1>11,
       <1>12, <1>13, <1>14, <1>15, <1>16 DEF BeginRequest

(* The first halves of the jobs keep it.                                   *)
LEMMA BeginJobTyped ==
  ASSUME TypeInv, NEW p \in Jobs, BeginJob(p) PROVE TypeInv'
<1> USE DEF TypeInv, TypeOK
<1>1. CASE PaymentTimeout(p)
  BY <1>1, CancelTyped, OrderTaskStep DEF PaymentTimeout
<1>2. CASE SellerTimeoutJob(p)
  <2>1. CASE order' = [order EXCEPT !.sellerOpen = TRUE] /\ UNCHANGED task
    BY <1>2, <2>1, OrderStep DEF SellerTimeoutJob, Orders
  <2>2. CASE Cancel(p, order)
    BY <1>2, <2>2, CancelTyped, OrderTaskStep DEF SellerTimeoutJob
  <2> QED BY <1>2, <2>1, <2>2 DEF SellerTimeoutJob
<1>3. CASE ActivationJob(p)
  <2>1. CASE order' = Dispatch(order) /\ windows' = 0 /\ UNCHANGED task
    <3>1. order' \in Orders /\ windows' \in 0..MaxAttempts
      BY <2>1, DispatchTyped, ConstantsAssumption
    <3> QED BY <1>3, <2>1, <3>1 DEF ActivationJob, RetryHasAttempts
  <2>2. CASE Cancel(p, order) /\ UNCHANGED windows
    BY <1>3, <2>2, CancelTyped, OrderTaskStep DEF ActivationJob
  <2> QED BY <1>3, <2>1, <2>2 DEF ActivationJob
<1>4. CASE DeliveryTimeoutRead(p)
  <2> DEFINE retry == [Task("searchRetry") EXCEPT !.seen = order.attempt]
  <2>1. order.attempt \in 0..MaxAttempts
    BY ConstantsAssumption DEF Orders
  <2>2. retry \in Tasks /\ retry.kind = "searchRetry" /\ retry.seen = order.attempt
    BY <2>1, TasksTyped DEF Tasks, TaskKinds
  <2>3. CASE order.attempt < MaxAttempts
    BY <1>4, <2>2, <2>3, SetTask, OrderTaskStep DEF DeliveryTimeoutRead, Start
  <2>4. CASE ~(order.attempt < MaxAttempts)
    BY <1>4, <2>4, StartTyped, OrderTaskStep DEF DeliveryTimeoutRead, TaskKinds
  <2> QED BY <2>3, <2>4
<1> QED BY <1>1, <1>2, <1>3, <1>4 DEF BeginJob

(* The second halves of requests keep it, however stale their read.        *)
LEMMA EndRequestTyped ==
  ASSUME TypeInv, NEW p \in Processes, EndRequest(p) PROVE TypeInv'
<1> USE DEF TypeInv, TypeOK
<1>1. CASE MoveToSellerPending(p)
  <2>1. order' \in Orders
    BY <1>1 DEF MoveToSellerPending, Orders, WorkflowStatuses
  <2> QED BY <1>1, <2>1, FinishTyped, OrderTaskStep DEF MoveToSellerPending
<1>2. CASE SavePickupReady(p)
  <2>1. order' \in Orders
    BY <1>2 DEF SavePickupReady, Orders, WorkflowStatuses
  <2> QED BY <1>2, <2>1, FinishTyped, OrderTaskStep DEF SavePickupReady
<1>3. CASE SavePickupVerified(p)
  <2>1. order' \in Orders
    BY <1>3 DEF SavePickupVerified, Orders, WorkflowStatuses
  <2> QED BY <1>3, <2>1, FinishTyped, OrderTaskStep DEF SavePickupVerified
<1>4. CASE SubmitCancellation(p)
  <2>1. order' \in Orders
    BY <1>4 DEF SubmitCancellation, Orders, RequestStatuses
  <2> QED BY <1>4, <2>1, FinishTyped, OrderTaskStep DEF SubmitCancellation
<1>5. CASE ApplyReschedule(p)
  <2>1. order' \in Orders
    BY <1>5 DEF ApplyReschedule, Orders, WorkflowStatuses
  <2> QED BY <1>5, <2>1, FinishTyped, OrderTaskStep DEF ApplyReschedule
<1>6. CASE MarkDisputed(p)
  <2>1. order' \in Orders
    BY <1>6 DEF MarkDisputed, Orders, WorkflowStatuses
  <2> QED BY <1>6, <2>1, FinishTyped, OrderTaskStep DEF MarkDisputed
<1>7. CASE MarkResolved(p)
  <2>1. order' \in Orders
    BY <1>7 DEF MarkResolved, Orders, WorkflowStatuses
  <2> QED BY <1>7, <2>1, FinishTyped, OrderTaskStep DEF MarkResolved
<1>8. CASE MarkDeliveredByOtp(p)
  <2>1. order' \in Orders
    BY <1>8 DEF MarkDeliveredByOtp, Orders, WorkflowStatuses
  <2> QED BY <1>8, <2>1, FinishTyped, OrderTaskStep DEF MarkDeliveredByOtp
<1>9. CASE SaveUpdateDeliver(p) \/ SaveUpdateRider(p)
  <2>1. PICK rider \in NamedRiders :
          \/ order' = [order EXCEPT !.workflowStatus = "DELIVERED", !.deliveryBoy = rider]
          \/ order' = [order EXCEPT !.deliveryBoy = rider]
    BY <1>9 DEF SaveUpdateDeliver, SaveUpdateRider
  <2>2. rider \in Riders \cup {None}
    BY UpdateSaves
  <2>3. [order EXCEPT !.deliveryBoy = rider] \in Orders
    BY <2>2 DEF Orders
  <2>4. [order EXCEPT !.workflowStatus = "DELIVERED", !.deliveryBoy = rider] \in Orders
    BY <2>2 DEF Orders, WorkflowStatuses
  <2>5. order' \in Orders
    BY <2>1, <2>3, <2>4
  <2> QED BY <1>9, <2>5, FinishTyped, OrderTaskStep DEF SaveUpdateDeliver, SaveUpdateRider
<1>10. CASE AssignmentEmailSent(p)
  <2>1. assignments' \in [Couriers -> AssignmentStatuses]
    BY <1>10 DEF AssignmentEmailSent, AssignmentStatuses
  <2> QED BY <1>10, <2>1, FinishTyped DEF AssignmentEmailSent
<1>11. CASE CompleteGuestAssignment(p)
  <2>1. assignments' \in [Couriers -> AssignmentStatuses]
    BY <1>11 DEF CompleteGuestAssignment, AssignmentStatuses
  <2> QED BY <1>11, <2>1, FinishTyped DEF CompleteGuestAssignment
<1>12. CASE ApplyApproval(p)
  <2>1. [order EXCEPT !.cancellationRequest = "approved"] \in Orders
    BY DEF Orders, RequestStatuses
  <2> QED BY <1>12, <2>1, CancelTyped, FinishTyped, OrderTaskStep DEF ApplyApproval
<1>13. CASE SaveUpdateCancel(p)
  <2>1. task[p] \in Tasks /\ task[p].requested \in BOOLEAN
    BY DEF Tasks
  <2>2. PICK rider \in NamedRiders :
          Cancel(p, [order EXCEPT
                      !.deliveryBoy = rider,
                      !.cancellationRequest = IF task[p].requested THEN "approved" ELSE @])
    BY <1>13 DEF SaveUpdateCancel
  <2> DEFINE doc == [order EXCEPT
                      !.deliveryBoy = rider,
                      !.cancellationRequest = IF task[p].requested THEN "approved" ELSE @]
  <2>3. doc \in Orders
    BY <2>1, UpdateSaves
  <2>4. Cancel(p, doc)
    BY <2>2
  <2> HIDE DEF doc
  <2>5. order' \in Orders /\ task' \in [Processes -> Tasks] /\ RetryHasAttempts'
    BY <2>3, <2>4, CancelTyped
  <2> QED BY <1>13, <2>5, OrderTaskStep DEF SaveUpdateCancel
<1> QED BY <1>1, <1>2, <1>3, <1>4, <1>5, <1>6, <1>7, <1>8, <1>9, <1>10, <1>11,
       <1>12, <1>13 DEF EndRequest

(* The second half of the delivery timeout keeps it: the attempt it writes *)
(* is the one it read plus one, which is within the maximum.               *)
LEMMA EndJobTyped ==
  ASSUME TypeInv, NEW p \in Processes, EndJob(p) PROVE TypeInv'
<1> USE DEF TypeInv, TypeOK
<1>1. CASE DeliveryTimeoutRetry(p)
  <2>1. task[p].seen + 1 \in 1..MaxAttempts
    <3>1. task[p].seen \in 0..MaxAttempts /\ task[p].seen < MaxAttempts
      BY <1>1 DEF DeliveryTimeoutRetry, Busy, RetryHasAttempts, Tasks
    <3> QED BY <3>1, ConstantsAssumption
  <2>2. order' \in Orders
    BY <1>1, <2>1 DEF DeliveryTimeoutRetry, Orders
  <2> QED BY <1>1, <2>2, FinishTyped, OrderTaskStep DEF DeliveryTimeoutRetry
<1>2. CASE DeliveryTimeoutEnd(p)
  <2> DEFINE own == [order EXCEPT !.workflowStatus = "EXTERNAL_LOGISTICS_PENDING",
                                  !.fulfillmentMethod = "seller_delivery"]
             pickup == [order EXCEPT !.workflowStatus = "SELLER_ACCEPTED",
                                     !.fulfillmentMethod = "customer_pickup"]
  <2>1. own \in Orders /\ pickup \in Orders
    BY DEF Orders, WorkflowStatuses, FulfillmentMethods
  <2>2. \/ order' \in {own, pickup, order} /\ Finish(p)
        \/ Cancel(p, order)
    BY <1>2 DEF DeliveryTimeoutEnd
  <2>3. CASE order' \in {own, pickup, order} /\ Finish(p)
    BY <1>2, <2>1, <2>3, FinishTyped, OrderTaskStep DEF DeliveryTimeoutEnd
  <2>4. CASE Cancel(p, order)
    BY <1>2, <2>4, CancelTyped, OrderTaskStep DEF DeliveryTimeoutEnd
  <2> QED BY <2>2, <2>3, <2>4
<1> QED BY <1>1, <1>2 DEF EndJob

(* Giving the stock back keeps it.                                         *)
LEMMA CompensateTyped ==
  ASSUME TypeInv, NEW p \in Processes, Compensate(p) PROVE TypeInv'
<1> USE DEF TypeInv, TypeOK
<1>1. order' \in Orders
  BY DEF Compensate, Orders
<1>2. assignments' \in [Couriers -> AssignmentStatuses]
  BY DEF Compensate, AssignmentStatuses
<1> QED BY <1>1, <1>2, FinishTyped DEF Compensate

(* Every step keeps the invariant.                                         *)
LEMMA NextTyped == ASSUME TypeInv, [Next]_vars PROVE TypeInv'
<1>1. CASE UNCHANGED vars
  BY <1>1 DEF vars, TypeInv, TypeOK, RetryHasAttempts
<1>2. ASSUME NEW p \in Processes, End(p) PROVE TypeInv'
  BY <1>2, EndRequestTyped, EndJobTyped, CompensateTyped DEF End
<1>3. ASSUME NEW p \in Processes, Crash(p) PROVE TypeInv'
  BY <1>3, FinishTyped, OrderTaskStep DEF Crash, TypeInv, TypeOK
<1> QED BY <1>1, <1>2, <1>3, TimeTyped, RiderStepTyped, CourierStepTyped,
           PlainRequestTyped, BeginRequestTyped, BeginJobTyped DEF Next

(* Whatever the interleaving of handlers, jobs and crashes, the order, its *)
(* guest assignments and the handlers in flight are well formed; in        *)
(* particular the attempt counter of the rider search never passes         *)
(* DELIVERY_SEARCH_MAX_ATTEMPTS (processDeliveryTimeoutJob).               *)
THEOREM Typed == Spec => []TypeOK
<1>1. TypeInv /\ [Next]_vars => TypeInv'
  BY NextTyped
<1>2. TypeInv => TypeOK
  BY DEF TypeInv
<1> QED BY InitTyped, <1>1, <1>2, PTL DEF Spec

=============================================================================
