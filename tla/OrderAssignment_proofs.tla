----------------------- MODULE OrderAssignment_proofs -----------------------
(***************************************************************************)
(* An order has one assignee. deliveryAcceptAtomic only asks that the      *)
(* order has no rider, yet a rider never accepts an order a guest courier  *)
(* holds: nobody holds an order in a status in which it is still offered,  *)
(* and every step that returns an order to such a status clears the        *)
(* assignees it found.                                                     *)
(*                                                                         *)
(* The last part is about the search for a rider: no handler ends one      *)
(* before the windows of all its attempts have passed.                     *)
(***************************************************************************)
EXTENDS OrderWorkflow_proofs

(* Both halves are needed: that nobody holds an offered order is what      *)
(* makes the acceptance of a rider keep the assignees exclusive.           *)
AssignmentInv == OneAssignee /\ NobodyHoldsOfferedOrder

(* Without the override, which writes any status, and the deliveryBoyId    *)
(* field of updateOrderStatus, which writes any rider; and a reschedule,   *)
(* which only looks for a rider, not together with guest couriers.         *)
AssignmentsGuarded ==
  /\ "adminOverride" \notin Endpoints /\ "updateRider" \notin Endpoints
  /\ "reschedule" \in Endpoints => Couriers = {}

(* A step that leaves both assignees as they are.                          *)
AssigneesKept ==
  /\ order'.deliveryBoy = order.deliveryBoy
  /\ order'.guestCourierAssignment = order.guestCourierAssignment

(* A step that keeps both assignees and does not bring the order back to a *)
(* status before the assignment keeps the invariant.                       *)
LEMMA AssigneesFramed ==
  ASSUME AssignmentInv,
         order'.deliveryBoy = order.deliveryBoy,
         order'.guestCourierAssignment = order.guestCourierAssignment,
         order'.workflowStatus \in BeforeAssignment => Status \in BeforeAssignment
  PROVE  AssignmentInv'
  BY DEF AssignmentInv, OneAssignee, NobodyHoldsOfferedOrder, Unassigned, Status

(* Dispatching an order does not touch its assignees.                      *)
LEMMA DispatchFramed ==
  ASSUME NEW doc \in Orders
  PROVE  /\ Dispatch(doc).deliveryBoy = doc.deliveryBoy
         /\ Dispatch(doc).guestCourierAssignment = doc.guestCourierAssignment
  BY DEF Dispatch, OpenSearch, Orders

(* Cancelling an order does not touch its assignees.                       *)
LEMMA CancelFramed ==
  ASSUME NEW p, NEW doc \in Orders, AssignmentInv, Cancel(p, doc),
         doc.deliveryBoy = order.deliveryBoy,
         doc.guestCourierAssignment = order.guestCourierAssignment
  PROVE  AssignmentInv'
  BY AssigneesFramed DEF Cancel, Orders, BeforeAssignment

(* The passing of time keeps the invariant.                                *)
LEMMA TimeAssignment ==
  ASSUME AssignmentsGuarded, TypeInv, AssignmentInv, Time
  PROVE  AssignmentInv'
<1> USE DEF TypeInv, TypeOK
<1>1. CASE SellerWindowCloses
  BY <1>1, AssigneesFramed DEF SellerWindowCloses, Orders, BeforeAssignment, Status
<1>2. CASE DeadlinePasses
  BY <1>2, AssigneesFramed DEF DeadlinePasses, Orders, BeforeAssignment, Status
<1>3. CASE SearchWindowCloses
  BY <1>3, AssigneesFramed DEF SearchWindowCloses, Orders, BeforeAssignment, Status
<1>4. CASE ActivationDue
  BY <1>4, AssigneesFramed DEF ActivationDue, Orders, BeforeAssignment, Status
<1> QED BY <1>1, <1>2, <1>3, <1>4 DEF Time

(* A rider accepts, or is assigned, only an order in DELIVERY_SEARCH,      *)
(* which nobody holds (deliveryAcceptAtomic, adminAssignRiderAtomic).      *)
LEMMA RiderStepAssignment ==
  ASSUME AssignmentsGuarded, TypeInv, AssignmentInv,
         NEW r \in Riders, RiderStep(r)
  PROVE  AssignmentInv'
<1> USE DEF TypeInv, TypeOK
<1>1. CASE DeliveryAccept(r)
  BY <1>1
  DEF DeliveryAccept, AssignmentInv, OneAssignee, NobodyHoldsOfferedOrder, Unassigned,
      BeforeAssignment, Orders, Status
<1>2. CASE AdminAssignRider(r)
  BY <1>2
  DEF AdminAssignRider, AssignmentInv, OneAssignee, NobodyHoldsOfferedOrder, Unassigned,
      BeforeAssignment, Orders, Status
<1>3. CASE SkipOrder(r)
  BY <1>3, AssigneesFramed DEF SkipOrder, Orders, BeforeAssignment, Status
<1>4. CASE MarkArrivedAtStore(r)
  BY <1>4, AssigneesFramed DEF MarkArrivedAtStore, Orders, BeforeAssignment, Status
<1>5. CASE ConfirmPickup(r)
  BY <1>5, AssigneesFramed DEF ConfirmPickup, Orders, BeforeAssignment, Status
<1>6. CASE VerifyHandoffAndDeliver(r)
  BY <1>6, AssigneesFramed DEF VerifyHandoffAndDeliver, Orders, BeforeAssignment, Status
<1> QED BY <1>1, <1>2, <1>3, <1>4, <1>5, <1>6 DEF RiderStep

(* Revoking a guest courier clears the reference and returns the order to  *)
(* the search; no rider can hold it then (revokeGuestCourier).             *)
LEMMA CourierStepAssignment ==
  ASSUME AssignmentsGuarded, TypeInv, AssignmentInv,
         NEW c \in Couriers, CourierStep(c)
  PROVE  AssignmentInv'
<1> USE DEF TypeInv, TypeOK
<1>1. CASE GuestArrived(c)
  BY <1>1, AssigneesFramed DEF GuestArrived, GuestHolds, Orders, BeforeAssignment, Status
<1>2. CASE GuestConfirmPickup(c)
  BY <1>2, AssigneesFramed DEF GuestConfirmPickup, GuestHolds, Orders, BeforeAssignment, Status
<1>3. CASE GuestLinkExpires(c)
  BY <1>3, AssigneesFramed DEF GuestLinkExpires, Orders, BeforeAssignment, Status
<1>4. CASE RevokeGuestCourier(c)
  <2>1. CASE order.guestCourierAssignment = c
    <3>1. order.deliveryBoy = None
      BY <2>1, ConstantsAssumption DEF AssignmentInv, OneAssignee
    <3>2. order'.deliveryBoy = None /\ order'.guestCourierAssignment = None
      BY <1>4, <2>1, <3>1 DEF RevokeGuestCourier, Orders
    <3> QED BY <3>2 DEF AssignmentInv, OneAssignee, NobodyHoldsOfferedOrder, Unassigned
  <2>2. CASE UNCHANGED order
    BY <2>2, AssigneesFramed DEF Status
  <2> QED BY <1>4, <2>1, <2>2 DEF RevokeGuestCourier
<1> QED BY <1>1, <1>2, <1>3, <1>4 DEF CourierStep

(* An order accepted by its store is held by nobody, and a reassignment to *)
(* another store clears both assignees (orderReassignService).             *)
LEMMA PlainRequestAssignment ==
  ASSUME AssignmentsGuarded, TypeInv, AssignmentInv, PlainRequest
  PROVE  AssignmentInv'
<1> USE DEF TypeInv, TypeOK
<1>1. CASE SellerAccept
  <2>1. AssigneesKept
    <3>1. CASE order' = [order EXCEPT !.workflowStatus = "SCHEDULED_HOLD"]
      BY <3>1 DEF AssigneesKept, Orders
    <3>2. ASSUME NEW method \in AcceptMethods,
                 order' = Dispatch([order EXCEPT !.fulfillmentMethod = method])
          PROVE  AssigneesKept
      <4>1. AcceptMethods \subseteq FulfillmentMethods
        BY DEF AcceptMethods, Orders, FulfillmentMethods
      <4> DEFINE doc == [order EXCEPT !.fulfillmentMethod = method]
      <4>2. /\ doc \in Orders
            /\ doc.deliveryBoy = order.deliveryBoy
            /\ doc.guestCourierAssignment = order.guestCourierAssignment
        BY <4>1 DEF Orders
      <4> HIDE DEF doc
      <4>3. order' = Dispatch(doc)
        BY <3>2 DEF doc
      <4> QED BY <4>2, <4>3, DispatchFramed DEF AssigneesKept
    <3> QED BY <1>1, <3>1, <3>2 DEF SellerAccept
  <2> QED BY <1>1, <2>1, AssigneesFramed DEF SellerAccept, AssigneesKept, BeforeAssignment, Status
<1>2. CASE SellerResendSearch
  BY <1>2, AssigneesFramed DEF SellerResendSearch, Orders, BeforeAssignment, Status
<1>3. CASE SellerHandOver
  BY <1>3, AssigneesFramed DEF SellerHandOver, Orders, BeforeAssignment, Status
<1>4. CASE RejectCancellation
  BY <1>4, AssigneesFramed DEF RejectCancellation, Orders, BeforeAssignment, Status
<1>5. CASE ReassignStore
  BY <1>5
  DEF ReassignStore, AssignmentInv, OneAssignee, NobodyHoldsOfferedOrder, Unassigned, Orders
<1>6. ASSUME NEW next \in {"PICKUP_READY", "OUT_FOR_DELIVERY", "DELIVERED"},
             SellerUpdateStatus(next)
      PROVE  AssignmentInv'
  BY <1>6, AssigneesFramed DEF SellerUpdateStatus, Orders, BeforeAssignment
<1>7. ASSUME NEW next \in WorkflowStatuses, SelfLogisticsStatus(next)
      PROVE  AssignmentInv'
  BY <1>7, AssigneesFramed DEF SelfLogisticsStatus, Orders, BeforeAssignment
<1>8. ASSUME NEW next \in WorkflowStatuses, AdminLogisticsOverride(next)
      PROVE  AssignmentInv'
  BY <1>8 DEF AdminLogisticsOverride, AssignmentsGuarded
<1>9. CASE PaymentFailed
  BY <1>9, AssigneesFramed DEF PaymentFailed, Orders, BeforeAssignment
<1>10. CASE AlertStore
  BY <1>10, AssigneesFramed DEF AlertStore, Orders, BeforeAssignment, Status
<1> QED BY <1>1, <1>2, <1>3, <1>4, <1>5, <1>6, <1>7, <1>8, <1>9, <1>10 DEF PlainRequest

(* A guest courier is given only an order in DELIVERY_SEARCH               *)
(* (assignGuestCourier); the other first halves touch neither assignee.    *)
LEMMA BeginRequestAssignment ==
  ASSUME AssignmentsGuarded, TypeInv, AssignmentInv,
         NEW p \in Requests, BeginRequest(p)
  PROVE  AssignmentInv'
<1> USE DEF TypeInv, TypeOK
<1>1. CASE SellerAcceptTooLate(p)
  BY <1>1, CancelFramed DEF SellerAcceptTooLate
<1>2. CASE SellerReject(p)
  BY <1>2, CancelFramed DEF SellerReject
<1>3. CASE ListSellerOrders(p)
  BY <1>3, CancelFramed DEF ListSellerOrders
<1>4. CASE CustomerCancel(p)
  BY <1>4, CancelFramed DEF CustomerCancel
<1>5. CASE PaymentCaptured(p)
  BY <1>5, AssigneesFramed DEF PaymentCaptured, Orders, BeforeAssignment, Status
<1>6. CASE MarkReadyForPickup(p)
  BY <1>6, AssigneesFramed DEF MarkReadyForPickup, Orders, BeforeAssignment, Status
<1>7. CASE VerifyCustomerPickup(p)
  BY <1>7, AssigneesFramed DEF VerifyCustomerPickup, Orders, BeforeAssignment, Status
<1>8. CASE RequestCancellation(p)
  BY <1>8, AssigneesFramed DEF RequestCancellation, Orders, BeforeAssignment, Status
<1>9. CASE ApproveCancellation(p)
  BY <1>9, AssigneesFramed DEF ApproveCancellation, Orders, BeforeAssignment, Status
<1>10. CASE RescheduleRead(p)
  BY <1>10, AssigneesFramed DEF RescheduleRead, Orders, BeforeAssignment, Status
<1>11. CASE RaiseDispute(p)
  BY <1>11, AssigneesFramed DEF RaiseDispute, Orders, BeforeAssignment, Status
<1>12. CASE ResolveDispute(p)
  BY <1>12, AssigneesFramed DEF ResolveDispute, Orders, BeforeAssignment, Status
<1>13. CASE UpdateOrderStatus(p)
  BY <1>13, UpdateStarts, AssigneesFramed DEF Status
<1>14. ASSUME NEW c \in Couriers, AssignGuestCourier(p, c)
      PROVE  AssignmentInv'
  <2>1. order'.deliveryBoy = None /\ order'.workflowStatus = "DELIVERY_ASSIGNED"
    BY <1>14 DEF AssignGuestCourier, Orders, Status
  <2> QED BY <2>1 DEF AssignmentInv, OneAssignee, NobodyHoldsOfferedOrder,
                      BeforeAssignment, Status
<1>15. ASSUME NEW c \in Couriers, GuestVerifyOtp(p, c)
      PROVE  AssignmentInv'
  BY <1>15, AssigneesFramed DEF GuestVerifyOtp, Orders, BeforeAssignment
<1>16. ASSUME NEW r \in Riders, ValidateDeliveryOtp(p, r)
      PROVE  AssignmentInv'
  BY <1>16, AssigneesFramed DEF ValidateDeliveryOtp, Status
<1> QED BY <1>1, <1>2, <1>3, <1>4, <1>5, <1>6, <1>7, <1>8, <1>9, <1>10, <1>11,
       <1>12, <1>13, <1>14, <1>15, <1>16 DEF BeginRequest

(* The jobs act on orders nobody holds.                                    *)
LEMMA BeginJobAssignment ==
  ASSUME AssignmentsGuarded, TypeInv, AssignmentInv,
         NEW p \in Jobs, BeginJob(p)
  PROVE  AssignmentInv'
<1> USE DEF TypeInv, TypeOK
<1>1. CASE PaymentTimeout(p)
  BY <1>1, CancelFramed DEF PaymentTimeout
<1>2. CASE SellerTimeoutJob(p)
  <2>1. CASE order' = [order EXCEPT !.sellerOpen = TRUE]
    BY <2>1, AssigneesFramed DEF Orders, Status
  <2>2. CASE Cancel(p, order)
    BY <2>2, CancelFramed
  <2> QED BY <1>2, <2>1, <2>2 DEF SellerTimeoutJob
<1>3. CASE ActivationJob(p)
  <2>1. CASE order' = Dispatch(order)
    BY <1>3, <2>1, DispatchFramed, AssigneesFramed DEF ActivationJob, BeforeAssignment
  <2>2. CASE Cancel(p, order)
    BY <2>2, CancelFramed
  <2> QED BY <1>3, <2>1, <2>2 DEF ActivationJob
<1>4. CASE DeliveryTimeoutRead(p)
  BY <1>4, AssigneesFramed DEF DeliveryTimeoutRead, Orders, BeforeAssignment, Status
<1> QED BY <1>1, <1>2, <1>3, <1>4 DEF BeginJob

(* The second halves of requests never bring a held order back to a status *)
(* before its assignment, however stale their read.                        *)
LEMMA EndRequestAssignment ==
  ASSUME AssignmentsGuarded, TypeInv, AssignmentInv,
         NEW p \in Processes, EndRequest(p)
  PROVE  AssignmentInv'
<1> USE DEF TypeInv, TypeOK
<1>1. CASE MoveToSellerPending(p)
  BY <1>1, AssigneesFramed DEF MoveToSellerPending, Orders, BeforeAssignment, Status
<1>2. CASE AssignmentEmailSent(p)
  BY <1>2, AssigneesFramed DEF AssignmentEmailSent, Orders, BeforeAssignment, Status
<1>3. CASE CompleteGuestAssignment(p)
  BY <1>3, AssigneesFramed DEF CompleteGuestAssignment, Orders, BeforeAssignment, Status
<1>4. CASE SavePickupReady(p)
  BY <1>4, AssigneesFramed DEF SavePickupReady, Orders, BeforeAssignment, Status
<1>5. CASE SavePickupVerified(p)
  BY <1>5, AssigneesFramed DEF SavePickupVerified, Orders, BeforeAssignment, Status
<1>6. CASE SubmitCancellation(p)
  BY <1>6, AssigneesFramed DEF SubmitCancellation, Orders, BeforeAssignment, Status
<1>7. CASE MarkDisputed(p)
  BY <1>7, AssigneesFramed DEF MarkDisputed, Orders, BeforeAssignment, Status
<1>8. CASE MarkResolved(p)
  BY <1>8, AssigneesFramed DEF MarkResolved, Orders, BeforeAssignment, Status
<1>9. CASE MarkDeliveredByOtp(p)
  BY <1>9, AssigneesFramed DEF MarkDeliveredByOtp, Orders, BeforeAssignment, Status
<1>10. CASE SaveUpdateDeliver(p) \/ SaveUpdateRider(p)
  <2>1. NamedRiders = {order.deliveryBoy}
    BY DEF NamedRiders, AssignmentsGuarded
  <2>2. \/ order' = [order EXCEPT !.workflowStatus = "DELIVERED",
                                  !.deliveryBoy = order.deliveryBoy]
        \/ order' = [order EXCEPT !.deliveryBoy = order.deliveryBoy]
    BY <1>10, <2>1 DEF SaveUpdateDeliver, SaveUpdateRider
  <2> QED BY <2>2, AssigneesFramed DEF Orders, BeforeAssignment, Status
<1>11. CASE ApplyApproval(p)
  <2>1. CASE Cancel(p, [order EXCEPT !.cancellationRequest = "approved"])
    <3> DEFINE doc == [order EXCEPT !.cancellationRequest = "approved"]
    <3>1. /\ doc \in Orders
          /\ doc.deliveryBoy = order.deliveryBoy
          /\ doc.guestCourierAssignment = order.guestCourierAssignment
      BY DEF Orders, RequestStatuses
    <3> QED BY <2>1, <3>1, CancelFramed
  <2>2. CASE UNCHANGED order
    BY <2>2, AssigneesFramed DEF Status
  <2> QED BY <1>11, <2>1, <2>2 DEF ApplyApproval
<1>12. CASE SaveUpdateCancel(p)
  <2>1. PICK rider \in NamedRiders :
          Cancel(p, [order EXCEPT
                      !.deliveryBoy = rider,
                      !.cancellationRequest = IF task[p].requested THEN "approved" ELSE @])
    BY <1>12 DEF SaveUpdateCancel
  <2> DEFINE doc == [order EXCEPT
                      !.deliveryBoy = rider,
                      !.cancellationRequest = IF task[p].requested THEN "approved" ELSE @]
  <2>2. rider = order.deliveryBoy
    BY DEF NamedRiders, AssignmentsGuarded
  <2>3. doc \in Orders
    BY UpdateSaves DEF Tasks
  <2>4. /\ doc.deliveryBoy = order.deliveryBoy
        /\ doc.guestCourierAssignment = order.guestCourierAssignment
    BY <2>2 DEF Orders
  <2>5. Cancel(p, doc)
    BY <2>1
  <2> HIDE DEF doc
  <2> QED BY <2>3, <2>4, <2>5, CancelFramed
<1>13. CASE ApplyReschedule(p)
  <2>1. "reschedule" \in Endpoints => order.guestCourierAssignment = None
    BY DEF AssignmentsGuarded, Orders
  <2> QED BY <1>13, <2>1
      DEF ApplyReschedule, AssignmentInv, OneAssignee, NobodyHoldsOfferedOrder,
          Unassigned, Orders, Status
<1> QED BY <1>1, <1>2, <1>3, <1>4, <1>5, <1>6, <1>7, <1>8, <1>9, <1>10, <1>11,
       <1>12, <1>13 DEF EndRequest

(* Every step keeps the invariant.                                         *)
LEMMA NextAssignment ==
  ASSUME AssignmentsGuarded, TypeInv, AssignmentInv, [Next]_vars
  PROVE  AssignmentInv'
<1> USE DEF TypeInv, TypeOK
<1>1. CASE UNCHANGED vars
  BY <1>1, AssigneesFramed DEF vars, Status
<1>2. ASSUME NEW p \in Processes, EndJob(p) PROVE AssignmentInv'
  <2>1. CASE DeliveryTimeoutRetry(p)
    BY <2>1, AssigneesFramed DEF DeliveryTimeoutRetry, Orders, Status
  <2>2. CASE DeliveryTimeoutEnd(p)
    <3>1. CASE Cancel(p, order)
      BY <3>1, CancelFramed
    <3>2. CASE ~Cancel(p, order)
      BY <2>2, <3>2, AssigneesFramed DEF DeliveryTimeoutEnd, Orders, BeforeAssignment, Status
    <3> QED BY <3>1, <3>2
  <2> QED BY <1>2, <2>1, <2>2 DEF EndJob
<1>3. ASSUME NEW p \in Processes, Compensate(p) PROVE AssignmentInv'
  BY <1>3, AssigneesFramed DEF Compensate, Orders, Status
<1>4. ASSUME NEW p \in Processes, Crash(p) PROVE AssignmentInv'
  BY <1>4, AssigneesFramed DEF Crash, Status
<1> QED BY <1>1, <1>2, <1>3, <1>4, TimeAssignment, RiderStepAssignment,
           CourierStepAssignment, PlainRequestAssignment, BeginRequestAssignment,
           BeginJobAssignment, EndRequestAssignment DEF Next, End

(* A new order is held by nobody.                                          *)
LEMMA InitAssignment == Init => AssignmentInv
  BY DEF Init, AssignmentInv, OneAssignee, NobodyHoldsOfferedOrder, Unassigned

(* Without the unguarded override (and without rescheduling where guest    *)
(* couriers exist), an order never belongs to a rider and a guest courier  *)
(* at once, and while it is offered to riders nobody holds it: the guarded *)
(* updates of deliveryAcceptAtomic, adminAssignRiderAtomic and             *)
(* assignGuestCourier exclude each other although each looks at only part  *)
(* of the document.                                                        *)
THEOREM AssignmentsExclusive ==
  ASSUME AssignmentsGuarded
  PROVE  Spec => [](OneAssignee /\ NobodyHoldsOfferedOrder)
<1>1. Init => TypeInv /\ AssignmentInv
  BY InitTyped, InitAssignment
<1>2. TypeInv /\ AssignmentInv /\ [Next]_vars => (TypeInv /\ AssignmentInv)'
  BY NextTyped, NextAssignment
<1>3. AssignmentInv => OneAssignee /\ NobodyHoldsOfferedOrder
  BY DEF AssignmentInv
<1> QED BY <1>1, <1>2, <1>3, PTL DEF Spec

(* Under the same assumption, nobody holds an order that is offered to     *)
(* riders or waits to be: the rider whose guarded update in                *)
(* deliveryAcceptAtomic succeeds takes it from no one.                     *)
THEOREM OfferedOrdersAreFree ==
  ASSUME AssignmentsGuarded
  PROVE  Spec => []NobodyHoldsOfferedOrder
<1>1. OneAssignee /\ NobodyHoldsOfferedOrder => NobodyHoldsOfferedOrder
  OBVIOUS
<1> QED BY <1>1, AssignmentsExclusive, PTL

-----------------------------------------------------------------------------
(***************************************************************************)
(* What a step may do to an order that has a rider, whoever takes it. The  *)
(* write that ends a handler checks the rider again or leaves the rider    *)
(* alone, with one exception: updateOrderStatus puts the rider its caller  *)
(* names on the order. That a rider is kept is proved without this field;  *)
(* that an approval spares the rider, for every endpoint.                  *)
(***************************************************************************)

(* The action of RiderKept.                                                *)
RiderChange ==
  order.deliveryBoy # None /\ order'.deliveryBoy # order.deliveryBoy
    => order'.deliveryBoy = None /\ reassigns' = reassigns + 1

(* The action of ApprovalSparesRider.                                      *)
ApprovalStep ==
  \A p \in Processes :
    Busy(p, "approve") /\ task'[p].kind = "compensate"
      => order.deliveryBoy = None /\ Status \notin LegacyClosed

(* What every step is shown to satisfy, the first part unless              *)
(* updateOrderStatus may name a rider.                                     *)
Spared == ("updateRider" \notin Endpoints => RiderChange) /\ ApprovalStep

(* A step that moves no handler ends no approval.                          *)
LEMMA TaskKept == ASSUME TypeInv, UNCHANGED task PROVE ApprovalStep
  BY DEF ApprovalStep, Busy

(* A handler that does not go from approving to compensating ends no       *)
(* approval.                                                               *)
LEMMA TaskSet ==
  ASSUME TypeInv, NEW p, NEW t \in Tasks, task' = [task EXCEPT ![p] = t],
         t.kind # "compensate" \/ task[p].kind # "approve"
  PROVE  ApprovalStep
  BY DEF TypeInv, TypeOK, ApprovalStep, Busy

(* A handler that ends without compensating ends no approval.              *)
LEMMA TaskFinished == ASSUME TypeInv, NEW p, Finish(p) PROVE ApprovalStep
  BY TaskSet, TasksTyped DEF Finish

(* A handler that starts was not approving.                                *)
LEMMA TaskStarted ==
  ASSUME TypeInv, NEW p, NEW t \in Tasks, Start(p, t) PROVE ApprovalStep
  BY TaskSet, TasksTyped DEF Start

(* The cancellations that are not approvals keep the rider.                *)
LEMMA CancelSpares ==
  ASSUME TypeInv, NEW p, NEW doc \in Orders, Cancel(p, doc),
         task[p].kind # "approve", doc.deliveryBoy = order.deliveryBoy
  PROVE  Spared
<1>1. ApprovalStep
  BY TaskSet, TasksTyped DEF Cancel, TaskKinds
<1>2. order'.deliveryBoy = order.deliveryBoy
  BY DEF Cancel, Orders
<1> QED BY <1>1, <1>2 DEF Spared, RiderChange

(* Dispatching an order does not touch its rider.                          *)
LEMMA DispatchKeepsRider ==
  ASSUME NEW doc \in Orders PROVE Dispatch(doc).deliveryBoy = doc.deliveryBoy
  BY DEF Dispatch, OpenSearch, Orders

(* The passing of time takes the order from nobody.                        *)
LEMMA TimeSpares == ASSUME TypeInv, Time PROVE Spared
<1> USE DEF TypeInv, TypeOK, Spared, RiderChange
<1>1. CASE SellerWindowCloses
  BY <1>1, TaskKept DEF SellerWindowCloses, Orders
<1>2. CASE DeadlinePasses
  BY <1>2, TaskKept DEF DeadlinePasses, Orders
<1>3. CASE SearchWindowCloses
  BY <1>3, TaskKept DEF SearchWindowCloses, Orders
<1>4. CASE ActivationDue
  BY <1>4, TaskKept DEF ActivationDue, Orders
<1> QED BY <1>1, <1>2, <1>3, <1>4 DEF Time

(* A rider is put only on an order without one (deliveryAcceptAtomic,      *)
(* adminAssignRiderAtomic).                                                *)
LEMMA RiderStepSpares == ASSUME TypeInv, NEW r \in Riders, RiderStep(r) PROVE Spared
<1> USE DEF TypeInv, TypeOK, Spared, RiderChange
<1>1. CASE DeliveryAccept(r)
  BY <1>1, TaskKept DEF DeliveryAccept, Orders
<1>2. CASE AdminAssignRider(r)
  BY <1>2, TaskKept DEF AdminAssignRider, Orders
<1>3. CASE SkipOrder(r)
  BY <1>3, TaskKept DEF SkipOrder, Orders
<1>4. CASE MarkArrivedAtStore(r)
  BY <1>4, TaskKept DEF MarkArrivedAtStore, Orders
<1>5. CASE ConfirmPickup(r)
  BY <1>5, TaskKept DEF ConfirmPickup, Orders
<1>6. CASE VerifyHandoffAndDeliver(r)
  BY <1>6, TaskKept DEF VerifyHandoffAndDeliver, Orders
<1> QED BY <1>1, <1>2, <1>3, <1>4, <1>5, <1>6 DEF RiderStep

(* Guest couriers never touch the rider.                                   *)
LEMMA CourierStepSpares == ASSUME TypeInv, NEW c \in Couriers, CourierStep(c) PROVE Spared
<1> USE DEF TypeInv, TypeOK, Spared, RiderChange
<1>1. CASE GuestArrived(c)
  BY <1>1, TaskKept DEF GuestArrived, Orders
<1>2. CASE GuestConfirmPickup(c)
  BY <1>2, TaskKept DEF GuestConfirmPickup, Orders
<1>3. CASE GuestLinkExpires(c)
  BY <1>3, TaskKept DEF GuestLinkExpires, Orders
<1>4. CASE RevokeGuestCourier(c)
  BY <1>4, TaskKept DEF RevokeGuestCourier, Orders
<1> QED BY <1>1, <1>2, <1>3, <1>4 DEF CourierStep

(* Of the single guarded writes only the reassignment takes the rider      *)
(* away, and it is counted (adminReassignOrderToStore).                    *)
LEMMA PlainRequestSpares == ASSUME TypeInv, PlainRequest PROVE Spared
<1> USE DEF TypeInv, TypeOK, Spared, RiderChange
<1>1. CASE SellerAccept
  <2>1. order'.deliveryBoy = order.deliveryBoy
    <3>1. CASE order' = [order EXCEPT !.workflowStatus = "SCHEDULED_HOLD"]
      BY <3>1 DEF Orders
    <3>2. ASSUME NEW method \in AcceptMethods,
                 order' = Dispatch([order EXCEPT !.fulfillmentMethod = method])
          PROVE  order'.deliveryBoy = order.deliveryBoy
      <4>1. AcceptMethods \subseteq FulfillmentMethods
        BY DEF AcceptMethods, Orders, FulfillmentMethods
      <4> DEFINE doc == [order EXCEPT !.fulfillmentMethod = method]
      <4>2. doc \in Orders /\ doc.deliveryBoy = order.deliveryBoy
        BY <4>1 DEF Orders
      <4> HIDE DEF doc
      <4>3. order' = Dispatch(doc)
        BY <3>2 DEF doc
      <4> QED BY <4>2, <4>3, DispatchKeepsRider
    <3> QED BY <1>1, <3>1, <3>2 DEF SellerAccept
  <2> QED BY <1>1, <2>1, TaskKept DEF SellerAccept
<1>2. CASE SellerResendSearch
  BY <1>2, TaskKept DEF SellerResendSearch, Orders
<1>3. CASE SellerHandOver
  BY <1>3, TaskKept DEF SellerHandOver, Orders
<1>4. CASE RejectCancellation
  BY <1>4, TaskKept DEF RejectCancellation, Orders
<1>5. CASE ReassignStore
  BY <1>5, TaskKept DEF ReassignStore, Orders
<1>6. ASSUME NEW next \in {"PICKUP_READY", "OUT_FOR_DELIVERY", "DELIVERED"},
             SellerUpdateStatus(next)
      PROVE  Spared
  BY <1>6, TaskKept DEF SellerUpdateStatus, Orders
<1>7. ASSUME NEW next \in WorkflowStatuses, SelfLogisticsStatus(next) PROVE Spared
  BY <1>7, TaskKept DEF SelfLogisticsStatus, Orders
<1>8. ASSUME NEW next \in WorkflowStatuses, AdminLogisticsOverride(next) PROVE Spared
  BY <1>8, TaskKept DEF AdminLogisticsOverride, Orders
<1>9. CASE PaymentFailed
  BY <1>9, TaskKept DEF PaymentFailed, Orders
<1>10. CASE AlertStore
  BY <1>10, TaskKept DEF AlertStore, Orders
<1> QED BY <1>1, <1>2, <1>3, <1>4, <1>5, <1>6, <1>7, <1>8, <1>9, <1>10 DEF PlainRequest

(* First halves of requests keep the rider.                                *)
LEMMA BeginRequestSpares == ASSUME TypeInv, NEW p \in Requests, BeginRequest(p) PROVE Spared
<1> USE DEF TypeInv, TypeOK, Spared, RiderChange
<1>1. CASE SellerAcceptTooLate(p)
  BY <1>1, CancelSpares, TasksTyped DEF SellerAcceptTooLate
<1>2. CASE SellerReject(p)
  BY <1>2, CancelSpares, TasksTyped DEF SellerReject
<1>3. CASE ListSellerOrders(p)
  BY <1>3, CancelSpares, TasksTyped DEF ListSellerOrders
<1>4. CASE CustomerCancel(p)
  BY <1>4, CancelSpares, TasksTyped DEF CustomerCancel
<1>5. CASE PaymentCaptured(p)
  BY <1>5, TaskStarted, TasksTyped DEF PaymentCaptured, TaskKinds, Orders
<1>6. CASE MarkReadyForPickup(p)
  BY <1>6, TaskStarted, TasksTyped DEF MarkReadyForPickup, TaskKinds, Orders
<1>7. CASE VerifyCustomerPickup(p)
  BY <1>7, TaskStarted, TasksTyped DEF VerifyCustomerPickup, TaskKinds, Orders
<1>8. CASE RequestCancellation(p)
  BY <1>8, TaskStarted, TasksTyped DEF RequestCancellation, TaskKinds, Orders
<1>9. CASE ApproveCancellation(p)
  BY <1>9, TaskStarted, TasksTyped DEF ApproveCancellation, TaskKinds, Orders
<1>10. CASE RescheduleRead(p)
  BY <1>10, TaskStarted, TasksTyped DEF RescheduleRead, TaskKinds, Orders
<1>11. CASE RaiseDispute(p)
  BY <1>11, TaskStarted, TasksTyped DEF RaiseDispute, TaskKinds, Orders
<1>12. CASE ResolveDispute(p)
  BY <1>12, TaskStarted, TasksTyped DEF ResolveDispute, TaskKinds, Orders
<1>13. CASE UpdateOrderStatus(p)
  BY <1>13, UpdateStarts, TaskStarted
<1>14. ASSUME NEW c \in Couriers, AssignGuestCourier(p, c) PROVE Spared
  <2>1. [Task("email") EXCEPT !.courier = c] \in Tasks
    BY TasksTyped DEF Tasks, TaskKinds
  <2>2. ApprovalStep
    BY <1>14, <2>1, TaskStarted DEF AssignGuestCourier
  <2> QED BY <1>14, <2>2 DEF AssignGuestCourier, Orders
<1>15. ASSUME NEW c \in Couriers, GuestVerifyOtp(p, c) PROVE Spared
  <2>1. [Task("guestDone") EXCEPT !.courier = c] \in Tasks
    BY TasksTyped DEF Tasks, TaskKinds
  <2>2. ApprovalStep
    BY <1>15, <2>1, TaskStarted DEF GuestVerifyOtp
  <2> QED BY <1>15, <2>2 DEF GuestVerifyOtp, Orders
<1>16. ASSUME NEW r \in Riders, ValidateDeliveryOtp(p, r) PROVE Spared
  BY <1>16, TaskStarted, TasksTyped DEF ValidateDeliveryOtp, TaskKinds, Orders
<1> QED BY <1>1, <1>2, <1>3, <1>4, <1>5, <1>6, <1>7, <1>8, <1>9, <1>10, <1>11,
       <1>12, <1>13, <1>14, <1>15, <1>16 DEF BeginRequest

(* First halves of jobs keep the rider.                                    *)
LEMMA BeginJobSpares == ASSUME TypeInv, NEW p \in Jobs, BeginJob(p) PROVE Spared
<1> USE DEF TypeInv, TypeOK, Spared, RiderChange
<1>1. CASE PaymentTimeout(p)
  BY <1>1, CancelSpares, TasksTyped DEF PaymentTimeout
<1>2. CASE SellerTimeoutJob(p)
  <2>1. CASE order' = [order EXCEPT !.sellerOpen = TRUE] /\ UNCHANGED task
    BY <2>1, TaskKept DEF Orders
  <2>2. CASE Cancel(p, order)
    BY <1>2, <2>2, CancelSpares, TasksTyped DEF SellerTimeoutJob
  <2> QED BY <1>2, <2>1, <2>2 DEF SellerTimeoutJob
<1>3. CASE ActivationJob(p)
  <2>1. CASE order' = Dispatch(order) /\ UNCHANGED task
    BY <2>1, DispatchKeepsRider, TaskKept
  <2>2. CASE Cancel(p, order)
    BY <1>3, <2>2, CancelSpares, TasksTyped DEF ActivationJob
  <2> QED BY <1>3, <2>1, <2>2 DEF ActivationJob
<1>4. CASE DeliveryTimeoutRead(p)
  <2> DEFINE retry == [Task("searchRetry") EXCEPT !.seen = order.attempt]
  <2>1. order.attempt \in 0..MaxAttempts
    BY ConstantsAssumption DEF Orders
  <2>2. retry \in Tasks /\ Task("searchEnd") \in Tasks
    BY <2>1, TasksTyped DEF Tasks, TaskKinds
  <2>3. Start(p, retry) \/ Start(p, Task("searchEnd"))
    BY <1>4 DEF DeliveryTimeoutRead
  <2> QED BY <1>4, <2>2, <2>3, TaskStarted DEF DeliveryTimeoutRead
<1> QED BY <1>1, <1>2, <1>3, <1>4 DEF BeginJob

(* Second halves of requests keep the rider; the approval's update asks    *)
(* again that there is none (approveCustomerCancellationRequest).          *)
LEMMA EndRequestSpares == ASSUME TypeInv, NEW p \in Processes, EndRequest(p) PROVE Spared
<1> USE DEF TypeInv, TypeOK, Spared, RiderChange
<1>1. CASE MoveToSellerPending(p)
  BY <1>1, TaskFinished DEF MoveToSellerPending, Orders
<1>2. CASE AssignmentEmailSent(p)
  BY <1>2, TaskFinished DEF AssignmentEmailSent, Orders
<1>3. CASE CompleteGuestAssignment(p)
  BY <1>3, TaskFinished DEF CompleteGuestAssignment, Orders
<1>4. CASE SavePickupReady(p)
  BY <1>4, TaskFinished DEF SavePickupReady, Orders
<1>5. CASE SavePickupVerified(p)
  BY <1>5, TaskFinished DEF SavePickupVerified, Orders
<1>6. CASE SubmitCancellation(p)
  BY <1>6, TaskFinished DEF SubmitCancellation, Orders
<1>7. CASE ApplyReschedule(p)
  BY <1>7, TaskFinished DEF ApplyReschedule, Orders
<1>8. CASE MarkDisputed(p)
  BY <1>8, TaskFinished DEF MarkDisputed, Orders
<1>9. CASE MarkResolved(p)
  BY <1>9, TaskFinished DEF MarkResolved, Orders
<1>10. CASE MarkDeliveredByOtp(p)
  BY <1>10, TaskFinished DEF MarkDeliveredByOtp, Orders
<1>11. CASE SaveUpdateDeliver(p) \/ SaveUpdateRider(p)
  <2>1. PICK rider \in NamedRiders :
          \/ order' = [order EXCEPT !.workflowStatus = "DELIVERED", !.deliveryBoy = rider]
          \/ order' = [order EXCEPT !.deliveryBoy = rider]
    BY <1>11 DEF SaveUpdateDeliver, SaveUpdateRider
  <2>2. order'.deliveryBoy = rider
    BY <2>1 DEF Orders
  <2>3. "updateRider" \notin Endpoints => rider = order.deliveryBoy
    BY DEF NamedRiders
  <2>4. ApprovalStep
    BY <1>11, TaskFinished DEF SaveUpdateDeliver, SaveUpdateRider
  <2> QED BY <2>2, <2>3, <2>4
<1>12. CASE ApplyApproval(p)
  <2>1. CASE ApprovalStands /\ Cancel(p, [order EXCEPT !.cancellationRequest = "approved"])
    <3>1. order'.deliveryBoy = order.deliveryBoy
      BY <2>1 DEF Cancel, Orders
    <3>2. ApprovalStep
      BY <2>1 DEF ApprovalStep, ApprovalStands
    <3> QED BY <3>1, <3>2
  <2>2. CASE Finish(p) /\ UNCHANGED order
    BY <2>2, TaskFinished
  <2> QED BY <1>12, <2>1, <2>2 DEF ApplyApproval
<1>13. CASE SaveUpdateCancel(p)
  <2>1. PICK rider \in NamedRiders :
          Cancel(p, [order EXCEPT
                      !.deliveryBoy = rider,
                      !.cancellationRequest = IF task[p].requested THEN "approved" ELSE @])
    BY <1>13 DEF SaveUpdateCancel
  <2>2. order'.deliveryBoy = rider
    BY <2>1 DEF Cancel, Orders
  <2>3. "updateRider" \notin Endpoints => rider = order.deliveryBoy
    BY DEF NamedRiders
  <2>4. ApprovalStep
    BY <1>13, <2>1, TaskSet, TasksTyped DEF SaveUpdateCancel, Busy, Cancel, TaskKinds
  <2> QED BY <2>2, <2>3, <2>4
<1> QED BY <1>1, <1>2, <1>3, <1>4, <1>5, <1>6, <1>7, <1>8, <1>9, <1>10, <1>11,
       <1>12, <1>13 DEF EndRequest

(* The end of the delivery timeout keeps the rider.                        *)
LEMMA EndJobSpares == ASSUME TypeInv, NEW p \in Processes, EndJob(p) PROVE Spared
<1> USE DEF TypeInv, TypeOK, Spared, RiderChange
<1>1. CASE DeliveryTimeoutRetry(p)
  BY <1>1, TaskFinished DEF DeliveryTimeoutRetry, Orders
<1>2. CASE DeliveryTimeoutEnd(p)
  <2>1. CASE Cancel(p, order)
    BY <1>2, <2>1, CancelSpares DEF DeliveryTimeoutEnd, Busy
  <2>2. CASE ~Cancel(p, order)
    BY <1>2, <2>2, TaskFinished DEF DeliveryTimeoutEnd, Orders
  <2> QED BY <2>1, <2>2
<1> QED BY <1>1, <1>2 DEF EndJob

(* Every step is spared.                                                   *)
LEMMA NextSpares == ASSUME TypeInv, [Next]_vars PROVE Spared
<1> USE DEF TypeInv, TypeOK, Spared, RiderChange
<1>1. CASE UNCHANGED vars
  BY <1>1, TaskKept DEF vars
<1>2. ASSUME NEW p \in Processes, Compensate(p) PROVE Spared
  BY <1>2, TaskFinished DEF Compensate, Orders
<1>3. ASSUME NEW p \in Processes, Crash(p) PROVE Spared
  BY <1>3, TaskFinished DEF Crash
<1> QED BY <1>1, <1>2, <1>3, TimeSpares, RiderStepSpares, CourierStepSpares,
           PlainRequestSpares, BeginRequestSpares, BeginJobSpares,
           EndRequestSpares, EndJobSpares DEF Next, End

(* Once deliveryAcceptAtomic or adminAssignRiderAtomic has put a rider on  *)
(* an order, no interleaving of any handlers puts another in their place;  *)
(* only a reassignment to another store removes them. The deliveryBoyId    *)
(* field of updateOrderStatus, which does replace a rider, is left out.    *)
THEOREM RidersKeepTheirOrder ==
  ASSUME "updateRider" \notin Endpoints PROVE Spec => RiderKept
<1>1. TypeInv /\ [Next]_vars => TypeInv'
  BY NextTyped
<1>2. TypeInv /\ [Next]_vars => [RiderChange]_vars
  BY NextSpares DEF Spared
<1> QED BY InitTyped, <1>1, <1>2, PTL DEF Spec, RiderKept, RiderChange

(* An approval of a cancellation request, decided on a read that may be    *)
(* stale, never cancels an order that a rider has accepted or that has     *)
(* been closed since (approveCustomerCancellationRequest).                 *)
THEOREM ApprovalsSpareRiders == Spec => ApprovalSparesRider
<1>1. TypeInv /\ [Next]_vars => TypeInv'
  BY NextTyped
<1>2. TypeInv /\ [Next]_vars => [ApprovalStep]_vars
  BY NextSpares DEF Spared
<1> QED BY InitTyped, <1>1, <1>2, PTL DEF Spec, ApprovalSparesRider, ApprovalStep

-----------------------------------------------------------------------------
(***************************************************************************)
(* A search is given up only after every one of its windows has passed.    *)
(* A timeout handler may be as late as it likes: it remembers the attempt  *)
(* it read, and that many windows have passed since the search began. What *)
(* could break this is a handler of an earlier search ending a later one,  *)
(* so what has to be kept is that no handler is searching while the order  *)
(* still waits for the search to begin.                                    *)
(***************************************************************************)

(* The statuses from which a search begins, with its windows still to come. *)
BeforeSearch == {"CREATED", "SELLER_PENDING", "SCHEDULED_HOLD"}

Searching == {"searchRetry", "searchEnd"}

NobodySearchesYet ==
  Status \in BeforeSearch =>
    /\ order.guestCourierAssignment = None
    /\ \A p \in Processes : task[p].kind \notin Searching

(* All windows of the attempts so far have passed, but for an open one. A  *)
(* revoked guest courier resumes the search where it was left.             *)
WindowsCounted ==
  Status = "DELIVERY_SEARCH" \/ order.guestCourierAssignment # None
    => windows + (IF order.searchOpen THEN 1 ELSE 0) >= order.attempt

(* The windows a handler's decision rests on have passed.                  *)
Earned(t) ==
  /\ t.kind = "searchRetry" => windows >= t.seen
  /\ t.kind = "searchEnd" => windows >= MaxAttempts

DecisionsEarned == \A p \in Processes : Earned(task[p])

SearchInv == NobodySearchesYet /\ WindowsCounted /\ DecisionsEarned

(* Without what brings an order that was searched for back before its      *)
(* search: another store, a reschedule and the override.                   *)
SearchGuarded ==
  /\ MaxReassign = 0
  /\ "reschedule" \notin Endpoints /\ "adminOverride" \notin Endpoints

(* A step that leaves the search as it is, and begins none.                *)
SearchKept ==
  /\ windows' = windows
  /\ order'.attempt = order.attempt /\ order'.searchOpen = order.searchOpen
  /\ order'.workflowStatus = "DELIVERY_SEARCH" \/ order'.guestCourierAssignment # None
       => Status = "DELIVERY_SEARCH" \/ order.guestCourierAssignment # None
  /\ order'.workflowStatus \in BeforeSearch => Status \in BeforeSearch

(* A step after which no handler searches that did not search before.      *)
NobodyJoins ==
  \A p \in Processes : task'[p].kind \in Searching => task'[p] = task[p]

LEMMA SearchFramed ==
  ASSUME SearchInv, SearchKept, NobodyJoins
  PROVE  SearchInv'
<1>1. NobodySearchesYet'
  BY DEF SearchInv, NobodySearchesYet, SearchKept, NobodyJoins, BeforeSearch, Status
<1>2. WindowsCounted'
  BY DEF SearchInv, WindowsCounted, SearchKept, Status
<1>3. DecisionsEarned'
  BY DEF SearchInv, DecisionsEarned, Earned, SearchKept, NobodyJoins, Searching
<1> QED BY <1>1, <1>2, <1>3 DEF SearchInv

(* Steps after which nobody has joined the search.                         *)
LEMMA KeptJoins == ASSUME UNCHANGED task PROVE NobodyJoins
  BY DEF NobodyJoins

LEMMA SetJoins ==
  ASSUME TypeInv, NEW p, NEW t, t.kind \notin Searching, task' = [task EXCEPT ![p] = t]
  PROVE  NobodyJoins
  BY DEF TypeInv, TypeOK, NobodyJoins

LEMMA FinishJoins == ASSUME TypeInv, NEW p, Finish(p) PROVE NobodyJoins
  BY SetJoins, TasksTyped DEF Finish, Searching

LEMMA StartJoins ==
  ASSUME TypeInv, NEW p, NEW kind \in TaskKinds \ Searching, Start(p, Task(kind))
  PROVE  NobodyJoins
  BY SetJoins, TasksTyped DEF Start

(* Every path that cancels leaves the search as it is.                     *)
LEMMA CancelSearch ==
  ASSUME TypeInv, SearchInv, UNCHANGED windows, NEW p, NEW doc \in Orders, Cancel(p, doc),
         doc.attempt = order.attempt, doc.searchOpen = order.searchOpen,
         doc.guestCourierAssignment = order.guestCourierAssignment
  PROVE  SearchInv'
<1>1. NobodyJoins
  BY SetJoins, TasksTyped DEF Cancel, Searching, TaskKinds
<1>2. SearchKept
  BY DEF Cancel, SearchKept, BeforeSearch, Orders
<1> QED BY <1>1, <1>2, SearchFramed

(* A dispatched order starts its first window, or is not searched for.     *)
LEMMA DispatchSearch ==
  ASSUME TypeInv, SearchInv, Status \in BeforeSearch, UNCHANGED task, windows' = 0,
         NEW doc \in Orders, doc.guestCourierAssignment = order.guestCourierAssignment,
         order' = Dispatch(doc)
  PROVE  SearchInv'
<1>1. \/ /\ order'.workflowStatus = "DELIVERY_SEARCH"
         /\ order'.attempt = 1 /\ order'.searchOpen = TRUE
      \/ order'.workflowStatus \in {"SELLER_ACCEPTED", "EXTERNAL_LOGISTICS_PENDING"}
  BY DEF Dispatch, OpenSearch, Orders
<1>2. order'.guestCourierAssignment = None
  BY DispatchFramed DEF SearchInv, NobodySearchesYet
<1>3. NobodySearchesYet'
  BY <1>1 DEF NobodySearchesYet, BeforeSearch, Status
<1>4. WindowsCounted'
  BY <1>1, <1>2 DEF WindowsCounted, Status
<1>5. DecisionsEarned'
  BY DEF SearchInv, NobodySearchesYet, DecisionsEarned, Earned, Searching
<1> QED BY <1>3, <1>4, <1>5 DEF SearchInv

(* A new order has no search yet.                                          *)
LEMMA InitSearch == Init => SearchInv
  BY TasksTyped, ConstantsAssumption
  DEF Init, SearchInv, NobodySearchesYet, WindowsCounted, DecisionsEarned, Earned,
      BeforeSearch, Searching, Status

(* A window that closes is counted.                                        *)
LEMMA TimeSearch == ASSUME TypeInv, SearchInv, Time PROVE SearchInv'
<1> USE DEF TypeInv, TypeOK
<1>1. CASE SellerWindowCloses
  BY <1>1, KeptJoins, SearchFramed DEF SellerWindowCloses, SearchKept, Orders, Status
<1>2. CASE DeadlinePasses
  BY <1>2, KeptJoins, SearchFramed DEF DeadlinePasses, SearchKept, Orders, Status
<1>3. CASE SearchWindowCloses
  <2>1. /\ order'.workflowStatus = Status /\ order'.attempt = order.attempt
        /\ order'.guestCourierAssignment = order.guestCourierAssignment
        /\ order.searchOpen /\ order'.searchOpen = FALSE
    BY <1>3 DEF SearchWindowCloses, Orders, Status
  <2>2. windows \in 0..MaxAttempts /\ order.attempt \in 1..MaxAttempts
    BY DEF Orders
  <2>3. windows' = IF windows < MaxAttempts THEN windows + 1 ELSE windows
    BY <1>3 DEF SearchWindowCloses
  <2>4. NobodySearchesYet'
    BY <1>3, <2>1 DEF SearchWindowCloses, SearchInv, NobodySearchesYet, Status
  <2>5. WindowsCounted'
    BY <2>1, <2>2, <2>3, ConstantsAssumption DEF SearchInv, WindowsCounted, Status
  <2>6. DecisionsEarned'
    <3>1. ASSUME NEW p \in Processes PROVE Earned(task[p])'
      <4>1. task'[p] = task[p] /\ Earned(task[p]) /\ task[p].seen \in 0..MaxAttempts
        BY <1>3 DEF SearchWindowCloses, SearchInv, DecisionsEarned, Tasks
      <4> QED BY <2>2, <2>3, <4>1, ConstantsAssumption DEF Earned
    <3> QED BY <3>1 DEF DecisionsEarned
  <2> QED BY <2>4, <2>5, <2>6 DEF SearchInv
<1>4. CASE ActivationDue
  BY <1>4, KeptJoins, SearchFramed DEF ActivationDue, SearchKept, Orders, Status
<1> QED BY <1>1, <1>2, <1>3, <1>4 DEF Time

(* Riders leave the search as it is.                                       *)
LEMMA RiderStepSearch ==
  ASSUME TypeInv, SearchInv, NEW r \in Riders, RiderStep(r) PROVE SearchInv'
<1>1. SearchKept
  BY DEF RiderStep, DeliveryAccept, AdminAssignRider, SkipOrder, MarkArrivedAtStore,
         ConfirmPickup, VerifyHandoffAndDeliver, TypeInv, TypeOK, SearchKept,
         BeforeSearch, Orders, Status
<1>2. NobodyJoins
  BY KeptJoins DEF RiderStep, DeliveryAccept, AdminAssignRider, SkipOrder,
         MarkArrivedAtStore, ConfirmPickup, VerifyHandoffAndDeliver
<1> QED BY <1>1, <1>2, SearchFramed

(* A revoked guest courier gives the search back as it was taken.          *)
LEMMA CourierStepSearch ==
  ASSUME TypeInv, SearchInv, NEW c \in Couriers, CourierStep(c) PROVE SearchInv'
<1>1. NobodyJoins
  BY KeptJoins DEF CourierStep, GuestArrived, GuestConfirmPickup, GuestLinkExpires,
                   RevokeGuestCourier
<1>2. CASE GuestArrived(c) \/ GuestConfirmPickup(c) \/ GuestLinkExpires(c)
  <2>1. SearchKept
    BY <1>2 DEF GuestArrived, GuestConfirmPickup, GuestLinkExpires, GuestHolds, TypeInv,
                TypeOK, SearchKept, BeforeSearch, Orders, Status
  <2> QED BY <1>1, <2>1, SearchFramed
<1>3. CASE RevokeGuestCourier(c)
  <2>1. CASE order.guestCourierAssignment = c
    <3>1. order.guestCourierAssignment # None
      BY <2>1, ConstantsAssumption
    <3>2. SearchKept
      BY <1>3, <2>1, <3>1 DEF RevokeGuestCourier, TypeInv, TypeOK, SearchKept,
                              BeforeSearch, Orders, Status
    <3> QED BY <1>1, <3>2, SearchFramed
  <2>2. CASE order.guestCourierAssignment # c
    <3>1. SearchKept
      BY <1>3, <2>2 DEF RevokeGuestCourier, SearchKept, Status
    <3> QED BY <1>1, <3>1, SearchFramed
  <2> QED BY <2>1, <2>2
<1> QED BY <1>2, <1>3 DEF CourierStep

(* The store's acceptance dispatches the order or puts it on hold.         *)
LEMMA PlainRequestSearch ==
  ASSUME SearchGuarded, TypeInv, SearchInv, PlainRequest PROVE SearchInv'
<1> USE DEF TypeInv, TypeOK
<1>1. CASE SellerAccept
  <2>1. Status \in BeforeSearch /\ UNCHANGED task /\ windows' = 0
    BY <1>1 DEF SellerAccept, BeforeSearch
  <2>2. CASE order' = [order EXCEPT !.workflowStatus = "SCHEDULED_HOLD"]
    <3>1. /\ order'.workflowStatus = "SCHEDULED_HOLD"
          /\ order'.guestCourierAssignment = order.guestCourierAssignment
      BY <2>2 DEF Orders
    <3>2. /\ order.guestCourierAssignment = None
          /\ \A p \in Processes : task[p].kind \notin Searching
      BY <2>1 DEF SearchInv, NobodySearchesYet
    <3> QED BY <2>1, <3>1, <3>2 DEF SearchInv, NobodySearchesYet, WindowsCounted,
                                    DecisionsEarned, Earned, Searching, Status
  <2>3. ASSUME NEW method \in AcceptMethods,
               order' = Dispatch([order EXCEPT !.fulfillmentMethod = method])
        PROVE  SearchInv'
    <3>1. AcceptMethods \subseteq FulfillmentMethods
      BY DEF AcceptMethods, Orders, FulfillmentMethods
    <3> DEFINE doc == [order EXCEPT !.fulfillmentMethod = method]
    <3>2. doc \in Orders /\ doc.guestCourierAssignment = order.guestCourierAssignment
      BY <3>1 DEF Orders
    <3>3. order' = Dispatch(doc)
      BY <2>3
    <3> HIDE DEF doc
    <3> QED BY <2>1, <3>2, <3>3, DispatchSearch
  <2> QED BY <1>1, <2>2, <2>3 DEF SellerAccept
<1>2. CASE SellerResendSearch \/ SellerHandOver \/ RejectCancellation \/ PaymentFailed
           \/ AlertStore
  BY <1>2, KeptJoins, SearchFramed
     DEF SellerResendSearch, SellerHandOver, RejectCancellation, PaymentFailed, AlertStore,
         SearchKept, BeforeSearch, Orders, Status
<1>3. CASE ReassignStore
  BY <1>3, ConstantsAssumption DEF ReassignStore, SearchGuarded
<1>4. ASSUME NEW next \in {"PICKUP_READY", "OUT_FOR_DELIVERY", "DELIVERED"},
             SellerUpdateStatus(next)
      PROVE  SearchInv'
  BY <1>4, KeptJoins, SearchFramed DEF SellerUpdateStatus, SearchKept, BeforeSearch, Orders
<1>5. ASSUME NEW next \in WorkflowStatuses, SelfLogisticsStatus(next) PROVE SearchInv'
  BY <1>5, KeptJoins, SearchFramed DEF SelfLogisticsStatus, SearchKept, BeforeSearch, Orders
<1>6. ASSUME NEW next \in WorkflowStatuses, AdminLogisticsOverride(next) PROVE SearchInv'
  BY <1>6 DEF AdminLogisticsOverride, SearchGuarded
<1> QED BY <1>1, <1>2, <1>3, <1>4, <1>5, <1>6 DEF PlainRequest

(* First halves of requests leave the search as it is; a guest courier is  *)
(* given an order that is searched for.                                    *)
LEMMA BeginRequestSearch ==
  ASSUME TypeInv, SearchInv, NEW p \in Requests, BeginRequest(p) PROVE SearchInv'
<1> USE DEF TypeInv, TypeOK
<1>1. CASE SellerAcceptTooLate(p) \/ SellerReject(p) \/ ListSellerOrders(p) \/ CustomerCancel(p)
  BY <1>1, CancelSearch
     DEF SellerAcceptTooLate, SellerReject, ListSellerOrders, CustomerCancel
<1>2. CASE PaymentCaptured(p)
  <2>1. NobodyJoins
    BY <1>2, StartJoins DEF PaymentCaptured, TaskKinds, Searching
  <2> QED BY <1>2, <2>1, SearchFramed DEF PaymentCaptured, SearchKept, Orders, Status
<1>3. CASE \/ MarkReadyForPickup(p) \/ VerifyCustomerPickup(p) \/ RequestCancellation(p)
           \/ ApproveCancellation(p) \/ RescheduleRead(p) \/ RaiseDispute(p)
           \/ ResolveDispute(p) \/ \E r \in Riders : ValidateDeliveryOtp(p, r)
  <2>1. UNCHANGED <<order, windows>> /\ \E kind \in TaskKinds \ Searching : Start(p, Task(kind))
    BY <1>3 DEF MarkReadyForPickup, VerifyCustomerPickup, RequestCancellation,
                ApproveCancellation, RescheduleRead, RaiseDispute, ResolveDispute,
                ValidateDeliveryOtp, TaskKinds, Searching
  <2>2. NobodyJoins
    BY <2>1, StartJoins
  <2> QED BY <2>1, <2>2, SearchFramed DEF SearchKept, Status
<1>4. CASE UpdateOrderStatus(p)
  <2>1. PICK t \in Tasks : /\ Start(p, t)
                           /\ t.kind \in {"updateCancel", "updateDeliver", "updateRider"}
    BY <1>4, UpdateStarts
  <2>2. NobodyJoins
    BY <2>1, SetJoins DEF Start, Searching
  <2> QED BY <1>4, <2>2, UpdateStarts, SearchFramed DEF SearchKept, Status
<1>5. ASSUME NEW c \in Couriers, AssignGuestCourier(p, c) \/ GuestVerifyOtp(p, c)
      PROVE  SearchInv'
  <2>1. PICK kind \in {"email", "guestDone"} : Start(p, [Task(kind) EXCEPT !.courier = c])
    BY <1>5 DEF AssignGuestCourier, GuestVerifyOtp
  <2>2. [Task(kind) EXCEPT !.courier = c].kind \notin Searching
    BY <2>1, TasksTyped DEF Tasks, TaskKinds, Searching
  <2>3. NobodyJoins
    BY <2>1, <2>2, SetJoins DEF Start
  <2>4. SearchKept
    BY <1>5 DEF AssignGuestCourier, GuestVerifyOtp, SearchKept, BeforeSearch, Orders, Status
  <2> QED BY <2>3, <2>4, SearchFramed
<1> QED BY <1>1, <1>2, <1>3, <1>4, <1>5 DEF BeginRequest

(* The timeout reads an order whose windows have passed.                   *)
LEMMA TimeoutReadSearch ==
  ASSUME TypeInv, SearchInv, NEW p \in Processes, DeliveryTimeoutRead(p) PROVE SearchInv'
<1> DEFINE retry == [Task("searchRetry") EXCEPT !.seen = order.attempt]
           done == Task("searchEnd")
<1>1. order.attempt \in 1..MaxAttempts /\ windows \in 0..MaxAttempts
  BY DEF TypeInv, TypeOK, Orders
<1>2. retry.kind = "searchRetry" /\ retry.seen = order.attempt /\ done.kind = "searchEnd"
  BY TasksTyped DEF Tasks, TaskKinds
<1>3. windows >= order.attempt
  BY <1>1, ConstantsAssumption DEF DeliveryTimeoutRead, SearchInv, WindowsCounted
<1>4. task' = [task EXCEPT ![p] = IF order.attempt < MaxAttempts THEN retry ELSE done]
  BY DEF DeliveryTimeoutRead, Start
<1> HIDE DEF retry, done
<1> DEFINE t == IF order.attempt < MaxAttempts THEN retry ELSE done
<1>5. Status = "DELIVERY_SEARCH" /\ UNCHANGED <<order, windows>>
  BY DEF DeliveryTimeoutRead
<1>6. NobodySearchesYet' /\ WindowsCounted'
  BY <1>5 DEF SearchInv, NobodySearchesYet, WindowsCounted, BeforeSearch, Status
<1>7. Earned(t)
  <2>1. CASE order.attempt < MaxAttempts
    BY <1>2, <1>3, <2>1 DEF Earned
  <2>2. CASE ~(order.attempt < MaxAttempts)
    <3>1. windows >= MaxAttempts
      BY <1>1, <1>3, <2>2, ConstantsAssumption
    <3> QED BY <1>2, <2>2, <3>1 DEF Earned
  <2> QED BY <2>1, <2>2
<1> HIDE DEF t
<1>8. DecisionsEarned'
  <2>1. ASSUME NEW q \in Processes PROVE Earned(task[q])'
    <3>1. task'[q] = t \/ task'[q] = task[q]
      BY <1>4 DEF t, TypeInv, TypeOK
    <3>2. Earned(task[q])
      BY DEF SearchInv, DecisionsEarned
    <3>3. Earned(task'[q])
      BY <1>7, <3>1, <3>2
    <3> QED BY <1>5, <3>3 DEF Earned
  <2> QED BY <2>1 DEF DecisionsEarned
<1> QED BY <1>6, <1>8 DEF SearchInv

LEMMA BeginJobSearch ==
  ASSUME TypeInv, SearchInv, NEW p \in Jobs, BeginJob(p) PROVE SearchInv'
<1> USE DEF TypeInv, TypeOK
<1>1. CASE PaymentTimeout(p)
  BY <1>1, CancelSearch DEF PaymentTimeout
<1>2. CASE SellerTimeoutJob(p)
  <2>1. CASE order' = [order EXCEPT !.sellerOpen = TRUE] /\ UNCHANGED task
    BY <1>2, <2>1, KeptJoins, SearchFramed DEF SellerTimeoutJob, SearchKept, Orders, Status
  <2>2. CASE Cancel(p, order)
    BY <1>2, <2>2, CancelSearch DEF SellerTimeoutJob
  <2> QED BY <1>2, <2>1, <2>2 DEF SellerTimeoutJob
<1>3. CASE ActivationJob(p)
  <2>1. CASE order' = Dispatch(order) /\ windows' = 0 /\ UNCHANGED task
    BY <1>3, <2>1, DispatchSearch DEF ActivationJob, BeforeSearch
  <2>2. CASE Cancel(p, order) /\ UNCHANGED windows
    BY <2>2, CancelSearch
  <2> QED BY <1>3, <2>1, <2>2 DEF ActivationJob
<1>4. CASE DeliveryTimeoutRead(p)
  BY <1>4, TimeoutReadSearch DEF Processes
<1> QED BY <1>1, <1>2, <1>3, <1>4 DEF BeginJob

(* Second halves of requests bring no order back before its search.        *)
LEMMA EndRequestSearch ==
  ASSUME SearchGuarded, TypeInv, SearchInv, NEW p \in Processes, EndRequest(p)
  PROVE  SearchInv'
<1> USE DEF TypeInv, TypeOK
<1>1. CASE \/ MoveToSellerPending(p) \/ AssignmentEmailSent(p)
           \/ CompleteGuestAssignment(p) \/ SavePickupReady(p) \/ SavePickupVerified(p)
  <2>1. Finish(p)
    BY <1>1 DEF MoveToSellerPending, AssignmentEmailSent, CompleteGuestAssignment,
                SavePickupReady, SavePickupVerified
  <2>2. SearchKept
    BY <1>1 DEF MoveToSellerPending, AssignmentEmailSent, CompleteGuestAssignment,
                SavePickupReady, SavePickupVerified, SearchKept, BeforeSearch, Orders, Status
  <2> QED BY <2>1, <2>2, FinishJoins, SearchFramed
<1>2. CASE SubmitCancellation(p) \/ MarkDisputed(p) \/ MarkResolved(p) \/ MarkDeliveredByOtp(p)
  <2>1. Finish(p)
    BY <1>2 DEF SubmitCancellation, MarkDisputed, MarkResolved, MarkDeliveredByOtp
  <2>2. SearchKept
    BY <1>2 DEF SubmitCancellation, MarkDisputed, MarkResolved, MarkDeliveredByOtp,
                SearchKept, BeforeSearch, Orders, Status
  <2> QED BY <2>1, <2>2, FinishJoins, SearchFramed
<1>3. CASE ApplyReschedule(p)
  BY <1>3 DEF ApplyReschedule, SearchGuarded
<1>4. CASE SaveUpdateDeliver(p) \/ SaveUpdateRider(p)
  <2>1. Finish(p)
    BY <1>4 DEF SaveUpdateDeliver, SaveUpdateRider
  <2>2. SearchKept
    BY <1>4 DEF SaveUpdateDeliver, SaveUpdateRider, SearchKept, BeforeSearch, Orders, Status
  <2> QED BY <2>1, <2>2, FinishJoins, SearchFramed
<1>5. CASE ApplyApproval(p)
  <2>1. CASE Cancel(p, [order EXCEPT !.cancellationRequest = "approved"])
    <3> DEFINE doc == [order EXCEPT !.cancellationRequest = "approved"]
    <3>1. /\ doc \in Orders /\ doc.attempt = order.attempt
          /\ doc.searchOpen = order.searchOpen
          /\ doc.guestCourierAssignment = order.guestCourierAssignment
      BY DEF Orders, RequestStatuses
    <3> QED BY <1>5, <2>1, <3>1, CancelSearch DEF ApplyApproval
  <2>2. CASE Finish(p) /\ UNCHANGED order
    BY <1>5, <2>2, FinishJoins, SearchFramed DEF ApplyApproval, SearchKept, Status
  <2> QED BY <1>5, <2>1, <2>2 DEF ApplyApproval
<1>6. CASE SaveUpdateCancel(p)
  <2>1. PICK rider \in NamedRiders :
          Cancel(p, [order EXCEPT
                      !.deliveryBoy = rider,
                      !.cancellationRequest = IF task[p].requested THEN "approved" ELSE @])
    BY <1>6 DEF SaveUpdateCancel
  <2> DEFINE doc == [order EXCEPT
                      !.deliveryBoy = rider,
                      !.cancellationRequest = IF task[p].requested THEN "approved" ELSE @]
  <2>2. doc \in Orders
    BY UpdateSaves DEF Tasks
  <2>3. /\ doc.attempt = order.attempt /\ doc.searchOpen = order.searchOpen
        /\ doc.guestCourierAssignment = order.guestCourierAssignment
    BY DEF Orders
  <2>4. Cancel(p, doc) /\ UNCHANGED windows
    BY <1>6, <2>1 DEF SaveUpdateCancel
  <2> HIDE DEF doc
  <2> QED BY <2>2, <2>3, <2>4, CancelSearch
<1> QED BY <1>1, <1>2, <1>3, <1>4, <1>5, <1>6 DEF EndRequest

(* A rebroadcast writes the attempt after the one whose window has passed. *)
LEMMA RetrySearch ==
  ASSUME TypeInv, SearchInv, NEW p \in Processes, DeliveryTimeoutRetry(p) PROVE SearchInv'
<1>1. NobodyJoins
  BY FinishJoins DEF DeliveryTimeoutRetry
<1>2. CASE Status # "DELIVERY_SEARCH"
  BY <1>1, <1>2, SearchFramed DEF DeliveryTimeoutRetry, SearchKept, Status
<1>3. CASE Status = "DELIVERY_SEARCH"
  <2>1. /\ order'.workflowStatus = "DELIVERY_SEARCH" /\ UNCHANGED windows
        /\ order'.attempt = task[p].seen + 1 /\ order'.searchOpen = TRUE
    BY <1>3 DEF DeliveryTimeoutRetry, TypeInv, TypeOK, Orders, Status
  <2>2. windows >= task[p].seen /\ windows \in 0..MaxAttempts /\ task[p].seen \in 0..MaxAttempts
    BY DEF DeliveryTimeoutRetry, Busy, SearchInv, DecisionsEarned, Earned, TypeInv, TypeOK, Tasks
  <2>3. windows' + 1 >= order'.attempt
    BY <2>1, <2>2, ConstantsAssumption
  <2>4. WindowsCounted'
    BY <2>1, <2>3 DEF WindowsCounted
  <2>5. NobodySearchesYet'
    BY <2>1 DEF NobodySearchesYet, BeforeSearch, Status
  <2>6. DecisionsEarned'
    BY <1>1, <2>1 DEF SearchInv, DecisionsEarned, Earned, NobodyJoins, Searching
  <2> QED BY <2>4, <2>5, <2>6 DEF SearchInv
<1> QED BY <1>2, <1>3

LEMMA EndJobSearch ==
  ASSUME TypeInv, SearchInv, NEW p \in Processes, EndJob(p) PROVE SearchInv'
<1> USE DEF TypeInv, TypeOK
<1>1. CASE DeliveryTimeoutEnd(p)
  <2>1. CASE Cancel(p, order)
    BY <1>1, <2>1, CancelSearch DEF DeliveryTimeoutEnd
  <2>2. CASE ~Cancel(p, order)
    <3>1. Finish(p)
      BY <1>1, <2>2 DEF DeliveryTimeoutEnd
    <3>2. SearchKept
      BY <1>1, <2>2 DEF DeliveryTimeoutEnd, SearchKept, BeforeSearch, Orders, Status
    <3> QED BY <3>1, <3>2, FinishJoins, SearchFramed
  <2> QED BY <2>1, <2>2
<1> QED BY <1>1, RetrySearch DEF EndJob

(* Every step keeps the invariant.                                         *)
LEMMA NextSearch ==
  ASSUME SearchGuarded, TypeInv, SearchInv, [Next]_vars PROVE SearchInv'
<1>1. CASE UNCHANGED vars
  BY <1>1, KeptJoins, SearchFramed DEF vars, SearchKept, Status
<1>2. ASSUME NEW p \in Processes, Compensate(p) PROVE SearchInv'
  BY <1>2, FinishJoins, SearchFramed
     DEF Compensate, SearchKept, TypeInv, TypeOK, Orders, Status
<1>3. ASSUME NEW p \in Processes, Crash(p) PROVE SearchInv'
  BY <1>3, FinishJoins, SearchFramed DEF Crash, SearchKept, Status
<1> QED BY <1>1, <1>2, <1>3, TimeSearch, RiderStepSearch, CourierStepSearch,
           PlainRequestSearch, BeginRequestSearch, BeginJobSearch, EndRequestSearch,
           EndJobSearch DEF Next, End

(* The action of SearchNotCutShort.                                        *)
GivenUpLate ==
  (\E p \in Processes : Busy(p, "searchEnd") /\ task'[p] # task[p])
    /\ Status = "DELIVERY_SEARCH" /\ order' # order
  => windows >= MaxAttempts

(* However many timeout handlers run at once, overwrite each other's       *)
(* attempt or come late, a search for a rider is given up only after all   *)
(* its windows (processDeliveryTimeoutJob), also when a guest courier had  *)
(* the order in between. A reassignment or a reschedule, which start the   *)
(* search anew under a handler that ends the old one, are left out.        *)
THEOREM SearchesRunTheirCourse == ASSUME SearchGuarded PROVE Spec => SearchNotCutShort
<1>1. Init => TypeInv /\ SearchInv
  BY InitTyped, InitSearch
<1>2. TypeInv /\ SearchInv /\ [Next]_vars => (TypeInv /\ SearchInv)'
  BY NextTyped, NextSearch
<1>3. TypeInv /\ SearchInv => [GivenUpLate]_vars
  BY DEF GivenUpLate, Busy, SearchInv, DecisionsEarned, Earned
<1> QED BY <1>1, <1>2, <1>3, PTL DEF Spec, SearchNotCutShort, GivenUpLate
=============================================================================
