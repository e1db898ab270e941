--------------------------- MODULE OrderWorkflow ---------------------------
(***************************************************************************)
(* One version-2 order of the marketplace and everybody who moves it: the  *)
(* store, the riders, a guest courier, the customer, administrators and    *)
(* the timeout jobs.                                                       *)
(*                                                                         *)
(* The order document is a record.  A guarded findOneAndUpdate is one      *)
(* action: its filter is the guard, its $set the EXCEPT.  A handler that   *)
(* reads the document, awaits, and then writes is two actions; between     *)
(* them the handler sits in task[p] of the process p that runs it, with    *)
(* what it remembers of its read.  A cancellation leaves its handler in    *)
(* the "compensate" task, because the stock is given back by a later write.*)
(* A time stored in the document is represented by its relation to now.    *)
(***************************************************************************)
EXTENDS OrderStateMachine, Naturals, FiniteSets

CONSTANTS
  Riders,        \* delivery partners of the platform
  Couriers,      \* guest courier assignments an administrator may create
  Requests,      \* processes that serve requests
  Jobs,          \* processes that run the queue consumers and the sweeps
  Methods,       \* fulfilment methods an order may be placed with
  Policy,        \* what the store's delivery policy allows
  Scheduled,     \* set of BOOLEAN: is the order for a later time slot
  Online,        \* set of BOOLEAN: is the order paid online
  Endpoints,     \* endpoints that write the status without guarding on it
  Crashes,       \* may a process die between its read and its write
  MaxAttempts,   \* DELIVERY_SEARCH_MAX_ATTEMPTS
  MaxReassign,   \* bound: store reassignments in a behaviour
  None           \* no rider, no courier

FulfillmentMethods ==
  {"platform_logistics", "external_logistics", "seller_delivery", "customer_pickup"}
Policies == {"autoSwitch", "sellerDelivery", "customerPickup"}
AllEndpoints ==
  { "reschedule", "dispute", "validateOtp", "updateStatus", "updateRider",
    "selfLogistics", "adminOverride" }

Processes == Requests \cup Jobs

ASSUME ConstantsAssumption ==
  /\ None \notin Riders \cup Couriers
  /\ Requests \cap Jobs = {}
  /\ Methods \subseteq FulfillmentMethods
  /\ Policy \subseteq Policies
  /\ Scheduled \subseteq BOOLEAN
  /\ Online \subseteq BOOLEAN
  /\ Endpoints \subseteq AllEndpoints
  /\ Crashes \in BOOLEAN
  /\ MaxAttempts \in Nat \ {0}
  /\ MaxReassign \in Nat

VARIABLES
  order,        \* the order document
  assignments,  \* the guest courier assignments of the order
  task,         \* what each process is in the middle of
  reassigns,    \* bound: reassignments so far
  windows       \* history: windows this rider search has let pass

vars == <<order, assignments, task, reassigns, windows>>

-----------------------------------------------------------------------------
RequestStatuses == {"none", "pending", "approved", "rejected"}
AssignmentStatuses == {"none", "email_pending", "active", "ended"}

Orders ==
  [ workflowStatus : WorkflowStatuses,
    fulfillmentMethod : FulfillmentMethods,
    scheduled : BOOLEAN,
    online : BOOLEAN,
    paid : BOOLEAN,
    deliveryBoy : Riders \cup {None},
    guestCourierAssignment : Couriers \cup {None},
    attempt : 1..MaxAttempts,           \* deliverySearchMeta.attempt
    skippedBy : SUBSET Riders,
    searchOpen : BOOLEAN,               \* deliverySearchExpiresAt > now
    sellerOpen : BOOLEAN,               \* sellerPendingExpiresAt > now
    deadlinePassed : BOOLEAN,           \* sellerAcceptDeadline <= now
    activationDue : BOOLEAN,            \* schedule.activationAt <= now
    cancellationRequest : RequestStatuses,
    dispute : {"none", "open", "closed"},
    stock : {"reserved", "released"} ]

TaskKinds ==
  { "idle", "compensate", "move", "request", "approve", "pickupReady",
    "pickupVerify", "email", "guestDone", "reschedule", "raise", "resolve",
    "validateOtp", "updateCancel", "updateDeliver", "updateRider",
    "searchRetry", "searchEnd" }

(* What a handler remembers of its read: a search attempt, whether it saw  *)
(* a pending cancellation request, and the assignment it works on.         *)
Tasks == [ kind : TaskKinds, seen : 0..MaxAttempts, requested : BOOLEAN,
           courier : Couriers \cup {None} ]

Idle == [kind |-> "idle", seen |-> 0, requested |-> FALSE, courier |-> None]
Task(kind) == [Idle EXCEPT !.kind = kind]

Status == order.workflowStatus

Start(p, t)  == task[p] = Idle /\ task' = [task EXCEPT ![p] = t]
Busy(p, kind) == task[p].kind = kind
Finish(p)    == task' = [task EXCEPT ![p] = Idle]

(* Every path that cancels writes the status first and compensates next.   *)
Cancel(p, doc) ==
  /\ order' = [doc EXCEPT !.workflowStatus = "CANCELLED"]
  /\ task' = [task EXCEPT ![p] = Task("compensate")]

(* A broadcast starts over: first attempt, fresh window.                   *)
OpenSearch(doc) ==
  [doc EXCEPT !.workflowStatus = "DELIVERY_SEARCH",
              !.attempt = 1, !.searchOpen = TRUE]

IsPlatform(doc) ==
  doc.fulfillmentMethod \in {"platform_logistics", "external_logistics"}

(* Where an accepted order goes when it is to be fulfilled now.            *)
Dispatch(doc) ==
  CASE doc.fulfillmentMethod = "customer_pickup" ->
         [doc EXCEPT !.workflowStatus = "SELLER_ACCEPTED"]
    [] doc.fulfillmentMethod \in {"seller_delivery", "external_logistics"} ->
         [doc EXCEPT !.workflowStatus = "EXTERNAL_LOGISTICS_PENDING"]
    [] OTHER -> OpenSearch(doc)

Payable == ~order.online \/ order.paid

ActiveAssignment(c) == assignments[c] \in {"email_pending", "active"}

(* resolveCustomerCancellationMode: it asks for a rider, not for a guest.  *)
CancellationMode ==
  CASE Status \in LegacyClosed -> "blocked"
    [] Status \in LegacyPending -> "instant"
    [] order.deliveryBoy = None /\ Status \in ConfirmedOrPacked -> "approval"
    [] OTHER -> "blocked"

-----------------------------------------------------------------------------
Init ==
  /\ \E method \in Methods, later \in Scheduled, online \in Online :
       order = [ workflowStatus |-> IF online THEN "CREATED" ELSE "SELLER_PENDING",
                 fulfillmentMethod |-> method,
                 scheduled |-> later,
                 online |-> online,
                 paid |-> FALSE,
                 deliveryBoy |-> None,
                 guestCourierAssignment |-> None,
                 attempt |-> 1,
                 skippedBy |-> {},
                 searchOpen |-> FALSE,
                 sellerOpen |-> ~online,
                 deadlinePassed |-> FALSE,
                 activationDue |-> FALSE,
                 cancellationRequest |-> "none",
                 dispute |-> "none",
                 stock |-> "reserved" ]
  /\ assignments = [c \in Couriers |-> "none"]
  /\ task = [p \in Processes |-> Idle]
  /\ reassigns = 0
  /\ windows = 0

-----------------------------------------------------------------------------
(* The passing of time.                                                    *)

SellerWindowCloses ==
  /\ Status = "SELLER_PENDING" /\ order.sellerOpen
  /\ order' = [order EXCEPT !.sellerOpen = FALSE]
  /\ UNCHANGED <<assignments, task, reassigns, windows>>

DeadlinePasses ==
  /\ ~order.deadlinePassed /\ Status \notin LegacyClosed
  /\ order' = [order EXCEPT !.deadlinePassed = TRUE]
  /\ UNCHANGED <<assignments, task, reassigns, windows>>

SearchWindowCloses ==
  /\ order.searchOpen
  /\ order' = [order EXCEPT !.searchOpen = FALSE]
  /\ windows' = IF windows < MaxAttempts THEN windows + 1 ELSE windows
  /\ UNCHANGED <<assignments, task, reassigns>>

ActivationDue ==
  /\ Status = "SCHEDULED_HOLD" /\ ~order.activationDue
  /\ order' = [order EXCEPT !.activationDue = TRUE]
  /\ UNCHANGED <<assignments, task, reassigns, windows>>

-----------------------------------------------------------------------------
(* Payment: the capture is recorded first, the order released to the store *)
(* by a second write.                                                      *)

PaymentCaptured(p) ==
  /\ order.online /\ ~order.paid
  /\ Start(p, Task("move"))
  /\ order' = [order EXCEPT !.paid = TRUE]
  /\ UNCHANGED <<assignments, reassigns, windows>>

MoveToSellerPending(p) ==
  /\ Busy(p, "move")
  /\ order' = IF Status = "CREATED"
              THEN [order EXCEPT !.workflowStatus = "SELLER_PENDING",
                                 !.sellerOpen = TRUE]
              ELSE order
  /\ Finish(p)
  /\ UNCHANGED <<assignments, reassigns, windows>>

(* An order taken over the phone goes to the store before it is paid.      *)
AlertStore ==
  /\ Status = "CREATED" /\ order.online
  /\ order' = [order EXCEPT !.workflowStatus = "SELLER_PENDING", !.sellerOpen = TRUE]
  /\ UNCHANGED <<assignments, task, reassigns, windows>>

(* A failed payment cancels the order and gives its stock back at once (one *)
(* transaction).                                                           *)
PaymentFailed ==
  /\ Status = "CREATED" /\ order.online /\ ~order.paid
  /\ order' = [order EXCEPT !.workflowStatus = "CANCELLED", !.stock = "released"]
  /\ UNCHANGED <<assignments, task, reassigns, windows>>

PaymentTimeout(p) ==
  /\ task[p] = Idle
  /\ Status = "CREATED" /\ order.online /\ ~order.paid
  /\ Cancel(p, order)
  /\ UNCHANGED <<assignments, reassigns, windows>>

-----------------------------------------------------------------------------
(* The store answers the order.                                            *)

(* A store that cannot deliver itself at accept time is switched over.     *)
AcceptMethods ==
  {order.fulfillmentMethod} \cup
  IF order.fulfillmentMethod # "seller_delivery" THEN {}
  ELSE IF "autoSwitch" \in Policy THEN {"platform_logistics"}
  ELSE IF "customerPickup" \in Policy THEN {"customer_pickup"} ELSE {}

SellerAcceptUnpaid ==
  /\ Status = "SELLER_PENDING" /\ order.sellerOpen
  /\ order' = Dispatch(order)
  /\ windows' = 0
  /\ UNCHANGED <<assignments, task, reassigns>>

SellerAccept ==
  /\ Status = "SELLER_PENDING" /\ order.sellerOpen /\ Payable
  /\ \/ /\ order.scheduled
        /\ order' = [order EXCEPT !.workflowStatus = "SCHEDULED_HOLD"]
     \/ /\ ~order.scheduled
        /\ \E method \in AcceptMethods :
             order' = Dispatch([order EXCEPT !.fulfillmentMethod = method])
  /\ windows' = 0
  /\ UNCHANGED <<assignments, task, reassigns>>

(* An accept that comes too late cancels the order instead.                *)
SellerAcceptTooLate(p) ==
  /\ task[p] = Idle
  /\ Status = "SELLER_PENDING" /\ ~(order.sellerOpen /\ Payable)
  /\ order.deadlinePassed
  /\ Cancel(p, order)
  /\ UNCHANGED <<assignments, reassigns, windows>>

SellerRejectKeepsStock(p) ==
  /\ task[p] = Idle
  /\ Status = "SELLER_PENDING" /\ order.sellerOpen
  /\ order' = [order EXCEPT !.workflowStatus = "CANCELLED"]
  /\ UNCHANGED <<assignments, task, reassigns, windows>>

SellerReject(p) ==
  /\ task[p] = Idle
  /\ Status = "SELLER_PENDING" /\ order.sellerOpen
  /\ Cancel(p, order)
  /\ UNCHANGED <<assignments, reassigns, windows>>

(* Listing the store's orders cancels those past the deadline.             *)
ListSellerOrders(p) ==
  /\ task[p] = Idle
  /\ Status = "SELLER_PENDING" /\ order.deadlinePassed
  /\ Cancel(p, order)
  /\ UNCHANGED <<assignments, reassigns, windows>>

SellerTimeoutReminds(p) ==
  /\ task[p] = Idle
  /\ Status = "SELLER_PENDING"
  /\ order' = [order EXCEPT !.sellerOpen = TRUE]
  /\ UNCHANGED <<assignments, task, reassigns, windows>>

(* Before the deadline the job reopens the window, after it it cancels.    *)
SellerTimeoutJob(p) ==
  /\ task[p] = Idle
  /\ Status = "SELLER_PENDING"
  /\ \/ /\ ~order.deadlinePassed
        /\ order' = [order EXCEPT !.sellerOpen = TRUE]
        /\ UNCHANGED task
     \/ /\ order.deadlinePassed
        /\ Cancel(p, order)
  /\ UNCHANGED <<assignments, reassigns, windows>>

(* A due scheduled order is dispatched, or cancelled if the store is shut. *)
ActivationJob(p) ==
  /\ task[p] = Idle
  /\ Status = "SCHEDULED_HOLD" /\ order.activationDue
  /\ \/ order' = Dispatch(order) /\ windows' = 0 /\ UNCHANGED task
     \/ Cancel(p, order) /\ UNCHANGED windows
  /\ UNCHANGED <<assignments, reassigns>>

-----------------------------------------------------------------------------
(* The search for a rider.                                                 *)

DeliveryAcceptAssigned(r) ==
  /\ Status \in {"DELIVERY_SEARCH", "DELIVERY_ASSIGNED"} /\ order.deliveryBoy = None
  /\ order' = [order EXCEPT !.deliveryBoy = r, !.workflowStatus = "DELIVERY_ASSIGNED"]
  /\ UNCHANGED <<assignments, task, reassigns, windows>>

DeliveryAccept(r) ==
  /\ Status = "DELIVERY_SEARCH" /\ order.deliveryBoy = None
  /\ order.searchOpen /\ r \notin order.skippedBy
  /\ order' = [order EXCEPT !.deliveryBoy = r, !.workflowStatus = "DELIVERY_ASSIGNED"]
  /\ UNCHANGED <<assignments, task, reassigns, windows>>

AdminReplaceRider(r) ==
  /\ Status = "DELIVERY_SEARCH"
  /\ order' = [order EXCEPT !.deliveryBoy = r, !.workflowStatus = "DELIVERY_ASSIGNED"]
  /\ UNCHANGED <<assignments, task, reassigns, windows>>

AdminAssignRider(r) ==
  /\ Status = "DELIVERY_SEARCH" /\ order.deliveryBoy = None
  /\ order' = [order EXCEPT !.deliveryBoy = r, !.workflowStatus = "DELIVERY_ASSIGNED"]
  /\ UNCHANGED <<assignments, task, reassigns, windows>>

SkipOrder(r) ==
  /\ Status = "DELIVERY_SEARCH" /\ r \notin order.skippedBy
  /\ order' = [order EXCEPT !.skippedBy = @ \cup {r}]
  /\ UNCHANGED <<assignments, task, reassigns, windows>>

SellerResendSearch ==
  /\ Status = "DELIVERY_SEARCH" /\ order.skippedBy # {}
  /\ order' = [order EXCEPT !.skippedBy = {}]
  /\ UNCHANGED <<assignments, task, reassigns, windows>>

DeliveryTimeoutReadTooFew(p) ==
  /\ Status = "DELIVERY_SEARCH" /\ ~order.searchOpen
  /\ Start(p, IF order.attempt <= MaxAttempts
              THEN [Task("searchRetry") EXCEPT !.seen = order.attempt]
              ELSE Task("searchEnd"))
  /\ UNCHANGED <<order, assignments, reassigns, windows>>

DeliveryTimeoutReadEarly(p) ==
  /\ Status = "DELIVERY_SEARCH"
  /\ Start(p, IF order.attempt < MaxAttempts
              THEN [Task("searchRetry") EXCEPT !.seen = order.attempt]
              ELSE Task("searchEnd"))
  /\ UNCHANGED <<order, assignments, reassigns, windows>>

(* The delivery timeout reads the order, then writes what it decided.      *)
DeliveryTimeoutRead(p) ==
  /\ Status = "DELIVERY_SEARCH" /\ ~order.searchOpen
  /\ Start(p, IF order.attempt < MaxAttempts
              THEN [Task("searchRetry") EXCEPT !.seen = order.attempt]
              ELSE Task("searchEnd"))
  /\ UNCHANGED <<order, assignments, reassigns, windows>>

DeliveryTimeoutRetrySame(p) ==
  /\ Busy(p, "searchRetry")
  /\ order' = IF Status = "DELIVERY_SEARCH"
              THEN [order EXCEPT !.attempt = task[p].seen, !.searchOpen = TRUE]
              ELSE order
  /\ Finish(p)
  /\ UNCHANGED <<assignments, reassigns, windows>>

(* Broadcast again: the attempt written is the one read plus one.          *)
DeliveryTimeoutRetry(p) ==
  /\ Busy(p, "searchRetry")
  /\ order' = IF Status = "DELIVERY_SEARCH"
              THEN [order EXCEPT !.attempt = task[p].seen + 1, !.searchOpen = TRUE]
              ELSE order
  /\ Finish(p)
  /\ UNCHANGED <<assignments, reassigns, windows>>

SellerMayDeliver == IsPlatform(order) /\ "sellerDelivery" \in Policy

DeliveryTimeoutEndUnfiltered(p) ==
  /\ Busy(p, "searchEnd")
  /\ order' = [order EXCEPT !.workflowStatus = "EXTERNAL_LOGISTICS_PENDING",
                            !.fulfillmentMethod = "seller_delivery"]
  /\ Finish(p)
  /\ UNCHANGED <<assignments, reassigns, windows>>

(* Attempts used up: seller delivery, else pickup, else cancel.            *)
DeliveryTimeoutEnd(p) ==
  /\ Busy(p, "searchEnd")
  /\ \/ /\ Status = "DELIVERY_SEARCH"
        /\ SellerMayDeliver
        /\ order' = [order EXCEPT !.workflowStatus = "EXTERNAL_LOGISTICS_PENDING",
                                  !.fulfillmentMethod = "seller_delivery"]
        /\ Finish(p)
     \/ /\ Status = "DELIVERY_SEARCH"
        /\ ~SellerMayDeliver
        /\ "customerPickup" \in Policy
        /\ order' = [order EXCEPT !.workflowStatus = "SELLER_ACCEPTED",
                                  !.fulfillmentMethod = "customer_pickup"]
        /\ Finish(p)
     \/ /\ Status = "DELIVERY_SEARCH"
        /\ ~SellerMayDeliver
        /\ "customerPickup" \notin Policy
        /\ Cancel(p, order)
     \/ /\ Status # "DELIVERY_SEARCH"
        /\ Finish(p) /\ UNCHANGED order
  /\ UNCHANGED <<assignments, reassigns, windows>>

-----------------------------------------------------------------------------
(* A rider carries the order.                                              *)

MarkArrivedAtStore(r) ==
  /\ Status = "DELIVERY_ASSIGNED" /\ order.deliveryBoy = r
  /\ order' = [order EXCEPT !.workflowStatus = "PICKUP_READY"]
  /\ UNCHANGED <<assignments, task, reassigns, windows>>

SellerHandOver ==
  /\ IsPlatform(order)
  /\ Status = "PICKUP_READY"
  /\ order.deliveryBoy # None \/ order.guestCourierAssignment # None
  /\ order' = [order EXCEPT !.workflowStatus = "HANDED_OVER_TO_LOGISTICS"]
  /\ UNCHANGED <<assignments, task, reassigns, windows>>

ConfirmPickup(r) ==
  /\ Status = "HANDED_OVER_TO_LOGISTICS" /\ order.deliveryBoy = r
  /\ order' = [order EXCEPT !.workflowStatus = "OUT_FOR_DELIVERY"]
  /\ UNCHANGED <<assignments, task, reassigns, windows>>

VerifyHandoffAndDeliver(r) ==
  /\ Status = "OUT_FOR_DELIVERY" /\ order.deliveryBoy = r
  /\ order' = [order EXCEPT !.workflowStatus = "DELIVERED"]
  /\ UNCHANGED <<assignments, task, reassigns, windows>>

(* The store delivers itself (or an outside carrier does).                 *)
SellerUpdateStatus(next) ==
  /\ order.fulfillmentMethod \in {"seller_delivery", "customer_pickup"}
  /\ next \in {"PICKUP_READY", "DELIVERED"} => order.fulfillmentMethod = "seller_delivery"
  /\ next # Status /\ CanTransition(Status, next)
  /\ order' = [order EXCEPT !.workflowStatus = next]
  /\ UNCHANGED <<assignments, task, reassigns, windows>>

-----------------------------------------------------------------------------
(* A guest courier carries the order.                                      *)

AssignGuestCourier(p, c) ==
  /\ assignments[c] = "none"
  /\ Status = "DELIVERY_SEARCH" /\ order.deliveryBoy = None
  /\ order.guestCourierAssignment = None
  /\ Start(p, [Task("email") EXCEPT !.courier = c])
  /\ order' = [order EXCEPT !.guestCourierAssignment = c,
                            !.workflowStatus = "DELIVERY_ASSIGNED"]
  /\ assignments' = [assignments EXCEPT ![c] = "email_pending"]
  /\ UNCHANGED <<reassigns, windows>>

(* The link is mailed; the assignment is then saved as active, whatever    *)
(* became of it meanwhile.                                                 *)
AssignmentEmailSent(p) ==
  /\ Busy(p, "email")
  /\ assignments' = [assignments EXCEPT ![task[p].courier] = "active"]
  /\ Finish(p)
  /\ UNCHANGED <<order, reassigns, windows>>

GuestHolds(c, status) ==
  ActiveAssignment(c) /\ order.guestCourierAssignment = c /\ Status = status

GuestArrived(c) ==
  /\ GuestHolds(c, "DELIVERY_ASSIGNED")
  /\ order' = [order EXCEPT !.workflowStatus = "PICKUP_READY"]
  /\ UNCHANGED <<assignments, task, reassigns, windows>>

GuestConfirmPickup(c) ==
  /\ GuestHolds(c, "HANDED_OVER_TO_LOGISTICS")
  /\ order' = [order EXCEPT !.workflowStatus = "OUT_FOR_DELIVERY"]
  /\ UNCHANGED <<assignments, task, reassigns, windows>>

(* The delivery is recorded and settled before the assignment is closed.   *)
GuestVerifyOtp(p, c) ==
  /\ GuestHolds(c, "OUT_FOR_DELIVERY")
  /\ Start(p, [Task("guestDone") EXCEPT !.courier = c])
  /\ order' = [order EXCEPT !.workflowStatus = "DELIVERED"]
  /\ UNCHANGED <<assignments, reassigns, windows>>

CompleteGuestAssignment(p) ==
  /\ Busy(p, "guestDone")
  /\ assignments' = [assignments EXCEPT ![task[p].courier] = "ended"]
  /\ Finish(p)
  /\ UNCHANGED <<order, reassigns, windows>>

(* Opening the link of a finished order ends the assignment.               *)
GuestLinkExpires(c) ==
  /\ ActiveAssignment(c) /\ Status \in LegacyClosed
  /\ assignments' = [assignments EXCEPT ![c] = "ended"]
  /\ UNCHANGED <<order, task, reassigns, windows>>

RevokeKeepsReference(c) ==
  /\ ActiveAssignment(c) /\ order.guestCourierAssignment = c
  /\ assignments' = [assignments EXCEPT ![c] = "ended"]
  /\ order' = [order EXCEPT !.workflowStatus = "DELIVERY_SEARCH"]
  /\ UNCHANGED <<task, reassigns, windows>>

(* Revoked: whatever the order's status, the search is on again.  Only a   *)
(* revocation that is not a replacement rebroadcasts.                      *)
RevokeGuestCourier(c) ==
  /\ ActiveAssignment(c)
  /\ assignments' = [assignments EXCEPT ![c] = "ended"]
  /\ \/ /\ order.guestCourierAssignment = c
        /\ \E skipped \in {order.skippedBy, {}} :
             order' = [order EXCEPT !.guestCourierAssignment = None,
                                    !.workflowStatus = "DELIVERY_SEARCH",
                                    !.skippedBy = skipped]
     \/ order.guestCourierAssignment # c /\ UNCHANGED order
  /\ UNCHANGED <<task, reassigns, windows>>

-----------------------------------------------------------------------------
(* The customer collects the order.                                        *)

(* Marking ready and verifying end in a save that checks nothing again.    *)
(* (Marking a ready order ready again renews its codes, not its status.)   *)
MarkReadyForPickup(p) ==
  /\ order.fulfillmentMethod = "customer_pickup"
  /\ Status # "CUSTOMER_PICKUP_READY"
  /\ Start(p, Task("pickupReady"))
  /\ UNCHANGED <<order, assignments, reassigns, windows>>

SavePickupReady(p) ==
  /\ Busy(p, "pickupReady")
  /\ order' = [order EXCEPT !.workflowStatus = "CUSTOMER_PICKUP_READY"]
  /\ Finish(p)
  /\ UNCHANGED <<assignments, reassigns, windows>>

VerifyCustomerPickup(p) ==
  /\ order.fulfillmentMethod = "customer_pickup" /\ Status = "CUSTOMER_PICKUP_READY"
  /\ Start(p, Task("pickupVerify"))
  /\ UNCHANGED <<order, assignments, reassigns, windows>>

SavePickupVerified(p) ==
  /\ Busy(p, "pickupVerify")
  /\ order' = [order EXCEPT !.workflowStatus = "DELIVERED"]
  /\ Finish(p)
  /\ UNCHANGED <<assignments, reassigns, windows>>

-----------------------------------------------------------------------------
(* Cancellation by the customer, and the requests an administrator decides.*)

CustomerCancel(p) ==
  /\ task[p] = Idle
  /\ Status = "SELLER_PENDING"
  /\ Cancel(p, order)
  /\ UNCHANGED <<assignments, reassigns, windows>>

RequestCancellation(p) ==
  /\ order.cancellationRequest # "pending" /\ CancellationMode = "approval"
  /\ Start(p, Task("request"))
  /\ UNCHANGED <<order, assignments, reassigns, windows>>

SubmitCancellation(p) ==
  /\ Busy(p, "request")
  /\ order' = IF order.deliveryBoy = None /\ Status \notin LegacyClosed
              THEN [order EXCEPT !.cancellationRequest = "pending"]
              ELSE order
  /\ Finish(p)
  /\ UNCHANGED <<assignments, reassigns, windows>>

ApproveCancellation(p) ==
  /\ order.cancellationRequest = "pending" /\ CancellationMode = "approval"
  /\ Start(p, Task("approve"))
  /\ UNCHANGED <<order, assignments, reassigns, windows>>

ApprovalStandsUnread ==
  order.cancellationRequest = "pending" /\ Status \notin LegacyClosed

ApprovalStands ==
  /\ order.cancellationRequest = "pending"
  /\ order.deliveryBoy = None
  /\ Status \notin LegacyClosed

ApplyApproval(p) ==
  /\ Busy(p, "approve")
  /\ \/ /\ ApprovalStands
        /\ Cancel(p, [order EXCEPT !.cancellationRequest = "approved"])
     \/ /\ ~ApprovalStands
        /\ Finish(p) /\ UNCHANGED order
  /\ UNCHANGED <<assignments, reassigns, windows>>

RejectCancellation ==
  /\ order.cancellationRequest = "pending" /\ Status \notin LegacyClosed
  /\ order' = [order EXCEPT !.cancellationRequest = "rejected"]
  /\ UNCHANGED <<assignments, task, reassigns, windows>>

(* compensateOrderCancellation: it does not look at the status again.      *)
Compensate(p) ==
  /\ Busy(p, "compensate")
  /\ assignments' = [c \in Couriers |->
                       IF ActiveAssignment(c) THEN "ended" ELSE assignments[c]]
  /\ order' = [order EXCEPT !.stock = "released"]
  /\ Finish(p)
  /\ UNCHANGED <<reassigns, windows>>

-----------------------------------------------------------------------------
ReassignCancelled ==
  /\ reassigns < MaxReassign
  /\ Status # "DELIVERED"
  /\ order' = [order EXCEPT !.workflowStatus = "SELLER_PENDING",
                            !.deliveryBoy = None,
                            !.guestCourierAssignment = None,
                            !.stock = "reserved"]
  /\ reassigns' = reassigns + 1
  /\ UNCHANGED <<assignments, task, windows>>

(* An administrator gives the order to another store (one transaction).    *)
ReassignStore ==
  /\ reassigns < MaxReassign
  /\ Status \notin {"DELIVERED", "CANCELLED"}
  /\ order' = [order EXCEPT !.workflowStatus = "SELLER_PENDING",
                            !.sellerOpen = TRUE,
                            !.deliveryBoy = None,
                            !.guestCourierAssignment = None,
                            !.skippedBy = {},
                            !.attempt = 1,
                            !.stock = "reserved"]
  /\ assignments' = [c \in Couriers |->
                       IF c = order.guestCourierAssignment /\ ActiveAssignment(c)
                       THEN "ended" ELSE assignments[c]]
  /\ reassigns' = reassigns + 1
  /\ UNCHANGED <<task, windows>>

-----------------------------------------------------------------------------
(* Endpoints whose write is not guarded by the status they read.           *)

RescheduleRead(p) ==
  /\ "reschedule" \in Endpoints
  /\ Status \in {"SELLER_ACCEPTED", "SCHEDULED_HOLD"} /\ order.deliveryBoy = None
  /\ Start(p, Task("reschedule"))
  /\ UNCHANGED <<order, assignments, reassigns, windows>>

ApplyReschedule(p) ==
  /\ "reschedule" \in Endpoints /\ Busy(p, "reschedule")
  /\ order' = IF order.deliveryBoy = None
              THEN [order EXCEPT !.workflowStatus = "SCHEDULED_HOLD",
                                 !.activationDue = FALSE]
              ELSE order
  /\ Finish(p)
  /\ UNCHANGED <<assignments, reassigns, windows>>

RaiseDispute(p) ==
  /\ "dispute" \in Endpoints
  /\ Status = "DELIVERED" /\ order.dispute = "none"
  /\ Start(p, Task("raise"))
  /\ UNCHANGED <<order, assignments, reassigns, windows>>

MarkDisputed(p) ==
  /\ "dispute" \in Endpoints /\ Busy(p, "raise")
  /\ order' = [order EXCEPT !.workflowStatus = "DISPUTED", !.dispute = "open"]
  /\ Finish(p)
  /\ UNCHANGED <<assignments, reassigns, windows>>

ResolveDispute(p) ==
  /\ "dispute" \in Endpoints
  /\ order.dispute = "open"
  /\ Start(p, Task("resolve"))
  /\ UNCHANGED <<order, assignments, reassigns, windows>>

MarkResolved(p) ==
  /\ "dispute" \in Endpoints /\ Busy(p, "resolve")
  /\ order' = [order EXCEPT !.workflowStatus = "DELIVERED", !.dispute = "closed"]
  /\ Finish(p)
  /\ UNCHANGED <<assignments, reassigns, windows>>

ValidateDeliveryOtp(p, r) ==
  /\ "validateOtp" \in Endpoints
  /\ order.deliveryBoy = r
  /\ Start(p, Task("validateOtp"))
  /\ UNCHANGED <<order, assignments, reassigns, windows>>

MarkDeliveredByOtp(p) ==
  /\ "validateOtp" \in Endpoints /\ Busy(p, "validateOtp")
  /\ order' = [order EXCEPT !.workflowStatus = "DELIVERED"]
  /\ Finish(p)
  /\ UNCHANGED <<assignments, reassigns, windows>>

(* An administrator, or the rider of the order, sets its status; a pending *)
(* request is approved only by the administrator.  The same call may name  *)
(* a rider, who is put on the order whoever has it.                        *)
UpdateOrderStatus(p) ==
  /\ \/ /\ "updateStatus" \in Endpoints
        /\ Status # "CANCELLED"
        /\ \E requested \in {order.cancellationRequest = "pending"}
                             \cup IF order.deliveryBoy # None THEN {FALSE} ELSE {} :
             Start(p, [Task("updateCancel") EXCEPT !.requested = requested])
     \/ /\ "updateStatus" \in Endpoints
        /\ Status # "DELIVERED"
        /\ Start(p, Task("updateDeliver"))
     \/ /\ "updateRider" \in Endpoints
        /\ Start(p, Task("updateRider"))
  /\ UNCHANGED <<order, assignments, reassigns, windows>>

NamedRiders ==
  {order.deliveryBoy} \cup IF "updateRider" \in Endpoints THEN Riders ELSE {}

SaveUpdateCancel(p) ==
  /\ "updateStatus" \in Endpoints /\ Busy(p, "updateCancel")
  /\ \E rider \in NamedRiders :
       Cancel(p, [order EXCEPT
                   !.deliveryBoy = rider,
                   !.cancellationRequest = IF task[p].requested THEN "approved" ELSE @])
  /\ UNCHANGED <<assignments, reassigns, windows>>

SaveUpdateDeliver(p) ==
  /\ "updateStatus" \in Endpoints /\ Busy(p, "updateDeliver")
  /\ \E rider \in NamedRiders :
       order' = [order EXCEPT !.workflowStatus = "DELIVERED", !.deliveryBoy = rider]
  /\ Finish(p)
  /\ UNCHANGED <<assignments, reassigns, windows>>

SaveUpdateRider(p) ==
  /\ "updateRider" \in Endpoints /\ Busy(p, "updateRider")
  /\ \E rider \in NamedRiders : order' = [order EXCEPT !.deliveryBoy = rider]
  /\ Finish(p)
  /\ UNCHANGED <<assignments, reassigns, windows>>

SelfLogisticsStatus(next) ==
  /\ "selfLogistics" \in Endpoints
  /\ order.fulfillmentMethod \in {"seller_delivery", "external_logistics"}
  /\ next \in {"DELIVERY_ASSIGNED", "PICKUP_READY", "OUT_FOR_DELIVERY", "DELIVERED"}
  /\ order' = [order EXCEPT !.workflowStatus = next]
  /\ UNCHANGED <<assignments, task, reassigns, windows>>

AdminLogisticsOverride(next) ==
  /\ "adminOverride" \in Endpoints
  /\ order' = [order EXCEPT !.workflowStatus = next]
  /\ UNCHANGED <<assignments, task, reassigns, windows>>

-----------------------------------------------------------------------------
(* A process dies: what it was about to write is never written.            *)
Crash(p) ==
  /\ Crashes /\ task[p] # Idle
  /\ Finish(p)
  /\ UNCHANGED <<order, assignments, reassigns, windows>>

-----------------------------------------------------------------------------
Time ==
  SellerWindowCloses \/ DeadlinePasses \/ SearchWindowCloses \/ ActivationDue

RiderStep(r) ==
  \/ DeliveryAccept(r) \/ AdminAssignRider(r) \/ SkipOrder(r)
  \/ MarkArrivedAtStore(r) \/ ConfirmPickup(r) \/ VerifyHandoffAndDeliver(r)

CourierStep(c) ==
  \/ GuestArrived(c) \/ GuestConfirmPickup(c)
  \/ GuestLinkExpires(c) \/ RevokeGuestCourier(c)

(* Requests that are a single guarded write.                               *)
PlainRequest ==
  \/ SellerAccept \/ SellerResendSearch \/ SellerHandOver
  \/ RejectCancellation \/ ReassignStore \/ AlertStore \/ PaymentFailed
  \/ \E next \in {"PICKUP_READY", "OUT_FOR_DELIVERY", "DELIVERED"} :
       SellerUpdateStatus(next)
  \/ \E next \in WorkflowStatuses :
       SelfLogisticsStatus(next) \/ AdminLogisticsOverride(next)

(* First halves of requests, and cancellations, which go on to compensate. *)
BeginRequest(p) ==
  \/ PaymentCaptured(p)
  \/ SellerAcceptTooLate(p) \/ SellerReject(p) \/ ListSellerOrders(p)
  \/ MarkReadyForPickup(p) \/ VerifyCustomerPickup(p)
  \/ CustomerCancel(p) \/ RequestCancellation(p) \/ ApproveCancellation(p)
  \/ RescheduleRead(p) \/ RaiseDispute(p) \/ ResolveDispute(p)
  \/ UpdateOrderStatus(p)
  \/ \E c \in Couriers : AssignGuestCourier(p, c) \/ GuestVerifyOtp(p, c)
  \/ \E r \in Riders : ValidateDeliveryOtp(p, r)

BeginJob(p) ==
  \/ PaymentTimeout(p) \/ SellerTimeoutJob(p) \/ ActivationJob(p)
  \/ DeliveryTimeoutRead(p)

(* Second halves.                                                          *)
EndRequest(p) ==
  \/ MoveToSellerPending(p) \/ AssignmentEmailSent(p) \/ CompleteGuestAssignment(p)
  \/ SavePickupReady(p) \/ SavePickupVerified(p)
  \/ SubmitCancellation(p) \/ ApplyApproval(p)
  \/ ApplyReschedule(p) \/ MarkDisputed(p) \/ MarkResolved(p)
  \/ MarkDeliveredByOtp(p)
  \/ SaveUpdateCancel(p) \/ SaveUpdateDeliver(p) \/ SaveUpdateRider(p)

EndJob(p) == DeliveryTimeoutRetry(p) \/ DeliveryTimeoutEnd(p)

End(p) == EndRequest(p) \/ EndJob(p) \/ Compensate(p)

Next ==
  \/ Time
  \/ \E r \in Riders : RiderStep(r)
  \/ \E c \in Couriers : CourierStep(c)
  \/ PlainRequest
  \/ \E p \in Requests : BeginRequest(p)
  \/ \E p \in Jobs : BeginJob(p)
  \/ \E p \in Processes : End(p) \/ Crash(p)

Spec == Init /\ [][Next]_vars

(* The sweep of orderAutoCancelJob: it takes up the orders whose window has *)
(* closed.                                                                 *)
Sweep(p) ==
  \/ PaymentTimeout(p)
  \/ ~order.sellerOpen /\ SellerTimeoutJob(p)
  \/ ActivationJob(p)
  \/ DeliveryTimeoutRead(p)

(* Clocks advance, the sweep runs every minute in the scheduler process,   *)
(* and a handler that was started is run to its end.                       *)
Fairness ==
  /\ WF_vars(SellerWindowCloses)
  /\ WF_vars(DeadlinePasses)
  /\ WF_vars(SearchWindowCloses)
  /\ WF_vars(\E p \in Jobs : Sweep(p))
  /\ \A p \in Processes : WF_vars(End(p))

FairSpec == Spec /\ Fairness

-----------------------------------------------------------------------------
(* Properties.                                                             *)

(* The document, the assignments and the handlers in flight are well       *)
(* formed, whatever the interleaving (models/order.js enums).              *)
TypeOK ==
  /\ order \in Orders
  /\ assignments \in [Couriers -> AssignmentStatuses]
  /\ task \in [Processes -> Tasks]
  /\ reassigns \in 0..MaxReassign
  /\ windows \in 0..MaxAttempts

(* Statuses in which nobody has been chosen to carry the order yet.        *)
BeforeAssignment ==
  { "CREATED", "PREORDER_HOLD", "SELLER_PENDING", "SELLER_ACCEPTED",
    "SCHEDULED_HOLD", "DELIVERY_SEARCH" }

Unassigned == order.deliveryBoy = None /\ order.guestCourierAssignment = None

(* An order never belongs to a rider and a guest courier at once, although *)
(* deliveryAcceptAtomic looks only for a rider.                            *)
OneAssignee == order.deliveryBoy = None \/ order.guestCourierAssignment = None

(* While an order is offered to riders, or waits to be, nobody holds it:   *)
(* the first rider to accept never takes it from somebody.                 *)
NobodyHoldsOfferedOrder == Status \in BeforeAssignment => Unassigned

(* Once a rider has the order, only handing it to another store takes it   *)
(* away, and no other rider is ever put in their place.                    *)
RiderKept ==
  [][order.deliveryBoy # None /\ order'.deliveryBoy # order.deliveryBoy
       => order'.deliveryBoy = None /\ reassigns' = reassigns + 1]_vars

(* An approved cancellation request never cancels an order a rider has     *)
(* meanwhile accepted, nor one that is already delivered or cancelled:     *)
(* the approval is decided on an earlier read.                             *)
ApprovalSparesRider ==
  [][\A p \in Processes :
       Busy(p, "approve") /\ task'[p].kind = "compensate"
         => order.deliveryBoy = None /\ Status \notin LegacyClosed]_vars

(* An order to be paid online gets past the store's decision only once its *)
(* payment is captured, also when it is handed to another store before.    *)
UnpaidGoesNowhere ==
  order.online /\ ~order.paid => Status \in {"CREATED", "SELLER_PENDING", "CANCELLED"}

(* The stock of an order is given back only if the order is cancelled, and *)
(* an order that somebody still works on has its stock.                    *)
LiveOrderHoldsStock == Status # "CANCELLED" => order.stock = "reserved"

(* The search is given up (for another method, or by cancelling) only      *)
(* after every attempt's window has passed, however many timeout handlers  *)
(* ran at the same time.                                                   *)
SearchNotCutShort ==
  [][(\E p \in Processes : Busy(p, "searchEnd") /\ task'[p] # task[p])
       /\ Status = "DELIVERY_SEARCH" /\ order' # order
       => windows >= MaxAttempts]_vars

(* The workflow implements the lifecycle of OrderLifecycle.                *)
Lifecycle == INSTANCE OrderLifecycle WITH status <- order.workflowStatus
FollowsLifecycle == Lifecycle!Spec

(* A store that never answers does not hold an order for ever: the         *)
(* deadline passes and the timeout job cancels it.                         *)
SellerDecisionEnds == Status = "SELLER_PENDING" ~> Status # "SELLER_PENDING"

(* Riders who never answer do not hold it either, with several timeout     *)
(* handlers overwriting each other's attempt counter.                      *)
SearchEnds == Status = "DELIVERY_SEARCH" ~> Status # "DELIVERY_SEARCH"

(* If no process dies, a cancelled order gives its stock back.             *)
CancelledGivesBack == Status = "CANCELLED" ~> order.stock = "released"
=============================================================================
