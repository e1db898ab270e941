------------------------- MODULE OrderStateMachine -------------------------
(***************************************************************************)
(* The workflow statuses of an order, the table of allowed transitions and *)
(* the legacy status each workflow status is mirrored to.                  *)
(*   services/orderStateMachine.js, constants/orderWorkflow.js             *)
(***************************************************************************)

WorkflowStatuses ==
  { "CREATED", "PREORDER_HOLD", "SELLER_PENDING", "SELLER_ACCEPTED",
    "SCHEDULED_HOLD", "AWAITING_EXTRA_PAYMENT", "DELIVERY_SEARCH",
    "EXTERNAL_LOGISTICS_PENDING", "DELIVERY_ASSIGNED", "PICKUP_READY",
    "HANDED_OVER_TO_LOGISTICS", "CUSTOMER_PICKUP_READY", "OUT_FOR_DELIVERY",
    "DELIVERED", "DISPUTED", "CANCELLED" }

TRANSITIONS ==
  [ CREATED         |-> {"SELLER_PENDING", "PREORDER_HOLD"},
    PREORDER_HOLD   |-> {"SELLER_PENDING", "CANCELLED"},
    SELLER_PENDING  |-> {"SELLER_ACCEPTED", "DELIVERY_SEARCH",
                         "EXTERNAL_LOGISTICS_PENDING", "CUSTOMER_PICKUP_READY",
                         "SCHEDULED_HOLD", "AWAITING_EXTRA_PAYMENT", "CANCELLED"},
    SELLER_ACCEPTED |-> {"SCHEDULED_HOLD", "DELIVERY_SEARCH",
                         "EXTERNAL_LOGISTICS_PENDING", "CUSTOMER_PICKUP_READY",
                         "AWAITING_EXTRA_PAYMENT", "CANCELLED"},
    SCHEDULED_HOLD  |-> {"DELIVERY_SEARCH", "EXTERNAL_LOGISTICS_PENDING",
                         "CUSTOMER_PICKUP_READY", "AWAITING_EXTRA_PAYMENT",
                         "CANCELLED"},
    AWAITING_EXTRA_PAYMENT |-> {"SELLER_PENDING", "SELLER_ACCEPTED",
                                "SCHEDULED_HOLD", "CANCELLED"},
    DELIVERY_SEARCH |-> {"DELIVERY_ASSIGNED", "CANCELLED"},
    EXTERNAL_LOGISTICS_PENDING |-> {"PICKUP_READY", "OUT_FOR_DELIVERY", "DELIVERED",
                                    "CUSTOMER_PICKUP_READY", "CANCELLED"},
    CUSTOMER_PICKUP_READY      |-> {"DELIVERED", "CANCELLED"},
    DELIVERY_ASSIGNED          |-> {"PICKUP_READY", "CANCELLED"},
    PICKUP_READY               |-> {"HANDED_OVER_TO_LOGISTICS", "CANCELLED"},
    HANDED_OVER_TO_LOGISTICS   |-> {"OUT_FOR_DELIVERY", "CANCELLED"},
    OUT_FOR_DELIVERY           |-> {"DELIVERED", "CANCELLED"},
    DELIVERED                  |-> {"DISPUTED"},
    DISPUTED                   |-> {"DELIVERED"},
    CANCELLED                  |-> {} ]

(* A status may always be re-asserted; any other step has to be in the table. *)
CanTransition(from, to) == from = to \/ to \in TRANSITIONS[from]

(* Workflow statuses whose legacy status is "confirmed" or "packed". *)
ConfirmedOrPacked ==
  { "SELLER_ACCEPTED", "SCHEDULED_HOLD", "DELIVERY_SEARCH",
    "EXTERNAL_LOGISTICS_PENDING", "DELIVERY_ASSIGNED", "PICKUP_READY" }

(* Workflow statuses whose legacy status is "pending". *)
LegacyPending == {"CREATED", "SELLER_PENDING"}

(* Workflow statuses whose legacy status is "cancelled" or "delivered". *)
LegacyClosed == {"CANCELLED", "DELIVERED"}
=============================================================================
