-------------------------- MODULE OrderLifecycle --------------------------
(***************************************************************************)
(* What the order workflow promises about one order, seen only through its *)
(* workflow status: it moves along the table of orderStateMachine.js or    *)
(* along one of the few steps other services add to the table, a           *)
(* cancelled order never moves again, and a delivered one can only be      *)
(* disputed.  OrderWorkflow implements it (see Lifecycle there).           *)
(***************************************************************************)
EXTENDS OrderStateMachine

VARIABLE status

(* Steps the code takes although the table does not list them: the payment *)
(* timeout of an unpaid order, the activation of a scheduled pickup order, *)
(* and the two ways out of a search no rider answered.                     *)
ServiceSteps ==
  { <<"CREATED", "CANCELLED">>,
    <<"SCHEDULED_HOLD", "SELLER_ACCEPTED">>,
    <<"DELIVERY_SEARCH", "EXTERNAL_LOGISTICS_PENDING">>,
    <<"DELIVERY_SEARCH", "SELLER_ACCEPTED">> }

Init == status \in {"CREATED", "SELLER_PENDING"}

Advance(to) ==
  /\ CanTransition(status, to) \/ <<status, to>> \in ServiceSteps
  /\ status' = to

(* An administrator hands an open order to another store. *)
Restart ==
  /\ status \notin {"DELIVERED", "CANCELLED"}
  /\ status' = "SELLER_PENDING"

Next == Restart \/ \E to \in WorkflowStatuses : Advance(to)

Spec == Init /\ [][Next]_status
=============================================================================
