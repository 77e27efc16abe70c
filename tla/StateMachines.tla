---------------------------- MODULE StateMachines ----------------------------
(***************************************************************************)
(* The two transition tables every money-moving handler goes through:      *)
(* app/payments/state_machine.py (payments.status) and                     *)
(* app/orders/state_machine.py (service_orders.status).  Both are plain    *)
(* data here, as they are in the code; what uses them is OrderPayment.     *)
(***************************************************************************)

PaymentStatus ==
  {"PENDING", "REQUIRES_ACTION", "PROCESSING", "AUTHORIZED", "PAID",
   "PARTIALLY_REFUNDED", "REFUNDED", "FAILED", "CANCELLED", "DISPUTED",
   "CHARGED_BACK"}

ALLOWED_PAYMENT_TRANSITIONS ==
  ({"PENDING"} \X {"REQUIRES_ACTION", "PROCESSING", "AUTHORIZED", "FAILED", "CANCELLED"})
  \cup ({"REQUIRES_ACTION"} \X {"PENDING", "PROCESSING", "AUTHORIZED", "FAILED", "CANCELLED"})
  \cup ({"PROCESSING"} \X {"AUTHORIZED", "FAILED"})
  \cup ({"AUTHORIZED"} \X {"PAID", "CANCELLED", "FAILED"})
  \cup ({"PAID"} \X {"PARTIALLY_REFUNDED", "REFUNDED", "DISPUTED"})
  \cup ({"PARTIALLY_REFUNDED"} \X {"REFUNDED", "DISPUTED"})
  \cup ({"DISPUTED"} \X {"PAID", "PARTIALLY_REFUNDED", "CHARGED_BACK", "REFUNDED"})

\* States in which nothing has been collected and the hold may be voided.
CANCELLABLE == {"PENDING", "REQUIRES_ACTION", "PROCESSING", "AUTHORIZED"}

\* States that count for the "one live SERVICE payment per order" index.
LIVE == PaymentStatus \ {"CANCELLED", "FAILED"}

PAYMENT_CONFIRMED == {"PAID", "PARTIALLY_REFUNDED"}

\* To the provider a charge stays "succeeded" while here it is refunded or disputed.
AFTER_CAPTURE == {"PAID", "PARTIALLY_REFUNDED", "REFUNDED", "DISPUTED", "CHARGED_BACK"}

can_move(from, to) == from = to \/ <<from, to>> \in ALLOWED_PAYMENT_TRANSITIONS

consistent(ours, provider) == ours = provider \/ (provider = "PAID" /\ ours \in AFTER_CAPTURE)

OrderStatus ==
  {"REQUESTED", "ACCEPTED", "SCHEDULED", "IN_PROGRESS", "AWAITING_APPROVAL", "COMPLETED",
   "PAID", "READY_FOR_REVIEW", "REVIEWED", "DISPUTED", "REFUNDED", "CANCELLED", "FAILED"}

\* <<from, to, who may do it>>: C client, T assigned technician, A admin, S system.
ALLOWED_TRANSITIONS ==
  { <<"REQUESTED", "ACCEPTED", {"T"}>>,
    <<"REQUESTED", "CANCELLED", {"C", "S", "A"}>>,
    <<"ACCEPTED", "SCHEDULED", {"T"}>>,
    <<"ACCEPTED", "REQUESTED", {"T", "S"}>>,
    <<"SCHEDULED", "REQUESTED", {"T", "S"}>>,
    <<"ACCEPTED", "CANCELLED", {"C", "A"}>>,
    <<"SCHEDULED", "CANCELLED", {"C", "A"}>>,
    <<"SCHEDULED", "IN_PROGRESS", {"T"}>>,
    <<"SCHEDULED", "FAILED", {"S"}>>,
    <<"IN_PROGRESS", "AWAITING_APPROVAL", {"T"}>>,
    <<"IN_PROGRESS", "DISPUTED", {"C", "A"}>>,
    <<"AWAITING_APPROVAL", "COMPLETED", {"C", "S"}>>,
    <<"AWAITING_APPROVAL", "DISPUTED", {"C"}>>,
    <<"COMPLETED", "PAID", {"S"}>>,
    <<"COMPLETED", "FAILED", {"S"}>>,
    <<"COMPLETED", "DISPUTED", {"S"}>>,
    <<"PAID", "READY_FOR_REVIEW", {"S"}>>,
    <<"PAID", "DISPUTED", {"C", "S"}>>,
    <<"READY_FOR_REVIEW", "DISPUTED", {"C", "S"}>>,
    <<"REVIEWED", "DISPUTED", {"C", "S"}>>,
    <<"READY_FOR_REVIEW", "REVIEWED", {"C", "S"}>>,
    <<"READY_FOR_REVIEW", "REFUNDED", {"A", "S"}>>,
    <<"REVIEWED", "REFUNDED", {"A", "S"}>>,
    <<"DISPUTED", "COMPLETED", {"A"}>>,
    <<"DISPUTED", "READY_FOR_REVIEW", {"A", "S"}>>,
    <<"DISPUTED", "REVIEWED", {"A", "S"}>>,
    <<"DISPUTED", "REFUNDED", {"A", "S"}>>,
    <<"DISPUTED", "CANCELLED", {"A"}>> }

\* The two refusals of orders.transition: no such pair, or not this actor's to take.
may_transition(from, to, who) ==
  \E r \in ALLOWED_TRANSITIONS : r[1] = from /\ r[2] = to /\ who \in r[3]
=============================================================================
