---------------------------- MODULE AtomicOrders ----------------------------
(***************************************************************************)
(* What order-service and event-service promise together: orders and the   *)
(* stock behave as if one transaction changed the status of the order and  *)
(* the number of places on sale.  An order either has all its places or    *)
(* none; changing its status and moving its places is one indivisible      *)
(* step.  OrderStock implements this with two databases and remote calls.  *)
(***************************************************************************)
EXTENDS Integers

CONSTANTS
  Order, Category,
  Quota,   \* places put on sale in each category
  Need     \* Need[o][c]: places of category c that order o takes

VARIABLES
  free,    \* places of each category that no order has
  status   \* status of each order, "NONE" before the purchase

vars == <<free, status>>

Init == free = Quota /\ status = [o \in Order |-> "NONE"]

Becomes(o, s) == status' = [status EXCEPT ![o] = s]

Take(o) ==
  /\ \A c \in Category : free[c] >= Need[o][c]
  /\ free' = [c \in Category |-> free[c] - Need[o][c]]

Give(o) == free' = [c \in Category |-> free[c] + Need[o][c]]

Place(o) == status[o] = "NONE" /\ Take(o) /\ Becomes(o, "PENDING_PAYMENT")
Pay(o) == status[o] = "PENDING_PAYMENT" /\ UNCHANGED free /\ Becomes(o, "CONFIRMED")
PayLate(o) == status[o] = "CANCELLED" /\ Take(o) /\ Becomes(o, "CONFIRMED")
Send(o) == status[o] = "CONFIRMED" /\ UNCHANGED free /\ Becomes(o, "TICKETS_SENT")
Cancel(o) == status[o] = "PENDING_PAYMENT" /\ Give(o) /\ Becomes(o, "CANCELLED")
Refund(o) ==
  /\ status[o] \in {"PENDING_PAYMENT", "CONFIRMED", "TICKETS_SENT"}
  /\ Give(o) /\ Becomes(o, "REFUNDED")
RefundLate(o) == status[o] = "CANCELLED" /\ UNCHANGED free /\ Becomes(o, "REFUNDED")

Next == \E o \in Order :
  \/ Place(o) \/ Pay(o) \/ PayLate(o) \/ Send(o)
  \/ Cancel(o) \/ Refund(o) \/ RefundLate(o)

Spec == Init /\ [][Next]_vars
=============================================================================
