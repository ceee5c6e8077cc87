----------------------------- MODULE OrderStock -----------------------------
(***************************************************************************)
(* The stock of an order: order-service's order row (OrderService) and     *)
(* event-service's remaining_quota counter (TicketCategoryService), which  *)
(* live in two databases and are kept in step by remote calls.             *)
(*                                                                         *)
(* An order-service handler is a Worker.  It keeps what the code keeps in  *)
(* local variables across its awaits: the row it read, the lines whose     *)
(* quota it still has to take, and the lines whose quota it holds and must *)
(* either attach to the order or give back.  A handler whose guard is      *)
(* evaluated again by its conditional UPDATE is one step up to that UPDATE.*)
(***************************************************************************)
EXTENDS QuotaCounter

CONSTANTS
  Order,             \* order ids
  Worker,            \* concurrent handlers of order-service (bounds the model)
  Cron,              \* the worker that runs the releaseAbandoned cron
  NoOrder, NoWorker, \* sentinels
  ResaleOrder,       \* orders with is_resale = true: they hold no quota
  Resellable,        \* orders whose tickets may be sold on by their buyer
  PartlyRefundable,  \* orders on which a partial refund may be recorded
  Reminded,          \* orders whose event takes place the next day
  Faults             \* subset of {"request_lost", "reply_lost", "crash"}

ASSUME SetsAssumption ==
  /\ IsFiniteSet(Order) /\ IsFiniteSet(Worker)
  /\ Cron \in Worker /\ NoOrder \notin Order /\ NoWorker \notin Worker
  /\ ResaleOrder \subseteq Order /\ Resellable \subseteq Order
  /\ PartlyRefundable \subseteq Order /\ Reminded \subseteq Order
ASSUME QtyAssumption == Qty \in [Order -> [Category -> Nat]]
ASSUME FaultsAssumption == Faults \subseteq {"request_lost", "reply_lost", "crash"}

VARIABLES
  row,       \* status and payment_status of each order (order-service)
  due,       \* orders whose payment deadline has passed
  resold,    \* resold[o]: categories of o of which one ticket was sold on
  worker,    \* local state of each handler
  batch,     \* rows loaded by the reminder cron and not saved yet
  reminded   \* orders with reminder_sent = true

vars == <<remaining, row, due, resold, worker, batch, reminded>>

-----------------------------------------------------------------------------
OrderStatus == {"PENDING_PAYMENT", "CONFIRMED", "TICKETS_SENT", "CANCELLED", "REFUNDED"}
PaymentStatus == {"PENDING", "PAID", "REFUNDED"}
Row == [status: OrderStatus \cup {"NONE"}, pay: PaymentStatus]
Absent == [status |-> "NONE", pay |-> "PENDING"]

\* The lines of an order that hold quota: none for a resale order.
Lines(o) == {c \in Category : o \notin ResaleOrder /\ Qty[o][c] > 0}

Phase == {"idle", "take", "cas", "back", "redo", "reread", "save"}
Idle == [order |-> NoOrder, phase |-> "idle", seen |-> Absent,
         todo |-> {}, lines |-> {}, retry |-> FALSE]
WorkerState == [order: Order \cup {NoOrder}, phase: Phase, seen: Row,
                todo: SUBSET Category, lines: SUBSET Category, retry: BOOLEAN]

TypeOK ==
  /\ remaining \in [Category -> Nat]
  /\ row \in [Order -> Row]
  /\ due \subseteq Order
  /\ resold \in [Order -> SUBSET Category]
  /\ worker \in [Worker -> WorkerState]
  /\ batch \in [Order -> Row]
  /\ reminded \subseteq Order

Init ==
  /\ remaining = Quota
  /\ row = [o \in Order |-> Absent]
  /\ due = {}
  /\ resold = [o \in Order |-> {}]
  /\ worker = [w \in Worker |-> Idle]
  /\ batch = [o \in Order |-> Absent]
  /\ reminded = {}

-----------------------------------------------------------------------------
(* The purchase, up to the order row: the reservation and its token are    *)
(* modelled in StockReservation; here the places go straight to the order. *)

PlaceOrder(o) ==
  /\ row[o] = Absent
  /\ \A c \in Lines(o) : remaining[c] >= Qty[o][c]
  /\ remaining' = [c \in Category |->
                     IF c \in Lines(o) THEN remaining[c] - Qty[o][c] ELSE remaining[c]]
  /\ row' = [row EXCEPT ![o] = [status |-> "PENDING_PAYMENT", pay |-> "PENDING"]]
  /\ UNCHANGED <<due, resold, worker, batch, reminded>>

\* payment_deadline (or the abandon delay) of the order is reached.
DeadlinePasses(o) ==
  /\ row[o].status = "PENDING_PAYMENT" /\ o \notin due
  /\ due' = due \cup {o}
  /\ UNCHANGED <<remaining, row, resold, worker, batch, reminded>>

-----------------------------------------------------------------------------
(* Steps shared by the handlers *)

\* Worker w has lines to give back, then goes on with phase p.
GivingBack(k, p) ==
  IF k.lines # {} THEN [k EXCEPT !.phase = p, !.todo = {}]
  ELSE IF p = "redo" THEN [k EXCEPT !.phase = "reread", !.todo = {}]
  ELSE Idle

\* rollback(): one event.restore_quota call per line, errors ignored.
GiveBack(w, c) ==
  LET k == worker[w] IN
  /\ k.phase \in {"back", "redo"} /\ c \in k.lines
  /\ RestoreQuota(c, Qty[k.order][c])
  /\ worker' = [worker EXCEPT ![w] = GivingBack([k EXCEPT !.lines = @ \ {c}], k.phase)]
  /\ UNCHANGED <<row, due, resold, batch, reminded>>

\* The call never reached event-service: the code swallows the error.
GiveBackLost(w, c) ==
  LET k == worker[w] IN
  /\ "request_lost" \in Faults
  /\ k.phase \in {"back", "redo"} /\ c \in k.lines
  /\ worker' = [worker EXCEPT ![w] = GivingBack([k EXCEPT !.lines = @ \ {c}], k.phase)]
  /\ UNCHANGED <<remaining, row, due, resold, batch, reminded>>

\* The order-service process running w stops; nothing resumes its handlers.
Crash(w) ==
  /\ "crash" \in Faults
  /\ worker[w] # Idle
  /\ worker' = [worker EXCEPT ![w] = Idle]
  /\ UNCHANGED <<remaining, row, due, resold, batch, reminded>>

-----------------------------------------------------------------------------
(* order.confirm_payment *)

\* First read of confirmPaymentOnce: what the handler goes on with.
AfterRead(o, retry) ==
  LET k == [Idle EXCEPT !.order = o, !.seen = row[o], !.retry = retry] IN
  IF row[o].pay = "PAID" THEN Idle                                \* already done
  ELSE IF row[o].status = "PENDING_PAYMENT" THEN [k EXCEPT !.phase = "cas"]
  ELSE IF row[o].status = "CANCELLED" /\ o \notin ResaleOrder
       THEN [k EXCEPT !.phase = IF Lines(o) = {} THEN "cas" ELSE "take", !.todo = Lines(o)]
  ELSE Idle                                                       \* 409

ConfirmRead(w, o) ==
  /\ worker[w] = Idle /\ w # Cron /\ row[o] # Absent
  /\ worker' = [worker EXCEPT ![w] = AfterRead(o, TRUE)]
  /\ UNCHANGED <<remaining, row, due, resold, batch, reminded>>

\* decrementAll(): one line of a cancelled order retaken.
RetakeLine(w, c) ==
  LET k == worker[w] IN
  /\ k.phase = "take" /\ c \in k.todo
  /\ DecrementQuota(c, Qty[k.order][c])
  /\ worker' = [worker EXCEPT ![w] =
       [k EXCEPT !.todo = @ \ {c}, !.lines = @ \cup {c},
                 !.phase = IF k.todo = {c} THEN "cas" ELSE "take"]]
  /\ UNCHANGED <<row, due, resold, batch, reminded>>

\* Mutant: the line that was refused is given back with the others.
RetakeRefusedGivesAll(w, c) ==
  LET k == worker[w] IN
  /\ k.phase = "take" /\ c \in k.todo
  /\ worker' = [worker EXCEPT ![w] = GivingBack([k EXCEPT !.lines = @ \cup {c}], "back")]
  /\ UNCHANGED <<remaining, row, due, resold, batch, reminded>>

\* Not enough places, sales closed or suspended, or the request was lost:
\* the lines already retaken are given back, then 409.
RetakeRefused(w, c) ==
  LET k == worker[w] IN
  /\ k.phase = "take" /\ c \in k.todo
  /\ worker' = [worker EXCEPT ![w] = GivingBack(k, "back")]
  /\ UNCHANGED <<remaining, row, due, resold, batch, reminded>>

\* The decrement was done but its answer was lost: same path for the caller.
RetakeReplyLost(w, c) ==
  LET k == worker[w] IN
  /\ "reply_lost" \in Faults
  /\ k.phase = "take" /\ c \in k.todo
  /\ DecrementQuota(c, Qty[k.order][c])
  /\ worker' = [worker EXCEPT ![w] = GivingBack(k, "back")]
  /\ UNCHANGED <<row, due, resold, batch, reminded>>

\* Mutant: the UPDATE only checks that the order is not paid.
CasIgnoresStatus(k) == row[k.order].pay # "PAID"

\* UPDATE ... WHERE status = <status read> AND payment_status <> 'PAID'.
CasHolds(k) == row[k.order].status = k.seen.status /\ row[k.order].pay # "PAID"

ConfirmCas(w) ==
  LET k == worker[w] IN
  /\ k.phase = "cas" /\ CasHolds(k)
  /\ row' = [row EXCEPT ![k.order] = [status |-> "CONFIRMED", pay |-> "PAID"]]
  /\ worker' = [worker EXCEPT ![w] = Idle]
  /\ UNCHANGED <<remaining, due, resold, batch, reminded>>

\* Mutant: a confirmation that lost the race keeps the places it retook.
ConfirmCasFailsKeeping(w) ==
  LET k == worker[w] IN
  /\ k.phase = "cas" /\ ~CasHolds(k)
  /\ worker' = [worker EXCEPT ![w] =
       IF k.retry THEN [k EXCEPT !.phase = "reread", !.lines = {}] ELSE Idle]
  /\ UNCHANGED <<remaining, row, due, resold, batch, reminded>>

\* Mutant: it tries the same UPDATE again for ever.
ConfirmCasFailsSpinning(w) ==
  /\ worker[w].phase = "cas" /\ ~CasHolds(worker[w])
  /\ UNCHANGED vars

ConfirmCasFails(w) ==
  LET k == worker[w] IN
  /\ k.phase = "cas" /\ ~CasHolds(k)
  /\ worker' = [worker EXCEPT ![w] = GivingBack(k, IF k.retry THEN "redo" ELSE "back")]
  /\ UNCHANGED <<remaining, row, due, resold, batch, reminded>>

\* The one replay of confirmPaymentOnce, with retry = false.
ConfirmReread(w) ==
  /\ worker[w].phase = "reread"
  /\ worker' = [worker EXCEPT ![w] = AfterRead(worker[w].order, FALSE)]
  /\ UNCHANGED <<remaining, row, due, resold, batch, reminded>>

-----------------------------------------------------------------------------
(* Conditional status changes followed by the restoration of the quota *)

\* Worker w has just moved o out of sale and gives its lines back.
Releasing(w, o) ==
  worker' = [worker EXCEPT ![w] =
    GivingBack([Idle EXCEPT !.order = o, !.lines = Lines(o)], "back")]

\* order.cancel: only an order pending payment; 409 if it just changed.
Cancel(w, o) ==
  /\ worker[w] = Idle /\ w # Cron
  /\ row[o].status = "PENDING_PAYMENT"
  /\ row' = [row EXCEPT ![o].status = "CANCELLED"]
  /\ Releasing(w, o)
  /\ UNCHANGED <<remaining, due, resold, batch, reminded>>

\* Mutant: the deadline is compared the wrong way round.
ReleaseTooEarly(o) ==
  /\ worker[Cron] = Idle
  /\ o \notin due /\ row[o].status = "PENDING_PAYMENT"
  /\ row' = [row EXCEPT ![o].status = "CANCELLED"]
  /\ Releasing(Cron, o)
  /\ UNCHANGED <<remaining, due, resold, batch, reminded>>

\* releaseAbandoned, one order of the list it loaded (being past its deadline
\* is permanent, and the UPDATE checks the status again).
ReleaseAbandoned(o) ==
  /\ worker[Cron] = Idle
  /\ o \in due /\ row[o].status = "PENDING_PAYMENT"
  /\ row' = [row EXCEPT ![o].status = "CANCELLED"]
  /\ Releasing(Cron, o)
  /\ UNCHANGED <<remaining, due, resold, batch, reminded>>

\* Mutant: the UPDATE excludes REFUNDED and forgets CANCELLED.
MarkRefundedTwice(w, o) ==
  /\ worker[w] = Idle /\ w # Cron
  /\ row[o].status \notin {"NONE", "REFUNDED"}
  /\ row' = [row EXCEPT ![o] = [status |-> "REFUNDED", pay |-> "REFUNDED"]]
  /\ Releasing(w, o)
  /\ UNCHANGED <<remaining, due, resold, batch, reminded>>

\* order.mark_refunded with restore_stock left to its default, true.
MarkRefunded(w, o) ==
  /\ worker[w] = Idle /\ w # Cron
  /\ row[o].status \notin {"NONE", "REFUNDED", "CANCELLED"}
  /\ row' = [row EXCEPT ![o] = [status |-> "REFUNDED", pay |-> "REFUNDED"]]
  /\ Releasing(w, o)
  /\ UNCHANGED <<remaining, due, resold, batch, reminded>>

\* order.mark_late_payment_refunded: the places were never retaken.
MarkLatePaymentRefunded(o) ==
  /\ row[o].status = "CANCELLED" /\ row[o].pay # "PAID"
  /\ row' = [row EXCEPT ![o] = [status |-> "REFUNDED", pay |-> "REFUNDED"]]
  /\ UNCHANGED <<remaining, due, resold, worker, batch, reminded>>

\* Mutant: the status is overwritten whatever it became meanwhile.
MarkTicketsSentAnyway(o) ==
  /\ row[o] # Absent
  /\ row' = [row EXCEPT ![o].status = "TICKETS_SENT"]
  /\ UNCHANGED <<remaining, due, resold, worker, batch, reminded>>

\* order.mark_tickets_sent.
MarkTicketsSent(o) ==
  /\ row[o].status = "CONFIRMED"
  /\ row' = [row EXCEPT ![o].status = "TICKETS_SENT"]
  /\ UNCHANGED <<remaining, due, resold, worker, batch, reminded>>

-----------------------------------------------------------------------------
(* Writers that save the whole entity they loaded earlier *)

\* order.record_partial_refund reads the order ...
PartialRefundRead(w, o) ==
  /\ worker[w] = Idle /\ w # Cron
  /\ o \in PartlyRefundable /\ row[o] # Absent
  /\ worker' = [worker EXCEPT ![w] = [Idle EXCEPT !.order = o, !.phase = "save", !.seen = row[o]]]
  /\ UNCHANGED <<remaining, row, due, resold, batch, reminded>>

\* ... and saves it back: save() writes every column that differs.
PartialRefundSave(w) ==
  /\ worker[w].phase = "save"
  /\ row' = [row EXCEPT ![worker[w].order] = worker[w].seen]
  /\ worker' = [worker EXCEPT ![w] = Idle]
  /\ UNCHANGED <<remaining, due, resold, batch, reminded>>

\* sendDayBeforeReminders loads the paid orders of tomorrow's events ...
ToRemind(o) == o \in Reminded \ reminded /\ row[o].status \in {"CONFIRMED", "TICKETS_SENT"}

ReminderFind ==
  /\ \A o \in Order : batch[o] = Absent
  /\ \E o \in Order : ToRemind(o)
  /\ batch' = [o \in Order |-> IF ToRemind(o) THEN row[o] ELSE Absent]
  /\ UNCHANGED <<remaining, row, due, resold, worker, reminded>>

\* ... and, once every buyer was notified, saves them all.
ReminderSave ==
  /\ \E o \in Order : batch[o] # Absent
  /\ row' = [o \in Order |-> IF batch[o] # Absent THEN batch[o] ELSE row[o]]
  /\ reminded' = reminded \cup {o \in Order : batch[o] # Absent}
  /\ batch' = [o \in Order |-> Absent]
  /\ UNCHANGED <<remaining, due, resold, worker>>

\* A ticket of o is sold on: its place is now the resale buyer's.
TicketResold(o, c) ==
  /\ o \in Resellable /\ c \in Lines(o) \ resold[o]
  /\ row[o].status \in {"CONFIRMED", "TICKETS_SENT"}
  /\ resold' = [resold EXCEPT ![o] = @ \cup {c}]
  /\ UNCHANGED <<remaining, row, due, worker, batch, reminded>>

-----------------------------------------------------------------------------
WorkerStep(w) ==
  \/ \E c \in Category :
       \/ GiveBack(w, c) \/ GiveBackLost(w, c)
       \/ RetakeLine(w, c) \/ RetakeRefused(w, c) \/ RetakeReplyLost(w, c)
  \/ ConfirmCas(w) \/ ConfirmCasFails(w) \/ ConfirmReread(w)
  \/ PartialRefundSave(w)

OrderStep(o) ==
  \/ PlaceOrder(o) \/ DeadlinePasses(o)
  \/ ReleaseAbandoned(o) \/ MarkLatePaymentRefunded(o) \/ MarkTicketsSent(o)
  \/ \E w \in Worker : ConfirmRead(w, o) \/ Cancel(w, o) \/ MarkRefunded(w, o)
                       \/ PartialRefundRead(w, o)
  \/ \E c \in Category : TicketResold(o, c)

Next ==
  \/ \E w \in Worker : WorkerStep(w) \/ Crash(w)
  \/ \E o \in Order : OrderStep(o)
  \/ ReminderFind \/ ReminderSave

Spec == Init /\ [][Next]_vars

\* A handler that has started goes on; deadlines pass; the cron runs every
\* minute.  Nothing forces a payment, a cancellation or a refund to arrive.
Fairness ==
  /\ \A w \in Worker : WF_vars(WorkerStep(w))
  /\ \A o \in Order : WF_vars(DeadlinePasses(o)) /\ WF_vars(ReleaseAbandoned(o))
FairSpec == Spec /\ Fairness

-----------------------------------------------------------------------------
(* Properties *)

\* An order with one of these statuses entitles its buyer to its places.
Holding == {"PENDING_PAYMENT", "CONFIRMED", "TICKETS_SENT"}

\* Who keeps places of category c out of sale: orders, and handlers that have
\* taken them and not yet attached them to an order or given them back.
Holders(c) ==
  {<<NoWorker, o>> : o \in {p \in Order : c \in Lines(p) /\ row[p].status \in Holding}}
  \cup {<<w, worker[w].order>> : w \in {v \in Worker : c \in worker[v].lines}}

\* Categories none of whose orders is rewritten from an old copy of its row
\* (partial refund, reminder) or has a ticket sold on.
Plain(c) == \A o \in PartlyRefundable \cup Reminded \cup Resellable : c \notin Lines(o)

\* The counter is exact: places on sale, places held by orders and places in
\* the hands of a handler add up to the quota -- and to no more than the quota
\* when calls or processes fail (a lost restoration leaves places unsold).
LedgerBalances ==
  \A c \in Category : Plain(c) =>
    /\ remaining[c] + Cardinality(Places(Holders(c), c)) <= Quota[c]
    /\ Faults = {} => remaining[c] + Cardinality(Places(Holders(c), c)) = Quota[c]

\* Never backwards: an order whose row is not rewritten goes from unpaid to
\* paid to refunded, a refund is final, and a paid order is never cancelled.
Rank == [PENDING |-> 0, PAID |-> 1, REFUNDED |-> 2]
PaymentGoesForward ==
  [][\A o \in Order \ (PartlyRefundable \cup Reminded) :
       /\ Rank[row[o].pay] <= Rank[row'[o].pay]
       /\ row[o].pay = "PAID" => row'[o].status # "CANCELLED"
       /\ row[o].status = "REFUNDED" => row'[o] = row[o]]_vars

\* The two status columns, written by five handlers, never contradict each other.
Agree(r) ==
  /\ (r.pay = "PAID") <=> (r.status \in {"CONFIRMED", "TICKETS_SENT"})
  /\ (r.pay = "REFUNDED") <=> (r.status = "REFUNDED")
StatusesAgree == \A o \in Order : Agree(row[o])

\* An unpaid order does not keep its places for ever.
UnpaidOrderIsReleased ==
  \A o \in Order : row[o].status = "PENDING_PAYMENT" ~> row[o].status # "PENDING_PAYMENT"

\* Places taken by a handler end up in an order or back on sale.
HandlerLetsGo == \A w \in Worker : worker[w].lines # {} ~> worker[w].lines = {}

\* With no failure and no row saved from an old copy, the two services
\* implement atomic orders: a place in a handler's hands counts as free.
InHand(c) == Places({<<w, worker[w].order>> : w \in {v \in Worker : c \in worker[v].lines}}, c)
Atomic == INSTANCE AtomicOrders WITH
  free <- [c \in Category |-> remaining[c] + Cardinality(InHand(c))],
  status <- [o \in Order |-> row[o].status],
  Need <- [o \in Order |-> [c \in Category |-> IF c \in Lines(o) THEN Qty[o][c] ELSE 0]]
ImplementsAtomicOrders == Atomic!Spec
=============================================================================
