--------------------------- MODULE EventLifecycle ---------------------------
(***************************************************************************)
(* The life of one event: the decisions of its organizer and of the admins *)
(* (EventService), the organizer's requests to cancel or postpone it and   *)
(* the admin's answers (CancellationService), the hourly cron              *)
(* (EventLifecycleService), and what the gateway does to the orders when   *)
(* the event is cancelled (EventRefundService) or a buyer renounces the    *)
(* new date (EventPostponementService).                                    *)
(*                                                                         *)
(* Every decision reads the event, checks it and saves it whole some calls *)
(* later, without a lock; requests run at the same time.  Nothing here     *)
(* keeps them apart: history variables record what went wrong, and the     *)
(* properties say what still holds then.                                   *)
(***************************************************************************)
EXTENDS Integers, FiniteSets

CONSTANTS
  Order,    \* orders for the event
  Request,  \* requests of the organizer (bound)
  Handler,  \* requests served at the same time (bound)
  Nothing,  \* sentinel
  LastDay,  \* bound: the last day the event may take place
  MaxMoves  \* bound: decisions of organizer and admins, failures

ASSUME EventAssumption ==
  /\ Nothing \notin Order \cup Request
  /\ LastDay \in Nat \ {0} /\ MaxMoves \in Nat

VARIABLES
  event,      \* row of events.events
  catSales,   \* sales_end_date of its ticket categories
  request,    \* rows of events.cancellation_requests
  order,      \* order[o]: status, free of charge, money given back, tickets
  today,
  handler,    \* local state of the requests being served
  moves,      \* decisions and failures left
  applied,    \* history: requests whose decision was saved on the event
  clobbered,  \* history: statuses a save overwrote that were not those it had read
  crossed,    \* history: a request was decided twice at once
  failed,     \* history: a handler stopped half-way, or a refund was refused
  late,       \* history: orders confirmed once the event was cancelled
  tardy       \* history: orders whose tickets were to come when those of the event were voided

vars == <<event, catSales, request, order, today, handler, moves, applied, clobbered, crossed, failed, late, tardy>>
stored == <<event, catSales, request, order>>
history == <<applied, clobbered, crossed, failed, late, tardy>>

-----------------------------------------------------------------------------
Day == 1..LastDay
EventStatus == {"DRAFT", "PENDING_VALIDATION", "PUBLISHED", "SUSPENDED", "POSTPONED",
                "CANCELLED", "TERMINATED", "ARCHIVED"}
\* start: the day it takes place; sales: the day its sales end; postponed: postponed_at is set.
Event == [status: EventStatus, start: Day, sales: Nat, postponed: BOOLEAN]
\* NONE: no row.  ASKED: no row yet, the organizer's request has passed its checks.
RequestStatus == {"NONE", "ASKED", "PENDING", "APPROVED", "REJECTED", "WITHDRAWN"}
\* date 0: postponed without a date.
RequestRow == [status: RequestStatus, kind: {"CANCELLATION", "POSTPONEMENT"}, date: 0..LastDay]
OrderStatus == {"NONE", "PENDING", "CONFIRMED", "REFUNDED"}
\* due: the order is confirmed, its tickets are not generated yet.
Tickets == {"none", "due", "valid", "out"}

FirstEvent == [status |-> "DRAFT", start |-> 1, sales |-> 1, postponed |-> FALSE]
Idle == [pc |-> "idle", op |-> "decide", base |-> FirstEvent, copy |-> FirstEvent, request |-> Nothing,
         todo |-> {}, order |-> Nothing]

\* A row never leaves the shapes the code gives it; unless an old copy was
\* saved, an event somebody bought tickets for is not a draft again.
TypeOK ==
  /\ event \in Event /\ catSales \in Nat /\ today \in 1..(LastDay + 1)
  /\ request \in [Request -> RequestRow]
  /\ order \in [Order -> [status: OrderStatus, free: BOOLEAN, repaid: BOOLEAN, tickets: Tickets]]
  /\ \A h \in Handler :
       /\ handler[h].pc \in {"idle", "move", "save", "close", "list", "tickets", "refund", "mark",
                             "pay_back", "void", "settle"}
       /\ handler[h].base \in Event /\ handler[h].copy \in Event /\ handler[h].todo \subseteq Order
  /\ moves \in 0..MaxMoves /\ applied \subseteq Request /\ late \cup tardy \subseteq Order
  /\ clobbered \subseteq EventStatus /\ {crossed, failed} \subseteq BOOLEAN
  /\ event.status \in {"DRAFT", "PENDING_VALIDATION"} =>
       clobbered # {} \/ \A o \in Order : order[o].status = "NONE"

Init ==
  /\ event \in {FirstEvent, [FirstEvent EXCEPT !.status = "PUBLISHED"]} /\ catSales = FirstEvent.sales
  /\ request = [r \in Request |-> [status |-> "NONE", kind |-> "CANCELLATION", date |-> 0]]
  /\ order = [o \in Order |-> [status |-> "NONE", free |-> FALSE, repaid |-> FALSE, tickets |-> "none"]]
  /\ today = 1 /\ handler = [h \in Handler |-> Idle] /\ moves = MaxMoves
  /\ applied = {} /\ clobbered = {} /\ crossed = FALSE /\ failed = FALSE /\ late = {} /\ tardy = {}

-----------------------------------------------------------------------------
(* Reading, deciding, saving *)

At(h, pc) == handler[h].pc = pc
Goes(h, pc) == handler' = [handler EXCEPT ![h].pc = pc]
Ends(h) == handler' = [handler EXCEPT ![h] = Idle]
Decides == moves > 0 /\ moves' = moves - 1
Started(e) == e.start < today

\* A decision that turns the event into copy, for request r if any; op: it is a
\* cancellation or not.
Reads(h, op, copy, r) ==
  /\ At(h, "idle")
  /\ handler' = [handler EXCEPT ![h] = [Idle EXCEPT !.pc = IF copy.sales > event.sales THEN "move" ELSE "save",
                                                   !.op = op, !.base = event, !.copy = copy, !.request = r]]
  /\ UNCHANGED <<stored, today, history>>

Becomes(status) == [event EXCEPT !.status = status]

\* The dates move; the end of the sales moves with them, never backwards.
Moved(e, day) == [e EXCEPT !.start = day, !.sales = IF day > e.start THEN @ + (day - e.start) ELSE @]

SubmitForValidation(h) ==
  event.status = "DRAFT" /\ Decides /\ Reads(h, "decide", Becomes("PENDING_VALIDATION"), Nothing)

Validate(h) ==
  /\ event.status = "PENDING_VALIDATION" /\ ~Started(event) /\ Decides
  /\ Reads(h, "decide", Becomes("PUBLISHED"), Nothing)

\* Mutant: reject does not look at the status.
RejectAnyway(h) == Decides /\ Reads(h, "decide", Becomes("DRAFT"), Nothing)

Reject(h) ==
  event.status = "PENDING_VALIDATION" /\ Decides /\ Reads(h, "decide", Becomes("DRAFT"), Nothing)

Suspend(h) == event.status = "PUBLISHED" /\ Decides /\ Reads(h, "decide", Becomes("SUSPENDED"), Nothing)
Unsuspend(h) == event.status = "SUSPENDED" /\ Decides /\ Reads(h, "decide", Becomes("PUBLISHED"), Nothing)

\* Texts, pictures, hide, feature, VAT: the status is saved as it was read.
Touch(h) == Decides /\ Reads(h, "decide", event, Nothing)

\* The organizer of a postponed event sets its date.
Reschedule(h) ==
  /\ event.status = "POSTPONED" /\ Decides
  /\ \E day \in Day : /\ day > event.start /\ day >= today
                      /\ Reads(h, "decide", Moved(Becomes("PUBLISHED"), day), Nothing)

\* Mutant: the end of the sales of the event moves, not of its categories.
MoveCategoriesNot(h) ==
  /\ At(h, "move") /\ Goes(h, "save")
  /\ UNCHANGED <<stored, today, moves, history>>

\* moveDates: one UPDATE, before the event is saved.
MoveCategories(h) ==
  /\ At(h, "move") /\ Goes(h, "save")
  /\ catSales' = catSales + (handler[h].copy.sales - handler[h].base.sales)
  /\ UNCHANGED <<event, request, order, today, moves, history>>

\* A cancellation goes on in the gateway with the orders.
AfterSave(h) ==
  LET next == IF handler[h].request # Nothing THEN "close"
              ELSE IF handler[h].op = "cancel" THEN "list" ELSE "idle"
  IN handler' = [handler EXCEPT ![h] =
                   IF next = "idle" THEN Idle
                   ELSE [Idle EXCEPT !.pc = next, !.op = handler[h].op, !.request = handler[h].request]]

Save(h) ==
  /\ At(h, "save") /\ AfterSave(h)
  /\ event' = handler[h].copy
  /\ clobbered' = IF event = handler[h].base THEN clobbered ELSE clobbered \cup {event.status}
  /\ applied' = applied \cup ({handler[h].request} \ {Nothing})
  /\ UNCHANGED <<catSales, request, order, today, moves, crossed, failed, late, tardy>>

-----------------------------------------------------------------------------
(* Requests of the organizer *)

\* The request is checked against the event and the pending requests...
AskChange(r, kind, date) ==
  /\ request[r].status = "NONE" /\ \A q \in Request : request[q].status # "PENDING"
  /\ \/ /\ kind = "CANCELLATION" /\ date = 0
        /\ event.status \in {"DRAFT", "PENDING_VALIDATION", "PUBLISHED", "SUSPENDED", "POSTPONED"}
     \/ /\ kind = "POSTPONEMENT" /\ event.status = "PUBLISHED" /\ ~Started(event)
        /\ date = 0 \/ (date > event.start /\ date >= today)
  /\ request' = [request EXCEPT ![r] = [status |-> "ASKED", kind |-> kind, date |-> date]]
  /\ UNCHANGED <<event, catSales, order, today, handler, moves, history>>

\* ... then inserted, whatever was inserted or decided in between.
InsertRequest(r) ==
  /\ request[r].status = "ASKED"
  /\ request' = [request EXCEPT ![r].status = "PENDING"]
  /\ UNCHANGED <<event, catSales, order, today, handler, moves, history>>

BeingApproved(r) == \E h \in Handler : handler[h].request = r

\* withdraw and reject load a pending request, then update it: it may have been
\* decided otherwise, or its approval have started, in between.
DecideAgainst(r, status) ==
  /\ Decides /\ request[r].status \notin {"NONE", "ASKED", status}
  /\ request' = [request EXCEPT ![r].status = status]
  /\ crossed' = (crossed \/ request[r].status = "APPROVED" \/ BeingApproved(r))
  /\ UNCHANGED <<event, catSales, order, today, handler, applied, clobbered, failed, late, tardy>>

\* postpone, on approval: a new date, or none yet.
Postponed(date) == [(IF date = 0 THEN Becomes("POSTPONED") ELSE Moved(event, date)) EXCEPT !.postponed = TRUE]

Approve(h, r) ==
  /\ request[r].status = "PENDING" /\ Decides
  /\ crossed' = (crossed \/ BeingApproved(r))
  /\ \/ /\ request[r].kind = "CANCELLATION" /\ event.status # "CANCELLED"
        /\ handler' = [handler EXCEPT ![h] = [Idle EXCEPT !.pc = "save", !.op = "cancel", !.base = event,
                                                         !.copy = Becomes("CANCELLED"), !.request = r]]
     \/ /\ request[r].kind = "POSTPONEMENT" /\ event.status = "PUBLISHED" /\ ~Started(event)
        /\ LET copy == Postponed(request[r].date)
           IN handler' = [handler EXCEPT ![h] = [Idle EXCEPT !.pc = IF copy.sales > event.sales THEN "move" ELSE "save",
                                                            !.op = "decide", !.base = event, !.copy = copy,
                                                            !.request = r]]
  /\ At(h, "idle") /\ UNCHANGED <<stored, today, applied, clobbered, failed, late, tardy>>


CloseRequest(h) ==
  /\ At(h, "close")
  /\ request' = [request EXCEPT ![handler[h].request].status = "APPROVED"]
  /\ IF handler[h].op = "cancel"
       THEN handler' = [handler EXCEPT ![h] = [Idle EXCEPT !.pc = "list"]]
       ELSE Ends(h)
  /\ UNCHANGED <<event, catSales, order, today, moves, history>>

\* An admin cancels without a request, in any status.
Cancel(h) == event.status # "CANCELLED" /\ Decides /\ Reads(h, "cancel", Becomes("CANCELLED"), Nothing)

-----------------------------------------------------------------------------
(* Orders *)

\* The places are reserved, then ordered: event-service looks at the event once,
\* and the end of the category's sales counts, not the event's.
PlaceOrder(o) ==
  /\ event.status = "PUBLISHED" /\ today <= catSales /\ order[o].status = "NONE"
  /\ \E free \in BOOLEAN : order' = [order EXCEPT ![o].status = "PENDING", ![o].free = free]
  /\ UNCHANGED <<event, catSales, request, today, handler, moves, history>>

\* The fulfilment, which does not look at the event: the order is confirmed...
ConfirmPayment(o) ==
  /\ order[o].status = "PENDING"
  /\ order' = [order EXCEPT ![o].status = "CONFIRMED", ![o].tickets = "due"]
  /\ late' = IF event.status = "CANCELLED" THEN late \cup {o} ELSE late
  /\ UNCHANGED <<event, catSales, request, today, handler, moves, applied, clobbered, crossed, failed, tardy>>

\* ... and its tickets are generated some calls later, the order not read again.
GenerateTickets(o) ==
  /\ order[o].tickets = "due"
  /\ order' = [order EXCEPT ![o].tickets = "valid"]
  /\ UNCHANGED <<event, catSales, request, today, handler, moves, history>>

\* refundAllOrdersForEvent: the paid orders, listed once.
ListOrders(h) ==
  /\ At(h, "list")
  /\ LET paid == {o \in Order : order[o].status = "CONFIRMED"}
     IN handler' = [handler EXCEPT ![h] = IF paid = {} THEN Idle ELSE [@ EXCEPT !.pc = "tickets", !.todo = paid]]
  /\ UNCHANGED <<stored, today, moves, history>>

\* cancel_by_event: every valid ticket of the event.
CancelTickets(h) ==
  /\ At(h, "tickets") /\ Goes(h, "refund")
  /\ order' = [o \in Order |-> IF order[o].tickets = "valid" THEN [order[o] EXCEPT !.tickets = "out"] ELSE order[o]]
  /\ tardy' = tardy \cup {o \in Order : order[o].tickets = "due"}
  /\ UNCHANGED <<event, catSales, request, today, moves, applied, clobbered, crossed, failed, late>>

\* A free order has no payment to refund.
Refundable(o) == ~order[o].free /\ ~order[o].repaid

RefundOrder(h, o) ==
  /\ At(h, "refund") /\ o \in handler[h].todo /\ Refundable(o)
  /\ order' = [order EXCEPT ![o].repaid = TRUE]
  /\ handler' = [handler EXCEPT ![h].pc = "mark", ![h].order = o]
  /\ UNCHANGED <<event, catSales, request, today, moves, history>>

\* Free, refunded meanwhile, or refused by Stripe: logged, and the order left.
SkipOrder(h, o) ==
  /\ At(h, "refund") /\ o \in handler[h].todo
  /\ handler' = [handler EXCEPT ![h].todo = @ \ {o}]
  /\ \/ ~Refundable(o) /\ UNCHANGED <<moves, failed>>
     \/ Refundable(o) /\ Decides /\ failed' = TRUE
  /\ UNCHANGED <<stored, today, applied, clobbered, crossed, late, tardy>>

Settled(o) == [order EXCEPT ![o].status = IF @ = "CONFIRMED" THEN "REFUNDED" ELSE @]

MarkRefunded(h) ==
  /\ At(h, "mark")
  /\ order' = Settled(handler[h].order)
  /\ handler' = [handler EXCEPT ![h].pc = "refund", ![h].todo = @ \ {handler[h].order}, ![h].order = Nothing]
  /\ UNCHANGED <<event, catSales, request, today, moves, history>>

CascadeEnds(h) ==
  /\ At(h, "refund") /\ handler[h].todo = {} /\ Ends(h)
  /\ UNCHANGED <<stored, today, moves, history>>

\* The buyer renounces the new date: payment, tickets, order.
RenounceCheck(h, o) ==
  /\ At(h, "idle") /\ event.postponed /\ event.status # "CANCELLED"
  /\ event.status = "POSTPONED" \/ ~Started(event)
  /\ order[o].status = "CONFIRMED" /\ order[o].tickets = "valid"
  /\ handler' = [handler EXCEPT ![h] = [Idle EXCEPT !.pc = "pay_back", !.order = o]]
  /\ UNCHANGED <<stored, today, moves, history>>

PayBack(h) ==
  LET o == handler[h].order
  IN /\ At(h, "pay_back")
     /\ \/ order[o].free /\ Goes(h, "void") /\ UNCHANGED order
        \/ Refundable(o) /\ Goes(h, "void") /\ order' = [order EXCEPT ![o].repaid = TRUE]
        \/ ~order[o].free /\ order[o].repaid /\ Ends(h) /\ UNCHANGED order
     /\ UNCHANGED <<event, catSales, request, today, moves, history>>

VoidTickets(h) ==
  /\ At(h, "void") /\ Goes(h, "settle")
  /\ order' = [order EXCEPT ![handler[h].order].tickets = "out"]
  /\ UNCHANGED <<event, catSales, request, today, moves, history>>

SettleOrder(h) ==
  /\ At(h, "settle") /\ Ends(h)
  /\ order' = Settled(handler[h].order)
  /\ UNCHANGED <<event, catSales, request, today, moves, history>>

-----------------------------------------------------------------------------
(* Time and failures *)

NextDay ==
  /\ today <= LastDay /\ today' = today + 1
  /\ UNCHANGED <<stored, handler, moves, history>>

\* The hourly cron, two UPDATEs.
TerminatePastEvents ==
  /\ event.status = "PUBLISHED" /\ Started(event)
  /\ event' = Becomes("TERMINATED")
  /\ UNCHANGED <<catSales, request, order, today, handler, moves, history>>

ArchiveOldTerminatedEvents ==
  /\ event.status = "TERMINATED"
  /\ event' = Becomes("ARCHIVED")
  /\ UNCHANGED <<catSales, request, order, today, handler, moves, history>>

\* The service, or the gateway and its background work, stops.
Stop(h) ==
  /\ ~At(h, "idle") /\ Decides /\ Ends(h) /\ failed' = TRUE
  /\ UNCHANGED <<stored, today, applied, clobbered, crossed, late, tardy>>

-----------------------------------------------------------------------------
Continue(h) ==
  \/ MoveCategories(h) \/ Save(h) \/ CloseRequest(h)
  \/ ListOrders(h) \/ CancelTickets(h) \/ MarkRefunded(h) \/ CascadeEnds(h)
  \/ \E o \in Order : RefundOrder(h, o) \/ SkipOrder(h, o)
  \/ PayBack(h) \/ VoidTickets(h) \/ SettleOrder(h)

Decision(h) ==
  \/ SubmitForValidation(h) \/ Validate(h) \/ Reject(h) \/ Suspend(h) \/ Unsuspend(h) \/ Touch(h)
  \/ Reschedule(h) \/ Cancel(h) \/ Stop(h)
  \/ \E r \in Request : Approve(h, r)
  \/ \E o \in Order : RenounceCheck(h, o)

Next ==
  \/ \E h \in Handler : Continue(h) \/ Decision(h)
  \/ \E r \in Request : \/ DecideAgainst(r, "WITHDRAWN") \/ DecideAgainst(r, "REJECTED")
                        \/ AskChange(r, "CANCELLATION", 0) \/ InsertRequest(r)
                        \/ \E date \in 0..LastDay : AskChange(r, "POSTPONEMENT", date)
  \/ \E o \in Order : PlaceOrder(o) \/ ConfirmPayment(o) \/ GenerateTickets(o)
  \/ NextDay \/ TerminatePastEvents \/ ArchiveOldTerminatedEvents

\* A handler being served goes on.  Nobody has to decide, buy or pay anything.
Fairness == \A h \in Handler : WF_vars(Continue(h))

Spec == Init /\ [][Next]_vars /\ Fairness

-----------------------------------------------------------------------------
(* Properties *)

InApproval == \E h \in Handler : handler[h].pc \in {"move", "save", "close"}

\* Between decisions, unless two of them crossed: an approved request was
\* applied, and an applied one is approved unless the service stopped; the
\* event of an approved cancellation is cancelled for good; the sales of the
\* categories end with those of the event.  A request withdrawn or refused was
\* never applied.
RequestsAgree ==
  ~InApproval /\ clobbered = {} /\ ~crossed =>
    /\ \A r \in Request :
         /\ request[r].status = "APPROVED" => r \in applied
         /\ r \in applied => request[r].status = "APPROVED" \/ failed
         /\ r \in applied /\ request[r].kind = "CANCELLATION" => event.status = "CANCELLED"
    /\ catSales = event.sales \/ failed

Owed(o) == event.status = "CANCELLED" /\ order[o].status = "CONFIRMED" /\ o \notin late
TicketsOut(o) == order[o].tickets # "valid" \/ o \in tardy
Repaid(o) == TicketsOut(o) /\ (order[o].free \/ (order[o].repaid /\ order[o].status = "REFUNDED"))

=============================================================================
