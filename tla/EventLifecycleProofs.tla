----------------------- MODULE EventLifecycleProofs -----------------------
(***************************************************************************)
(* For any number of requests, orders, concurrent handlers and days: the   *)
(* rows of an event keep their shapes, and unless a row was overwritten    *)
(* from an old copy or a request decided twice at once, the requests of    *)
(* the organizer, the event and the sales of its categories agree whenever *)
(* no decision is half-way.                                                *)
(*                                                                         *)
(* The sales are the hard part: their end moves for the categories first,  *)
(* and for the event when it is saved.  Pending says which handlers are    *)
(* between the two, and SalesOK how far the categories are then ahead.     *)
(* Two handlers may be there at once; the first to save makes the other    *)
(* overwrite it, or stop, and either is remembered.                        *)
(***************************************************************************)
EXTENDS EventLifecycle, TLAPS

-----------------------------------------------------------------------------
Pcs == {"idle", "move", "save", "close", "list", "tickets", "refund", "mark", "pay_back", "void", "settle"}
HandlerState == [pc: Pcs, op: {"decide", "cancel"}, base: Event, copy: Event, request: Request \cup {Nothing},
                 todo: SUBSET Order, order: Order \cup {Nothing}]
OrderState == [status: OrderStatus, free: BOOLEAN, repaid: BOOLEAN, tickets: Tickets]
Drafts == {"DRAFT", "PENDING_VALIDATION"}

Types == TypeOK /\ handler \in [Handler -> HandlerState]

\* A copy to save never undoes a cancellation or a publication by itself, and
\* is not older than the event's own sales.
CopyOK(h) ==
  LET base == handler[h].base
      copy == handler[h].copy
  IN /\ copy.sales >= base.sales
     /\ At(h, "move") => copy.sales > base.sales
     /\ base.status = "CANCELLED" => copy.status = "CANCELLED"
     /\ copy.status \in Drafts => base.status \in Drafts
     /\ clobbered = {} => base.sales <= event.sales

HandlerOK(h) ==
  /\ handler[h].pc \in {"move", "save"} => CopyOK(h)
  /\ handler[h].request # Nothing =>
       /\ handler[h].pc \in {"move", "save", "close"}
       /\ request[handler[h].request].status # "NONE"
       /\ request[handler[h].request].kind = "CANCELLATION" /\ ~At(h, "close") => handler[h].copy.status = "CANCELLED"
  /\ At(h, "close") => handler[h].request \in applied

Closing(r) == \E h \in Handler : At(h, "close") /\ handler[h].request = r

RequestOK(r) ==
  /\ request[r].status = "APPROVED" => r \in applied
  /\ r \in applied =>
       /\ request[r].status # "NONE"
       /\ crossed \/ failed \/ request[r].status = "APPROVED" \/ Closing(r)
       /\ clobbered = {} /\ request[r].kind = "CANCELLATION" => event.status = "CANCELLED"

\* The handler has moved the sales of the categories, not yet of the event.
Pending(h) == At(h, "save") /\ handler[h].copy.sales > handler[h].base.sales

SalesOK ==
  \/ clobbered # {} \/ failed
  \/ catSales = event.sales /\ \A h \in Handler : ~Pending(h)
  \/ \E h \in Handler : Pending(h) /\ handler[h].base.sales < event.sales
  \/ \E h, k \in Handler : h # k /\ Pending(h) /\ Pending(k)
  \/ \E h \in Handler : /\ Pending(h) /\ catSales = event.sales + (handler[h].copy.sales - handler[h].base.sales)
                        /\ \A k \in Handler : Pending(k) => k = h

Inv == Types /\ (\A h \in Handler : HandlerOK(h)) /\ (\A r \in Request : RequestOK(r)) /\ SalesOK

LEMMA FirstEventType == FirstEvent \in Event
<1>1. 1 \in Day
  BY EventAssumption DEF Day
<1> QED
  BY <1>1 DEF FirstEvent, Event, EventStatus

LEMMA IdleType == Idle \in HandlerState
  BY FirstEventType DEF Idle, HandlerState, Pcs

LEMMA InvInit == Init => Inv
<1> SUFFICES ASSUME Init PROVE Inv
  OBVIOUS
<1>1. event \in Event /\ catSales \in Nat
  <2>1. [FirstEvent EXCEPT !.status = "PUBLISHED"] \in Event /\ FirstEvent.sales \in Nat
    BY FirstEventType DEF Event, EventStatus
  <2> QED
    BY <2>1, FirstEventType DEF Init
<1>2. Idle \in HandlerState
  BY IdleType
<1>3. Types
  <2>1. handler \in [Handler -> HandlerState]
    BY <1>2 DEF Init
  <2>2. today \in 1..(LastDay + 1) /\ moves \in 0..MaxMoves
    BY EventAssumption DEF Init
  <2>3. request \in [Request -> RequestRow] /\ order \in [Order -> OrderState]
    BY EventAssumption DEF Init, RequestRow, RequestStatus, OrderState, OrderStatus, Tickets
  <2>4. \A o \in Order : order[o].status = "NONE"
    BY DEF Init
  <2> QED
    BY <1>1, <2>1, <2>2, <2>3, <2>4 DEF Init, Types, TypeOK, HandlerState, Pcs, OrderState
<1>4. \A h \in Handler : HandlerOK(h) /\ ~Pending(h)
  BY DEF Init, HandlerOK, CopyOK, At, Idle, Pending
<1>5. \A r \in Request : RequestOK(r)
  BY DEF Init, RequestOK
<1>6. catSales = event.sales
  BY DEF Init, FirstEvent
<1> QED
  BY <1>3, <1>4, <1>5, <1>6 DEF Inv, SalesOK

-----------------------------------------------------------------------------
(* Steps between decisions *)

Deciding == {"move", "save", "close"}

\* Only handlers that decide nothing move, and the event and the requests stay.
LEMMA Elsewhere ==
  ASSUME Inv, Types',
         UNCHANGED <<event, catSales, request, applied, clobbered, crossed>>, failed => failed',
         \A h \in Handler : \/ handler'[h] = handler[h]
                            \/ /\ handler[h].pc \notin Deciding /\ handler'[h].pc \notin Deciding
                               /\ handler'[h].request = Nothing
  PROVE  Inv'
<1>1. \A h \in Handler : HandlerOK(h)'
  BY DEF Inv, HandlerOK, CopyOK, At, Deciding
<1>2. \A h \in Handler : Pending(h)' <=> Pending(h)
  BY DEF Pending, At, Deciding
<1>3. \A h \in Handler : At(h, "close") => At(h, "close")' /\ handler'[h] = handler[h]
  BY DEF At, Deciding
<1>4. \A r \in Request : RequestOK(r)'
  BY <1>3 DEF Inv, RequestOK, Closing
<1>5. \A h \in Handler : Pending(h) => handler'[h] = handler[h]
  BY DEF Pending, At, Deciding
<1>6. SalesOK'
  BY <1>2, <1>5 DEF Inv, SalesOK
<1> QED
  BY <1>1, <1>4, <1>6 DEF Inv

\* The orders keep their shape, and no order appears.
OrdersKept ==
  /\ order' \in [Order -> OrderState]
  /\ \A o \in Order : order[o].status = "NONE" => order'[o].status = "NONE"

LEMMA OrdersSame ==
  ASSUME Types, UNCHANGED order
  PROVE  OrdersKept
  BY DEF Types, TypeOK, OrdersKept, OrderState

LEMMA OrderSettled ==
  ASSUME Types, NEW o, order' = Settled(o)
  PROVE  OrdersKept
<1>1. order \in [Order -> OrderState]
  BY DEF Types, TypeOK, OrderState
<1>2. ASSUME NEW q \in Order
      PROVE  order'[q] \in OrderState /\ (order[q].status = "NONE" => order'[q].status = "NONE")
  BY <1>1, <1>2 DEF Settled, OrderState, OrderStatus
<1> QED
  BY <1>1, <1>2 DEF Settled, OrdersKept

LEMMA DecidesType ==
  ASSUME Types, Decides \/ UNCHANGED moves
  PROVE  moves' \in 0..MaxMoves
  BY EventAssumption DEF Types, TypeOK, Decides

\* A handler that goes on elsewhere, or ends.
LEMMA HandlerGoes ==
  ASSUME Types, NEW h \in Handler, NEW pc \in Pcs, Goes(h, pc) \/ Ends(h)
  PROVE  handler' \in [Handler -> HandlerState]
<1>1. Idle \in HandlerState
  BY IdleType
<1>2. handler[h] \in HandlerState
  BY DEF Types
<1>3. [handler[h] EXCEPT !.pc = pc] \in HandlerState
  BY <1>2 DEF HandlerState
<1> QED
  BY <1>1, <1>3 DEF Types, Goes, Ends

LEMMA InvCascade ==
  ASSUME Inv, NEW h \in Handler,
         \/ ListOrders(h) \/ CancelTickets(h) \/ MarkRefunded(h) \/ CascadeEnds(h)
         \/ \E o \in Order : RefundOrder(h, o) \/ SkipOrder(h, o)
  PROVE  Inv'
<1>1. handler[h] \in HandlerState /\ Idle \in HandlerState
  BY IdleType DEF Inv, Types
<1>2. handler' \in [Handler -> HandlerState]
  <2>1. CASE CancelTickets(h) \/ CascadeEnds(h)
    BY <2>1, HandlerGoes DEF CancelTickets, CascadeEnds, Pcs, Inv
  <2>2. CASE ListOrders(h)
    BY <1>1, <2>2 DEF ListOrders, Inv, Types, HandlerState, Pcs
  <2>3. CASE MarkRefunded(h)
    BY <1>1, <2>3 DEF MarkRefunded, Inv, Types, HandlerState, Pcs
  <2>4. ASSUME NEW o \in Order, RefundOrder(h, o) \/ SkipOrder(h, o) PROVE handler' \in [Handler -> HandlerState]
    BY <1>1, <2>4 DEF RefundOrder, SkipOrder, Inv, Types, HandlerState, Pcs
  <2> QED
    BY <2>1, <2>2, <2>3, <2>4
<1>3. OrdersKept
  <2>1. order \in [Order -> OrderState]
    BY DEF Inv, Types, TypeOK, OrderState
  <2>2. CASE UNCHANGED order
    BY <2>2, OrdersSame DEF Inv
  <2>3. CASE MarkRefunded(h)
    BY <2>3, OrderSettled DEF Inv, MarkRefunded
  <2>4. CASE CancelTickets(h)
    BY <2>1, <2>4 DEF CancelTickets, OrdersKept, OrderState, Tickets
  <2>5. ASSUME NEW o \in Order, RefundOrder(h, o) PROVE OrdersKept
    BY <2>1, <2>5 DEF RefundOrder, OrdersKept, OrderState
  <2> QED
    BY <2>2, <2>3, <2>4, <2>5 DEF ListOrders, CascadeEnds, SkipOrder, stored
<1>4. moves' \in 0..MaxMoves
  BY DecidesType DEF ListOrders, CancelTickets, MarkRefunded, CascadeEnds, RefundOrder, SkipOrder, Inv
<1>5. /\ UNCHANGED <<event, catSales, request, today, applied, clobbered, crossed, late>>
      /\ failed' = failed \/ failed' = TRUE
      /\ tardy' \subseteq Order
  <2>1. tardy \subseteq Order
    BY DEF Inv, Types, TypeOK
  <2> QED
    BY <2>1 DEF ListOrders, CancelTickets, MarkRefunded, CascadeEnds, RefundOrder, SkipOrder, stored, history
<1>6. Types'
  BY <1>2, <1>3, <1>4, <1>5 DEF Inv, Types, TypeOK, HandlerState, Pcs, OrdersKept, OrderState
<1>7. \A k \in Handler : k # h => handler'[k] = handler[k]
  BY <1>1 DEF ListOrders, CancelTickets, MarkRefunded, CascadeEnds, RefundOrder, SkipOrder, Goes, Ends, Inv, Types
<1>8. handler[h].pc \notin Deciding /\ handler[h].request = Nothing
  BY DEF ListOrders, CancelTickets, MarkRefunded, CascadeEnds, RefundOrder, SkipOrder, At, Deciding, Inv, HandlerOK
<1>9. handler'[h].pc \notin Deciding /\ handler'[h].request = Nothing
  <2>1. handler \in [Handler -> HandlerState] /\ handler[h].pc \notin Deciding /\ handler[h].request = Nothing
    BY <1>8 DEF Inv, Types
  <2>2. CASE CancelTickets(h) \/ CascadeEnds(h)
    BY <2>1, <2>2 DEF CancelTickets, CascadeEnds, Goes, Ends, Deciding, Idle, HandlerState
  <2>4. CASE ListOrders(h)
    BY <2>1, <2>4 DEF ListOrders, Deciding, Idle, HandlerState
  <2>5. CASE MarkRefunded(h)
    BY <2>1, <2>5 DEF MarkRefunded, Deciding, HandlerState
  <2>3. ASSUME NEW o \in Order, RefundOrder(h, o) \/ SkipOrder(h, o)
        PROVE  handler'[h].pc \notin Deciding /\ handler'[h].request = Nothing
    BY <2>1, <2>3 DEF RefundOrder, SkipOrder, At, Deciding, HandlerState
  <2> QED
    BY <2>2, <2>3, <2>4, <2>5
<1> QED
  BY <1>5, <1>6, <1>7, <1>8, <1>9, Elsewhere

LEMMA InvRenounce ==
  ASSUME Inv, NEW h \in Handler,
         PayBack(h) \/ VoidTickets(h) \/ SettleOrder(h) \/ \E o \in Order : RenounceCheck(h, o)
  PROVE  Inv'
<1>1. handler[h] \in HandlerState /\ Idle \in HandlerState
  BY IdleType DEF Inv, Types
<1>2. handler' \in [Handler -> HandlerState]
  <2>1. CASE PayBack(h) \/ VoidTickets(h) \/ SettleOrder(h)
    BY <2>1, HandlerGoes DEF PayBack, VoidTickets, SettleOrder, Pcs, Inv
  <2>2. ASSUME NEW o \in Order, RenounceCheck(h, o) PROVE handler' \in [Handler -> HandlerState]
    BY <1>1, <2>2 DEF RenounceCheck, Inv, Types, HandlerState, Pcs
  <2> QED
    BY <2>1, <2>2
<1>3. OrdersKept
  <2>1. order \in [Order -> OrderState]
    BY DEF Inv, Types, TypeOK, OrderState
  <2>2. CASE UNCHANGED order
    BY <2>2, OrdersSame DEF Inv
  <2>3. CASE SettleOrder(h)
    BY <2>3, OrderSettled DEF Inv, SettleOrder
  <2>4. CASE VoidTickets(h)
    BY <2>1, <2>4 DEF VoidTickets, OrdersKept, OrderState, Tickets
  <2>5. CASE order' = [order EXCEPT ![handler[h].order].repaid = TRUE]
    BY <2>1, <2>5 DEF OrdersKept, OrderState
  <2> QED
    BY <2>2, <2>3, <2>4, <2>5 DEF PayBack, RenounceCheck, stored
<1>4. moves' \in 0..MaxMoves
  BY DecidesType DEF PayBack, VoidTickets, SettleOrder, RenounceCheck, Inv
<1>5. UNCHANGED <<event, catSales, request, today, applied, clobbered, crossed, failed, late, tardy>>
  BY DEF PayBack, VoidTickets, SettleOrder, RenounceCheck, stored, history
<1>6. Types'
  BY <1>2, <1>3, <1>4, <1>5 DEF Inv, Types, TypeOK, HandlerState, Pcs, OrdersKept, OrderState
<1>7. \A k \in Handler : k # h => handler'[k] = handler[k]
  BY <1>1 DEF PayBack, VoidTickets, SettleOrder, RenounceCheck, Goes, Ends, Inv, Types
<1>8. handler[h].pc \notin Deciding /\ handler[h].request = Nothing
  BY DEF PayBack, VoidTickets, SettleOrder, RenounceCheck, At, Deciding, Inv, HandlerOK
<1>9. handler'[h].pc \notin Deciding /\ handler'[h].request = Nothing
  <2>1. handler \in [Handler -> HandlerState] /\ handler[h].pc \notin Deciding /\ handler[h].request = Nothing
    BY <1>8 DEF Inv, Types
  <2>2. CASE PayBack(h) \/ VoidTickets(h) \/ SettleOrder(h)
    BY <2>1, <2>2 DEF PayBack, VoidTickets, SettleOrder, Goes, Ends, Deciding, Idle, HandlerState
  <2>3. ASSUME NEW o \in Order, RenounceCheck(h, o)
        PROVE  handler'[h].pc \notin Deciding /\ handler'[h].request = Nothing
    BY <2>1, <2>3 DEF RenounceCheck, Deciding, Idle, HandlerState
  <2> QED
    BY <2>2, <2>3
<1> QED
  BY <1>5, <1>6, <1>7, <1>8, <1>9, Elsewhere

LEMMA InvBuyers ==
  ASSUME Inv, NextDay \/ \E o \in Order : PlaceOrder(o) \/ ConfirmPayment(o) \/ GenerateTickets(o)
  PROVE  Inv'
<1>1. UNCHANGED <<event, catSales, request, handler, moves, applied, clobbered, crossed, failed, tardy>>
  BY DEF NextDay, PlaceOrder, ConfirmPayment, GenerateTickets, stored, history
<1>5. today' \in 1..(LastDay + 1)
  <2>1. today \in 1..(LastDay + 1)
    BY DEF Inv, Types, TypeOK
  <2>2. today' = today \/ (today <= LastDay /\ today' = today + 1)
    BY DEF NextDay, PlaceOrder, ConfirmPayment, GenerateTickets
  <2> QED
    BY <2>1, <2>2, EventAssumption
<1>2. late' \subseteq Order
  <2>1. late \subseteq Order
    BY DEF Inv, Types, TypeOK
  <2>2. UNCHANGED late \/ \E o \in Order : late' \subseteq late \cup {o}
    BY DEF NextDay, PlaceOrder, ConfirmPayment, GenerateTickets, history
  <2> QED
    BY <2>1, <2>2
<1>3. /\ order' \in [Order -> OrderState]
      /\ event.status \in Drafts => \A o \in Order : order[o].status = "NONE" => order'[o].status = "NONE"
  <2>1. CASE NextDay
    BY <2>1 DEF NextDay, stored, Inv, Types, TypeOK, OrderState
  <2>2. ASSUME NEW o \in Order, PlaceOrder(o)
        PROVE  /\ order' \in [Order -> OrderState]
               /\ event.status \notin Drafts
    BY <2>2 DEF PlaceOrder, Inv, Types, TypeOK, OrderState, OrderStatus, Drafts
  <2>3. ASSUME NEW o \in Order, ConfirmPayment(o) \/ GenerateTickets(o)
        PROVE  /\ order' \in [Order -> OrderState]
               /\ \A q \in Order : order[q].status = "NONE" => order'[q].status = "NONE"
    BY <2>3 DEF ConfirmPayment, GenerateTickets, Inv, Types, TypeOK, OrderState, OrderStatus, Tickets
  <2> QED
    BY <2>1, <2>2, <2>3
<1>4. Types'
  BY <1>1, <1>2, <1>3, <1>5 DEF Inv, Types, TypeOK, Drafts, OrderState
<1> QED
  BY <1>1, <1>4, Elsewhere

-----------------------------------------------------------------------------
(* Decisions *)

\* Rows after a step that moves the event and the handlers.
LEMMA EventTypes ==
  ASSUME Types, handler' \in [Handler -> HandlerState], event' \in Event, catSales' \in Nat,
         UNCHANGED <<order, today, late, tardy>>, moves' \in 0..MaxMoves, request' \in [Request -> RequestRow],
         applied' \subseteq Request, clobbered' \subseteq EventStatus, {crossed', failed'} \subseteq BOOLEAN,
         event'.status \in Drafts => clobbered' # {} \/ event.status \in Drafts, clobbered # {} => clobbered' # {}
  PROVE  Types'
  BY DEF Types, TypeOK, HandlerState, Pcs, Drafts

\* A handler reads the event and takes a decision.
LEMMA Decided ==
  ASSUME Inv, NEW h \in Handler, NEW op \in {"decide", "cancel"}, NEW copy \in Event,
         NEW r \in Request \cup {Nothing}, At(h, "idle"),
         handler' = [handler EXCEPT ![h] = [Idle EXCEPT !.pc = IF copy.sales > event.sales THEN "move" ELSE "save",
                                                        !.op = op, !.base = event, !.copy = copy, !.request = r]],
         UNCHANGED <<event, catSales, request, order, today, applied, clobbered, failed, late, tardy>>,
         moves' \in 0..MaxMoves, crossed' \in BOOLEAN, crossed => crossed',
         copy.sales >= event.sales, event.status = "CANCELLED" => copy.status = "CANCELLED",
         copy.status \in Drafts => event.status \in Drafts,
         r # Nothing => /\ request[r].status = "PENDING"
                        /\ request[r].kind = "CANCELLATION" => copy.status = "CANCELLED"
  PROVE  Inv'
<1>1. /\ event \in Event /\ catSales \in Nat /\ handler \in [Handler -> HandlerState]
      /\ request \in [Request -> RequestRow] /\ applied \subseteq Request /\ clobbered \subseteq EventStatus
      /\ failed \in BOOLEAN
  BY DEF Inv, Types, TypeOK
<1> DEFINE new == handler'[h]
<1>2. /\ new.pc \in {"move", "save"} /\ (new.pc = "move" <=> copy.sales > event.sales)
      /\ new.base = event /\ new.copy = copy /\ new.request = r
  BY <1>1 DEF Idle
<1>3. new \in HandlerState
  BY <1>1, IdleType DEF HandlerState, Pcs
<1>4. handler' \in [Handler -> HandlerState] /\ \A k \in Handler : k # h => handler'[k] = handler[k]
  BY <1>1, <1>3
<1>5. Types'
  BY <1>1, <1>4, EventTypes DEF Inv
<1> HIDE DEF new
<1>6. ASSUME NEW k \in Handler PROVE HandlerOK(k)'
  <2>1. CASE k = h
    <3>1. event.sales \in Nat /\ copy.sales \in Nat
      BY <1>1 DEF Event
    <3> QED
      BY <1>2, <2>1, <3>1 DEF HandlerOK, CopyOK, At, new
  <2>2. CASE k # h
    BY <1>4, <2>2 DEF Inv, HandlerOK, CopyOK, At
  <2> QED
    BY <2>1, <2>2
<1>7. \A k \in Handler : Pending(k)' <=> Pending(k)
  <2>1. ~Pending(h) /\ ~Pending(h)'
    BY <1>2 DEF Pending, At, new
  <2> QED
    BY <1>4, <2>1 DEF Pending, At
<1>8. \A k \in Handler : At(k, "close") \/ Pending(k) => handler'[k] = handler[k]
  BY <1>4 DEF At, Pending
<1>9. \A q \in Request : RequestOK(q)'
  <2>1. \A q \in Request : Closing(q) => Closing(q)'
    BY <1>8 DEF Closing, At
  <2> QED
    BY <2>1 DEF Inv, RequestOK
<1>10. SalesOK'
  BY <1>7, <1>8 DEF Inv, SalesOK
<1> QED
  BY <1>5, <1>6, <1>9, <1>10 DEF Inv

\* Reads, for the decisions no request asked for.
LEMMA Read ==
  ASSUME Inv, NEW h \in Handler, NEW op \in {"decide", "cancel"}, NEW copy \in Event, Decides,
         Reads(h, op, copy, Nothing),
         copy.sales >= event.sales, event.status = "CANCELLED" => copy.status = "CANCELLED",
         copy.status \in Drafts => event.status \in Drafts
  PROVE  Inv'
<1>1. moves' \in 0..MaxMoves /\ crossed' = crossed /\ crossed \in BOOLEAN
  BY DecidesType DEF Inv, Types, TypeOK, Reads, history
<1>2. /\ UNCHANGED <<event, catSales, request, order, today, applied, clobbered, failed, late, tardy>>
      /\ At(h, "idle")
      /\ handler' = [handler EXCEPT ![h] = [Idle EXCEPT !.pc = IF copy.sales > event.sales THEN "move" ELSE "save",
                                                       !.op = op, !.base = event, !.copy = copy, !.request = Nothing]]
  BY DEF Reads, stored, history
<1> QED
  BY <1>1, <1>2, Decided

LEMMA BecomesType ==
  ASSUME event \in Event, NEW s \in EventStatus
  PROVE  Becomes(s) \in Event /\ Becomes(s).sales = event.sales /\ Becomes(s).status = s
  BY DEF Event, Becomes

LEMMA MovedType ==
  ASSUME NEW e \in Event, NEW day \in Day
  PROVE  Moved(e, day) \in Event /\ Moved(e, day).sales >= e.sales /\ Moved(e, day).status = e.status
<1>1. e.start \in Int /\ day \in Int /\ e.sales \in Nat
  BY EventAssumption DEF Event, Day
<1>2. day > e.start => e.sales + (day - e.start) \in Nat /\ e.sales + (day - e.start) >= e.sales
  BY <1>1
<1>3. CASE day > e.start
  <2>1. Moved(e, day) = [e EXCEPT !.start = day, !.sales = e.sales + (day - e.start)]
    BY <1>3 DEF Moved, Event
  <2> QED
    BY <1>1, <1>2, <1>3, <2>1 DEF Event
<1>4. CASE ~(day > e.start)
  <2>1. Moved(e, day) = [e EXCEPT !.start = day, !.sales = e.sales]
    BY <1>4 DEF Moved, Event
  <2>2. e.sales >= e.sales
    BY <1>1
  <2> QED
    BY <1>1, <2>1, <2>2 DEF Event
<1> QED
  BY <1>3, <1>4

LEMMA InvDecision ==
  ASSUME Inv, NEW h \in Handler,
         \/ SubmitForValidation(h) \/ Validate(h) \/ Reject(h) \/ Suspend(h) \/ Unsuspend(h)
         \/ Touch(h) \/ Reschedule(h) \/ Cancel(h)
  PROVE  Inv'
<1>1. event \in Event /\ event.sales \in Nat /\ event.sales >= event.sales
  BY DEF Inv, Types, TypeOK, Event
<1>2. ASSUME NEW op \in {"decide", "cancel"}, NEW s \in EventStatus, Decides, Reads(h, op, Becomes(s), Nothing),
             event.status = "CANCELLED" => s = "CANCELLED", s \in Drafts => event.status \in Drafts
      PROVE  Inv'
  BY <1>1, <1>2, BecomesType, Read
<1>3. CASE SubmitForValidation(h) \/ Reject(h)
  BY <1>2, <1>3 DEF SubmitForValidation, Reject, EventStatus, Drafts
<1>4. CASE Validate(h) \/ Suspend(h) \/ Unsuspend(h)
  BY <1>2, <1>4 DEF Validate, Suspend, Unsuspend, EventStatus, Drafts
<1>5. CASE Cancel(h)
  BY <1>2, <1>5 DEF Cancel, EventStatus, Drafts
<1>6. CASE Touch(h)
  BY <1>1, <1>6, Read DEF Touch
<1>7. CASE Reschedule(h)
  <2>1. PICK day \in Day : Reads(h, "decide", Moved(Becomes("PUBLISHED"), day), Nothing)
    BY <1>7 DEF Reschedule
  <2>2. /\ Becomes("PUBLISHED") \in Event /\ Becomes("PUBLISHED").sales = event.sales
        /\ Becomes("PUBLISHED").status = "PUBLISHED"
    BY <1>1, BecomesType DEF EventStatus
  <2>3. LET copy == Moved(Becomes("PUBLISHED"), day)
        IN copy \in Event /\ copy.sales >= event.sales /\ copy.status = "PUBLISHED"
    BY <2>2, MovedType
  <2> QED
    BY <1>7, <2>1, <2>3, Read DEF Reschedule, Drafts
<1> QED
  BY <1>3, <1>4, <1>5, <1>6, <1>7

LEMMA PostponedType ==
  ASSUME event \in Event, event.status = "PUBLISHED", NEW date \in 0..LastDay
  PROVE  /\ Postponed(date) \in Event /\ Postponed(date).sales >= event.sales
         /\ Postponed(date).status \in {"POSTPONED", "PUBLISHED"}
<1> DEFINE e == IF date = 0 THEN Becomes("POSTPONED") ELSE Moved(event, date)
<1>1. e \in Event /\ e.sales >= event.sales /\ e.status \in {"POSTPONED", "PUBLISHED"}
  <2>1. CASE date = 0
    <3>1. event.sales \in Nat
      BY DEF Event
    <3> QED
      BY <2>1, <3>1, BecomesType DEF EventStatus
  <2>2. CASE date # 0
    <3>1. date \in Day
      BY <2>2, EventAssumption DEF Day
    <3> QED
      BY <2>2, <3>1, MovedType
  <2> QED
    BY <2>1, <2>2
<1>2. Postponed(date) = [e EXCEPT !.postponed = TRUE]
  BY DEF Postponed
<1> HIDE DEF e
<1> QED
  BY <1>1, <1>2 DEF Event

LEMMA InvApprove ==
  ASSUME Inv, NEW h \in Handler, NEW r \in Request, Approve(h, r)
  PROVE  Inv'
<1>1. /\ event \in Event /\ event.sales \in Nat /\ request[r].date \in 0..LastDay
      /\ crossed \in BOOLEAN /\ moves' \in 0..MaxMoves
  BY DecidesType DEF Inv, Types, TypeOK, Event, RequestRow, Approve
<1>2. /\ UNCHANGED <<event, catSales, request, order, today, applied, clobbered, failed, late, tardy>>
      /\ crossed' \in BOOLEAN /\ (crossed => crossed') /\ request[r].status = "PENDING" /\ At(h, "idle")
  BY <1>1 DEF Approve, stored
<1>3. CASE request[r].kind = "CANCELLATION"
  <2> DEFINE copy == Becomes("CANCELLED")
  <2>1. copy \in Event /\ copy.sales = event.sales /\ copy.status = "CANCELLED"
    BY <1>1, BecomesType DEF EventStatus
  <2>2. handler' = [handler EXCEPT ![h] = [Idle EXCEPT !.pc = "save", !.op = "cancel", !.base = event, !.copy = copy,
                                                       !.request = r]]
    BY <1>3 DEF Approve
  <2>3. (IF copy.sales > event.sales THEN "move" ELSE "save") = "save" /\ copy.sales >= event.sales
    BY <1>1, <2>1
  <2> HIDE DEF copy
  <2>4. handler' = [handler EXCEPT ![h] = [Idle EXCEPT !.pc = IF copy.sales > event.sales THEN "move" ELSE "save",
                                                       !.op = "cancel", !.base = event, !.copy = copy, !.request = r]]
    BY <2>2, <2>3
  <2> QED
    BY <1>1, <1>2, <2>1, <2>3, <2>4, Decided DEF Drafts
<1>4. CASE request[r].kind # "CANCELLATION"
  <2> DEFINE copy == Postponed(request[r].date)
  <2>1. event.status = "PUBLISHED"
    BY <1>4 DEF Approve
  <2>2. copy \in Event /\ copy.sales >= event.sales /\ copy.status \in {"POSTPONED", "PUBLISHED"}
    BY <1>1, <2>1, PostponedType
  <2>3. handler' = [handler EXCEPT ![h] = [Idle EXCEPT !.pc = IF copy.sales > event.sales THEN "move" ELSE "save",
                                                       !.op = "decide", !.base = event, !.copy = copy, !.request = r]]
    BY <1>4 DEF Approve
  <2> HIDE DEF copy
  <2> QED
    BY <1>1, <1>2, <1>4, <2>1, <2>2, <2>3, Decided DEF Drafts
<1> QED
  BY <1>3, <1>4

-----------------------------------------------------------------------------
(* Saving and closing *)

\* moveDates: the categories go ahead, by what the event still has to move.
LEMMA InvMove ==
  ASSUME Inv, NEW h \in Handler, MoveCategories(h)
  PROVE  Inv'
<1>1. /\ handler \in [Handler -> HandlerState] /\ catSales \in Nat /\ event.sales \in Nat /\ handler[h] \in HandlerState
      /\ handler[h].copy.sales \in Nat /\ handler[h].base.sales \in Nat
  BY DEF Inv, Types, TypeOK, HandlerState, Event
<1>2. /\ handler' = [handler EXCEPT ![h].pc = "save"] /\ handler[h].pc = "move"
      /\ catSales' = catSales + (handler[h].copy.sales - handler[h].base.sales)
      /\ UNCHANGED <<event, request, order, today, moves, applied, clobbered, crossed, failed, late, tardy>>
  BY DEF MoveCategories, At, Goes, history
<1>3. handler[h].copy.sales > handler[h].base.sales /\ (clobbered = {} => handler[h].base.sales <= event.sales)
  BY <1>2 DEF Inv, HandlerOK, CopyOK, At
<1>4. /\ handler'[h].pc = "save" /\ handler'[h].copy = handler[h].copy /\ handler'[h].base = handler[h].base
      /\ handler'[h].request = handler[h].request
      /\ \A k \in Handler : k # h => handler'[k] = handler[k]
  BY <1>1, <1>2 DEF HandlerState
<1>5. Types'
  <2>1. handler' \in [Handler -> HandlerState]
    BY <1>2, HandlerGoes DEF Inv, Goes, Pcs
  <2>2. catSales' \in Nat
    BY <1>1, <1>2, <1>3
  <2> QED
    BY <1>2, <2>1, <2>2 DEF Inv, Types, TypeOK, HandlerState, Pcs
<1>6. ASSUME NEW k \in Handler PROVE HandlerOK(k)'
  <2>1. CASE k = h
    BY <1>2, <1>4, <2>1 DEF Inv, HandlerOK, CopyOK, At
  <2>2. CASE k # h
    BY <1>2, <1>4, <2>2 DEF Inv, HandlerOK, CopyOK, At
  <2> QED
    BY <2>1, <2>2
<1>7. \A q \in Request : RequestOK(q)'
  <2>1. \A q \in Request : Closing(q) => Closing(q)'
    BY <1>2, <1>4 DEF Closing, At
  <2> QED
    BY <1>2, <2>1 DEF Inv, RequestOK
<1>8. Pending(h)' /\ ~Pending(h) /\ \A k \in Handler : k # h => (Pending(k)' <=> Pending(k))
  BY <1>2, <1>3, <1>4 DEF Pending, At
<1>9. SalesOK'
  <2>1. CASE clobbered # {} \/ failed
    BY <1>2, <2>1 DEF SalesOK
  <2>2. CASE clobbered = {} /\ \E k \in Handler : Pending(k)
    BY <1>8, <2>2 DEF SalesOK
  <2>3. CASE clobbered = {} /\ ~failed /\ \A k \in Handler : ~Pending(k)
    <3>1. catSales = event.sales
      BY <2>3 DEF Inv, SalesOK
    <3>2. catSales' = event'.sales + (handler'[h].copy.sales - handler'[h].base.sales)
      BY <1>2, <1>4, <3>1
    <3> QED
      BY <1>8, <2>3, <3>2 DEF SalesOK
  <2> QED
    BY <2>1, <2>2, <2>3
<1> QED
  BY <1>5, <1>6, <1>7, <1>9 DEF Inv

\* What a handler that has saved goes on with.
LEMMA AfterSaveIs ==
  ASSUME Inv, NEW h \in Handler, AfterSave(h), At(h, "save")
  PROVE  /\ handler' \in [Handler -> HandlerState]
         /\ \A k \in Handler : k # h => handler'[k] = handler[k]
         /\ handler'[h].pc \in {"close", "list", "idle"} /\ (handler'[h].pc = "close" <=> handler[h].request # Nothing)
         /\ handler'[h].request = handler[h].request
<1>1. handler \in [Handler -> HandlerState] /\ handler[h] \in HandlerState /\ Idle \in HandlerState
  BY IdleType DEF Inv, Types
<1> DEFINE on(pc) == [Idle EXCEPT !.pc = pc, !.op = handler[h].op, !.request = handler[h].request]
<1>2. /\ \A pc \in Pcs : on(pc) \in HandlerState
      /\ \A pc : on(pc).pc = pc /\ on(pc).request = handler[h].request
  BY <1>1 DEF HandlerState, Idle
<1>3. Idle.pc = "idle" /\ Idle.request = Nothing
  BY DEF Idle
<1>4. CASE handler[h].request # Nothing
  <2>1. handler' = [handler EXCEPT ![h] = on("close")]
    BY <1>4 DEF AfterSave
  <2> HIDE DEF on
  <2> QED
    BY <1>1, <1>2, <1>4, <2>1 DEF Pcs
<1>5. CASE handler[h].request = Nothing /\ handler[h].op = "cancel"
  <2>1. handler' = [handler EXCEPT ![h] = on("list")]
    BY <1>5 DEF AfterSave
  <2> HIDE DEF on
  <2> QED
    BY <1>1, <1>2, <1>5, <2>1 DEF Pcs
<1>6. CASE handler[h].request = Nothing /\ handler[h].op # "cancel"
  <2>1. handler' = [handler EXCEPT ![h] = Idle]
    BY <1>6 DEF AfterSave
  <2> QED
    BY <1>1, <1>3, <1>6, <2>1
<1> QED
  BY <1>4, <1>5, <1>6

\* The event is saved: whoever read it before has now an old copy.
LEMMA InvSave ==
  ASSUME Inv, NEW h \in Handler, Save(h)
  PROVE  Inv'
<1> DEFINE base == handler[h].base
           copy == handler[h].copy
           r == handler[h].request
<1>1. /\ handler[h].pc = "save" /\ event' = copy /\ applied' = applied \cup ({r} \ {Nothing})
      /\ UNCHANGED <<catSales, request, order, today, moves, crossed, failed, late, tardy>>
      /\ (event = base => clobbered' = clobbered)
      /\ (event # base => clobbered' = clobbered \cup {event.status})
  BY DEF Save, At
<1>2. /\ handler' \in [Handler -> HandlerState]
      /\ \A k \in Handler : k # h => handler'[k] = handler[k]
      /\ handler'[h].pc \in {"close", "list", "idle"} /\ (handler'[h].pc = "close" <=> r # Nothing)
      /\ handler'[h].request = r
  BY AfterSaveIs DEF Save, At
<1>3. /\ event \in Event /\ catSales \in Nat /\ base \in Event /\ copy \in Event /\ r \in Request \cup {Nothing}
      /\ applied \subseteq Request /\ clobbered \subseteq EventStatus /\ event.status \in EventStatus
  BY DEF Inv, Types, TypeOK, HandlerState, Event
<1>4. /\ copy.sales >= base.sales /\ (base.status = "CANCELLED" => copy.status = "CANCELLED")
      /\ copy.status \in Drafts => base.status \in Drafts
      /\ r # Nothing => request[r].status # "NONE" /\ (request[r].kind = "CANCELLATION" => copy.status = "CANCELLED")
  BY <1>1 DEF Inv, HandlerOK, CopyOK, At
<1>5. clobbered' = {} => clobbered = {} /\ event = base
  BY <1>1
<1> HIDE DEF base, copy, r
<1>6. Types'
  <2>1. applied' \subseteq Request /\ clobbered' \subseteq EventStatus
    BY <1>1, <1>3
  <2>2. event'.status \in Drafts => clobbered' # {} \/ event.status \in Drafts
    BY <1>1, <1>4
  <2>3. clobbered # {} => clobbered' # {}
    BY <1>1
  <2>4. request \in [Request -> RequestRow] /\ moves \in 0..MaxMoves /\ {crossed, failed} \subseteq BOOLEAN
    BY DEF Inv, Types, TypeOK
  <2> QED
    BY <1>1, <1>2, <1>3, <2>1, <2>2, <2>3, <2>4, EventTypes DEF Inv
<1>7. ASSUME NEW k \in Handler PROVE HandlerOK(k)'
  <2>1. CASE k = h
    BY <1>1, <1>2, <1>4, <2>1 DEF HandlerOK, At
  <2>2. CASE k # h
    <3>1. HandlerOK(k) /\ handler'[k] = handler[k] /\ UNCHANGED request
      BY <1>1, <1>2, <2>2 DEF Inv
    <3>2. applied \subseteq applied'
      BY <1>1
    <3>3. handler[k].pc \in {"move", "save"} => CopyOK(k)'
      <4>1. handler[k].base.sales \in Nat /\ event.sales \in Nat /\ copy.sales \in Nat
        BY <1>3 DEF Inv, Types, HandlerState, Event
      <4>2. ASSUME clobbered' = {}, handler[k].pc \in {"move", "save"} PROVE handler[k].base.sales <= event'.sales
        <5>1. handler[k].base.sales <= event.sales /\ copy.sales >= event.sales
          BY <1>4, <1>5, <3>1, <4>2 DEF HandlerOK, CopyOK
        <5> QED
          BY <1>1, <4>1, <5>1
      <4> QED
        BY <3>1, <4>2 DEF HandlerOK, CopyOK, At
    <3> QED
      BY <3>1, <3>2, <3>3 DEF HandlerOK, At
  <2> QED
    BY <2>1, <2>2
<1>8. ASSUME NEW q \in Request PROVE RequestOK(q)'
  <2>1. CASE q = r
    <3>1. r # Nothing
      BY <2>1, EventAssumption
    <3>2. Closing(q)'
      BY <1>2, <2>1, <3>1 DEF Closing, At
    <3> QED
      BY <1>1, <1>4, <2>1, <3>1, <3>2 DEF RequestOK
  <2>2. CASE q # r
    <3>1. q \in applied' <=> q \in applied
      BY <1>1, <2>2
    <3>2. Closing(q) => Closing(q)'
      BY <1>1, <1>2 DEF Closing, At
    <3>3. clobbered' = {} /\ event.status = "CANCELLED" => event'.status = "CANCELLED"
      BY <1>1, <1>4, <1>5
    <3> QED
      BY <1>1, <1>5, <3>1, <3>2, <3>3 DEF Inv, RequestOK
  <2> QED
    BY <2>1, <2>2
<1>9. SalesOK'
  <2>1. CASE clobbered' # {} \/ failed
    BY <1>1, <2>1 DEF SalesOK
  <2>2. CASE clobbered' = {} /\ ~failed
    <3>1. clobbered = {} /\ event = base /\ event'.sales = copy.sales /\ catSales' = catSales
      BY <1>1, <1>5, <2>2
    <3>2. event.sales \in Nat /\ event'.sales \in Nat /\ event'.sales >= event.sales
      BY <1>3, <1>4, <3>1 DEF Event
    <3>3. ~Pending(h)' /\ (Pending(h) <=> copy.sales > event.sales)
      BY <1>1, <1>2, <3>1 DEF Pending, At, base, copy
    <3>4. ASSUME NEW k \in Handler, k # h
          PROVE  handler'[k] = handler[k] /\ (Pending(k)' <=> Pending(k)) /\ handler[k].base.sales \in Nat
      BY <1>2, <3>4 DEF Pending, At, Inv, Types, HandlerState, Event
    <3>5. CASE Pending(h) /\ \E k \in Handler : k # h /\ Pending(k)
      <4>1. PICK k \in Handler : k # h /\ Pending(k)
        BY <3>5
      <4>2. handler[k].base.sales <= event.sales
        BY <3>1, <4>1 DEF Inv, HandlerOK, CopyOK, Pending, At
      <4>3. event'.sales > event.sales
        BY <3>1, <3>3, <3>5
      <4>4. handler'[k].base.sales < event'.sales /\ Pending(k)'
        BY <3>2, <3>4, <4>1, <4>2, <4>3
      <4> QED
        BY <4>4 DEF SalesOK
    <3>6. CASE Pending(h) /\ \A k \in Handler : k # h => ~Pending(k)
      <4>1. catSales = event.sales + (copy.sales - event.sales)
        <5>1. handler[h].base = event /\ handler[h].copy = copy
          BY <3>1 DEF base, copy
        <5>2. ~(handler[h].base.sales < event.sales)
          BY <3>2, <5>1
        <5> QED
          BY <2>2, <3>1, <3>6, <5>1, <5>2 DEF Inv, SalesOK
      <4>2. catSales' = event'.sales
        BY <3>1, <3>2, <4>1
      <4>3. \A k \in Handler : ~Pending(k)'
        BY <3>3, <3>4, <3>6
      <4> QED
        BY <4>2, <4>3 DEF SalesOK
    <3>7. CASE ~Pending(h)
      <4>1. event'.sales = event.sales
        BY <3>1, <3>2, <3>3, <3>7
      <4>2. \A k \in Handler : Pending(k)' <=> Pending(k)
        BY <3>3, <3>4, <3>7
      <4>3. \A k \in Handler : Pending(k) => handler'[k] = handler[k]
        BY <3>4, <3>7
      <4> QED
        BY <2>2, <3>1, <4>1, <4>2, <4>3 DEF Inv, SalesOK
    <3> QED
      BY <3>5, <3>6, <3>7
  <2> QED
    BY <2>1, <2>2
<1> QED
  BY <1>6, <1>7, <1>8, <1>9 DEF Inv

LEMMA InvClose ==
  ASSUME Inv, NEW h \in Handler, CloseRequest(h)
  PROVE  Inv'
<1> DEFINE r == handler[h].request
<1>1. /\ handler[h].pc = "close" /\ r \in applied
      /\ request' = [request EXCEPT ![r].status = "APPROVED"]
      /\ UNCHANGED <<event, catSales, order, today, moves, applied, clobbered, crossed, failed, late, tardy>>
  BY DEF CloseRequest, At, Inv, HandlerOK, history
<1>2. /\ handler \in [Handler -> HandlerState] /\ Idle \in HandlerState /\ applied \subseteq Request
      /\ request \in [Request -> RequestRow]
  BY IdleType DEF Inv, Types, TypeOK
<1>3. /\ handler' \in [Handler -> HandlerState] /\ \A k \in Handler : k # h => handler'[k] = handler[k]
      /\ handler'[h].pc \in {"list", "idle"} /\ handler'[h].request = Nothing
  <2>1. [Idle EXCEPT !.pc = "list"] \in HandlerState
    BY <1>2 DEF HandlerState, Pcs
  <2>2. CASE handler[h].op = "cancel"
    BY <1>2, <2>1, <2>2 DEF CloseRequest, Idle
  <2>3. CASE handler[h].op # "cancel"
    BY <1>2, <2>3 DEF CloseRequest, Ends, Idle
  <2> QED
    BY <2>2, <2>3
<1> HIDE DEF r
<1>4. /\ request' \in [Request -> RequestRow] /\ request'[r].status = "APPROVED"
      /\ \A q \in Request : request'[q].kind = request[q].kind /\ (q # r => request'[q] = request[q])
  BY <1>1, <1>2 DEF RequestRow, RequestStatus
<1>5. Types'
  BY <1>1, <1>2, <1>3, <1>4 DEF Inv, Types, TypeOK, HandlerState, Pcs
<1>6. ASSUME NEW k \in Handler PROVE HandlerOK(k)'
  <2>1. CASE k = h
    BY <1>3, <2>1 DEF HandlerOK, At
  <2>2. CASE k # h
    <3>1. HandlerOK(k) /\ handler'[k] = handler[k] /\ handler[k].request \in Request \cup {Nothing}
      BY <1>2, <1>3, <2>2 DEF Inv, HandlerState
    <3>2. handler[k].request # Nothing =>
            /\ request'[handler[k].request].status # "NONE"
            /\ request'[handler[k].request].kind = request[handler[k].request].kind
      BY <1>1, <1>2, <1>4, <3>1 DEF HandlerOK
    <3>3. CopyOK(k) => CopyOK(k)'
      BY <1>1, <3>1 DEF CopyOK, At
    <3> QED
      BY <1>1, <3>1, <3>2, <3>3 DEF HandlerOK, At
  <2> QED
    BY <2>1, <2>2
<1>7. ASSUME NEW q \in Request PROVE RequestOK(q)'
  <2>1. CASE q = r
    BY <1>1, <1>4, <2>1 DEF Inv, RequestOK
  <2>2. CASE q # r
    <3>1. Closing(q) => Closing(q)'
      BY <1>3, <2>2 DEF Closing, At, r
    <3> QED
      BY <1>1, <1>4, <2>2, <3>1 DEF Inv, RequestOK
  <2> QED
    BY <2>1, <2>2
<1>8. \A k \in Handler : (Pending(k)' <=> Pending(k)) /\ (Pending(k) => handler'[k] = handler[k])
  BY <1>1, <1>3 DEF Pending, At
<1>9. SalesOK'
  BY <1>1, <1>8 DEF Inv, SalesOK
<1> QED
  BY <1>5, <1>6, <1>7, <1>9 DEF Inv

LEMMA InvStop ==
  ASSUME Inv, NEW h \in Handler, Stop(h)
  PROVE  Inv'
<1>1. /\ handler' = [handler EXCEPT ![h] = Idle] /\ failed' = TRUE
      /\ UNCHANGED <<event, catSales, request, order, today, applied, clobbered, crossed, late, tardy>>
  BY DEF Stop, Ends, stored
<1>2. handler \in [Handler -> HandlerState] /\ Idle \in HandlerState
  BY IdleType DEF Inv, Types
<1>3. Types'
  <2>1. moves' \in 0..MaxMoves /\ handler' \in [Handler -> HandlerState]
    BY <1>1, <1>2, DecidesType DEF Stop, Inv
  <2> QED
    BY <1>1, <2>1 DEF Inv, Types, TypeOK, HandlerState, Pcs
<1>4. ASSUME NEW k \in Handler PROVE HandlerOK(k)'
  <2>1. CASE k = h
    BY <1>1, <1>2, <2>1 DEF HandlerOK, At, Idle
  <2>2. CASE k # h
    BY <1>1, <1>2, <2>2 DEF Inv, HandlerOK, CopyOK, At
  <2> QED
    BY <2>1, <2>2
<1>5. \A q \in Request : RequestOK(q)'
  BY <1>1 DEF Inv, RequestOK
<1>6. SalesOK'
  BY <1>1 DEF SalesOK
<1> QED
  BY <1>3, <1>4, <1>5, <1>6 DEF Inv

-----------------------------------------------------------------------------
(* Requests and the cron *)

\* A request is made, or decided against.
LEMMA InvRequest ==
  ASSUME Inv, NEW r \in Request,
         \/ \E kind \in {"CANCELLATION", "POSTPONEMENT"}, date \in 0..LastDay : AskChange(r, kind, date)
         \/ InsertRequest(r)
         \/ \E status \in {"WITHDRAWN", "REJECTED"} : DecideAgainst(r, status)
  PROVE  Inv'
<1>1. /\ request \in [Request -> RequestRow] /\ crossed \in BOOLEAN /\ moves \in 0..MaxMoves
      /\ handler \in [Handler -> HandlerState]
  BY DEF Inv, Types, TypeOK
<1>2. /\ UNCHANGED <<event, catSales, order, today, handler, applied, clobbered, failed, late, tardy>>
      /\ moves' \in 0..MaxMoves /\ crossed' \in BOOLEAN /\ (crossed => crossed')
  <2>1. UNCHANGED <<event, catSales, order, today, handler, applied, clobbered, failed, late, tardy>>
    BY DEF AskChange, InsertRequest, DecideAgainst, history
  <2>2. moves' \in 0..MaxMoves
    BY DecidesType DEF Inv, AskChange, InsertRequest, DecideAgainst
  <2>3. crossed' \in BOOLEAN /\ (crossed => crossed')
    BY <1>1 DEF AskChange, InsertRequest, DecideAgainst, history
  <2> QED
    BY <2>1, <2>2, <2>3
<1> DEFINE Changed == /\ request' \in [Request -> RequestRow]
                      /\ \A q \in Request : q # r => request'[q] = request[q]
                      /\ request'[r].status \in {"ASKED", "PENDING", "WITHDRAWN", "REJECTED"}
                      /\ request[r].status # "NONE" => request'[r].kind = request[r].kind
<1>3. Changed
  <2>1. ASSUME NEW kind \in {"CANCELLATION", "POSTPONEMENT"}, NEW date \in 0..LastDay, AskChange(r, kind, date)
        PROVE  Changed
    BY <1>1, <2>1 DEF AskChange, RequestRow, RequestStatus
  <2>3. CASE InsertRequest(r)
    BY <1>1, <2>3 DEF InsertRequest, RequestRow, RequestStatus
  <2>2. ASSUME NEW status \in {"WITHDRAWN", "REJECTED"}, DecideAgainst(r, status)
        PROVE  Changed
    BY <1>1, <2>2 DEF DecideAgainst, RequestRow, RequestStatus
  <2> QED
    BY <2>1, <2>2, <2>3
<1>4. request[r].status = "APPROVED" => crossed'
  BY DEF AskChange, InsertRequest, DecideAgainst
<1>5. Types'
  BY <1>1, <1>2, <1>3 DEF Inv, Types, TypeOK
<1>6. ASSUME NEW k \in Handler PROVE HandlerOK(k)'
  <2>1. handler[k].request \in Request \cup {Nothing} /\ HandlerOK(k)
    BY <1>1 DEF Inv, HandlerState
  <2>2. handler[k].request # Nothing =>
          /\ request'[handler[k].request].status # "NONE"
          /\ request'[handler[k].request].kind = request[handler[k].request].kind
    BY <1>3, <2>1 DEF HandlerOK
  <2>3. CopyOK(k) => CopyOK(k)'
    BY <1>2 DEF CopyOK, At
  <2> QED
    BY <1>2, <2>1, <2>2, <2>3 DEF HandlerOK, At
<1>7. ASSUME NEW q \in Request PROVE RequestOK(q)'
  <2>1. Closing(q) => BeingApproved(q) /\ Closing(q)'
    BY <1>2 DEF Closing, BeingApproved, At
  <2>2. RequestOK(q)
    BY DEF Inv
  <2>3. CASE q = r
    BY <1>2, <1>3, <1>4, <2>1, <2>2, <2>3 DEF RequestOK
  <2>4. CASE q # r
    BY <1>2, <1>3, <2>1, <2>2, <2>4 DEF RequestOK
  <2> QED
    BY <2>3, <2>4
<1>8. SalesOK'
  BY <1>2 DEF Inv, SalesOK, Pending, At
<1> QED
  BY <1>5, <1>6, <1>7, <1>8 DEF Inv

LEMMA InvCron ==
  ASSUME Inv, TerminatePastEvents \/ ArchiveOldTerminatedEvents
  PROVE  Inv'
<1>1. /\ UNCHANGED <<catSales, request, order, today, handler, moves, applied, clobbered, crossed, failed, late, tardy>>
      /\ event.status # "CANCELLED" /\ \E s \in {"TERMINATED", "ARCHIVED"} : event' = Becomes(s)
  BY DEF TerminatePastEvents, ArchiveOldTerminatedEvents, history
<1>2. event' \in Event /\ event'.sales = event.sales /\ event'.status \notin Drafts
  <2>1. event \in Event
    BY DEF Inv, Types, TypeOK
  <2> QED
    BY <1>1, <2>1, BecomesType DEF EventStatus, Drafts
<1>3. Types'
  BY <1>1, <1>2 DEF Inv, Types, TypeOK, Drafts
<1>4. \A k \in Handler : HandlerOK(k)'
  BY <1>1, <1>2 DEF Inv, HandlerOK, CopyOK, At
<1>5. \A q \in Request : RequestOK(q)'
  BY <1>1 DEF Inv, RequestOK, Closing, At
<1>6. SalesOK'
  BY <1>1, <1>2 DEF Inv, SalesOK, Pending, At
<1> QED
  BY <1>3, <1>4, <1>5, <1>6 DEF Inv

LEMMA InvStep == Inv /\ [Next]_vars => Inv'
<1> SUFFICES ASSUME Inv, [Next]_vars PROVE Inv'
  OBVIOUS
<1>1. ASSUME NEW h \in Handler, Continue(h) PROVE Inv'
  BY <1>1, InvMove, InvSave, InvClose, InvCascade, InvRenounce DEF Continue
<1>2. ASSUME NEW h \in Handler, Decision(h) PROVE Inv'
  BY <1>2, InvDecision, InvStop, InvApprove, InvRenounce DEF Decision
<1>3. ASSUME NEW r \in Request,
             \/ DecideAgainst(r, "WITHDRAWN") \/ DecideAgainst(r, "REJECTED") \/ AskChange(r, "CANCELLATION", 0)
             \/ InsertRequest(r) \/ \E date \in 0..LastDay : AskChange(r, "POSTPONEMENT", date)
      PROVE  Inv'
  <2>1. 0 \in 0..LastDay
    BY EventAssumption
  <2> QED
    BY <1>3, <2>1, InvRequest
<1>4. CASE NextDay \/ \E o \in Order : PlaceOrder(o) \/ ConfirmPayment(o) \/ GenerateTickets(o)
  BY <1>4, InvBuyers
<1>5. CASE TerminatePastEvents \/ ArchiveOldTerminatedEvents
  BY <1>5, InvCron
<1>6. CASE UNCHANGED vars
  BY <1>6 DEF vars, Inv, Types, TypeOK, HandlerOK, CopyOK, RequestOK, Closing, SalesOK, Pending, At
<1> QED
  BY <1>1, <1>2, <1>3, <1>4, <1>5, <1>6 DEF Next

\* The invariant holds from the start and at every step.
LEMMA InvAlways == Spec => []Inv
  BY InvInit, InvStep, PTL DEF Spec

\* The rows of an event, its requests and its orders keep their shapes, and an
\* event somebody bought tickets for is a draft again only by an old copy.
THEOREM TypeCorrect == Spec => []TypeOK
<1>1. Inv => TypeOK
  BY DEF Inv, Types
<1> QED
  BY <1>1, InvAlways, PTL

\* Between decisions, unless two of them crossed: approved requests were applied
\* and applied ones approved, an event whose cancellation was approved stays
\* cancelled, and the sales of the categories end with those of the event.
THEOREM RequestsAlwaysAgree == Spec => []RequestsAgree
<1>1. Inv => RequestsAgree
  <2> SUFFICES ASSUME Inv, ~InApproval, clobbered = {}, ~crossed
      PROVE  /\ \A r \in Request :
                  /\ request[r].status = "APPROVED" => r \in applied
                  /\ r \in applied => request[r].status = "APPROVED" \/ failed
                  /\ r \in applied /\ request[r].kind = "CANCELLATION" => event.status = "CANCELLED"
             /\ catSales = event.sales \/ failed
    BY DEF RequestsAgree
  <2>1. \A r \in Request : RequestOK(r) /\ ~Closing(r)
    BY DEF Inv, InApproval, Closing, At
  <2>2. \A h \in Handler : ~Pending(h)
    BY DEF InApproval, Pending, At
  <2> QED
    BY <2>1, <2>2 DEF Inv, RequestOK, SalesOK
<1> QED
  BY <1>1, InvAlways, PTL
=============================================================================
