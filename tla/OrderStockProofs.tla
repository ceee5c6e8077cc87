-------------------------- MODULE OrderStockProofs --------------------------
(***************************************************************************)
(* For any number of orders, categories and concurrent handlers, any quota *)
(* and any subset of the faults: OrderStock keeps its types, the statuses  *)
(* of an order agree, payments only go forward, and the stock counter      *)
(* balances.  Without faults, it implements AtomicOrders.                  *)
(*                                                                         *)
(* The invariants are not inductive alone: what a handler will write       *)
(* depends on what it holds in its local variables.  HandlerOK says what   *)
(* each phase of a handler implies about the lines it holds; with it, each *)
(* action either moves a holder from one set to another or adds or removes *)
(* one, and the lemmas on Places say what that does to the sum.            *)
(***************************************************************************)
EXTENDS OrderStock, QuotaCounterProofs

-----------------------------------------------------------------------------
(* What a handler's phase says of its local variables *)

HandlerOK(k) ==
  /\ k.phase = "idle" => k = Idle
  /\ k.phase # "idle" => k.order \in Order /\ k.todo \cup k.lines \subseteq Lines(k.order)
  /\ k.phase = "take" => /\ k.seen.status = "CANCELLED"
                         /\ k.todo \cap k.lines = {}
                         /\ k.todo \cup k.lines = Lines(k.order)
  /\ k.phase = "cas" => \/ k.seen.status = "PENDING_PAYMENT" /\ k.lines = {}
                        \/ k.seen.status = "CANCELLED" /\ k.lines = Lines(k.order)
  /\ k.phase \in {"reread", "save"} => k.lines = {}
  /\ k.phase = "save" => k.order \in PartlyRefundable
  /\ Agree(k.seen)

HandlersOK == \A w \in Worker : HandlerOK(worker[w])
BatchOK == \A o \in Order : Agree(batch[o]) /\ (batch[o] # Absent => o \in Reminded)

Inv == TypeOK /\ HandlersOK /\ StatusesAgree /\ BatchOK

LEMMA LinesType == \A o \in Order : Lines(o) \in SUBSET Category
  BY DEF Lines

LEMMA IdleOK == Idle \in WorkerState /\ HandlerOK(Idle) /\ Absent \in Row /\ Agree(Absent)
  BY DEF Idle, WorkerState, Phase, Absent, Row, OrderStatus, PaymentStatus, HandlerOK, Agree

\* A handler that has lines to give back.
LEMMA GivingBackOK ==
  ASSUME NEW k \in WorkerState, NEW p \in {"back", "redo"},
         k.order \in Order, k.lines \subseteq Lines(k.order), Agree(k.seen)
  PROVE  /\ GivingBack(k, p) \in WorkerState
         /\ HandlerOK(GivingBack(k, p))
         /\ GivingBack(k, p).lines = k.lines
         /\ k.lines # {} => GivingBack(k, p).order = k.order
<1>1. CASE k.lines # {}
  <2>1. GivingBack(k, p) = [k EXCEPT !.phase = p, !.todo = {}]
    BY <1>1 DEF GivingBack
  <2> QED
    BY <2>1, <1>1 DEF WorkerState, Phase, HandlerOK
<1>2. CASE k.lines = {} /\ p = "redo"
  <2>1. GivingBack(k, p) = [k EXCEPT !.phase = "reread", !.todo = {}]
    BY <1>2 DEF GivingBack
  <2> QED
    BY <2>1, <1>2 DEF WorkerState, Phase, HandlerOK
<1>3. CASE k.lines = {} /\ p = "back"
  <2>1. GivingBack(k, p) = Idle
    BY <1>3 DEF GivingBack
  <2> QED
    BY <2>1, <1>3, IdleOK DEF Idle
<1> QED
  BY <1>1, <1>2, <1>3

\* A handler that has just read the order it confirms.
LEMMA AfterReadOK ==
  ASSUME TypeOK, StatusesAgree, NEW o \in Order, NEW retry \in BOOLEAN
  PROVE  /\ AfterRead(o, retry) \in WorkerState
         /\ HandlerOK(AfterRead(o, retry))
         /\ AfterRead(o, retry).lines = {}
<1> DEFINE k == [Idle EXCEPT !.order = o, !.seen = row[o], !.retry = retry]
<1>1. row[o] \in Row /\ Agree(row[o]) /\ Lines(o) \in SUBSET Category
  BY LinesType DEF TypeOK, StatusesAgree
<1>2. CASE AfterRead(o, retry) = Idle
  BY <1>2, IdleOK DEF Idle
<1>3. CASE row[o].status = "PENDING_PAYMENT" /\ AfterRead(o, retry) = [k EXCEPT !.phase = "cas"]
  BY <1>1, <1>3 DEF Idle, WorkerState, Phase, HandlerOK
<1>4. CASE /\ row[o].status = "CANCELLED"
           /\ AfterRead(o, retry) =
                [k EXCEPT !.phase = IF Lines(o) = {} THEN "cas" ELSE "take", !.todo = Lines(o)]
  <2> DEFINE r == AfterRead(o, retry)
  <2>1. /\ r.order = o /\ r.seen = row[o] /\ r.lines = {} /\ r.todo = Lines(o)
        /\ r.phase = IF Lines(o) = {} THEN "cas" ELSE "take"
        /\ r \in WorkerState
    BY <1>1, <1>4 DEF Idle, WorkerState, Phase
  <2> HIDE DEF r
  <2>2. HandlerOK(r)
    BY <2>1, <1>1, <1>4 DEF HandlerOK
  <2> QED
    BY <2>1, <2>2 DEF r
<1> QED
  BY <1>2, <1>3, <1>4 DEF AfterRead

\* A handler that has just taken an order out of sale.
LEMMA ReleasingOK ==
  ASSUME NEW o \in Order
  PROVE  LET k == [Idle EXCEPT !.order = o, !.lines = Lines(o)] IN
         /\ GivingBack(k, "back") \in WorkerState
         /\ HandlerOK(GivingBack(k, "back"))
         /\ GivingBack(k, "back").lines = Lines(o)
         /\ Lines(o) # {} => GivingBack(k, "back").order = o
<1> DEFINE k == [Idle EXCEPT !.order = o, !.lines = Lines(o)]
<1>1. k \in WorkerState /\ k.order = o /\ k.lines = Lines(o) /\ Agree(k.seen)
  BY LinesType, IdleOK DEF Idle, WorkerState, Phase
<1>2. k.order \in Order /\ k.lines \subseteq Lines(k.order)
  BY <1>1
<1> HIDE DEF k
<1>3. /\ GivingBack(k, "back") \in WorkerState
      /\ HandlerOK(GivingBack(k, "back"))
      /\ GivingBack(k, "back").lines = k.lines
      /\ k.lines # {} => GivingBack(k, "back").order = k.order
  BY <1>1, <1>2, GivingBackOK
<1> QED
  BY <1>1, <1>3 DEF k

-----------------------------------------------------------------------------
(* Each action preserves Inv *)

\* A step that changes at most one handler's local state, to a good one.
LEMMA HandlerMoves ==
  ASSUME Inv, NEW w \in Worker, NEW k \in WorkerState, HandlerOK(k),
         worker' = [worker EXCEPT ![w] = k]
  PROVE  worker' \in [Worker -> WorkerState] /\ HandlersOK'
  BY DEF Inv, TypeOK, HandlersOK

LEMMA InvInit == Init => Inv
  BY IdleOK, QuotaAssumption DEF Init, Inv, TypeOK, HandlersOK, StatusesAgree, BatchOK

LEMMA InvWorkerStep ==
  ASSUME Inv, NEW w \in Worker, WorkerStep(w)
  PROVE  Inv'
<1> DEFINE k == worker[w]
<1>1. k \in WorkerState /\ HandlerOK(k) /\ Agree(k.seen)
  BY DEF Inv, TypeOK, HandlersOK, HandlerOK
<1>2. ASSUME k.phase \in {"back", "redo"}, NEW L \in SUBSET k.lines,
             worker' = [worker EXCEPT ![w] = GivingBack([k EXCEPT !.lines = L], k.phase)]
      PROVE  worker' \in [Worker -> WorkerState] /\ HandlersOK'
  <2> DEFINE n == [k EXCEPT !.lines = L]
  <2>1. n \in WorkerState /\ n.order \in Order /\ n.lines \subseteq Lines(n.order) /\ Agree(n.seen)
    BY <1>1, <1>2 DEF WorkerState, HandlerOK
  <2> HIDE DEF n
  <2>2. GivingBack(n, k.phase) \in WorkerState /\ HandlerOK(GivingBack(n, k.phase))
    BY <2>1, <1>2, GivingBackOK
  <2> QED
    BY <2>2, <1>2, HandlerMoves DEF n
<1>3. ASSUME k.phase \in {"take", "cas"}, NEW p \in {"back", "redo"},
             worker' = [worker EXCEPT ![w] = GivingBack(k, p)]
      PROVE  worker' \in [Worker -> WorkerState] /\ HandlersOK'
  <2>1. k.order \in Order /\ k.lines \subseteq Lines(k.order)
    BY <1>1, <1>3 DEF HandlerOK
  <2>2. GivingBack(k, p) \in WorkerState /\ HandlerOK(GivingBack(k, p))
    BY <2>1, <1>1, GivingBackOK
  <2> QED
    BY <2>2, <1>3, HandlerMoves
<1>4. ASSUME k.phase # "idle" PROVE k.order \in Order /\ \A c \in Category : Qty[k.order][c] \in Nat
  BY <1>1, <1>4, QtyAssumption DEF HandlerOK
<1>5. ASSUME NEW c \in Category, GiveBack(w, c) PROVE Inv'
  <2>1. worker' \in [Worker -> WorkerState] /\ HandlersOK'
    <3>1. k.lines \ {c} \in SUBSET k.lines
      OBVIOUS
    <3> QED
      BY <1>2, <1>5, <3>1, <1>1 DEF GiveBack, WorkerState
  <2>2. remaining' \in [Category -> Nat]
    BY <1>4, <1>5, CounterOK DEF Inv, TypeOK, GiveBack
  <2> QED
    BY <2>1, <2>2, <1>5 DEF GiveBack, Inv, TypeOK, StatusesAgree, BatchOK
<1>6. ASSUME NEW c \in Category, GiveBackLost(w, c) PROVE Inv'
  <2>1. worker' \in [Worker -> WorkerState] /\ HandlersOK'
    <3>1. k.lines \ {c} \in SUBSET k.lines
      OBVIOUS
    <3> QED
      BY <1>2, <1>6, <3>1, <1>1 DEF GiveBackLost, WorkerState
  <2> QED
    BY <2>1, <1>6 DEF GiveBackLost, Inv, TypeOK, StatusesAgree, BatchOK
<1>7. ASSUME NEW c \in Category, RetakeLine(w, c) PROVE Inv'
  <2> DEFINE n == [k EXCEPT !.todo = @ \ {c}, !.lines = @ \cup {c},
                            !.phase = IF k.todo = {c} THEN "cas" ELSE "take"]
  <2>1. /\ n.order = k.order /\ n.seen = k.seen
        /\ n.todo = k.todo \ {c} /\ n.lines = k.lines \cup {c}
        /\ n.phase = IF k.todo = {c} THEN "cas" ELSE "take"
        /\ n \in WorkerState
    BY <1>1, <1>7 DEF RetakeLine, WorkerState, Phase
  <2>2. worker' = [worker EXCEPT ![w] = n]
    BY <1>7 DEF RetakeLine
  <2> HIDE DEF n
  <2>3. HandlerOK(n)
    BY <2>1, <1>1, <1>7 DEF RetakeLine, HandlerOK
  <2>4. worker' \in [Worker -> WorkerState] /\ HandlersOK'
    BY <2>1, <2>2, <2>3, HandlerMoves
  <2>5. remaining' \in [Category -> Nat]
    BY <1>4, <1>7, CounterOK DEF Inv, TypeOK, RetakeLine
  <2> QED
    BY <2>4, <2>5, <1>7 DEF RetakeLine, Inv, TypeOK, StatusesAgree, BatchOK
<1>8. ASSUME NEW c \in Category, RetakeRefused(w, c) PROVE Inv'
  <2>1. worker' \in [Worker -> WorkerState] /\ HandlersOK'
    BY <1>3, <1>8 DEF RetakeRefused
  <2> QED
    BY <2>1, <1>8 DEF RetakeRefused, Inv, TypeOK, StatusesAgree, BatchOK
<1>9. ASSUME NEW c \in Category, RetakeReplyLost(w, c) PROVE Inv'
  <2>1. worker' \in [Worker -> WorkerState] /\ HandlersOK'
    BY <1>3, <1>9 DEF RetakeReplyLost
  <2>2. remaining' \in [Category -> Nat]
    BY <1>4, <1>9, CounterOK DEF Inv, TypeOK, RetakeReplyLost
  <2> QED
    BY <2>1, <2>2, <1>9 DEF RetakeReplyLost, Inv, TypeOK, StatusesAgree, BatchOK
<1>10. CASE ConfirmCas(w)
  <2>1. worker' \in [Worker -> WorkerState] /\ HandlersOK'
    BY <1>10, IdleOK, HandlerMoves DEF ConfirmCas
  <2>2. row' = [row EXCEPT ![k.order] = [status |-> "CONFIRMED", pay |-> "PAID"]]
    BY <1>10 DEF ConfirmCas
  <2>3. row' \in [Order -> Row] /\ StatusesAgree'
    BY <2>2 DEF Inv, TypeOK, StatusesAgree, Agree, Row, OrderStatus, PaymentStatus
  <2> QED
    BY <2>1, <2>3, <1>10 DEF ConfirmCas, Inv, TypeOK, BatchOK
<1>11. CASE ConfirmCasFails(w)
  <2>1. worker' \in [Worker -> WorkerState] /\ HandlersOK'
    BY <1>3, <1>11 DEF ConfirmCasFails
  <2> QED
    BY <2>1, <1>11 DEF ConfirmCasFails, Inv, TypeOK, StatusesAgree, BatchOK
<1>12. CASE ConfirmReread(w)
  <2>1. k.order \in Order
    BY <1>4, <1>12 DEF ConfirmReread
  <2>2. worker' \in [Worker -> WorkerState] /\ HandlersOK'
    BY <2>1, <1>12, AfterReadOK, HandlerMoves DEF ConfirmReread, Inv
  <2> QED
    BY <2>2, <1>12 DEF ConfirmReread, Inv, TypeOK, StatusesAgree, BatchOK
<1>13. CASE PartialRefundSave(w)
  <2>1. worker' \in [Worker -> WorkerState] /\ HandlersOK'
    BY <1>13, IdleOK, HandlerMoves DEF PartialRefundSave
  <2>2. row' = [row EXCEPT ![k.order] = k.seen] /\ k.seen \in Row
    BY <1>1, <1>13 DEF PartialRefundSave, WorkerState
  <2>3. row' \in [Order -> Row] /\ StatusesAgree'
    BY <2>2, <1>1 DEF Inv, TypeOK, StatusesAgree
  <2> QED
    BY <2>1, <2>3, <1>13 DEF PartialRefundSave, Inv, TypeOK, BatchOK
<1> QED
  BY <1>5, <1>6, <1>7, <1>8, <1>9, <1>10, <1>11, <1>12, <1>13 DEF WorkerStep

LEMMA InvOrderStep ==
  ASSUME Inv, NEW o \in Order, OrderStep(o)
  PROVE  Inv'
<1>1. row[o] \in Row /\ Agree(row[o]) /\ Lines(o) \in SUBSET Category
  BY LinesType DEF Inv, TypeOK, StatusesAgree
<1>2. \A r \in Row : Agree(r) /\ row' = [row EXCEPT ![o] = r]
                      => row' \in [Order -> Row] /\ StatusesAgree'
  BY DEF Inv, TypeOK, StatusesAgree
<1>3. ASSUME NEW w \in Worker, Releasing(w, o)
      PROVE  worker' \in [Worker -> WorkerState] /\ HandlersOK'
  BY <1>3, ReleasingOK, HandlerMoves DEF Releasing
<1>4. CASE PlaceOrder(o)
  <2>1. \A c \in Category : Qty[o][c] \in Nat /\ remaining[c] \in Nat
    BY QtyAssumption DEF Inv, TypeOK
  <2>2. remaining' \in [Category -> Nat]
    BY <1>4, <2>1 DEF PlaceOrder
  <2>3. row' \in [Order -> Row] /\ StatusesAgree'
    BY <1>2, <1>4 DEF PlaceOrder, Agree, Row, OrderStatus, PaymentStatus
  <2> QED
    BY <2>2, <2>3, <1>4 DEF PlaceOrder, Inv, TypeOK, HandlersOK, BatchOK
<1>5. CASE DeadlinePasses(o)
  BY <1>5 DEF DeadlinePasses, Inv, TypeOK, HandlersOK, StatusesAgree, BatchOK
<1>6. CASE ReleaseAbandoned(o)
  <2>1. worker' \in [Worker -> WorkerState] /\ HandlersOK'
    BY <1>3, <1>6, SetsAssumption DEF ReleaseAbandoned
  <2>2. row' \in [Order -> Row] /\ StatusesAgree'
    BY <1>1, <1>2, <1>6 DEF ReleaseAbandoned, Agree, Row, OrderStatus, PaymentStatus
  <2> QED
    BY <2>1, <2>2, <1>6 DEF ReleaseAbandoned, Inv, TypeOK, BatchOK
<1>7. CASE MarkLatePaymentRefunded(o)
  <2>1. row' \in [Order -> Row] /\ StatusesAgree'
    BY <1>2, <1>7 DEF MarkLatePaymentRefunded, Agree, Row, OrderStatus, PaymentStatus
  <2> QED
    BY <2>1, <1>7 DEF MarkLatePaymentRefunded, Inv, TypeOK, HandlersOK, BatchOK
<1>8. CASE MarkTicketsSent(o)
  <2>1. row' \in [Order -> Row] /\ StatusesAgree'
    BY <1>1, <1>2, <1>8 DEF MarkTicketsSent, Agree, Row, OrderStatus, PaymentStatus
  <2> QED
    BY <2>1, <1>8 DEF MarkTicketsSent, Inv, TypeOK, HandlersOK, BatchOK
<1>9. ASSUME NEW w \in Worker, ConfirmRead(w, o) PROVE Inv'
  <2>1. worker' \in [Worker -> WorkerState] /\ HandlersOK'
    BY <1>9, AfterReadOK, HandlerMoves DEF ConfirmRead, Inv
  <2> QED
    BY <2>1, <1>9 DEF ConfirmRead, Inv, TypeOK, StatusesAgree, BatchOK
<1>10. ASSUME NEW w \in Worker, Cancel(w, o) PROVE Inv'
  <2>1. worker' \in [Worker -> WorkerState] /\ HandlersOK'
    BY <1>3, <1>10 DEF Cancel
  <2>2. row' \in [Order -> Row] /\ StatusesAgree'
    BY <1>1, <1>2, <1>10 DEF Cancel, Agree, Row, OrderStatus, PaymentStatus
  <2> QED
    BY <2>1, <2>2, <1>10 DEF Cancel, Inv, TypeOK, BatchOK
<1>11. ASSUME NEW w \in Worker, MarkRefunded(w, o) PROVE Inv'
  <2>1. worker' \in [Worker -> WorkerState] /\ HandlersOK'
    BY <1>3, <1>11 DEF MarkRefunded
  <2>2. row' \in [Order -> Row] /\ StatusesAgree'
    BY <1>2, <1>11 DEF MarkRefunded, Agree, Row, OrderStatus, PaymentStatus
  <2> QED
    BY <2>1, <2>2, <1>11 DEF MarkRefunded, Inv, TypeOK, BatchOK
<1>12. ASSUME NEW w \in Worker, PartialRefundRead(w, o) PROVE Inv'
  <2> DEFINE k == [Idle EXCEPT !.order = o, !.phase = "save", !.seen = row[o]]
  <2>1. k \in WorkerState /\ HandlerOK(k)
    BY <1>1, <1>12 DEF PartialRefundRead, Idle, WorkerState, Phase, HandlerOK
  <2>2. worker' = [worker EXCEPT ![w] = k]
    BY <1>12 DEF PartialRefundRead
  <2> HIDE DEF k
  <2>3. worker' \in [Worker -> WorkerState] /\ HandlersOK'
    BY <2>1, <2>2, HandlerMoves
  <2> QED
    BY <2>3, <1>12 DEF PartialRefundRead, Inv, TypeOK, StatusesAgree, BatchOK
<1>13. ASSUME NEW c \in Category, TicketResold(o, c) PROVE Inv'
  BY <1>13 DEF TicketResold, Inv, TypeOK, HandlersOK, StatusesAgree, BatchOK
<1> QED
  BY <1>4, <1>5, <1>6, <1>7, <1>8, <1>9, <1>10, <1>11, <1>12, <1>13 DEF OrderStep

LEMMA InvReminder ==
  ASSUME Inv, ReminderFind \/ ReminderSave
  PROVE  Inv'
<1>1. CASE ReminderFind
  <2>1. batch' \in [Order -> Row] /\ BatchOK'
    BY <1>1, IdleOK DEF ReminderFind, ToRemind, Inv, TypeOK, StatusesAgree, BatchOK
  <2> QED
    BY <2>1, <1>1 DEF ReminderFind, Inv, TypeOK, HandlersOK, StatusesAgree
<1>2. CASE ReminderSave
  <2>1. batch' \in [Order -> Row] /\ BatchOK'
    BY <1>2, IdleOK DEF ReminderSave, Inv, BatchOK
  <2>2. row' \in [Order -> Row] /\ StatusesAgree'
    BY <1>2 DEF ReminderSave, Inv, TypeOK, StatusesAgree, BatchOK
  <2> QED
    BY <2>1, <2>2, <1>2 DEF ReminderSave, Inv, TypeOK, HandlersOK
<1> QED
  BY <1>1, <1>2

LEMMA InvCrash ==
  ASSUME Inv, NEW w \in Worker, Crash(w)
  PROVE  Inv'
<1>1. worker' \in [Worker -> WorkerState] /\ HandlersOK'
  BY IdleOK, HandlerMoves DEF Crash
<1> QED
  BY <1>1 DEF Crash, Inv, TypeOK, StatusesAgree, BatchOK

LEMMA InvStep == Inv /\ [Next]_vars => Inv'
<1>1. ASSUME Inv, UNCHANGED vars PROVE Inv'
  BY <1>1 DEF vars, Inv, TypeOK, HandlersOK, StatusesAgree, BatchOK
<1> QED
  BY <1>1, InvWorkerStep, InvCrash, InvOrderStep, InvReminder DEF Next

LEMMA Invariant == Spec => []Inv
  BY InvInit, InvStep, PTL DEF Spec

\* The variables of OrderStock keep their types (order-service's rows and
\* handlers, event-service's counter), whatever fails or is overwritten.
THEOREM TypeCorrect == Spec => []TypeOK
<1>1. Inv => TypeOK
  BY DEF Inv
<1> QED
  BY <1>1, Invariant, PTL

\* status and payment_status of an order, written by five handlers and two
\* whole-row saves, never contradict each other.
THEOREM StatusesAlwaysAgree == Spec => []StatusesAgree
<1>1. Inv => StatusesAgree
  BY DEF Inv
<1> QED
  BY <1>1, Invariant, PTL

-----------------------------------------------------------------------------
(* Payments only go forward *)

\* What one step does to the row of an order that no old copy overwrites.
LEMMA RowStep ==
  ASSUME Inv, Next, NEW o \in Order \ (PartlyRefundable \cup Reminded)
  PROVE  \/ row'[o] = row[o]
         \/ row[o] = Absent /\ row'[o] = [status |-> "PENDING_PAYMENT", pay |-> "PENDING"]
         \/ row[o].status \in {"PENDING_PAYMENT", "CANCELLED"}
            /\ row'[o] = [status |-> "CONFIRMED", pay |-> "PAID"]
         \/ row[o].status = "PENDING_PAYMENT" /\ row'[o] = [row[o] EXCEPT !.status = "CANCELLED"]
         \/ row[o].status = "CONFIRMED" /\ row'[o] = [row[o] EXCEPT !.status = "TICKETS_SENT"]
         \/ /\ row[o].status \notin {"NONE", "REFUNDED"}
            /\ row'[o] = [status |-> "REFUNDED", pay |-> "REFUNDED"]
<1>1. ASSUME NEW w \in Worker, WorkerStep(w) PROVE row'[o] = row[o] \/
        /\ row[o].status \in {"PENDING_PAYMENT", "CANCELLED"}
        /\ row'[o] = [status |-> "CONFIRMED", pay |-> "PAID"]
  <2>1. CASE ConfirmCas(w)
    BY <2>1 DEF ConfirmCas, CasHolds, Inv, TypeOK, HandlersOK, HandlerOK
  <2>2. CASE PartialRefundSave(w)
    BY <2>2 DEF PartialRefundSave, Inv, TypeOK, HandlersOK, HandlerOK
  <2>3. CASE UNCHANGED row
    BY <2>3
  <2> QED
    BY <1>1, <2>1, <2>2, <2>3 DEF WorkerStep, GiveBack, GiveBackLost, RetakeLine, RetakeRefused,
       RetakeReplyLost, ConfirmCasFails, ConfirmReread
<1>2. CASE ReminderSave
  BY <1>2 DEF ReminderSave, Inv, TypeOK, BatchOK
<1>3. ASSUME NEW p \in Order, p # o, OrderStep(p) PROVE row'[o] = row[o]
  BY <1>3 DEF OrderStep, PlaceOrder, DeadlinePasses, ReleaseAbandoned, MarkLatePaymentRefunded,
     MarkTicketsSent, ConfirmRead, Cancel, MarkRefunded, PartialRefundRead, TicketResold, Inv, TypeOK
<1>4. CASE OrderStep(o)
  <2>1. CASE PlaceOrder(o)
    BY <2>1 DEF PlaceOrder, Inv, TypeOK
  <2>2. CASE ReleaseAbandoned(o) \/ \E w \in Worker : Cancel(w, o)
    BY <2>2 DEF ReleaseAbandoned, Cancel, Inv, TypeOK
  <2>3. CASE MarkLatePaymentRefunded(o) \/ \E w \in Worker : MarkRefunded(w, o)
    BY <2>3 DEF MarkLatePaymentRefunded, MarkRefunded, Inv, TypeOK
  <2>4. CASE MarkTicketsSent(o)
    BY <2>4 DEF MarkTicketsSent, Inv, TypeOK
  <2>5. CASE UNCHANGED row
    BY <2>5
  <2> QED
    BY <1>4, <2>1, <2>2, <2>3, <2>4, <2>5
       DEF OrderStep, DeadlinePasses, ConfirmRead, PartialRefundRead, TicketResold
<1>5. CASE UNCHANGED row
  BY <1>5
<1> QED
  BY <1>1, <1>2, <1>3, <1>4, <1>5 DEF Next, Crash, ReminderFind

LEMMA RankOf == Rank["PENDING"] = 0 /\ Rank["PAID"] = 1 /\ Rank["REFUNDED"] = 2
  BY DEF Rank

\* An order goes from unpaid to paid to refunded and never back; a refund is
\* final and a paid order is never cancelled -- for every order whose row no
\* handler saves from an old copy.
THEOREM PaymentNeverGoesBack == Spec => PaymentGoesForward
<1> DEFINE Forward == \A o \in Order \ (PartlyRefundable \cup Reminded) :
                        /\ Rank[row[o].pay] <= Rank[row'[o].pay]
                        /\ row[o].pay = "PAID" => row'[o].status # "CANCELLED"
                        /\ row[o].status = "REFUNDED" => row'[o] = row[o]
<1>1. Inv /\ [Next]_vars => [Forward]_vars
  <2> SUFFICES ASSUME Inv, Next, NEW o \in Order \ (PartlyRefundable \cup Reminded)
               PROVE  /\ Rank[row[o].pay] <= Rank[row'[o].pay]
                      /\ row[o].pay = "PAID" => row'[o].status # "CANCELLED"
                      /\ row[o].status = "REFUNDED" => row'[o] = row[o]
    OBVIOUS
  <2>1. row[o] \in Row /\ Agree(row[o])
    BY DEF Inv, TypeOK, StatusesAgree
  <2>2. Rank[row[o].pay] \in 0..2
    BY <2>1, RankOf DEF Row, PaymentStatus
  <2>3. row[o].pay = "PAID" => row[o].status \in {"CONFIRMED", "TICKETS_SENT"}
    BY <2>1 DEF Agree
  <2>4. row[o].status \in {"NONE", "PENDING_PAYMENT", "CANCELLED"} => Rank[row[o].pay] = 0
    BY <2>1, RankOf DEF Agree, Row, PaymentStatus
  <2>5. CASE row'[o] = row[o]
    BY <2>2, <2>3, <2>5
  <2>6. CASE row[o] = Absent /\ row'[o] = [status |-> "PENDING_PAYMENT", pay |-> "PENDING"]
    <3>1. row'[o].pay = "PENDING" /\ row[o].pay = "PENDING" /\ row[o].status = "NONE"
      BY <2>6 DEF Absent
    <3> QED
      BY <3>1, RankOf
  <2>7. CASE /\ row[o].status \in {"PENDING_PAYMENT", "CANCELLED"}
             /\ row'[o] = [status |-> "CONFIRMED", pay |-> "PAID"]
    <3>1. row'[o].pay = "PAID" /\ row'[o].status = "CONFIRMED"
      BY <2>7
    <3>2. Rank[row[o].pay] = 0 /\ Rank[row'[o].pay] = 1
      BY <3>1, <2>4, <2>7, RankOf
    <3> QED
      BY <3>1, <3>2, <2>7
  <2>8. CASE /\ row[o].status = "PENDING_PAYMENT"
             /\ row'[o] = [row[o] EXCEPT !.status = "CANCELLED"]
    <3>1. row'[o].pay = row[o].pay
      BY <2>1, <2>8 DEF Row
    <3>2. row[o].pay = "PENDING"
      BY <2>1, <2>8 DEF Row, PaymentStatus, Agree
    <3> QED
      BY <3>1, <3>2, <2>8, RankOf
  <2>9. CASE /\ row[o].status = "CONFIRMED"
             /\ row'[o] = [row[o] EXCEPT !.status = "TICKETS_SENT"]
    <3>1. row'[o].pay = row[o].pay /\ row'[o].status = "TICKETS_SENT"
      BY <2>1, <2>9 DEF Row
    <3>2. row[o].pay = "PAID"
      BY <2>1, <2>9 DEF Agree
    <3> QED
      BY <3>1, <3>2, <2>9, RankOf
  <2>10. CASE /\ row[o].status # "REFUNDED"
              /\ row'[o] = [status |-> "REFUNDED", pay |-> "REFUNDED"]
    <3>1. row'[o].pay = "REFUNDED" /\ row'[o].status = "REFUNDED"
      BY <2>10
    <3>2. Rank[row'[o].pay] = 2
      BY <3>1, RankOf
    <3> QED
      BY <3>1, <3>2, <2>2, <2>10
  <2> QED
    BY RowStep, <2>5, <2>6, <2>7, <2>8, <2>9, <2>10
<1> QED
  BY <1>1, Invariant, PTL DEF Spec, PaymentGoesForward

-----------------------------------------------------------------------------
(* Counting places *)

Holder == (Worker \cup {NoWorker}) \X Order
LEMMA HolderCountable ==
  ASSUME NEW c \in Category, NEW H \in SUBSET Holder
  PROVE  Countable(H, c)
<1>1. IsFiniteSet(Worker \cup {NoWorker}) /\ IsFiniteSet(Order)
  BY SetsAssumption, FS_AddElement
<1>2. IsFiniteSet(Holder)
  BY <1>1, FS_Product DEF Holder
<1> QED
  BY <1>2, FS_Subset, QtyAssumption DEF Countable, Holder

-----------------------------------------------------------------------------
(* Who holds places, and how a step changes it *)

OrderHolds(o, c) == c \in Lines(o) /\ row[o].status \in Holding
HandlerHolds(w, o, c) == c \in worker[w].lines /\ worker[w].order = o
Holds(h, c) == IF h[1] = NoWorker THEN OrderHolds(h[2], c) ELSE HandlerHolds(h[1], h[2], c)

LEMMA HoldersAre == Inv => \A c \in Category : Holders(c) = {h \in Holder : Holds(h, c)}
<1> SUFFICES ASSUME Inv, NEW c \in Category
             PROVE  Holders(c) = {h \in Holder : Holds(h, c)}
  OBVIOUS
<1>1. \A w \in Worker : c \in worker[w].lines => worker[w].order \in Order
  BY DEF Inv, HandlersOK, HandlerOK, Idle
<1>2. ASSUME NEW h \in Holders(c) PROVE h \in Holder /\ Holds(h, c)
  BY <1>1, SetsAssumption DEF Holders, Holder, Holds, OrderHolds, HandlerHolds
<1>3. ASSUME NEW h \in Holder, Holds(h, c) PROVE h \in Holders(c)
  <2>1. PICK w \in Worker \cup {NoWorker}, o \in Order : h = <<w, o>>
    BY DEF Holder
  <2>2. CASE w = NoWorker
    BY <1>3, <2>1, <2>2 DEF Holders, Holds, OrderHolds
  <2>3. CASE w \in Worker
    BY <1>3, <2>1, <2>3, SetsAssumption DEF Holders, Holds, HandlerHolds
  <2> QED
    BY <2>2, <2>3
<1> QED
  BY <1>2, <1>3

LEMMA HoldersAreNext == Inv' => \A c \in Category : Holders(c)' = {h \in Holder : Holds(h, c)'}
<1>1. (Inv => \A c \in Category : Holders(c) = {h \in Holder : Holds(h, c)})'
  BY HoldersAre, PTL
<1> QED
  BY <1>1

\* The balance of category c.
Held(c) == Cardinality(Places(Holders(c), c))
Balanced(c) ==
  /\ remaining[c] + Held(c) <= Quota[c]
  /\ Faults = {} => remaining[c] + Held(c) = Quota[c]

\* The four moves of a step: nothing, take, give back, hand over.
Keep(c) ==
  /\ \A h \in Holder : Holds(h, c)' <=> Holds(h, c)
  /\ remaining'[c] = remaining[c] \/ (Faults # {} /\ remaining'[c] <= remaining[c])
TakeBy(h, c) ==
  /\ ~Holds(h, c)
  /\ \A g \in Holder : Holds(g, c)' <=> (Holds(g, c) \/ g = h)
  /\ remaining'[c] = remaining[c] - Qty[h[2]][c]
GiveBy(h, c) ==
  /\ Holds(h, c)
  /\ \A g \in Holder : Holds(g, c)' <=> (Holds(g, c) /\ g # h)
  /\ \/ RestoreQuota(c, Qty[h[2]][c])
     \/ Faults # {} /\ remaining'[c] = remaining[c]
HandOver(g, h, c) ==
  /\ g[2] = h[2] /\ Holds(g, c) /\ ~Holds(h, c)
  /\ \A f \in Holder : Holds(f, c)' <=> ((Holds(f, c) /\ f # g) \/ f = h)
  /\ remaining'[c] = remaining[c]
Move(c) ==
  \/ Keep(c)
  \/ \E h \in Holder : TakeBy(h, c) \/ GiveBy(h, c)
  \/ \E g, h \in Holder : HandOver(g, h, c)

LEMMA MoveKeepsBalance ==
  ASSUME Inv, Inv', NEW c \in Category, Balanced(c), Move(c)
  PROVE  Balanced(c)'
<1> DEFINE H == Holders(c)
           K == Holders(c)'
<1>1. /\ H = {h \in Holder : Holds(h, c)} /\ H \in SUBSET Holder
      /\ K = {h \in Holder : Holds(h, c)'} /\ K \in SUBSET Holder
  BY HoldersAre, HoldersAreNext
<1>2. Countable(H, c) /\ Countable(K, c)
  BY <1>1, HolderCountable
<1>3. remaining \in [Category -> Nat] /\ remaining'[c] \in Nat
  BY DEF Inv, TypeOK
<1>4. Balance(H, c, Faults)
  BY DEF Balanced, Held, Balance
<1>5. Held(c)' = Cardinality(Places(K, c))
  BY DEF Held, Places
<1> HIDE DEF H, K
<1>6. Keep(c) => KeepPlaces(H, K, c, Faults)
  BY <1>1 DEF Keep, KeepPlaces
<1>7. \A h \in Holder : TakeBy(h, c) => TakePlaces(H, K, h, c)
  BY <1>1 DEF TakeBy, TakePlaces
<1>8. \A h \in Holder : GiveBy(h, c) => GivePlaces(H, K, h, c, Faults)
  BY <1>1 DEF GiveBy, GivePlaces
<1>9. \A g, h \in Holder : HandOver(g, h, c) => PassPlaces(H, K, g, h, c)
  BY <1>1 DEF HandOver, PassPlaces
<1>10. \/ KeepPlaces(H, K, c, Faults)
       \/ \E h : TakePlaces(H, K, h, c) \/ GivePlaces(H, K, h, c, Faults)
       \/ \E g, h : PassPlaces(H, K, g, h, c)
  BY <1>6, <1>7, <1>8, <1>9 DEF Move
<1>11. /\ remaining'[c] + Held(c)' <= Quota[c]
       /\ Faults = {} => remaining'[c] + Held(c)' = Quota[c]
  BY <1>2, <1>3, <1>4, <1>5, <1>10, MoveBalances
<1> QED
  BY <1>11 DEF Balanced

-----------------------------------------------------------------------------
(* Every action makes one of these moves in a plain category *)

\* A handler's step that leaves the rows and the lines it holds alone.
LEMMA HandlerKeeps ==
  ASSUME Inv, NEW w \in Worker, NEW k, NEW c \in Category,
         worker' = [worker EXCEPT ![w] = k], row' = row,
         c \in k.lines <=> c \in worker[w].lines,
         c \in k.lines => k.order = worker[w].order
  PROVE  \A h \in Holder : Holds(h, c)' <=> Holds(h, c)
<1> SUFFICES ASSUME NEW h \in Holder PROVE Holds(h, c)' <=> Holds(h, c)
  OBVIOUS
<1>1. worker'[w] = k /\ \A v \in Worker : v # w => worker'[v] = worker[v]
  BY DEF Inv, TypeOK
<1>2. h[1] # NoWorker => h[1] \in Worker
  BY DEF Holder
<1>3. OrderHolds(h[2], c)' <=> OrderHolds(h[2], c)
  BY DEF OrderHolds, Lines
<1>4. CASE h[1] = w
  BY <1>1, <1>3, <1>4 DEF Holds, HandlerHolds
<1>5. CASE h[1] # w
  BY <1>1, <1>2, <1>3, <1>5 DEF Holds, HandlerHolds
<1> QED
  BY <1>4, <1>5

\* A handler that takes or drops line c.
LEMMA HandlerTakesOrDrops ==
  ASSUME Inv, NEW w \in Worker, NEW k, NEW c \in Category,
         worker' = [worker EXCEPT ![w] = k], row' = row,
         worker[w].order \in Order
  PROVE  /\ (c \notin worker[w].lines /\ c \in k.lines /\ k.order = worker[w].order)
             => \A h \in Holder : Holds(h, c)' <=> (Holds(h, c) \/ h = <<w, worker[w].order>>)
         /\ (c \in worker[w].lines /\ c \notin k.lines)
             => \A h \in Holder : Holds(h, c)' <=> (Holds(h, c) /\ h # <<w, worker[w].order>>)
<1>1. worker'[w] = k /\ \A v \in Worker : v # w => worker'[v] = worker[v]
  BY DEF Inv, TypeOK
<1>2. \A h \in Holder : OrderHolds(h[2], c)' <=> OrderHolds(h[2], c)
  BY DEF OrderHolds, Lines
<1>3. w # NoWorker
  BY SetsAssumption
<1>4. ASSUME NEW h \in Holder
      PROVE  /\ h = <<w, worker[w].order>> <=> (h[1] = w /\ h[2] = worker[w].order)
             /\ h[1] # NoWorker => h[1] \in Worker
  BY DEF Holder
<1>5. ASSUME c \notin worker[w].lines, c \in k.lines, k.order = worker[w].order, NEW h \in Holder
      PROVE  Holds(h, c)' <=> (Holds(h, c) \/ h = <<w, worker[w].order>>)
  BY <1>1, <1>2, <1>3, <1>4, <1>5 DEF Holds, HandlerHolds
<1>6. ASSUME c \in worker[w].lines, c \notin k.lines, NEW h \in Holder
      PROVE  Holds(h, c)' <=> (Holds(h, c) /\ h # <<w, worker[w].order>>)
  BY <1>1, <1>2, <1>3, <1>4, <1>6 DEF Holds, HandlerHolds
<1> QED
  BY <1>5, <1>6

LEMMA MoveRollback ==
  ASSUME Inv, NEW w \in Worker, NEW c \in Category, NEW d \in Category,
         GiveBack(w, d) \/ GiveBackLost(w, d)
  PROVE  Move(c)
<1> DEFINE k == worker[w]
           n == GivingBack([k EXCEPT !.lines = @ \ {d}], k.phase)
<1>1. /\ k \in WorkerState /\ k.phase \in {"back", "redo"} /\ d \in k.lines
      /\ k.order \in Order /\ k.lines \subseteq Lines(k.order) /\ Agree(k.seen)
      /\ worker' = [worker EXCEPT ![w] = n] /\ row' = row
  BY DEF GiveBack, GiveBackLost, Inv, TypeOK, HandlersOK, HandlerOK
<1>2. n.lines = k.lines \ {d} /\ (n.lines # {} => n.order = k.order)
  <2> DEFINE m == [k EXCEPT !.lines = @ \ {d}]
  <2>1. /\ m \in WorkerState /\ m.order = k.order /\ m.lines = k.lines \ {d}
        /\ m.seen = k.seen
    BY <1>1 DEF WorkerState
  <2> HIDE DEF m
  <2>2. /\ GivingBack(m, k.phase).lines = m.lines
        /\ m.lines # {} => GivingBack(m, k.phase).order = m.order
    <3>1. m.order \in Order /\ m.lines \subseteq Lines(m.order) /\ Agree(m.seen)
      BY <1>1, <2>1
    <3> QED
      BY <1>1, <2>1, <3>1, GivingBackOK
  <2> QED
    BY <2>1, <2>2 DEF m
<1> HIDE DEF n
<1>3. CASE d = c
  <2> DEFINE h == <<w, k.order>>
  <2>1. h \in Holder /\ h[2] = k.order
    BY <1>1 DEF Holder
  <2>2. Holds(h, c)
    BY <1>1, <1>3, SetsAssumption DEF Holds, HandlerHolds
  <2>3. \A g \in Holder : Holds(g, c)' <=> (Holds(g, c) /\ g # h)
    BY <1>1, <1>2, <1>3, HandlerTakesOrDrops
  <2>4. RestoreQuota(c, Qty[k.order][c]) \/ (Faults # {} /\ remaining'[c] = remaining[c])
    BY <1>3 DEF GiveBack, GiveBackLost
  <2>5. GiveBy(h, c)
    BY <2>1, <2>2, <2>3, <2>4 DEF GiveBy
  <2> QED
    BY <2>1, <2>5 DEF Move
<1>4. CASE d # c
  <2>1. \A h \in Holder : Holds(h, c)' <=> Holds(h, c)
    BY <1>1, <1>2, <1>4, HandlerKeeps
  <2>2. remaining'[c] = remaining[c]
    BY <1>4 DEF GiveBack, GiveBackLost, RestoreQuota, Inv, TypeOK
  <2> QED
    BY <2>1, <2>2 DEF Move, Keep
<1> QED
  BY <1>3, <1>4

LEMMA MoveRetake ==
  ASSUME Inv, NEW w \in Worker, NEW c \in Category, NEW d \in Category,
         RetakeLine(w, d) \/ RetakeRefused(w, d) \/ RetakeReplyLost(w, d)
  PROVE  Move(c)
<1> DEFINE k == worker[w]
<1>1. /\ k \in WorkerState /\ k.phase = "take" /\ d \in k.todo /\ row' = row
      /\ k.order \in Order /\ k.todo \cap k.lines = {} /\ k.lines \subseteq Lines(k.order)
      /\ Agree(k.seen)
  BY DEF RetakeLine, RetakeRefused, RetakeReplyLost, Inv, TypeOK, HandlersOK, HandlerOK
<1>2. CASE RetakeLine(w, d)
  <2> DEFINE n == [k EXCEPT !.todo = @ \ {d}, !.lines = @ \cup {d},
                            !.phase = IF k.todo = {d} THEN "cas" ELSE "take"]
  <2>1. n.lines = k.lines \cup {d} /\ n.order = k.order
    BY <1>1 DEF WorkerState
  <2>2. worker' = [worker EXCEPT ![w] = n]
    BY <1>2 DEF RetakeLine
  <2> HIDE DEF n
  <2>3. CASE d = c
    <3> DEFINE h == <<w, k.order>>
    <3>1. h \in Holder /\ h[2] = k.order
      BY <1>1 DEF Holder
    <3>2. ~Holds(h, c)
      BY <1>1, <2>3, SetsAssumption DEF Holds, HandlerHolds
    <3>3. \A g \in Holder : Holds(g, c)' <=> (Holds(g, c) \/ g = h)
      BY <1>1, <2>1, <2>2, <2>3, HandlerTakesOrDrops
    <3>4. remaining'[c] = remaining[c] - Qty[k.order][c]
      BY <1>2, <2>3 DEF RetakeLine, DecrementQuota, Inv, TypeOK
    <3> QED
      BY <3>1, <3>2, <3>3, <3>4 DEF TakeBy, Move
  <2>4. CASE d # c
    <3>1. \A h \in Holder : Holds(h, c)' <=> Holds(h, c)
      BY <1>1, <2>1, <2>2, <2>4, HandlerKeeps
    <3>2. remaining'[c] = remaining[c]
      BY <1>2, <2>4 DEF RetakeLine, DecrementQuota, Inv, TypeOK
    <3> QED
      BY <3>1, <3>2 DEF Move, Keep
  <2> QED
    BY <2>3, <2>4
<1>3. CASE RetakeRefused(w, d) \/ RetakeReplyLost(w, d)
  <2>1. worker' = [worker EXCEPT ![w] = GivingBack(k, "back")]
    BY <1>3 DEF RetakeRefused, RetakeReplyLost
  <2>2. /\ GivingBack(k, "back").lines = k.lines
        /\ k.lines # {} => GivingBack(k, "back").order = k.order
    BY <1>1, GivingBackOK
  <2>3. \A h \in Holder : Holds(h, c)' <=> Holds(h, c)
    BY <1>1, <2>1, <2>2, HandlerKeeps
  <2>4. remaining'[c] = remaining[c] \/ (Faults # {} /\ remaining'[c] <= remaining[c])
    <3>1. Qty[k.order][d] \in Nat /\ remaining[d] \in Nat /\ remaining[c] \in Nat
      BY <1>1, QtyAssumption DEF Inv, TypeOK
    <3> QED
      BY <1>3, <3>1 DEF RetakeRefused, RetakeReplyLost, DecrementQuota, Inv, TypeOK
  <2> QED
    BY <2>3, <2>4 DEF Move, Keep
<1> QED
  BY <1>2, <1>3

\* A row step that keeps each order's claim on c.
LEMMA RowsKeep ==
  ASSUME Inv, NEW c \in Category, worker' = worker, remaining' = remaining,
         \A o \in Order : c \in Lines(o) =>
           (row'[o].status \in Holding <=> row[o].status \in Holding)
  PROVE  Move(c)
<1>1. \A h \in Holder : Holds(h, c)' <=> Holds(h, c)
  BY DEF Holds, OrderHolds, HandlerHolds, Holder, Lines
<1> QED
  BY <1>1 DEF Move, Keep

LEMMA MoveConfirm ==
  ASSUME Inv, NEW w \in Worker, NEW c \in Category,
         ConfirmCas(w) \/ ConfirmCasFails(w) \/ ConfirmReread(w)
  PROVE  Move(c)
<1> DEFINE k == worker[w]
<1>1. k \in WorkerState /\ HandlerOK(k) /\ Agree(k.seen) /\ k.order \in Order
      /\ k.lines \subseteq Lines(k.order)
  BY DEF ConfirmCas, ConfirmCasFails, ConfirmReread, Inv, TypeOK, HandlersOK, HandlerOK
<1>2. CASE ConfirmCas(w)
  <2>1. /\ row' = [row EXCEPT ![k.order] = [status |-> "CONFIRMED", pay |-> "PAID"]]
        /\ worker' = [worker EXCEPT ![w] = Idle] /\ remaining' = remaining
        /\ row[k.order].status = k.seen.status
    BY <1>2 DEF ConfirmCas, CasHolds
  <2>2. /\ row'[k.order].status \in Holding
        /\ \A o \in Order : o # k.order => row'[o] = row[o]
        /\ worker'[w].lines = {}
        /\ \A v \in Worker : v # w => worker'[v] = worker[v]
    BY <1>1, <2>1 DEF Inv, TypeOK, Holding, Idle
  <2>3. CASE k.seen.status = "CANCELLED" /\ k.lines = Lines(k.order) /\ c \in Lines(k.order)
    <3> DEFINE g == <<w, k.order>>
               h == <<NoWorker, k.order>>
    <3>1. g \in Holder /\ h \in Holder /\ g[2] = h[2]
      BY <1>1 DEF Holder
    <3>2. Holds(g, c) /\ ~Holds(h, c)
      BY <2>1, <2>3, SetsAssumption DEF Holds, HandlerHolds, OrderHolds, Holding
    <3>3. ASSUME NEW f \in Holder PROVE Holds(f, c)' <=> ((Holds(f, c) /\ f # g) \/ f = h)
      <4>1. /\ f = g <=> (f[1] = w /\ f[2] = k.order)
            /\ f = h <=> (f[1] = NoWorker /\ f[2] = k.order)
            /\ f[1] # NoWorker => f[1] \in Worker
            /\ f[2] \in Order
        BY DEF Holder
      <4>2. w # NoWorker
        BY SetsAssumption
      <4>3. CASE f[1] = NoWorker
        BY <2>2, <2>3, <4>1, <4>2, <4>3 DEF Holds, OrderHolds, Lines
      <4>4. CASE f[1] # NoWorker
        BY <2>2, <2>3, <4>1, <4>2, <4>4 DEF Holds, HandlerHolds
      <4> QED
        BY <4>3, <4>4
    <3>4. HandOver(g, h, c)
      BY <2>1, <3>1, <3>2, <3>3 DEF HandOver
    <3> QED
      BY <3>1, <3>4 DEF Move
  <2>4. CASE c \notin k.lines /\ (c \in Lines(k.order) => k.seen.status = "PENDING_PAYMENT")
    <3>1. \A f \in Holder : OrderHolds(f[2], c)' <=> OrderHolds(f[2], c)
      BY <1>1, <2>1, <2>2, <2>4 DEF OrderHolds, Lines, Holding, Holder
    <3>2. \A f \in Holder : f[1] # NoWorker =>
            (HandlerHolds(f[1], f[2], c)' <=> HandlerHolds(f[1], f[2], c))
      BY <2>2, <2>4 DEF HandlerHolds, Holder
    <3> QED
      BY <2>1, <3>1, <3>2 DEF Move, Keep, Holds
  <2> QED
    BY <1>1, <1>2, <2>3, <2>4 DEF ConfirmCas, HandlerOK
<1>3. CASE ConfirmCasFails(w)
  <2>1. PICK p \in {"redo", "back"} : worker' = [worker EXCEPT ![w] = GivingBack(k, p)]
    BY <1>3 DEF ConfirmCasFails
  <2>2. GivingBack(k, p).lines = k.lines /\ (k.lines # {} => GivingBack(k, p).order = k.order)
    BY <1>1, GivingBackOK
  <2>3. \A h \in Holder : Holds(h, c)' <=> Holds(h, c)
    BY <1>3, <2>1, <2>2, HandlerKeeps DEF ConfirmCasFails
  <2> QED
    BY <1>3, <2>3 DEF ConfirmCasFails, Move, Keep
<1>4. CASE ConfirmReread(w)
  <2>1. worker' = [worker EXCEPT ![w] = AfterRead(k.order, FALSE)] /\ k.lines = {}
    BY <1>1, <1>4 DEF ConfirmReread, HandlerOK
  <2>2. AfterRead(k.order, FALSE).lines = {}
    BY <1>1, AfterReadOK DEF Inv
  <2>3. \A h \in Holder : Holds(h, c)' <=> Holds(h, c)
    BY <1>4, <2>1, <2>2, HandlerKeeps DEF ConfirmReread
  <2> QED
    BY <1>4, <2>3 DEF ConfirmReread, Move, Keep
<1> QED
  BY <1>2, <1>3, <1>4

\* Whole-row saves only touch orders without a line in a plain category.
LEMMA MoveSave ==
  ASSUME Inv, NEW c \in Category, Plain(c),
         ReminderFind \/ ReminderSave \/ \E w \in Worker : PartialRefundSave(w)
  PROVE  Move(c)
<1>1. CASE ReminderFind
  BY <1>1, RowsKeep DEF ReminderFind
<1>2. CASE ReminderSave
  <2>1. \A o \in Order : c \in Lines(o) => row'[o] = row[o]
    BY <1>2 DEF ReminderSave, Plain, Inv, BatchOK
  <2> QED
    BY <1>2, <2>1, RowsKeep DEF ReminderSave
<1>3. ASSUME NEW w \in Worker, PartialRefundSave(w) PROVE Move(c)
  <2>1. worker[w].order \in PartlyRefundable /\ worker[w].lines = {}
    BY <1>3 DEF PartialRefundSave, Inv, HandlersOK, HandlerOK
  <2>2. \A o \in Order : c \in Lines(o) => row'[o] = row[o]
    BY <1>3, <2>1 DEF PartialRefundSave, Plain, Inv, TypeOK
  <2>3. \A v \in Worker : worker'[v].lines = worker[v].lines
                         /\ (v # w => worker'[v] = worker[v])
    BY <1>3, <2>1 DEF PartialRefundSave, Inv, TypeOK, Idle
  <2>4. \A h \in Holder : OrderHolds(h[2], c)' <=> OrderHolds(h[2], c)
    BY <2>2 DEF OrderHolds, Lines, Holder
  <2>5. \A h \in Holder : h[1] # NoWorker =>
          (HandlerHolds(h[1], h[2], c)' <=> HandlerHolds(h[1], h[2], c))
    BY <2>1, <2>3 DEF HandlerHolds, Holder
  <2> QED
    BY <1>3, <2>4, <2>5 DEF PartialRefundSave, Move, Keep, Holds
<1> QED
  BY <1>1, <1>2, <1>3

LEMMA MoveCrash ==
  ASSUME Inv, NEW w \in Worker, NEW c \in Category, Crash(w)
  PROVE  Move(c)
<1>1. worker' = [worker EXCEPT ![w] = Idle] /\ row' = row /\ remaining' = remaining /\ Faults # {}
  BY DEF Crash
<1>2. c \notin Idle.lines
  BY DEF Idle
<1>3. CASE c \in worker[w].lines
  <2>1. worker[w].order \in Order
    BY <1>3 DEF Inv, HandlersOK, HandlerOK, Idle
  <2> DEFINE h == <<w, worker[w].order>>
  <2>2. h \in Holder /\ Holds(h, c)
    BY <1>3, <2>1, SetsAssumption DEF Holder, Holds, HandlerHolds
  <2>3. \A g \in Holder : Holds(g, c)' <=> (Holds(g, c) /\ g # h)
    BY <1>1, <1>2, <1>3, <2>1, HandlerTakesOrDrops
  <2> QED
    BY <1>1, <2>2, <2>3 DEF GiveBy, Move
<1>4. CASE c \notin worker[w].lines
  <2>1. \A h \in Holder : Holds(h, c)' <=> Holds(h, c)
    BY <1>1, <1>2, <1>4, HandlerKeeps
  <2> QED
    BY <1>1, <2>1 DEF Move, Keep
<1> QED
  BY <1>3, <1>4

\* An order that leaves sale hands its places to the handler that gives them back.
LEMMA MoveRelease ==
  ASSUME Inv, NEW w \in Worker, NEW o \in Order, NEW c \in Category,
         worker[w] = Idle, row[o].status \in Holding, Releasing(w, o), remaining' = remaining,
         NEW r, row' = [row EXCEPT ![o] = r], r.status \notin Holding
  PROVE  Move(c)
<1> DEFINE n == GivingBack([Idle EXCEPT !.order = o, !.lines = Lines(o)], "back")
<1>1. worker' = [worker EXCEPT ![w] = n] /\ n.lines = Lines(o) /\ (Lines(o) # {} => n.order = o)
  BY ReleasingOK DEF Releasing
<1> HIDE DEF n
<1>2. /\ worker'[w] = n /\ \A v \in Worker : v # w => worker'[v] = worker[v]
      /\ row'[o] = r /\ \A p \in Order : p # o => row'[p] = row[p]
      /\ worker[w].lines = {} /\ w # NoWorker
  BY <1>1, SetsAssumption DEF Inv, TypeOK, Idle
<1>3. CASE c \in Lines(o)
  <2> DEFINE g == <<NoWorker, o>>
             h == <<w, o>>
  <2>1. g \in Holder /\ h \in Holder /\ g[2] = h[2]
    BY DEF Holder
  <2>2. Holds(g, c) /\ ~Holds(h, c)
    BY <1>2, <1>3 DEF Holds, OrderHolds, HandlerHolds
  <2>3. ASSUME NEW f \in Holder PROVE Holds(f, c)' <=> ((Holds(f, c) /\ f # g) \/ f = h)
    <3>1. /\ f = g <=> (f[1] = NoWorker /\ f[2] = o)
          /\ f = h <=> (f[1] = w /\ f[2] = o)
          /\ f[1] # NoWorker => f[1] \in Worker
          /\ f[2] \in Order
      BY DEF Holder
    <3>2. CASE f[1] = NoWorker
      BY <1>2, <1>3, <3>1, <3>2 DEF Holds, OrderHolds, Lines
    <3>3. CASE f[1] # NoWorker
      BY <1>1, <1>2, <1>3, <3>1, <3>3 DEF Holds, HandlerHolds
    <3> QED
      BY <3>2, <3>3
  <2>4. HandOver(g, h, c)
    BY <2>1, <2>2, <2>3 DEF HandOver
  <2> QED
    BY <2>1, <2>4 DEF Move
<1>4. CASE c \notin Lines(o)
  <2>1. \A f \in Holder : OrderHolds(f[2], c)' <=> OrderHolds(f[2], c)
    BY <1>2, <1>4 DEF OrderHolds, Lines, Holder
  <2>2. \A f \in Holder : f[1] # NoWorker =>
          (HandlerHolds(f[1], f[2], c)' <=> HandlerHolds(f[1], f[2], c))
    BY <1>1, <1>2, <1>4 DEF HandlerHolds, Holder
  <2> QED
    BY <2>1, <2>2 DEF Move, Keep, Holds
<1> QED
  BY <1>3, <1>4

LEMMA MoveOrder ==
  ASSUME Inv, NEW o \in Order, NEW c \in Category, OrderStep(o)
  PROVE  Move(c)
<1>1. row[o] \in Row
  BY DEF Inv, TypeOK
<1>2. CASE PlaceOrder(o)
  <2>1. /\ row[o].status \notin Holding /\ row'[o].status \in Holding /\ worker' = worker
        /\ \A p \in Order : p # o => row'[p] = row[p]
        /\ remaining'[c] = IF c \in Lines(o) THEN remaining[c] - Qty[o][c] ELSE remaining[c]
    BY <1>2 DEF PlaceOrder, Absent, Holding, Inv, TypeOK
  <2> DEFINE h == <<NoWorker, o>>
  <2>2. h \in Holder /\ h[1] = NoWorker /\ h[2] = o /\ ~Holds(h, c)
    BY <2>1 DEF Holder, Holds, OrderHolds
  <2>3. ASSUME NEW g \in Holder
        PROVE  Holds(g, c)' <=> (Holds(g, c) \/ (c \in Lines(o) /\ g = h))
    <3>1. (g = h <=> (g[1] = NoWorker /\ g[2] = o)) /\ g[2] \in Order
      BY DEF Holder
    <3> QED
      BY <2>1, <3>1 DEF Holds, OrderHolds, HandlerHolds, Lines
  <2>4. CASE c \in Lines(o)
    <3>1. TakeBy(h, c)
      BY <2>1, <2>2, <2>3, <2>4 DEF TakeBy
    <3> QED
      BY <2>2, <3>1 DEF Move
  <2>5. CASE c \notin Lines(o)
    BY <2>1, <2>3, <2>5 DEF Move, Keep
  <2> QED
    BY <2>4, <2>5
<1>3. CASE DeadlinePasses(o) \/ \E d \in Category : TicketResold(o, d)
  BY <1>3, RowsKeep DEF DeadlinePasses, TicketResold
<1>4. CASE MarkLatePaymentRefunded(o)
  <2>1. \A p \in Order : row'[p].status \in Holding <=> row[p].status \in Holding
    BY <1>4 DEF MarkLatePaymentRefunded, Holding, Inv, TypeOK
  <2> QED
    BY <1>4, <2>1, RowsKeep DEF MarkLatePaymentRefunded
<1>5. CASE MarkTicketsSent(o)
  <2>1. \A p \in Order : row'[p].status \in Holding <=> row[p].status \in Holding
    BY <1>1, <1>5 DEF MarkTicketsSent, Holding, Inv, TypeOK, Row
  <2> QED
    BY <1>5, <2>1, RowsKeep DEF MarkTicketsSent
<1>6. CASE ReleaseAbandoned(o)
  <2> DEFINE r == [row[o] EXCEPT !.status = "CANCELLED"]
  <2>1. /\ row[o].status \in Holding /\ r.status \notin Holding
        /\ row' = [row EXCEPT ![o] = r] /\ worker[Cron] = Idle /\ Cron \in Worker
        /\ Releasing(Cron, o) /\ remaining' = remaining
    BY <1>1, <1>6, SetsAssumption DEF ReleaseAbandoned, Holding, Row
  <2> QED
    BY <2>1, MoveRelease
<1>7. ASSUME NEW w \in Worker, Cancel(w, o) PROVE Move(c)
  <2> DEFINE r == [row[o] EXCEPT !.status = "CANCELLED"]
  <2>1. /\ row[o].status \in Holding /\ r.status \notin Holding
        /\ row' = [row EXCEPT ![o] = r] /\ worker[w] = Idle
        /\ Releasing(w, o) /\ remaining' = remaining
    BY <1>1, <1>7 DEF Cancel, Holding, Row
  <2> QED
    BY <2>1, MoveRelease
<1>8. ASSUME NEW w \in Worker, MarkRefunded(w, o) PROVE Move(c)
  <2> DEFINE r == [status |-> "REFUNDED", pay |-> "REFUNDED"]
  <2>1. /\ row[o].status \in Holding /\ r.status \notin Holding
        /\ row' = [row EXCEPT ![o] = r] /\ worker[w] = Idle
        /\ Releasing(w, o) /\ remaining' = remaining
    BY <1>1, <1>8 DEF MarkRefunded, Holding, Row, OrderStatus
  <2> QED
    BY <2>1, MoveRelease
<1>9. ASSUME NEW w \in Worker, ConfirmRead(w, o) \/ PartialRefundRead(w, o) PROVE Move(c)
  <2>1. row' = row /\ remaining' = remaining /\ worker[w].lines = {}
    <3>1. row' = row /\ remaining' = remaining /\ worker[w] = Idle
      BY <1>9 DEF ConfirmRead, PartialRefundRead
    <3> QED
      BY <3>1 DEF Idle
  <2>2. ASSUME NEW k, worker' = [worker EXCEPT ![w] = k], k.lines = {} PROVE Move(c)
    <3>1. c \notin k.lines /\ c \notin worker[w].lines
      BY <2>1, <2>2
    <3>2. \A h \in Holder : Holds(h, c)' <=> Holds(h, c)
      BY <2>1, <2>2, <3>1, HandlerKeeps
    <3> QED
      BY <2>1, <3>2 DEF Move, Keep
  <2>3. CASE ConfirmRead(w, o)
    <3>1. /\ worker' = [worker EXCEPT ![w] = AfterRead(o, TRUE)]
          /\ AfterRead(o, TRUE).lines = {}
      BY <2>3, AfterReadOK DEF ConfirmRead, Inv
    <3> QED
      BY <2>2, <3>1
  <2>4. CASE PartialRefundRead(w, o)
    <3> DEFINE k == [Idle EXCEPT !.order = o, !.phase = "save", !.seen = row[o]]
    <3>1. worker' = [worker EXCEPT ![w] = k] /\ k.lines = {}
      BY <2>4 DEF PartialRefundRead, Idle
    <3> QED
      BY <2>2, <3>1
  <2> QED
    BY <1>9, <2>3, <2>4
<1> QED
  BY <1>2, <1>3, <1>4, <1>5, <1>6, <1>7, <1>8, <1>9 DEF OrderStep

LEMMA MoveStep ==
  ASSUME Inv, NEW c \in Category, Plain(c), [Next]_vars
  PROVE  Move(c)
<1>1. CASE UNCHANGED vars
  BY <1>1, RowsKeep DEF vars
<1>2. ASSUME NEW w \in Worker, WorkerStep(w) PROVE Move(c)
  BY <1>2, MoveRollback, MoveRetake, MoveConfirm, MoveSave DEF WorkerStep
<1> QED
  BY <1>1, <1>2, MoveCrash, MoveOrder, MoveSave DEF Next

-----------------------------------------------------------------------------
PlainBalanced == \A c \in Category : Plain(c) => Balanced(c)

LEMMA BalancedInit == Init => PlainBalanced
<1> SUFFICES ASSUME Init, NEW c \in Category PROVE Balanced(c)
  BY DEF PlainBalanced
<1>1. Holders(c) = {}
  BY DEF Init, Holders, Holding, Absent, Idle
<1>2. Held(c) = 0
  BY <1>1, FS_EmptySet DEF Held, Places
<1>3. remaining[c] = Quota[c] /\ Quota[c] \in Nat
  BY QuotaAssumption DEF Init
<1> QED
  BY <1>2, <1>3 DEF Balanced

LEMMA PlainBalancedStep == Inv /\ Inv' /\ PlainBalanced /\ [Next]_vars => PlainBalanced'
<1> SUFFICES ASSUME Inv, Inv', PlainBalanced, [Next]_vars, NEW c \in Category, Plain(c)'
             PROVE  Balanced(c)'
  BY DEF PlainBalanced
<1> Plain(c)
  BY DEF Plain, Lines
<1>1. Balanced(c) /\ Move(c)
  BY MoveStep DEF PlainBalanced
<1> QED
  BY <1>1, MoveKeepsBalance

\* The stock ledger: in every category no order of which is rewritten from an
\* old copy or resold, remaining_quota plus the places held by orders and by
\* handlers in progress never exceeds the quota, and equals it when no call
\* and no process fails.
THEOREM LedgerAlwaysBalances == Spec => []LedgerBalances
<1>1. PlainBalanced => LedgerBalances
  BY DEF PlainBalanced, Balanced, Held, LedgerBalances
<1> QED
  BY <1>1, PlainBalancedStep, BalancedInit, Invariant, PTL DEF Spec
-----------------------------------------------------------------------------
(* The refinement: OrderStock implements AtomicOrders when no call or process  *)
(* fails and no row is saved from an old copy.                                 *)
(*                                                                             *)
(* The stock ledger does the work: the places on sale and those in the hands   *)
(* of handlers are the quota less the places of the orders, so that what       *)
(* AtomicOrders sees as free depends on the rows alone, and only the steps     *)
(* that change a row are visible.  A step that takes places finds them free    *)
(* because what is left is not negative.                                       *)

Quiet == Faults = {} /\ PartlyRefundable = {} /\ Reminded = {} /\ Resellable = {}

\* The holders of places of c, apart.
Owners(c) == {<<NoWorker, o>> : o \in {p \in Order : c \in Lines(p) /\ row[p].status \in Holding}}
Hands(c) == {<<w, worker[w].order>> : w \in {v \in Worker : c \in worker[v].lines}}
Sold(c) == Cardinality(Places(Owners(c), c))
Free(c) == remaining[c] + Cardinality(InHand(c))
Need(o, c) == IF c \in Lines(o) THEN Qty[o][c] ELSE 0

LEMMA OwnersCountable ==
  ASSUME NEW c \in Category
  PROVE  Countable(Owners(c), c) /\ Sold(c) \in Nat
<1>1. Owners(c) \in SUBSET Holder
  BY DEF Owners, Holder
<1> QED
  BY <1>1, HolderCountable, PlacesFinite DEF Sold

\* What AtomicOrders sees as free depends on the rows alone.
LEMMA FreeIsUnsold ==
  ASSUME Quiet, Inv, PlainBalanced, NEW c \in Category
  PROVE  Free(c) = Quota[c] - Sold(c) /\ Free(c) \in Nat
<1>1. Holders(c) = Owners(c) \cup Hands(c) /\ InHand(c) = Places(Hands(c), c)
  BY DEF Holders, Owners, Hands, InHand
<1>2. Hands(c) \in SUBSET Holder
  BY DEF Hands, Holder, Inv, HandlersOK, HandlerOK, Idle
<1>3. Owners(c) \cap Hands(c) = {}
  BY SetsAssumption DEF Owners, Hands
<1>4. Countable(Owners(c), c) /\ Countable(Hands(c), c)
  BY <1>2, OwnersCountable, HolderCountable
<1>5. /\ Cardinality(Places(Holders(c), c)) = Sold(c) + Cardinality(InHand(c))
      /\ Sold(c) \in Nat /\ Cardinality(InHand(c)) \in Nat
  <2> DEFINE H == Owners(c)
             K == Hands(c)
  <2>1. H \cap K = {} /\ Countable(H, c) /\ Countable(K, c)
    BY <1>3, <1>4
  <2> HIDE DEF H, K
  <2>2. /\ Cardinality(Places(H \cup K, c)) = Cardinality(Places(H, c)) + Cardinality(Places(K, c))
        /\ Cardinality(Places(H, c)) \in Nat /\ Cardinality(Places(K, c)) \in Nat
    BY <2>1, PlacesSplit
  <2> QED
    BY <1>1, <2>2 DEF Sold, H, K
<1>6. Plain(c) /\ Faults = {}
  BY DEF Plain, Quiet
<1>7. remaining[c] + Cardinality(Places(Holders(c), c)) = Quota[c] /\ remaining[c] \in Nat
  BY <1>6 DEF PlainBalanced, Balanced, Held, Inv, TypeOK
<1>8. Quota[c] \in Nat
  BY QuotaAssumption
<1> QED
  BY <1>5, <1>7, <1>8 DEF Free

LEMMA FreeIsUnsoldNext ==
  Quiet' /\ Inv' /\ PlainBalanced' =>
    \A c \in Category : Free(c)' = Quota[c] - Sold(c)' /\ Free(c)' \in Nat /\ Sold(c)' \in Nat
<1>1. Quiet /\ Inv /\ PlainBalanced =>
        \A c \in Category : Free(c) = Quota[c] - Sold(c) /\ Free(c) \in Nat /\ Sold(c) \in Nat
  BY FreeIsUnsold, OwnersCountable
<1>2. (Quiet /\ Inv /\ PlainBalanced =>
        \A c \in Category : Free(c) = Quota[c] - Sold(c) /\ Free(c) \in Nat /\ Sold(c) \in Nat)'
  BY <1>1, PTL
<1> QED
  BY <1>2

-----------------------------------------------------------------------------
(* Steps on the rows *)

\* At most one row changes at a time.
LEMMA OneRow ==
  ASSUME Quiet, Inv, [Next]_vars
  PROVE  \/ row' = row
         \/ \E o \in Order : \A p \in Order : p # o => row'[p] = row[p]
<1>1. ASSUME NEW w \in Worker, WorkerStep(w)
      PROVE  row' = row \/ \E o \in Order : \A p \in Order : p # o => row'[p] = row[p]
  <2>1. CASE ConfirmCas(w) \/ PartialRefundSave(w)
    <3>1. worker[w].order \in Order
      BY <2>1 DEF ConfirmCas, PartialRefundSave, Inv, HandlersOK, HandlerOK
    <3>2. \A p \in Order : p # worker[w].order => row'[p] = row[p]
      BY <2>1 DEF ConfirmCas, PartialRefundSave, Inv, TypeOK
    <3> QED
      BY <3>1, <3>2
  <2> QED
    BY <1>1, <2>1 DEF WorkerStep, GiveBack, GiveBackLost, RetakeLine, RetakeRefused,
       RetakeReplyLost, ConfirmCasFails, ConfirmReread
<1>2. ASSUME NEW o \in Order, OrderStep(o)
      PROVE  \A p \in Order : p # o => row'[p] = row[p]
  BY <1>2 DEF OrderStep, PlaceOrder, DeadlinePasses, ReleaseAbandoned, MarkLatePaymentRefunded,
     MarkTicketsSent, ConfirmRead, Cancel, MarkRefunded, PartialRefundRead, TicketResold, Inv, TypeOK
<1>3. ~ReminderSave
  BY DEF ReminderSave, Inv, BatchOK, Quiet
<1> QED
  BY <1>1, <1>2, <1>3 DEF Next, Crash, ReminderFind, vars

\* How the places of the orders follow the status of the one that changes.
LEMMA SoldFollows ==
  ASSUME NEW c \in Category, NEW o \in Order,
         \A p \in Order : p # o => row'[p] = row[p]
  PROVE  /\ Need(o, c) \in Nat
         /\ (row[o].status \in Holding <=> row'[o].status \in Holding) => Sold(c)' = Sold(c)
         /\ row[o].status \notin Holding /\ row'[o].status \in Holding
              => Sold(c)' = Sold(c) + Need(o, c)
         /\ row[o].status \in Holding /\ row'[o].status \notin Holding
              => Sold(c) = Sold(c)' + Need(o, c)
<1> DEFINE H == Owners(c)
           K == {<<NoWorker, p>> : p \in {q \in Order : c \in Lines(q) /\ row'[q].status \in Holding}}
           h == <<NoWorker, o>>
<1>1. Qty[o][c] \in Nat /\ Need(o, c) \in Nat
  BY QtyAssumption DEF Need
<1>2. Sold(c) = Cardinality(Places(H, c)) /\ Sold(c)' = Cardinality(Places(K, c))
  BY DEF Sold, Owners, Places, Lines
<1>3. Countable(H, c) /\ Countable(K, c)
  <2>1. K \in SUBSET Holder
    BY DEF Holder
  <2> QED
    BY <2>1, OwnersCountable, HolderCountable
<1>4. CASE c \notin Lines(o) \/ (row[o].status \in Holding <=> row'[o].status \in Holding)
  <2>1. \A p \in Order : c \in Lines(p) => (row[p].status \in Holding <=> row'[p].status \in Holding)
    BY <1>4
  <2>2. K = H
    BY <2>1 DEF Owners
  <2>3. Sold(c)' = Sold(c) /\ Sold(c) \in Nat
    BY <1>2, <2>2, OwnersCountable
  <2> QED
    BY <1>1, <1>4, <2>3 DEF Need
<1>5. CASE c \in Lines(o) /\ row[o].status \notin Holding /\ row'[o].status \in Holding
  <2>1. h \notin H /\ K = H \cup {h} /\ h[2] = o
    BY <1>5 DEF Owners
  <2> HIDE DEF H, K, h
  <2>2. Cardinality(Places(K, c)) = Cardinality(Places(H, c)) + Qty[o][c]
    BY <1>1, <1>3, <2>1, PlacesAdd
  <2> QED
    BY <1>1, <1>2, <1>5, <2>2 DEF Need
<1>6. CASE c \in Lines(o) /\ row[o].status \in Holding /\ row'[o].status \notin Holding
  <2>1. h \in H /\ K = H \ {h} /\ h[2] = o
    BY <1>6 DEF Owners
  <2> HIDE DEF H, K, h
  <2>2. Cardinality(Places(H, c)) = Cardinality(Places(K, c)) + Qty[o][c]
    BY <1>3, <2>1, PlacesRemove
  <2> QED
    BY <1>1, <1>2, <1>6, <2>2 DEF Need
<1> QED
  BY <1>4, <1>5, <1>6

-----------------------------------------------------------------------------
(* Every step is a step of AtomicOrders, or invisible to it *)

LEMMA AtomicInit ==
  ASSUME Quiet, Init, Inv, PlainBalanced
  PROVE  Atomic!Init
<1>1. ASSUME NEW c \in Category PROVE Free(c) = Quota[c]
  <2>1. Owners(c) = {}
    BY DEF Init, Owners, Holding, Absent
  <2>2. Sold(c) = 0
    BY <2>1, FS_EmptySet DEF Sold, Places
  <2>3. Quota[c] \in Nat
    BY QuotaAssumption
  <2> QED
    BY <2>2, <2>3, FreeIsUnsold
<1>2. [c \in Category |-> remaining[c] + Cardinality(InHand(c))] = Quota
  BY <1>1, QuotaAssumption DEF Free
<1>3. [o \in Order |-> row[o].status] = [o \in Order |-> "NONE"]
  BY DEF Init, Absent
<1> QED
  BY <1>2, <1>3 DEF Atomic!Init

LEMMA AtomicStep ==
  ASSUME Quiet, Inv, Inv', PlainBalanced, PlainBalanced', [Next]_vars
  PROVE  [Atomic!Next]_Atomic!vars
<1> DEFINE free == [c \in Category |-> remaining[c] + Cardinality(InHand(c))]
           status == [o \in Order |-> row[o].status]
<1>1. ASSUME NEW c \in Category
      PROVE  /\ free[c] = Quota[c] - Sold(c) /\ free[c] \in Nat
             /\ free'[c] = Quota[c] - Sold(c)' /\ free'[c] \in Nat
             /\ Quota[c] \in Nat /\ Sold(c) \in Nat /\ Sold(c)' \in Nat
  <2>1. Free(c)' = Quota[c] - Sold(c)' /\ Free(c)' \in Nat /\ Sold(c)' \in Nat
    BY FreeIsUnsoldNext DEF Quiet
  <2>3. free[c] = Free(c) /\ free'[c] = Free(c)'
    BY DEF Free, InHand, Places
  <2> QED
    BY <2>1, <2>3, FreeIsUnsold, OwnersCountable, QuotaAssumption
<1>2. CASE row' = row
  <2>1. \A c \in Category : Sold(c)' = Sold(c)
    BY <1>2 DEF Sold, Owners, Places, Lines
  <2>2. free' = free /\ status' = status
    BY <1>1, <1>2, <2>1
  <2> QED
    BY <2>2 DEF Atomic!vars
<1>3. ASSUME NEW o \in Order, \A p \in Order : p # o => row'[p] = row[p], row' # row
      PROVE  Atomic!Next
  <2> DEFINE s == row[o].status
             t == row'[o].status
             need == [p \in Order |-> [c \in Category |-> IF c \in Lines(p) THEN Qty[p][c] ELSE 0]]
  <2>1. row \in [Order -> Row] /\ row' \in [Order -> Row]
    BY DEF Inv, TypeOK
  <2>2. status[o] = s /\ status' = [status EXCEPT ![o] = t]
    BY <1>3
  <2>3. row'[o] # row[o]
    BY <1>3, <2>1
  <2>4. \/ s = "NONE" /\ t = "PENDING_PAYMENT"
        \/ s \in {"PENDING_PAYMENT", "CANCELLED"} /\ t = "CONFIRMED"
        \/ s = "PENDING_PAYMENT" /\ t = "CANCELLED"
        \/ s = "CONFIRMED" /\ t = "TICKETS_SENT"
        \/ s \in OrderStatus \ {"REFUNDED"} /\ t = "REFUNDED"
    <3>1. o \in Order \ (PartlyRefundable \cup Reminded) /\ row[o] \in Row
      BY <2>1 DEF Quiet
    <3>2. Next
      BY <1>3 DEF vars
    <3> QED
      <4>1. \/ row[o] = Absent /\ row'[o] = [status |-> "PENDING_PAYMENT", pay |-> "PENDING"]
            \/ row[o].status \in {"PENDING_PAYMENT", "CANCELLED"}
               /\ row'[o] = [status |-> "CONFIRMED", pay |-> "PAID"]
            \/ row[o].status = "PENDING_PAYMENT" /\ row'[o] = [row[o] EXCEPT !.status = "CANCELLED"]
            \/ row[o].status = "CONFIRMED" /\ row'[o] = [row[o] EXCEPT !.status = "TICKETS_SENT"]
            \/ /\ row[o].status \notin {"NONE", "REFUNDED"}
               /\ row'[o] = [status |-> "REFUNDED", pay |-> "REFUNDED"]
        BY <2>3, <3>1, <3>2, RowStep
      <4> QED
        BY <3>1, <4>1 DEF Absent, Row
  <2>5. s \in Holding /\ t \notin Holding => free' = [c \in Category |-> free[c] + need[o][c]]
    <3>1. ASSUME NEW c \in Category, s \in Holding, t \notin Holding
          PROVE  free'[c] = free[c] + need[o][c]
      <4>1. Sold(c) = Sold(c)' + Need(o, c) /\ Need(o, c) \in Nat
        BY <1>3, <3>1, SoldFollows
      <4>2. need[o][c] = Need(o, c)
        BY DEF Need
      <4> HIDE DEF free, need
      <4> QED
        BY <1>1, <4>1, <4>2
    <3> QED
      BY <3>1
  <2>6. s \notin Holding /\ t \in Holding =>
           /\ \A c \in Category : free[c] >= need[o][c]
           /\ free' = [c \in Category |-> free[c] - need[o][c]]
    <3>1. ASSUME NEW c \in Category, s \notin Holding, t \in Holding
          PROVE  free'[c] = free[c] - need[o][c] /\ free[c] >= need[o][c]
      <4>1. Sold(c)' = Sold(c) + Need(o, c) /\ Need(o, c) \in Nat
        BY <1>3, <3>1, SoldFollows
      <4>2. need[o][c] = Need(o, c)
        BY DEF Need
      <4> HIDE DEF free, need
      <4> QED
        BY <1>1, <4>1, <4>2
    <3> QED
      BY <3>1
  <2>7. (s \in Holding <=> t \in Holding) => free' = free
    <3>1. ASSUME NEW c \in Category, s \in Holding <=> t \in Holding
          PROVE  free'[c] = free[c]
      <4>1. Sold(c)' = Sold(c)
        BY <1>3, <3>1, SoldFollows
      <4> HIDE DEF free
      <4> QED
        BY <1>1, <4>1
    <3> QED
      BY <3>1
  <2> HIDE DEF free, status, s, t, need
  <2>8. CASE s = "NONE" /\ t = "PENDING_PAYMENT"
    BY <2>2, <2>6, <2>8 DEF Holding, Atomic!Place, Atomic!Take, Atomic!Becomes, Atomic!Next,
       free, status, need
  <2>9. CASE s = "PENDING_PAYMENT" /\ t = "CONFIRMED"
    BY <2>2, <2>7, <2>9 DEF Holding, Atomic!Pay, Atomic!Becomes, Atomic!Next, free, status
  <2>10. CASE s = "CANCELLED" /\ t = "CONFIRMED"
    BY <2>2, <2>6, <2>10 DEF Holding, Atomic!PayLate, Atomic!Take, Atomic!Becomes, Atomic!Next,
       free, status, need
  <2>11. CASE s = "PENDING_PAYMENT" /\ t = "CANCELLED"
    BY <2>2, <2>5, <2>11 DEF Holding, Atomic!Cancel, Atomic!Give, Atomic!Becomes, Atomic!Next,
       free, status, need
  <2>12. CASE s = "CONFIRMED" /\ t = "TICKETS_SENT"
    BY <2>2, <2>7, <2>12 DEF Holding, Atomic!Send, Atomic!Becomes, Atomic!Next, free, status
  <2>13. CASE s \in {"PENDING_PAYMENT", "CONFIRMED", "TICKETS_SENT"} /\ t = "REFUNDED"
    BY <2>2, <2>5, <2>13 DEF Holding, Atomic!Refund, Atomic!Give, Atomic!Becomes, Atomic!Next,
       free, status, need
  <2>14. CASE s = "CANCELLED" /\ t = "REFUNDED"
    BY <2>2, <2>7, <2>14 DEF Holding, Atomic!RefundLate, Atomic!Becomes, Atomic!Next, free, status
  <2> QED
    BY <2>4, <2>8, <2>9, <2>10, <2>11, <2>12, <2>13, <2>14 DEF OrderStatus
<1> QED
  BY <1>2, <1>3, OneRow

\* When no call fails and no row is saved from an old copy, order-service and
\* event-service change the status of an order and the places on sale as one
\* transaction would, although each of them only commits its own row.
THEOREM OrdersAreAtomic ==
  ASSUME Faults = {}, PartlyRefundable = {}, Reminded = {}, Resellable = {}
  PROVE  Spec => ImplementsAtomicOrders
<1>1. Quiet
  BY DEF Quiet
<1>2. Inv /\ Inv' /\ PlainBalanced /\ [Next]_vars => PlainBalanced'
  BY PlainBalancedStep
<1>3. Init /\ Inv /\ PlainBalanced => Atomic!Init
  BY <1>1, AtomicInit
<1>4. /\ Inv /\ Inv' /\ PlainBalanced /\ PlainBalanced' /\ [Next]_vars
      => [Atomic!Next]_Atomic!vars
  BY <1>1, AtomicStep
<1> QED
  BY <1>2, <1>3, <1>4, BalancedInit, Invariant, PTL DEF Spec, ImplementsAtomicOrders, Atomic!Spec
=============================================================================
