---------------------------- MODULE PaymentFlow ----------------------------
(***************************************************************************)
(* The money and the tickets of one order: the payment row of              *)
(* payment-service, the order row of order-service, the tickets of         *)
(* ticket-service, and the gateway's PurchaseFulfillmentService and        *)
(* DisputeWorkflow, which carry a payment or a refund from one service to  *)
(* the next by remote calls that no transaction groups.                    *)
(*                                                                         *)
(* Stripe charges intents, remembers what it charged and refunded, and     *)
(* tells of successes and declines by events that arrive late, repeated    *)
(* and out of order: an event, once it exists, can be delivered for ever.  *)
(* The gateway's /sync asks Stripe instead; it has the effect of an event. *)
(* An order is confirmed or cancelled in one step: OrderStock shows that   *)
(* order-service implements that.                                          *)
(***************************************************************************)
EXTENDS Integers, FiniteSets

CONSTANTS
  Intent,     \* Stripe payment intents that may be created for the order
  NoIntent,   \* sentinel
  Handler,    \* concurrent requests (bounds the model)
  Amount,     \* total_amount_ttc, in units a partial refund may return
  MaxIssues,  \* bound: how often tickets and payouts are created in the model
  Overlaps    \* which rare overlaps happen, see below

\* "replay"       a success is delivered again during or after a refund
\* "late_failure" Stripe charges the order while a decline is still on its way
\* "refund"       a refund overlaps a fulfilment or another refund
\* "two_intents"  the buyer pays in one page and opens payment in another
\* "lost"         calls get lost, processes stop
OverlapKinds == {"replay", "late_failure", "refund", "two_intents", "lost"}

ASSUME FlowAssumption ==
  /\ NoIntent \notin Intent /\ IsFiniteSet(Intent)
  /\ Amount \in Nat \ {0} /\ MaxIssues \in Nat \ {0}
  /\ Overlaps \subseteq OverlapKinds

VARIABLES
  payment,   \* the payment row (payments.order_id is unique)
  order,     \* status columns of the order row
  created,   \* intents a page can pay
  declined,  \* intents Stripe declined at least once
  charged,   \* intents Stripe charged
  returned,  \* returned[i]: what Stripe refunded on intent i
  issued,    \* how many times tickets were generated for the order
  valid,     \* whether tickets of the order are valid
  payouts,   \* payouts created for the organizer
  handler    \* local state of each request

vars == <<payment, order, created, declined, charged, returned, issued, valid, payouts, handler>>
stripe == <<created, declined, charged, returned>>
tickets == <<issued, valid>>

-----------------------------------------------------------------------------
PaymentStatus == {"PENDING", "PAID", "FAILED", "PARTIALLY_REFUNDED", "REFUNDED"}
Payment == [status: PaymentStatus \cup {"NONE"}, intent: Intent \cup {NoIntent}, refunded: 0..Amount]
NoPayment == [status |-> "NONE", intent |-> NoIntent, refunded |-> 0]

Order == [status: {"PENDING_PAYMENT", "CONFIRMED", "CANCELLED", "REFUNDED"},
          pay: {"PENDING", "PAID", "REFUNDED"}]
NewOrder == [status |-> "PENDING_PAYMENT", pay |-> "PENDING"]

\* createIntent: intent.  Success: mark -> confirm -> generate, or reject ->
\* late.  Decline: fail.  Refund: void -> settle when full, record -> save when
\* partial.
Phase == {"idle", "intent", "mark", "confirm", "generate", "reject", "late",
          "fail", "void", "settle", "record", "save"}
Idle == [phase |-> "idle", seen |-> NoPayment, order |-> NewOrder]
HandlerState == [phase: Phase, seen: Payment, order: Order]

TypeOK ==
  /\ payment \in Payment
  /\ order \in Order
  /\ created \subseteq Intent /\ declined \subseteq created /\ charged \subseteq created
  /\ returned \in [Intent -> 0..Amount]
  /\ issued \in 0..MaxIssues /\ payouts \in 0..MaxIssues
  /\ valid \in BOOLEAN
  /\ handler \in [Handler -> HandlerState]

Init ==
  /\ payment = NoPayment /\ order = NewOrder
  /\ created = {} /\ declined = {} /\ charged = {} /\ returned = [i \in Intent |-> 0]
  /\ issued = 0 /\ valid = FALSE /\ payouts = 0
  /\ handler = [h \in Handler |-> Idle]

In(h, p) == handler[h].phase = p
Busy(P) == \E h \in Handler : handler[h].phase \in P
Goes(h, p) == handler' = [handler EXCEPT ![h].phase = p]
Ends(h) == handler' = [handler EXCEPT ![h] = Idle]
Fulfilling == {"mark", "confirm", "generate", "reject", "late"}
Refunding == {"void", "settle", "record", "save"}

-----------------------------------------------------------------------------
(* Payment pages and Stripe *)

\* createIntent reads the row, then checks the order and its deadline ...
CreateIntentRead(h) ==
  /\ In(h, "idle")
  /\ payment.status # "PAID" /\ order.status = "PENDING_PAYMENT"
  /\ Cardinality({g \in Handler : In(g, "intent")}) < Cardinality(Intent \ created)  \* bound
  /\ "two_intents" \in Overlaps \/ (charged = {} /\ ~Busy({"fail"}))
  /\ handler' = [handler EXCEPT ![h] = [Idle EXCEPT !.phase = "intent", !.seen = payment]]
  /\ UNCHANGED <<payment, order, stripe, tickets, payouts>>

\* ... has Stripe create an intent i, and saves the row it read: every column
\* that differs is written.  Inserting a second row violates its unique key.
CreateIntentSave(h, i) ==
  LET seen == handler[h].seen
      inserts == seen = NoPayment IN
  /\ In(h, "intent") /\ i \notin created
  /\ IF inserts /\ payment # NoPayment
     THEN UNCHANGED <<payment, created>>
     ELSE /\ payment' = [seen EXCEPT !.intent = i, !.status = IF inserts THEN "PENDING" ELSE @]
          /\ created' = created \cup {i}
  /\ Ends(h)
  /\ UNCHANGED <<order, declined, charged, returned, tickets, payouts>>

\* External: Stripe charges an intent, or declines it (it can be tried again).
\* It tells of a decline before the buyer has paid again: the code does nothing
\* to make that so, and late_failure is what happens otherwise.
Payable(i) ==
  /\ i \in created \ charged
  /\ "two_intents" \in Overlaps \/ (payment.intent = i /\ ~Busy({"intent"}))
Pay(i) ==
  /\ Payable(i)
  /\ "late_failure" \in Overlaps \/ ~Busy({"fail"})
  /\ charged' = charged \cup {i}
  /\ UNCHANGED <<payment, order, created, declined, returned, tickets, payouts, handler>>
Decline(i) ==
  /\ Payable(i) /\ i \notin declined
  /\ declined' = declined \cup {i}
  /\ UNCHANGED <<payment, order, created, charged, returned, tickets, payouts, handler>>
DeclineArrives(i) ==
  /\ i \in declined
  /\ "late_failure" \in Overlaps \/ charged = {}

-----------------------------------------------------------------------------
(* payment_intent.succeeded, or /sync: confirmFromWebhook, confirmAndFulfill *)

\* The row is found by its intent; a charged intent the row no longer names is
\* answered 404.
ConfirmFind(h, i) ==
  /\ In(h, "idle") /\ i \in charged /\ payment.intent = i
  /\ "replay" \in Overlaps \/ (payment.refunded = 0 /\ ~Busy({"reject"}))
  /\ Goes(h, "mark")
  /\ UNCHANGED <<payment, order, stripe, tickets, payouts>>

\* Mutant: every delivery goes on, whatever the update changed.
ConfirmMarkAlways(h) ==
  /\ In(h, "mark")
  /\ Goes(h, "confirm")
  /\ payment' = [payment EXCEPT !.status = "PAID"]
  /\ UNCHANGED <<order, stripe, tickets, payouts>>

\* UPDATE ... WHERE status != PAID: who changes nothing does not fulfil.
ConfirmMark(h) ==
  /\ In(h, "mark")
  /\ IF payment.status = "PAID" THEN Ends(h) ELSE Goes(h, "confirm")
  /\ payment' = [payment EXCEPT !.status = "PAID"]
  /\ UNCHANGED <<order, stripe, tickets, payouts>>

\* order.confirm_payment: a paid order is returned as it is.  Then the payout
\* is sent without waiting for an answer.
ConfirmOrder(h) ==
  /\ In(h, "confirm")
  /\ \/ order.pay = "PAID" /\ UNCHANGED order
     \/ /\ order.status \in {"PENDING_PAYMENT", "CANCELLED"}
        /\ order' = [status |-> "CONFIRMED", pay |-> "PAID"]
  /\ payouts < MaxIssues
  /\ \E made \in IF "lost" \in Overlaps THEN {0, 1} ELSE {1} : payouts' = payouts + made
  /\ Goes(h, "generate")
  /\ UNCHANGED <<payment, stripe, tickets>>

\* 409: the places of the cancelled order are gone, or it was refunded.
ConfirmRejected(h) ==
  /\ In(h, "confirm")
  /\ order.status \in {"CANCELLED", "REFUNDED"}
  /\ Goes(h, "reject")
  /\ UNCHANGED <<payment, order, stripe, tickets, payouts>>

\* ticket.generate creates tickets; nothing says that the order has some.
GenerateTickets(h) ==
  /\ In(h, "generate") /\ issued < MaxIssues
  /\ issued' = issued + 1 /\ valid' = TRUE
  /\ Ends(h)
  /\ UNCHANGED <<payment, order, stripe, payouts>>

-----------------------------------------------------------------------------
(* payment.refund, under the lock of the row.  a is the amount asked for; 0 is *)
(* no amount, and stands for what is left: by the row here, by Stripe there.   *)
Requested(a) == IF a = 0 THEN Amount - payment.refunded ELSE a
StripePart(a) == IF a = 0 THEN Amount - returned[payment.intent] ELSE a
CanRefund(a) ==
  /\ payment.status \in {"PAID", "PARTIALLY_REFUNDED"}
  /\ Requested(a) \in 1..(Amount - payment.refunded)
  /\ payment.intent \in charged
  /\ StripePart(a) \in 1..(Amount - returned[payment.intent])
StripeRefunds(a) == returned' = [returned EXCEPT ![payment.intent] = @ + StripePart(a)]
Total(a) == payment.refunded + Requested(a) = Amount
\* Mutant: a refund is counted twice in refunded_amount.
RefundCountedTwice(a) ==
  /\ CanRefund(a) /\ StripeRefunds(a)
  /\ payment' = [payment EXCEPT !.refunded = @ + 2 * Requested(a), !.status = "PARTIALLY_REFUNDED"]
Refund(a) ==
  /\ CanRefund(a) /\ StripeRefunds(a)
  /\ payment' = [payment EXCEPT !.refunded = @ + Requested(a),
                                !.status = IF Total(a) THEN "REFUNDED" ELSE "PARTIALLY_REFUNDED"]

\* Mutant: a rejected payment is logged and forgotten.
RejectOnly(h) ==
  /\ In(h, "reject")
  /\ Ends(h)
  /\ UNCHANGED <<payment, order, stripe, tickets, payouts>>

\* refundRejectedPayment refunds it all ...
RejectRefund(h) ==
  /\ In(h, "reject")
  /\ "replay" \in Overlaps \/ ~Busy({"mark"})
  /\ \/ Refund(0) /\ Goes(h, "late")
     \/ ~CanRefund(0) /\ Ends(h) /\ UNCHANGED <<payment, returned>>
  /\ UNCHANGED <<order, created, declined, charged, tickets, payouts>>

\* Mutant: the late refund leaves no trace on the order.
MarkLateNever(h) ==
  /\ In(h, "late")
  /\ Ends(h)
  /\ UNCHANGED <<payment, order, stripe, tickets, payouts>>

\* ... then order.mark_late_payment_refunded traces it on a cancelled order.
MarkLate(h) ==
  /\ In(h, "late")
  /\ order' = IF order.status = "CANCELLED" THEN [status |-> "REFUNDED", pay |-> "REFUNDED"] ELSE order
  /\ Ends(h)
  /\ UNCHANGED <<payment, stripe, tickets, payouts>>

\* Mutants: the tickets of a refunded order are left valid; a partial refund is
\* settled as a total.
RefundKeepsTickets(h, a) ==
  /\ In(h, "idle") /\ ~Busy(Fulfilling \cup Refunding)
  /\ Refund(a)
  /\ Goes(h, IF Total(a) THEN "settle" ELSE "record")
  /\ UNCHANGED <<order, created, declined, charged, tickets, payouts>>
RefundSettlesParts(h, a) ==
  /\ In(h, "idle")
  /\ Refund(a)
  /\ Goes(h, "void")
  /\ UNCHANGED <<order, created, declined, charged, tickets, payouts>>

\* refundOrder, asked by an administrator or a lost dispute: payment.refund ...
RefundPayment(h, a) ==
  /\ In(h, "idle")
  /\ "refund" \in Overlaps \/ ~Busy(Fulfilling \cup Refunding)
  /\ "replay" \in Overlaps \/ ~Busy({"mark"})
  /\ Refund(a)
  /\ Goes(h, IF Total(a) THEN "void" ELSE "record")
  /\ UNCHANGED <<order, created, declined, charged, tickets, payouts>>

\* ... then, for a total, ticket.cancel_by_order and order.mark_refunded ...
VoidTickets(h) ==
  /\ In(h, "void")
  /\ valid' = FALSE
  /\ Goes(h, "settle")
  /\ UNCHANGED <<payment, order, stripe, issued, payouts>>
SettleOrder(h) ==
  /\ In(h, "settle")
  /\ order' = IF order.status \in {"REFUNDED", "CANCELLED"} THEN order
              ELSE [status |-> "REFUNDED", pay |-> "REFUNDED"]
  /\ Ends(h)
  /\ UNCHANGED <<payment, stripe, tickets, payouts>>

\* ... and for a part, order.record_partial_refund, which saves what it read.
RecordRead(h) ==
  /\ In(h, "record")
  /\ handler' = [handler EXCEPT ![h].phase = "save", ![h].order = order]
  /\ UNCHANGED <<payment, order, stripe, tickets, payouts>>
RecordSave(h) ==
  /\ In(h, "save")
  /\ order' = handler[h].order
  /\ Ends(h)
  /\ UNCHANGED <<payment, stripe, tickets, payouts>>

-----------------------------------------------------------------------------
(* Other events *)

\* payment_intent.payment_failed: markFailed reads the row ...
FailRead(h, i) ==
  /\ In(h, "idle") /\ DeclineArrives(i) /\ payment.intent = i
  /\ payment.status # "PAID"
  /\ "two_intents" \in Overlaps \/ ~Busy({"intent"})
  /\ handler' = [handler EXCEPT ![h] = [Idle EXCEPT !.phase = "fail", !.seen = payment]]
  /\ UNCHANGED <<payment, order, stripe, tickets, payouts>>

\* ... and saves it as failed, with every column as it was read.
FailSave(h) ==
  /\ In(h, "fail")
  /\ payment' = [handler[h].seen EXCEPT !.status = "FAILED"]
  /\ Ends(h)
  /\ UNCHANGED <<order, stripe, tickets, payouts>>

\* The buyer cancels, or the abandon cron does.
Abandon ==
  /\ order.status = "PENDING_PAYMENT"
  /\ order' = [order EXCEPT !.status = "CANCELLED"]
  /\ UNCHANGED <<payment, stripe, tickets, payouts, handler>>

\* A remote call fails, or the process stops, between any two steps; the
\* refund's transaction may be lost after Stripe made the refund.
Stop(h) ==
  /\ "lost" \in Overlaps /\ ~In(h, "idle")
  /\ Ends(h)
  /\ UNCHANGED <<payment, order, stripe, tickets, payouts>>
\* Mutant: the row is saved before Stripe is asked.
RefundSavedFirst(a) ==
  /\ "lost" \in Overlaps
  /\ CanRefund(a)
  /\ payment' = [payment EXCEPT !.refunded = @ + Requested(a)]
  /\ UNCHANGED <<order, stripe, tickets, payouts, handler>>
RefundUnrecorded(a) ==
  /\ "lost" \in Overlaps
  /\ CanRefund(a) /\ StripeRefunds(a)
  /\ UNCHANGED <<payment, order, created, declined, charged, tickets, payouts, handler>>

Continue(h) ==
  \/ \E i \in Intent : CreateIntentSave(h, i)
  \/ ConfirmMark(h) \/ ConfirmOrder(h) \/ ConfirmRejected(h) \/ GenerateTickets(h)
  \/ RejectRefund(h) \/ MarkLate(h)
  \/ VoidTickets(h) \/ SettleOrder(h) \/ RecordRead(h) \/ RecordSave(h)
  \/ FailSave(h)

Next ==
  \/ \E h \in Handler :
       \/ CreateIntentRead(h) \/ Continue(h) \/ Stop(h)
       \/ \E i \in Intent : ConfirmFind(h, i) \/ FailRead(h, i)
       \/ \E a \in 0..Amount : RefundPayment(h, a)
  \/ \E i \in Intent : Pay(i) \/ Decline(i)
  \/ \E a \in 0..Amount : RefundUnrecorded(a)
  \/ Abandon

Spec == Init /\ [][Next]_vars

\* A started request goes on; Stripe delivers a success again until it is
\* answered.  Nobody has to pay, to retry or to refund.
Fairness ==
  \A h \in Handler :
    /\ WF_vars(Continue(h))
    /\ SF_vars(\E i \in Intent : ConfirmFind(h, i))
FairSpec == Spec /\ Fairness

-----------------------------------------------------------------------------
(* Properties *)
\* What Stripe paid back in all, counted unit by unit: <<i, n>> is the n-th unit
\* returned on intent i.
Units(r) == {u \in Intent \X (1..Amount) : u[2] <= r[u[1]]}
Returned == Cardinality(Units(returned))

\* An order gets its tickets once, and its organizer one payout, however often
\* the success of its payment is delivered ("un webhook redélivré ne génère
\* jamais deux fois billets et reversement", markPaidIdempotent).
IssuedOnce == issued <= 1 /\ payouts <= 1

\* A refunded order has no ticket that opens a door (cancelByOrder).
RefundedHasNoTickets == order.status = "REFUNDED" => ~valid

\* When no request is at work the three services tell the same story: what the
\* row returned is what Stripe returned, a row that holds money has a paid
\* order with tickets and a payout, and a row wholly refunded a refunded order.
ServicesAgree ==
  ~Busy(Phase \ {"idle"}) =>
    /\ payment.refunded = Returned
    /\ payment.status = "REFUNDED" <=> order.status = "REFUNDED"
    /\ payment.status \in {"PAID", "PARTIALLY_REFUNDED"} <=> order.pay = "PAID"
    /\ valid <=> order.pay = "PAID"
    /\ payouts = issued

\* Whatever overlaps, the row never claims a refund Stripe did not make ...
RefundNeverOverstated == payment.refunded <= Returned

\* ... and an order shown as refunded has been paid back in whole.
RefundedMeansRepaid == order.status = "REFUNDED" => Returned >= Amount

\* Whoever paid ends with tickets, or with the money back, as long as no call
\* is lost and the process does not stop.
Served == \A i \in Intent : i \in charged ~> (issued > 0 \/ order.status = "REFUNDED")
=============================================================================
