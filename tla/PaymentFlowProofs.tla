------------------------- MODULE PaymentFlowProofs -------------------------
(***************************************************************************)
(* For any number of payment intents and concurrent requests, any amount,  *)
(* and whatever overlaps, is replayed, lost or stopped: the payment row    *)
(* never claims a refund Stripe did not make, and an order shown as        *)
(* refunded was paid back in whole.                                        *)
(*                                                                         *)
(* Neither is inductive alone.  A row can be overwritten by the copy a     *)
(* decline or a new payment page read, and an order by the copy a partial  *)
(* refund read; and an order becomes REFUNDED two steps after the money    *)
(* left.  HandlerBacked says what each copy, and each phase on the way to  *)
(* REFUNDED, owes to the money already returned.  As Stripe never takes a  *)
(* refund back, what was owed once stays paid, however old the copy.       *)
(*                                                                         *)
(* Two more parts need overlaps left out.  Without those that take a row   *)
(* out of the paid statuses an order gets its tickets once and a confirmed *)
(* payment is never undone but by refunds (Once).  Without any, a refunded *)
(* order has no ticket and the services agree whenever no request is under *)
(* way (Story).                                                            *)
(***************************************************************************)
EXTENDS PaymentFlow, FiniteSetTheorems, TLAPS

-----------------------------------------------------------------------------
(* The money Stripe returned *)

\* The amounts returned on the intents are units of a finite set.
LEMMA UnitsFinite ==
  ASSUME NEW r \in [Intent -> 0..Amount]
  PROVE  IsFiniteSet(Units(r)) /\ Cardinality(Units(r)) \in Nat
<1>1. IsFiniteSet(1..Amount)
  BY FS_Interval, FlowAssumption
<1>2. IsFiniteSet(Intent \X (1..Amount))
  BY <1>1, FS_Product, FlowAssumption
<1>3. Units(r) \in SUBSET (Intent \X (1..Amount))
  BY DEF Units
<1> QED
  BY <1>2, <1>3, FS_Subset, FS_CardinalityType

\* A set of units of one intent has as many members as their numbers.
LEMMA UnitsOfOne ==
  ASSUME NEW i, NEW S, IsFiniteSet(S)
  PROVE  IsFiniteSet({i} \X S) /\ Cardinality({i} \X S) = Cardinality(S)
<1>1. IsFiniteSet({i}) /\ Cardinality({i}) = 1
  BY FS_Singleton
<1>2. /\ IsFiniteSet({i} \X S)
      /\ Cardinality({i} \X S) = Cardinality({i}) * Cardinality(S)
  BY <1>1, FS_Product
<1>3. Cardinality(S) \in Nat
  BY FS_CardinalityType
<1> QED
  BY <1>1, <1>2, <1>3

\* A refund of k units on intent i adds k to the total.
LEMMA RefundAdds ==
  ASSUME NEW r \in [Intent -> 0..Amount], NEW i \in Intent, NEW k \in 1..Amount,
         r[i] + k <= Amount
  PROVE  LET s == [r EXCEPT ![i] = @ + k] IN
         /\ s \in [Intent -> 0..Amount]
         /\ Cardinality(Units(s)) = Cardinality(Units(r)) + k
<1> DEFINE s == [r EXCEPT ![i] = @ + k]
           Steps == (r[i] + 1)..(r[i] + k)
           New == {i} \X Steps
<1>1. r[i] \in Nat /\ k \in Nat /\ Amount \in Nat
  BY FlowAssumption
<1>2. s \in [Intent -> 0..Amount]
  BY <1>1
<1>3. IsFiniteSet(Steps) /\ Cardinality(Steps) = k
  <2>1. r[i] + 1 \in Int /\ r[i] + k \in Int /\ r[i] + 1 <= r[i] + k
    BY <1>1
  <2>2. Cardinality(Steps) = (r[i] + k) - (r[i] + 1) + 1
    BY <2>1, FS_Interval
  <2> QED
    BY <1>1, <2>1, <2>2, FS_Interval
<1>4. IsFiniteSet(New) /\ Cardinality(New) = k
  <2> HIDE DEF Steps
  <2> QED
    BY <1>3, UnitsOfOne
<1>5. Units(s) = Units(r) \cup New
  <2>1. ASSUME NEW u \in Intent \X (1..Amount)
        PROVE  u[2] <= s[u[1]] <=> u[2] <= r[u[1]] \/ u \in New
    <3>1. u[1] \in Intent /\ u[2] \in Nat /\ u = <<u[1], u[2]>>
      BY FlowAssumption
    <3>2. CASE u[1] = i
      <4>1. s[u[1]] = r[i] + k
        BY <3>2
      <4>2. u \in New <=> u[2] \in Steps
        BY <3>1, <3>2
      <4> QED
        BY <1>1, <3>1, <3>2, <4>1, <4>2
    <3>3. CASE u[1] # i
      BY <3>1, <3>3
    <3> QED
      BY <3>2, <3>3
  <2>2. New \subseteq Intent \X (1..Amount)
    BY <1>1
  <2> QED
    BY <2>1, <2>2 DEF Units
<1>6. Units(r) \cap New = {}
  <2>1. ASSUME NEW u \in New
        PROVE  ~(u[2] <= r[u[1]])
    BY <1>1
  <2> QED
    BY <2>1 DEF Units
<1>7. Cardinality(Units(s)) = Cardinality(Units(r)) + k - Cardinality({})
  BY <1>4, <1>5, <1>6, UnitsFinite, FS_Union
<1> QED
  BY <1>1, <1>2, <1>7, UnitsFinite, FS_EmptySet

\* An intent refunded in whole accounts for the whole amount.
LEMMA WholeIntent ==
  ASSUME NEW r \in [Intent -> 0..Amount], NEW i \in Intent, r[i] = Amount
  PROVE  Cardinality(Units(r)) >= Amount
<1> DEFINE All == {i} \X (1..Amount)
<1>1. IsFiniteSet(1..Amount) /\ Cardinality(1..Amount) = Amount
  <2>1. Amount \in Nat /\ 1 <= Amount
    BY FlowAssumption
  <2>2. IsFiniteSet(1..Amount) /\ Cardinality(1..Amount) = Amount - 1 + 1
    BY <2>1, FS_Interval
  <2> QED
    BY <2>1, <2>2
<1>2. Cardinality(All) = Amount
  BY <1>1, UnitsOfOne
<1>3. All \in SUBSET Units(r)
  BY FlowAssumption DEF Units
<1>4. Cardinality(All) <= Cardinality(Units(r))
  BY <1>3, UnitsFinite, FS_Subset
<1> QED
  BY <1>2, <1>4, UnitsFinite, FlowAssumption

-----------------------------------------------------------------------------
(* What the copies and the phases owe to the money returned *)

\* k is backed by m units returned: its copy of the row claims no more, a
\* request on its way to a REFUNDED order has the whole amount behind it, and
\* so has a copy of a REFUNDED order.
HandlerBacked(k, m) ==
  /\ k.seen.refunded <= m
  /\ k.phase \in {"late", "void", "settle"} => Amount <= m
  /\ k.order.status = "REFUNDED" => Amount <= m

HandlersBacked == \A h \in Handler : HandlerBacked(handler[h], Returned)

Inv == TypeOK /\ RefundNeverOverstated /\ RefundedMeansRepaid /\ HandlersBacked

LEMMA ReturnedType == TypeOK => Returned \in Nat
  BY UnitsFinite DEF TypeOK, Returned

LEMMA IdleType == Idle \in HandlerState /\ Idle.seen = NoPayment /\ Idle.order = NewOrder
  BY FlowAssumption
  DEF Idle, HandlerState, Phase, NoPayment, Payment, NewOrder, Order, PaymentStatus

LEMMA IdleBacked == ASSUME NEW m \in Nat PROVE HandlerBacked(Idle, m)
  BY DEF Idle, NoPayment, NewOrder, HandlerBacked

\* What Stripe refunds, the sum gains; with no amount it is the whole charge.
LEMMA MoneyBack ==
  ASSUME TypeOK, NEW a \in 0..Amount, CanRefund(a), StripeRefunds(a)
  PROVE  /\ returned' \in [Intent -> 0..Amount]
         /\ Returned' = Returned + StripePart(a)
         /\ StripePart(a) \in 1..Amount
         /\ a = 0 => Amount <= Returned'
<1> DEFINE i == payment.intent
           k == StripePart(a)
<1>1. i \in Intent /\ returned \in [Intent -> 0..Amount] /\ Amount \in Nat
  BY FlowAssumption DEF TypeOK, CanRefund
<1>2. k \in 1..(Amount - returned[i])
  BY DEF CanRefund
<1>3. k \in 1..Amount /\ returned[i] + k <= Amount
  BY <1>1, <1>2
<1>4. returned' = [returned EXCEPT ![i] = @ + k]
  BY DEF StripeRefunds
<1> HIDE DEF k
<1>5. /\ returned' \in [Intent -> 0..Amount]
      /\ Cardinality(Units(returned')) = Cardinality(Units(returned)) + k
  BY <1>1, <1>3, <1>4, RefundAdds
<1>6. ASSUME a = 0 PROVE Amount <= Returned'
  <2>1. k = Amount - returned[i]
    BY <1>6 DEF k, StripePart
  <2>2. returned'[i] = Amount
    BY <1>1, <1>4, <2>1
  <2>3. Cardinality(Units(returned')) >= Amount
    BY <1>1, <1>5, <2>2, WholeIntent
  <2> QED
    BY <1>1, <1>5, <2>3, UnitsFinite DEF Returned
<1>7. Returned' = Returned + k
  BY <1>5 DEF Returned
<1> QED
  BY <1>3, <1>5, <1>6, <1>7 DEF k

\* payment.refund keeps the types, and adds what was asked for to the row.
LEMMA RefundType ==
  ASSUME TypeOK, NEW a \in 0..Amount, Refund(a)
  PROVE  /\ payment' \in Payment
         /\ returned' \in [Intent -> 0..Amount]
         /\ Requested(a) \in 1..Amount
         /\ payment'.refunded = payment.refunded + Requested(a)
<1>1. Amount \in Nat /\ payment \in Payment /\ payment.refunded \in 0..Amount
  BY FlowAssumption DEF TypeOK, Payment
<1>2. Requested(a) \in 1..(Amount - payment.refunded)
  BY DEF Refund, CanRefund
<1>3. Requested(a) \in 1..Amount /\ payment.refunded + Requested(a) \in 0..Amount
  BY <1>1, <1>2
<1>4. returned' \in [Intent -> 0..Amount]
  BY MoneyBack DEF Refund
<1> QED
  BY <1>1, <1>3, <1>4 DEF Refund, Payment, PaymentStatus

\* It claims no more than Stripe returned; a total refund, or one that names no
\* amount, has the whole amount behind it.
LEMMA RefundBacked ==
  ASSUME TypeOK, RefundNeverOverstated, NEW a \in 0..Amount, Refund(a)
  PROVE  /\ Returned \in Nat /\ Returned' \in Nat /\ Returned <= Returned'
         /\ payment'.refunded <= Returned'
         /\ Total(a) => Amount <= Returned'
         /\ a = 0 => Amount <= Returned'
<1>1. /\ Returned' = Returned + StripePart(a)
      /\ StripePart(a) \in 1..Amount
      /\ a = 0 => Amount <= Returned'
  BY MoneyBack DEF Refund
<1>2. /\ Requested(a) \in 1..Amount
      /\ payment'.refunded = payment.refunded + Requested(a)
      /\ payment' \in Payment
  BY RefundType
<1>3. Returned \in Nat /\ Amount \in Nat /\ payment.refunded \in 0..Amount
  BY ReturnedType, FlowAssumption DEF TypeOK, Payment
<1>4. payment'.refunded <= Returned'
  <2>1. CASE a = 0
    <3>1. payment'.refunded <= Amount
      BY <1>2, <1>3 DEF Payment
    <3> QED
      BY <1>1, <1>2, <1>3, <2>1, <3>1
  <2>2. CASE a # 0
    <3>1. Requested(a) = StripePart(a)
      BY <2>2 DEF Requested, StripePart
    <3> QED
      BY <1>1, <1>2, <1>3, <3>1 DEF RefundNeverOverstated
  <2> QED
    BY <2>1, <2>2
<1>5. Total(a) => Amount <= Returned'
  BY <1>2, <1>4 DEF Total
<1> QED
  BY <1>1, <1>3, <1>4, <1>5

-----------------------------------------------------------------------------
(* Types *)

LEMMA TypeInit == Init => TypeOK
<1> SUFFICES ASSUME Init PROVE TypeOK
  OBVIOUS
<1>1. Idle \in HandlerState
  BY IdleType
<1>2. payment \in Payment /\ order \in Order
  BY FlowAssumption DEF Init, NoPayment, Payment, PaymentStatus, NewOrder, Order
<1>3. returned \in [Intent -> 0..Amount] /\ handler \in [Handler -> HandlerState]
  BY <1>1, FlowAssumption DEF Init
<1>4. 0 \in 0..MaxIssues
  BY FlowAssumption
<1> QED
  BY <1>2, <1>3, <1>4 DEF Init, TypeOK

\* A request that goes on keeps its local variables.
LEMMA GoesType ==
  ASSUME TypeOK, NEW h \in Handler, NEW p \in Phase, Goes(h, p)
  PROVE  handler' \in [Handler -> HandlerState]
<1>1. handler[h] \in HandlerState
  BY DEF TypeOK
<1>2. [handler[h] EXCEPT !.phase = p] \in HandlerState
  BY <1>1 DEF HandlerState
<1> QED
  BY <1>2 DEF TypeOK, Goes

LEMMA EndsType ==
  ASSUME TypeOK, NEW h \in Handler, Ends(h)
  PROVE  handler' \in [Handler -> HandlerState]
  BY IdleType DEF TypeOK, Ends

LEMMA TypeStep == TypeOK /\ [Next]_vars => TypeOK'
<1> SUFFICES ASSUME TypeOK, [Next]_vars PROVE TypeOK'
  OBVIOUS
<1> USE DEF stripe, tickets
<1>0. /\ payment \in Payment /\ order \in Order
      /\ handler \in [Handler -> HandlerState]
      /\ \A h \in Handler : /\ handler[h] \in HandlerState
                            /\ handler[h].seen \in Payment /\ handler[h].order \in Order
  BY DEF TypeOK, HandlerState
<1>1. ASSUME NEW h \in Handler, CreateIntentRead(h) PROVE TypeOK'
  <2>1. [Idle EXCEPT !.phase = "intent", !.seen = payment] \in HandlerState
    BY <1>0, IdleType DEF HandlerState, Phase
  <2>2. handler' \in [Handler -> HandlerState]
    BY <1>0, <1>1, <2>1 DEF CreateIntentRead
  <2> QED
    BY <1>1, <2>2 DEF CreateIntentRead, TypeOK
<1>2. ASSUME NEW h \in Handler, NEW i \in Intent, CreateIntentSave(h, i) PROVE TypeOK'
  <2>1. handler' \in [Handler -> HandlerState]
    BY <1>2, EndsType DEF CreateIntentSave
  <2>2. payment' \in Payment /\ created \subseteq created' /\ created' \subseteq Intent
    BY <1>0, <1>2 DEF CreateIntentSave, TypeOK, Payment, PaymentStatus
  <2> QED
    BY <1>2, <2>1, <2>2 DEF CreateIntentSave, TypeOK
<1>3. ASSUME NEW i \in Intent, Pay(i) \/ Decline(i) PROVE TypeOK'
  BY <1>3 DEF Pay, Decline, Payable, TypeOK
<1>4. ASSUME NEW h \in Handler, NEW i \in Intent, ConfirmFind(h, i) PROVE TypeOK'
  <2>1. handler' \in [Handler -> HandlerState]
    BY <1>4, GoesType DEF ConfirmFind, Phase
  <2> QED
    BY <1>4, <2>1 DEF ConfirmFind, TypeOK
<1>5. ASSUME NEW h \in Handler, ConfirmMark(h) PROVE TypeOK'
  <2>1. handler' \in [Handler -> HandlerState]
    BY <1>5, GoesType, EndsType DEF ConfirmMark, Phase
  <2>2. payment' \in Payment
    BY <1>0, <1>5 DEF ConfirmMark, Payment, PaymentStatus
  <2> QED
    BY <1>5, <2>1, <2>2 DEF ConfirmMark, TypeOK
<1>6. ASSUME NEW h \in Handler, ConfirmOrder(h) PROVE TypeOK'
  <2>1. handler' \in [Handler -> HandlerState]
    BY <1>6, GoesType DEF ConfirmOrder, Phase
  <2>2. order' \in Order
    BY <1>0, <1>6 DEF ConfirmOrder, Order
  <2>3. payouts' \in 0..MaxIssues
    BY <1>6, FlowAssumption DEF ConfirmOrder, TypeOK
  <2> QED
    BY <1>6, <2>1, <2>2, <2>3 DEF ConfirmOrder, TypeOK
<1>7. ASSUME NEW h \in Handler, ConfirmRejected(h) PROVE TypeOK'
  <2>1. handler' \in [Handler -> HandlerState]
    BY <1>7, GoesType DEF ConfirmRejected, Phase
  <2> QED
    BY <1>7, <2>1 DEF ConfirmRejected, TypeOK
<1>8. ASSUME NEW h \in Handler, GenerateTickets(h) PROVE TypeOK'
  <2>1. handler' \in [Handler -> HandlerState]
    BY <1>8, EndsType DEF GenerateTickets
  <2>2. issued' \in 0..MaxIssues
    BY <1>8, FlowAssumption DEF GenerateTickets, TypeOK
  <2> QED
    BY <1>8, <2>1, <2>2 DEF GenerateTickets, TypeOK
<1>9. ASSUME NEW h \in Handler, RejectRefund(h) PROVE TypeOK'
  <2>1. handler' \in [Handler -> HandlerState]
    BY <1>9, GoesType, EndsType DEF RejectRefund, Phase
  <2>2. payment' \in Payment /\ returned' \in [Intent -> 0..Amount]
    <3>1. CASE Refund(0)
      BY <3>1, RefundType, FlowAssumption
    <3>2. CASE UNCHANGED <<payment, returned>>
      BY <3>2 DEF TypeOK
    <3> QED
      BY <1>9, <3>1, <3>2 DEF RejectRefund
  <2> QED
    BY <1>9, <2>1, <2>2 DEF RejectRefund, TypeOK
<1>10. ASSUME NEW h \in Handler, MarkLate(h) \/ SettleOrder(h) \/ RecordSave(h) PROVE TypeOK'
  <2>1. handler' \in [Handler -> HandlerState]
    BY <1>10, EndsType DEF MarkLate, SettleOrder, RecordSave
  <2>2. order' \in Order
    BY <1>0, <1>10 DEF MarkLate, SettleOrder, RecordSave, Order
  <2> QED
    BY <1>10, <2>1, <2>2 DEF MarkLate, SettleOrder, RecordSave, TypeOK
<1>11. ASSUME NEW h \in Handler, NEW a \in 0..Amount, RefundPayment(h, a) PROVE TypeOK'
  <2>1. handler' \in [Handler -> HandlerState]
    BY <1>11, GoesType DEF RefundPayment, Phase
  <2>2. payment' \in Payment /\ returned' \in [Intent -> 0..Amount]
    BY <1>11, RefundType DEF RefundPayment
  <2> QED
    BY <1>11, <2>1, <2>2 DEF RefundPayment, TypeOK
<1>12. ASSUME NEW h \in Handler, VoidTickets(h) PROVE TypeOK'
  <2>1. handler' \in [Handler -> HandlerState]
    BY <1>12, GoesType DEF VoidTickets, Phase
  <2> QED
    BY <1>12, <2>1 DEF VoidTickets, TypeOK
<1>13. ASSUME NEW h \in Handler, RecordRead(h) PROVE TypeOK'
  <2>1. [handler[h] EXCEPT !.phase = "save", !.order = order] \in HandlerState
    BY <1>0 DEF HandlerState, Phase
  <2>2. handler' = [handler EXCEPT ![h] = [handler[h] EXCEPT !.phase = "save", !.order = order]]
    BY <1>0, <1>13 DEF RecordRead
  <2>3. handler' \in [Handler -> HandlerState]
    BY <1>0, <2>1, <2>2
  <2> QED
    BY <1>13, <2>3 DEF RecordRead, TypeOK
<1>14. ASSUME NEW h \in Handler, NEW i \in Intent, FailRead(h, i) PROVE TypeOK'
  <2>1. [Idle EXCEPT !.phase = "fail", !.seen = payment] \in HandlerState
    BY <1>0, IdleType DEF HandlerState, Phase
  <2>2. handler' \in [Handler -> HandlerState]
    BY <1>0, <1>14, <2>1 DEF FailRead
  <2> QED
    BY <1>14, <2>2 DEF FailRead, TypeOK
<1>15. ASSUME NEW h \in Handler, FailSave(h) PROVE TypeOK'
  <2>1. handler' \in [Handler -> HandlerState]
    BY <1>15, EndsType DEF FailSave
  <2>2. payment' \in Payment
    BY <1>0, <1>15 DEF FailSave, Payment, PaymentStatus
  <2> QED
    BY <1>15, <2>1, <2>2 DEF FailSave, TypeOK
<1>16. ASSUME Abandon PROVE TypeOK'
  BY <1>0, <1>16 DEF Abandon, Order, TypeOK
<1>17. ASSUME NEW h \in Handler, Stop(h) PROVE TypeOK'
  <2>1. handler' \in [Handler -> HandlerState]
    BY <1>17, EndsType DEF Stop
  <2> QED
    BY <1>17, <2>1 DEF Stop, TypeOK
<1>18. ASSUME NEW a \in 0..Amount, RefundUnrecorded(a) PROVE TypeOK'
  <2>1. returned' \in [Intent -> 0..Amount]
    BY <1>18, MoneyBack DEF RefundUnrecorded
  <2> QED
    BY <1>18, <2>1 DEF RefundUnrecorded, TypeOK
<1>19. CASE UNCHANGED vars
  BY <1>19 DEF vars, TypeOK
<1> QED
  BY <1>1, <1>2, <1>3, <1>4, <1>5, <1>6, <1>7, <1>8, <1>9, <1>10, <1>11, <1>12, <1>13, <1>14,
     <1>15, <1>16, <1>17, <1>18, <1>19 DEF Next, Continue

\* The variables of the payment flow keep their types.
THEOREM TypeCorrect == Spec => []TypeOK
<1> QED
  BY TypeInit, TypeStep, PTL DEF Spec

-----------------------------------------------------------------------------
(* Backing *)

\* Money is only ever added: what backed k backs it still.
LEMMA BackedLater ==
  ASSUME NEW m \in Nat, NEW n \in Nat, m <= n, NEW k \in HandlerState, HandlerBacked(k, m)
  PROVE  HandlerBacked(k, n)
<1>1. k.seen.refunded \in Nat /\ Amount \in Nat
  BY FlowAssumption DEF HandlerState, Payment
<1> QED
  BY <1>1 DEF HandlerBacked

LEMMA InvInit == Init => Inv
<1> SUFFICES ASSUME Init PROVE Inv
  OBVIOUS
<1>1. TypeOK
  BY TypeInit
<1>2. Returned \in Nat
  BY <1>1, ReturnedType
<1>3. RefundNeverOverstated /\ RefundedMeansRepaid
  BY <1>2 DEF Init, NoPayment, NewOrder, RefundNeverOverstated, RefundedMeansRepaid
<1>4. HandlersBacked
  BY <1>2, IdleBacked DEF Init, HandlersBacked
<1> QED
  BY <1>1, <1>3, <1>4 DEF Inv

\* What each step of a request has to show: its row and its order are backed by
\* the money returned so far, and so is its next local state k.
LEMMA StepBacked ==
  ASSUME Inv, TypeOK', NEW h \in Handler, NEW k,
         handler' = [handler EXCEPT ![h] = k], HandlerBacked(k, Returned'),
         Returned <= Returned',
         payment'.refunded <= Returned',
         order'.status = "REFUNDED" => Amount <= Returned'
  PROVE  Inv'
<1>1. Returned \in Nat /\ Returned' \in Nat /\ Amount \in Nat
  BY UnitsFinite, FlowAssumption DEF Inv, TypeOK, Returned
<1>2. ASSUME NEW g \in Handler PROVE HandlerBacked(handler'[g], Returned')
  <2>1. handler[g] \in HandlerState /\ HandlerBacked(handler[g], Returned)
    BY DEF Inv, TypeOK, HandlersBacked
  <2>2. HandlerBacked(handler[g], Returned')
    BY <1>1, <2>1, BackedLater
  <2>3. handler'[g] = k \/ handler'[g] = handler[g]
    BY DEF Inv, TypeOK
  <2> QED
    BY <2>2, <2>3
<1>3. HandlersBacked'
  BY <1>2 DEF HandlersBacked
<1>4. RefundNeverOverstated' /\ RefundedMeansRepaid'
  BY <1>1 DEF RefundNeverOverstated, RefundedMeansRepaid
<1> QED
  BY <1>3, <1>4 DEF Inv

\* A step that ends a request or moves it to a phase that owes nothing.
LEMMA QuietStepBacked ==
  ASSUME Inv, TypeOK', UNCHANGED returned, NEW h \in Handler,
         \/ Ends(h)
         \/ \E p \in Phase \ {"late", "void", "settle"} : Goes(h, p),
         payment'.refunded <= Returned,
         order'.status = "REFUNDED" => Amount <= Returned
  PROVE  Inv'
<1>1. Returned' = Returned /\ Returned \in Nat
  BY ReturnedType DEF Inv, Returned
<1>2. HandlerBacked(handler[h], Returned)
  BY DEF Inv, HandlersBacked
<1>5. /\ Returned <= Returned'
      /\ payment'.refunded <= Returned'
      /\ order'.status = "REFUNDED" => Amount <= Returned'
  BY <1>1
<1>3. CASE Ends(h)
  <2>1. HandlerBacked(Idle, Returned') /\ handler' = [handler EXCEPT ![h] = Idle]
    BY <1>1, <1>3, IdleBacked DEF Ends
  <2> QED
    BY <1>5, <2>1, StepBacked
<1>4. ASSUME NEW p \in Phase \ {"late", "void", "settle"}, Goes(h, p) PROVE Inv'
  <2> DEFINE k == [handler[h] EXCEPT !.phase = p]
  <2>1. k.phase = p /\ k.seen = handler[h].seen /\ k.order = handler[h].order
    BY DEF Inv, TypeOK, HandlerState
  <2>2. HandlerBacked(k, Returned')
    BY <1>1, <1>2, <2>1 DEF HandlerBacked
  <2>3. handler' = [handler EXCEPT ![h] = k]
    BY <1>4 DEF Goes
  <2> HIDE DEF k
  <2> QED
    BY <1>5, <2>2, <2>3, StepBacked
<1> QED
  BY <1>3, <1>4

LEMMA InvStep == Inv /\ [Next]_vars => Inv'
<1> SUFFICES ASSUME Inv, [Next]_vars PROVE Inv'
  OBVIOUS
<1> USE DEF stripe, tickets
<1>0. TypeOK /\ TypeOK' /\ Returned \in Nat /\ Amount \in Nat
  BY TypeStep, ReturnedType, FlowAssumption DEF Inv
<1>1. /\ payment.refunded <= Returned
      /\ order.status = "REFUNDED" => Amount <= Returned
      /\ \A h \in Handler : HandlerBacked(handler[h], Returned)
  BY DEF Inv, RefundNeverOverstated, RefundedMeansRepaid, HandlersBacked
<1>2. UNCHANGED returned => Returned' = Returned
  BY DEF Returned
<1>3. payment \in Payment /\ order \in Order /\ handler \in [Handler -> HandlerState]
  BY <1>0 DEF TypeOK
<1>4. ASSUME NEW h \in Handler, CreateIntentRead(h) \/ \E i \in Intent : FailRead(h, i)
      PROVE  Inv'
  <2>1. PICK p \in {"intent", "fail"} :
          handler' = [handler EXCEPT ![h] = [Idle EXCEPT !.phase = p, !.seen = payment]]
    BY <1>4 DEF CreateIntentRead, FailRead
  <2> DEFINE k == [Idle EXCEPT !.phase = p, !.seen = payment]
  <2>2. k.phase = p /\ k.seen = payment /\ k.order = NewOrder
    BY DEF Idle
  <2>3. HandlerBacked(k, Returned)
    BY <1>1, <2>2 DEF HandlerBacked, NewOrder
  <2>4. UNCHANGED <<payment, order, returned>>
    BY <1>4 DEF CreateIntentRead, FailRead
  <2> HIDE DEF k
  <2>5. /\ HandlerBacked(k, Returned') /\ handler' = [handler EXCEPT ![h] = k]
        /\ Returned <= Returned' /\ payment'.refunded <= Returned'
        /\ order'.status = "REFUNDED" => Amount <= Returned'
    BY <1>0, <1>1, <1>2, <2>1, <2>3, <2>4 DEF k
  <2> QED
    BY <1>0, <2>5, StepBacked
\* A copy of the row claims no more than what was returned when it was read.
<1>5. ASSUME NEW h \in Handler, FailSave(h) \/ \E i \in Intent : CreateIntentSave(h, i)
      PROVE  Inv'
  <2>1. handler[h].seen \in Payment /\ handler[h].seen.refunded <= Returned
    BY <1>1, <1>3 DEF HandlerState, HandlerBacked
  <2>2. payment'.refunded <= Returned
    BY <1>1, <1>3, <1>5, <2>1 DEF FailSave, CreateIntentSave, Payment
  <2>3. UNCHANGED <<order, returned>> /\ Ends(h)
    BY <1>5 DEF FailSave, CreateIntentSave
  <2> QED
    BY <1>0, <1>1, <2>2, <2>3, QuietStepBacked
<1>6. ASSUME NEW i \in Intent, Pay(i) \/ Decline(i) PROVE Inv'
  <2>1. UNCHANGED <<payment, order, returned, handler>>
    BY <1>6 DEF Pay, Decline
  <2> QED
    BY <1>0, <1>1, <1>2, <2>1
    DEF Inv, RefundNeverOverstated, RefundedMeansRepaid, HandlersBacked
<1>7. ASSUME NEW h \in Handler,
             \/ \E i \in Intent : ConfirmFind(h, i)
             \/ ConfirmMark(h) \/ ConfirmRejected(h) \/ GenerateTickets(h) \/ Stop(h)
      PROVE  Inv'
  <2>1. UNCHANGED <<order, returned>> /\ payment'.refunded = payment.refunded
    BY <1>3, <1>7 DEF ConfirmFind, ConfirmMark, ConfirmRejected, GenerateTickets, Stop, Payment
  <2>2. Ends(h) \/ \E p \in {"mark", "confirm", "reject"} : Goes(h, p)
    BY <1>7 DEF ConfirmFind, ConfirmMark, ConfirmRejected, GenerateTickets, Stop
  <2>3. {"mark", "confirm", "reject"} \subseteq Phase \ {"late", "void", "settle"}
    BY DEF Phase
  <2> QED
    BY <1>0, <1>1, <2>1, <2>2, <2>3, QuietStepBacked
<1>8. ASSUME NEW h \in Handler, ConfirmOrder(h) PROVE Inv'
  <2>1. UNCHANGED <<payment, returned>>
    BY <1>8 DEF ConfirmOrder
  <2>2. order' = order \/ order'.status = "CONFIRMED"
    BY <1>8 DEF ConfirmOrder
  <2>3. Goes(h, "generate") /\ "generate" \in Phase \ {"late", "void", "settle"}
    BY <1>8 DEF ConfirmOrder, Phase
  <2> QED
    BY <1>0, <1>1, <2>1, <2>2, <2>3, QuietStepBacked
\* The whole amount was returned before the order can be marked REFUNDED.
<1>9. ASSUME NEW h \in Handler, MarkLate(h) \/ SettleOrder(h) \/ RecordSave(h) PROVE Inv'
  <2>1. UNCHANGED <<payment, returned>> /\ Ends(h)
    BY <1>9 DEF MarkLate, SettleOrder, RecordSave
  <2>2. order'.status = "REFUNDED" => Amount <= Returned
    BY <1>1, <1>9 DEF MarkLate, SettleOrder, RecordSave, HandlerBacked, In
  <2> QED
    BY <1>0, <1>1, <2>1, <2>2, QuietStepBacked
<1>10. ASSUME NEW h \in Handler, NEW a \in 0..Amount, NEW p \in {"late", "void", "record"},
              Refund(a), Goes(h, p), UNCHANGED order,
              p = "late" => a = 0, p = "void" => Total(a)
       PROVE  Inv'
  <2>1. /\ Returned' \in Nat /\ Returned <= Returned'
        /\ payment'.refunded <= Returned'
        /\ p \in {"late", "void"} => Amount <= Returned'
    BY <1>0, <1>10, RefundBacked DEF Inv
  <2> DEFINE k == [handler[h] EXCEPT !.phase = p]
  <2>2. handler[h] \in HandlerState /\ HandlerBacked(handler[h], Returned')
    BY <1>0, <1>1, <1>3, <2>1, BackedLater
  <2>3. k.phase = p /\ k.seen = handler[h].seen /\ k.order = handler[h].order
    BY <2>2 DEF HandlerState
  <2>4. HandlerBacked(k, Returned')
    BY <2>1, <2>2, <2>3 DEF HandlerBacked
  <2>5. handler' = [handler EXCEPT ![h] = k]
    BY <1>10 DEF Goes
  <2>6. order'.status = "REFUNDED" => Amount <= Returned'
    BY <1>0, <1>1, <1>10, <2>1
  <2> HIDE DEF k
  <2> QED
    BY <1>0, <2>1, <2>4, <2>5, <2>6, StepBacked
<1>11. ASSUME NEW h \in Handler, RejectRefund(h) PROVE Inv'
  <2>1. CASE Refund(0) /\ Goes(h, "late")
    BY <1>0, <1>10, <1>11, <2>1 DEF RejectRefund
  <2>2. CASE Ends(h) /\ UNCHANGED <<payment, returned>>
    BY <1>0, <1>1, <1>11, <2>2, QuietStepBacked DEF RejectRefund
  <2> QED
    BY <1>11, <2>1, <2>2 DEF RejectRefund
<1>12. ASSUME NEW h \in Handler, NEW a \in 0..Amount, RefundPayment(h, a) PROVE Inv'
  <2>1. CASE Total(a)
    BY <1>10, <1>12, <2>1 DEF RefundPayment
  <2>2. CASE ~Total(a)
    BY <1>10, <1>12, <2>2 DEF RefundPayment
  <2> QED
    BY <2>1, <2>2
<1>13. ASSUME NEW h \in Handler, VoidTickets(h) PROVE Inv'
  <2> DEFINE k == [handler[h] EXCEPT !.phase = "settle"]
  <2>1. UNCHANGED <<payment, order, returned>> /\ handler' = [handler EXCEPT ![h] = k]
    BY <1>13 DEF VoidTickets, Goes
  <2>2. k.phase = "settle" /\ k.seen = handler[h].seen /\ k.order = handler[h].order
    BY <1>3 DEF HandlerState
  <2>3. HandlerBacked(k, Returned)
    BY <1>1, <1>13, <2>2 DEF HandlerBacked, VoidTickets, In
  <2> HIDE DEF k
  <2>4. /\ HandlerBacked(k, Returned')
        /\ Returned <= Returned' /\ payment'.refunded <= Returned'
        /\ order'.status = "REFUNDED" => Amount <= Returned'
    BY <1>0, <1>1, <1>2, <2>1, <2>3
  <2> QED
    BY <1>0, <2>1, <2>4, StepBacked
<1>14. ASSUME NEW h \in Handler, RecordRead(h) PROVE Inv'
  <2> DEFINE k == [handler[h] EXCEPT !.phase = "save", !.order = order]
  <2>1. UNCHANGED <<payment, order, returned>> /\ handler' = [handler EXCEPT ![h] = k]
    BY <1>3, <1>14 DEF RecordRead
  <2>2. k.phase = "save" /\ k.seen = handler[h].seen /\ k.order = order
    BY <1>3 DEF HandlerState
  <2>3. HandlerBacked(k, Returned)
    BY <1>1, <2>2 DEF HandlerBacked
  <2> HIDE DEF k
  <2>4. /\ HandlerBacked(k, Returned')
        /\ Returned <= Returned' /\ payment'.refunded <= Returned'
        /\ order'.status = "REFUNDED" => Amount <= Returned'
    BY <1>0, <1>1, <1>2, <2>1, <2>3
  <2> QED
    BY <1>0, <2>1, <2>4, StepBacked
<1>15. CASE Abandon
  <2>1. UNCHANGED <<payment, returned, handler>> /\ order'.status # "REFUNDED"
    BY <1>3, <1>15 DEF Abandon, Order
  <2> QED
    BY <1>0, <1>1, <1>2, <2>1
    DEF Inv, RefundNeverOverstated, RefundedMeansRepaid, HandlersBacked
<1>16. ASSUME NEW a \in 0..Amount, RefundUnrecorded(a) PROVE Inv'
  <2>1. UNCHANGED <<payment, order, handler>>
    BY <1>16 DEF RefundUnrecorded
  <2>2. Returned' \in Nat /\ Returned <= Returned'
    BY <1>0, <1>16, MoneyBack DEF RefundUnrecorded
  <2>3. payment.refunded <= Returned' /\ (order.status = "REFUNDED" => Amount <= Returned')
    BY <1>0, <1>1, <1>3, <2>2 DEF Payment
  <2>4. \A h \in Handler : HandlerBacked(handler[h], Returned')
    BY <1>0, <1>1, <1>3, <2>2, BackedLater
  <2> QED
    BY <1>0, <2>1, <2>3, <2>4
    DEF Inv, RefundNeverOverstated, RefundedMeansRepaid, HandlersBacked
<1>17. CASE UNCHANGED vars
  <2>1. UNCHANGED <<payment, order, returned, handler>>
    BY <1>17 DEF vars
  <2> QED
    BY <1>0, <1>1, <1>2, <2>1
    DEF Inv, RefundNeverOverstated, RefundedMeansRepaid, HandlersBacked
<1> QED
  BY <1>4, <1>5, <1>6, <1>7, <1>8, <1>9, <1>11, <1>12, <1>13, <1>14, <1>15, <1>16, <1>17
  DEF Next, Continue

LEMMA InvAlways == Spec => []Inv
<1> QED
  BY InvInit, InvStep, PTL DEF Spec

\* Whatever overlaps, the payment row never claims a refund that Stripe did not
\* make: a stop between Stripe and the row loses trace of money sent back, never
\* the reverse.
THEOREM RefundsNeverOverstated == Spec => []RefundNeverOverstated
<1>1. Inv => RefundNeverOverstated
  BY DEF Inv
<1> QED
  BY <1>1, InvAlways, PTL

\* An order shown as refunded was paid back in whole, by whichever route.
THEOREM RefundedOrdersAreRepaid == Spec => []RefundedMeansRepaid
<1>1. Inv => RefundedMeansRepaid
  BY DEF Inv
<1> QED
  BY <1>1, InvAlways, PTL
-----------------------------------------------------------------------------
(* A payment is confirmed once                                                 *)
(*                                                                             *)
(* The update that marks the row PAID lets one delivery through as long as the *)
(* row never leaves the paid statuses.  Prompt leaves out what can take it out *)
(* of them: a success delivered after a refund, a decline saved over it, a     *)
(* second payment page.                                                        *)

Prompt == {"replay", "late_failure", "two_intents"} \cap Overlaps = {}

Held == {"PAID", "PARTIALLY_REFUNDED", "REFUNDED"}
Marked == payment.status \in Held
Given == {"confirm", "generate"}   \* phases of the delivery that was let through

HandlerOnce(k) ==
  /\ k.phase = "mark" => charged # {} /\ payment.status \notin {"PARTIALLY_REFUNDED", "REFUNDED"}
  /\ k.phase = "fail" => charged = {}
  /\ k.phase = "intent" => charged = {} /\ k.seen.status \notin Held
  /\ k.phase \in Given => Marked /\ issued = 0 /\ (k.phase = "confirm" => payouts = 0)

Apart(j, k) == ~(j.phase \in Given /\ k.phase \in Given)

RowOnce ==
  /\ payment.status \in {"PARTIALLY_REFUNDED", "REFUNDED"} => payment.refunded # 0
  /\ Marked => charged # {}
  /\ ~Marked => issued = 0 /\ payouts = 0

Once ==
  /\ TypeOK /\ RowOnce /\ IssuedOnce
  /\ \A h \in Handler : HandlerOnce(handler[h])
  /\ \A g, h \in Handler : g # h => Apart(handler[g], handler[h])

LEMMA OnceInit == Init => Once
<1> SUFFICES ASSUME Init PROVE Once
  OBVIOUS
<1>1. TypeOK
  BY TypeInit
<1> QED
  BY <1>1 DEF Init, Once, RowOnce, IssuedOnce, Marked, Held, Given, HandlerOnce, Apart, Idle, NoPayment

\* A request's step, k its next local state, has to show that k fits the rows and
\* the other requests, and that it leaves the rows as the others need them.
LEMMA StepOnce ==
  ASSUME Once, TypeOK', NEW h \in Handler, NEW k, handler' = [handler EXCEPT ![h] = k],
         RowOnce', IssuedOnce', HandlerOnce(k)',
         \A g \in Handler \ {h} :
           HandlerOnce(handler[g])' /\ Apart(handler[g], k) /\ Apart(k, handler[g])
  PROVE  Once'
<1>1. handler'[h] = k /\ \A g \in Handler \ {h} : handler'[g] = handler[g]
  BY DEF Once, TypeOK
<1> QED
  BY <1>1 DEF Once, HandlerOnce, Apart, Given, Held
\* The next local state of a request that goes on, or ends.
LEMMA NextLocal ==
  ASSUME TypeOK, NEW h \in Handler
  PROVE  /\ \A p : Goes(h, p) => \E k : k.phase = p /\ handler' = [handler EXCEPT ![h] = k]
         /\ Ends(h) => \E k : k.phase = "idle" /\ handler' = [handler EXCEPT ![h] = k]
         /\ RecordRead(h) => \E k : k.phase = "save" /\ handler' = [handler EXCEPT ![h] = k]
<1>1. ASSUME NEW p, Goes(h, p) PROVE \E k : k.phase = p /\ handler' = [handler EXCEPT ![h] = k]
  <2> DEFINE k == [handler[h] EXCEPT !.phase = p]
  <2>1. handler[h] \in HandlerState
    BY DEF TypeOK
  <2>2. k.phase = p
    BY <2>1 DEF HandlerState
  <2>3. handler' = [handler EXCEPT ![h] = k]
    BY <1>1 DEF Goes
  <2> HIDE DEF k
  <2> QED
    BY <2>2, <2>3
<1>2. Ends(h) => \E k : k.phase = "idle" /\ handler' = [handler EXCEPT ![h] = k]
  <2>1. Idle.phase = "idle"
    BY DEF Idle
  <2> QED
    BY <2>1 DEF Ends
<1>3. ASSUME RecordRead(h) PROVE \E k : k.phase = "save" /\ handler' = [handler EXCEPT ![h] = k]
  <2> DEFINE k == [handler[h] EXCEPT !.phase = "save", !.order = order]
  <2>1. k.phase = "save"
    BY DEF TypeOK, HandlerState
  <2>2. handler' = [handler EXCEPT ![h] = k]
    BY <1>3 DEF RecordRead, TypeOK
  <2> HIDE DEF k
  <2> QED
    BY <2>1, <2>2
<1> QED
  BY <1>1, <1>2, <1>3

\* A step that leaves the row, the issues and the charges alone, and whose
\* request goes to a phase that asks nothing of them.
LEMMA FreeStepOnce ==
  ASSUME Once, TypeOK', UNCHANGED <<payment, charged, issued, payouts>>,
         NEW h \in Handler, NEW k, handler' = [handler EXCEPT ![h] = k],
         k.phase \notin {"mark", "fail", "intent", "confirm", "generate"}
  PROVE  Once'
<1>1. RowOnce' /\ IssuedOnce'
  BY DEF Once, RowOnce, IssuedOnce, Marked
<1>2. HandlerOnce(k)'
  BY DEF HandlerOnce, Given
<1>3. \A g \in Handler \ {h} : handler'[g] = handler[g]
  BY DEF Once, TypeOK
<1>4. \A g \in Handler \ {h} :
        HandlerOnce(handler[g])' /\ Apart(handler[g], k) /\ Apart(k, handler[g])
  BY <1>3 DEF Once, HandlerOnce, Apart, Marked, Given
<1> QED
  BY <1>1, <1>2, <1>4, StepOnce

\* A refund takes the row from one paid status to another.
LEMMA RefundStepOnce ==
  ASSUME Once, TypeOK', UNCHANGED <<charged, issued, payouts>>, NEW a \in 0..Amount, Refund(a),
         ~Busy({"mark"}),
         NEW h \in Handler, NEW k, handler' = [handler EXCEPT ![h] = k],
         k.phase \notin {"mark", "fail", "intent", "confirm", "generate"}
  PROVE  Once'
<1>1. /\ payment.status \in {"PAID", "PARTIALLY_REFUNDED"}
      /\ payment'.status \in {"PARTIALLY_REFUNDED", "REFUNDED"} /\ payment'.refunded # 0
  <2>1. payment \in Payment /\ payment.refunded \in Nat /\ Requested(a) \in Nat \ {0}
    BY RefundType, FlowAssumption DEF Once, TypeOK, Payment
  <2>2. payment'.refunded = payment.refunded + Requested(a)
    BY RefundType DEF Once
  <2> QED
    BY <2>1, <2>2 DEF Refund, CanRefund, Payment
<1>2. Marked /\ Marked'
  BY <1>1 DEF Marked, Held
<1>3. RowOnce' /\ IssuedOnce'
  BY <1>1, <1>2 DEF Once, RowOnce, IssuedOnce
<1>4. HandlerOnce(k)'
  BY DEF HandlerOnce, Given
<1>5. \A g \in Handler \ {h} : handler'[g] = handler[g]
  BY DEF Once, TypeOK
<1>6. \A g \in Handler \ {h} :
        HandlerOnce(handler[g])' /\ Apart(handler[g], k) /\ Apart(k, handler[g])
  BY <1>2, <1>5 DEF Once, HandlerOnce, Apart, Given, Busy
<1> QED
  BY <1>3, <1>4, <1>6, StepOnce

LEMMA OnceStep ==
  ASSUME Prompt, Once, [Next]_vars
  PROVE  Once'
<1> USE DEF stripe, tickets
<1>0. /\ TypeOK /\ TypeOK' /\ RowOnce /\ IssuedOnce
      /\ \A h \in Handler : handler[h] \in HandlerState /\ HandlerOnce(handler[h])
      /\ \A g, h \in Handler : g # h => Apart(handler[g], handler[h])
      /\ payment \in Payment /\ Idle.phase = "idle"
  BY TypeStep DEF Once, TypeOK, Idle
<1>1. ASSUME NEW h \in Handler, CreateIntentRead(h) PROVE Once'
  <2>1. PICK k : /\ k.phase = "intent" /\ k.seen = payment
                 /\ handler' = [handler EXCEPT ![h] = k]
    BY <1>1 DEF CreateIntentRead, Idle
  <2>2. UNCHANGED <<payment, charged, issued, payouts>> /\ charged = {}
    BY <1>1 DEF CreateIntentRead, Prompt
  <2>3. RowOnce' /\ IssuedOnce' /\ HandlerOnce(k)'
    BY <1>0, <2>1, <2>2 DEF RowOnce, IssuedOnce, Marked, HandlerOnce, Given
  <2>4. \A g \in Handler \ {h} :
          HandlerOnce(handler[g])' /\ Apart(handler[g], k) /\ Apart(k, handler[g])
    <3>1. \A g \in Handler \ {h} : handler'[g] = handler[g]
      BY <2>1
    <3> QED
      BY <1>0, <2>1, <2>2, <3>1 DEF HandlerOnce, Apart, Marked, Given
  <2> QED
    BY <1>0, <2>1, <2>3, <2>4, StepOnce
\* The copy that a new page saves is not paid: no page is opened once charged.
<1>2. ASSUME NEW h \in Handler, NEW i \in Intent, CreateIntentSave(h, i) PROVE Once'
  <2>1. PICK k : k.phase = "idle" /\ handler' = [handler EXCEPT ![h] = k]
    BY <1>0, <1>2, NextLocal DEF CreateIntentSave
  <2>2. charged = {} /\ UNCHANGED <<charged, issued, payouts>> /\ ~Marked
    BY <1>0, <1>2 DEF CreateIntentSave, In, HandlerOnce, RowOnce
  <2>3. ~Marked'
    BY <1>0, <1>2, <2>2 DEF CreateIntentSave, In, HandlerOnce, Marked, Held, HandlerState, Payment
  <2>4. RowOnce' /\ IssuedOnce' /\ HandlerOnce(k)'
    BY <1>0, <2>1, <2>2, <2>3 DEF RowOnce, IssuedOnce, Marked, Held, HandlerOnce, Given
  <2>5. \A g \in Handler \ {h} :
          HandlerOnce(handler[g])' /\ Apart(handler[g], k) /\ Apart(k, handler[g])
    <3>1. \A g \in Handler \ {h} : handler'[g] = handler[g]
      BY <2>1
    <3> QED
      BY <1>0, <2>1, <2>2, <2>3, <3>1 DEF HandlerOnce, Apart, Marked, Held, Given
  <2> QED
    BY <1>0, <2>1, <2>4, <2>5, StepOnce
<1>3. ASSUME NEW i \in Intent, Pay(i) \/ Decline(i) PROVE Once'
  <2>1. UNCHANGED <<payment, issued, payouts, handler>> /\ charged \subseteq charged'
    BY <1>3 DEF Pay, Decline
  <2>2. charged' = charged \/ (~Busy({"intent"}) /\ ~Busy({"fail"}))
    BY <1>3 DEF Pay, Decline, Payable, Prompt
  <2> QED
    BY <1>0, <2>1, <2>2 DEF Once, RowOnce, IssuedOnce, Marked, HandlerOnce, Apart, Given, Busy
<1>4. ASSUME NEW h \in Handler, NEW i \in Intent, ConfirmFind(h, i) PROVE Once'
  <2>1. PICK k : k.phase = "mark" /\ handler' = [handler EXCEPT ![h] = k]
    BY <1>0, <1>4, NextLocal DEF ConfirmFind
  <2>2. /\ UNCHANGED <<payment, charged, issued, payouts>>
        /\ charged # {} /\ payment.refunded = 0
    BY <1>4 DEF ConfirmFind, Prompt
  <2>3. RowOnce' /\ IssuedOnce' /\ HandlerOnce(k)'
    BY <1>0, <2>1, <2>2 DEF RowOnce, IssuedOnce, Marked, HandlerOnce, Given
  <2>4. \A g \in Handler \ {h} :
          HandlerOnce(handler[g])' /\ Apart(handler[g], k) /\ Apart(k, handler[g])
    <3>1. \A g \in Handler \ {h} : handler'[g] = handler[g]
      BY <2>1
    <3> QED
      BY <1>0, <2>1, <2>2, <3>1 DEF HandlerOnce, Apart, Marked, Given, Busy
  <2> QED
    BY <1>0, <2>1, <2>3, <2>4, StepOnce
\* The update lets the first delivery through; the row is paid for the others.
<1>5. ASSUME NEW h \in Handler, ConfirmMark(h) PROVE Once'
  <2>1. /\ handler[h].phase = "mark" /\ charged # {}
        /\ payment.status \notin {"PARTIALLY_REFUNDED", "REFUNDED"}
        /\ payment' = [payment EXCEPT !.status = "PAID"] /\ UNCHANGED <<charged, issued, payouts>>
    BY <1>0, <1>5 DEF ConfirmMark, In, HandlerOnce
  <2>2. payment'.status = "PAID" /\ (Marked <=> payment.status = "PAID")
    BY <1>0, <2>1 DEF Payment, Marked, Held
  <2>3. CASE payment.status = "PAID"
    <3>1. payment' = payment
      BY <1>0, <2>1, <2>3 DEF Payment
    <3>2. PICK k : k.phase = "idle" /\ handler' = [handler EXCEPT ![h] = k]
      BY <1>0, <1>5, <2>3 DEF ConfirmMark, Ends
    <3> QED
      BY <1>0, <2>1, <3>1, <3>2, FreeStepOnce
  <2>4. CASE payment.status # "PAID"
    <3>1. PICK k : k.phase = "confirm" /\ handler' = [handler EXCEPT ![h] = k]
      BY <1>0, <1>5, <2>4, NextLocal DEF ConfirmMark
    <3>2. ~Marked /\ Marked' /\ issued = 0 /\ payouts = 0
      BY <1>0, <2>2, <2>4 DEF RowOnce, Marked, Held
    <3>3. RowOnce' /\ IssuedOnce' /\ HandlerOnce(k)'
      BY <1>0, <2>1, <2>2, <3>1, <3>2 DEF RowOnce, IssuedOnce, HandlerOnce
    <3>4. \A g \in Handler \ {h} :
            HandlerOnce(handler[g])' /\ Apart(handler[g], k) /\ Apart(k, handler[g])
      <4>1. \A g \in Handler \ {h} : handler'[g] = handler[g]
        BY <3>1
      <4> QED
        BY <1>0, <2>1, <2>2, <3>1, <3>2, <4>1 DEF HandlerOnce, Apart, Given
    <3> QED
      BY <1>0, <3>1, <3>3, <3>4, StepOnce
  <2> QED
    BY <2>3, <2>4
<1>6. ASSUME NEW h \in Handler, ConfirmOrder(h) PROVE Once'
  <2>1. PICK k : k.phase = "generate" /\ handler' = [handler EXCEPT ![h] = k]
    BY <1>0, <1>6, NextLocal DEF ConfirmOrder
  <2>2. /\ UNCHANGED <<payment, charged, issued>> /\ payouts' \in {0, 1}
        /\ handler[h].phase = "confirm" /\ Marked /\ issued = 0
    <3>1. payouts = 0 /\ handler[h].phase = "confirm" /\ Marked /\ issued = 0
      BY <1>0, <1>6 DEF ConfirmOrder, In, HandlerOnce, Given
    <3> QED
      BY <1>6, <3>1 DEF ConfirmOrder
  <2>3. RowOnce' /\ IssuedOnce' /\ HandlerOnce(k)'
    BY <1>0, <2>1, <2>2 DEF RowOnce, IssuedOnce, Marked, HandlerOnce, Given
  <2>4. \A g \in Handler \ {h} :
          HandlerOnce(handler[g])' /\ Apart(handler[g], k) /\ Apart(k, handler[g])
    <3>1. \A g \in Handler \ {h} : handler'[g] = handler[g]
      BY <2>1
    <3> QED
      BY <1>0, <2>1, <2>2, <3>1 DEF HandlerOnce, Apart, Marked, Given
  <2> QED
    BY <1>0, <2>1, <2>3, <2>4, StepOnce
<1>7. ASSUME NEW h \in Handler, GenerateTickets(h) PROVE Once'
  <2>1. PICK k : k.phase = "idle" /\ handler' = [handler EXCEPT ![h] = k]
    BY <1>0, <1>7, NextLocal DEF GenerateTickets
  <2>2. /\ UNCHANGED <<payment, charged, payouts>> /\ issued' = 1
        /\ handler[h].phase = "generate" /\ Marked
    BY <1>0, <1>7 DEF GenerateTickets, In, HandlerOnce, Given
  <2>3. RowOnce' /\ IssuedOnce' /\ HandlerOnce(k)'
    BY <1>0, <2>1, <2>2 DEF RowOnce, IssuedOnce, Marked, HandlerOnce, Given
  <2>4. \A g \in Handler \ {h} :
          HandlerOnce(handler[g])' /\ Apart(handler[g], k) /\ Apart(k, handler[g])
    <3>1. \A g \in Handler \ {h} : handler'[g] = handler[g]
      BY <2>1
    <3> QED
      BY <1>0, <2>1, <2>2, <3>1 DEF HandlerOnce, Apart, Marked, Given
  <2> QED
    BY <1>0, <2>1, <2>3, <2>4, StepOnce
<1>8. ASSUME NEW h \in Handler,
             \/ ConfirmRejected(h) \/ MarkLate(h) \/ VoidTickets(h) \/ SettleOrder(h)
             \/ RecordRead(h) \/ RecordSave(h) \/ Stop(h)
      PROVE  Once'
  <2>1. UNCHANGED <<payment, charged, issued, payouts>>
    BY <1>8 DEF ConfirmRejected, MarkLate, VoidTickets, SettleOrder, RecordRead, RecordSave, Stop
  <2>2. PICK k : /\ k.phase \in {"idle", "reject", "settle", "save"}
                 /\ handler' = [handler EXCEPT ![h] = k]
    <3>1. CASE RecordRead(h)
      BY <1>0, <3>1, NextLocal
    <3>2. CASE ConfirmRejected(h) \/ VoidTickets(h)
      <4>1. PICK p \in {"reject", "settle"} : Goes(h, p)
        BY <3>2 DEF ConfirmRejected, VoidTickets
      <4> QED
        BY <1>0, <4>1, NextLocal
    <3>3. CASE MarkLate(h) \/ SettleOrder(h) \/ RecordSave(h) \/ Stop(h)
      BY <1>0, <3>3 DEF MarkLate, SettleOrder, RecordSave, Stop, Ends
    <3> QED
      BY <1>8, <3>1, <3>2, <3>3
  <2> QED
    BY <1>0, <2>1, <2>2, FreeStepOnce
<1>9. ASSUME NEW h \in Handler, RejectRefund(h) PROVE Once'
  <2>1. PICK k : k.phase \in {"late", "idle"} /\ handler' = [handler EXCEPT ![h] = k]
    BY <1>0, <1>9 DEF RejectRefund, Goes, Ends, HandlerState
  <2>2. UNCHANGED <<charged, issued, payouts>> /\ ~Busy({"mark"})
    BY <1>9 DEF RejectRefund, Prompt
  <2>3. CASE Refund(0)
    <3>1. 0 \in 0..Amount
      BY FlowAssumption
    <3> QED
      BY <1>0, <2>1, <2>2, <2>3, <3>1, RefundStepOnce
  <2>4. CASE UNCHANGED payment
    BY <1>0, <2>1, <2>2, <2>4, FreeStepOnce
  <2> QED
    BY <1>9, <2>3, <2>4 DEF RejectRefund
<1>10. ASSUME NEW h \in Handler, NEW a \in 0..Amount, RefundPayment(h, a) PROVE Once'
  <2>1. PICK k : k.phase \in {"void", "record"} /\ handler' = [handler EXCEPT ![h] = k]
    <3>1. PICK p \in {"void", "record"} : Goes(h, p)
      BY <1>10 DEF RefundPayment
    <3> QED
      BY <1>0, <3>1, NextLocal
  <2>2. UNCHANGED <<charged, issued, payouts>> /\ ~Busy({"mark"}) /\ Refund(a)
    BY <1>10 DEF RefundPayment, Prompt
  <2> QED
    BY <1>0, <2>1, <2>2, RefundStepOnce
<1>11. ASSUME NEW h \in Handler, NEW i \in Intent, FailRead(h, i) PROVE Once'
  <2>1. PICK k : k.phase = "fail" /\ handler' = [handler EXCEPT ![h] = k]
    BY <1>0, <1>11 DEF FailRead, Idle
  <2>2. UNCHANGED <<payment, charged, issued, payouts>> /\ charged = {}
    BY <1>11 DEF FailRead, DeclineArrives, Prompt
  <2>3. RowOnce' /\ IssuedOnce' /\ HandlerOnce(k)'
    BY <1>0, <2>1, <2>2 DEF RowOnce, IssuedOnce, Marked, HandlerOnce, Given
  <2>4. \A g \in Handler \ {h} :
          HandlerOnce(handler[g])' /\ Apart(handler[g], k) /\ Apart(k, handler[g])
    <3>1. \A g \in Handler \ {h} : handler'[g] = handler[g]
      BY <2>1
    <3> QED
      BY <1>0, <2>1, <2>2, <3>1 DEF HandlerOnce, Apart, Marked, Given
  <2> QED
    BY <1>0, <2>1, <2>3, <2>4, StepOnce
\* A decline finds the row as unpaid as when it was read.
<1>12. ASSUME NEW h \in Handler, FailSave(h) PROVE Once'
  <2>1. PICK k : k.phase = "idle" /\ handler' = [handler EXCEPT ![h] = k]
    BY <1>0, <1>12, NextLocal DEF FailSave
  <2>2. UNCHANGED <<charged, issued, payouts>> /\ ~Marked /\ payment'.status = "FAILED"
    BY <1>0, <1>12 DEF FailSave, In, HandlerOnce, RowOnce, HandlerState, Payment
  <2>3. RowOnce' /\ IssuedOnce' /\ HandlerOnce(k)'
    BY <1>0, <2>1, <2>2 DEF RowOnce, IssuedOnce, Marked, Held, HandlerOnce, Given
  <2>4. \A g \in Handler \ {h} :
          HandlerOnce(handler[g])' /\ Apart(handler[g], k) /\ Apart(k, handler[g])
    <3>1. \A g \in Handler \ {h} : handler'[g] = handler[g]
      BY <2>1
    <3> QED
      BY <1>0, <2>1, <2>2, <3>1 DEF HandlerOnce, Apart, Marked, Held, Given
  <2> QED
    BY <1>0, <2>1, <2>3, <2>4, StepOnce
<1>13. ASSUME \/ Abandon \/ UNCHANGED vars \/ \E a \in 0..Amount : RefundUnrecorded(a)
       PROVE  Once'
  <2>1. UNCHANGED <<payment, charged, issued, payouts, handler>>
    BY <1>13 DEF Abandon, vars, RefundUnrecorded
  <2> QED
    BY <1>0, <2>1 DEF Once, RowOnce, IssuedOnce, Marked, HandlerOnce, Given
<1> QED
  BY <1>1, <1>2, <1>3, <1>4, <1>5, <1>6, <1>7, <1>8, <1>9, <1>10, <1>11, <1>12, <1>13
  DEF Next, Continue

\* Unless a success is replayed after a refund, or a decline or a second page
\* crosses it, an order gets its tickets once and its organizer one payout, for
\* any number of deliveries at a time, and whatever is lost.
THEOREM TicketsIssuedOnce == Prompt => (Spec => []IssuedOnce)
<1> SUFFICES ASSUME Prompt PROVE Spec => []IssuedOnce
  OBVIOUS
<1>1. Once => IssuedOnce
  BY DEF Once
<1>2. Once /\ [Next]_vars => Once'
  BY OnceStep
<1> QED
  BY <1>1, <1>2, OnceInit, PTL DEF Spec
-----------------------------------------------------------------------------
(* The three services tell the same story                                      *)
(*                                                                             *)
(* Without overlaps one request at most is past the update that marks the row, *)
(* or is refunding.  Its phase says how far the services are from each other;  *)
(* when there is none, they agree.                                             *)

Quiet == Overlaps = {}

Confirmed == [status |-> "CONFIRMED", pay |-> "PAID"]
Unsold == /\ order.pay = "PENDING" /\ order.status \in {"PENDING_PAYMENT", "CANCELLED"}
          /\ valid = FALSE /\ issued = 0 /\ payouts = 0
Sold == order = Confirmed /\ valid = TRUE /\ payouts = issued
Undone == order = [status |-> "REFUNDED", pay |-> "REFUNDED"] /\ valid = FALSE /\ payouts = issued

AtRest ==
  /\ ~Marked => Unsold
  /\ payment.status \in {"PAID", "PARTIALLY_REFUNDED"} => Sold
  /\ payment.status = "REFUNDED" => Undone

Working == (Fulfilling \ {"mark"}) \cup Refunding
Midway(k) ==
  /\ k.phase \in {"confirm", "reject"} => payment.status = "PAID" /\ Unsold
  /\ k.phase = "reject" => order.status = "CANCELLED"
  /\ k.phase = "late" => payment.status = "REFUNDED" /\ Unsold /\ order.status = "CANCELLED"
  /\ k.phase = "generate" =>
       payment.status = "PAID" /\ order = Confirmed /\ valid = FALSE /\ issued = 0 /\ payouts = 1
  /\ k.phase = "void" => payment.status = "REFUNDED" /\ Sold
  /\ k.phase = "settle" =>
       payment.status = "REFUNDED" /\ order = Confirmed /\ valid = FALSE /\ payouts = issued
  /\ k.phase \in {"record", "save"} => payment.status = "PARTIALLY_REFUNDED" /\ Sold
  /\ k.phase = "save" => k.order = order

\* What the other requests keep.
Beside(k) ==
  /\ k.phase = "mark" => payment.intent \in charged
  /\ k.phase = "fail" => k.seen.intent = payment.intent /\ k.seen.refunded = payment.refunded
  /\ k.phase = "intent" => k.seen.refunded = 0

Solo(j, k) ==
  /\ ~(j.phase \in Working /\ k.phase \in Working)
  /\ j.phase = "fail" => k.phase # "intent"

\* What the row says of the money is what Stripe did.
MoneyAgrees ==
  /\ Marked => payment.intent \in charged
  /\ payment.status \notin {"PARTIALLY_REFUNDED", "REFUNDED"} => payment.refunded = 0
  /\ payment.intent \in Intent => returned[payment.intent] = payment.refunded
  /\ charged = {} => \A i \in Intent : returned[i] = 0
  /\ Returned = payment.refunded

Story ==
  /\ MoneyAgrees
  /\ \A h \in Handler : Beside(handler[h]) /\ Midway(handler[h])
  /\ \A g, h \in Handler : g # h => Solo(handler[g], handler[h])
  /\ ~Busy(Working) => AtRest

LEMMA StoryInit == Init => Story
<1> SUFFICES ASSUME Init PROVE Story
  OBVIOUS
<1>1. Returned = 0
  <2>1. Units(returned) = {}
    BY FlowAssumption DEF Init, Units
  <2> QED
    BY <2>1, FS_EmptySet DEF Returned
<1>2. MoneyAgrees
  BY <1>1, FlowAssumption DEF Init, MoneyAgrees, Marked, Held, NoPayment
<1>3. AtRest
  BY DEF Init, AtRest, Marked, Held, Unsold, NoPayment, NewOrder
<1>4. \A h \in Handler : handler[h].phase = "idle"
  BY DEF Init, Idle
<1> QED
  BY <1>2, <1>3, <1>4 DEF Story, Beside, Midway, Solo, Working, Fulfilling, Refunding

LEMMA StepStory ==
  ASSUME Once, Story, NEW h \in Handler, NEW k, handler' = [handler EXCEPT ![h] = k],
         MoneyAgrees', Beside(k)', Midway(k)',
         \A g \in Handler \ {h} : /\ Beside(handler[g])' /\ Midway(handler[g])'
                                  /\ Solo(handler[g], k) /\ Solo(k, handler[g]),
         k.phase \notin Working /\ (\A g \in Handler \ {h} : handler[g].phase \notin Working) => AtRest'
  PROVE  Story'
<1>1. handler'[h] = k /\ \A g \in Handler \ {h} : handler'[g] = handler[g]
  BY DEF Once, TypeOK
<1>2. \A f \in Handler : Beside(handler[f])' /\ Midway(handler[f])'
  <2>1. Beside(handler[h])' /\ Midway(handler[h])'
    BY <1>1 DEF Beside, Midway
  <2> QED
    BY <2>1
<1>3. \A f, g \in Handler : f # g => Solo(handler[f], handler[g])'
  BY <1>1 DEF Story, Solo, Working, Fulfilling, Refunding
<1>4. ~Busy(Working)' => AtRest'
  BY <1>1 DEF Busy, Working, Fulfilling, Refunding
<1> QED
  BY <1>2, <1>3, <1>4 DEF Story
\* A step of the one request at work, which may write the row of a payment that
\* no request has read to mark it failed.
LEMMA WorkStory ==
  ASSUME Once, Story, NEW h \in Handler, NEW k, handler' = [handler EXCEPT ![h] = k],
         charged' = charged, payment'.intent = payment.intent,
         payment' = payment \/ Marked \/ handler[h].phase = "mark",
         k.phase \notin {"mark", "fail", "intent"},
         \A g \in Handler \ {h} : handler[g].phase \notin Working,
         MoneyAgrees', Midway(k)',
         k.phase \notin Working => AtRest'
  PROVE  Story'
<1>1. \A g \in Handler \ {h} : handler'[g] = handler[g]
  BY DEF Once, TypeOK
<1>2. ASSUME NEW g \in Handler \ {h}, handler[g].phase = "fail" PROVE payment' = payment
  BY <1>2 DEF Once, HandlerOnce, RowOnce
<1>3. ASSUME NEW g \in Handler \ {h} PROVE Beside(handler[g])' /\ Midway(handler[g])'
  BY <1>1, <1>2 DEF Story, Beside, Midway, Working, Fulfilling, Refunding
<1>4. ASSUME NEW g \in Handler \ {h} PROVE Solo(handler[g], k) /\ Solo(k, handler[g])
  BY DEF Solo
<1>5. Beside(k)'
  BY DEF Beside
<1> QED
  BY <1>3, <1>4, <1>5, StepStory

\* The request that works is alone to do so.
LEMMA Alone ==
  ASSUME Story, NEW h \in Handler, handler[h].phase \in Working
  PROVE  \A g \in Handler \ {h} : handler[g].phase \notin Working
  BY DEF Story, Solo

\* A refund of a row that agrees with Stripe keeps it so.
LEMMA RefundAgrees ==
  ASSUME Once, Story, NEW a \in 0..Amount, Refund(a), charged' = charged
  PROVE  /\ MoneyAgrees' /\ payment'.intent = payment.intent /\ Marked
         /\ payment'.status = IF Total(a) THEN "REFUNDED" ELSE "PARTIALLY_REFUNDED"
         /\ a = 0 => Total(a)
<1>1. /\ payment \in Payment /\ payment.intent \in charged /\ charged \subseteq Intent
      /\ returned \in [Intent -> 0..Amount] /\ Amount \in Nat
      /\ payment.status \in {"PAID", "PARTIALLY_REFUNDED"}
  BY FlowAssumption DEF Once, TypeOK, Refund, CanRefund
<1>2. /\ payment.intent \in Intent /\ payment.refunded \in 0..Amount
      /\ returned[payment.intent] = payment.refunded /\ Returned = payment.refunded
  BY <1>1 DEF Story, MoneyAgrees, Payment
<1>3. StripePart(a) = Requested(a)
  BY <1>2 DEF StripePart, Requested
<1>4. /\ payment'.refunded = payment.refunded + Requested(a)
      /\ Returned' = Returned + Requested(a) /\ Requested(a) \in 1..Amount
  BY <1>3, RefundType, MoneyBack DEF Refund, Once
<1>5. /\ payment'.intent = payment.intent
      /\ payment'.status = IF Total(a) THEN "REFUNDED" ELSE "PARTIALLY_REFUNDED"
  BY <1>1 DEF Refund, Payment
<1>6. returned'[payment.intent] = returned[payment.intent] + Requested(a)
  BY <1>1, <1>2, <1>3 DEF Refund, StripeRefunds
<1>7. MoneyAgrees'
  BY <1>1, <1>2, <1>4, <1>5, <1>6 DEF MoneyAgrees
<1>8. a = 0 => Total(a)
  BY <1>1, <1>2 DEF Total, Requested
<1> QED
  BY <1>1, <1>5, <1>7, <1>8 DEF Marked, Held
\* The steps before the update that marks the row, and declines.
LEMMA StoryBefore ==
  ASSUME Quiet, Once, Story, NEW h \in Handler,
         \/ CreateIntentRead(h) \/ FailSave(h)
         \/ \E i \in Intent : CreateIntentSave(h, i) \/ ConfirmFind(h, i) \/ FailRead(h, i)
  PROVE  Story'
<1> USE DEF stripe, tickets
<1>0. /\ TypeOK /\ RowOnce /\ payment \in Payment /\ MoneyAgrees
      /\ \A g \in Handler : /\ handler[g] \in HandlerState /\ HandlerOnce(handler[g])
                            /\ Beside(handler[g]) /\ Midway(handler[g])
      /\ \A f, g \in Handler : f # g => Solo(handler[f], handler[g]) /\ Apart(handler[f], handler[g])
      /\ ~Busy(Working) => AtRest
  BY DEF Once, TypeOK, Story
<1>1. {"idle", "mark", "fail", "intent"} \cap Working = {}
  BY DEF Working, Fulfilling, Refunding
\* As long as nobody is charged no request is past the update, nor at it.
<1>2. ASSUME ~Marked
      PROVE  payment.refunded = 0 /\ Unsold /\ \A g \in Handler : handler[g].phase \notin Working
  <2>1. \A g \in Handler : handler[g].phase \notin Working
    BY <1>0, <1>2 DEF Midway, Marked, Held, Working, Fulfilling, Refunding
  <2> QED
    BY <1>0, <1>2, <2>1 DEF Busy, AtRest, MoneyAgrees, Marked, Held
\* Requests that only read.
<1>3. ASSUME NEW k, handler' = [handler EXCEPT ![h] = k], handler[h].phase \notin Working,
             k.phase \notin Working, UNCHANGED <<payment, order, charged, returned, issued, valid, payouts>>,
             Beside(k)', \A g \in Handler \ {h} : Solo(handler[g], k) /\ Solo(k, handler[g])
      PROVE  Story'
  <2>1. \A g \in Handler \ {h} : handler'[g] = handler[g]
    BY <1>3 DEF Once, TypeOK
  <2>2. MoneyAgrees' /\ (AtRest => AtRest')
    BY <1>0, <1>3 DEF MoneyAgrees, Marked, Returned, AtRest, Unsold, Sold, Undone
  <2>3. \A g \in Handler \ {h} : Beside(handler[g])' /\ Midway(handler[g])'
    BY <1>0, <1>3, <2>1 DEF Beside, Midway, Unsold, Sold
  <2>4. Midway(k)'
    BY <1>3 DEF Midway, Working, Fulfilling, Refunding
  <2>5. (\A g \in Handler \ {h} : handler[g].phase \notin Working) => AtRest'
    BY <1>0, <1>3, <2>2 DEF Busy
  <2> QED
    BY <1>3, <2>2, <2>3, <2>4, <2>5, StepStory
<1>4. CASE CreateIntentRead(h)
  <2>1. PICK k : k.phase = "intent" /\ k.seen = payment /\ handler' = [handler EXCEPT ![h] = k]
    BY <1>4 DEF CreateIntentRead, Idle
  <2>2. /\ UNCHANGED <<payment, order, charged, returned, issued, valid, payouts>>
        /\ charged = {} /\ ~Busy({"fail"}) /\ handler[h].phase = "idle"
    BY <1>4 DEF CreateIntentRead, Quiet, In
  <2>3. payment.refunded = 0
    BY <1>0, <1>2, <2>2 DEF RowOnce
  <2>4. Beside(k)' /\ \A g \in Handler \ {h} : Solo(handler[g], k) /\ Solo(k, handler[g])
    BY <1>1, <2>1, <2>2, <2>3 DEF Beside, Solo, Busy
  <2> QED
    BY <1>1, <1>3, <2>1, <2>2, <2>4
<1>5. ASSUME NEW i \in Intent, CreateIntentSave(h, i) PROVE Story'
  <2>1. PICK k : k.phase = "idle" /\ handler' = [handler EXCEPT ![h] = k]
    BY <1>0, <1>5, NextLocal DEF CreateIntentSave
  <2>2. /\ handler[h].phase = "intent" /\ handler[h].seen \in Payment
        /\ charged = {} /\ handler[h].seen.refunded = 0 /\ handler[h].seen.status \notin Held
        /\ UNCHANGED <<order, charged, returned, issued, valid, payouts>>
    BY <1>0, <1>5 DEF CreateIntentSave, In, HandlerOnce, Beside, HandlerState
  <2>3. ~Marked /\ payment.refunded = 0 /\ Unsold /\ \A g \in Handler : handler[g].phase \notin Working
    BY <1>0, <1>2, <2>2 DEF RowOnce
  <2>4. payment'.refunded = 0 /\ payment'.status \notin Held
    BY <1>5, <2>2, <2>3 DEF CreateIntentSave, Payment, Marked, Held
  <2>5. \A g \in Handler \ {h} : /\ handler'[g] = handler[g]
                                 /\ handler[g].phase \notin {"mark", "fail"} \cup Working
    BY <1>0, <2>1, <2>2, <2>3 DEF Once, TypeOK, HandlerOnce, Solo
  <2>6. MoneyAgrees' /\ AtRest'
    BY <1>0, <2>2, <2>3, <2>4 DEF MoneyAgrees, Marked, Held, Returned, AtRest, Unsold
  <2>7. \A g \in Handler \ {h} :
          /\ Beside(handler[g])' /\ Midway(handler[g])'
          /\ Solo(handler[g], k) /\ Solo(k, handler[g])
    BY <1>0, <1>1, <2>1, <2>5 DEF Beside, Midway, Solo, Working, Fulfilling, Refunding
  <2>8. Beside(k)' /\ Midway(k)'
    BY <2>1 DEF Beside, Midway
  <2> QED
    BY <2>1, <2>6, <2>7, <2>8, StepStory
<1>6. ASSUME NEW i \in Intent, ConfirmFind(h, i) PROVE Story'
  <2>1. PICK k : k.phase = "mark" /\ handler' = [handler EXCEPT ![h] = k]
    BY <1>0, <1>6, NextLocal DEF ConfirmFind
  <2>2. /\ UNCHANGED <<payment, order, charged, returned, issued, valid, payouts>>
        /\ payment.intent \in charged /\ handler[h].phase = "idle"
    BY <1>6 DEF ConfirmFind, In
  <2>3. Beside(k)' /\ \A g \in Handler \ {h} : Solo(handler[g], k) /\ Solo(k, handler[g])
    BY <1>1, <2>1, <2>2 DEF Beside, Solo
  <2> QED
    BY <1>1, <1>3, <2>1, <2>2, <2>3
<1>7. ASSUME NEW i \in Intent, FailRead(h, i) PROVE Story'
  <2>1. PICK k : k.phase = "fail" /\ k.seen = payment /\ handler' = [handler EXCEPT ![h] = k]
    BY <1>7 DEF FailRead, Idle
  <2>2. /\ UNCHANGED <<payment, order, charged, returned, issued, valid, payouts>>
        /\ ~Busy({"intent"}) /\ handler[h].phase = "idle"
    BY <1>7 DEF FailRead, Quiet, In
  <2>3. Beside(k)' /\ \A g \in Handler \ {h} : Solo(handler[g], k) /\ Solo(k, handler[g])
    BY <1>1, <2>1, <2>2 DEF Beside, Solo, Busy
  <2> QED
    BY <1>1, <1>3, <2>1, <2>2, <2>3
<1>8. CASE FailSave(h)
  <2>1. PICK k : k.phase = "idle" /\ handler' = [handler EXCEPT ![h] = k]
    BY <1>0, <1>8, NextLocal DEF FailSave
  <2>2. /\ handler[h].phase = "fail" /\ charged = {} /\ ~Marked
        /\ UNCHANGED <<order, charged, returned, issued, valid, payouts>>
    BY <1>0, <1>8 DEF FailSave, In, HandlerOnce, RowOnce
  <2>3. payment.refunded = 0 /\ Unsold /\ \A g \in Handler : handler[g].phase \notin Working
    BY <1>2, <2>2
  <2>4. /\ payment'.refunded = 0 /\ payment'.status = "FAILED"
        /\ payment'.intent = payment.intent
    <3>1. /\ handler[h].seen \in Payment /\ handler[h].seen.intent = payment.intent
          /\ handler[h].seen.refunded = payment.refunded
      BY <1>0, <2>2 DEF HandlerState, Beside
    <3> QED
      BY <1>8, <2>3, <3>1 DEF FailSave, Payment
  <2>5. \A g \in Handler \ {h} : /\ handler'[g] = handler[g]
                                 /\ handler[g].phase \notin {"mark", "intent"} \cup Working
    BY <1>0, <2>1, <2>2, <2>3 DEF Once, TypeOK, HandlerOnce, Solo
  <2>6. MoneyAgrees' /\ AtRest'
    BY <1>0, <2>2, <2>3, <2>4 DEF MoneyAgrees, Marked, Held, Returned, AtRest, Unsold
  <2>7. \A g \in Handler \ {h} :
          /\ Beside(handler[g])' /\ Midway(handler[g])'
          /\ Solo(handler[g], k) /\ Solo(k, handler[g])
    BY <1>0, <1>1, <2>1, <2>2, <2>3, <2>4, <2>5 DEF Beside, Midway, Solo, Working, Fulfilling, Refunding
  <2>8. Beside(k)' /\ Midway(k)'
    BY <2>1 DEF Beside, Midway
  <2> QED
    BY <2>1, <2>6, <2>7, <2>8, StepStory
<1> QED
  BY <1>4, <1>5, <1>6, <1>7, <1>8
\* The delivery that is let through, and the steps of its fulfilment.
LEMMA StoryFulfil ==
  ASSUME Quiet, Once, Story, NEW h \in Handler,
         \/ ConfirmMark(h) \/ ConfirmOrder(h) \/ ConfirmRejected(h) \/ GenerateTickets(h)
         \/ RejectRefund(h) \/ MarkLate(h)
  PROVE  Story'
<1> USE DEF stripe, tickets
<1>0. /\ TypeOK /\ RowOnce /\ payment \in Payment /\ order \in Order /\ MoneyAgrees
      /\ handler[h] \in HandlerState /\ HandlerOnce(handler[h])
      /\ Beside(handler[h]) /\ Midway(handler[h])
      /\ ~Busy(Working) => AtRest
  BY DEF Once, TypeOK, Story
<1>1. UNCHANGED <<payment, charged, returned>> => MoneyAgrees'
  BY <1>0 DEF MoneyAgrees, Marked, Returned
<1>2. CASE ConfirmMark(h)
  <2>1. /\ handler[h].phase = "mark" /\ payment.intent \in charged
        /\ payment.status \notin {"PARTIALLY_REFUNDED", "REFUNDED"}
        /\ payment' = [payment EXCEPT !.status = "PAID"]
        /\ UNCHANGED <<order, charged, returned, issued, valid, payouts>>
    BY <1>0, <1>2 DEF ConfirmMark, In, HandlerOnce, Beside
  <2>2. /\ payment'.status = "PAID" /\ payment'.intent = payment.intent
        /\ payment'.refunded = payment.refunded /\ payment.refunded = 0
    BY <1>0, <2>1 DEF Payment, MoneyAgrees
  <2>3. MoneyAgrees'
    BY <1>0, <2>1, <2>2 DEF MoneyAgrees, Returned
  <2>4. CASE payment.status = "PAID"
    <3>1. payment' = payment
      BY <1>0, <2>1, <2>4 DEF Payment
    <3>2. PICK k : k.phase = "idle" /\ handler' = [handler EXCEPT ![h] = k]
      BY <1>0, <1>2, <2>4, NextLocal DEF ConfirmMark
    <3>3. \A g \in Handler \ {h} : handler'[g] = handler[g]
      BY <3>2 DEF Once, TypeOK
    <3>4. AtRest => AtRest'
      BY <2>1, <3>1 DEF AtRest, Marked, Unsold, Sold, Undone
    <3>5. (\A g \in Handler \ {h} : handler[g].phase \notin Working) => AtRest'
      BY <1>0, <2>1, <3>4 DEF Busy, Working, Fulfilling, Refunding
    <3>6. \A g \in Handler \ {h} :
            /\ Beside(handler[g])' /\ Midway(handler[g])'
            /\ Solo(handler[g], k) /\ Solo(k, handler[g])
      BY <2>1, <3>1, <3>2, <3>3
      DEF Story, Beside, Midway, Solo, Unsold, Sold, Working, Fulfilling, Refunding
    <3>7. Beside(k)' /\ Midway(k)'
      BY <3>2 DEF Beside, Midway
    <3> QED
      BY <2>3, <3>2, <3>5, <3>6, <3>7, StepStory
  <2>5. CASE payment.status # "PAID"
    <3>1. PICK k : k.phase = "confirm" /\ handler' = [handler EXCEPT ![h] = k]
      BY <1>0, <1>2, <2>5, NextLocal DEF ConfirmMark
    <3>2. ~Marked
      BY <2>1, <2>5 DEF Marked, Held
    <3>3. \A g \in Handler : handler[g].phase \notin Working
      BY <3>2 DEF Story, Midway, Marked, Held, Working, Fulfilling, Refunding
    <3>4. Unsold
      BY <1>0, <3>2, <3>3 DEF Busy, AtRest
    <3>5. Midway(k)' /\ k.phase \in Working
      BY <2>1, <2>2, <3>1, <3>4 DEF Midway, Unsold, Working, Fulfilling
    <3> QED
      BY <2>1, <2>2, <2>3, <3>1, <3>3, <3>5, WorkStory
  <2> QED
    BY <2>4, <2>5
<1>3. CASE ConfirmOrder(h)
  <2>1. PICK k : k.phase = "generate" /\ handler' = [handler EXCEPT ![h] = k]
    BY <1>0, <1>3, NextLocal DEF ConfirmOrder
  <2>2. handler[h].phase = "confirm" /\ payment.status = "PAID" /\ Unsold /\ handler[h].phase \in Working
    BY <1>0, <1>3 DEF ConfirmOrder, In, Midway, Working, Fulfilling
  <2>3. /\ UNCHANGED <<payment, charged, returned, issued, valid>>
        /\ order' = Confirmed /\ payouts' = 1
    BY <1>3, <2>2 DEF ConfirmOrder, Quiet, Unsold, Confirmed
  <2>4. Midway(k)' /\ k.phase \in Working
    BY <2>1, <2>2, <2>3 DEF Midway, Unsold, Working, Fulfilling
  <2> QED
    BY <1>1, <2>1, <2>2, <2>3, <2>4, Alone, WorkStory
<1>4. CASE ConfirmRejected(h)
  <2>1. PICK k : k.phase = "reject" /\ handler' = [handler EXCEPT ![h] = k]
    BY <1>0, <1>4, NextLocal DEF ConfirmRejected
  <2>2. /\ payment.status = "PAID" /\ Unsold /\ order.status = "CANCELLED" /\ handler[h].phase \in Working
        /\ UNCHANGED <<payment, order, charged, returned, issued, valid, payouts>>
    BY <1>0, <1>4 DEF ConfirmRejected, In, Midway, Unsold, Working, Fulfilling
  <2>3. Midway(k)' /\ k.phase \in Working
    BY <2>1, <2>2 DEF Midway, Unsold, Working, Fulfilling
  <2> QED
    BY <1>1, <2>1, <2>2, <2>3, Alone, WorkStory
<1>5. CASE GenerateTickets(h)
  <2>1. PICK k : k.phase = "idle" /\ handler' = [handler EXCEPT ![h] = k]
    BY <1>0, <1>5, NextLocal DEF GenerateTickets
  <2>2. /\ payment.status = "PAID" /\ order = Confirmed /\ payouts = 1 /\ handler[h].phase \in Working
        /\ UNCHANGED <<payment, order, charged, returned, payouts>>
        /\ issued' = 1 /\ valid' = TRUE
    BY <1>0, <1>5 DEF GenerateTickets, In, Midway, Working, Fulfilling
  <2>3. Midway(k)' /\ AtRest'
    BY <2>1, <2>2 DEF Midway, AtRest, Marked, Held, Sold
  <2> QED
    BY <1>1, <2>1, <2>2, <2>3, Alone, WorkStory
\* The late payment is all there to be refunded.
<1>6. CASE RejectRefund(h)
  <2>1. /\ payment.status = "PAID" /\ Unsold /\ order.status = "CANCELLED" /\ handler[h].phase \in Working
        /\ UNCHANGED <<order, charged, issued, valid, payouts>>
    BY <1>0, <1>6 DEF RejectRefund, In, Midway, Working, Fulfilling
  <2>2. CanRefund(0)
    <3>1. payment.intent \in charged /\ payment.refunded = 0 /\ Amount \in Nat \ {0}
      BY <1>0, <2>1, FlowAssumption DEF MoneyAgrees, Marked, Held
    <3>2. returned[payment.intent] = 0
      BY <1>0, <3>1 DEF TypeOK, MoneyAgrees
    <3> QED
      BY <2>1, <3>1, <3>2 DEF CanRefund, Requested, StripePart
  <2>3. Refund(0) /\ Goes(h, "late") /\ 0 \in 0..Amount
    BY <1>6, <2>2, FlowAssumption DEF RejectRefund
  <2>4. PICK k : k.phase = "late" /\ handler' = [handler EXCEPT ![h] = k]
    BY <1>0, <2>3, NextLocal
  <2>5. MoneyAgrees' /\ payment'.intent = payment.intent /\ Marked /\ payment'.status = "REFUNDED"
    BY <2>1, <2>3, RefundAgrees
  <2>6. Midway(k)' /\ k.phase \in Working
    BY <2>1, <2>4, <2>5 DEF Midway, Unsold, Working, Fulfilling
  <2> QED
    BY <2>1, <2>4, <2>5, <2>6, Alone, WorkStory
<1>7. CASE MarkLate(h)
  <2>1. PICK k : k.phase = "idle" /\ handler' = [handler EXCEPT ![h] = k]
    BY <1>0, <1>7, NextLocal DEF MarkLate
  <2>2. /\ payment.status = "REFUNDED" /\ Unsold /\ order.status = "CANCELLED" /\ handler[h].phase \in Working
        /\ UNCHANGED <<payment, charged, returned, issued, valid, payouts>>
    BY <1>0, <1>7 DEF MarkLate, In, Midway, Working, Fulfilling
  <2>3. order' = [status |-> "REFUNDED", pay |-> "REFUNDED"]
    BY <1>7, <2>2 DEF MarkLate
  <2>4. Midway(k)' /\ AtRest'
    BY <2>1, <2>2, <2>3 DEF Midway, AtRest, Marked, Held, Unsold, Undone
  <2> QED
    BY <1>1, <2>1, <2>2, <2>4, Alone, WorkStory
<1> QED
  BY <1>2, <1>3, <1>4, <1>5, <1>6, <1>7

\* The steps of a refund asked for.
LEMMA StoryRefund ==
  ASSUME Quiet, Once, Story, NEW h \in Handler,
         \/ \E a \in 0..Amount : RefundPayment(h, a)
         \/ VoidTickets(h) \/ SettleOrder(h) \/ RecordRead(h) \/ RecordSave(h)
  PROVE  Story'
<1> USE DEF stripe, tickets
<1>0. /\ TypeOK /\ payment \in Payment /\ order \in Order /\ MoneyAgrees
      /\ handler[h] \in HandlerState /\ Midway(handler[h])
      /\ ~Busy(Working) => AtRest
  BY DEF Once, TypeOK, Story
<1>1. UNCHANGED <<payment, charged, returned>> => MoneyAgrees'
  BY <1>0 DEF MoneyAgrees, Marked, Returned
<1>2. ASSUME NEW a \in 0..Amount, RefundPayment(h, a) PROVE Story'
  <2>1. PICK p \in {"void", "record"} : Goes(h, p) /\ p = IF Total(a) THEN "void" ELSE "record"
    BY <1>2 DEF RefundPayment
  <2>2. PICK k : k.phase = p /\ handler' = [handler EXCEPT ![h] = k]
    BY <1>0, <2>1, NextLocal
  <2>3. /\ Refund(a) /\ ~Busy(Fulfilling \cup Refunding)
        /\ UNCHANGED <<order, charged, issued, valid, payouts>>
    BY <1>2 DEF RefundPayment, Quiet
  <2>4. ~Busy(Working) /\ \A g \in Handler : handler[g].phase \notin Working
    BY <2>3 DEF Busy, Working
  <2>5. Sold
    BY <1>0, <2>3, <2>4 DEF Refund, CanRefund, AtRest
  <2>6. /\ MoneyAgrees' /\ payment'.intent = payment.intent /\ Marked
        /\ payment'.status = IF Total(a) THEN "REFUNDED" ELSE "PARTIALLY_REFUNDED"
    BY <2>3, RefundAgrees
  <2>7. Midway(k)' /\ k.phase \in Working
    BY <2>1, <2>2, <2>3, <2>5, <2>6 DEF Midway, Sold, Working, Refunding
  <2> QED
    BY <2>1, <2>2, <2>3, <2>4, <2>6, <2>7, WorkStory
<1>3. CASE VoidTickets(h)
  <2>1. PICK k : k.phase = "settle" /\ handler' = [handler EXCEPT ![h] = k]
    BY <1>0, <1>3, NextLocal DEF VoidTickets
  <2>2. /\ payment.status = "REFUNDED" /\ Sold /\ handler[h].phase \in Working
        /\ UNCHANGED <<payment, order, charged, returned, issued, payouts>> /\ valid' = FALSE
    BY <1>0, <1>3 DEF VoidTickets, In, Midway, Working, Refunding
  <2>3. Midway(k)' /\ k.phase \in Working
    BY <2>1, <2>2 DEF Midway, Sold, Working, Refunding
  <2> QED
    BY <1>1, <2>1, <2>2, <2>3, Alone, WorkStory
<1>4. CASE SettleOrder(h)
  <2>1. PICK k : k.phase = "idle" /\ handler' = [handler EXCEPT ![h] = k]
    BY <1>0, <1>4, NextLocal DEF SettleOrder
  <2>2. /\ payment.status = "REFUNDED" /\ order = Confirmed /\ valid = FALSE /\ payouts = issued
        /\ handler[h].phase \in Working
        /\ UNCHANGED <<payment, charged, returned, issued, valid, payouts>>
    BY <1>0, <1>4 DEF SettleOrder, In, Midway, Working, Refunding
  <2>3. order' = [status |-> "REFUNDED", pay |-> "REFUNDED"]
    BY <1>4, <2>2 DEF SettleOrder, Confirmed
  <2>4. Midway(k)' /\ AtRest'
    BY <2>1, <2>2, <2>3 DEF Midway, AtRest, Marked, Held, Undone
  <2> QED
    BY <1>1, <2>1, <2>2, <2>4, Alone, WorkStory
<1>5. CASE RecordRead(h)
  <2> DEFINE j == [handler[h] EXCEPT !.phase = "save", !.order = order]
  <2>1. j.phase = "save" /\ j.order = order /\ handler' = [handler EXCEPT ![h] = j]
    BY <1>0, <1>5 DEF RecordRead, TypeOK, HandlerState
  <2> HIDE DEF j
  <2>2. PICK k : k.phase = "save" /\ k.order = order /\ handler' = [handler EXCEPT ![h] = k]
    BY <2>1
  <2>3. /\ payment.status = "PARTIALLY_REFUNDED" /\ Sold /\ handler[h].phase \in Working
        /\ UNCHANGED <<payment, order, charged, returned, issued, valid, payouts>>
    BY <1>0, <1>5 DEF RecordRead, In, Midway, Working, Refunding
  <2>4. Midway(k)' /\ k.phase \in Working
    BY <2>2, <2>3 DEF Midway, Sold, Working, Refunding
  <2> QED
    BY <1>1, <2>2, <2>3, <2>4, Alone, WorkStory
<1>6. CASE RecordSave(h)
  <2>1. PICK k : k.phase = "idle" /\ handler' = [handler EXCEPT ![h] = k]
    BY <1>0, <1>6, NextLocal DEF RecordSave
  <2>2. /\ payment.status = "PARTIALLY_REFUNDED" /\ Sold /\ handler[h].order = order
        /\ handler[h].phase \in Working
        /\ UNCHANGED <<payment, charged, returned, issued, valid, payouts>>
    BY <1>0, <1>6 DEF RecordSave, In, Midway, Working, Refunding
  <2>3. order' = order
    BY <1>6, <2>2 DEF RecordSave
  <2>4. Midway(k)' /\ AtRest'
    BY <2>1, <2>2, <2>3 DEF Midway, AtRest, Marked, Held, Sold
  <2> QED
    BY <1>1, <2>1, <2>2, <2>4, Alone, WorkStory
<1> QED
  BY <1>2, <1>3, <1>4, <1>5, <1>6

\* The buyer cancels, or the cron does: a payment under way is the only request
\* that a pending order can be at work on, and it finds the order unsold.
LEMMA StoryAbandon ==
  ASSUME Once, Story, Abandon
  PROVE  Story'
<1> USE DEF stripe, tickets
<1>1. /\ order.status = "PENDING_PAYMENT" /\ order'.status = "CANCELLED" /\ order'.pay = order.pay
      /\ UNCHANGED <<payment, charged, returned, issued, valid, payouts, handler>>
  BY DEF Abandon, Once, TypeOK, Order
<1>2. Unsold => Unsold'
  BY <1>1 DEF Unsold
<1>3. ~Sold /\ ~Undone /\ order # Confirmed
  BY <1>1 DEF Sold, Undone, Confirmed
<1>4. MoneyAgrees'
  BY <1>1 DEF Story, MoneyAgrees, Marked, Returned
<1>5. AtRest => AtRest'
  BY <1>1, <1>2, <1>3 DEF AtRest, Marked
<1>6. ASSUME NEW h \in Handler PROVE Beside(handler[h])' /\ Midway(handler[h])'
  <2>1. Beside(handler[h]) /\ Midway(handler[h])
    BY DEF Story
  <2>2. handler[h].phase \notin {"reject", "late", "generate", "void", "settle", "record", "save"}
    BY <1>1, <1>3, <2>1 DEF Midway
  <2> QED
    BY <1>1, <1>2, <2>1, <2>2 DEF Beside, Midway
<1> QED
  BY <1>1, <1>4, <1>5, <1>6 DEF Story, Solo, Busy

LEMMA StoryStep ==
  ASSUME Quiet, Once, Story, [Next]_vars
  PROVE  Story'
<1>1. ASSUME NEW i \in Intent, Pay(i) PROVE Story'
  <2>1. /\ charged' = charged \cup {i} /\ ~Busy({"intent"})
        /\ UNCHANGED <<payment, order, returned, issued, valid, payouts, handler>>
    BY <1>1 DEF Pay, Payable, Quiet, tickets
  <2> QED
    BY <2>1
    DEF Story, MoneyAgrees, Marked, Returned, Beside, Midway, Solo, Busy, AtRest, Unsold, Sold, Undone
<1>2. ASSUME UNCHANGED <<payment, order, charged, returned, issued, valid, payouts, handler>> PROVE Story'
  BY <1>2
  DEF Story, MoneyAgrees, Marked, Returned, Beside, Midway, Solo, Busy, AtRest, Unsold, Sold, Undone
<1>3. ASSUME NEW i \in Intent, Decline(i) PROVE Story'
  BY <1>2, <1>3 DEF Decline, tickets
<1>4. CASE UNCHANGED vars
  BY <1>2, <1>4 DEF vars
<1>5. ASSUME NEW h \in Handler, Stop(h) PROVE FALSE
  BY <1>5 DEF Stop, Quiet
<1>6. ASSUME NEW a \in 0..Amount, RefundUnrecorded(a) PROVE FALSE
  BY <1>6 DEF RefundUnrecorded, Quiet
<1> QED
  BY <1>1, <1>3, <1>4, <1>5, <1>6, StoryAbandon, StoryBefore, StoryFulfil, StoryRefund
  DEF Next, Continue

LEMMA QuietInvariants == ASSUME Quiet PROVE Spec => [](Once /\ Story)
<1>1. Init => Once /\ Story
  BY OnceInit, StoryInit
<1>2. Once /\ Story /\ [Next]_vars => (Once /\ Story)'
  <2>1. Prompt
    BY DEF Quiet, Prompt
  <2> QED
    BY <2>1, OnceStep, StoryStep
<1> QED
  BY <1>1, <1>2, PTL DEF Spec

\* Without overlaps the tickets of a refunded order open no door, at any moment:
\* refundOrder voids them before it settles the order, and the order whose late
\* payment is sent back has none.
THEOREM RefundedNeverHasTickets == Quiet => (Spec => []RefundedHasNoTickets)
<1> SUFFICES ASSUME Quiet PROVE Spec => []RefundedHasNoTickets
  OBVIOUS
<1>1. Once /\ Story => RefundedHasNoTickets
  <2> SUFFICES ASSUME Story, order.status = "REFUNDED", valid = TRUE PROVE FALSE
    BY DEF Once, TypeOK, RefundedHasNoTickets
  <2>1. ~Sold /\ ~Unsold /\ ~Undone /\ order # Confirmed
    BY DEF Sold, Unsold, Undone, Confirmed
  <2>2. \A h \in Handler : handler[h].phase \notin Working
    BY <2>1 DEF Story, Midway, Working, Fulfilling, Refunding
  <2>3. AtRest
    BY <2>2 DEF Story, Busy
  <2> QED
    BY <2>1, <2>3 DEF AtRest, Marked, Held
<1> QED
  BY <1>1, QuietInvariants, PTL

\* Without overlaps the payment row, the order, its tickets, its payout and
\* Stripe agree whenever no request is under way, however many requests ran,
\* were refused or asked for parts of the money.
THEOREM ServicesAlwaysAgree == Quiet => (Spec => []ServicesAgree)
<1> SUFFICES ASSUME Quiet PROVE Spec => []ServicesAgree
  OBVIOUS
<1>1. Once /\ Story => ServicesAgree
  <2> SUFFICES ASSUME Once, Story, ~Busy(Phase \ {"idle"}) PROVE ServicesAgree
    BY DEF ServicesAgree
  <2>1. \A h \in Handler : handler[h].phase \in Phase
    BY DEF Once, TypeOK, HandlerState
  <2>2. AtRest /\ MoneyAgrees
    BY <2>1 DEF Story, Busy, Working, Fulfilling, Refunding
  <2>3. CASE ~Marked
    <3>1. Unsold
      BY <2>2, <2>3 DEF AtRest
    <3>2. /\ payment.status \notin Held /\ payouts = issued /\ valid = FALSE
          /\ order.pay = "PENDING" /\ order.status # "REFUNDED"
      BY <2>3, <3>1 DEF Marked, Unsold
    <3> QED
      BY <2>2, <3>2 DEF ServicesAgree, MoneyAgrees, Held
  <2>4. CASE payment.status \in {"PAID", "PARTIALLY_REFUNDED"}
    <3>1. order.pay = "PAID" /\ order.status = "CONFIRMED" /\ valid = TRUE /\ payouts = issued
      BY <2>2, <2>4 DEF AtRest, Sold, Confirmed
    <3> QED
      BY <2>2, <2>4, <3>1 DEF ServicesAgree, MoneyAgrees
  <2>5. CASE payment.status = "REFUNDED"
    <3>1. order.pay = "REFUNDED" /\ order.status = "REFUNDED" /\ valid = FALSE /\ payouts = issued
      BY <2>2, <2>5 DEF AtRest, Undone
    <3> QED
      BY <2>2, <2>5, <3>1 DEF ServicesAgree, MoneyAgrees
  <2> QED
    BY <2>3, <2>4, <2>5 DEF Marked, Held
<1> QED
  BY <1>1, QuietInvariants, PTL
=============================================================================
