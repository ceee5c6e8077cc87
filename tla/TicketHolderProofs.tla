------------------------ MODULE TicketHolderProofs ------------------------
(***************************************************************************)
(* For any accounts, listings, resale orders, gifts and concurrent         *)
(* requests, and any instants:                                             *)
(*                                                                         *)
(* - whatever overlaps, the QR code of the ticket belongs to its holder.   *)
(*   The copies of the row that requests hold must be as sound as the row, *)
(*   since they are saved whole: a copy never mixes the holder of one      *)
(*   reading with the token of another.                                    *)
(* - when no row is overwritten from an old copy, no ticket is listed      *)
(*   twice and none in resale is refunded, the ticket enters once, a       *)
(*   listing is held by its seller, who is repaid once, and a refunded     *)
(*   ticket stays out, although reservations expire and abandoned orders   *)
(*   free offers late.                                                     *)
(***************************************************************************)
EXTENDS TicketHolder, SequenceTheorems, TLAPS

-----------------------------------------------------------------------------
(* Rows, copies and tokens *)

\* The token of a row was made for the account the row names.
Sound(row, h) == row.token <= Len(h) /\ h[row.token] = row.buyer

PurchasesOK ==
  \A p \in Purchase : purchase[p].status # "NONE" => purchase[p].buyer \in User /\ purchase[p].offer \in Listing
TransfersOK ==
  \A t \in Transfer : transfer[t].status # "NONE" => transfer[t].from \in User /\ transfer[t].to \in User

\* What the phase of a request says of its local variables, given the history h
\* and the resale orders.
RequestOK(k, h, sale) ==
  /\ k.phase \in {"list", "mark", "insert"} => k.user \in User
  /\ k.phase \in {"restore", "withdraw"} => k.offer \in Listing
  /\ k.phase \in {"complete", "transfer", "sold"} =>
       k.order \in Purchase /\ sale[k.order].status = "PAID" /\ sale[k.order].offer = k.offer
  /\ Sound(k.row, h)
RequestsOK == \A r \in Request : RequestOK(request[r], history, purchase)

HistoryOK == Len(history) >= 1 /\ history[1] = Buyer

Inv ==
  /\ TypeOK /\ HistoryOK /\ Sound(ticket, history)
  /\ PurchasesOK /\ TransfersOK /\ RequestsOK

LEMMA Constants ==
  /\ Buyer \in User /\ Nobody \notin User /\ Nobody \notin Listing /\ Nobody \notin Purchase
  /\ FirstOrder \notin Purchase /\ MaxToken \in Nat /\ 1 \in 1..MaxToken /\ DoorsClose \in Nat
  BY TicketAssumption

LEMMA FirstTicketType == FirstTicket \in TicketRow
  BY Constants DEF FirstTicket, TicketRow, TicketStatus

LEMMA IdleType == Idle \in RequestState
  BY FirstTicketType DEF Idle, RequestState, Phase, Maybe

LEMMA IdleOK == HistoryOK => RequestOK(Idle, history, purchase)
  BY DEF Idle, RequestOK, Sound, HistoryOK, FirstTicket

\* A new token is added after the others, for its holder.
LEMMA HistoryGrows ==
  ASSUME Inv, NEW u \in User, NewToken(u)
  PROVE  /\ history' \in Seq(User) /\ Len(history') <= MaxToken
         /\ HistoryOK'
         /\ Len(history) + 1 \in 1..MaxToken
         /\ Len(history') = Len(history) + 1 /\ history'[Len(history) + 1] = u
         /\ \A row \in TicketRow : Sound(row, history) => Sound(row, history')
<1>1. history \in Seq(User) /\ history' = Append(history, u) /\ Len(history) < MaxToken
  BY DEF Inv, TypeOK, NewToken
<1>2. /\ history' \in Seq(User) /\ Len(history') = Len(history) + 1 /\ Len(history) \in Nat
      /\ history'[Len(history) + 1] = u
      /\ \A k \in 1..Len(history) : history'[k] = history[k]
  BY <1>1
<1>3. ASSUME NEW row \in TicketRow, Sound(row, history) PROVE Sound(row, history')
  <2>1. row.token \in 1..Len(history)
    BY <1>2, <1>3 DEF Sound, TicketRow
  <2> QED
    BY <1>2, <1>3, <2>1 DEF Sound
<1>4. HistoryOK'
  BY <1>2 DEF Inv, HistoryOK
<1> QED
  BY <1>1, <1>2, <1>3, <1>4, Constants

\* The row under its new holder is sound.
LEMMA ReassignOK ==
  ASSUME Inv, NEW u \in User, NewToken(u), NEW row \in TicketRow
  PROVE  Reassign(row, u) \in TicketRow /\ Sound(Reassign(row, u), history')
<1>1. /\ Len(history) + 1 \in 1..MaxToken
      /\ Len(history') = Len(history) + 1 /\ history'[Len(history) + 1] = u
  BY HistoryGrows
<1>2. Reassign(row, u) = [row EXCEPT !.buyer = u, !.token = Len(history) + 1]
  BY DEF Reassign
<1>3. Reassign(row, u).token = Len(history) + 1 /\ Reassign(row, u).buyer = u
  BY <1>2 DEF TicketRow
<1>4. Reassign(row, u) \in TicketRow
  BY <1>1, <1>2 DEF TicketRow
<1> QED
  BY <1>1, <1>3, <1>4 DEF Sound

LEMMA InvInit == Init => Inv
<1> SUFFICES ASSUME Init PROVE Inv
  OBVIOUS
<1>1. history \in Seq(User) /\ Len(history) = 1 /\ history[1] = Buyer
  BY Constants DEF Init
<1>2. HistoryOK /\ Sound(ticket, history)
  BY <1>1 DEF Init, HistoryOK, Sound, FirstTicket
<1>3. PurchasesOK /\ TransfersOK
  BY DEF Init, PurchasesOK, TransfersOK, NoPurchase, NoTransfer
<1>4. RequestsOK
  BY <1>2, IdleOK DEF Init, RequestsOK
<1>5. /\ NoListing \in ListingRow /\ NoPurchase \in PurchaseRow /\ NoTransfer \in TransferRow
      /\ NoListing.status = "NONE" /\ NoListing.reserver = Nobody /\ NoListing.late = FALSE
  BY DEF NoListing, ListingRow, NoPurchase, PurchaseRow, NoTransfer, TransferRow, Maybe
<1>6. TypeOK
  <2>1. /\ ticket \in TicketRow
        /\ listing \in [Listing -> ListingRow] /\ purchase \in [Purchase -> PurchaseRow]
        /\ transfer \in [Transfer -> TransferRow] /\ request \in [Request -> RequestState]
    BY <1>5, FirstTicketType, IdleType DEF Init
  <2>2. \A l \in Listing : listing[l] = NoListing
    BY DEF Init
  <2>3. /\ entries \in 0..2 /\ repaid \in [Listing -> 0..2] /\ clock \in 0..DoorsClose
        /\ refunded \subseteq Purchase \cup {FirstOrder} /\ releases \subseteq Listing
        /\ Len(history) <= MaxToken
    BY <1>1, Constants DEF Init
  <2> QED
    BY <1>1, <1>5, <2>1, <2>2, <2>3 DEF TypeOK
<1> QED
  BY <1>2, <1>3, <1>4, <1>6 DEF Inv

-----------------------------------------------------------------------------
(* Steps *)

\* A request changes its local variables.
LEMMA RequestMoves ==
  ASSUME Inv, NEW r \in Request, NEW k, k \in RequestState,
         request' = [request EXCEPT ![r] = k], RequestOK(k, history', purchase'),
         UNCHANGED purchase,
         \A row \in TicketRow : Sound(row, history) => Sound(row, history')
  PROVE  request' \in [Request -> RequestState] /\ RequestsOK'
<1>1. request' \in [Request -> RequestState]
  BY DEF Inv, TypeOK
<1>2. ASSUME NEW s \in Request PROVE RequestOK(request'[s], history', purchase')
  <2>1. CASE s = r
    BY <2>1 DEF Inv, TypeOK
  <2>2. CASE s # r
    <3>1. request'[s] = request[s] /\ RequestOK(request[s], history, purchase) /\ request[s].row \in TicketRow
      BY <2>2 DEF Inv, TypeOK, RequestsOK, RequestState
    <3> QED
      BY <3>1 DEF RequestOK
  <2> QED
    BY <2>1, <2>2
<1> QED
  BY <1>1, <1>2 DEF RequestsOK

LEMMA RequestGoes ==
  ASSUME Inv, NEW r \in Request, NEW p \in Phase, Goes(r, p), UNCHANGED purchase,
         \A row \in TicketRow : Sound(row, history) => Sound(row, history'),
         \/ p \in {"idle", "invalidate"}
         \/ p \in {"list", "mark", "insert"} /\ request[r].phase \in {"list", "mark", "insert"}
         \/ p \in {"restore", "withdraw"} /\ request[r].phase \in {"restore", "withdraw"}
         \/ p \in {"complete", "transfer", "sold"} /\ request[r].phase \in {"complete", "transfer", "sold"}
  PROVE  request' \in [Request -> RequestState] /\ RequestsOK'
<1> DEFINE k == [request[r] EXCEPT !.phase = p]
<1>1. /\ k \in RequestState /\ k.phase = p /\ k.row = request[r].row /\ k.row \in TicketRow
      /\ k.user = request[r].user /\ k.offer = request[r].offer /\ k.order = request[r].order
  BY DEF Inv, TypeOK, RequestState
<1>2. RequestOK(request[r], history, purchase)
  BY DEF Inv, RequestsOK
<1>3. RequestOK(k, history', purchase')
  BY <1>1, <1>2 DEF RequestOK
<1>4. request' = [request EXCEPT ![r] = k]
  BY DEF Goes
<1> HIDE DEF k
<1> QED
  BY <1>1, <1>3, <1>4, RequestMoves

LEMMA RequestEnds ==
  ASSUME Inv, NEW r \in Request, Ends(r), UNCHANGED purchase, HistoryOK',
         \A row \in TicketRow : Sound(row, history) => Sound(row, history')
  PROVE  request' \in [Request -> RequestState] /\ RequestsOK'
<1>1. RequestOK(Idle, history', purchase')
  BY DEF Idle, RequestOK, Sound, HistoryOK, FirstTicket
<1> QED
  BY <1>1, IdleType, RequestMoves DEF Ends

\* Other requests go on with copies that stay sound, and purchases that stay paid.
LEMMA RequestsStay ==
  ASSUME Inv, UNCHANGED request,
         \A p \in Purchase : purchase[p].status = "PAID" => purchase'[p] = purchase[p],
         \A row \in TicketRow : Sound(row, history) => Sound(row, history')
  PROVE  request' \in [Request -> RequestState] /\ RequestsOK'
<1>1. ASSUME NEW r \in Request PROVE RequestOK(request[r], history', purchase')
  <2>1. RequestOK(request[r], history, purchase) /\ request[r].row \in TicketRow
    BY DEF Inv, TypeOK, RequestsOK, RequestState
  <2> QED
    BY <2>1 DEF RequestOK
<1> QED
  BY <1>1 DEF Inv, TypeOK, RequestsOK

\* A step that leaves the sales and the gifts alone.
LEMMA TicketStep ==
  ASSUME Inv, UNCHANGED <<sales, transfer>>,
         history' \in Seq(User), Len(history') <= MaxToken, HistoryOK',
         ticket' \in TicketRow, Sound(ticket', history'),
         refunded' \subseteq Purchase \cup {FirstOrder},
         entries' \in 0..2, clock' \in 0..DoorsClose,
         request' \in [Request -> RequestState], RequestsOK'
  PROVE  Inv'
<1>1. UNCHANGED <<listing, purchase, releases, repaid, transfer>>
  BY DEF sales
<1>2. TypeOK'
  BY <1>1 DEF Inv, TypeOK
<1>3. PurchasesOK' /\ TransfersOK'
  BY <1>1 DEF Inv, PurchasesOK, TransfersOK
<1> QED
  BY <1>2, <1>3 DEF Inv

\* A row of a listing, in the shape its status gives it.
ListingOK(row) ==
  /\ row \in ListingRow
  /\ row.reserver # Nobody <=> row.status = "RESERVED"
  /\ row.late => row.status = "RESERVED"

\* A step that leaves the ticket and the gifts alone.
LEMMA SaleStep ==
  ASSUME Inv, UNCHANGED <<ticket, history, refunded, transfer, entries, clock>>,
         listing' = [l \in Listing |-> listing'[l]],
         \A l \in Listing : ListingOK(listing'[l]),
         purchase' \in [Purchase -> PurchaseRow], PurchasesOK',
         releases' \subseteq Listing, repaid' \in [Listing -> 0..2],
         request' \in [Request -> RequestState], RequestsOK'
  PROVE  Inv'
<1>1. listing' \in [Listing -> ListingRow]
  BY DEF ListingOK
<1>2. TypeOK'
  BY <1>1 DEF Inv, TypeOK, ListingOK
<1>3. TransfersOK' /\ HistoryOK'
  BY DEF Inv, TransfersOK, HistoryOK
<1> QED
  BY <1>2, <1>3 DEF Inv

LEMMA InvParts ==
  Inv => /\ ticket \in TicketRow /\ Sound(ticket, history) /\ HistoryOK
         /\ history \in Seq(User) /\ Len(history) <= MaxToken
         /\ refunded \subseteq Purchase \cup {FirstOrder}
         /\ entries \in 0..2 /\ clock \in 0..DoorsClose
         /\ listing = [l \in Listing |-> listing[l]]
         /\ \A l \in Listing : ListingOK(listing[l])
         /\ purchase \in [Purchase -> PurchaseRow] /\ PurchasesOK
         /\ releases \subseteq Listing /\ repaid \in [Listing -> 0..2]
         /\ request \in [Request -> RequestState]
         /\ \A r \in Request : RequestOK(request[r], history, purchase)
<1> SUFFICES ASSUME Inv
             PROVE  /\ listing = [l \in Listing |-> listing[l]]
                    /\ \A l \in Listing : ListingOK(listing[l])
  BY DEF Inv, TypeOK, RequestsOK
<1>1. listing \in [Listing -> ListingRow]
  BY DEF Inv, TypeOK
<1> QED
  BY <1>1 DEF Inv, TypeOK, ListingOK

\* requestResale, from the check to the mark.
LEMMA InvList ==
  ASSUME Inv, NEW r \in Request,
         (\E u \in User : ListCheck(r, u)) \/ ListRead(r) \/ ListMark(r)
  PROVE  Inv'
<1> USE InvParts
<1>1. CASE \E u \in User : ListCheck(r, u)
  <2>1. PICK u \in User : request' = [request EXCEPT ![r] = [Idle EXCEPT !.phase = "list", !.user = u]]
    BY <1>1 DEF ListCheck
  <2> DEFINE k == [Idle EXCEPT !.phase = "list", !.user = u]
  <2>2. k \in RequestState
    BY IdleType DEF RequestState, Phase, Maybe
  <2>3. RequestOK(k, history, purchase)
    BY IdleOK DEF Idle, RequestOK
  <2> HIDE DEF k
  <2>4. UNCHANGED <<ticket, history, sales, refunded, transfer, entries, clock, purchase>>
    BY <1>1 DEF ListCheck, sales
  <2>5. request' \in [Request -> RequestState] /\ RequestsOK'
    BY <2>1, <2>2, <2>3, <2>4, RequestMoves DEF k
  <2> QED
    BY <2>4, <2>5, TicketStep DEF HistoryOK
<1>2. CASE ListRead(r)
  <2>1. UNCHANGED <<ticket, history, sales, refunded, transfer, entries, clock, purchase>>
    BY <1>2 DEF ListRead, sales
  <2>2. HistoryOK'
    BY <2>1 DEF HistoryOK
  <2>3. request' \in [Request -> RequestState] /\ RequestsOK'
    <3>1. CASE Ends(r)
      BY <2>1, <2>2, <3>1, RequestEnds
    <3>2. CASE request' = [request EXCEPT ![r].phase = "mark", ![r].row = ticket]
      <4> DEFINE k == [request[r] EXCEPT !.phase = "mark", !.row = ticket]
      <4>1. k \in RequestState /\ request' = [request EXCEPT ![r] = k]
        BY <3>2 DEF RequestState, Phase
      <4>2. RequestOK(k, history, purchase)
        BY <1>2 DEF RequestOK, ListRead, In, RequestState
      <4> HIDE DEF k
      <4> QED
        BY <2>1, <4>1, <4>2, RequestMoves
    <3> QED
      BY <1>2, <3>1, <3>2 DEF ListRead
  <2> QED
    BY <2>1, <2>2, <2>3, TicketStep
<1>3. CASE ListMark(r)
  <2>1. UNCHANGED <<history, sales, refunded, transfer, entries, clock, purchase>> /\ HistoryOK'
    BY <1>3 DEF ListMark, sales, HistoryOK
  <2>2. request' \in [Request -> RequestState] /\ RequestsOK'
    BY <1>3, <2>1, RequestGoes DEF ListMark, In, Phase
  <2>3. ticket' \in TicketRow /\ Sound(ticket', history')
    BY <1>3, <2>1 DEF ListMark, RequestOK, RequestState, TicketRow, TicketStatus, Sound
  <2> QED
    BY <2>1, <2>2, <2>3, TicketStep
<1> QED
  BY <1>1, <1>2, <1>3

\* withdraw, and invalidate.
LEMMA InvWithdrawOrInvalidate ==
  ASSUME Inv, NEW r \in Request,
         \/ \E l \in Listing : WithdrawRead(r, l)
         \/ WithdrawRestore(r) \/ InvalidateRead(r) \/ InvalidateSave(r)
  PROVE  Inv'
<1> USE InvParts
<1>1. /\ UNCHANGED <<history, sales, refunded, transfer, entries, clock, purchase>>
      /\ HistoryOK'
  BY DEF WithdrawRead, WithdrawRestore, InvalidateRead, InvalidateSave, sales, HistoryOK
<1>2. ticket' \in TicketRow /\ Sound(ticket', history')
  <2>1. CASE ticket' = ticket
    BY <1>1, <2>1
  <2>2. CASE WithdrawRestore(r)
    BY <1>1, <2>2 DEF WithdrawRestore, TicketRow, TicketStatus, Sound
  <2>3. CASE InvalidateSave(r)
    <3>1. request[r].row \in TicketRow /\ Sound(request[r].row, history)
      BY DEF RequestOK, RequestState
    <3> QED
      BY <1>1, <2>3, <3>1 DEF InvalidateSave, TicketRow, TicketStatus, Sound
  <2> QED
    BY <2>1, <2>2, <2>3 DEF WithdrawRead, InvalidateRead
<1>3. request' \in [Request -> RequestState] /\ RequestsOK'
  <2>1. ASSUME NEW l \in Listing, WithdrawRead(r, l)
        PROVE  request' \in [Request -> RequestState] /\ RequestsOK'
    <3> DEFINE k == [Idle EXCEPT !.phase = "restore", !.offer = l]
    <3>1. k \in RequestState
      BY IdleType DEF RequestState, Phase, Maybe
    <3>2. RequestOK(k, history, purchase)
      BY IdleOK DEF Idle, RequestOK
    <3>3. request' = [request EXCEPT ![r] = k]
      BY <2>1 DEF WithdrawRead
    <3> HIDE DEF k
    <3> QED
      BY <1>1, <3>1, <3>2, <3>3, RequestMoves
  <2>2. CASE WithdrawRestore(r)
    BY <1>1, <2>2, RequestGoes DEF WithdrawRestore, In, Phase
  <2>3. CASE InvalidateRead(r)
    <3> DEFINE k == [Idle EXCEPT !.phase = "invalidate", !.row = ticket]
    <3>1. k \in RequestState
      BY IdleType DEF RequestState, Phase
    <3>2. RequestOK(k, history, purchase)
      BY DEF Idle, RequestOK
    <3>3. request' = [request EXCEPT ![r] = k]
      BY <2>3 DEF InvalidateRead
    <3> HIDE DEF k
    <3> QED
      BY <1>1, <3>1, <3>2, <3>3, RequestMoves
  <2>4. CASE InvalidateSave(r)
    BY <1>1, <2>4, RequestEnds DEF InvalidateSave
  <2> QED
    BY <2>1, <2>2, <2>3, <2>4
<1> QED
  BY <1>1, <1>2, <1>3, TicketStep

\* completeResale, up to the transfer to the new holder.
LEMMA InvComplete ==
  ASSUME Inv, NEW r \in Request,
         (\E p \in Purchase : CompleteRead(r, p)) \/ CompleteTransferRead(r) \/ CompleteTransferSave(r)
  PROVE  Inv'
<1> USE InvParts
<1>1. UNCHANGED <<sales, refunded, transfer, entries, clock, purchase>>
  BY DEF CompleteRead, CompleteTransferRead, CompleteTransferSave, sales
<1>2. ASSUME NEW p \in Purchase, CompleteRead(r, p) PROVE Inv'
  <2> DEFINE k == [Idle EXCEPT !.phase = "complete", !.order = p, !.offer = purchase[p].offer]
  <2>1. purchase[p].status = "PAID" /\ purchase[p].offer \in Listing
    BY <1>2 DEF CompleteRead, PurchasesOK
  <2>2. k \in RequestState
    BY <2>1, IdleType DEF RequestState, Phase, Maybe
  <2>3. RequestOK(k, history, purchase)
    BY <2>1, IdleOK DEF Idle, RequestOK
  <2>4. request' = [request EXCEPT ![r] = k] /\ UNCHANGED <<ticket, history>>
    BY <1>2 DEF CompleteRead
  <2> HIDE DEF k
  <2>5. request' \in [Request -> RequestState] /\ RequestsOK'
    BY <1>1, <2>2, <2>3, <2>4, RequestMoves
  <2> QED
    BY <1>1, <2>4, <2>5, TicketStep DEF HistoryOK
<1>3. CASE CompleteTransferRead(r)
  <2>1. UNCHANGED <<ticket, history>> /\ HistoryOK'
    BY <1>3 DEF CompleteTransferRead, HistoryOK
  <2>2. request' \in [Request -> RequestState] /\ RequestsOK'
    <3>1. CASE Ends(r)
      BY <1>1, <2>1, <3>1, RequestEnds
    <3>2. CASE request' = [request EXCEPT ![r].phase = "transfer", ![r].row = ticket]
      <4> DEFINE k == [request[r] EXCEPT !.phase = "transfer", !.row = ticket]
      <4>1. k \in RequestState /\ request' = [request EXCEPT ![r] = k]
        BY <3>2 DEF RequestState, Phase
      <4>2. RequestOK(k, history, purchase)
        BY <1>3 DEF RequestOK, CompleteTransferRead, In, RequestState
      <4> HIDE DEF k
      <4> QED
        BY <1>1, <2>1, <4>1, <4>2, RequestMoves
    <3> QED
      BY <1>3, <3>1, <3>2 DEF CompleteTransferRead
  <2> QED
    BY <1>1, <2>1, <2>2, TicketStep
<1>4. CASE CompleteTransferSave(r)
  <2> DEFINE p == request[r].order
             u == purchase[p].buyer
             row == request[r].row
  <2>1. p \in Purchase /\ u \in User /\ row \in TicketRow
    BY <1>4 DEF CompleteTransferSave, In, RequestOK, PurchasesOK, RequestState
  <2>2. NewToken(u)
    BY <1>4 DEF CompleteTransferSave
  <2>3. Reassign(row, u) \in TicketRow /\ Sound(Reassign(row, u), history')
    BY <2>1, <2>2, ReassignOK
  <2>4. /\ history' \in Seq(User) /\ Len(history') <= MaxToken /\ HistoryOK'
        /\ \A x \in TicketRow : Sound(x, history) => Sound(x, history')
    BY <2>1, <2>2, HistoryGrows
  <2>5. ticket' = [Reassign(row, u) EXCEPT !.order = p, !.status = "SENT"]
    BY <1>4 DEF CompleteTransferSave
  <2>6. ticket' \in TicketRow /\ Sound(ticket', history')
    <3> HIDE DEF p, u, row
    <3> QED
      BY <2>1, <2>3, <2>5 DEF TicketRow, TicketStatus, Sound
  <2>7. request' \in [Request -> RequestState] /\ RequestsOK'
    BY <1>1, <1>4, <2>4, RequestGoes DEF CompleteTransferSave, In, Phase
  <2> QED
    BY <1>1, <2>4, <2>6, <2>7, TicketStep
<1> QED
  BY <1>2, <1>3, <1>4

\* Refunds, the cancellation of the event, an entry, whenever it was made, and
\* the clock.
LEMMA InvDoor ==
  ASSUME Inv,
         \/ \E o \in Purchase \cup {FirstOrder} : RefundOrder(o)
         \/ CancelByEvent \/ (\E k \in 1..MaxToken : Consume(k)) \/ Tick
  PROVE  Inv'
<1> USE InvParts
<1>1. UNCHANGED <<history, sales, transfer, request, purchase>> /\ HistoryOK'
  BY DEF RefundOrder, CancelByEvent, Consume, Tick, sales, HistoryOK
<1>2. ticket' \in TicketRow /\ Sound(ticket', history')
  BY <1>1 DEF RefundOrder, CancelByEvent, Consume, Tick, TicketRow, TicketStatus, Sound
<1>3. refunded' \subseteq Purchase \cup {FirstOrder}
  BY DEF RefundOrder, CancelByEvent, Consume, Tick
<1>4. entries' \in 0..2
  BY DEF RefundOrder, CancelByEvent, Consume, Tick
<1>5. clock' \in 0..DoorsClose
  BY Constants DEF RefundOrder, CancelByEvent, Consume, Tick
<1>6. request' \in [Request -> RequestState] /\ RequestsOK'
  BY <1>1, RequestsStay
<1> QED
  BY <1>1, <1>2, <1>3, <1>4, <1>5, <1>6, TicketStep

\* Gifts and reversals.
LEMMA InvGive ==
  ASSUME Inv, NEW t \in Transfer, Revert(t) \/ \E u \in User : Gift(t, u)
  PROVE  Inv'
<1> USE InvParts
<1>1. PICK u \in User : NewToken(u) /\ ticket' = Reassign(ticket, u)
  BY DEF Revert, Gift, Inv, TransfersOK
<1>2. ticket' \in TicketRow /\ Sound(ticket', history')
  BY <1>1, ReassignOK
<1>3. /\ history' \in Seq(User) /\ Len(history') <= MaxToken /\ HistoryOK'
      /\ \A x \in TicketRow : Sound(x, history) => Sound(x, history')
  BY <1>1, HistoryGrows
<1>4. UNCHANGED <<listing, purchase, releases, repaid, refunded, entries, clock, request>>
  BY DEF Revert, Gift, sales
<1>5. request' \in [Request -> RequestState] /\ RequestsOK'
  BY <1>3, <1>4, RequestsStay
<1>6. transfer' \in [Transfer -> TransferRow] /\ TransfersOK'
  <2>1. transfer \in [Transfer -> TransferRow] /\ TransfersOK /\ ticket.buyer \in User
    BY DEF Inv, TypeOK, TicketRow
  <2>2. CASE Revert(t)
    BY <2>1, <2>2 DEF Revert, TransferRow, TransfersOK
  <2>3. ASSUME NEW v \in User, Gift(t, v) PROVE transfer' \in [Transfer -> TransferRow] /\ TransfersOK'
    <3> DEFINE new == [status |-> "ACTIVE", from |-> ticket.buyer, to |-> v]
    <3>1. new \in TransferRow /\ new.from \in User /\ new.to \in User
      BY <2>1 DEF TransferRow, Maybe
    <3>2. transfer' = [transfer EXCEPT ![t] = new]
      BY <2>3 DEF Gift
    <3> HIDE DEF new
    <3> QED
      BY <2>1, <3>1, <3>2 DEF TransfersOK
  <2> QED
    BY <2>2, <2>3
<1>7. TypeOK'
  BY <1>2, <1>3, <1>4, <1>5, <1>6 DEF Inv, TypeOK
<1>8. PurchasesOK'
  BY <1>4 DEF Inv, PurchasesOK
<1> QED
  BY <1>2, <1>3, <1>5, <1>6, <1>7, <1>8 DEF Inv

\* A step on the listings alone.
LEMMA ListingStep ==
  ASSUME Inv, UNCHANGED <<ticket, history, refunded, transfer, entries, clock, purchase>>,
         listing' = [l \in Listing |-> listing'[l]],
         \A l \in Listing : ListingOK(listing'[l]),
         releases' \subseteq Listing, repaid' \in [Listing -> 0..2],
         UNCHANGED request \/ \E r \in Request : Ends(r)
  PROVE  Inv'
<1> USE InvParts
<1>1. PurchasesOK' /\ HistoryOK'
  BY DEF PurchasesOK, HistoryOK
<1>2. request' \in [Request -> RequestState] /\ RequestsOK'
  BY <1>1, RequestsStay, RequestEnds
<1> QED
  BY <1>1, <1>2, SaleStep

\* The listing is created, withdrawn, sold.
LEMMA InvListingByRequest ==
  ASSUME Inv, NEW r \in Request,
         (\E l \in Listing : ListInsert(r, l)) \/ WithdrawSave(r) \/ CompleteSold(r)
  PROVE  Inv'
<1> USE InvParts
<1>1. RequestOK(request[r], history, purchase)
  OBVIOUS
<1>2. /\ UNCHANGED <<ticket, history, refunded, transfer, entries, clock, purchase, releases>>
      /\ Ends(r)
  BY DEF ListInsert, WithdrawSave, CompleteSold
<1>3. ASSUME NEW l \in Listing, ListInsert(r, l) PROVE Inv'
  <2> DEFINE row == [listing[l] EXCEPT !.status = "LISTED", !.seller = request[r].user]
  <2>1. request[r].user \in User /\ listing[l].status = "NONE" /\ ListingOK(listing[l])
    BY <1>1, <1>3 DEF ListInsert, In, RequestOK
  <2>2. ListingOK(row)
    BY <2>1, Constants DEF ListingOK, ListingRow, Maybe
  <2>3. listing' = [listing EXCEPT ![l] = row] /\ UNCHANGED repaid
    BY <1>3 DEF ListInsert
  <2> HIDE DEF row
  <2> QED
    BY <1>2, <2>2, <2>3, ListingStep
<1>4. ASSUME NEW l \in Listing, NEW s \in {"WITHDRAWN", "SOLD"}
      PROVE  ListingOK([NoListing EXCEPT !.status = s, !.seller = listing[l].seller])
  <2>1. ListingOK(listing[l])
    OBVIOUS
  <2> QED
    BY <2>1, Constants DEF ListingOK, ListingRow, NoListing, Maybe
<1>5. CASE WithdrawSave(r)
  <2> DEFINE l == request[r].offer
             row == [NoListing EXCEPT !.status = "WITHDRAWN", !.seller = listing[l].seller]
  <2>1. l \in Listing
    BY <1>1, <1>5 DEF WithdrawSave, In, RequestOK
  <2>2. ListingOK(row)
    BY <1>4, <2>1
  <2>3. listing' = [listing EXCEPT ![l] = row] /\ UNCHANGED repaid
    BY <1>5 DEF WithdrawSave
  <2> HIDE DEF row, l
  <2> QED
    BY <1>2, <2>2, <2>3, ListingStep
<1>6. CASE CompleteSold(r)
  <2> DEFINE l == request[r].offer
             row == [NoListing EXCEPT !.status = "SOLD", !.seller = listing[l].seller]
  <2>1. l \in Listing
    BY <1>1, <1>6 DEF CompleteSold, In, RequestOK, PurchasesOK
  <2>2. ListingOK(row)
    BY <1>4, <2>1
  <2>3. /\ listing' = [listing EXCEPT ![l] = row]
        /\ repaid[l] < 2 /\ repaid' = [repaid EXCEPT ![l] = @ + 1]
    BY <1>6 DEF CompleteSold
  <2> HIDE DEF row, l
  <2>4. repaid' \in [Listing -> 0..2]
    BY <2>1, <2>3
  <2> QED
    BY <1>2, <2>2, <2>3, <2>4, ListingStep
<1> QED
  BY <1>3, <1>5, <1>6

LEMMA AvailableOK ==
  ASSUME NEW row, ListingOK(row)
  PROVE  ListingOK(Available(row))
  BY Constants DEF ListingOK, Available, ListingRow, Maybe

\* Reservations, payments, releases and the two crons.
LEMMA InvOffer == Inv /\ Offer => Inv'
<1> SUFFICES ASSUME Inv, Offer PROVE Inv'
  OBVIOUS
<1> USE InvParts
<1>1. ASSUME NEW p \in Purchase, Pay(p) \/ Abandon(p) PROVE Inv'
  <2>1. UNCHANGED <<ticket, history, listing, refunded, transfer, entries, clock, repaid, request>>
    BY <1>1 DEF Pay, Abandon
  <2>2. PICK s \in {"PAID", "CANCELLED"} : purchase' = [purchase EXCEPT ![p].status = s]
    BY <1>1 DEF Pay, Abandon
  <2> DEFINE new == [purchase[p] EXCEPT !.status = s]
  <2>3. purchase[p].status = "PENDING"
    BY <1>1 DEF Pay, Abandon
  <2>4. /\ new \in PurchaseRow /\ purchase' = [purchase EXCEPT ![p] = new]
        /\ new.buyer = purchase[p].buyer /\ new.offer = purchase[p].offer
    BY <2>2 DEF PurchaseRow
  <2>5. purchase[p].status = "PENDING" /\ purchase[p].offer \in Listing
    BY <2>3 DEF PurchasesOK
  <2>6. purchase' \in [Purchase -> PurchaseRow] /\ PurchasesOK'
    <3> HIDE DEF new
    <3> QED
      BY <2>3, <2>4 DEF PurchasesOK
  <2>7. releases' \subseteq Listing
    BY <1>1, <2>5 DEF Pay, Abandon
  <2>8. \A q \in Purchase : purchase[q].status = "PAID" => purchase'[q] = purchase[q]
    BY <1>1, <2>5 DEF Pay, Abandon
  <2>9. request' \in [Request -> RequestState] /\ RequestsOK'
    BY <2>1, <2>8, RequestsStay
  <2> QED
    BY <2>1, <2>6, <2>7, <2>9, SaleStep
<1>2. ASSUME NEW p \in Purchase, NEW l \in Listing, NEW u \in User, Reserve(p, l, u) PROVE Inv'
  <2> DEFINE row == [listing[l] EXCEPT !.status = "RESERVED", !.reserver = u, !.late = FALSE]
             new == [status |-> "PENDING", buyer |-> u, offer |-> l]
  <2>1. UNCHANGED <<ticket, history, refunded, transfer, entries, clock, repaid, request>>
    BY <1>2 DEF Reserve
  <2>2. ListingOK(row)
    BY Constants DEF ListingOK, ListingRow, Maybe
  <2>3. new \in PurchaseRow /\ new.buyer = u /\ new.offer = l
    BY DEF PurchaseRow, Maybe
  <2>4. /\ purchase[p].status = "NONE" /\ listing' = [listing EXCEPT ![l] = row]
        /\ releases' \subseteq Listing
        /\ purchase' = purchase \/ purchase' = [purchase EXCEPT ![p] = new]
    BY <1>2 DEF Reserve
  <2> HIDE DEF row, new
  <2>5. purchase' \in [Purchase -> PurchaseRow] /\ PurchasesOK'
    BY <2>3, <2>4 DEF PurchasesOK
  <2>6. \A q \in Purchase : purchase[q].status = "PAID" => purchase'[q] = purchase[q]
    BY <2>4
  <2>7. request' \in [Request -> RequestState] /\ RequestsOK'
    BY <2>1, <2>6, RequestsStay
  <2>8. listing' = [m \in Listing |-> listing'[m]] /\ \A m \in Listing : ListingOK(listing'[m])
    BY <2>2, <2>4
  <2> QED
    BY <2>1, <2>4, <2>5, <2>7, <2>8, SaleStep
<1>3. ASSUME NEW l \in Listing, ReservationTimesOut(l) PROVE Inv'
  <2> DEFINE row == [listing[l] EXCEPT !.late = TRUE]
  <2>1. ListingOK(row)
    BY <1>3 DEF ReservationTimesOut, ListingOK, ListingRow
  <2>2. listing' = [listing EXCEPT ![l] = row]
    BY <1>3 DEF ReservationTimesOut
  <2> HIDE DEF row
  <2>3. listing' = [m \in Listing |-> listing'[m]] /\ \A m \in Listing : ListingOK(listing'[m])
    BY <2>1, <2>2
  <2> QED
    BY <1>3, <2>3, ListingStep DEF ReservationTimesOut
<1>4. ASSUME NEW l \in Listing, ReleaseArrives(l) PROVE Inv'
  <2>1. ListingOK(Available(listing[l]))
    BY AvailableOK
  <2>2. listing' = [m \in Listing |-> listing'[m]] /\ \A m \in Listing : ListingOK(listing'[m])
    BY <1>4, <2>1 DEF ReleaseArrives
  <2> QED
    BY <1>4, <2>2, ListingStep DEF ReleaseArrives
<1>5. ASSUME NEW l \in Listing, ReleaseLost(l) PROVE Inv'
  BY <1>5, ListingStep DEF ReleaseLost
<1>6. CASE ReleaseStale
  <2>1. \A l \in Listing : ListingOK(Available(listing[l]))
    BY AvailableOK
  <2>2. listing' = [m \in Listing |-> listing'[m]] /\ \A m \in Listing : ListingOK(listing'[m])
    BY <1>6, <2>1 DEF ReleaseStale
  <2> QED
    BY <1>6, <2>2, ListingStep DEF ReleaseStale
<1>7. CASE ExpireOldListings
  <2>1. \A l \in Listing : listing[l].status = "LISTED" => ListingOK([listing[l] EXCEPT !.status = "EXPIRED"])
    BY DEF ListingOK, ListingRow
  <2>2. listing' = [m \in Listing |-> listing'[m]] /\ \A m \in Listing : ListingOK(listing'[m])
    BY <1>7, <2>1 DEF ExpireOldListings
  <2> QED
    BY <1>7, <2>2, ListingStep DEF ExpireOldListings
<1> QED
  BY <1>1, <1>2, <1>3, <1>4, <1>5, <1>6, <1>7 DEF Offer

LEMMA InvStep == Inv /\ [Next]_vars => Inv'
<1> SUFFICES ASSUME Inv, [Next]_vars PROVE Inv'
  OBVIOUS
<1>1. CASE UNCHANGED vars
  <2>1. UNCHANGED <<ticket, history, sales, refunded, transfer, entries, clock, request, purchase>>
    BY <1>1 DEF vars, sales
  <2>2. HistoryOK' /\ request' \in [Request -> RequestState] /\ RequestsOK'
    BY <2>1, InvParts, RequestsStay DEF HistoryOK
  <2> QED
    BY <2>1, <2>2, InvParts, TicketStep
<1>2. ASSUME NEW r \in Request, Sell(r) PROVE Inv'
  BY <1>2, InvList, InvListingByRequest, InvWithdrawOrInvalidate DEF Sell
<1>3. ASSUME NEW r \in Request, Buy(r) PROVE Inv'
  BY <1>3, InvComplete, InvListingByRequest DEF Buy
<1>4. CASE Give
  BY <1>4, InvGive DEF Give
<1>5. CASE Void
  BY <1>5, InvDoor, InvWithdrawOrInvalidate DEF Void
<1>6. CASE Tick \/ \E k \in 1..MaxToken : Scan(k)
  BY <1>6, InvDoor DEF Scan
<1> QED
  BY <1>1, <1>2, <1>3, <1>4, <1>5, <1>6, InvOffer DEF Next, Desk

LEMMA InvAlways == Spec => []Inv
<1> QED
  BY InvInit, InvStep, PTL DEF Spec

\* The rows of ticket-service and the requests at work on them keep their types,
\* and a listing names a reserver exactly while it is reserved.
THEOREM TypeCorrect == Spec => []TypeOK
<1>1. Inv => TypeOK
  BY DEF Inv
<1> QED
  BY <1>1, InvAlways, PTL

\* Whatever overlaps, the QR code the door accepts was made for the account that
\* holds the ticket.
THEOREM TokenAlwaysHolders == Spec => []TokenIsHolders
<1>1. Inv => TokenIsHolders
  BY DEF Inv, Sound, TokenIsHolders
<1> QED
  BY <1>1, InvAlways, PTL

-----------------------------------------------------------------------------
(* When the rows are not overwritten, the ticket not listed twice, and no      *)
(* ticket in resale refunded                                                   *)

Orderly == Overlaps \subseteq {"expiry", "release"}

\* A request that has read the ticket works on it alone.
OneAtWork == \A r, s \in Request : ~In(r, "idle") /\ ~In(s, "idle") => r = s

\* What the phase of a request at work says of the ticket and of the listings.
NoOffer(rows) == \A l \in Listing : rows[l].status \notin {"LISTED", "RESERVED"}
AtWorkOK(k, row, rows) ==
  /\ k.phase \in {"list", "mark"} => row.status = "SENT" /\ row.buyer = k.user /\ NoOffer(rows)
  /\ k.phase = "insert" => row.status = "FOR_RESALE" /\ row.buyer = k.user /\ NoOffer(rows)
  /\ k.phase = "invalidate" => NoOffer(rows)
  /\ k.phase \in {"mark", "transfer", "invalidate"} => k.row = row
  /\ k.phase \in {"restore", "withdraw"} => rows[k.offer].status = "LISTED"
  /\ k.phase \in {"complete", "transfer", "sold"} => rows[k.offer].status = "RESERVED"
  /\ k.phase \in {"withdraw", "sold"} => row.status = "SENT"

\* The request is between its writes to the ticket and to the listing l.
Leaves(k, l) == k.phase \in {"withdraw", "sold"} /\ k.offer = l

OneOffer == \A l, m \in Listing : Active(l) /\ Active(m) => l = m
OffersHeld ==
  \A l \in Listing : Active(l) =>
    \/ ticket.status = "FOR_RESALE" /\ ticket.buyer = listing[l].seller
    \/ \E r \in Request : Leaves(request[r], l)

EnteredForGood == entries = 0 \/ (entries = 1 /\ ticket.status \in Over)
RepaidWhenSold == \A l \in Listing : repaid[l] = 0 \/ (repaid[l] = 1 /\ listing[l].status = "SOLD")

\* An order refunded is not the order of a ticket that lives, nor can it still
\* be completed.
RefundedIsOut ==
  /\ ticket.status \notin Over => ticket.order \notin refunded
  /\ \A p \in Purchase : purchase[p].status # "NONE" => listing[purchase[p].offer].status # "NONE"
  /\ \A p \in Purchase : p \in refunded => purchase[p].status = "PAID" /\ ~Active(purchase[p].offer)

Tidy ==
  /\ OneAtWork /\ OneOffer /\ OffersHeld
  /\ EnteredForGood /\ RepaidWhenSold /\ RefundedIsOut
  /\ \A r \in Request : AtWorkOK(request[r], ticket, listing)

LEMMA TidyInit == Init => Tidy
<1> SUFFICES ASSUME Init PROVE Tidy
  OBVIOUS
<1>1. \A r \in Request : request[r] = Idle
  BY DEF Init
<1>2. \A l \in Listing : listing[l].status = "NONE"
  BY DEF Init, NoListing
<1>3. OneAtWork /\ \A r \in Request : AtWorkOK(request[r], ticket, listing)
  BY <1>1 DEF OneAtWork, In, Idle, AtWorkOK
<1>4. OneOffer /\ OffersHeld
  BY <1>2 DEF OneOffer, OffersHeld, Active
<1>5. EnteredForGood /\ RepaidWhenSold /\ RefundedIsOut
  BY DEF Init, EnteredForGood, RepaidWhenSold, RefundedIsOut, NoPurchase
<1> QED
  BY <1>3, <1>4, <1>5 DEF Tidy

\* Nobody else is at work, and no request at work on a listing is disturbed.
LEMMA Undisturbed ==
  ASSUME Orderly, Inv
  PROVE  /\ "stale" \notin Overlaps /\ "relist" \notin Overlaps /\ "refund" \notin Overlaps
         /\ MayWriteTicket => \A r \in Request : In(r, "idle")
         /\ \A l \in Listing : MayWriteListing(l) => \A r \in Request : request[r].offer # l
<1>1. "stale" \notin Overlaps /\ "relist" \notin Overlaps /\ "refund" \notin Overlaps
  BY DEF Orderly
<1> QED
  BY <1>1 DEF MayWriteTicket, MayWriteListing, TicketReaders, ListingReaders

\* A step of the only request at work.
LEMMA WorkStep ==
  ASSUME Inv, Tidy, NEW r \in Request, NEW k, request' = [request EXCEPT ![r] = k],
         \A s \in Request : s # r => In(s, "idle"),
         AtWorkOK(k, ticket', listing'),
         OneOffer',
         \A l \in Listing : Active(l)' =>
           \/ ticket'.status = "FOR_RESALE" /\ ticket'.buyer = listing'[l].seller
           \/ Leaves(k, l),
         EnteredForGood', RepaidWhenSold', RefundedIsOut'
  PROVE  Tidy'
<1>1. /\ request'[r] = k
      /\ \A s \in Request : s # r => request'[s] = request[s] /\ request'[s].phase = "idle"
  BY DEF Inv, TypeOK, In
<1>2. OneAtWork'
  BY <1>1 DEF OneAtWork, In
<1>3. ASSUME NEW s \in Request PROVE AtWorkOK(request'[s], ticket', listing')
  BY <1>1 DEF AtWorkOK
<1>4. OffersHeld'
  BY <1>1 DEF OffersHeld
<1> QED
  BY <1>2, <1>3, <1>4 DEF Tidy

\* A request that has read the ticket is alone at work.
LEMMA Alone ==
  ASSUME Tidy, NEW r \in Request, ~In(r, "idle")
  PROVE  /\ \A s \in Request : s # r => In(s, "idle")
         /\ \A l \in Listing : Active(l) =>
              \/ ticket.status = "FOR_RESALE" /\ ticket.buyer = listing[l].seller
              \/ Leaves(request[r], l)
         /\ AtWorkOK(request[r], ticket, listing)
<1>1. \A s \in Request : s # r => In(s, "idle")
  BY DEF Tidy, OneAtWork
<1>2. \A s \in Request, l \in Listing : Leaves(request[s], l) => s = r
  BY <1>1 DEF Leaves, In
<1> QED
  BY <1>1, <1>2 DEF Tidy, OffersHeld

\* Nobody is at work: every listing on offer is held by its seller.
LEMMA Quiet ==
  ASSUME Tidy, \A r \in Request : In(r, "idle")
  PROVE  /\ \A l \in Listing : Active(l) =>
              ticket.status = "FOR_RESALE" /\ ticket.buyer = listing[l].seller
         /\ \A r \in Request : ~In(r, "list")
  BY DEF Tidy, OffersHeld, Leaves, In

\* The parts that a step on the request and the ticket's status leaves alone.
LEMMA SalesKept ==
  ASSUME Tidy, UNCHANGED <<listing, purchase, repaid>>
  PROVE  /\ OneOffer' /\ RepaidWhenSold'
         /\ UNCHANGED <<entries, refunded>>
              /\ (ticket' = ticket
                  \/ (ticket.status \notin Over /\ ticket'.order = ticket.order /\ entries = 0)
                  \/ (ticket'.status \in Over))
            => EnteredForGood' /\ RefundedIsOut'
<1>1. \A l \in Listing : Active(l)' <=> Active(l)
  BY DEF Active
<1>2. OneOffer' /\ RepaidWhenSold'
  BY <1>1 DEF Tidy, OneOffer, RepaidWhenSold
<1>3. ASSUME UNCHANGED <<entries, refunded>>,
             \/ ticket' = ticket
             \/ ticket.status \notin Over /\ ticket'.order = ticket.order /\ entries = 0
             \/ ticket'.status \in Over
      PROVE  EnteredForGood' /\ RefundedIsOut'
  <2>1. EnteredForGood'
    BY <1>3 DEF Tidy, EnteredForGood
  <2>2. \A p \in Purchase : Active(purchase[p].offer)' <=> Active(purchase[p].offer)
    BY DEF Active
  <2>3. RefundedIsOut'
    BY <1>3, <2>2 DEF Tidy, RefundedIsOut
  <2> QED
    BY <2>1, <2>3
<1> QED
  BY <1>2, <1>3

\* requestResale.
LEMMA TidyList ==
  ASSUME Orderly, Inv, Tidy, NEW r \in Request,
         (\E u \in User : ListCheck(r, u)) \/ ListRead(r) \/ ListMark(r)
  PROVE  Tidy'
<1>1. UNCHANGED <<listing, purchase, repaid, entries, refunded>>
  BY DEF ListCheck, ListRead, ListMark, sales
<1>2. \A l \in Listing : Active(l)' <=> Active(l)
  BY <1>1 DEF Active
<1>3. ASSUME NEW u \in User, ListCheck(r, u) PROVE Tidy'
  <2> DEFINE k == [Idle EXCEPT !.phase = "list", !.user = u]
  <2>1. /\ UNCHANGED ticket /\ request' = [request EXCEPT ![r] = k]
        /\ ticket.status = "SENT" /\ ticket.buyer = u
        /\ \A s \in Request : In(s, "idle")
    BY <1>3, Undisturbed DEF ListCheck, Valid
  <2>2. \A l \in Listing : ~Active(l)
    BY <2>1, Quiet
  <2>3. k.phase = "list" /\ k.user = u
    BY DEF Idle
  <2>4. AtWorkOK(k, ticket', listing')
    BY <1>1, <2>1, <2>2, <2>3 DEF AtWorkOK, NoOffer, Active
  <2> HIDE DEF k
  <2> QED
    BY <1>1, <1>2, <2>1, <2>2, <2>4, SalesKept, WorkStep
<1>4. CASE ListRead(r)
  <2>1. /\ request[r].phase = "list" /\ UNCHANGED ticket
        /\ \A s \in Request : s # r => In(s, "idle")
        /\ ticket.status = "SENT" /\ ticket.buyer = request[r].user /\ NoOffer(listing)
    BY <1>4, Alone DEF ListRead, In, AtWorkOK
  <2>2. PICK k : /\ request' = [request EXCEPT ![r] = k]
                 /\ \/ k = Idle
                    \/ k.phase = "mark" /\ k.row = ticket /\ k.user = request[r].user
    <3>1. CASE Ends(r)
      BY <3>1 DEF Ends
    <3>2. CASE request' = [request EXCEPT ![r].phase = "mark", ![r].row = ticket]
      <4> DEFINE n == [request[r] EXCEPT !.phase = "mark", !.row = ticket]
      <4>1. n.phase = "mark" /\ n.row = ticket /\ n.user = request[r].user
        BY DEF Inv, TypeOK, RequestState
      <4>2. request' = [request EXCEPT ![r] = n]
        BY <3>2
      <4> QED
        BY <4>1, <4>2
    <3> QED
      BY <1>4, <3>1, <3>2 DEF ListRead
  <2>3. AtWorkOK(k, ticket', listing')
    BY <1>1, <2>1, <2>2 DEF AtWorkOK, Idle
  <2>4. \A l \in Listing : ~Active(l)'
    BY <1>2, <2>1 DEF NoOffer, Active
  <2> QED
    BY <1>1, <2>1, <2>2, <2>3, <2>4, SalesKept, WorkStep
<1>5. CASE ListMark(r)
  <2> DEFINE k == [request[r] EXCEPT !.phase = "insert"]
  <2>1. /\ request[r].phase = "mark" /\ request[r].row = ticket
        /\ \A s \in Request : s # r => In(s, "idle")
        /\ ticket.status = "SENT" /\ ticket.buyer = request[r].user /\ NoOffer(listing)
    BY <1>5, Alone DEF ListMark, In, AtWorkOK
  <2>2. ticket' = [ticket EXCEPT !.status = "FOR_RESALE"] /\ request' = [request EXCEPT ![r] = k]
    BY <1>5, <2>1 DEF ListMark, Goes
  <2>3. /\ ticket'.status = "FOR_RESALE" /\ ticket'.buyer = ticket.buyer /\ ticket'.order = ticket.order
        /\ k.phase = "insert" /\ k.user = request[r].user
    BY <2>2 DEF Inv, TypeOK, TicketRow, RequestState
  <2>4. AtWorkOK(k, ticket', listing')
    BY <1>1, <2>1, <2>3 DEF AtWorkOK
  <2>5. \A l \in Listing : ~Active(l)'
    BY <1>2, <2>1 DEF NoOffer, Active
  <2>6. ticket.status \notin Over /\ entries = 0
    BY <2>1 DEF Tidy, EnteredForGood, Over
  <2> HIDE DEF k
  <2> QED
    BY <1>1, <2>1, <2>2, <2>3, <2>4, <2>5, <2>6, SalesKept, WorkStep
<1> QED
  BY <1>3, <1>4, <1>5

LEMMA TidyInsert ==
  ASSUME Inv, Tidy, NEW r \in Request, NEW l \in Listing, ListInsert(r, l)
  PROVE  Tidy'
<1> DEFINE row == [listing[l] EXCEPT !.status = "LISTED", !.seller = request[r].user]
<1>1. /\ request[r].phase = "insert" /\ listing[l].status = "NONE"
      /\ \A s \in Request : s # r => In(s, "idle")
      /\ ticket.status = "FOR_RESALE" /\ ticket.buyer = request[r].user /\ NoOffer(listing)
  BY Alone DEF ListInsert, In, AtWorkOK
<1>2. /\ UNCHANGED <<ticket, purchase, repaid, entries, refunded>>
      /\ request' = [request EXCEPT ![r] = Idle]
      /\ listing' = [listing EXCEPT ![l] = row]
      /\ row.status = "LISTED" /\ row.seller = request[r].user
  BY DEF ListInsert, Ends, Inv, TypeOK, ListingRow
<1> HIDE DEF row
<1>3. listing'[l] = row /\ \A m \in Listing : m # l => listing'[m] = listing[m]
  BY <1>2 DEF Inv, TypeOK
<1>4. \A m \in Listing : Active(m)' <=> m = l
  BY <1>1, <1>2, <1>3 DEF Active, NoOffer
<1>5. OneOffer'
  BY <1>4 DEF OneOffer
<1>6. EnteredForGood'
  BY <1>2 DEF Tidy, EnteredForGood
<1>7. RepaidWhenSold'
  BY <1>1, <1>2, <1>3 DEF Tidy, RepaidWhenSold
<1>8. RefundedIsOut'
  <2>1. ASSUME NEW p \in Purchase, purchase[p].status # "NONE"
        PROVE  purchase[p].offer \in Listing /\ purchase[p].offer # l
    BY <1>1, <2>1 DEF Tidy, RefundedIsOut, Inv, PurchasesOK
  <2> QED
    BY <1>2, <1>3, <1>4, <2>1 DEF Tidy, RefundedIsOut
<1>9. AtWorkOK(Idle, ticket', listing')
  BY DEF Idle, AtWorkOK
<1>10. \A m \in Listing : Active(m)' =>
         ticket'.status = "FOR_RESALE" /\ ticket'.buyer = listing'[m].seller
  BY <1>1, <1>2, <1>3, <1>4
<1> QED
  BY <1>1, <1>2, <1>5, <1>6, <1>7, <1>8, <1>9, <1>10, WorkStep

\* withdraw.
LEMMA TidyWithdraw ==
  ASSUME Orderly, Inv, Tidy, NEW r \in Request,
         (\E l \in Listing : WithdrawRead(r, l)) \/ WithdrawRestore(r) \/ WithdrawSave(r)
  PROVE  Tidy'
<1>1. ASSUME NEW l \in Listing, WithdrawRead(r, l) PROVE Tidy'
  <2> DEFINE k == [Idle EXCEPT !.phase = "restore", !.offer = l]
  <2>1. /\ UNCHANGED <<ticket, listing, purchase, repaid, entries, refunded>>
        /\ request' = [request EXCEPT ![r] = k] /\ listing[l].status = "LISTED"
        /\ \A s \in Request : In(s, "idle")
    BY <1>1, Undisturbed DEF WithdrawRead, sales
  <2>2. \A m \in Listing : Active(m)' => ticket.status = "FOR_RESALE" /\ ticket.buyer = listing[m].seller
    BY <2>1, Quiet DEF Active
  <2>3. AtWorkOK(k, ticket', listing')
    BY <2>1 DEF AtWorkOK, Idle
  <2> HIDE DEF k
  <2> QED
    BY <2>1, <2>2, <2>3, SalesKept, WorkStep
<1>2. CASE WithdrawRestore(r)
  <2> DEFINE k == [request[r] EXCEPT !.phase = "withdraw"]
             l == request[r].offer
  <2>1. /\ request[r].phase = "restore" /\ listing[l].status = "LISTED" /\ l \in Listing
        /\ \A s \in Request : s # r => In(s, "idle")
        /\ \A m \in Listing : Active(m) => ticket.status = "FOR_RESALE" /\ m = l
    BY <1>2, Alone, InvParts DEF WithdrawRestore, In, AtWorkOK, Leaves, RequestOK, Tidy, OneOffer, Active
  <2>2. /\ UNCHANGED <<listing, purchase, repaid, entries, refunded>>
        /\ ticket' = [ticket EXCEPT !.status = "SENT"] /\ request' = [request EXCEPT ![r] = k]
    BY <1>2 DEF WithdrawRestore, Goes, sales
  <2>3. /\ ticket'.status = "SENT" /\ ticket'.order = ticket.order
        /\ k.phase = "withdraw" /\ k.offer = l
    BY <2>2 DEF Inv, TypeOK, TicketRow, RequestState
  <2>4. ticket.status = "FOR_RESALE" /\ ticket.status \notin Over /\ entries = 0
    BY <2>1 DEF Active, Over, Tidy, EnteredForGood
  <2>5. AtWorkOK(k, ticket', listing')
    BY <2>1, <2>2, <2>3 DEF AtWorkOK
  <2>6. \A m \in Listing : Active(m)' => Leaves(k, m)
    BY <2>1, <2>2, <2>3 DEF Active, Leaves
  <2> HIDE DEF k, l
  <2> QED
    BY <2>1, <2>2, <2>3, <2>4, <2>5, <2>6, SalesKept, WorkStep
<1>3. CASE WithdrawSave(r)
  <2> DEFINE l == request[r].offer
             row == [NoListing EXCEPT !.status = "WITHDRAWN", !.seller = listing[l].seller]
  <2>1. /\ request[r].phase = "withdraw" /\ listing[l].status = "LISTED" /\ l \in Listing
        /\ \A s \in Request : s # r => In(s, "idle")
        /\ \A m \in Listing : Active(m) => m = l
    BY <1>3, Alone, InvParts DEF WithdrawSave, In, AtWorkOK, RequestOK, Tidy, OneOffer, Active
  <2>2. /\ UNCHANGED <<ticket, purchase, repaid, entries, refunded>>
        /\ request' = [request EXCEPT ![r] = Idle]
        /\ listing' = [listing EXCEPT ![l] = row] /\ row.status = "WITHDRAWN"
    BY <1>3 DEF WithdrawSave, Ends, NoListing
  <2> HIDE DEF l, row
  <2>3. listing'[l] = row /\ \A m \in Listing : m # l => listing'[m] = listing[m]
    BY <2>1, <2>2 DEF Inv, TypeOK
  <2>4. \A m \in Listing : ~Active(m)'
    BY <2>1, <2>2, <2>3 DEF Active
  <2>5. OneOffer' /\ EnteredForGood'
    BY <2>2, <2>4 DEF OneOffer, EnteredForGood, Tidy
  <2>6. RepaidWhenSold'
    BY <2>1, <2>2, <2>3 DEF Tidy, RepaidWhenSold
  <2>7. RefundedIsOut'
    <3>1. ASSUME NEW p \in Purchase, purchase[p].status # "NONE"
          PROVE  purchase[p].offer \in Listing /\ listing'[purchase[p].offer].status # "NONE"
      BY <2>2, <2>3, <3>1 DEF Tidy, RefundedIsOut, Inv, PurchasesOK
    <3> QED
      BY <2>2, <2>4, <3>1 DEF Tidy, RefundedIsOut
  <2>8. AtWorkOK(Idle, ticket', listing')
    BY DEF Idle, AtWorkOK
  <2> QED
    BY <2>1, <2>2, <2>4, <2>5, <2>6, <2>7, <2>8, WorkStep
<1> QED
  BY <1>1, <1>2, <1>3

\* invalidate.
LEMMA TidyInvalidate ==
  ASSUME Orderly, Inv, Tidy, NEW r \in Request, InvalidateRead(r) \/ InvalidateSave(r)
  PROVE  Tidy'
<1>1. UNCHANGED <<listing, purchase, repaid, entries, refunded>>
  BY DEF InvalidateRead, InvalidateSave, sales
<1>2. CASE InvalidateRead(r)
  <2> DEFINE k == [Idle EXCEPT !.phase = "invalidate", !.row = ticket]
  <2>1. /\ UNCHANGED ticket /\ request' = [request EXCEPT ![r] = k] /\ ticket.status # "FOR_RESALE"
        /\ \A s \in Request : In(s, "idle")
    BY <1>2, Undisturbed DEF InvalidateRead
  <2>2. \A l \in Listing : ~Active(l) /\ ~Active(l)'
    BY <1>1, <2>1, Quiet DEF Active
  <2>3. AtWorkOK(k, ticket', listing')
    BY <1>1, <2>1, <2>2 DEF AtWorkOK, Idle, NoOffer, Active
  <2> HIDE DEF k
  <2> QED
    BY <1>1, <2>1, <2>2, <2>3, SalesKept, WorkStep
<1>3. CASE InvalidateSave(r)
  <2>1. /\ request[r].phase = "invalidate" /\ NoOffer(listing)
        /\ \A s \in Request : s # r => In(s, "idle")
    BY <1>3, Alone DEF InvalidateSave, In, AtWorkOK
  <2>2. /\ request' = [request EXCEPT ![r] = Idle] /\ request[r].row \in TicketRow
        /\ ticket' = [request[r].row EXCEPT !.status = "CANCELLED"]
    BY <1>3 DEF InvalidateSave, Ends, Inv, TypeOK, RequestState
  <2>3. ticket'.status \in Over
    BY <2>2 DEF TicketRow, Over
  <2>4. \A l \in Listing : ~Active(l)'
    BY <1>1, <2>1 DEF NoOffer, Active
  <2>5. AtWorkOK(Idle, ticket', listing')
    BY DEF Idle, AtWorkOK
  <2> QED
    BY <1>1, <2>1, <2>2, <2>3, <2>4, <2>5, SalesKept, WorkStep
<1> QED
  BY <1>2, <1>3

\* completeResale, until the ticket has its new holder: the sale takes it from
\* the seller of the listing.
LEMMA TidyComplete ==
  ASSUME Orderly, Inv, Tidy, NEW r \in Request,
         (\E p \in Purchase : CompleteRead(r, p)) \/ CompleteTransferRead(r)
  PROVE  Tidy'
<1>1. UNCHANGED <<ticket, listing, purchase, repaid, entries, refunded>>
  BY DEF CompleteRead, CompleteTransferRead, sales
<1>2. \A l \in Listing : Active(l)' <=> Active(l)
  BY <1>1 DEF Active
<1>3. ASSUME NEW p \in Purchase, CompleteRead(r, p) PROVE Tidy'
  <2> DEFINE k == [Idle EXCEPT !.phase = "complete", !.order = p, !.offer = purchase[p].offer]
  <2>1. /\ request' = [request EXCEPT ![r] = k] /\ listing[purchase[p].offer].status = "RESERVED"
        /\ \A s \in Request : In(s, "idle")
    BY <1>3, Undisturbed DEF CompleteRead, HoldsOffer
  <2>2. AtWorkOK(k, ticket', listing')
    BY <1>1, <2>1 DEF AtWorkOK, Idle
  <2>3. \A l \in Listing : Active(l)' => ticket.status = "FOR_RESALE" /\ ticket.buyer = listing[l].seller
    BY <1>2, <2>1, Quiet
  <2> HIDE DEF k
  <2> QED
    BY <1>1, <2>1, <2>2, <2>3, SalesKept, WorkStep
<1>4. CASE CompleteTransferRead(r)
  <2>1. /\ request[r].phase = "complete" /\ listing[request[r].offer].status = "RESERVED"
        /\ \A s \in Request : s # r => In(s, "idle")
        /\ \A l \in Listing : Active(l) => ticket.status = "FOR_RESALE" /\ ticket.buyer = listing[l].seller
    BY <1>4, Alone DEF CompleteTransferRead, In, AtWorkOK, Leaves
  <2>2. PICK k : /\ request' = [request EXCEPT ![r] = k]
                 /\ \/ k = Idle
                    \/ k.phase = "transfer" /\ k.row = ticket /\ k.offer = request[r].offer
    <3>1. CASE Ends(r)
      BY <3>1 DEF Ends
    <3>2. CASE request' = [request EXCEPT ![r].phase = "transfer", ![r].row = ticket]
      <4> DEFINE n == [request[r] EXCEPT !.phase = "transfer", !.row = ticket]
      <4>1. n.phase = "transfer" /\ n.row = ticket /\ n.offer = request[r].offer
        BY DEF Inv, TypeOK, RequestState
      <4>2. request' = [request EXCEPT ![r] = n]
        BY <3>2
      <4> QED
        BY <4>1, <4>2
    <3> QED
      BY <1>4, <3>1, <3>2 DEF CompleteTransferRead
  <2>3. AtWorkOK(k, ticket', listing')
    BY <1>1, <2>1, <2>2 DEF AtWorkOK, Idle
  <2> QED
    BY <1>1, <1>2, <2>1, <2>2, <2>3, SalesKept, WorkStep
<1> QED
  BY <1>3, <1>4

LEMMA SaleIsBySeller ==
  ASSUME Inv, Tidy, NEW r \in Request, CompleteTransferSave(r)
  PROVE  LET p == request[r].order
             l == request[r].offer IN
         /\ p \in Purchase /\ l \in Listing /\ purchase[p].offer = l
         /\ listing[l].status = "RESERVED" /\ ticket.buyer = listing[l].seller
         /\ ticket.status = "FOR_RESALE" /\ p \notin refunded
         /\ \A m \in Listing : Active(m) => m = l
         /\ \A s \in Request : s # r => In(s, "idle")
         /\ ticket'.order = p /\ ticket'.status = "SENT"
<1> DEFINE p == request[r].order
           l == request[r].offer
<1>1. /\ request[r].phase = "transfer" /\ listing[l].status = "RESERVED"
      /\ \A s \in Request : s # r => In(s, "idle")
      /\ \A m \in Listing : Active(m) => ticket.status = "FOR_RESALE" /\ ticket.buyer = listing[m].seller
  BY Alone DEF CompleteTransferSave, In, AtWorkOK, Leaves
<1>2. p \in Purchase /\ purchase[p].offer = l /\ l \in Listing
  BY <1>1, InvParts DEF RequestOK, PurchasesOK
<1>3. Active(l)
  BY <1>1 DEF Active
<1>4. p \notin refunded
  BY <1>2, <1>3 DEF Tidy, RefundedIsOut
<1>5. \A m \in Listing : Active(m) => m = l
  BY <1>2, <1>3 DEF Tidy, OneOffer
<1>6. ticket'.order = p /\ ticket'.status = "SENT"
  <2>1. request[r].row \in TicketRow
    BY DEF Inv, TypeOK, RequestState
  <2>2. ticket' = [[request[r].row EXCEPT !.buyer = purchase[p].buyer, !.token = Len(history) + 1]
                     EXCEPT !.order = p, !.status = "SENT"]
    BY DEF CompleteTransferSave, Reassign
  <2> HIDE DEF p
  <2> QED
    BY <2>1, <2>2 DEF TicketRow
<1> QED
  BY <1>1, <1>2, <1>3, <1>4, <1>5, <1>6

LEMMA TidySale ==
  ASSUME Inv, Tidy, NEW r \in Request, CompleteTransferSave(r)
  PROVE  Tidy'
<1> DEFINE p == request[r].order
           l == request[r].offer
           k == [request[r] EXCEPT !.phase = "sold"]
<1>1. /\ listing[l].status = "RESERVED" /\ ticket.status = "FOR_RESALE" /\ p \notin refunded
      /\ \A m \in Listing : Active(m) => m = l
      /\ \A s \in Request : s # r => In(s, "idle")
      /\ ticket'.order = p /\ ticket'.status = "SENT"
  BY SaleIsBySeller
<1>2. /\ UNCHANGED <<listing, purchase, repaid, entries, refunded>>
      /\ request' = [request EXCEPT ![r] = k] /\ k.phase = "sold" /\ k.offer = l
  BY DEF CompleteTransferSave, Goes, sales, Inv, TypeOK, RequestState
<1> HIDE DEF p, l, k
<1>3. EnteredForGood'
  BY <1>1, <1>2 DEF Tidy, EnteredForGood, Over
<1>4. \A m \in Listing : Active(m)' <=> Active(m)
  BY <1>2 DEF Active
<1>5. RefundedIsOut'
  BY <1>1, <1>2 DEF Tidy, RefundedIsOut, Active
<1>6. AtWorkOK(k, ticket', listing')
  BY <1>1, <1>2 DEF AtWorkOK
<1>7. \A m \in Listing : Active(m)' => Leaves(k, m)
  BY <1>1, <1>2, <1>4 DEF Leaves
<1> QED
  BY <1>1, <1>2, <1>3, <1>5, <1>6, <1>7, SalesKept, WorkStep

\* The listing is sold and its seller repaid, once.
LEMMA TidySold ==
  ASSUME Inv, Tidy, NEW r \in Request, CompleteSold(r)
  PROVE  Tidy'
<1> DEFINE l == request[r].offer
           row == [NoListing EXCEPT !.status = "SOLD", !.seller = listing[l].seller]
<1>1. /\ request[r].phase = "sold" /\ listing[l].status = "RESERVED" /\ l \in Listing
      /\ \A s \in Request : s # r => In(s, "idle")
      /\ \A m \in Listing : Active(m) => m = l
  BY Alone, InvParts DEF CompleteSold, In, AtWorkOK, RequestOK, PurchasesOK, Tidy, OneOffer, Active
<1>2. /\ UNCHANGED <<ticket, purchase, entries, refunded>>
      /\ request' = [request EXCEPT ![r] = Idle]
      /\ listing' = [listing EXCEPT ![l] = row] /\ row.status = "SOLD"
      /\ repaid' = [repaid EXCEPT ![l] = @ + 1]
  BY DEF CompleteSold, Ends, NoListing
<1> HIDE DEF l, row
<1>3. listing'[l] = row /\ \A m \in Listing : m # l => listing'[m] = listing[m]
  BY <1>1, <1>2 DEF Inv, TypeOK
<1>4. \A m \in Listing : ~Active(m)'
  BY <1>1, <1>2, <1>3 DEF Active
<1>5. OneOffer' /\ EnteredForGood'
  BY <1>2, <1>4 DEF OneOffer, EnteredForGood, Tidy
<1>6. RepaidWhenSold'
  <2>1. repaid[l] = 0 /\ repaid'[l] = 1 /\ \A m \in Listing : m # l => repaid'[m] = repaid[m]
    BY <1>1, <1>2 DEF Tidy, RepaidWhenSold, Inv, TypeOK
  <2> QED
    BY <1>2, <1>3, <2>1 DEF Tidy, RepaidWhenSold
<1>7. RefundedIsOut'
  <2>1. ASSUME NEW p \in Purchase, purchase[p].status # "NONE"
        PROVE  purchase[p].offer \in Listing /\ listing'[purchase[p].offer].status # "NONE"
    BY <1>2, <1>3, <2>1 DEF Tidy, RefundedIsOut, Inv, PurchasesOK
  <2> QED
    BY <1>2, <1>4, <2>1 DEF Tidy, RefundedIsOut
<1>8. AtWorkOK(Idle, ticket', listing')
  BY DEF Idle, AtWorkOK
<1> QED
  BY <1>1, <1>2, <1>4, <1>5, <1>6, <1>7, <1>8, WorkStep

\* With nobody at work and nothing on offer, the ticket can be given, used,
\* refunded or cancelled.
LEMMA TidyQuiet ==
  ASSUME Inv, Tidy, \A r \in Request : In(r, "idle"), ticket.status # "FOR_RESALE",
         UNCHANGED <<listing, purchase, repaid, request>>,
         EnteredForGood', RefundedIsOut'
  PROVE  Tidy'
<1>1. \A l \in Listing : ~Active(l) /\ ~Active(l)'
  BY Quiet DEF Active
<1>2. \A r \in Request : AtWorkOK(request'[r], ticket', listing')
  BY DEF In, AtWorkOK
<1>3. OneAtWork' /\ OneOffer' /\ OffersHeld'
  BY <1>1 DEF OneAtWork, OneOffer, OffersHeld, In
<1>4. RepaidWhenSold'
  BY DEF Tidy, RepaidWhenSold
<1> QED
  BY <1>2, <1>3, <1>4 DEF Tidy

LEMMA TidyDoor ==
  ASSUME Orderly, Inv, Tidy,
         \/ \E o \in Purchase \cup {FirstOrder} : RefundOrder(o)
         \/ CancelByEvent \/ \E k \in 1..MaxToken : Consume(k)
         \/ Give
  PROVE  Tidy'
<1>1. /\ UNCHANGED <<listing, purchase, repaid, request>>
      /\ \A r \in Request : In(r, "idle")
      /\ ticket.status # "FOR_RESALE"
  BY Undisturbed DEF RefundOrder, CancelByEvent, Consume, Consumable, Valid, Give, Gift, Revert, sales
<1>2. \A l \in Listing : ~Active(l) /\ ~Active(l)'
  BY <1>1, Quiet DEF Active
<1>3. ticket \in TicketRow
  BY InvParts
<1>4. ASSUME NEW o \in Purchase \cup {FirstOrder}, RefundOrder(o)
      PROVE  EnteredForGood' /\ RefundedIsOut'
  <2>1. /\ refunded' = refunded \cup {o} /\ UNCHANGED entries
        /\ o \in Purchase => purchase[o].status = "PAID"
        /\ \/ ticket' = ticket /\ (ticket.order # o \/ ticket.status \in Over)
           \/ ticket'.status \in Over
    BY <1>3, <1>4, Constants DEF RefundOrder, TicketRow, Over
  <2>2. EnteredForGood'
    BY <2>1 DEF Tidy, EnteredForGood
  <2>3. \A p \in Purchase : purchase[p].status = "PAID" => purchase[p].offer \in Listing
    BY DEF Inv, PurchasesOK
  <2>4. RefundedIsOut'
    BY <1>1, <1>2, <2>1, <2>3 DEF Tidy, RefundedIsOut
  <2> QED
    BY <2>2, <2>4
<1>5. \A p \in Purchase : Active(purchase[p].offer)' <=> Active(purchase[p].offer)
  BY <1>1 DEF Active
<1>6. CASE CancelByEvent
  <2>1. ticket'.status \in Over /\ UNCHANGED <<entries, refunded>>
    BY <1>3, <1>6 DEF CancelByEvent, TicketRow, Over
  <2> QED
    BY <1>1, <2>1, SalesKept, TidyQuiet
<1>7. ASSUME NEW k \in 1..MaxToken, Consume(k) PROVE EnteredForGood' /\ RefundedIsOut'
  <2>1. /\ ticket'.status = "USED" /\ UNCHANGED refunded
        /\ ticket.status = "SENT" /\ entries' = entries + 1
    BY <1>3, <1>7 DEF Consume, Consumable, Valid, TicketRow
  <2>2. entries = 0
    BY <2>1 DEF Tidy, EnteredForGood, Over
  <2> QED
    BY <1>1, <1>5, <2>1, <2>2 DEF Tidy, EnteredForGood, RefundedIsOut, Over
<1>8. CASE Give
  <2>1. /\ UNCHANGED <<entries, refunded>> /\ ticket.status = "SENT"
        /\ ticket'.order = ticket.order
    BY <1>3, <1>8 DEF Give, Gift, Revert, Valid, Reassign, TicketRow
  <2>2. ticket.status \notin Over /\ entries = 0
    BY <2>1 DEF Tidy, EnteredForGood, Over
  <2> QED
    BY <1>1, <2>1, <2>2, SalesKept, TidyQuiet
<1> QED
  BY <1>1, <1>4, <1>6, <1>7, <1>8, TidyQuiet

\* Listings nobody is at work on are reserved, freed or closed, and purchases
\* are made, paid or abandoned.
LEMMA ListingsMove ==
  ASSUME Inv, Tidy, UNCHANGED <<ticket, request, entries, repaid, refunded>>,
         \A l \in Listing :
           /\ Active(l)' => Active(l) /\ listing'[l].seller = listing[l].seller
           /\ listing[l].status \in {"NONE", "SOLD"} => listing'[l].status = listing[l].status
           /\ listing'[l].status = "NONE" => listing[l].status = "NONE"
           /\ \/ listing'[l].status = listing[l].status
              \/ \A r \in Request : request[r].offer # l,
         \A p \in Purchase :
           /\ purchase[p].status = "PAID" => purchase'[p] = purchase[p]
           /\ purchase'[p].status # "NONE" =>
                \/ purchase[p].status # "NONE" /\ purchase'[p].offer = purchase[p].offer
                \/ purchase'[p].offer \in Listing /\ listing[purchase'[p].offer].status # "NONE"
  PROVE  Tidy'
<1>1. OneAtWork'
  BY DEF Tidy, OneAtWork, In
<1>2. OneOffer' /\ EnteredForGood' /\ RepaidWhenSold'
  BY DEF Tidy, OneOffer, EnteredForGood, RepaidWhenSold
<1>3. OffersHeld'
  BY DEF Tidy, OffersHeld
<1>4. RefundedIsOut'
  <2>1. \A p \in Purchase : purchase[p].status # "NONE" => purchase[p].offer \in Listing
    BY DEF Inv, PurchasesOK
  <2>2. \A p \in Purchase : p \in refunded => purchase'[p].status = "PAID" /\ ~Active(purchase[p].offer)'
    BY <2>1 DEF Tidy, RefundedIsOut
  <2>3. \A p \in Purchase : purchase'[p].status # "NONE" => listing'[purchase'[p].offer].status # "NONE"
    BY <2>1 DEF Tidy, RefundedIsOut
  <2> QED
    BY <2>2, <2>3 DEF Tidy, RefundedIsOut
<1>5. ASSUME NEW r \in Request PROVE AtWorkOK(request[r], ticket, listing')
  <2>1. AtWorkOK(request[r], ticket, listing) /\ RequestOK(request[r], history, purchase)
    BY InvParts DEF Tidy
  <2>2. NoOffer(listing) => NoOffer(listing')
    BY DEF NoOffer, Active
  <2>3. request[r].phase \in {"restore", "withdraw", "complete", "transfer", "sold"}
          => request[r].offer \in Listing
    BY <2>1, InvParts DEF RequestOK, PurchasesOK
  <2> QED
    BY <2>1, <2>2, <2>3 DEF AtWorkOK
<1> QED
  BY <1>1, <1>2, <1>3, <1>4, <1>5 DEF Tidy

LEMMA TidyOffer ==
  ASSUME Orderly, Inv, Tidy, Offer
  PROVE  Tidy'
<1>0. \A l \in Listing : MayWriteListing(l) => \A r \in Request : request[r].offer # l
  BY Undisturbed
<1>1. listing \in [Listing -> ListingRow] /\ purchase \in [Purchase -> PurchaseRow]
  BY DEF Inv, TypeOK
<1>2. \A l \in Listing :
        /\ Available(listing[l]).status = "LISTED"
        /\ Available(listing[l]).seller = listing[l].seller
  BY <1>1 DEF Available, ListingRow
<1>3. ASSUME NEW p \in Purchase, Pay(p) \/ Abandon(p) PROVE Tidy'
  <2>1. /\ UNCHANGED <<ticket, request, entries, repaid, refunded, listing>>
        /\ purchase[p].status = "PENDING"
        /\ \E s \in {"PAID", "CANCELLED"} : purchase' = [purchase EXCEPT ![p].status = s]
    BY <1>3 DEF Pay, Abandon
  <2>2. \A q \in Purchase : /\ q # p => purchase'[q] = purchase[q]
                            /\ purchase'[q].offer = purchase[q].offer
    BY <1>1, <2>1 DEF PurchaseRow
  <2>3. \A q \in Purchase :
          /\ purchase[q].status = "PAID" => purchase'[q] = purchase[q]
          /\ purchase'[q].status # "NONE" =>
               purchase[q].status # "NONE" /\ purchase'[q].offer = purchase[q].offer
    BY <2>1, <2>2
  <2> QED
    BY <2>1, <2>3, ListingsMove DEF Active
<1>4. ASSUME NEW p \in Purchase, NEW l \in Listing, NEW u \in User, Reserve(p, l, u) PROVE Tidy'
  <2>1. /\ UNCHANGED <<ticket, request, entries, repaid, refunded>>
        /\ purchase[p].status = "NONE" /\ listing[l].status \in {"LISTED", "RESERVED"}
        /\ \A r \in Request : request[r].offer # l
        /\ listing' = [listing EXCEPT ![l].status = "RESERVED", ![l].reserver = u, ![l].late = FALSE]
        /\ \/ purchase' = purchase
           \/ purchase' = [purchase EXCEPT ![p] = [status |-> "PENDING", buyer |-> u, offer |-> l]]
    BY <1>0, <1>4 DEF Reserve
  <2>2. /\ listing'[l].status = "RESERVED" /\ listing'[l].seller = listing[l].seller
        /\ \A m \in Listing : m # l => listing'[m] = listing[m]
    BY <1>1, <2>1 DEF ListingRow
  <2>3. /\ \A q \in Purchase : q # p => purchase'[q] = purchase[q]
        /\ purchase'[p] = purchase[p] \/ purchase'[p].offer = l
    BY <1>1, <2>1
  <2> QED
    BY <2>1, <2>2, <2>3, ListingsMove DEF Active
<1>5. ASSUME NEW l \in Listing, ReservationTimesOut(l) PROVE Tidy'
  <2>1. /\ UNCHANGED <<ticket, request, entries, repaid, refunded, purchase>>
        /\ listing' = [listing EXCEPT ![l].late = TRUE]
    BY <1>5 DEF ReservationTimesOut
  <2>2. \A m \in Listing : listing'[m].status = listing[m].status /\ listing'[m].seller = listing[m].seller
    BY <1>1, <2>1 DEF ListingRow
  <2> QED
    BY <2>1, <2>2, ListingsMove DEF Active
<1>6. ASSUME NEW l \in Listing, ReleaseArrives(l) \/ ReleaseLost(l) PROVE Tidy'
  <2>1. /\ UNCHANGED <<ticket, request, entries, repaid, refunded, purchase>>
        /\ \/ listing' = listing
           \/ /\ listing[l].status = "RESERVED" /\ \A r \in Request : request[r].offer # l
              /\ listing' = [listing EXCEPT ![l] = Available(listing[l])]
    BY <1>0, <1>6 DEF ReleaseArrives, ReleaseLost
  <2> QED
    BY <1>1, <1>2, <2>1, ListingsMove DEF Active
<1>7. CASE ReleaseStale
  <2> DEFINE stale == {l \in Listing : listing[l].status = "RESERVED" /\ listing[l].late}
  <2>1. /\ UNCHANGED <<ticket, request, entries, repaid, refunded, purchase>>
        /\ \A l \in stale : \A r \in Request : request[r].offer # l
        /\ listing' = [l \in Listing |-> IF l \in stale THEN Available(listing[l]) ELSE listing[l]]
    BY <1>0, <1>7 DEF ReleaseStale
  <2> QED
    BY <1>2, <2>1, ListingsMove DEF Active
<1>8. CASE ExpireOldListings
  <2> DEFINE old == {l \in Listing : listing[l].status = "LISTED"}
  <2>1. /\ UNCHANGED <<ticket, request, entries, repaid, refunded, purchase>>
        /\ \A l \in old : \A r \in Request : request[r].offer # l
        /\ listing' = [l \in Listing |-> IF l \in old THEN [listing[l] EXCEPT !.status = "EXPIRED"] ELSE listing[l]]
    BY <1>0, <1>8 DEF ExpireOldListings
  <2>2. \A l \in old : [listing[l] EXCEPT !.status = "EXPIRED"].status = "EXPIRED"
    BY <1>1 DEF ListingRow
  <2> QED
    BY <2>1, <2>2, ListingsMove DEF Active
<1> QED
  BY <1>3, <1>4, <1>5, <1>6, <1>7, <1>8 DEF Offer

LEMMA TidyStep == Orderly /\ Inv /\ Tidy /\ [Next]_vars => Tidy'
<1> SUFFICES ASSUME Orderly, Inv, Tidy, [Next]_vars PROVE Tidy'
  OBVIOUS
<1>1. CASE UNCHANGED vars \/ Tick
  <2>1. UNCHANGED <<ticket, request, entries, repaid, refunded, listing, purchase>>
    BY <1>1 DEF vars, sales, Tick
  <2> QED
    BY <2>1, ListingsMove DEF Active
<1>2. ASSUME NEW r \in Request, Sell(r) PROVE Tidy'
  BY <1>2, TidyList, TidyInsert, TidyWithdraw DEF Sell
<1>3. ASSUME NEW r \in Request, Buy(r) PROVE Tidy'
  BY <1>3, TidyComplete, TidySale, TidySold DEF Buy
<1>4. CASE Give \/ Void \/ \E k \in 1..MaxToken : Scan(k)
  BY <1>4, TidyDoor, TidyInvalidate DEF Void, Scan
<1> QED
  BY <1>1, <1>2, <1>3, <1>4, TidyOffer DEF Next, Desk

LEMMA TidyAlways == Orderly => (Spec => [](Inv /\ Tidy))
<1> SUFFICES ASSUME Orderly PROVE Spec => [](Inv /\ Tidy)
  OBVIOUS
<1>1. Init => Inv /\ Tidy
  BY InvInit, TidyInit
<1>2. Inv /\ Tidy /\ [Next]_vars => Inv' /\ Tidy'
  BY InvStep, TidyStep
<1> QED
  BY <1>1, <1>2, PTL DEF Spec

\* A ticket on offer is held by its seller and is on offer once, while no request
\* is between its two writes.
THEOREM OffersAlwaysHeld == Orderly => (Spec => []ListingHeld)
<1> SUFFICES ASSUME Orderly PROVE Spec => []ListingHeld
  OBVIOUS
<1>1. Inv /\ Tidy => ListingHeld
  BY Quiet DEF ListingHeld, TicketReaders, Tidy, OneOffer
<1> QED
  BY <1>1, TidyAlways, PTL

\* The door lets a ticket in once, whoever held it.
THEOREM EntersOnceAlways == Orderly => (Spec => []EntersOnce)
<1> SUFFICES ASSUME Orderly PROVE Spec => []EntersOnce
  OBVIOUS
<1>1. Tidy => EntersOnce
  BY DEF Tidy, EnteredForGood, EntersOnce
<1> QED
  BY <1>1, TidyAlways, PTL

\* The seller is repaid once for a listing.
THEOREM SellersRepaidOnce == Orderly => (Spec => []SellerRepaidOnce)
<1> SUFFICES ASSUME Orderly PROVE Spec => []SellerRepaidOnce
  OBVIOUS
<1>1. Tidy => SellerRepaidOnce
  BY DEF Tidy, RepaidWhenSold, SellerRepaidOnce
<1> QED
  BY <1>1, TidyAlways, PTL

\* The step that gives the ticket to the buyer of a resale order takes it from
\* the seller of the listing.
LEMMA SaleStepBySeller ==
  ASSUME Inv, Tidy, Next, ticket'.order \in Purchase \ {ticket.order}
  PROVE  listing[purchase[ticket'.order].offer].seller = ticket.buyer
<1>1. ticket \in TicketRow
  BY DEF Inv, TypeOK
<1>2. ASSUME NEW r \in Request, CompleteTransferSave(r)
      PROVE  listing[purchase[ticket'.order].offer].seller = ticket.buyer
  BY <1>2, SaleIsBySeller
<1>3. ASSUME NEW r \in Request, ListMark(r) \/ InvalidateSave(r) PROVE ticket'.order = ticket.order
  <2>1. request[r].row = ticket
    BY <1>3 DEF Tidy, AtWorkOK, ListMark, InvalidateSave, In
  <2> QED
    BY <1>1, <1>3, <2>1 DEF ListMark, InvalidateSave, TicketRow
<1>4. ASSUME NEW r \in Request, Sell(r), ~ListMark(r) PROVE ticket'.order = ticket.order
  BY <1>1, <1>4 DEF Sell, ListCheck, ListRead, ListInsert, WithdrawRead, WithdrawRestore,
                    WithdrawSave, TicketRow
<1>5. ASSUME NEW r \in Request, Buy(r), ~CompleteTransferSave(r) PROVE ticket'.order = ticket.order
  BY <1>5 DEF Buy, CompleteRead, CompleteTransferRead, CompleteSold
<1>6. ASSUME Offer PROVE ticket'.order = ticket.order
  BY <1>6 DEF Offer, Pay, Abandon, Reserve, ReservationTimesOut, ReleaseArrives, ReleaseLost,
              ReleaseStale, ExpireOldListings
<1>7. ASSUME Give PROVE ticket'.order = ticket.order
  BY <1>1, <1>7 DEF Give, Gift, Revert, Reassign, TicketRow
<1>8. ASSUME NEW o \in Purchase \cup {FirstOrder}, RefundOrder(o) PROVE ticket'.order = ticket.order
  BY <1>1, <1>8 DEF RefundOrder, TicketRow
<1>9. ASSUME CancelByEvent \/ Tick PROVE ticket'.order = ticket.order
  BY <1>1, <1>9 DEF CancelByEvent, Tick, TicketRow
<1>10. ASSUME NEW r \in Request, InvalidateRead(r) PROVE ticket'.order = ticket.order
  BY <1>10 DEF InvalidateRead
<1>11. ASSUME NEW k \in 1..MaxToken, Scan(k) PROVE ticket'.order = ticket.order
  BY <1>1, <1>11 DEF Scan, Consume, TicketRow
<1> QED
  BY <1>2, <1>3, <1>4, <1>5, <1>6, <1>7, <1>8, <1>9, <1>10, <1>11 DEF Next, Desk, Void

\* A sale takes the ticket from the seller of its listing, and from nobody else.
THEOREM SalesAreBySellers == Orderly => (Spec => SoldByHolder)
<1> SUFFICES ASSUME Orderly PROVE Spec => SoldByHolder
  OBVIOUS
<1> DEFINE Sold == ticket'.order \in Purchase \ {ticket.order}
                     => listing[purchase[ticket'.order].offer].seller = ticket.buyer
<1>1. Inv /\ Tidy /\ [Next]_vars => [Sold]_vars
  BY SaleStepBySeller
<1>2. SoldByHolder <=> [][Sold]_vars
  BY DEF SoldByHolder
<1> HIDE DEF Sold
<1> QED
  BY <1>1, <1>2, TidyAlways, PTL DEF Spec

\* Only the door counts entries.
LEMMA DeskLetsNobodyIn == ASSUME Desk PROVE entries' = entries
<1>1. ASSUME NEW r \in Request, Sell(r) PROVE entries' = entries
  BY <1>1 DEF Sell, ListCheck, ListRead, ListMark, ListInsert, WithdrawRead, WithdrawRestore, WithdrawSave
<1>2. ASSUME NEW r \in Request, Buy(r) PROVE entries' = entries
  BY <1>2 DEF Buy, CompleteRead, CompleteTransferRead, CompleteTransferSave, CompleteSold
<1>3. ASSUME Offer PROVE entries' = entries
  BY <1>3 DEF Offer, Pay, Abandon, Reserve, ReservationTimesOut, ReleaseArrives, ReleaseLost,
              ReleaseStale, ExpireOldListings
<1>4. ASSUME Give PROVE entries' = entries
  BY <1>4 DEF Give, Gift, Revert
<1>5. ASSUME Void PROVE entries' = entries
  BY <1>5 DEF Void, RefundOrder, CancelByEvent, InvalidateRead, InvalidateSave
<1> QED
  BY <1>1, <1>2, <1>3, <1>4, <1>5 DEF Desk, Tick

\* No ticket of a refunded order enters.
THEOREM RefundedNeverEnter == Orderly => (Spec => RefundedStaysOut)
<1> SUFFICES ASSUME Orderly PROVE Spec => RefundedStaysOut
  OBVIOUS
<1> DEFINE Out == entries' > entries => ticket.order \notin refunded
<1>1. ASSUME Inv, Tidy, [Next]_vars PROVE [Out]_vars
  <2>1. entries \in 0..2
    BY <1>1 DEF Inv, TypeOK
  <2>2. ASSUME NEW k \in 1..MaxToken, Scan(k) PROVE Out
    BY <1>1, <2>2 DEF Tidy, RefundedIsOut, Scan, Consume, Consumable, Valid, Over
  <2>3. CASE Desk
    BY <2>1, <2>3, DeskLetsNobodyIn
  <2> QED
    BY <1>1, <2>2, <2>3 DEF Next
<1>2. RefundedStaysOut <=> [][Out]_vars
  BY DEF RefundedStaysOut
<1> HIDE DEF Out
<1> QED
  BY <1>1, <1>2, TidyAlways, PTL DEF Spec
=============================================================================
