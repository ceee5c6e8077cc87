---------------------------- MODULE TicketHolder ----------------------------
(***************************************************************************)
(* The life of one ticket in ticket-service: who holds it, through gifts   *)
(* and their reversal (TicketTransferService), listings for resale and     *)
(* their sale (TicketResaleService, the gateway's purchase and completion),*)
(* refunds, invalidation, and the door (ScanService).                      *)
(*                                                                         *)
(* A ticket row is saved whole: a request that read it before another one  *)
(* changed it writes the old columns back.  Gifts and reversals lock the   *)
(* row, scans and refunds are single UPDATEs; listing, completing,         *)
(* withdrawing and invalidating read first and save later, without a lock. *)
(***************************************************************************)
EXTENDS Integers, Sequences, FiniteSets

CONSTANTS
  User,       \* accounts that may hold the ticket
  Buyer,      \* the account the ticket was generated for
  Listing,    \* listings that may be created
  Purchase,   \* resale orders that may be created
  FirstOrder, \* the order the ticket was generated for
  Transfer,   \* gifts that may be made (bounds the model)
  Request,    \* concurrent multi-step requests (bounds the model)
  Nobody,     \* sentinel
  MaxTransfers,  \* ticket_transfer_max_per_ticket
  GiftsClose, DoorsOpen, EventStarts, DoorsClose,   \* instants
  MaxToken,   \* bound: tokens ever generated
  Overlaps    \* which rare overlaps happen, see below

\* "stale"    a row is saved though another request wrote it since it was read
\* "relist"   the holder lists a ticket that is already in resale
\* "refund"   the order of a ticket in resale is refunded, or the ticket invalidated
\* "expiry"   the buyer pays, or completes, after the reservation timed out
\* "release"  an abandoned order frees its offer after another buyer reserved it
OverlapKinds == {"stale", "relist", "refund", "expiry", "release"}

ASSUME TicketAssumption ==
  /\ Buyer \in User /\ Nobody \notin User \cup Listing \cup Purchase
  /\ FirstOrder \notin Purchase \cup {Nobody}
  /\ MaxTransfers \in Nat /\ MaxToken \in Nat \ {0}
  /\ {GiftsClose, DoorsOpen, EventStarts, DoorsClose} \subseteq Nat
  /\ GiftsClose <= EventStarts /\ DoorsOpen <= EventStarts /\ EventStarts <= DoorsClose
  /\ Overlaps \subseteq OverlapKinds

VARIABLES
  ticket,    \* the row: status, buyer_id, order_id, qr_code_token
  history,   \* qr_token_history: history[k] is the account token k was made for
  listing,   \* rows of ticket_resales
  purchase,  \* resale orders: buyer, listing, status
  refunded,  \* orders refunded as a whole
  transfer,  \* rows of ticket_transfers
  releases,  \* offers whose release an abandoned order has called for
  entries,   \* how often the server let the ticket in
  repaid,    \* repaid[l]: how often the seller of l was repaid
  clock,
  request    \* local state of each request

sales == <<listing, purchase, releases, repaid>>
vars == <<ticket, history, sales, refunded, transfer, entries, clock, request>>

-----------------------------------------------------------------------------
TicketStatus == {"SENT", "USED", "CANCELLED", "REFUNDED", "FOR_RESALE"}
TicketRow == [status: TicketStatus, buyer: User, order: Purchase \cup {FirstOrder}, token: 1..MaxToken]
FirstTicket == [status |-> "SENT", buyer |-> Buyer, order |-> FirstOrder, token |-> 1]

Maybe(S) == S \cup {Nobody}
ListingRow == [status: {"NONE", "LISTED", "RESERVED", "SOLD", "EXPIRED", "WITHDRAWN"},
               seller: Maybe(User), reserver: Maybe(User), late: BOOLEAN]
NoListing == [status |-> "NONE", seller |-> Nobody, reserver |-> Nobody, late |-> FALSE]

PurchaseRow == [status: {"NONE", "PENDING", "PAID", "CANCELLED"}, buyer: Maybe(User), offer: Maybe(Listing)]
NoPurchase == [status |-> "NONE", buyer |-> Nobody, offer |-> Nobody]

TransferRow == [status: {"NONE", "ACTIVE", "REVERTED"}, from: Maybe(User), to: Maybe(User)]
NoTransfer == [status |-> "NONE", from |-> Nobody, to |-> Nobody]

\* requestResale: list -> mark -> insert.  completeResale: complete -> transfer
\* -> sold.  withdraw: restore -> withdraw.  invalidate: invalidate.
Phase == {"idle", "list", "mark", "insert", "complete", "transfer", "sold",
          "restore", "withdraw", "invalidate"}
Idle == [phase |-> "idle", user |-> Nobody, order |-> Nobody, offer |-> Nobody, row |-> FirstTicket]
RequestState == [phase: Phase, user: Maybe(User), order: Maybe(Purchase),
                 offer: Maybe(Listing), row: TicketRow]

\* Every row and every request is well formed.
TypeOK ==
  /\ ticket \in TicketRow
  /\ history \in Seq(User) /\ Len(history) <= MaxToken
  /\ listing \in [Listing -> ListingRow]
  /\ \A l \in Listing :
       /\ listing[l].reserver # Nobody <=> listing[l].status = "RESERVED"
       /\ listing[l].late => listing[l].status = "RESERVED"
  /\ purchase \in [Purchase -> PurchaseRow]
  /\ refunded \subseteq Purchase \cup {FirstOrder}
  /\ transfer \in [Transfer -> TransferRow]
  /\ releases \subseteq Listing
  /\ entries \in 0..2 /\ repaid \in [Listing -> 0..2]
  /\ clock \in 0..DoorsClose
  /\ request \in [Request -> RequestState]

Init ==
  /\ ticket = FirstTicket /\ history = <<Buyer>>
  /\ listing = [l \in Listing |-> NoListing]
  /\ purchase = [p \in Purchase |-> NoPurchase]
  /\ refunded = {} /\ transfer = [t \in Transfer |-> NoTransfer]
  /\ releases = {} /\ entries = 0 /\ repaid = [l \in Listing |-> 0]
  /\ clock = 0 /\ request = [r \in Request |-> Idle]

-----------------------------------------------------------------------------
Valid == ticket.status = "SENT"    \* GENERATED or SENT: nothing distinguishes them
Over == {"USED", "CANCELLED", "REFUNDED"}
Active(l) == listing[l].status \in {"LISTED", "RESERVED"}

In(r, p) == request[r].phase = p
Goes(r, p) == request' = [request EXCEPT ![r].phase = p]
Ends(r) == request' = [request EXCEPT ![r] = Idle]

\* Requests that have read a row they have not saved yet: without "stale",
\* nobody else writes that row until they end.
TicketReaders == {r \in Request : ~In(r, "idle")}
ListingReaders(l) == {r \in Request : request[r].offer = l}
MayWriteTicket == "stale" \in Overlaps \/ TicketReaders = {}
MayWriteListing(l) == "stale" \in Overlaps \/ ListingReaders(l) = {}

\* The row gets a new holder and a new token; the old token stays in history.
Reassign(row, u) == [row EXCEPT !.buyer = u, !.token = Len(history) + 1]
NewToken(u) == Len(history) < MaxToken /\ history' = Append(history, u)

-----------------------------------------------------------------------------
(* Resale: the seller *)

\* Mutant: anybody may list the ticket.
ListCheckAnyone(r, u) ==
  /\ In(r, "idle") /\ MayWriteTicket /\ clock < EventStarts /\ Valid
  /\ \A l \in Listing : listing[l].status # "LISTED"
  /\ \E l \in Listing : listing[l].status = "NONE"
  /\ request' = [request EXCEPT ![r] = [Idle EXCEPT !.phase = "list", !.user = u]]
  /\ UNCHANGED <<ticket, history, sales, refunded, transfer, entries, clock>>

\* requestResale: the caller holds the ticket, no listing of it is LISTED (a
\* RESERVED one is not looked for) ...
ListCheck(r, u) ==
  /\ In(r, "idle") /\ MayWriteTicket
  /\ ticket.buyer = u /\ clock < EventStarts
  /\ \A l \in Listing : listing[l].status # "LISTED"
  /\ Valid \/ "relist" \in Overlaps
  /\ \E l \in Listing : listing[l].status = "NONE"  \* bound
  /\ request' = [request EXCEPT ![r] = [Idle EXCEPT !.phase = "list", !.user = u]]
  /\ UNCHANGED <<ticket, history, sales, refunded, transfer, entries, clock>>

\* ... markForResale reads the row: a ticket already FOR_RESALE may be marked ...
ListRead(r) ==
  /\ In(r, "list")
  /\ IF ticket.status \in Over \/ clock >= EventStarts
     THEN Ends(r)
     ELSE request' = [request EXCEPT ![r].phase = "mark", ![r].row = ticket]
  /\ UNCHANGED <<ticket, history, sales, refunded, transfer, entries, clock>>

\* ... and saves it ...
ListMark(r) ==
  /\ In(r, "mark")
  /\ ticket' = [request[r].row EXCEPT !.status = "FOR_RESALE"]
  /\ Goes(r, "insert")
  /\ UNCHANGED <<history, sales, refunded, transfer, entries, clock>>

\* ... then the listing is created, for the caller of the first step.
ListInsert(r, l) ==
  /\ In(r, "insert") /\ listing[l].status = "NONE"
  /\ listing' = [listing EXCEPT ![l].status = "LISTED", ![l].seller = request[r].user]
  /\ Ends(r)
  /\ UNCHANGED <<ticket, history, purchase, releases, repaid, refunded, transfer, entries, clock>>

\* Mutant: a listing already withdrawn can be withdrawn again.
WithdrawAgain(r, l) ==
  /\ In(r, "idle") /\ MayWriteTicket /\ MayWriteListing(l)
  /\ listing[l].status \in {"LISTED", "WITHDRAWN"}
  /\ request' = [request EXCEPT ![r] = [Idle EXCEPT !.phase = "restore", !.offer = l]]
  /\ UNCHANGED <<ticket, history, sales, refunded, transfer, entries, clock>>

\* withdraw reads the listing ...
WithdrawRead(r, l) ==
  /\ In(r, "idle") /\ MayWriteTicket /\ MayWriteListing(l)
  /\ listing[l].status = "LISTED"
  /\ request' = [request EXCEPT ![r] = [Idle EXCEPT !.phase = "restore", !.offer = l]]
  /\ UNCHANGED <<ticket, history, sales, refunded, transfer, entries, clock>>

\* ... makes the ticket SENT, whatever it was ...
WithdrawRestore(r) ==
  /\ In(r, "restore")
  /\ ticket' = [ticket EXCEPT !.status = "SENT"]
  /\ Goes(r, "withdraw")
  /\ UNCHANGED <<history, sales, refunded, transfer, entries, clock>>

\* ... and saves the listing as it read it.
WithdrawSave(r) ==
  LET l == request[r].offer IN
  /\ In(r, "withdraw")
  /\ listing' = [listing EXCEPT ![l] = [NoListing EXCEPT !.status = "WITHDRAWN", !.seller = listing[l].seller]]
  /\ Ends(r)
  /\ UNCHANGED <<ticket, history, purchase, releases, repaid, refunded, transfer, entries, clock>>

-----------------------------------------------------------------------------
(* Resale: the buyer *)

\* order.createFromResale: reserve is one conditional UPDATE.  A seller who
\* reserves the own offer is refused, and the release is sent and not awaited.
Reserve(p, l, u) ==
  /\ purchase[p].status = "NONE" /\ MayWriteListing(l)
  /\ listing[l].status = "LISTED" \/ (listing[l].status = "RESERVED" /\ listing[l].late)
  /\ "release" \in Overlaps \/ l \notin releases
  /\ listing' = [listing EXCEPT ![l].status = "RESERVED", ![l].reserver = u, ![l].late = FALSE]
  /\ IF u = listing[l].seller
     THEN releases' = releases \cup {l} /\ UNCHANGED purchase
     ELSE purchase' = [purchase EXCEPT ![p] = [status |-> "PENDING", buyer |-> u, offer |-> l]]
          /\ UNCHANGED releases
  /\ UNCHANGED <<ticket, history, repaid, refunded, transfer, entries, clock, request>>

\* reservation_expires_at passes, resale_reservation_minutes later.
ReservationTimesOut(l) ==
  /\ listing[l].status = "RESERVED" /\ ~listing[l].late
  /\ \/ "expiry" \in Overlaps
     \/ \A p \in Purchase : purchase[p] # [status |-> "PAID", buyer |-> listing[l].reserver, offer |-> l]
  /\ listing' = [listing EXCEPT ![l].late = TRUE]
  /\ UNCHANGED <<ticket, history, purchase, releases, repaid, refunded, transfer, entries, clock, request>>

\* Mutant: the buyer of the reservation is not erased.
AvailableKeepsBuyer(row) == [row EXCEPT !.status = "LISTED", !.late = FALSE]
Available(row) == [row EXCEPT !.status = "LISTED", !.reserver = Nobody, !.late = FALSE]

\* Mutant: the cron looks for late listings among those on offer.
ReleaseStaleNothing ==
  LET stale == {l \in Listing : listing[l].status = "LISTED" /\ listing[l].late} IN
  /\ stale # {}
  /\ listing' = [l \in Listing |-> IF l \in stale THEN Available(listing[l]) ELSE listing[l]]
  /\ UNCHANGED <<ticket, history, purchase, releases, repaid, refunded, transfer, entries, clock, request>>

\* ResaleCleanupService, every five minutes.
ReleaseStale ==
  LET stale == {l \in Listing : listing[l].status = "RESERVED" /\ listing[l].late} IN
  /\ stale # {} /\ \A l \in stale : MayWriteListing(l)
  /\ listing' = [l \in Listing |-> IF l \in stale THEN Available(listing[l]) ELSE listing[l]]
  /\ UNCHANGED <<ticket, history, purchase, releases, repaid, refunded, transfer, entries, clock, request>>

HoldsOffer(p) ==
  LET row == listing[purchase[p].offer] IN row.status = "RESERVED" /\ row.reserver = purchase[p].buyer

\* External: Stripe takes the buyer's money; the order is confirmed.
Pay(p) ==
  /\ purchase[p].status = "PENDING"
  /\ "expiry" \in Overlaps \/ (HoldsOffer(p) /\ ~listing[purchase[p].offer].late)
  /\ purchase' = [purchase EXCEPT ![p].status = "PAID"]
  /\ UNCHANGED <<ticket, history, listing, releases, repaid, refunded, transfer, entries, clock, request>>

\* order-service cancels an unpaid resale order, or its cron does when the time
\* to pay is over; the release of the offer is sent and not awaited.
Abandon(p) ==
  /\ purchase[p].status = "PENDING"
  /\ "release" \in Overlaps \/ HoldsOffer(p)
  /\ purchase' = [purchase EXCEPT ![p].status = "CANCELLED"]
  /\ releases' = releases \cup {purchase[p].offer}
  /\ UNCHANGED <<ticket, history, listing, repaid, refunded, transfer, entries, clock, request>>

\* releaseReservation frees whatever reservation there is, of any buyer.
ReleaseArrives(l) ==
  /\ l \in releases /\ MayWriteListing(l)
  /\ releases' = releases \ {l}
  /\ listing' = IF listing[l].status = "RESERVED"
                THEN [listing EXCEPT ![l] = Available(listing[l])] ELSE listing
  /\ UNCHANGED <<ticket, history, purchase, repaid, refunded, transfer, entries, clock, request>>

\* A call nobody retries may be lost.
ReleaseLost(l) ==
  /\ l \in releases
  /\ releases' = releases \ {l}
  /\ UNCHANGED <<ticket, history, listing, purchase, repaid, refunded, transfer, entries, clock, request>>

\* The buyer's confirmation page completes a paid purchase, naming the offer and
\* the order made for it (the route takes the two as given): the offer is read ...
CompleteRead(r, p) ==
  /\ In(r, "idle") /\ MayWriteTicket
  /\ purchase[p].status = "PAID" /\ HoldsOffer(p) /\ MayWriteListing(purchase[p].offer)
  /\ request' = [request EXCEPT ![r] = [Idle EXCEPT !.phase = "complete", !.order = p, !.offer = purchase[p].offer]]
  /\ UNCHANGED <<ticket, history, sales, refunded, transfer, entries, clock>>

\* ... transferToNewBuyer reads the ticket, which must be in resale ...
CompleteTransferRead(r) ==
  /\ In(r, "complete")
  /\ IF ticket.status = "FOR_RESALE"
     THEN request' = [request EXCEPT ![r].phase = "transfer", ![r].row = ticket]
     ELSE Ends(r)
  /\ UNCHANGED <<ticket, history, sales, refunded, transfer, entries, clock>>

\* ... and saves it for the new holder ...
CompleteTransferSave(r) ==
  LET p == request[r].order IN
  /\ In(r, "transfer")
  /\ NewToken(purchase[p].buyer)
  /\ ticket' = [Reassign(request[r].row, purchase[p].buyer) EXCEPT !.order = p, !.status = "SENT"]
  /\ Goes(r, "sold")
  /\ UNCHANGED <<sales, refunded, transfer, entries, clock>>

\* Mutant: the seller is repaid and the listing left reserved.
CompleteUnsold(r) ==
  LET l == request[r].offer IN
  /\ In(r, "sold")
  /\ repaid[l] < 2 /\ repaid' = [repaid EXCEPT ![l] = @ + 1]
  /\ Ends(r)
  /\ UNCHANGED <<ticket, history, listing, purchase, releases, refunded, transfer, entries, clock>>

\* ... the listing is saved SOLD and the gateway repays the seller.
CompleteSold(r) ==
  LET l == request[r].offer IN
  /\ In(r, "sold")
  /\ listing' = [listing EXCEPT ![l] = [NoListing EXCEPT !.status = "SOLD", !.seller = listing[l].seller]]
  /\ repaid[l] < 2 /\ repaid' = [repaid EXCEPT ![l] = @ + 1]  \* bound
  /\ Ends(r)
  /\ UNCHANGED <<ticket, history, purchase, releases, refunded, transfer, entries, clock>>

\* ResaleCleanupService, every hour: the ticket stays FOR_RESALE.
ExpireOldListings ==
  LET old == {l \in Listing : listing[l].status = "LISTED"} IN
  /\ clock >= EventStarts /\ old # {} /\ \A l \in old : MayWriteListing(l)
  /\ listing' = [l \in Listing |-> IF l \in old THEN [listing[l] EXCEPT !.status = "EXPIRED"] ELSE listing[l]]
  /\ UNCHANGED <<ticket, history, purchase, releases, repaid, refunded, transfer, entries, clock, request>>

-----------------------------------------------------------------------------
(* Gifts *)

\* Mutant: a ticket on sale may be given away.
GiftOnSale(t, u) ==
  /\ transfer[t].status = "NONE" /\ MayWriteTicket
  /\ ticket.status \notin Over /\ u # ticket.buyer /\ clock < GiftsClose
  /\ Cardinality({s \in Transfer : transfer[s].status = "ACTIVE"}) < MaxTransfers
  /\ transfer' = [transfer EXCEPT ![t] = [status |-> "ACTIVE", from |-> ticket.buyer, to |-> u]]
  /\ NewToken(u) /\ ticket' = Reassign(ticket, u)
  /\ UNCHANGED <<sales, refunded, entries, clock, request>>

\* gift: one transaction, under a lock of the ticket row.
Gift(t, u) ==
  /\ transfer[t].status = "NONE" /\ MayWriteTicket
  /\ Valid /\ u # ticket.buyer /\ clock < GiftsClose
  /\ Cardinality({s \in Transfer : transfer[s].status = "ACTIVE"}) < MaxTransfers
  /\ transfer' = [transfer EXCEPT ![t] = [status |-> "ACTIVE", from |-> ticket.buyer, to |-> u]]
  /\ NewToken(u) /\ ticket' = Reassign(ticket, u)
  /\ UNCHANGED <<sales, refunded, entries, clock, request>>

\* Mutant: the ticket goes back with the token of the beneficiary.
RevertSameToken(t) ==
  /\ transfer[t].status = "ACTIVE" /\ MayWriteTicket
  /\ ticket.buyer = transfer[t].to /\ Valid /\ clock < EventStarts
  /\ transfer' = [transfer EXCEPT ![t].status = "REVERTED"]
  /\ ticket' = [ticket EXCEPT !.buyer = transfer[t].from]
  /\ UNCHANGED <<history, sales, refunded, entries, clock, request>>

\* revert: an admin gives the ticket back, under locks of both rows.
Revert(t) ==
  /\ transfer[t].status = "ACTIVE" /\ MayWriteTicket
  /\ ticket.buyer = transfer[t].to /\ Valid /\ clock < EventStarts
  /\ transfer' = [transfer EXCEPT ![t].status = "REVERTED"]
  /\ NewToken(transfer[t].from) /\ ticket' = Reassign(ticket, transfer[t].from)
  /\ UNCHANGED <<sales, refunded, entries, clock, request>>

-----------------------------------------------------------------------------
(* Refunds, invalidation, and the door *)

\* cancelByOrder after a full refund of the order.
RefundOrder(o) ==
  /\ o \notin refunded /\ MayWriteTicket
  /\ o = FirstOrder \/ (o \in Purchase /\ purchase[o].status = "PAID")
  /\ "refund" \in Overlaps \/ (ticket.status # "FOR_RESALE" /\ \A p \in Purchase : purchase[p].status # "PENDING")
  /\ refunded' = refunded \cup {o}
  /\ ticket' = IF ticket.order = o /\ ticket.status \notin Over
               THEN [ticket EXCEPT !.status = "REFUNDED"] ELSE ticket
  /\ UNCHANGED <<history, sales, transfer, entries, clock, request>>

\* cancelByEvent: the event is cancelled.
CancelByEvent ==
  /\ ticket.status \notin Over /\ MayWriteTicket
  /\ "refund" \in Overlaps \/ ticket.status # "FOR_RESALE"
  /\ ticket' = [ticket EXCEPT !.status = "CANCELLED"]
  /\ UNCHANGED <<history, sales, refunded, transfer, entries, clock, request>>

\* invalidate: an admin reads the ticket ...
InvalidateRead(r) ==
  /\ In(r, "idle") /\ MayWriteTicket
  /\ "refund" \in Overlaps \/ ticket.status # "FOR_RESALE"
  /\ request' = [request EXCEPT ![r] = [Idle EXCEPT !.phase = "invalidate", !.row = ticket]]
  /\ UNCHANGED <<ticket, history, sales, refunded, transfer, entries, clock>>

\* ... and saves it, whatever its status was.
InvalidateSave(r) ==
  /\ In(r, "invalidate")
  /\ ticket' = [request[r].row EXCEPT !.status = "CANCELLED"]
  /\ Ends(r)
  /\ UNCHANGED <<history, sales, refunded, transfer, entries, clock>>

\* scan: the checks made before decide only which refusal is shown; markUsed is
\* one conditional UPDATE on the status and on the token of the QR code.
Consumable(k) == Valid /\ ticket.token = k
Consume(k) ==
  /\ Consumable(k) /\ MayWriteTicket
  /\ entries < 2  \* bound
  /\ ticket' = [ticket EXCEPT !.status = "USED"]
  /\ entries' = entries + 1
  /\ UNCHANGED <<history, sales, refunded, transfer, clock, request>>
DoorsAreOpen == DoorsOpen <= clock /\ clock < DoorsClose
Scan(k) == DoorsAreOpen /\ Consume(k)

Tick ==
  /\ clock < DoorsClose /\ clock' = clock + 1
  /\ UNCHANGED <<ticket, history, sales, refunded, transfer, entries, request>>

-----------------------------------------------------------------------------
Sell(r) ==
  \/ \E u \in User : ListCheck(r, u)
  \/ ListRead(r) \/ ListMark(r) \/ \E l \in Listing : ListInsert(r, l)
  \/ \E l \in Listing : WithdrawRead(r, l)
  \/ WithdrawRestore(r) \/ WithdrawSave(r)
Buy(r) ==
  \/ \E p \in Purchase : CompleteRead(r, p)
  \/ CompleteTransferRead(r) \/ CompleteTransferSave(r) \/ CompleteSold(r)
Offer ==
  \/ \E p \in Purchase : Pay(p) \/ Abandon(p) \/ \E l \in Listing, u \in User : Reserve(p, l, u)
  \/ \E l \in Listing : ReservationTimesOut(l) \/ ReleaseArrives(l) \/ ReleaseLost(l)
  \/ ReleaseStale \/ ExpireOldListings
Give == \E t \in Transfer : Revert(t) \/ \E u \in User : Gift(t, u)
Void ==
  \/ \E o \in Purchase \cup {FirstOrder} : RefundOrder(o)
  \/ CancelByEvent
  \/ \E r \in Request : InvalidateRead(r) \/ InvalidateSave(r)

\* Everything but the door.
Desk ==
  \/ \E r \in Request : Sell(r) \/ Buy(r)
  \/ Offer \/ Give \/ Void \/ Tick
Next == Desk \/ \E k \in 1..MaxToken : Scan(k)

\* A request that has begun goes on.
RequestsGoOn ==
  \A r \in Request :
    /\ WF_vars(ListRead(r)) /\ WF_vars(ListMark(r)) /\ WF_vars(\E l \in Listing : ListInsert(r, l))
    /\ WF_vars(WithdrawRestore(r)) /\ WF_vars(WithdrawSave(r)) /\ WF_vars(CompleteTransferRead(r))
    /\ WF_vars(CompleteTransferSave(r)) /\ WF_vars(CompleteSold(r)) /\ WF_vars(InvalidateSave(r))

\* Deadlines pass and the cron that frees stale reservations runs.  Nobody is
\* obliged to buy, sell, give or come.
Fairness ==
  /\ \A l \in Listing : WF_vars(ReservationTimesOut(l))
  /\ SF_vars(ReleaseStale)
  /\ RequestsGoOn

Spec == Init /\ [][Next]_vars /\ Fairness

-----------------------------------------------------------------------------
\* While nobody is changing it, a ticket on sale cannot be used, is on sale once,
\* and its seller still holds it.
ListingHeld ==
  TicketReaders = {} =>
    \A l \in Listing : Active(l) =>
      /\ ticket.status = "FOR_RESALE" /\ ticket.buyer = listing[l].seller
      /\ \A m \in Listing : Active(m) => m = l

\* The server lets a ticket in once, however it was gifted, sold or withdrawn.
EntersOnce == entries <= 1

\* The seller is repaid once for a listing, however often the buyer's page
\* completes the purchase.
SellerRepaidOnce == \A l \in Listing : repaid[l] <= 1

\* The QR code the door accepts was made for the account that holds the ticket:
\* a former holder never gets in with the old one.
TokenIsHolders == history[ticket.token] = ticket.buyer

\* Only the holder's listing takes the ticket away by a sale.
SoldByHolder ==
  [][ticket'.order \in Purchase \ {ticket.order}
        => listing[purchase[ticket'.order].offer].seller = ticket.buyer]_vars

\* A reservation ends: the ticket is sold, or back on offer, or off sale.
ReservationEnds == \A l \in Listing : listing[l].status = "RESERVED" ~> listing[l].status # "RESERVED"

\* "les billets de la commande passent REFUNDED et ne sont plus scannables"
\* (cancelByOrder): no ticket of a refunded order opens the door.
RefundedStaysOut == [][entries' > entries => ticket.order \notin refunded]_vars
=============================================================================
