---------------------------- MODULE PayoutCycle ----------------------------
(***************************************************************************)
(* What payment-service owes one organizer for one event: the payout of    *)
(* each sale and its adjustments (PayoutService), the daily cycle that     *)
(* pays what is due (PayoutSchedulerService, once in the cluster thanks to *)
(* JobLock), the admin's bank transfers and blocks, refunds, disputes      *)
(* (DisputeService), and the postponements the gateway announces           *)
(* (EventPostponementService).                                             *)
(*                                                                         *)
(* A payout is an entity saved whole: every handler reads it, decides and  *)
(* saves it some calls later, without a lock.                              *)
(***************************************************************************)
EXTENDS Integers, FiniteSets, FiniteSetsExt

CONSTANTS
  Order,      \* paid orders; the payout of a sale has the name of its order
  Extra,      \* names of the rows refunds and partial offsets add (bound)
  Copy,       \* copies of payment-service that run the crons
  Admin,      \* the worker of a payout processed by hand
  Nobody,     \* sentinel
  Share,      \* Share[o]: the organizer's part, gross less commission, in quarters
  Fees,       \* Fees[o]: payment and free-ticket fees, never given back
  MaxDates,   \* bound: end dates the event may have
  MaxMoves,   \* bound: interventions of admins, buyers and organizers
  Overlaps    \* which rare overlaps happen, see below

\* "stale"      something happens to a row between its reading and its saving
\* "manual"     an admin processes a payout during a cycle
\* "paid"       an admin blocks a payout that is no longer pending (stale page)
\* "negative"   a refund during a cycle leaves an unpaid payout below zero, or
\*              an admin processes one that is
\* "reserved"   a dispute or a second refund finds a debt reserved by a bank transfer
\* "dated"      the postponed event gets its date during a cycle
\* "lost"       a rescheduling call, or the answer of a transfer, is lost
\* "crash"      a copy stops in the middle of a handler
OverlapKinds == {"stale", "manual", "paid", "negative", "reserved", "dated", "lost", "crash"}

ASSUME PayoutAssumption ==
  /\ Order \cap Extra = {} /\ Admin \notin Copy /\ Nobody \notin Order \cup Extra \cup Copy \cup {Admin}
  /\ IsFiniteSet(Order) /\ IsFiniteSet(Extra)
  /\ Share \in [Order -> Nat] /\ (\A o \in Order : Share[o] % 4 = 0) /\ Fees \in [Order -> Nat]
  /\ MaxDates \in Nat \ {0} /\ MaxMoves \in Nat /\ Overlaps \subseteq OverlapKinds

Payout == Order \cup Extra
Worker == Copy \cup {Admin}

VARIABLES
  payout,    \* rows of payments.payouts
  refunded,  \* refunded[o]: halves of the price given back (bounds the amounts)
  again,     \* history: an order was refunded a second time
  dispute,   \* dispute[o]: the last dispute of the order
  freed,     \* history: orders whose dispute does not block their payout: an admin or
             \* time unblocked it, or the block missed it
  event,     \* in event-service: postponed, end date
  announced, \* the gateway's call on its way after a postponement or a new date
  account,   \* how the organizer can be paid: none yet, stripe, bank
  paid,      \* money that left for the organizer
  taken,     \* the lock key of today's slot exists
  job,       \* local state of the workers that process payouts
  edit,      \* a handler that has read rows and not saved them yet
  moves,     \* interventions left
  interrupted \* history: a handler was, or Stripe's answer got lost

vars == <<payout, refunded, again, dispute, freed, event, announced, account, paid, taken, job, edit, moves, interrupted>>

-----------------------------------------------------------------------------
PayoutStatus == {"PENDING", "PROCESSING", "TO_TRANSFER", "COMPLETED", "BLOCKED", "FAILED"}
\* gross is the organizer's share; end = 0 is a null event_end_at; due is
\* scheduled_at <= now; old is blocked_at older than the 30 days.
Row == [status: PayoutStatus \cup {"NONE"}, order: Order \cup {Nobody}, gross: Int, net: Int, offset: Nat,
        settledBy: Payout \cup {Nobody}, hold: BOOLEAN, end: 0..MaxDates, due: BOOLEAN, old: BOOLEAN,
        early: {"no", "asked", "approved"}]
NoRow == [status |-> "NONE", order |-> Nobody, gross |-> 0, net |-> 0, offset |-> 0, settledBy |-> Nobody,
          hold |-> FALSE, end |-> 0, due |-> FALSE, old |-> FALSE, early |-> "no"]
Empty == [p \in {} |-> NoRow]

NoJob == [pc |-> "idle", todo |-> Empty, event |-> [postponed |-> FALSE, end |-> 1],
          row |-> Nobody, copy |-> NoRow, covered |-> Empty, debts |-> Empty]
\* copies: the rows as they will be saved; follow: the UPDATE that comes next.
NoEdit == [copies |-> Empty, follow |-> "none", of |-> Nobody, worker |-> Nobody]

Used == {p \in Payout : payout[p].status # "NONE"}
Free == Payout \ (Order \cup Used \cup DOMAIN edit.copies)
NewRow == CHOOSE p \in Free : TRUE
RowsOf(o) == {p \in Used : payout[p].order = o}
FeesOf(p) == IF p \in Order THEN Fees[p] ELSE 0
Sum(f) == MapThenSumSet(LAMBDA x : f[x], DOMAIN f)

\* Rows, workers and interventions are well formed: what covers a debt is
\* noted on negative rows only, and a payout is PROCESSING for as long as a
\* worker pays it, no longer unless the worker was interrupted.
TypeOK ==
  /\ payout \in [Payout -> Row]
  /\ \A p \in Used : payout[p].settledBy # Nobody => payout[p].net < 0
  /\ \A p \in Used : payout[p].status = "PROCESSING" => interrupted \/ \E w \in Worker : job[w].row = p
  /\ refunded \in [Order -> 0..2]
  /\ dispute \in [Order -> {"NONE", "OPEN", "CLOSED", "DECIDED"}] /\ freed \subseteq Order /\ again \in BOOLEAN
  /\ event \in [postponed: BOOLEAN, end: 1..MaxDates] /\ announced \in {"none", "hold", "reschedule"}
  /\ account \in {"none", "stripe", "bank"} /\ paid \in Nat
  /\ taken \in BOOLEAN /\ moves \in 0..MaxMoves /\ interrupted \in BOOLEAN
  /\ \A w \in Worker : job[w].pc \in {"idle", "cycle", "mark", "transfer", "record", "settle"}
  /\ edit.follow \in {"none", "settle", "free", "unhold"}

Init ==
  /\ payout = [p \in Payout |-> NoRow] /\ refunded = [o \in Order |-> 0] /\ again = FALSE
  /\ dispute = [o \in Order |-> "NONE"] /\ freed = {}
  /\ event = [postponed |-> FALSE, end |-> 1] /\ announced = "none" /\ account = "none"
  /\ paid = 0 /\ taken = FALSE
  /\ job = [w \in Worker |-> NoJob] /\ edit = NoEdit /\ moves = MaxMoves
  /\ interrupted = FALSE

-----------------------------------------------------------------------------
(* Rows are read, then saved *)

\* A worker has read p and will save it.
InHand(p) == \E w \in Worker : job[w].pc \notin {"idle", "cycle"} /\ p \in {job[w].row} \cup DOMAIN job[w].debts

\* Without "stale", a row that was read is left alone until it is saved; only
\* the cycles of two copies are kept apart by nothing but the lock.
Settled == "stale" \in Overlaps \/ edit = NoEdit
Undisturbed(p) == Settled /\ ("stale" \in Overlaps \/ ~InHand(p))
AllUndisturbed == \A p \in Payout : Undisturbed(p)
NoCycle == \A w \in Worker : job[w].pc = "idle"

ReadsRows(copies, follow, of, w) ==
  /\ edit = NoEdit
  /\ edit' = [copies |-> copies, follow |-> follow, of |-> of, worker |-> w]
ReadsRow(p, row) == ReadsRows([q \in {p} |-> row], "none", Nobody, Nobody)

EditSave ==
  /\ DOMAIN edit.copies # {}
  /\ payout' = [p \in Payout |-> IF p \in DOMAIN edit.copies THEN edit.copies[p] ELSE payout[p]]
  /\ edit' = IF edit.follow = "none" THEN NoEdit ELSE [edit EXCEPT !.copies = Empty]
  /\ UNCHANGED <<refunded, again, dispute, freed, event, announced, account, paid, taken, job, moves, interrupted>>

Reserved(p) == payout[p].settledBy = edit.of /\ payout[p].status = "PENDING"

\* The UPDATE after the save: a confirmed transfer settles the debts reserved
\* for it, a cancelled one frees them, a rescheduling lifts every hold.
EditFollow ==
  /\ DOMAIN edit.copies = {} /\ edit.follow # "none"
  /\ payout' = [p \in Payout |->
       CASE edit.follow = "settle" /\ Reserved(p) -> [payout[p] EXCEPT !.status = "COMPLETED"]
         [] edit.follow = "free" /\ Reserved(p) -> [payout[p] EXCEPT !.settledBy = Nobody]
         [] edit.follow = "unhold" -> [payout[p] EXCEPT !.hold = FALSE]
         [] OTHER -> payout[p]]
  /\ edit' = NoEdit
  /\ UNCHANGED <<refunded, again, dispute, freed, event, announced, account, paid, taken, job, moves, interrupted>>

Intervenes == moves > 0 /\ moves' = moves - 1
NotMoved == UNCHANGED <<event, announced, account, paid, taken, job, interrupted>>

-----------------------------------------------------------------------------
(* Sales and refunds *)

\* create: the date is the one the order was given, perhaps an old one.
CreatePayout(o) ==
  /\ payout[o].status = "NONE"
  /\ \E e \in 1..event.end :
       payout' = [payout EXCEPT ![o] = [NoRow EXCEPT !.status = "PENDING", !.order = o, !.gross = Share[o],
                                                     !.net = Share[o] - Fees[o], !.end = e]]
  /\ UNCHANGED <<refunded, again, dispute, freed, event, announced, account, paid, taken, job, edit, moves, interrupted>>

\* scheduled_at passes.
DueComes(p) ==
  /\ payout[p].status # "NONE" /\ ~payout[p].due /\ edit = NoEdit /\ ~InHand(p)
  /\ payout' = [payout EXCEPT ![p].due = TRUE]
  /\ UNCHANGED <<refunded, again, dispute, freed, event, announced, account, paid, taken, job, edit, moves, interrupted>>

\* h halves of the price of o are refunded by payment.refund, or taken back by
\* the bank (recordChargeback); the order has its payout.
Refunds(o, h) ==
  /\ Settled /\ Intervenes /\ refunded[o] + h <= 2
  /\ refunded' = [refunded EXCEPT ![o] = @ + h] /\ again' = (again \/ refunded[o] > 0)

\* Mutant: the fees are given back as well.
RefundReducesFees(o, h) ==
  /\ Refunds(o, h)
  /\ \E p \in RowsOf(o) :
       /\ payout[p].status \in {"PENDING", "BLOCKED"} /\ Undisturbed(p)
       /\ LET gross == (payout[p].gross * (2 - h)) \div 2
          IN ReadsRow(p, [payout[p] EXCEPT !.gross = gross, !.net = gross])
  /\ NotMoved /\ UNCHANGED <<payout, dispute, freed>>

\* recalculateForRefund, not paid yet: the share is reduced in the row, the
\* fees stay.  Any row of the order may be the one found; the ratio is that of
\* the original price, whatever an earlier refund has left of the share.
RefundReduces(o, h) ==
  /\ Refunds(o, h)
  /\ \E p \in RowsOf(o) :
       /\ payout[p].status \in {"PENDING", "BLOCKED"} /\ Undisturbed(p)
       /\ LET gross == (payout[p].gross * (2 - h)) \div 2
          IN /\ payout[p].net < 0 \/ gross >= FeesOf(p) \/ NoCycle \/ "negative" \in Overlaps
             /\ payout[p].settledBy = Nobody \/ "reserved" \in Overlaps
             /\ ReadsRow(p, [payout[p] EXCEPT !.gross = gross, !.net = gross - FeesOf(p)])
  /\ NotMoved /\ UNCHANGED <<payout, dispute, freed>>

\* recalculateForRefund, already paid or being paid: a negative row is added.
RefundAdjusts(o, h) ==
  /\ Refunds(o, h)
  /\ Free # {}
  /\ \E p \in RowsOf(o) :
       /\ payout[p].status \notin {"PENDING", "BLOCKED"}
       /\ LET back == -((payout[p].gross * h) \div 2)
          IN payout' = [payout EXCEPT ![NewRow] = [NoRow EXCEPT !.status = "PENDING", !.order = o, !.gross = back,
                                                           !.net = back, !.due = TRUE]]
  /\ NotMoved /\ UNCHANGED <<dispute, freed, edit>>

-----------------------------------------------------------------------------
(* Blocks and disputes *)

Blocked(p) == [payout[p] EXCEPT !.status = "BLOCKED", !.old = FALSE]
Unblocked(p) == [payout[p] EXCEPT !.status = "PENDING"]

Block(p) ==
  /\ Undisturbed(p) /\ Intervenes /\ p \in Used /\ payout[p].settledBy = Nobody
  /\ payout[p].status = "PENDING" \/ "paid" \in Overlaps
  /\ ReadsRow(p, Blocked(p))
  /\ NotMoved /\ UNCHANGED <<payout, refunded, again, dispute, freed>>

\* 30 days pass.
BlockAges(p) ==
  /\ payout[p].status = "BLOCKED" /\ ~payout[p].old /\ edit = NoEdit /\ ~InHand(p)
  /\ payout' = [payout EXCEPT ![p].old = TRUE]
  /\ UNCHANGED <<refunded, again, dispute, freed, event, announced, account, paid, taken, job, edit, moves, interrupted>>

Unblock(p) ==
  /\ Undisturbed(p) /\ payout[p].status = "BLOCKED"
  /\ ReadsRow(p, Unblocked(p))
  /\ freed' = freed \cup (Order \cap {p})
  /\ NotMoved /\ UNCHANGED <<payout, refunded, again, dispute>>

UnblockByAdmin(p) == Intervenes /\ Unblock(p)

\* The daily job, under its own lock; it runs again the next day.
UnblockExpired(p) == payout[p].old /\ UNCHANGED moves /\ Unblock(p)

\* Mutant: the dispute does not block the payout.
OpenDisputeOnly(o) ==
  /\ Undisturbed(o) /\ Intervenes /\ payout[o].status # "NONE" /\ dispute[o] # "OPEN"
  /\ dispute' = [dispute EXCEPT ![o] = "OPEN"] /\ freed' = freed \ {o}
  /\ NotMoved /\ UNCHANGED <<payout, refunded, again, edit>>

\* DisputeService.create, then blockByOrder; OPEN stands for UNDER_REVIEW too.
\* Any row of the order may be the one found, and only a pending one is blocked.
OpenDispute(o) ==
  /\ Undisturbed(o) /\ Intervenes /\ payout[o].status # "NONE" /\ dispute[o] # "OPEN"
  /\ dispute' = [dispute EXCEPT ![o] = "OPEN"]
  /\ \E p \in RowsOf(o) :
       /\ Undisturbed(p)
       /\ \/ /\ payout[p].status = "PENDING" /\ (payout[p].settledBy = Nobody \/ "reserved" \in Overlaps)
             /\ ReadsRow(p, Blocked(p))
          \/ payout[p].status # "PENDING" /\ UNCHANGED edit
       /\ freed' = IF payout[o].status = "BLOCKED" \/ (p = o /\ payout[p].status = "PENDING") THEN freed \ {o}
                   ELSE freed \cup {o}
  /\ NotMoved /\ UNCHANGED <<payout, refunded, again>>

\* resolve and closeFromStripe, then unblockByOrder; a CLOSED one may be resolved again.
ResolveDispute(o, verdict) ==
  /\ Undisturbed(o) /\ Intervenes /\ dispute[o] \in {"OPEN", "CLOSED"}
  /\ dispute' = [dispute EXCEPT ![o] = verdict]
  /\ \E p \in RowsOf(o) :
       /\ Undisturbed(p)
       /\ IF payout[p].status = "BLOCKED" THEN ReadsRow(p, Unblocked(p)) ELSE UNCHANGED edit
  /\ NotMoved /\ UNCHANGED <<payout, refunded, again, freed>>

-----------------------------------------------------------------------------
(* Early payouts and postponements *)

RequestEarly(p) ==
  /\ Undisturbed(p) /\ Intervenes /\ payout[p].status = "PENDING" /\ ~payout[p].hold /\ payout[p].end # 0
  /\ payout[p].early = "no"
  /\ ReadsRow(p, [payout[p] EXCEPT !.early = "asked"])
  /\ NotMoved /\ UNCHANGED <<payout, refunded, again, dispute, freed>>

\* approveEarly looks at the request and at the hold, not at the status.
ApproveEarly(p) ==
  /\ Undisturbed(p) /\ payout[p].early = "asked" /\ ~payout[p].hold
  /\ ReadsRow(p, [payout[p] EXCEPT !.early = "approved", !.due = TRUE])
  /\ NotMoved /\ UNCHANGED <<payout, refunded, again, dispute, freed, moves>>

Postpone ==
  /\ Intervenes /\ ~event.postponed /\ event.end < MaxDates /\ announced = "none"
  /\ event' = [event EXCEPT !.postponed = TRUE] /\ announced' = "hold"
  /\ UNCHANGED <<payout, refunded, again, dispute, freed, account, paid, taken, job, edit, interrupted>>

\* The organizer sets the new date; the gateway announces it after its own
\* announcement of the postponement.
NewDate ==
  /\ event.postponed /\ announced = "none" /\ (NoCycle \/ "dated" \in Overlaps)
  /\ event' = [postponed |-> FALSE, end |-> event.end + 1] /\ announced' = "reschedule"
  /\ UNCHANGED <<payout, refunded, again, dispute, freed, account, paid, taken, job, edit, moves, interrupted>>

Unpaid(p) == payout[p].status \in {"PENDING", "BLOCKED"}

\* holdForEvent, one UPDATE.
Held == [p \in Payout |-> IF Unpaid(p) THEN [payout[p] EXCEPT !.hold = TRUE] ELSE payout[p]]

\* Mutant: the hold stays.
ReschedulesHolding(end, w) ==
  LET targets == {p \in Payout : Unpaid(p) /\ payout[p].net > 0}
  IN ReadsRows([p \in targets |-> [payout[p] EXCEPT !.end = end, !.due = FALSE, !.early = "no"]], "none", Nobody, w)

\* rescheduleForEvent: the positive payouts are saved, then every hold lifted.
Reschedules(end, w) ==
  LET targets == {p \in Payout : Unpaid(p) /\ payout[p].net > 0}
  IN ReadsRows([p \in targets |-> [payout[p] EXCEPT !.end = end, !.due = FALSE, !.hold = FALSE, !.early = "no"]],
               "unhold", Nobody, w)

HoldArrives ==
  /\ announced = "hold" /\ AllUndisturbed
  /\ payout' = Held /\ announced' = "none"
  /\ UNCHANGED <<refunded, again, dispute, freed, event, account, paid, taken, job, edit, moves, interrupted>>

RescheduleArrives ==
  /\ announced = "reschedule" /\ AllUndisturbed
  /\ Reschedules(event.end, Nobody) /\ announced' = "none"
  /\ UNCHANGED <<payout, refunded, again, dispute, freed, event, account, paid, taken, job, moves, interrupted>>

\* The announcement fails and is only logged.
AnnouncementLost ==
  /\ announced = "hold" \/ (announced = "reschedule" /\ "lost" \in Overlaps)
  /\ announced' = "none"
  /\ UNCHANGED <<payout, refunded, again, dispute, freed, event, account, paid, taken, job, edit, moves, interrupted>>

-----------------------------------------------------------------------------
(* The daily cycle *)

Due(p) == payout[p].status = "PENDING" /\ payout[p].due /\ payout[p].net > 0 /\ ~payout[p].hold
DuePayouts == {p \in Payout : Due(p)}
Outstanding(p) == /\ payout[p].status = "PENDING" /\ payout[p].due /\ payout[p].net < 0
                  /\ ~payout[p].hold /\ payout[p].settledBy = Nobody
OutstandingDebts == {p \in Payout : Outstanding(p)}

VerifyAccount ==
  /\ account = "none"
  /\ \E m \in {"stripe", "bank"} : account' = m
  /\ UNCHANGED <<payout, refunded, again, dispute, freed, event, announced, paid, taken, job, edit, moves, interrupted>>

\* Mutant: the lock is set without NX, every copy runs the job.
CronFiresUnlocked(c) ==
  /\ job[c].pc = "idle" /\ taken' = TRUE
  /\ job' = [job EXCEPT ![c] = [NoJob EXCEPT !.pc = "cycle", !.event = event,
                                             !.todo = [p \in DuePayouts |-> payout[p]]]]
  /\ UNCHANGED <<payout, refunded, again, dispute, freed, event, announced, account, paid, edit, moves, interrupted>>

\* Every copy's cron fires once a day; the first to set the key of the day's
\* slot reads the due payouts, then the event; the others do nothing.
CronFires(c) ==
  /\ job[c].pc = "idle" /\ ~taken /\ taken' = TRUE
  /\ Settled /\ (job[Admin].pc = "idle" \/ "manual" \in Overlaps)
  /\ job' = [job EXCEPT ![c] = [NoJob EXCEPT !.pc = "cycle", !.event = event,
                                             !.todo = [p \in DuePayouts |-> payout[p]]]]
  /\ UNCHANGED <<payout, refunded, again, dispute, freed, event, announced, account, paid, edit, moves, interrupted>>

\* The clocks of the copies differ by less than a day, and a cycle is shorter.
NewDay ==
  /\ taken /\ NoCycle /\ taken' = FALSE
  /\ UNCHANGED <<payout, refunded, again, dispute, freed, event, announced, account, paid, job, edit, moves, interrupted>>

\* The cycle goes on when the handler it called has saved.
Takes(c, p) == job[c].pc = "cycle" /\ p \in DOMAIN job[c].todo /\ edit.worker # c /\ Settled
Without(c, p) == [q \in DOMAIN job[c].todo \ {p} |-> job[c].todo[q]]
Skips(c, p) == job' = [job EXCEPT ![c].todo = Without(c, p)]

CycleHolds(c, p) ==
  /\ Takes(c, p) /\ job[c].event.postponed /\ Skips(c, p)
  /\ payout' = Held
  /\ UNCHANGED <<refunded, again, dispute, freed, event, announced, account, paid, taken, edit, moves, interrupted>>

Later(c, p) == job[c].todo[p].end # 0 /\ job[c].event.end > job[c].todo[p].end

CycleReschedules(c, p) ==
  /\ Takes(c, p) /\ ~job[c].event.postponed /\ Later(c, p) /\ Skips(c, p)
  /\ Reschedules(job[c].event.end, c)
  /\ UNCHANGED <<payout, refunded, again, dispute, freed, event, announced, account, paid, taken, moves, interrupted>>

\* The event takes place, on the date the payout knows.
MayPay(c, p) == ~job[c].event.postponed /\ ~Later(c, p)

\* No verified account, or a payout that is no longer pending: logged.
CycleSkips(c, p) ==
  /\ Takes(c, p) /\ MayPay(c, p) /\ (account = "none" \/ payout[p].status # "PENDING")
  /\ Skips(c, p)
  /\ UNCHANGED <<payout, refunded, again, dispute, freed, event, announced, account, paid, taken, edit, moves, interrupted>>

Least(a, b) == IF a < b THEN a ELSE b
Most(a, b) == IF a > b THEN a ELSE b
Owed(d) == -payout[d].net
MaxOwed == Sum([o \in Order |-> Share[o] + Fees[o]])

\* computeOffset: debts are covered one after the other until nothing is left,
\* so at most one of them in part.
Coverings(p) ==
  LET debts == OutstandingDebts
      total == Least(Most(payout[p].net, 0), Sum([d \in debts |-> Owed(d)]))
  IN {c \in [debts -> 0..MaxOwed] :
        /\ \A d \in debts : c[d] <= Owed(d)
        /\ Sum(c) = total
        /\ Cardinality({d \in debts : c[d] \notin {0, Owed(d)}}) <= 1}
Chosen(c) == {d \in DOMAIN c : c[d] > 0}

\* process and prepareBankTransfer: the payout and the debts it will cover are read.
ReadsPayout(w, p, todo) ==
  /\ payout[p].status = "PENDING"
  /\ \E c \in Coverings(p) :
       job' = [job EXCEPT ![w] =
                 [pc |-> "mark", todo |-> todo, event |-> @.event, row |-> p,
                  copy |-> [payout[p] EXCEPT !.offset = Sum(c)],
                  covered |-> [d \in Chosen(c) |-> c[d]], debts |-> [d \in Chosen(c) |-> payout[d]]]]

CyclePays(c, p) ==
  /\ Takes(c, p) /\ MayPay(c, p) /\ account # "none"
  /\ ReadsPayout(c, p, Without(c, p))
  /\ UNCHANGED <<payout, refunded, again, dispute, freed, event, announced, account, paid, taken, edit, moves, interrupted>>

CycleEnds(c) ==
  /\ job[c].pc = "cycle" /\ DOMAIN job[c].todo = {} /\ edit.worker # c
  /\ job' = [job EXCEPT ![c] = NoJob]
  /\ UNCHANGED <<payout, refunded, again, dispute, freed, event, announced, account, paid, taken, edit, moves, interrupted>>

\* By hand: only the account is checked, not the hold nor the event.
AdminPays(p) ==
  /\ Undisturbed(p) /\ Intervenes /\ job[Admin].pc = "idle" /\ account # "none"
  /\ (NoCycle \/ "manual" \in Overlaps) /\ (payout[p].net >= 0 \/ "negative" \in Overlaps)
  /\ ReadsPayout(Admin, p, Empty)
  /\ UNCHANGED <<payout, refunded, again, dispute, freed, event, announced, account, paid, taken, edit, interrupted>>

-----------------------------------------------------------------------------
(* Paying one payout *)

At(w, pc) == job[w].pc = pc
Goes(w, pc, copy) == job' = [job EXCEPT ![w].pc = pc, ![w].copy = copy]
Done(w) == job' = [job EXCEPT ![w] = IF w = Admin THEN NoJob
                                     ELSE [NoJob EXCEPT !.pc = "cycle", !.todo = job[w].todo, !.event = job[w].event]]
Pays(w) == job[w].copy.net - job[w].copy.offset
Saves(w, status) == payout' = [payout EXCEPT ![job[w].row] = [job[w].copy EXCEPT !.status = status]]
OthersUnchanged == UNCHANGED <<refunded, again, dispute, freed, event, announced, account, taken, moves>>
RestUnchanged == OthersUnchanged /\ UNCHANGED edit

\* process: PROCESSING is saved, then Stripe is called.
MarkProcessing(w) ==
  /\ At(w, "mark") /\ account = "stripe"
  /\ Saves(w, "PROCESSING") /\ Goes(w, "transfer", job[w].copy)
  /\ UNCHANGED <<paid, interrupted>> /\ RestUnchanged

\* prepareBankTransfer: the amount is fixed; nothing left to pay completes it.
MarkToTransfer(w) ==
  /\ At(w, "mark") /\ account = "bank"
  /\ LET status == IF Pays(w) <= 0 THEN "COMPLETED" ELSE "TO_TRANSFER"
     IN Saves(w, status) /\ Goes(w, "settle", [job[w].copy EXCEPT !.status = status])
  /\ UNCHANGED <<paid, interrupted>> /\ RestUnchanged

StripeTransfers(w) ==
  /\ At(w, "transfer")
  /\ paid' = paid + Most(Pays(w), 0)
  /\ Goes(w, "record", [job[w].copy EXCEPT !.status = "COMPLETED"])
  /\ UNCHANGED <<payout, interrupted>> /\ RestUnchanged

\* Refused, or made without an answer: no debt is covered.
StripeFails(w) ==
  /\ At(w, "transfer") /\ Pays(w) > 0
  /\ \/ UNCHANGED <<paid, interrupted>>
     \/ "lost" \in Overlaps /\ paid' = paid + Pays(w) /\ interrupted' = TRUE
  /\ Goes(w, "record", [job[w].copy EXCEPT !.status = "FAILED", !.offset = 0])
  /\ UNCHANGED payout /\ RestUnchanged

\* Mutant: a refused transfer is not recorded.
RecordTransferOnly(w) ==
  /\ At(w, "record")
  /\ IF job[w].copy.status = "FAILED" THEN Done(w) /\ UNCHANGED payout
     ELSE Goes(w, "settle", job[w].copy) /\ Saves(w, job[w].copy.status)
  /\ UNCHANGED <<paid, interrupted>> /\ RestUnchanged

Record(w) ==
  /\ At(w, "record") /\ Saves(w, job[w].copy.status)
  /\ IF job[w].copy.status = "FAILED" THEN Done(w) ELSE Goes(w, "settle", job[w].copy)
  /\ UNCHANGED <<paid, interrupted>> /\ RestUnchanged

\* settleDebts, one debt: the copy read before the transfer is saved, settled
\* or reserved; a debt covered in part keeps the rest, and then a row for the
\* part covered is inserted (EditSave).
SettleDebt(w, d) ==
  /\ At(w, "settle") /\ edit.worker # w /\ d \in DOMAIN job[w].covered
  /\ LET debt == job[w].debts[d]
         part == job[w].covered[d]
         status == IF job[w].copy.status = "COMPLETED" THEN "COMPLETED" ELSE "PENDING"
     IN \/ /\ part = -debt.net /\ UNCHANGED edit
           /\ payout' = [payout EXCEPT ![d] = [debt EXCEPT !.status = status, !.settledBy = job[w].row]]
        \/ /\ part < -debt.net /\ Free # {}
           /\ payout' = [payout EXCEPT ![d] = [debt EXCEPT !.net = @ + part]]
           /\ ReadsRows([q \in {NewRow} |-> [NoRow EXCEPT !.status = status, !.order = debt.order, !.net = -part,
                                                         !.due = TRUE, !.settledBy = job[w].row]],
                        "none", Nobody, w)
  /\ job' = [job EXCEPT ![w].covered = [q \in DOMAIN @ \ {d} |-> @[q]]]
  /\ UNCHANGED <<paid, interrupted>> /\ OthersUnchanged

SettleEnds(w) ==
  /\ At(w, "settle") /\ edit.worker # w /\ DOMAIN job[w].covered = {} /\ Done(w)
  /\ UNCHANGED <<payout, paid, interrupted>> /\ RestUnchanged

\* The admin confirms a transfer the bank has made ...
ConfirmBankTransfer(p) ==
  /\ Undisturbed(p) /\ payout[p].status = "TO_TRANSFER"
  /\ ReadsRows([q \in {p} |-> [payout[p] EXCEPT !.status = "COMPLETED"]], "settle", p, Nobody)
  /\ paid' = paid + payout[p].net - payout[p].offset
  /\ UNCHANGED <<payout, refunded, again, dispute, freed, event, announced, account, taken, job, moves, interrupted>>

\* ... or cancels one it has refused: the debts reserved for it are free again.
ReleaseBankTransfer(p) ==
  /\ Undisturbed(p) /\ Intervenes /\ payout[p].status = "TO_TRANSFER"
  /\ ReadsRows([q \in {p} |-> [payout[p] EXCEPT !.status = "PENDING", !.offset = 0]], "free", p, Nobody)
  /\ NotMoved /\ UNCHANGED <<payout, refunded, again, dispute, freed>>

\* What a handler has read is never saved; the dispute it was about blocks nothing.
Forgets ==
  /\ edit' = NoEdit
  /\ freed' = freed \cup {o \in Order \cap DOMAIN edit.copies : payout[o].status # "BLOCKED"}

\* A copy stops in the middle of a payment or of a cycle, or after a refund, a
\* dispute or a save and before the save or the UPDATE that follows it.
Crash ==
  /\ "crash" \in Overlaps /\ Intervenes /\ interrupted' = TRUE
  /\ \/ /\ edit # NoEdit /\ edit.worker = Nobody /\ (DOMAIN edit.copies = {} \/ edit.follow = "none")
        /\ Forgets /\ UNCHANGED job
     \/ \E w \in Worker :
          /\ job[w].pc # "idle" /\ job' = [job EXCEPT ![w] = NoJob]
          /\ IF edit.worker = w THEN Forgets ELSE UNCHANGED <<edit, freed>>
  /\ UNCHANGED <<payout, refunded, again, dispute, event, announced, account, paid, taken>>

-----------------------------------------------------------------------------
JobStep(w) ==
  \/ MarkProcessing(w) \/ MarkToTransfer(w) \/ StripeTransfers(w) \/ StripeFails(w)
  \/ Record(w) \/ SettleEnds(w)
  \/ \E d \in Payout : SettleDebt(w, d)

CycleStep(c) ==
  \/ CycleEnds(c)
  \/ \E p \in Payout : CycleHolds(c, p) \/ CycleReschedules(c, p) \/ CycleSkips(c, p) \/ CyclePays(c, p)

\* What happens by itself, each a bounded number of times: dates pass, calls
\* arrive, the organizer's account is verified, the 30-day job unblocks, the
\* admin confirms the transfers the bank has made.
Progress ==
  \/ VerifyAccount \/ HoldArrives \/ RescheduleArrives
  \/ \E p \in Payout : DueComes(p) \/ BlockAges(p) \/ UnblockExpired(p) \/ ConfirmBankTransfer(p)

Continues ==
  \/ Progress \/ EditSave \/ EditFollow \/ NewDay \/ NewDate
  \/ \E o \in Order : CreatePayout(o)
  \/ \E c \in Copy : CronFires(c) \/ CycleStep(c)
  \/ \E w \in Worker : JobStep(w)

Intervention ==
  \/ \E o \in Order :
       \/ OpenDispute(o) \/ ResolveDispute(o, "DECIDED") \/ ResolveDispute(o, "CLOSED")
       \/ \E h \in {1, 2} : RefundReduces(o, h) \/ RefundAdjusts(o, h)
  \/ \E p \in Payout : \/ Block(p) \/ UnblockByAdmin(p) \/ RequestEarly(p) \/ ApproveEarly(p)
                       \/ AdminPays(p) \/ ReleaseBankTransfer(p)
  \/ Postpone \/ AnnouncementLost \/ Crash

Next == Continues \/ Intervention

\* The crons run every day, a handler goes on, and a postponed event gets its
\* date, which the organizer may set at any time but during a cycle.  Nothing
\* else is guaranteed: admins may never intervene.
Fairness ==
  /\ WF_vars(EditSave \/ EditFollow) /\ WF_vars(Progress) /\ SF_vars(NewDate)
  /\ WF_vars(NewDay) /\ WF_vars(\E c \in Copy : CronFires(c))
  /\ \A c \in Copy : WF_vars(CycleStep(c) \/ JobStep(c))
  /\ WF_vars(JobStep(Admin))

Spec == Init /\ [][Next]_vars /\ Fairness

-----------------------------------------------------------------------------
(* Properties *)

Rest == edit = NoEdit /\ \A w \in Worker : job[w].pc \in {"idle", "cycle"}
Total(S) == Sum([p \in S |-> payout[p].net])

\* Whenever no handler is half-way, what left for the organizer is the sum of
\* the completed rows: nothing is paid twice, no debt is deducted twice or
\* given up, whatever the blocks, refusals, cancelled transfers and refunds.
\* After an interrupted handler or a lost answer, a payout may be paid that is
\* not marked so, or a debt deducted that is not settled; it is never more.
BooksBalance ==
  Rest => /\ paid <= Total({p \in Payout : payout[p].status \in {"COMPLETED", "PROCESSING", "FAILED"}
                                          /\ payout[p].net > 0})
          /\ ~interrupted => paid = Total({p \in Payout : payout[p].status = "COMPLETED"})

Sold == {o \in Order : payout[o].status # "NONE"}
Earned(o) == (Share[o] * (2 - refunded[o])) \div 2 - Fees[o]

\* Whenever no handler is half-way, all rows together are worth what the
\* organizer has earned: the shares of what is not refunded, less the fees,
\* whether the refund came before, during or after the payment, and however
\* debts were split.  After a stop or a lost answer they are never worth less.
\* Once an order was refunded a second time nothing is claimed.
RowsAddUp ==
  Rest /\ ~again =>
    LET earned == Sum([o \in Sold |-> Earned(o)])
    IN Total(Payout) >= earned /\ (~interrupted => Total(Payout) = earned)

StartsPaying(p) == payout[p].status = "PENDING" /\ payout'[p].status \in {"PROCESSING", "TO_TRANSFER"}

\* A payout blocked when a dispute of its order was opened does not start being
\* paid before the decision, unless an admin or the 30 days unblock it.
DisputedWaits == [][\A o \in Order : StartsPaying(o) => dispute[o] # "OPEN" \/ o \in freed]_vars

Ends(o) == payout[o].status \in {"COMPLETED", "FAILED"} \/ payout[o].net <= 0

\* A payout is paid in the end, refused by Stripe, or refunded to nothing:
\* blocks, disputes, postponements and cancelled transfers only delay it.
PayoutEnds == \A o \in Order : payout[o].status # "NONE" ~> Ends(o)
=============================================================================
