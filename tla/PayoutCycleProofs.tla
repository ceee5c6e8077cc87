------------------------- MODULE PayoutCycleProofs -------------------------
(***************************************************************************)
(* For any orders, copies of payment-service, amounts and bounds, when no  *)
(* row is overwritten between its reading and its saving and no payout is  *)
(* processed by hand during a cycle (Apart), whatever crashes or gets      *)
(* lost, is refunded twice, blocked, disputed, postponed or cancelled:     *)
(*                                                                         *)
(* - the payout a dispute has blocked does not start being paid            *)
(*   (DisputedAlwaysWaits);                                                *)
(* - rows, workers and interventions are well formed (TypeCorrect), and    *)
(*   all rows together are worth what the organizer earned                 *)
(*   (RowsAlwaysAddUp), if moreover no debt reserved for a transfer is     *)
(*   blocked or reduced and shares cover their fees (Exact);               *)
(* - what left for the organizer is what the rows say                      *)
(*   (BooksAlwaysBalance), if moreover no paid payout is blocked and no    *)
(*   payout below zero is processed (Balances).                            *)
(*                                                                         *)
(* The first is about who has which row: a row to be saved by a handler is *)
(* in no worker's hand, and nor is the payout a dispute has blocked.  The  *)
(* amounts do not matter there, and rows are only known to have their      *)
(* fields (Shaped).                                                        *)
(*                                                                         *)
(* The amounts come next: sums over finite sets, by induction on the sets; *)
(* what each row and copy is worth (Amounts); and what is reserved, owed   *)
(* and paid while a handler is half-way, whether it will save what it has  *)
(* read or stops before it does (Ledger).                                  *)
(***************************************************************************)
EXTENDS PayoutCycle, FiniteSetTheorems, WellFoundedInduction, TLAPS

Fields == {"status", "order", "gross", "net", "offset", "settledBy", "hold", "end", "due", "old", "early"}
Shaped(r) == r = [f \in Fields |-> r[f]]
Paying == {"PROCESSING", "TO_TRANSFER"}

\* r may be the row of payout p.
Is(p, r) == Shaped(r) /\ r.status # "NONE" /\ (p \in Order => r.order = p)

RowOK(p, r) == Shaped(r) /\ IF r.status = "NONE" THEN r.early = "no" ELSE Is(p, r)
RowsOK == payout = [p \in Payout |-> payout[p]] /\ \A p \in Payout : RowOK(p, payout[p])

\* What a handler will save: rows nobody else has in hand, a new one perhaps.
EditFields == {"copies", "follow", "of", "worker"}
CopiesOK ==
  /\ edit = [f \in EditFields |-> edit[f]]
  /\ DOMAIN edit.copies \subseteq Payout
  /\ \A p \in DOMAIN edit.copies :
       /\ Is(p, edit.copies[p]) /\ (payout[p].status # "NONE" \/ p \notin Order) /\ ~InHand(p)
       /\ edit.copies[p].status \in Paying => payout[p].status = edit.copies[p].status

JobFields == {"pc", "todo", "event", "row", "copy", "covered", "debts"}
Working(j) == j.pc \notin {"idle", "cycle"}
JobOK(j) ==
  /\ j = [f \in JobFields |-> j[f]]
  /\ Working(j) =>
       /\ j.row \in Payout /\ Is(j.row, j.copy)
       /\ DOMAIN j.covered \subseteq DOMAIN j.debts /\ DOMAIN j.debts \subseteq Payout
       /\ \A d \in DOMAIN j.debts : Is(d, j.debts[d])
\* One worker at a time: the lock keeps the copies apart, and payouts are not
\* processed by hand meanwhile.
OneWorker ==
  /\ \A v, w \in Worker : job[v].pc # "idle" /\ job[w].pc # "idle" => v = w
  /\ \A c \in Copy : job[c].pc # "idle" => taken
JobsOK == job = [w \in Worker |-> job[w]] /\ (\A w \in Worker : JobOK(job[w])) /\ OneWorker

DisputesOK == dispute = [o \in Order |-> dispute[o]]

\* Rows in hand exist.
HandsOK == \A p \in Payout : InHand(p) => payout[p].status # "NONE"

Base == RowsOK /\ CopiesOK /\ JobsOK /\ DisputesOK /\ HandsOK

-----------------------------------------------------------------------------
(* Rows and jobs *)

\* Writing a column keeps the shape of the row.
LEMMA SetStatus == ASSUME NEW r, Shaped(r), NEW v
  PROVE Shaped([r EXCEPT !.status = v]) /\ [r EXCEPT !.status = v].status = v /\ [r EXCEPT !.status = v].order = r.order /\ [r EXCEPT !.status = v].early = r.early
  BY DEF Shaped, Fields
LEMMA SetHold == ASSUME NEW r, Shaped(r), NEW v
  PROVE Shaped([r EXCEPT !.hold = v]) /\ [r EXCEPT !.hold = v].status = r.status /\ [r EXCEPT !.hold = v].order = r.order /\ [r EXCEPT !.hold = v].early = r.early
  BY DEF Shaped, Fields
LEMMA SetDue == ASSUME NEW r, Shaped(r), NEW v
  PROVE Shaped([r EXCEPT !.due = v]) /\ [r EXCEPT !.due = v].status = r.status /\ [r EXCEPT !.due = v].order = r.order /\ [r EXCEPT !.due = v].early = r.early
  BY DEF Shaped, Fields
LEMMA SetOld == ASSUME NEW r, Shaped(r), NEW v
  PROVE Shaped([r EXCEPT !.old = v]) /\ [r EXCEPT !.old = v].status = r.status /\ [r EXCEPT !.old = v].order = r.order /\ [r EXCEPT !.old = v].early = r.early
  BY DEF Shaped, Fields
LEMMA SetSettledBy == ASSUME NEW r, Shaped(r), NEW v
  PROVE Shaped([r EXCEPT !.settledBy = v]) /\ [r EXCEPT !.settledBy = v].status = r.status /\ [r EXCEPT !.settledBy = v].order = r.order /\ [r EXCEPT !.settledBy = v].early = r.early
  BY DEF Shaped, Fields

LEMMA NoRowOK == Shaped(NoRow) /\ NoRow.status = "NONE" /\ NoRow.early = "no"
  BY DEF Shaped, Fields, NoRow

LEMMA EmptyDomain == DOMAIN Empty = {} /\ NoEdit.copies = Empty
  BY DEF Empty, NoEdit

LEMMA NoEditOK ==
  /\ NoEdit = [f \in EditFields |-> NoEdit[f]]
  /\ DOMAIN NoEdit.copies = {} /\ NoEdit.follow = "none"
  BY EmptyDomain DEF NoEdit, EditFields

LEMMA NoJobOK == JobOK(NoJob) /\ NoJob.pc = "idle"
<1>1. NoJob = [f \in JobFields |-> NoJob[f]] /\ NoJob.pc = "idle"
  BY DEF NoJob, JobFields
<1> QED
  BY <1>1 DEF JobOK, Working

LEMMA BaseInit == Init => Base
<1> SUFFICES ASSUME Init PROVE Base
  OBVIOUS
<1>1. RowsOK
  BY NoRowOK DEF Init, RowsOK, RowOK
<1>2. CopiesOK
  BY NoEditOK DEF Init, CopiesOK
<1>3. JobsOK /\ DisputesOK /\ HandsOK
  BY NoJobOK DEF Init, JobsOK, DisputesOK, HandsOK, InHand, OneWorker, Worker
<1> QED
  BY <1>1, <1>2, <1>3 DEF Base

\* The job of one worker changes.
LEMMA OneJob ==
  ASSUME JobsOK, NEW w \in Worker, NEW j, JobOK(j), job' = [job EXCEPT ![w] = j], taken' = taken,
         j.pc # "idle" => job[w].pc # "idle",
         Working(j) => Working(job[w]) /\ j.row = job[w].row /\ j.debts = job[w].debts
  PROVE  JobsOK' /\ \A p : InHand(p)' => InHand(p)
<1>1. job'[w] = j /\ (\A v \in Worker \ {w} : job'[v] = job[v]) /\ job' = [v \in Worker |-> job'[v]]
  BY DEF JobsOK
<1>2. JobsOK'
  <2>1. \A v \in Worker : job'[v].pc # "idle" => job[v].pc # "idle"
    BY <1>1
  <2>2. OneWorker'
    BY <2>1 DEF JobsOK, OneWorker, Worker
  <2> QED
    BY <1>1, <2>2 DEF JobsOK
<1>3. ASSUME NEW p, InHand(p)' PROVE InHand(p)
  <2>1. PICK v \in Worker : Working(job'[v]) /\ p \in {job'[v].row} \cup DOMAIN job'[v].debts
    BY <1>3 DEF InHand, Working
  <2>2. Working(job[v]) /\ p \in {job[v].row} \cup DOMAIN job[v].debts
    BY <1>1, <2>1
  <2> QED
    BY <2>2 DEF InHand, Working
<1> QED
  BY <1>2, <1>3

LEMMA SameJobs ==
  ASSUME Base, job' = job, taken' = taken
  PROVE  JobsOK' /\ \A p : InHand(p)' => InHand(p)
  BY DEF Base, JobsOK, OneWorker, InHand

-----------------------------------------------------------------------------
(* The six kinds of steps *)

\* Rows are written in one go, those in hand by their workers; others keep their
\* status, or are settled, or are new.
RowsMove ==
  /\ payout' = [p \in Payout |-> payout'[p]]
  /\ \A p \in Payout :
       /\ RowOK(p, payout'[p]) /\ (payout[p].status # "NONE" => payout'[p].status # "NONE")
       /\ \/ payout'[p].status = payout[p].status
          \/ InHand(p)
          \/ payout[p].status = "NONE"
          \/ payout[p].status = "PENDING" /\ payout'[p].status = "COMPLETED"
  /\ JobsOK' /\ \A p : InHand(p)' => InHand(p)
  /\ edit' = edit \/ (DOMAIN edit.copies = {} /\ edit' = NoEdit)
  /\ UNCHANGED <<dispute, freed>>

Disputed(o) == dispute[o] = "OPEN" /\ o \notin freed

\* A handler reads rows, each of which keeps its status, or is blocked, settled,
\* or pending again; the payout of an order in dispute stays blocked.
ReadsMove ==
  /\ edit = NoEdit /\ payout' = payout /\ DisputesOK'
  /\ JobsOK' /\ \A p : InHand(p)' => InHand(p)
  /\ edit' = [f \in EditFields |-> edit'[f]] /\ DOMAIN edit'.copies \subseteq Payout
  /\ \A p \in DOMAIN edit'.copies :
       /\ Is(p, edit'.copies[p]) /\ payout[p].status # "NONE" /\ ~InHand(p)
       /\ edit'.copies[p].status \in {payout[p].status, "BLOCKED", "COMPLETED", "PENDING"}
  /\ \A o \in Order : Disputed(o)' =>
       /\ Disputed(o) \/ (~InHand(o) /\ (payout[o].status = "BLOCKED" \/ o \in DOMAIN edit'.copies))
       /\ o \in DOMAIN edit'.copies =>
            edit'.copies[o].status = "BLOCKED" \/ (Disputed(o) /\ payout[o].status # "BLOCKED")

\* A worker takes pending rows in hand.
TakesMove ==
  /\ edit = NoEdit /\ UNCHANGED <<payout, edit, dispute, freed>>
  /\ JobsOK' /\ \A p : InHand(p)' => InHand(p) \/ payout[p].status = "PENDING"

\* A worker saves what is left of a debt and will insert the row of its other part.
SplitMove ==
  /\ edit = NoEdit /\ UNCHANGED <<dispute, freed>>
  /\ JobsOK' /\ \A p : InHand(p)' => InHand(p)
  /\ \E d \in Payout : \E r : InHand(d) /\ Is(d, r) /\ payout' = [payout EXCEPT ![d] = r]
  /\ edit' = [f \in EditFields |-> edit'[f]]
  /\ \E n \in Payout \ Order : \E r :
       /\ payout[n].status = "NONE" /\ Is(n, r) /\ r.status \notin Paying
       /\ edit'.copies = [q \in {n} |-> r]

\* What was read is never saved.
DropMove ==
  /\ Forgets /\ UNCHANGED <<payout, dispute>>
  /\ JobsOK' /\ \A p : InHand(p)' => InHand(p)

Move == RowsMove \/ ReadsMove \/ TakesMove \/ EditSave \/ SplitMove \/ DropMove

LEMMA BaseStep == ASSUME Base, Move PROVE Base'
<1>0. DisputesOK'
  BY DEF Move, RowsMove, ReadsMove, TakesMove, EditSave, SplitMove, DropMove, Base, DisputesOK
<1> USE <1>0
<1>1. CASE RowsMove
  <2>1. RowsOK' /\ JobsOK' /\ HandsOK'
    BY <1>1 DEF RowsMove, RowsOK, Base, HandsOK
  <2>2. CASE edit' = NoEdit
    BY <2>1, <2>2, NoEditOK DEF Base, CopiesOK
  <2>3. CASE edit' = edit
    <3>1. ASSUME NEW p \in DOMAIN edit.copies
          PROVE  /\ (payout'[p].status # "NONE" \/ p \notin Order) /\ ~InHand(p)'
                 /\ edit.copies[p].status \in Paying => payout'[p].status = edit.copies[p].status
      BY <1>1, <3>1 DEF RowsMove, Base, CopiesOK, Paying
    <3> QED
      BY <2>1, <2>3, <3>1 DEF Base, CopiesOK
  <2> QED
    BY <1>1, <2>2, <2>3 DEF RowsMove
<1>2. CASE ReadsMove
  <2>1. RowsOK' /\ JobsOK' /\ HandsOK'
    BY <1>2 DEF ReadsMove, Base, RowsOK, HandsOK
  <2>2. ASSUME NEW p \in DOMAIN edit'.copies
        PROVE  /\ Is(p, edit'.copies[p]) /\ payout'[p].status # "NONE" /\ ~InHand(p)'
               /\ edit'.copies[p].status \in Paying => payout'[p].status = edit'.copies[p].status
    BY <1>2, <2>2 DEF ReadsMove, Paying
  <2> QED
    BY <1>2, <2>1, <2>2 DEF ReadsMove, Base, CopiesOK
<1>3. CASE TakesMove
  <2>1. HandsOK'
    BY <1>3 DEF TakesMove, Base, HandsOK
  <2> QED
    BY <1>3, <2>1, NoEditOK DEF TakesMove, Base, RowsOK, CopiesOK
<1>4. CASE EditSave
  <2>1. JobsOK' /\ \A q : InHand(q)' => InHand(q)
    BY <1>4, SameJobs DEF EditSave
  <2>2. RowsOK' /\ HandsOK'
    BY <1>4, <2>1 DEF EditSave, Base, RowsOK, RowOK, CopiesOK, HandsOK, Is
  <2>3. edit' = [f \in EditFields |-> edit'[f]] /\ DOMAIN edit'.copies = {}
    <3>1. CASE edit' = NoEdit
      BY <3>1, NoEditOK
    <3>2. CASE edit' = [edit EXCEPT !.copies = Empty]
      BY <3>2, EmptyDomain DEF Base, CopiesOK, EditFields
    <3> QED
      BY <1>4, <3>1, <3>2 DEF EditSave
  <2> QED
    BY <2>1, <2>2, <2>3 DEF Base, CopiesOK
<1>5. CASE SplitMove
  <2>1. PICK d \in Payout : \E r : InHand(d) /\ Is(d, r) /\ payout' = [payout EXCEPT ![d] = r]
    BY <1>5 DEF SplitMove
  <2>2. PICK n \in Payout \ Order :
          \E s : /\ payout[n].status = "NONE" /\ Is(n, s) /\ s.status \notin Paying
                 /\ edit'.copies = [q \in {n} |-> s]
    BY <1>5 DEF SplitMove
  <2>3. RowsOK' /\ HandsOK' /\ JobsOK'
    BY <1>5, <2>1 DEF SplitMove, Base, RowsOK, RowOK, HandsOK, Is
  <2>4. ~InHand(n)'
    BY <1>5, <2>2 DEF SplitMove, Base, HandsOK
  <2>5. CopiesOK'
    BY <1>5, <2>2, <2>4 DEF SplitMove, CopiesOK
  <2> QED
    BY <2>3, <2>5 DEF Base
<1>6. CASE DropMove
  <2>1. RowsOK' /\ HandsOK' /\ JobsOK'
    BY <1>6 DEF DropMove, Base, RowsOK, HandsOK
  <2> QED
    BY <1>6, <2>1, NoEditOK DEF DropMove, Forgets, Base, CopiesOK
<1> QED
  BY <1>1, <1>2, <1>3, <1>4, <1>5, <1>6 DEF Move

\* A payout starts being paid in a worker's hand.
LEMMA StartsInHand ==
  ASSUME Base, Move, NEW p \in Payout, StartsPaying(p)
  PROVE  InHand(p)
<1>1. CASE RowsMove
  BY <1>1 DEF RowsMove, StartsPaying
<1>2. CASE ReadsMove \/ TakesMove
  BY <1>2 DEF ReadsMove, TakesMove, StartsPaying
<1>3. CASE EditSave
  BY <1>3 DEF EditSave, StartsPaying, Base, CopiesOK, Paying, RowsOK
<1>4. CASE SplitMove \/ DropMove
  BY <1>4 DEF SplitMove, DropMove, StartsPaying, Base, RowsOK
<1> QED
  BY <1>1, <1>2, <1>3, <1>4 DEF Move
-----------------------------------------------------------------------------
(* Every step is of one of these kinds *)

Apart == "stale" \notin Overlaps /\ "manual" \notin Overlaps

\* Nothing that matters here changes.
LEMMA Still ==
  ASSUME Base, UNCHANGED <<payout, edit, job, taken, dispute, freed>>
  PROVE  RowsMove
  BY SameJobs DEF RowsMove, Base, RowsOK

\* Nothing is being saved, so a handler or the cycle may go on.
LEMMA Alone ==
  ASSUME Apart, Settled
  PROVE  edit = NoEdit
  BY DEF Apart, Settled

LEMMA AloneRow ==
  ASSUME Apart, NEW p, Undisturbed(p)
  PROVE  edit = NoEdit /\ ~InHand(p)
  BY DEF Apart, Undisturbed, Settled

\* Columns other than the status and the order are written.
LEMMA OnlyColumns ==
  ASSUME Base, UNCHANGED <<edit, job, taken, dispute, freed>> \/ (DOMAIN edit.copies = {} /\ edit' = NoEdit /\ UNCHANGED <<job, taken, dispute, freed>>),
         payout' = [p \in Payout |-> payout'[p]],
         \A p \in Payout : /\ Shaped(payout'[p]) /\ payout'[p].order = payout[p].order /\ payout'[p].early = payout[p].early
                           /\ \/ payout'[p].status = payout[p].status
                              \/ payout[p].status = "PENDING" /\ payout'[p].status = "COMPLETED"
  PROVE  RowsMove
<1>1. \A p \in Payout : /\ RowOK(p, payout'[p])
                        /\ payout[p].status # "NONE" => payout'[p].status # "NONE"
  BY DEF Base, RowsOK, RowOK, Is
<1>2. JobsOK' /\ \A p : InHand(p)' => InHand(p)
  BY SameJobs
<1>3. (edit' = edit \/ (DOMAIN edit.copies = {} /\ edit' = NoEdit)) /\ UNCHANGED <<dispute, freed>>
  OBVIOUS
<1>4. \A p \in Payout : \/ payout'[p].status = payout[p].status
                        \/ payout[p].status = "PENDING" /\ payout'[p].status = "COMPLETED"
  OBVIOUS
<1> QED
  BY <1>1, <1>2, <1>3, <1>4 DEF RowsMove

LEMMA ColumnSteps ==
  ASSUME Base, NEW p \in Payout, DueComes(p) \/ BlockAges(p)
  PROVE  RowsMove
<1> DEFINE r == payout'[p]
<1>1. payout = [q \in Payout |-> payout[q]] /\ \A q \in Payout : Shaped(payout[q])
  BY DEF Base, RowsOK, RowOK
<1>2. /\ r \in {[payout[p] EXCEPT !.due = TRUE], [payout[p] EXCEPT !.old = TRUE]}
      /\ payout' = [q \in Payout |-> payout'[q]]
      /\ \A q \in Payout \ {p} : payout'[q] = payout[q]
      /\ UNCHANGED <<edit, job, taken, dispute, freed>>
  BY <1>1 DEF DueComes, BlockAges
<1>3. Shaped(r) /\ r.status = payout[p].status /\ r.order = payout[p].order /\ r.early = payout[p].early
  <2>1. Shaped(payout[p])
    BY <1>1
  <2>2. CASE r = [payout[p] EXCEPT !.due = TRUE]
    BY <2>1, <2>2, SetDue
  <2>3. CASE r = [payout[p] EXCEPT !.old = TRUE]
    BY <2>1, <2>3, SetOld
  <2> QED
    BY <1>2, <2>2, <2>3
<1> HIDE DEF r
<1>4. \A q \in Payout : /\ Shaped(payout'[q]) /\ payout'[q].order = payout[q].order /\ payout'[q].early = payout[q].early
                        /\ payout'[q].status = payout[q].status
  BY <1>1, <1>2, <1>3 DEF r
<1> QED
  BY <1>2, <1>4, OnlyColumns

\* holdForEvent.
LEMMA HeldOK ==
  ASSUME Base, NEW p \in Payout
  PROVE  /\ Shaped(Held[p]) /\ Held[p].status = payout[p].status
         /\ Held[p].order = payout[p].order /\ Held[p].early = payout[p].early
<1>2. Shaped(payout[p])
  BY DEF Base, RowsOK, RowOK
<1> QED
  BY <1>2, SetHold DEF Held

LEMMA FollowStep ==
  ASSUME Base, EditFollow
  PROVE  RowsMove
<1>2. \A q \in Payout : Shaped(payout[q])
  BY DEF Base, RowsOK, RowOK
<1>3. payout' = [q \in Payout |-> payout'[q]] /\ DOMAIN edit.copies = {} /\ edit' = NoEdit
      /\ UNCHANGED <<job, taken, dispute, freed>>
  BY DEF EditFollow
<1>4. ASSUME NEW q \in Payout
      PROVE  /\ Shaped(payout'[q]) /\ payout'[q].order = payout[q].order /\ payout'[q].early = payout[q].early
             /\ \/ payout'[q].status = payout[q].status
                \/ payout[q].status = "PENDING" /\ payout'[q].status = "COMPLETED"
  <2>1. \/ Reserved(q) /\ payout'[q] = [payout[q] EXCEPT !.status = "COMPLETED"]
        \/ payout'[q] = [payout[q] EXCEPT !.settledBy = Nobody]
        \/ payout'[q] = [payout[q] EXCEPT !.hold = FALSE]
        \/ payout'[q] = payout[q]
    BY DEF EditFollow
  <2> DEFINE r == payout'[q]
  <2>2. Shaped(payout[q])
    BY <1>2
  <2>3. CASE Reserved(q) /\ r = [payout[q] EXCEPT !.status = "COMPLETED"]
    BY <2>2, <2>3, SetStatus DEF Reserved
  <2>4. CASE r = [payout[q] EXCEPT !.settledBy = Nobody]
    BY <2>2, <2>4, SetSettledBy
  <2>5. CASE r = [payout[q] EXCEPT !.hold = FALSE]
    BY <2>2, <2>5, SetHold
  <2> QED
    BY <1>2, <2>1, <2>2, <2>3, <2>4, <2>5
<1> QED
  BY <1>3, <1>4, OnlyColumns

\* New rows.
LEMMA NewRows ==
  ASSUME Base, Apart, NEW o \in Order, CreatePayout(o) \/ \E h \in {1, 2} : RefundAdjusts(o, h)
  PROVE  RowsMove
<1>1. payout = [q \in Payout |-> payout[q]] /\ \A q \in Payout : RowOK(q, payout[q])
  BY DEF Base, RowsOK
<1>2. JobsOK' /\ (\A p : InHand(p)' => InHand(p)) /\ UNCHANGED <<edit, dispute, freed>>
  BY SameJobs DEF CreatePayout, RefundAdjusts, NotMoved
<1>3. CASE CreatePayout(o)
  <2>1. PICK e : payout' = [payout EXCEPT ![o] = [NoRow EXCEPT !.status = "PENDING", !.order = o, !.gross = Share[o],
                                                     !.net = Share[o] - Fees[o], !.end = e]]
    BY <1>3 DEF CreatePayout
  <2> DEFINE r == [NoRow EXCEPT !.status = "PENDING", !.order = o, !.gross = Share[o],
                                !.net = Share[o] - Fees[o], !.end = e]
  <2>2. Is(o, r)
    BY DEF Is, Shaped, Fields, NoRow
  <2>3. payout' = [payout EXCEPT ![o] = r] /\ o \in Payout /\ payout[o].status = "NONE"
    BY <1>3, <2>1 DEF CreatePayout, Payout
  <2> HIDE DEF r
  <2> QED
    BY <1>1, <1>2, <2>2, <2>3 DEF RowsMove, RowOK, Is
<1>4. ASSUME NEW h \in {1, 2}, RefundAdjusts(o, h) PROVE RowsMove
  <2>1. PICK back : payout' = [payout EXCEPT ![NewRow] = [NoRow EXCEPT !.status = "PENDING", !.order = o, !.gross = back,
                                                           !.net = back, !.due = TRUE]]
    BY <1>4 DEF RefundAdjusts
  <2> DEFINE r == [NoRow EXCEPT !.status = "PENDING", !.order = o, !.gross = back, !.net = back, !.due = TRUE]
  <2>2. Shaped(r) /\ r.status = "PENDING" /\ r.order = o
    BY DEF Shaped, Fields, NoRow
  <2>3. NewRow \in Payout \ Order /\ payout[NewRow].status = "NONE"
    BY <1>4 DEF RefundAdjusts, NewRow, Free, Used
  <2>4. payout' = [payout EXCEPT ![NewRow] = r]
    BY <2>1
  <2> HIDE DEF r
  <2> QED
    BY <1>1, <1>2, <2>2, <2>3, <2>4 DEF RowsMove, RowOK, Is
<1> QED
  BY <1>3, <1>4
-----------------------------------------------------------------------------
(* Reading *)

\* One row is read, or none.
Reads(p, r) ==
  /\ Undisturbed(p) /\ UNCHANGED <<payout, job, taken>> /\ DisputesOK'
  /\ \/ \E f, o : ReadsRows([q \in {p} |-> r], f, o, Nobody)
     \/ edit' = edit

\* What the dispute of an order becomes while the row of p is read.
KeepsDisputes(p, r) ==
  \A o \in Order : Disputed(o)' =>
    /\ Disputed(o) \/ (~InHand(o) /\ (payout[o].status = "BLOCKED" \/ (o = p /\ DOMAIN edit'.copies = {p})))
    /\ o = p /\ DOMAIN edit'.copies # {} => r.status = "BLOCKED" \/ (Disputed(o) /\ payout[o].status # "BLOCKED")

LEMMA ReadsOK ==
  ASSUME Base, Apart, NEW p \in Payout, payout[p].status # "NONE", NEW r, Is(p, r), Reads(p, r),
         r.status \in {payout[p].status, "BLOCKED", "COMPLETED", "PENDING"},
         KeepsDisputes(p, r)
  PROVE  ReadsMove
<1>1. edit = NoEdit /\ ~InHand(p)
  BY AloneRow DEF Reads
<1>2. JobsOK' /\ \A q : InHand(q)' => InHand(q)
  BY SameJobs DEF Reads
<1>3. /\ edit' = [f \in EditFields |-> edit'[f]]
      /\ DOMAIN edit'.copies \subseteq {p} /\ \A q \in DOMAIN edit'.copies : edit'.copies[q] = r
  <2>1. CASE edit' = edit
    BY <1>1, <2>1, NoEditOK
  <2>2. ASSUME NEW f, NEW o, ReadsRows([q \in {p} |-> r], f, o, Nobody)
        PROVE  /\ edit' = [g \in EditFields |-> edit'[g]]
               /\ edit'.copies = [q \in {p} |-> r]
    BY <2>2 DEF ReadsRows, EditFields
  <2> QED
    BY <2>1, <2>2 DEF Reads
<1>4. \A o \in DOMAIN edit'.copies : o = p /\ edit'.copies[o] = r
  BY <1>3
<1>5. ASSUME NEW o \in Order, Disputed(o)'
      PROVE  /\ Disputed(o) \/ (~InHand(o) /\ (payout[o].status = "BLOCKED" \/ o \in DOMAIN edit'.copies))
             /\ o \in DOMAIN edit'.copies =>
                  edit'.copies[o].status = "BLOCKED" \/ (Disputed(o) /\ payout[o].status # "BLOCKED")
  BY <1>1, <1>4, <1>5 DEF KeepsDisputes
<1> QED
  BY <1>1, <1>2, <1>3, <1>4, <1>5 DEF ReadsMove, Reads

LEMMA OrderOf ==
  ASSUME Base, NEW p \in Payout
  PROVE  /\ Shaped(payout[p])
         /\ payout[p].status # "NONE" => Is(p, payout[p])
         /\ p \in Order /\ payout[p].status # "NONE" => payout[p].order = p
  BY DEF Base, RowsOK, RowOK, Is

\* The rows as handlers rewrite them.
LEMMA SetEarly == ASSUME NEW r, Shaped(r), NEW u
  PROVE Shaped([r EXCEPT !.early = u]) /\ [r EXCEPT !.early = u].status = r.status /\ [r EXCEPT !.early = u].order = r.order
  BY DEF Shaped, Fields

\* A row keeps its status.
LEMMA KeepsStatus ==
  ASSUME Base, Apart, NEW p \in Payout, payout[p].status # "NONE", NEW r,
         Shaped(r), r.status = payout[p].status, r.order = payout[p].order,
         Reads(p, r), UNCHANGED <<dispute, freed>>
  PROVE  ReadsMove
<1>1. Is(p, r)
  BY OrderOf DEF Is
<1>2. KeepsDisputes(p, r)
  BY DEF KeepsDisputes, Disputed
<1> QED
  BY <1>1, <1>2, ReadsOK

LEMMA RefundReads ==
  ASSUME Base, Apart, NEW o \in Order, NEW h \in {1, 2}, RefundReduces(o, h)
  PROVE  ReadsMove
<1>1. PICK p \in RowsOf(o) :
        /\ payout[p].status \in {"PENDING", "BLOCKED"} /\ Undisturbed(p)
        /\ \E u, v : ReadsRow(p, [payout[p] EXCEPT !.gross = u, !.net = v])
  BY DEF RefundReduces
<1>2. p \in Payout /\ UNCHANGED <<payout, job, taken, dispute, freed>> /\ DisputesOK'
  BY DEF RowsOf, Used, RefundReduces, NotMoved, Base, DisputesOK
<1>3. PICK u, v : ReadsRow(p, [payout[p] EXCEPT !.gross = u, !.net = v])
  BY <1>1
<1> DEFINE r == [payout[p] EXCEPT !.gross = u, !.net = v]
<1>4. Shaped(r) /\ r.status = payout[p].status /\ r.order = payout[p].order
  <2>1. Shaped(payout[p])
    BY <1>2, OrderOf
  <2> QED
    BY <2>1 DEF Shaped, Fields
<1>5. ReadsRow(p, r)
  BY <1>3
<1> HIDE DEF r
<1> QED
  BY <1>1, <1>2, <1>4, <1>5, KeepsStatus DEF Reads, ReadsRow

LEMMA EarlyReads ==
  ASSUME Base, Apart, NEW p \in Payout, RequestEarly(p) \/ ApproveEarly(p)
  PROVE  ReadsMove
<1>1. /\ Undisturbed(p) /\ UNCHANGED <<payout, job, taken, dispute, freed>> /\ DisputesOK'
      /\ payout[p].status # "NONE"
  BY DEF RequestEarly, ApproveEarly, NotMoved, Base, DisputesOK, RowsOK, RowOK
<1>2. PICK r : /\ r \in {[payout[p] EXCEPT !.early = "asked"], [payout[p] EXCEPT !.early = "approved", !.due = TRUE]}
               /\ ReadsRow(p, r)
  BY DEF RequestEarly, ApproveEarly
<1>3. Shaped(r) /\ r.status = payout[p].status /\ r.order = payout[p].order
  <2>1. Shaped(payout[p])
    BY OrderOf
  <2>2. CASE r = [payout[p] EXCEPT !.early = "asked"]
    BY <2>1, <2>2, SetEarly
  <2>3. CASE r = [payout[p] EXCEPT !.early = "approved", !.due = TRUE]
    BY <2>1, <2>3 DEF Shaped, Fields
  <2> QED
    BY <1>2, <2>2, <2>3
<1> QED
  BY <1>1, <1>2, <1>3, KeepsStatus DEF Reads, ReadsRow

\* Blocked and unblocked rows are rows of the same payout.
LEMMA BlockedOK ==
  ASSUME Base, NEW p \in Payout, payout[p].status # "NONE"
  PROVE  /\ Is(p, Blocked(p)) /\ Blocked(p).status = "BLOCKED"
         /\ Is(p, Unblocked(p)) /\ Unblocked(p).status = "PENDING"
<1>1. Is(p, payout[p])
  BY OrderOf
<1>2. Is(p, Blocked(p)) /\ Blocked(p).status = "BLOCKED"
  <2>1. Shaped(payout[p]) /\ (p \in Order => payout[p].order = p)
    BY <1>1 DEF Is
  <2>2. Shaped(Blocked(p)) /\ Blocked(p).status = "BLOCKED" /\ Blocked(p).order = payout[p].order
    BY <2>1 DEF Shaped, Fields, Blocked
  <2> QED
    BY <2>1, <2>2 DEF Is
<1>3. Is(p, Unblocked(p)) /\ Unblocked(p).status = "PENDING"
  BY <1>1, SetStatus DEF Is, Unblocked
<1> QED
  BY <1>2, <1>3

LEMMA BlockReads ==
  ASSUME Base, Apart, NEW p \in Payout, Block(p) \/ UnblockByAdmin(p) \/ UnblockExpired(p)
  PROVE  ReadsMove
<1>1. payout[p].status # "NONE" /\ DisputesOK'
  BY DEF Block, UnblockByAdmin, UnblockExpired, Unblock, Used, Base, DisputesOK
<1>2. CASE Block(p)
  <2>1. Reads(p, Blocked(p)) /\ UNCHANGED <<dispute, freed>>
    BY <1>1, <1>2 DEF Block, Reads, ReadsRow, NotMoved
  <2>2. KeepsDisputes(p, Blocked(p))
    BY <1>1, <2>1, BlockedOK DEF KeepsDisputes, Disputed
  <2> QED
    BY <1>1, <2>1, <2>2, BlockedOK, ReadsOK
<1>3. CASE Unblock(p)
  <2>1. Reads(p, Unblocked(p)) /\ dispute' = dispute /\ freed' = freed \cup (Order \cap {p})
    BY <1>1, <1>3 DEF Unblock, Reads, ReadsRow, NotMoved
  <2>2. KeepsDisputes(p, Unblocked(p))
    BY <1>1, <2>1 DEF KeepsDisputes, Disputed
  <2> QED
    BY <1>1, <2>1, <2>2, BlockedOK, ReadsOK
<1> QED
  BY <1>2, <1>3 DEF UnblockByAdmin, UnblockExpired

LEMMA DisputeReads ==
  ASSUME Base, Apart, NEW o \in Order,
         OpenDispute(o) \/ ResolveDispute(o, "DECIDED") \/ ResolveDispute(o, "CLOSED")
  PROVE  ReadsMove
<1>1. DisputesOK' /\ UNCHANGED <<payout, job, taken>> /\ o \in Payout
  BY DEF OpenDispute, ResolveDispute, Base, DisputesOK, NotMoved, Payout
<1>2. CASE OpenDispute(o)
  <2>1. /\ payout[o].status # "NONE" /\ ~InHand(o)
        /\ \A q \in Order \ {o} : dispute'[q] = dispute[q]
    BY <1>1, <1>2, AloneRow DEF OpenDispute, Base, DisputesOK
  <2>2. PICK p \in RowsOf(o) :
          /\ Undisturbed(p)
          /\ \/ payout[p].status = "PENDING" /\ ReadsRow(p, Blocked(p))
             \/ payout[p].status # "PENDING" /\ UNCHANGED edit
          /\ freed' = IF payout[o].status = "BLOCKED" \/ (p = o /\ payout[p].status = "PENDING") THEN freed \ {o}
                      ELSE freed \cup {o}
    BY <1>2 DEF OpenDispute
  <2>3. p \in Payout /\ payout[p].status # "NONE" /\ edit = NoEdit /\ (p \in Order => p = o)
    BY <2>2, AloneRow, OrderOf DEF RowsOf, Used
  <2>4. Reads(p, Blocked(p))
    BY <1>1, <2>2 DEF Reads, ReadsRow
  <2>5. /\ payout[p].status = "PENDING" => DOMAIN edit'.copies = {p}
        /\ payout[p].status # "PENDING" => DOMAIN edit'.copies = {}
    BY <2>2, <2>3, NoEditOK DEF ReadsRow, ReadsRows
  <2>6. ASSUME NEW q \in Order, Disputed(q)', q # o PROVE Disputed(q) /\ q # p
    BY <2>1, <2>2, <2>3, <2>6 DEF Disputed
  <2>7. Disputed(o)' => payout[o].status = "BLOCKED" \/ (p = o /\ payout[p].status = "PENDING")
    BY <2>2 DEF Disputed
  <2>8. Blocked(p).status = "BLOCKED"
    BY <2>3, BlockedOK
  <2>9. KeepsDisputes(p, Blocked(p))
    BY <2>1, <2>5, <2>6, <2>7, <2>8 DEF KeepsDisputes
  <2> QED
    BY <2>3, <2>4, <2>9, BlockedOK, ReadsOK
<1>3. ASSUME NEW verdict \in {"DECIDED", "CLOSED"}, ResolveDispute(o, verdict) PROVE ReadsMove
  <2>1. /\ freed' = freed /\ dispute'[o] # "OPEN"
        /\ \A q \in Order \ {o} : dispute'[q] = dispute[q]
    BY <1>3 DEF ResolveDispute, Base, DisputesOK
  <2>2. PICK p \in RowsOf(o) :
          /\ Undisturbed(p)
          /\ IF payout[p].status = "BLOCKED" THEN ReadsRow(p, Unblocked(p)) ELSE UNCHANGED edit
    BY <1>3 DEF ResolveDispute
  <2>3. p \in Payout /\ (p \in Order => p = o)
    BY <2>2, OrderOf DEF RowsOf, Used
  <2>4. KeepsDisputes(p, Unblocked(p))
    BY <2>1, <2>3 DEF KeepsDisputes, Disputed
  <2>5. CASE payout[p].status = "BLOCKED"
    <3>1. Reads(p, Unblocked(p))
      BY <1>1, <2>2, <2>5 DEF Reads, ReadsRow
    <3> QED
      BY <2>3, <2>4, <2>5, <3>1, BlockedOK, ReadsOK
  <2>6. CASE payout[p].status # "BLOCKED"
    <3>1. edit = NoEdit /\ edit' = NoEdit
      BY <2>2, <2>6, AloneRow
    <3>2. \A q \in Order : Disputed(q)' => Disputed(q)
      BY <2>1 DEF Disputed
    <3> QED
      BY <1>1, <3>1, <3>2, NoEditOK, SameJobs DEF ReadsMove
  <2> QED
    BY <2>5, <2>6
<1> QED
  BY <1>2, <1>3

LEMMA TransferReads ==
  ASSUME Base, Apart, NEW p \in Payout, ConfirmBankTransfer(p) \/ ReleaseBankTransfer(p)
  PROVE  ReadsMove
<1>1. /\ payout[p].status = "TO_TRANSFER" /\ DisputesOK' /\ Is(p, payout[p])
      /\ UNCHANGED <<dispute, freed>>
  BY OrderOf DEF ConfirmBankTransfer, ReleaseBankTransfer, Base, DisputesOK
<1>2. CASE ConfirmBankTransfer(p)
  <2> DEFINE r == [payout[p] EXCEPT !.status = "COMPLETED"]
  <2>1. Is(p, r) /\ r.status = "COMPLETED"
    BY <1>1, SetStatus DEF Is
  <2> HIDE DEF r
  <2>2. Reads(p, r)
    BY <1>1, <1>2 DEF ConfirmBankTransfer, Reads, r
  <2>3. KeepsDisputes(p, r)
    BY <1>1, <2>1 DEF KeepsDisputes, Disputed
  <2> QED
    BY <1>1, <2>1, <2>2, <2>3, ReadsOK
<1>3. CASE ReleaseBankTransfer(p)
  <2> DEFINE r == [payout[p] EXCEPT !.status = "PENDING", !.offset = 0]
  <2>1. Is(p, r) /\ r.status = "PENDING"
    <3>1. Shaped(payout[p]) /\ (p \in Order => payout[p].order = p)
      BY <1>1 DEF Is
    <3>2. Shaped(r) /\ r.status = "PENDING" /\ r.order = payout[p].order
      BY <3>1 DEF Shaped, Fields
    <3> QED
      BY <3>1, <3>2 DEF Is
  <2> HIDE DEF r
  <2>2. Reads(p, r)
    BY <1>1, <1>3 DEF ReleaseBankTransfer, NotMoved, Reads, r
  <2>3. KeepsDisputes(p, r)
    BY <1>1, <2>1 DEF KeepsDisputes, Disputed
  <2> QED
    BY <1>1, <2>1, <2>2, <2>3, ReadsOK
<1> QED
  BY <1>2, <1>3
-----------------------------------------------------------------------------
(* The cycle *)

\* While a copy goes through its list, no row is in hand.
LEMMA NothingInHand ==
  ASSUME Base, NEW c \in Copy, job[c].pc = "cycle"
  PROVE  \A p : ~InHand(p)
<1>1. c \in Worker /\ \A w \in Worker : job[w].pc # "idle" => w = c
  BY DEF Base, JobsOK, OneWorker, Worker
<1> QED
  BY <1>1 DEF InHand

\* rescheduleForEvent: every unpaid row is read.
LEMMA RescheduleReads ==
  ASSUME Base, Apart, edit = NoEdit, NEW end, NEW w, Reschedules(end, w),
         \A p \in Payout : ~InHand(p),
         JobsOK', \A p : InHand(p)' => InHand(p), UNCHANGED <<payout, dispute, freed>>
  PROVE  ReadsMove
<1> DEFINE targets == {p \in Payout : Unpaid(p) /\ payout[p].net > 0}
           new(p) == [payout[p] EXCEPT !.end = end, !.due = FALSE, !.hold = FALSE, !.early = "no"]
<1>1. edit' = [copies |-> [p \in targets |-> new(p)], follow |-> "unhold", of |-> Nobody, worker |-> w]
  BY DEF Reschedules, ReadsRows
<1>2. ASSUME NEW p \in targets
      PROVE  Is(p, new(p)) /\ new(p).status = payout[p].status /\ payout[p].status # "NONE"
  <2>1. p \in Payout /\ payout[p].status # "NONE" /\ Is(p, payout[p])
    BY OrderOf DEF Unpaid
  <2>2. Shaped(payout[p]) /\ (p \in Order => payout[p].order = p)
    BY <2>1 DEF Is
  <2>3. Shaped(new(p)) /\ new(p).status = payout[p].status /\ new(p).order = payout[p].order
    BY <2>2 DEF Shaped, Fields
  <2> QED
    BY <2>1, <2>2, <2>3 DEF Is
<1> HIDE DEF new
<1>3. /\ edit' = [f \in EditFields |-> edit'[f]] /\ DOMAIN edit'.copies = targets
      /\ \A p \in targets : edit'.copies[p] = new(p)
  BY <1>1 DEF EditFields
<1>4. targets \subseteq Payout
  OBVIOUS
<1> HIDE DEF targets
<1>5. \A o \in Order : Disputed(o)' <=> Disputed(o)
  BY DEF Disputed
<1>6. DisputesOK'
  BY DEF Base, DisputesOK
<1> QED
  BY <1>2, <1>3, <1>4, <1>5, <1>6 DEF ReadsMove

\* A copy goes on to the next payout of its list.
LEMMA SkipsOK ==
  ASSUME Base, NEW c \in Copy, NEW p, job[c].pc = "cycle", Skips(c, p), taken' = taken
  PROVE  JobsOK' /\ \A q : InHand(q)' => InHand(q)
<1> DEFINE j == [job[c] EXCEPT !.todo = Without(c, p)]
<1>1. c \in Worker /\ JobOK(job[c]) /\ job = [w \in Worker |-> job[w]]
  BY DEF Base, JobsOK, Worker
<1>2. j.pc = "cycle" /\ JobOK(j)
  BY <1>1 DEF JobOK, JobFields, Working
<1>3. job' = [job EXCEPT ![c] = j]
  BY DEF Skips
<1> HIDE DEF j
<1> QED
  BY <1>1, <1>2, <1>3, OneJob DEF Base, Working

LEMMA CycleMoves ==
  ASSUME Base, Apart, NEW c \in Copy, NEW p \in Payout,
         CycleHolds(c, p) \/ CycleReschedules(c, p) \/ CycleSkips(c, p)
  PROVE  RowsMove \/ ReadsMove
<1>1. /\ job[c].pc = "cycle" /\ edit = NoEdit
      /\ JobsOK' /\ \A q : InHand(q)' => InHand(q)
  BY SkipsOK, Alone DEF CycleHolds, CycleReschedules, CycleSkips, Takes
<1>2. CASE CycleHolds(c, p)
  <2>1. payout' = Held /\ UNCHANGED <<edit, dispute, freed>> /\ Held = [q \in Payout |-> Held[q]]
    BY <1>2 DEF CycleHolds, Held
  <2>2. \A q \in Payout : RowOK(q, Held[q]) /\ Held[q].status = payout[q].status
    BY HeldOK DEF Base, RowsOK, RowOK, Is
  <2> QED
    BY <1>1, <2>1, <2>2 DEF RowsMove
<1>3. CASE CycleReschedules(c, p)
  <2>1. Reschedules(job[c].event.end, c) /\ UNCHANGED <<payout, dispute, freed>>
    BY <1>3 DEF CycleReschedules
  <2> QED
    BY <1>1, <2>1, NothingInHand, RescheduleReads
<1>4. CASE CycleSkips(c, p)
  BY <1>1, <1>4 DEF CycleSkips, RowsMove, Base, RowsOK
<1> QED
  BY <1>2, <1>3, <1>4

\* A worker starts: the cron of the day, or the admin while no cron runs.
LEMMA Begins ==
  ASSUME Base, NEW w \in Worker, NEW j, JobOK(j), job' = [job EXCEPT ![w] = j],
         \A v \in Worker \ {w} : job[v].pc = "idle",
         w \in Copy => taken', \A c \in Copy \ {w} : ~(job[c].pc # "idle" /\ ~taken'),
         edit = NoEdit, UNCHANGED <<payout, edit, dispute, freed>>,
         Working(j) => \A p \in {j.row} \cup DOMAIN j.debts : payout[p].status = "PENDING"
  PROVE  TakesMove
<1>1. /\ job'[w] = j /\ job' = [v \in Worker |-> job'[v]]
      /\ \A v \in Worker \ {w} : job'[v] = job[v] /\ job[v].pc = "idle"
  BY DEF Base, JobsOK
<1>2. OneWorker'
  BY <1>1 DEF OneWorker, Worker
<1>3. JobsOK'
  BY <1>1, <1>2 DEF Base, JobsOK
<1>4. \A p : InHand(p)' => payout[p].status = "PENDING"
  BY <1>1 DEF InHand, Working
<1> QED
  BY <1>3, <1>4 DEF TakesMove

LEMMA CronMoves ==
  ASSUME Base, Apart, NEW c \in Copy, CronFires(c)
  PROVE  TakesMove
<1> DEFINE j == [NoJob EXCEPT !.pc = "cycle", !.event = event, !.todo = [p \in DuePayouts |-> payout[p]]]
<1>1. JobOK(j) /\ ~Working(j)
  BY DEF NoJob, JobOK, JobFields, Working
<1>2. job' = [job EXCEPT ![c] = j] /\ taken' /\ UNCHANGED <<payout, edit, dispute, freed>>
  BY DEF CronFires
<1>3. edit = NoEdit /\ c \in Worker /\ \A v \in Worker \ {c} : job[v].pc = "idle"
  BY Alone DEF CronFires, Apart, Base, JobsOK, OneWorker, Worker
<1> HIDE DEF j
<1> QED
  BY <1>1, <1>2, <1>3, Begins
\* The payout and the debts it covers are pending rows.
LEMMA Covered ==
  ASSUME NEW p, NEW c \in Coverings(p)
  PROVE  DOMAIN c = OutstandingDebts
  BY DEF Coverings

LEMMA ReadsPayoutJob ==
  ASSUME Base, NEW w \in Worker, NEW p \in Payout, NEW todo, ReadsPayout(w, p, todo)
  PROVE  \E j : /\ JobOK(j) /\ job' = [job EXCEPT ![w] = j] /\ Working(j) /\ j.event = job[w].event
                /\ \A q \in {j.row} \cup DOMAIN j.debts : payout[q].status = "PENDING"
<1>0. PICK c \in Coverings(p) : \E offset :
        job' = [job EXCEPT ![w] =
                 [pc |-> "mark", todo |-> todo, event |-> job[w].event, row |-> p,
                  copy |-> [payout[p] EXCEPT !.offset = offset],
                  covered |-> [d \in Chosen(c) |-> c[d]], debts |-> [d \in Chosen(c) |-> payout[d]]]]
  BY DEF ReadsPayout, Base, JobsOK
<1>1. PICK offset :
        job' = [job EXCEPT ![w] =
                 [pc |-> "mark", todo |-> todo, event |-> job[w].event, row |-> p,
                  copy |-> [payout[p] EXCEPT !.offset = offset],
                  covered |-> [d \in Chosen(c) |-> c[d]], debts |-> [d \in Chosen(c) |-> payout[d]]]]
  BY <1>0
<1> DEFINE copy == [payout[p] EXCEPT !.offset = offset]
           j == [pc |-> "mark", todo |-> todo, event |-> job[w].event, row |-> p, copy |-> copy,
                 covered |-> [d \in Chosen(c) |-> c[d]], debts |-> [d \in Chosen(c) |-> payout[d]]]
<1>2. payout[p].status = "PENDING" /\ Is(p, payout[p])
  BY OrderOf DEF ReadsPayout
<1>3. Is(p, copy)
  <2>1. Shaped(payout[p]) /\ (p \in Order => payout[p].order = p)
    BY <1>2 DEF Is
  <2>2. Shaped(copy) /\ copy.status = payout[p].status /\ copy.order = payout[p].order
    BY <2>1 DEF Shaped, Fields
  <2> QED
    BY <1>2, <2>1, <2>2 DEF Is
<1> HIDE DEF copy
<1>4. \A d \in Chosen(c) : d \in Payout /\ payout[d].status = "PENDING" /\ Is(d, payout[d])
  BY Covered, OrderOf DEF Chosen, OutstandingDebts, Outstanding
<1>5. /\ j = [f \in JobFields |-> j[f]] /\ j.pc = "mark" /\ j.row = p /\ j.copy = copy /\ j.event = job[w].event
      /\ DOMAIN j.covered = Chosen(c) /\ DOMAIN j.debts = Chosen(c) /\ \A d \in Chosen(c) : j.debts[d] = payout[d]
  BY DEF JobFields
<1>6. job' = [job EXCEPT ![w] = j]
  BY <1>1 DEF copy
<1> HIDE DEF j
<1>7. JobOK(j) /\ Working(j)
  BY <1>3, <1>4, <1>5 DEF JobOK, Working
<1> QED
  BY <1>2, <1>4, <1>5, <1>6, <1>7

LEMMA CyclePaysMoves ==
  ASSUME Base, Apart, NEW c \in Copy, NEW p \in Payout, CyclePays(c, p)
  PROVE  TakesMove
<1>1. /\ job[c].pc = "cycle" /\ edit = NoEdit /\ c \in Worker
      /\ UNCHANGED <<payout, edit, dispute, freed, taken>> /\ ReadsPayout(c, p, Without(c, p))
  BY Alone DEF CyclePays, Takes, Worker
<1>2. taken /\ \A v \in Worker \ {c} : job[v].pc = "idle"
  BY <1>1 DEF Base, JobsOK, OneWorker, Worker
<1> QED
  BY <1>1, <1>2, ReadsPayoutJob, Begins

LEMMA AdminPaysMoves ==
  ASSUME Base, Apart, NEW p \in Payout, AdminPays(p)
  PROVE  TakesMove
<1>1. /\ edit = NoEdit /\ Admin \in Worker /\ Admin \notin Copy /\ NoCycle
      /\ UNCHANGED <<payout, edit, dispute, freed, taken>> /\ ReadsPayout(Admin, p, Empty)
  BY AloneRow, PayoutAssumption DEF AdminPays, Worker, Apart
<1>2. \A v \in Worker : job[v].pc = "idle"
  BY <1>1 DEF NoCycle
<1>3. \A c \in Copy : job[c].pc = "idle"
  BY <1>2 DEF Worker
<1> QED
  BY <1>1, <1>2, <1>3, ReadsPayoutJob, Begins

-----------------------------------------------------------------------------
(* Paying one payout *)

\* A worker saves rows it has in hand.
LEMMA SavesOne ==
  ASSUME Base, NEW p \in Payout, InHand(p), NEW r, Is(p, r), payout' = [payout EXCEPT ![p] = r],
         JobsOK', \A q : InHand(q)' => InHand(q), UNCHANGED <<edit, dispute, freed>>
  PROVE  RowsMove
<1>1. payout = [q \in Payout |-> payout[q]] /\ \A q \in Payout : RowOK(q, payout[q])
  BY DEF Base, RowsOK
<1> QED
  BY <1>1 DEF RowsMove, RowOK, Is

\* The phases of a job.
LEMMA GoesTo ==
  ASSUME Base, NEW w \in Worker, Working(job[w]), NEW copy, Is(job[w].row, copy),
         NEW pc, Goes(w, pc, copy), pc \notin {"idle", "cycle"}, taken' = taken
  PROVE  JobsOK' /\ \A p : InHand(p)' => InHand(p)
<1> DEFINE j == [job[w] EXCEPT !.pc = pc, !.copy = copy]
<1>1. JobOK(job[w]) /\ job = [v \in Worker |-> job[v]]
  BY DEF Base, JobsOK
<1>2. job' = [job EXCEPT ![w] = j]
  BY <1>1 DEF Goes
<1>3. /\ j = [f \in JobFields |-> j[f]] /\ j.pc = pc /\ j.copy = copy
      /\ j.row = job[w].row /\ j.debts = job[w].debts /\ j.covered = job[w].covered
  BY <1>1 DEF JobOK, JobFields
<1> HIDE DEF j
<1>4. JobOK(j)
  BY <1>1, <1>3 DEF JobOK, Working
<1> QED
  BY <1>2, <1>3, <1>4, OneJob DEF Working, Base

LEMMA DoneOK ==
  ASSUME Base, NEW w \in Worker, job[w].pc # "idle", Done(w), taken' = taken
  PROVE  JobsOK' /\ \A p : InHand(p)' => InHand(p)
<1> DEFINE j == IF w = Admin THEN NoJob
                ELSE [NoJob EXCEPT !.pc = "cycle", !.todo = job[w].todo, !.event = job[w].event]
<1>1. JobOK(j) /\ ~Working(j)
  BY DEF NoJob, JobOK, JobFields, Working
<1>2. job' = [job EXCEPT ![w] = j]
  BY DEF Done
<1> HIDE DEF j
<1> QED
  BY <1>1, <1>2, OneJob DEF Base

LEMMA JobMoves ==
  ASSUME Base, NEW w \in Worker, JobStep(w)
  PROVE  RowsMove \/ SplitMove
<1> DEFINE p == job[w].row
<1>1. Working(job[w]) /\ job[w].pc # "idle" /\ UNCHANGED <<dispute, freed, taken>>
  BY DEF JobStep, MarkProcessing, MarkToTransfer, StripeTransfers, StripeFails, Record, SettleEnds, SettleDebt,
         At, RestUnchanged, OthersUnchanged, Working
<1>2. /\ p \in Payout /\ Is(p, job[w].copy) /\ InHand(p)
      /\ DOMAIN job[w].debts \subseteq Payout /\ DOMAIN job[w].covered \subseteq DOMAIN job[w].debts
      /\ \A d \in DOMAIN job[w].debts : Is(d, job[w].debts[d]) /\ InHand(d)
      /\ payout = [q \in Payout |-> payout[q]] /\ \A q \in Payout : RowOK(q, payout[q])
  BY <1>1 DEF Base, JobsOK, JobOK, RowsOK, InHand, Working
<1>3. ASSUME NEW status, status # "NONE" PROVE Is(p, [job[w].copy EXCEPT !.status = status])
  BY <1>2, <1>3, SetStatus DEF Is
<1>4. CASE MarkProcessing(w)
  <2>1. Saves(w, "PROCESSING") /\ Goes(w, "transfer", job[w].copy)
    BY <1>4 DEF MarkProcessing
  <2>2. JobsOK' /\ \A q : InHand(q)' => InHand(q)
    BY <1>1, <1>2, <2>1, GoesTo
  <2> QED
    BY <1>1, <1>2, <1>3, <1>4, <2>1, <2>2, SavesOne DEF Saves, MarkProcessing, RestUnchanged
<1>5. CASE MarkToTransfer(w)
  <2>1. PICK status \in {"COMPLETED", "TO_TRANSFER"} :
          Saves(w, status) /\ Goes(w, "settle", [job[w].copy EXCEPT !.status = status])
    BY <1>5 DEF MarkToTransfer
  <2>2. Is(p, [job[w].copy EXCEPT !.status = status])
    BY <1>3
  <2>3. JobsOK' /\ \A q : InHand(q)' => InHand(q)
    BY <1>1, <2>1, <2>2, GoesTo
  <2> QED
    BY <1>1, <1>2, <1>5, <2>1, <2>2, <2>3, SavesOne DEF Saves, MarkToTransfer, RestUnchanged
<1>6. CASE StripeTransfers(w) \/ StripeFails(w)
  <2>1. PICK copy : /\ Goes(w, "record", copy) /\ payout' = payout
                    /\ copy \in {[job[w].copy EXCEPT !.status = "COMPLETED"],
                                 [job[w].copy EXCEPT !.status = "FAILED", !.offset = 0]}
    BY <1>6 DEF StripeTransfers, StripeFails
  <2>2. Is(p, copy)
    <3>1. CASE copy = [job[w].copy EXCEPT !.status = "COMPLETED"]
      BY <1>3, <3>1
    <3>2. CASE copy = [job[w].copy EXCEPT !.status = "FAILED", !.offset = 0]
      <4>1. Shaped(copy) /\ copy.status = "FAILED" /\ copy.order = job[w].copy.order
        BY <1>2, <3>2 DEF Is, Shaped, Fields
      <4> QED
        BY <1>2, <4>1 DEF Is
    <3> QED
      BY <2>1, <3>1, <3>2
  <2>3. JobsOK' /\ \A q : InHand(q)' => InHand(q)
    BY <1>1, <2>1, <2>2, GoesTo
  <2> QED
    BY <1>1, <1>2, <1>6, <2>1, <2>3 DEF RowsMove, StripeTransfers, StripeFails, RestUnchanged
<1>7. CASE Record(w)
  <2>1. Saves(w, job[w].copy.status) /\ (Done(w) \/ Goes(w, "settle", job[w].copy))
    BY <1>7 DEF Record
  <2>2. JobsOK' /\ \A q : InHand(q)' => InHand(q)
    BY <1>1, <1>2, <2>1, GoesTo, DoneOK
  <2>3. Is(p, [job[w].copy EXCEPT !.status = job[w].copy.status])
    BY <1>2, <1>3 DEF Is
  <2> QED
    BY <1>1, <1>2, <1>7, <2>1, <2>2, <2>3, SavesOne DEF Saves, Record, RestUnchanged
<1>8. CASE SettleEnds(w)
  <2>1. JobsOK' /\ \A q : InHand(q)' => InHand(q)
    BY <1>1, <1>8, DoneOK DEF SettleEnds
  <2> QED
    BY <1>1, <1>2, <1>8, <2>1 DEF RowsMove, SettleEnds, RestUnchanged
<1>9. ASSUME NEW d \in Payout, SettleDebt(w, d) PROVE RowsMove \/ SplitMove
  <2> DEFINE debt == job[w].debts[d]
             part == job[w].covered[d]
             j == [job[w] EXCEPT !.covered = [q \in DOMAIN job[w].covered \ {d} |-> job[w].covered[q]]]
  <2>1. /\ d \in DOMAIN job[w].covered /\ job' = [job EXCEPT ![w] = j]
        /\ JobOK(job[w]) /\ job = [v \in Worker |-> job[v]]
    BY <1>9 DEF SettleDebt, Base, JobsOK
  <2>2. /\ j = [f \in JobFields |-> j[f]] /\ j.pc = job[w].pc /\ j.copy = job[w].copy
        /\ j.row = job[w].row /\ j.debts = job[w].debts /\ DOMAIN j.covered \subseteq DOMAIN job[w].covered
    BY <2>1 DEF JobOK, JobFields
  <2> HIDE DEF j
  <2>3. JobOK(j)
    BY <1>2, <2>1, <2>2 DEF JobOK, Working
  <2>4. JobsOK' /\ \A q : InHand(q)' => InHand(q)
    BY <1>1, <2>1, <2>2, <2>3, OneJob DEF Working, Base
  <2>5. Is(d, debt) /\ InHand(d)
    BY <1>2, <2>1
  <2>6. Shaped(debt) /\ debt.status # "NONE" /\ (d \in Order => debt.order = d)
    BY <2>5 DEF Is
  <2>7. PICK status \in {"COMPLETED", "PENDING"} :
          \/ /\ UNCHANGED edit
             /\ payout' = [payout EXCEPT ![d] = [debt EXCEPT !.status = status, !.settledBy = p]]
          \/ /\ Free # {}
             /\ payout' = [payout EXCEPT ![d] = [debt EXCEPT !.net = @ + part]]
             /\ ReadsRows([q \in {NewRow} |-> [NoRow EXCEPT !.status = status, !.order = debt.order, !.net = -part,
                                                           !.due = TRUE, !.settledBy = p]], "none", Nobody, w)
    BY <1>9 DEF SettleDebt
  <2> HIDE DEF debt
  <2>8. CASE UNCHANGED edit /\ payout' = [payout EXCEPT ![d] = [debt EXCEPT !.status = status, !.settledBy = p]]
    <3> DEFINE r == [debt EXCEPT !.status = status, !.settledBy = p]
    <3>1. Shaped(r) /\ r.status = status /\ r.order = debt.order
      BY <2>6 DEF Shaped, Fields
    <3> HIDE DEF r
    <3>2. Is(d, r)
      BY <2>6, <2>7, <3>1 DEF Is
    <3> QED
      BY <1>1, <2>4, <2>5, <2>8, <3>2, SavesOne DEF r
  <2>9. CASE /\ Free # {}
             /\ payout' = [payout EXCEPT ![d] = [debt EXCEPT !.net = @ + part]]
             /\ ReadsRows([q \in {NewRow} |-> [NoRow EXCEPT !.status = status, !.order = debt.order, !.net = -part,
                                                           !.due = TRUE, !.settledBy = p]], "none", Nobody, w)
    <3> DEFINE r == [debt EXCEPT !.net = @ + part]
               n == [NoRow EXCEPT !.status = status, !.order = debt.order, !.net = -part, !.due = TRUE, !.settledBy = p]
    <3>1. Shaped(r) /\ r.status = debt.status /\ r.order = debt.order
      BY <2>6 DEF Shaped, Fields
    <3>2. Shaped(n) /\ n.status = status
      BY DEF Shaped, Fields, NoRow
    <3>3. NewRow \in Payout \ Order /\ payout[NewRow].status = "NONE"
      BY <2>9 DEF NewRow, Free, Used
    <3>4. payout' = [payout EXCEPT ![d] = r] /\ ReadsRows([q \in {NewRow} |-> n], "none", Nobody, w)
      BY <2>9
    <3> HIDE DEF r, n
    <3>5. Is(d, r) /\ Is(NewRow, n) /\ n.status \notin Paying
      BY <2>6, <2>7, <3>1, <3>2, <3>3 DEF Is, Paying
    <3>6. /\ edit = NoEdit /\ edit' = [f \in EditFields |-> edit'[f]]
          /\ edit'.copies = [q \in {NewRow} |-> n]
      BY <3>4 DEF ReadsRows, EditFields
    <3> QED
      BY <1>1, <2>4, <2>5, <3>3, <3>4, <3>5, <3>6 DEF SplitMove
  <2> QED
    BY <2>7, <2>8, <2>9
<1> QED
  BY <1>4, <1>5, <1>6, <1>7, <1>8, <1>9 DEF JobStep
-----------------------------------------------------------------------------
(* The rest, and all together *)

\* A day passes, a call arrives or is lost, a handler is interrupted.
LEMMA CycleEndsMoves ==
  ASSUME Base, NEW c \in Copy, CycleEnds(c)
  PROVE  RowsMove
<1>1. /\ job[c].pc = "cycle" /\ job' = [job EXCEPT ![c] = NoJob] /\ c \in Worker
      /\ UNCHANGED <<payout, edit, dispute, freed, taken>>
  BY DEF CycleEnds, Worker
<1>2. JobsOK' /\ \A q : InHand(q)' => InHand(q)
  BY <1>1, NoJobOK, OneJob DEF Working, Base
<1> QED
  BY <1>1, <1>2 DEF RowsMove, Base, RowsOK

LEMMA CrashMoves ==
  ASSUME Base, Crash
  PROVE  RowsMove \/ DropMove
<1>1. UNCHANGED <<payout, dispute, taken>> /\ RowsOK
  BY DEF Crash, Base
<1>2. CASE Forgets /\ UNCHANGED job
  BY <1>1, <1>2, SameJobs DEF DropMove
<1>3. ASSUME NEW w \in Worker, job[w].pc # "idle", job' = [job EXCEPT ![w] = NoJob],
             Forgets \/ UNCHANGED <<edit, freed>>
      PROVE  RowsMove \/ DropMove
  <2>1. JobsOK' /\ \A q : InHand(q)' => InHand(q)
    BY <1>1, <1>3, NoJobOK, OneJob DEF Working, Base
  <2> QED
    BY <1>1, <1>3, <2>1 DEF RowsMove, DropMove, RowsOK
<1>4. \/ Forgets /\ UNCHANGED job
      \/ \E w \in Worker : /\ job[w].pc # "idle" /\ job' = [job EXCEPT ![w] = NoJob]
                           /\ Forgets \/ UNCHANGED <<edit, freed>>
  BY DEF Crash
<1> QED
  BY <1>2, <1>3, <1>4

LEMMA NewDayMoves ==
  ASSUME Base, NewDay
  PROVE  RowsMove
<1>1. /\ UNCHANGED <<payout, edit, job, dispute, freed>> /\ RowsOK
      /\ \A w \in Worker : job[w].pc = "idle"
  BY DEF NewDay, NoCycle, Base
<1>2. JobsOK' /\ \A q : InHand(q)' => InHand(q)
  BY <1>1 DEF Base, JobsOK, OneWorker, InHand, Worker
<1> QED
  BY <1>1, <1>2 DEF RowsMove, RowsOK

LEMMA AnnouncedMoves ==
  ASSUME Base, Apart, HoldArrives \/ RescheduleArrives
  PROVE  RowsMove \/ ReadsMove
<1>1. CASE Payout # {}
  <2>1. edit = NoEdit /\ \A p \in Payout : ~InHand(p)
    BY <1>1, AloneRow DEF HoldArrives, RescheduleArrives, AllUndisturbed
  <2>2. JobsOK' /\ (\A q : InHand(q)' => InHand(q)) /\ UNCHANGED <<dispute, freed>>
    BY SameJobs DEF HoldArrives, RescheduleArrives
  <2>3. CASE HoldArrives
    <3>1. payout' = Held /\ UNCHANGED edit /\ Held = [q \in Payout |-> Held[q]]
      BY <2>3 DEF HoldArrives, Held
    <3>2. \A q \in Payout : RowOK(q, Held[q]) /\ Held[q].status = payout[q].status
      BY HeldOK DEF Base, RowsOK, RowOK, Is
    <3> QED
      BY <2>2, <3>1, <3>2 DEF RowsMove
  <2>4. CASE RescheduleArrives
    BY <2>1, <2>2, <2>4, RescheduleReads DEF RescheduleArrives
  <2> QED
    BY <2>3, <2>4
<1>2. CASE Payout = {}
  <2>1. UNCHANGED <<payout, job, taken, dispute, freed>> /\ DisputesOK'
    BY <1>2 DEF HoldArrives, RescheduleArrives, Held, Base, RowsOK, DisputesOK
  <2>2. CASE HoldArrives
    BY <2>1, <2>2, Still DEF HoldArrives
  <2>3. CASE RescheduleArrives
    <3>1. edit = NoEdit
      BY <2>3 DEF RescheduleArrives, Reschedules, ReadsRows
    <3> QED
      BY <1>2, <2>1, <2>3, <3>1, SameJobs, RescheduleReads DEF RescheduleArrives
  <2> QED
    BY <2>2, <2>3
<1> QED
  BY <1>1, <1>2

LEMMA EveryMove == Base /\ Apart /\ [Next]_vars => Move
<1> SUFFICES ASSUME Base, Apart, [Next]_vars PROVE Move
  OBVIOUS
<1> USE DEF Move
<1>1. CASE VerifyAccount \/ Postpone \/ NewDate \/ AnnouncementLost \/ UNCHANGED vars
  BY <1>1, Still DEF VerifyAccount, Postpone, NewDate, AnnouncementLost, vars
<1>2. CASE Continues
  <2>1. CASE Progress
    BY <1>1, <2>1, AnnouncedMoves, ColumnSteps, BlockReads, TransferReads DEF Progress
  <2>2. ASSUME NEW o \in Order, CreatePayout(o) PROVE Move
    BY <2>2, NewRows
  <2>3. ASSUME NEW c \in Copy, CronFires(c) \/ CycleStep(c) PROVE Move
    BY <2>3, CronMoves, CycleMoves, CyclePaysMoves, CycleEndsMoves DEF CycleStep
  <2>4. ASSUME NEW w \in Worker, JobStep(w) PROVE Move
    BY <2>4, JobMoves
  <2> QED
    BY <1>1, <1>2, <2>1, <2>2, <2>3, <2>4, FollowStep, NewDayMoves DEF Continues
<1>3. CASE Intervention
  <2>1. ASSUME NEW o \in Order, NEW h \in {1, 2}, RefundReduces(o, h) \/ RefundAdjusts(o, h) PROVE Move
    BY <2>1, RefundReads, NewRows
  <2>2. ASSUME NEW o \in Order, OpenDispute(o) \/ ResolveDispute(o, "DECIDED") \/ ResolveDispute(o, "CLOSED")
        PROVE  Move
    BY <2>2, DisputeReads
  <2>3. ASSUME NEW p \in Payout, Block(p) \/ UnblockByAdmin(p) \/ RequestEarly(p) \/ ApproveEarly(p)
                                 \/ AdminPays(p) \/ ReleaseBankTransfer(p)
        PROVE  Move
    BY <2>3, BlockReads, EarlyReads, AdminPaysMoves, TransferReads
  <2> QED
    BY <1>1, <1>3, <2>1, <2>2, <2>3, CrashMoves DEF Intervention
<1> QED
  BY <1>1, <1>2, <1>3 DEF Next

-----------------------------------------------------------------------------
(* Disputes *)

\* The payout of a disputed order is in nobody's hand, and it is blocked or
\* about to be; whoever is about to save it keeps it blocked.
DisputeOK ==
  \A o \in Order : Disputed(o) =>
    /\ ~InHand(o) /\ (payout[o].status = "BLOCKED" \/ o \in DOMAIN edit.copies)
    /\ o \in DOMAIN edit.copies => edit.copies[o].status = "BLOCKED"

LEMMA DisputeInit == Init => DisputeOK
  BY DEF Init, DisputeOK, Disputed

LEMMA DisputeStep ==
  ASSUME Base, DisputeOK, Move
  PROVE  DisputeOK'
<1> SUFFICES ASSUME NEW o \in Order, Disputed(o)'
             PROVE  /\ ~InHand(o)' /\ (payout'[o].status = "BLOCKED" \/ o \in DOMAIN edit'.copies)
                    /\ o \in DOMAIN edit'.copies => edit'.copies[o].status = "BLOCKED"
  BY DEF DisputeOK
<1>0. o \in Payout
  BY DEF Payout
<1>1. Disputed(o) => /\ ~InHand(o) /\ (payout[o].status = "BLOCKED" \/ o \in DOMAIN edit.copies)
                     /\ o \in DOMAIN edit.copies => edit.copies[o].status = "BLOCKED"
  BY DEF DisputeOK
<1>2. CASE RowsMove
  <2>1. Disputed(o)
    BY <1>2 DEF RowsMove, Disputed
  <2>2. ~InHand(o)'
    BY <1>1, <1>2, <2>1 DEF RowsMove
  <2>3. payout[o].status = "BLOCKED" => payout'[o].status = "BLOCKED"
    BY <1>0, <1>1, <1>2, <2>1 DEF RowsMove
  <2>4. edit' = edit \/ (DOMAIN edit.copies = {} /\ DOMAIN edit'.copies = {})
    BY <1>2, NoEditOK DEF RowsMove
  <2> QED
    BY <1>1, <2>1, <2>2, <2>3, <2>4
<1>3. CASE ReadsMove
  <2>1. DOMAIN edit.copies = {} /\ payout' = payout
    BY <1>3, NoEditOK DEF ReadsMove
  <2>2. InHand(o)' => InHand(o)
    BY <1>3 DEF ReadsMove
  <2>3. /\ Disputed(o) \/ (~InHand(o) /\ (payout[o].status = "BLOCKED" \/ o \in DOMAIN edit'.copies))
        /\ o \in DOMAIN edit'.copies =>
             edit'.copies[o].status = "BLOCKED" \/ (Disputed(o) /\ payout[o].status # "BLOCKED")
    BY <1>3 DEF ReadsMove
  <2> QED
    BY <1>1, <2>1, <2>2, <2>3
<1>4. CASE TakesMove
  <2>1. Disputed(o) /\ DOMAIN edit.copies = {} /\ UNCHANGED <<payout, edit>>
    BY <1>4, NoEditOK DEF TakesMove, Disputed
  <2>2. InHand(o)' => InHand(o) \/ payout[o].status = "PENDING"
    BY <1>4 DEF TakesMove
  <2> QED
    BY <1>1, <2>1, <2>2
<1>5. CASE EditSave
  <2>1. Disputed(o) /\ (InHand(o)' => InHand(o))
    BY <1>5, SameJobs DEF EditSave, Disputed
  <2>2. DOMAIN edit'.copies = {}
    BY <1>5, EmptyDomain DEF EditSave, Base, CopiesOK, EditFields
  <2>3. payout'[o] = IF o \in DOMAIN edit.copies THEN edit.copies[o] ELSE payout[o]
    BY <1>0, <1>5 DEF EditSave
  <2> QED
    BY <1>1, <2>1, <2>2, <2>3
<1>6. CASE SplitMove
  <2>1. Disputed(o) /\ DOMAIN edit.copies = {} /\ (InHand(o)' => InHand(o))
    BY <1>6, NoEditOK DEF SplitMove, Disputed
  <2>2. o \notin DOMAIN edit'.copies
    BY <1>6 DEF SplitMove
  <2>3. payout'[o] = payout[o]
    BY <1>0, <1>1, <1>6, <2>1 DEF SplitMove, Base, RowsOK
  <2> QED
    BY <1>1, <2>1, <2>2, <2>3
<1>7. CASE DropMove
  <2>1. Disputed(o) /\ DOMAIN edit'.copies = {} /\ (InHand(o)' => InHand(o)) /\ payout' = payout
    BY <1>7, NoEditOK DEF DropMove, Forgets, Disputed
  <2>2. o \in DOMAIN edit.copies => payout[o].status = "BLOCKED"
    BY <1>7 DEF DropMove, Forgets, Disputed
  <2> QED
    BY <1>1, <2>1, <2>2
<1> QED
  BY <1>2, <1>3, <1>4, <1>5, <1>6, <1>7 DEF Move

\* The payout a dispute has blocked does not start being paid before the
\* decision, unless an admin or the 30 days have unblocked it, whatever is
\* refunded, cancelled, interrupted or lost.
THEOREM DisputedAlwaysWaits == Apart => (Spec => DisputedWaits)
<1> SUFFICES ASSUME Apart PROVE Spec => DisputedWaits
  OBVIOUS
<1> DEFINE Waits == \A o \in Order : StartsPaying(o) => dispute[o] # "OPEN" \/ o \in freed
<1>1. Init => Base /\ DisputeOK
  BY BaseInit, DisputeInit
<1>2. Base /\ DisputeOK /\ [Next]_vars => Base' /\ DisputeOK'
  BY EveryMove, BaseStep, DisputeStep
<1>3. Base /\ DisputeOK /\ [Next]_vars => [Waits]_vars
  BY EveryMove, StartsInHand DEF DisputeOK, Disputed, Payout
<1>4. DisputedWaits <=> [][Waits]_vars
  BY DEF DisputedWaits
<1> HIDE DEF Waits
<1> QED
  BY <1>1, <1>2, <1>3, <1>4, PTL DEF Spec

-----------------------------------------------------------------------------
(* Sums *)

\* What MapThenFoldSet computes, subset by subset.
Picked(S) == CHOOSE x \in S : TRUE
Step(f, g, S) == IF S = {} THEN 0 ELSE f[Picked(S)] + g[S \ {Picked(S)}]
Adds(f, g, S) == g = [T \in SUBSET S |-> Step(f, g, T)]

LEMMA SumFolds == ASSUME NEW f PROVE Sum(f) = (CHOOSE g : Adds(f, g, DOMAIN f))[DOMAIN f]
  BY DEF Sum, MapThenSumSet, MapThenFoldSet, Adds, Step, Picked

LEMMA PickedIn == ASSUME NEW S, S # {} PROVE Picked(S) \in S
  BY DEF Picked

\* Induction on the naturals, stated about a set of naturals.
LEMMA NatSteps ==
  ASSUME NEW G, 0 \in G, \A n \in Nat : n \in G => n + 1 \in G
  PROVE  Nat \subseteq G
<1> DEFINE B == Nat \ G
<1> SUFFICES ASSUME B # {} PROVE FALSE
  OBVIOUS
<1>1. PICK x \in B : \A y \in B : ~(<<y, x>> \in OpToRel(<, Nat))
  BY WFMin, NatLessThanWellFounded
<1>2. x # 0 /\ x - 1 \in Nat /\ x - 1 < x
  OBVIOUS
<1>3. x - 1 \in B
  BY <1>2
<1>4. <<x - 1, x>> \in OpToRel(<, Nat)
  BY <1>2 DEF OpToRel
<1> QED
  BY <1>1, <1>3, <1>4

\* Induction on finite sets, stated about a set of sets: if any subset of S is
\* in B, a least one is.
LEMMA LeastSet ==
  ASSUME NEW S, IsFiniteSet(S), NEW B \in SUBSET SUBSET S, B # {}
  PROVE  \E T \in B : \A U \in SUBSET T : U # T => U \notin B
<1>1. SUBSET S = FiniteSubsetsOf(S)
  BY FS_FiniteSubsetsOfFinite
<1>2. PICK T \in B : \A U \in B : ~(<<U, T>> \in StrictSubsetOrdering(S))
  BY <1>1, FS_StrictSubsetOrderingWellFounded, WFMin, Zenon
<1>3. ASSUME NEW U \in SUBSET T, U # T PROVE U \notin B
  BY <1>2, <1>3 DEF StrictSubsetOrdering
<1> QED
  BY <1>2, <1>3

\* Two functions that add up the same numbers agree.
LEMMA AddsOnce ==
  ASSUME NEW S, IsFiniteSet(S), NEW D, NEW E, S \subseteq D, S \subseteq E, NEW f, NEW g, NEW h, NEW k, Adds(f, g, D), Adds(h, k, E),
         \A x \in S : f[x] = h[x]
  PROVE  g[S] = k[S]
<1> DEFINE B == {T \in SUBSET S : g[T] # k[T]}
<1> SUFFICES ASSUME B # {} PROVE FALSE
  OBVIOUS
<1>0. B \in SUBSET SUBSET S
  OBVIOUS
<1>1. PICK T \in B : \A U \in SUBSET T : U # T => U \notin B
  <2> HIDE DEF B
  <2> QED
    BY <1>0, LeastSet
<1>2. g[T] = Step(f, g, T) /\ k[T] = Step(h, k, T)
  BY DEF Adds
<1>3. T # {}
  BY <1>2 DEF Step
<1>4. Picked(T) \in T
  BY <1>3, PickedIn
<1>5. g[T \ {Picked(T)}] = k[T \ {Picked(T)}]
  BY <1>1, <1>4
<1> QED
  BY <1>2, <1>3, <1>4, <1>5 DEF Step

\* A function adds up the numbers of the subsets of S of at most n elements.
AddsUpTo(f, g, S, n) == \A T \in SUBSET S : Cardinality(T) <= n => g[T] = Step(f, g, T)

LEMMA AddsMore ==
  ASSUME NEW S, IsFiniteSet(S), NEW f \in [S -> Int], NEW n \in Nat, NEW g \in [SUBSET S -> Int], AddsUpTo(f, g, S, n)
  PROVE  \E h \in [SUBSET S -> Int] : AddsUpTo(f, h, S, n + 1)
<1> DEFINE h == [T \in SUBSET S |-> Step(f, g, T)]
<1>1. \A T \in SUBSET S : T # {} => /\ Picked(T) \in T /\ IsFiniteSet(T) /\ IsFiniteSet(T \ {Picked(T)})
                                   /\ Cardinality(T) \in Nat
                                   /\ Cardinality(T \ {Picked(T)}) = Cardinality(T) - 1
  BY PickedIn, FS_Subset, FS_RemoveElement, FS_CardinalityType
<1>2. h \in [SUBSET S -> Int]
  <2>1. ASSUME NEW T \in SUBSET S PROVE Step(f, g, T) \in Int
    <3>1. CASE T # {}
      <4>1. f[Picked(T)] \in Int /\ g[T \ {Picked(T)}] \in Int
        BY <1>1, <3>1
      <4> QED
        BY <3>1, <4>1 DEF Step
    <3> QED
      BY <3>1 DEF Step
  <2> QED
    BY <2>1
<1>3. ASSUME NEW T \in SUBSET S, Cardinality(T) <= n + 1 PROVE h[T] = Step(f, h, T)
  <2>1. CASE T = {}
    BY <2>1 DEF Step
  <2>2. CASE T # {}
    <3> DEFINE U == T \ {Picked(T)}
    <3>1. U \in SUBSET S /\ Cardinality(U) <= n
      <4>1. Cardinality(T) \in Nat /\ Cardinality(U) = Cardinality(T) - 1
        BY <1>1, <2>2
      <4>2. Cardinality(U) <= n
        <5> HIDE DEF U
        <5> QED
          BY <1>3, <4>1
      <4> QED
        BY <4>2
    <3>2. h[U] = g[U]
      BY <3>1 DEF AddsUpTo
    <3> QED
      BY <2>2, <3>2 DEF Step
  <2> QED
    BY <2>1, <2>2
<1> QED
  BY <1>2, <1>3 DEF AddsUpTo

LEMMA AddsExists ==
  ASSUME NEW S, IsFiniteSet(S), NEW f \in [S -> Int]
  PROVE  \E g \in [SUBSET S -> Int] : Adds(f, g, S)
<1> DEFINE G == {n \in Nat : \E g \in [SUBSET S -> Int] : AddsUpTo(f, g, S, n)}
<1>1. \A T \in SUBSET S : IsFiniteSet(T) /\ Cardinality(T) \in Nat /\ Cardinality(T) <= Cardinality(S)
                          /\ (Cardinality(T) = 0 <=> T = {})
  BY FS_Subset, FS_CardinalityType, FS_EmptySet
<1>2. 0 \in G
  <2> DEFINE zero == [T \in SUBSET S |-> 0]
  <2>1. ASSUME NEW T \in SUBSET S, Cardinality(T) <= 0 PROVE zero[T] = Step(f, zero, T)
    BY <1>1, <2>1 DEF Step
  <2>2. zero \in [SUBSET S -> Int] /\ AddsUpTo(f, zero, S, 0)
    BY <2>1 DEF AddsUpTo
  <2> QED
    BY <2>2
<1>3. ASSUME NEW n \in Nat, n \in G PROVE n + 1 \in G
  <2>1. \E h \in [SUBSET S -> Int] : AddsUpTo(f, h, S, n + 1)
    BY <1>3, AddsMore
  <2> QED
    BY <2>1
<1>4. Cardinality(S) \in G
  <2> HIDE DEF G
  <2> QED
    BY <1>1, <1>2, <1>3, NatSteps
<1>5. PICK g \in [SUBSET S -> Int] : AddsUpTo(f, g, S, Cardinality(S))
  BY <1>4
<1>6. \A T \in SUBSET S : g[T] = Step(f, g, T)
  BY <1>1, <1>5 DEF AddsUpTo
<1> QED
  BY <1>6 DEF Adds
\* g[T] is the sum of the numbers of the subset T of S.
SumsOf(f, g, S) ==
  /\ g[{}] = 0
  /\ \A T \in SUBSET S : \A x \in T : g[T] = f[x] + g[T \ {x}]
  /\ \A T \in SUBSET S : Sum([x \in T |-> f[x]]) = g[T]

LEMMA SumsAdd ==
  ASSUME NEW S, IsFiniteSet(S), NEW f \in [S -> Int]
  PROVE  \E g \in [SUBSET S -> Int] : SumsOf(f, g, S)
<1>1. PICK g \in [SUBSET S -> Int] : Adds(f, g, S)
  BY AddsExists
<1>2. \A T \in SUBSET S : g[T] = Step(f, g, T)
  BY <1>1 DEF Adds
<1>3. g[{}] = 0
  BY <1>2 DEF Step
<1>4. ASSUME NEW T \in SUBSET S PROVE Sum([x \in T |-> f[x]]) = g[T]
  <2> DEFINE h == [x \in T |-> f[x]]
  <2>1. IsFiniteSet(T) /\ h \in [T -> Int] /\ DOMAIN h = T
    BY FS_Subset
  <2> HIDE DEF h
  <2>2. \E k : Adds(h, k, T)
    BY <2>1, AddsExists
  <2>3. Adds(h, CHOOSE k : Adds(h, k, T), T)
    BY <2>2
  <2>4. (CHOOSE k : Adds(h, k, T))[T] = g[T]
    BY <1>1, <2>1, <2>3, AddsOnce DEF h
  <2>5. Sum(h) = g[T]
    BY <2>1, <2>4, SumFolds
  <2> QED
    BY <2>5 DEF h
<1>5. ASSUME NEW T \in SUBSET S, NEW x \in T PROVE g[T] = f[x] + g[T \ {x}]
  <2> DEFINE B == {U \in SUBSET S : \E u \in U : g[U] # f[u] + g[U \ {u}]}
  <2> SUFFICES ASSUME B # {} PROVE FALSE
    OBVIOUS
  <2>1. B \in SUBSET SUBSET S
    OBVIOUS
  <2>2. PICK U \in B : \A V \in SUBSET U : V # U => V \notin B
    <3> HIDE DEF B
    <3> QED
      BY <2>1, LeastSet
  <2>3. PICK u \in U : g[U] # f[u] + g[U \ {u}]
    OBVIOUS
  <2> DEFINE v == Picked(U)
  <2>4. v \in U /\ g[U] = f[v] + g[U \ {v}]
    BY <1>2, <2>3, PickedIn DEF Step
  <2> HIDE DEF v
  <2>5. u # v
    BY <2>3, <2>4
  <2>6. g[U \ {v}] = f[u] + g[(U \ {v}) \ {u}]
    BY <2>2, <2>4, <2>5
  <2>7. g[U \ {u}] = f[v] + g[(U \ {u}) \ {v}]
    BY <2>2, <2>4, <2>5
  <2>8. (U \ {v}) \ {u} = (U \ {u}) \ {v}
    OBVIOUS
  <2> DEFINE W == g[(U \ {u}) \ {v}]
  <2>9. f[u] \in Int /\ f[v] \in Int /\ W \in Int
    BY <2>3, <2>4
  <2>10. g[U \ {v}] = f[u] + W /\ g[U \ {u}] = f[v] + W
    BY <2>6, <2>7, <2>8
  <2> HIDE DEF W, B
  <2>11. f[u] + g[U \ {u}] = f[v] + g[U \ {v}]
    BY <2>9, <2>10
  <2> QED
    BY <2>3, <2>4, <2>11
<1> QED
  BY <1>3, <1>4, <1>5 DEF SumsOf

Over(f, S) == Sum([x \in S |-> f[x]])

LEMMA SumOver ==
  ASSUME NEW S, IsFiniteSet(S), NEW f \in [S -> Int]
  PROVE  /\ Over(f, S) = Sum(f) /\ Over(f, {}) = 0
         /\ \A T \in SUBSET S : Over(f, T) \in Int
         /\ \A T \in SUBSET S : \A x \in S \ T : Over(f, T \cup {x}) = f[x] + Over(f, T)
<1>1. PICK g \in [SUBSET S -> Int] : SumsOf(f, g, S)
  BY SumsAdd
<1>2. \A T \in SUBSET S : Over(f, T) = g[T]
  BY <1>1 DEF Over, SumsOf
<1>3. [x \in S |-> f[x]] = f
  OBVIOUS
<1>4. ASSUME NEW T \in SUBSET S, NEW x \in S \ T PROVE g[T \cup {x}] = f[x] + g[T]
  <2>1. (T \cup {x}) \ {x} = T /\ T \cup {x} \in SUBSET S /\ x \in T \cup {x}
    OBVIOUS
  <2> QED
    BY <1>1, <2>1 DEF SumsOf
<1>5. Over(f, S) = Sum(f)
  BY <1>3 DEF Over
<1>6. Over(f, {}) = 0
  BY <1>1, <1>2 DEF SumsOf
<1>7. \A T \in SUBSET S : Over(f, T) \in Int
  BY <1>2
<1>8. ASSUME NEW T \in SUBSET S, NEW x \in S \ T PROVE Over(f, T \cup {x}) = f[x] + Over(f, T)
  <2>1. T \cup {x} \in SUBSET S
    OBVIOUS
  <2> QED
    BY <1>2, <1>4, <2>1
<1> QED
  BY <1>5, <1>6, <1>7, <1>8

\* Adding up element by element.
LEMMA SetSteps ==
  ASSUME NEW S, IsFiniteSet(S), NEW G, {} \in G, \A T \in SUBSET S : \A x \in S \ T : T \in G => T \cup {x} \in G
  PROVE  S \in G
<1> DEFINE B == {T \in SUBSET S : T \notin G}
<1> SUFFICES ASSUME B # {} PROVE FALSE
  OBVIOUS
<1>1. B \in SUBSET SUBSET S
  OBVIOUS
<1>2. PICK T \in B : \A U \in SUBSET T : U # T => U \notin B
  <2> HIDE DEF B
  <2> QED
    BY <1>1, LeastSet
<1>3. PICK x \in T : TRUE
  OBVIOUS
<1>4. T \ {x} \in SUBSET S /\ T \ {x} \in G /\ x \in S \ (T \ {x}) /\ (T \ {x}) \cup {x} = T
  BY <1>2, <1>3
<1> QED
  BY <1>4

LEMMA SumPlus ==
  ASSUME NEW S, IsFiniteSet(S), NEW f \in [S -> Int], NEW g \in [S -> Int]
  PROVE  Sum([x \in S |-> f[x] + g[x]]) = Sum(f) + Sum(g)
<1> DEFINE h == [x \in S |-> f[x] + g[x]]
           G == {T \in SUBSET S : Over(h, T) = Over(f, T) + Over(g, T)}
<1>1. h \in [S -> Int]
  OBVIOUS
<1>2. \A x \in S : h[x] = f[x] + g[x]
  OBVIOUS
<1> HIDE DEF h
<1>3. {} \in G
  BY <1>1, SumOver
<1>4. ASSUME NEW T \in SUBSET S, NEW x \in S \ T, T \in G PROVE T \cup {x} \in G
  <2>1. /\ Over(h, T \cup {x}) = h[x] + Over(h, T)
        /\ Over(f, T \cup {x}) = f[x] + Over(f, T)
        /\ Over(g, T \cup {x}) = g[x] + Over(g, T)
    BY <1>1, SumOver
  <2>2. f[x] \in Int /\ g[x] \in Int /\ Over(f, T) \in Int /\ Over(g, T) \in Int
    BY SumOver
  <2>3. Over(h, T \cup {x}) = Over(f, T \cup {x}) + Over(g, T \cup {x})
    BY <1>2, <1>4, <2>1, <2>2
  <2> QED
    BY <2>3
<1>5. S \in G
  <2> HIDE DEF G
  <2> QED
    BY <1>3, <1>4, SetSteps
<1>6. Over(h, S) = Sum(h) /\ Over(f, S) = Sum(f) /\ Over(g, S) = Sum(g)
  BY <1>1, SumOver
<1> QED
  BY <1>5, <1>6 DEF h

LEMMA SumLess ==
  ASSUME NEW S, IsFiniteSet(S), NEW f \in [S -> Int], NEW g \in [S -> Int], \A x \in S : f[x] <= g[x]
  PROVE  Sum(f) <= Sum(g)
<1> DEFINE G == {T \in SUBSET S : Over(f, T) <= Over(g, T)}
<1>1. {} \in G
  BY SumOver
<1>2. ASSUME NEW T \in SUBSET S, NEW x \in S \ T, T \in G PROVE T \cup {x} \in G
  <2>1. /\ Over(f, T \cup {x}) = f[x] + Over(f, T)
        /\ Over(g, T \cup {x}) = g[x] + Over(g, T)
    BY SumOver
  <2>2. f[x] \in Int /\ g[x] \in Int /\ Over(f, T) \in Int /\ Over(g, T) \in Int /\ f[x] <= g[x]
    BY SumOver
  <2> QED
    BY <1>2, <2>1, <2>2
<1>3. S \in G
  <2> HIDE DEF G
  <2> QED
    BY <1>1, <1>2, SetSteps
<1> QED
  BY <1>3, SumOver

LEMMA SumPart ==
  ASSUME NEW S, IsFiniteSet(S), NEW P \in SUBSET S, NEW f \in [S -> Int]
  PROVE  Sum([x \in P |-> f[x]]) = Sum([x \in S |-> IF x \in P THEN f[x] ELSE 0])
<1> DEFINE h == [x \in S |-> IF x \in P THEN f[x] ELSE 0]
           G == {T \in SUBSET S : Over(h, T) = Over(f, T \cap P)}
<1>1. h \in [S -> Int] /\ \A x \in S : h[x] = IF x \in P THEN f[x] ELSE 0
  OBVIOUS
<1> HIDE DEF h
<1>2. {} \in G
  <2>1. {} \cap P = {}
    OBVIOUS
  <2> QED
    BY <1>1, <2>1, SumOver
<1>3. ASSUME NEW T \in SUBSET S, NEW x \in S \ T, T \in G PROVE T \cup {x} \in G
  <2>1. Over(h, T \cup {x}) = h[x] + Over(h, T) /\ Over(h, T) \in Int
    BY <1>1, SumOver
  <2>2. CASE x \in P
    <3>1. (T \cup {x}) \cap P = (T \cap P) \cup {x} /\ x \in S \ (T \cap P) /\ T \cap P \in SUBSET S
      BY <2>2
    <3>2. Over(f, (T \cap P) \cup {x}) = f[x] + Over(f, T \cap P)
      BY <3>1, SumOver
    <3> QED
      BY <1>1, <1>3, <2>1, <2>2, <3>1, <3>2
  <2>3. CASE x \notin P
    <3>1. (T \cup {x}) \cap P = T \cap P /\ h[x] = 0
      BY <1>1, <2>3
    <3>2. Over(h, T \cup {x}) = Over(h, T)
      BY <2>1, <3>1
    <3> QED
      BY <1>3, <3>1, <3>2
  <2> QED
    BY <2>2, <2>3
<1>4. S \in G
  <2> HIDE DEF G
  <2> QED
    BY <1>2, <1>3, SetSteps
<1>5. Over(h, S) = Sum(h) /\ S \cap P = P
  BY <1>1, SumOver
<1> QED
  BY <1>4, <1>5 DEF Over, h

\* One number changes.
LEMMA SumChange ==
  ASSUME NEW S, IsFiniteSet(S), NEW f \in [S -> Int], NEW g \in [S -> Int], NEW x \in S,
         \A y \in S \ {x} : g[y] = f[y]
  PROVE  Sum(g) = Sum(f) + g[x] - f[x]
<1> DEFINE T == S \ {x}
<1>1. Over(f, T) = Over(g, T)
  <2>1. [y \in T |-> f[y]] = [y \in T |-> g[y]]
    OBVIOUS
  <2> QED
    BY <2>1 DEF Over
<1>2. T \in SUBSET S /\ x \in S \ T /\ T \cup {x} = S
  OBVIOUS
<1> HIDE DEF T
<1>3. Sum(f) = f[x] + Over(f, T) /\ Sum(g) = g[x] + Over(g, T) /\ Over(f, T) \in Int
  BY <1>2, SumOver
<1>4. f[x] \in Int /\ g[x] \in Int
  OBVIOUS
<1> QED
  BY <1>1, <1>3, <1>4

LEMMA SumInt ==
  ASSUME NEW S, IsFiniteSet(S), NEW f \in [S -> Int]
  PROVE  Sum(f) \in Int
<1>1. Over(f, S) \in Int /\ Over(f, S) = Sum(f)
  BY SumOver
<1> QED
  BY <1>1

\* Two numbers change.
LEMMA SumChangeTwo ==
  ASSUME NEW S, IsFiniteSet(S), NEW f \in [S -> Int], NEW g \in [S -> Int], NEW x \in S, NEW z \in S, x # z,
         \A y \in S \ {x, z} : g[y] = f[y]
  PROVE  Sum(g) = Sum(f) + (g[x] - f[x]) + (g[z] - f[z])
<1> DEFINE h == [f EXCEPT ![x] = g[x]]
<1>1. h \in [S -> Int] /\ h[x] = g[x] /\ h[z] = f[z] /\ (\A y \in S \ {x} : h[y] = f[y]) /\ \A y \in S \ {z} : g[y] = h[y]
  OBVIOUS
<1> HIDE DEF h
<1>2. Sum(h) = Sum(f) + h[x] - f[x]
  BY <1>1, SumChange
<1>3. Sum(g) = Sum(h) + g[z] - h[z]
  BY <1>1, SumChange
<1>4. Sum(f) \in Int /\ Sum(h) \in Int /\ Sum(g) \in Int
  BY <1>1, SumInt
<1>5. f[x] \in Int /\ g[x] \in Int /\ f[z] \in Int /\ g[z] \in Int
  OBVIOUS
<1> QED
  BY <1>1, <1>2, <1>3, <1>4, <1>5

LEMMA SumZero ==
  ASSUME NEW S, IsFiniteSet(S), NEW f \in [S -> Int], \A x \in S : f[x] = 0
  PROVE  Sum(f) = 0
<1>1. [x \in S |-> f[x] + f[x]] = f
  OBVIOUS
<1>2. Sum([x \in S |-> f[x] + f[x]]) = Sum(f) + Sum(f)
  BY SumPlus
<1>3. Sum(f) = Sum(f) + Sum(f)
  BY <1>1, <1>2
<1>4. Sum(f) \in Int
  BY SumInt
<1>5. \A i \in Int : i = i + i => i = 0
  OBVIOUS
<1> QED
  BY <1>3, <1>4, <1>5

LEMMA SumNat ==
  ASSUME NEW S, IsFiniteSet(S), NEW f \in [S -> Nat]
  PROVE  Sum(f) \in Nat /\ \A x \in S : f[x] <= Sum(f)
<1> DEFINE zero == [x \in S |-> 0]
<1>0. f \in [S -> Int] /\ zero \in [S -> Int] /\ \A x \in S : zero[x] = 0 /\ f[x] \in Nat
  OBVIOUS
<1> HIDE DEF zero
<1>1. Sum(zero) = 0 /\ Sum(f) \in Int
  BY <1>0, SumZero, SumInt
<1>2. Sum(f) \in Nat
  <2>1. Sum(zero) <= Sum(f)
    BY <1>0, SumLess
  <2> QED
    BY <1>1, <2>1
<1>3. ASSUME NEW x \in S PROVE f[x] <= Sum(f)
  <2> DEFINE g == [y \in S |-> IF y = x THEN f[x] ELSE 0]
  <2>1. g \in [S -> Int] /\ g[x] = f[x] /\ zero[x] = 0 /\ (\A y \in S \ {x} : g[y] = zero[y]) /\ \A y \in S : g[y] <= f[y]
    BY <1>0
  <2> HIDE DEF g
  <2>2. Sum(g) = Sum(zero) + g[x] - zero[x]
    BY <1>0, <2>1, SumChange
  <2>3. Sum(g) <= Sum(f)
    BY <1>0, <2>1, SumLess
  <2> QED
    BY <1>0, <1>1, <2>1, <2>2, <2>3
<1> QED
  BY <1>2, <1>3

-----------------------------------------------------------------------------
(* Amounts *)

\* What a row is worth, and all that the accounts know of it.
SameWorth(r, s) == r.net = s.net /\ r.gross = s.gross /\ r.order = s.order
SameEntry(r, s) == SameWorth(r, s) /\ r.status = s.status /\ r.offset = s.offset /\ r.settledBy = s.settledBy

\* Only debts are covered, and a transfer is made when something is left to pay.
Good(r) ==
  /\ r \in Row
  /\ IF r.status = "NONE" THEN r.net = 0 /\ r.order = Nobody /\ r.settledBy = Nobody ELSE r.order \in Order
  /\ r.settledBy # Nobody => r.net < 0
  /\ r.status = "TO_TRANSFER" => r.net > r.offset

RowsGood == payout \in [Payout -> Row] /\ \A p \in Payout : Good(payout[p])
CopiesGood ==
  /\ edit.follow \in {"none", "settle", "free", "unhold"}
  /\ \A p \in DOMAIN edit.copies :
       /\ Good(edit.copies[p])
       /\ payout[p].status # "NONE" => edit.copies[p].order = payout[p].order
       /\ ~again => edit.copies[p].net <= payout[p].net

\* A worker keeps what is in its hand at its worth: the payout until it has
\* been recorded, each debt until it has been settled.
Owes(r) == -r.net
JobGood(j, rows) ==
  /\ j.pc \in {"idle", "cycle", "mark", "transfer", "record", "settle"}
  /\ j.event \in [postponed: BOOLEAN, end: 1..MaxDates]
  /\ Working(j) =>
       /\ Good(j.copy) /\ (j.pc # "settle" => SameWorth(j.copy, rows[j.row]))
       /\ j.pc = "record" => j.copy.status \in {"COMPLETED", "FAILED"}
       /\ \A d \in DOMAIN j.covered :
            /\ Good(j.debts[d]) /\ j.debts[d].net < 0 /\ SameWorth(j.debts[d], rows[d])
            /\ j.debts[d].status = "PENDING" /\ j.debts[d].settledBy = Nobody
            /\ j.covered[d] \in 1..Owes(j.debts[d])
JobsGood == \A w \in Worker : JobGood(job[w], payout)

\* The rows as they will be once the handler half-way has saved its copies.
SavedRow(rows, copies, p) == IF p \in DOMAIN copies THEN copies[p] ELSE rows[p]

\* An order that is not refunded has one row, as it was created.
IsSale(o, p, r) == r.order = o => p = o /\ r.gross = Share[o] /\ r.net = Share[o] - Fees[o]
IsOriginal(o, rows, copies) ==
  \A p \in Payout : IsSale(o, p, rows[p]) /\ IsSale(o, p, SavedRow(rows, copies, p))
Originals ==
  \A o \in Order : /\ payout[o].status = "NONE" => refunded[o] = 0
                   /\ refunded[o] = 0 => IsOriginal(o, payout, edit.copies)

\* All rows are worth what the organizer has earned, more after an interrupted
\* handler: what it had not saved is less.
Nets(rows, copies) == [p \in Payout |-> SavedRow(rows, copies, p).net]
EarnedBy(rows, given) == [o \in Order |-> IF rows[o].status = "NONE" THEN 0 ELSE (Share[o] * (2 - given[o])) \div 2 - Fees[o]]
AddUp ==
  ~again =>
    /\ Sum(Nets(payout, edit.copies)) >= Sum(EarnedBy(payout, refunded))
    /\ ~interrupted => Sum(Nets(payout, edit.copies)) = Sum(EarnedBy(payout, refunded))

\* A payout is PROCESSING while a worker pays it.
Attended == \A p \in Payout : payout[p].status = "PROCESSING" =>
              interrupted \/ \E w \in Worker : job[w].pc \in {"transfer", "record"} /\ job[w].row = p

RestTyped ==
  /\ refunded \in [Order -> 0..2] /\ again \in BOOLEAN
  /\ dispute \in [Order -> {"NONE", "OPEN", "CLOSED", "DECIDED"}] /\ freed \subseteq Order
  /\ event \in [postponed: BOOLEAN, end: 1..MaxDates] /\ (event.postponed => event.end < MaxDates)
  /\ announced \in {"none", "hold", "reschedule"}
  /\ account \in {"none", "stripe", "bank"} /\ paid \in Nat
  /\ taken \in BOOLEAN /\ moves \in 0..MaxMoves /\ interrupted \in BOOLEAN

Amounts == RowsGood /\ CopiesGood /\ JobsGood /\ Originals /\ AddUp /\ Attended /\ RestTyped

\* No reserved debt is reduced, and the organizer's shares cover the fees.
FeesCovered == \A o \in Order : Fees[o] <= Share[o]
Exact == Apart /\ "reserved" \notin Overlaps /\ FeesCovered

LEMMA Sets == IsFiniteSet(Payout) /\ Order \subseteq Payout /\ Nobody \notin Payout
  BY FS_Union, PayoutAssumption DEF Payout

LEMMA NoRowGood == Good(NoRow)
<1>1. 0 \in 0..MaxDates
  BY PayoutAssumption
<1> QED
  BY <1>1 DEF Good, NoRow, Row

\* Columns that may be written without changing what a row is worth.
LEMMA WritesHold == ASSUME NEW r, Good(r), NEW b \in BOOLEAN
  PROVE Good([r EXCEPT !.hold = b]) /\ SameEntry([r EXCEPT !.hold = b], r)
  BY DEF Good, Row, SameEntry, SameWorth
LEMMA WritesDue == ASSUME NEW r, Good(r), NEW b \in BOOLEAN
  PROVE Good([r EXCEPT !.due = b]) /\ SameEntry([r EXCEPT !.due = b], r)
  BY DEF Good, Row, SameEntry, SameWorth
LEMMA WritesOld == ASSUME NEW r, Good(r), NEW b \in BOOLEAN
  PROVE Good([r EXCEPT !.old = b]) /\ SameEntry([r EXCEPT !.old = b], r)
  BY DEF Good, Row, SameEntry, SameWorth
LEMMA WritesEarly == ASSUME NEW r, Good(r), NEW e \in {"no", "asked", "approved"}
  PROVE Good([r EXCEPT !.early = e]) /\ SameEntry([r EXCEPT !.early = e], r)
  BY DEF Good, Row, SameEntry, SameWorth
LEMMA WritesEnd == ASSUME NEW r, Good(r), NEW e \in 0..MaxDates
  PROVE Good([r EXCEPT !.end = e]) /\ SameEntry([r EXCEPT !.end = e], r)
  BY DEF Good, Row, SameEntry, SameWorth
LEMMA WritesStatus == ASSUME NEW r, Good(r), r.status # "NONE", NEW s \in PayoutStatus, s = "TO_TRANSFER" => r.net > r.offset
  PROVE /\ Good([r EXCEPT !.status = s]) /\ SameWorth([r EXCEPT !.status = s], r) /\ [r EXCEPT !.status = s].status = s
        /\ [r EXCEPT !.status = s].offset = r.offset /\ [r EXCEPT !.status = s].settledBy = r.settledBy
  BY DEF Good, Row, SameWorth, PayoutStatus
LEMMA WritesOffset == ASSUME NEW r, Good(r), r.status # "TO_TRANSFER", NEW n \in Nat
  PROVE /\ Good([r EXCEPT !.offset = n]) /\ SameWorth([r EXCEPT !.offset = n], r) /\ [r EXCEPT !.offset = n].status = r.status
        /\ [r EXCEPT !.offset = n].offset = n /\ [r EXCEPT !.offset = n].settledBy = r.settledBy
  BY DEF Good, Row, SameWorth
LEMMA WritesSettledBy == ASSUME NEW r, Good(r), NEW q \in Payout \cup {Nobody}, r.status # "NONE", q # Nobody => r.net < 0
  PROVE /\ Good([r EXCEPT !.settledBy = q]) /\ SameWorth([r EXCEPT !.settledBy = q], r) /\ [r EXCEPT !.settledBy = q].settledBy = q
        /\ [r EXCEPT !.settledBy = q].status = r.status /\ [r EXCEPT !.settledBy = q].offset = r.offset
  BY DEF Good, Row, SameWorth
LEMMA WritesNet == ASSUME NEW r, Good(r), r.status \notin {"NONE", "TO_TRANSFER"}, NEW n \in Int, r.settledBy # Nobody => n < 0
  PROVE /\ Good([r EXCEPT !.net = n]) /\ [r EXCEPT !.net = n].net = n /\ [r EXCEPT !.net = n].gross = r.gross
        /\ [r EXCEPT !.net = n].order = r.order /\ [r EXCEPT !.net = n].status = r.status
        /\ [r EXCEPT !.net = n].offset = r.offset /\ [r EXCEPT !.net = n].settledBy = r.settledBy
  BY DEF Good, Row
LEMMA WritesGross == ASSUME NEW r, Good(r), NEW n \in Int
  PROVE /\ Good([r EXCEPT !.gross = n]) /\ [r EXCEPT !.gross = n].gross = n /\ [r EXCEPT !.gross = n].net = r.net
        /\ [r EXCEPT !.gross = n].order = r.order /\ [r EXCEPT !.gross = n].status = r.status
        /\ [r EXCEPT !.gross = n].offset = r.offset /\ [r EXCEPT !.gross = n].settledBy = r.settledBy
  BY DEF Good, Row

-----------------------------------------------------------------------------
(* What rows are worth, step by step *)

\* All rows, and those being saved, stay worth the same.
WorthKept ==
  /\ RowsGood' /\ CopiesGood' /\ UNCHANGED <<refunded, again>> /\ (interrupted => interrupted')
  /\ \A p \in Payout :
       /\ SameWorth(SavedRow(payout', edit'.copies, p), SavedRow(payout, edit.copies, p))
       /\ \/ SameWorth(payout'[p], payout[p])
          \/ SameWorth(payout'[p], SavedRow(payout, edit.copies, p))
  /\ \A o \in Order : payout'[o].status = "NONE" <=> payout[o].status = "NONE"

LEMMA NetsInt ==
  ASSUME RowsGood, CopiesGood
  PROVE  Nets(payout, edit.copies) \in [Payout -> Int]
<1>1. \A p \in Payout : SavedRow(payout, edit.copies, p) \in Row
  BY DEF SavedRow, RowsGood, CopiesGood, Good
<1> QED
  BY <1>1 DEF Nets, Row

\* Shares are even, so halves of them are exact.
LEMMA Halves ==
  ASSUME NEW s \in Nat, s % 4 = 0
  PROVE  /\ (s * 2) \div 2 = s /\ (s * (2 - 0)) \div 2 = s
         /\ \A h \in {1, 2} : /\ (s * (2 - h)) \div 2 = s - (s * h) \div 2 /\ (s * (2 - h)) \div 2 <= s
                              /\ (s * (2 - h)) \div 2 \in Int /\ (s * h) \div 2 \in Int
<1>1. PICK k \in Nat : s = 2 * k
  <2>1. s \div 4 \in Nat /\ s = 4 * (s \div 4) + (s % 4)
    OBVIOUS
  <2> DEFINE q == s \div 4
  <2>2. q \in Nat /\ s = 4 * q
    BY <2>1
  <2> HIDE DEF q
  <2>3. 2 * q \in Nat /\ s = 2 * (2 * q)
    BY <2>2
  <2> QED
    BY <2>3
<1>2. (s * 2) \div 2 = s /\ (s * (2 - 0)) \div 2 = s
  BY <1>1
<1>3. (s * 1) \div 2 = k /\ (s * (2 - 1)) \div 2 = k /\ (s * (2 - 2)) \div 2 = 0
  BY <1>1
<1> QED
  BY <1>1, <1>2, <1>3

LEMMA EarnedInt ==
  ASSUME RestTyped
  PROVE  EarnedBy(payout, refunded) \in [Order -> Int]
<1>1. ASSUME NEW o \in Order
      PROVE  (IF payout[o].status = "NONE" THEN 0 ELSE (Share[o] * (2 - refunded[o])) \div 2 - Fees[o]) \in Int
  <2>1. Share[o] \in Nat /\ Fees[o] \in Nat /\ refunded[o] \in Int
    BY PayoutAssumption DEF RestTyped
  <2>2. Share[o] * (2 - refunded[o]) \in Int
    BY <2>1
  <2>3. \A x \in Int : x \div 2 \in Int
    OBVIOUS
  <2> QED
    BY <2>1, <2>2, <2>3
<1> QED
  BY <1>1 DEF EarnedBy

LEMMA WorthBooks ==
  ASSUME Amounts, WorthKept
  PROVE  Originals' /\ AddUp'
<1>1. Nets(payout', edit'.copies) = Nets(payout, edit.copies)
  <2>1. \A p \in Payout : SavedRow(payout', edit'.copies, p).net = SavedRow(payout, edit.copies, p).net
    BY DEF WorthKept, SameWorth
  <2> QED
    BY <2>1, Zenon DEF Nets
<1>2. EarnedBy(payout', refunded') = EarnedBy(payout, refunded)
  BY DEF WorthKept, EarnedBy
<1>3. Originals'
  <2> SUFFICES ASSUME NEW o \in Order
               PROVE  /\ payout'[o].status = "NONE" => refunded'[o] = 0
                      /\ refunded'[o] = 0 => IsOriginal(o, payout', edit'.copies)
    BY Zenon DEF Originals
  <2>1. payout[o].status = "NONE" => refunded[o] = 0
    BY DEF Amounts, Originals
  <2>2. ASSUME refunded[o] = 0 PROVE IsOriginal(o, payout', edit'.copies)
    <3>1. IsOriginal(o, payout, edit.copies)
      BY <2>2 DEF Amounts, Originals
    <3>2. ASSUME NEW p, NEW r, NEW t, SameWorth(t, r), IsSale(o, p, r) PROVE IsSale(o, p, t)
      BY <3>2 DEF SameWorth, IsSale
    <3>3. ASSUME NEW p \in Payout PROVE IsSale(o, p, payout'[p]) /\ IsSale(o, p, SavedRow(payout', edit'.copies, p))
      BY <3>1, <3>2 DEF IsOriginal, WorthKept
    <3> QED
      BY <3>3, Zenon DEF IsOriginal
  <2> QED
    BY <2>1, <2>2 DEF WorthKept
<1> QED
  BY <1>1, <1>2, <1>3 DEF Amounts, AddUp, WorthKept

\* The rows are worth as much more or less as the organizer earns.
LEMMA AddsAlike ==
  ASSUME Amounts, again => again', interrupted => interrupted',
         NEW x \in Int, Sum(Nets(payout, edit.copies)) \in Int, Sum(EarnedBy(payout, refunded)) \in Int,
         Sum(Nets(payout', edit'.copies)) = Sum(Nets(payout, edit.copies)) + x,
         Sum(EarnedBy(payout', refunded')) = Sum(EarnedBy(payout, refunded)) + x
  PROVE  AddUp'
<1> DEFINE a == Sum(Nets(payout, edit.copies))
           b == Sum(EarnedBy(payout, refunded))
           c == Sum(Nets(payout', edit'.copies))
           d == Sum(EarnedBy(payout', refunded'))
<1>1. a \in Int /\ b \in Int /\ c = a + x /\ d = b + x
  OBVIOUS
<1>2. ~again => a >= b /\ (~interrupted => a = b)
  BY DEF Amounts, AddUp
<1>3. AddUp' <=> (~again' => c >= d /\ (~interrupted' => c = d))
  BY DEF AddUp
<1> HIDE DEF a, b, c, d
<1> QED
  BY <1>1, <1>2, <1>3

\* A row is created, by a sale or by a refund that comes too late.
Creates(p, r) ==
  /\ p \in Payout /\ payout[p].status = "NONE" /\ payout' = [payout EXCEPT ![p] = r] /\ edit' = edit
  /\ p \notin DOMAIN edit.copies /\ (again => again') /\ Good(r) /\ r.status = "PENDING"

LEMMA CreatedRows ==
  ASSUME Base, Amounts, NEW p, NEW r, Creates(p, r)
  PROVE  /\ RowsGood' /\ CopiesGood' /\ p \in Payout /\ payout'[p] = r /\ p \notin DOMAIN edit.copies
         /\ \A q \in Payout \ {p} : payout'[q] = payout[q]
         /\ Sum(Nets(payout', edit'.copies)) = Sum(Nets(payout, edit.copies)) + r.net
         /\ Sum(Nets(payout, edit.copies)) \in Int
<1>1. /\ p \in Payout /\ payout'[p] = r /\ p \notin DOMAIN edit.copies /\ edit' = edit
      /\ DOMAIN edit.copies \subseteq Payout
      /\ \A q \in Payout \ {p} : payout'[q] = payout[q]
  BY DEF Creates, Base, CopiesOK, RowsOK
<1>2. RowsGood'
  <2>1. r \in Row
    BY DEF Creates, Good
  <2> QED
    BY <1>1, <2>1 DEF Creates, RowsGood, Amounts
<1>3. CopiesGood'
  <2>1. \A q \in DOMAIN edit.copies : payout'[q] = payout[q]
    BY <1>1
  <2> QED
    BY <1>1, <2>1 DEF CopiesGood, Amounts, Creates
<1>4. /\ Sum(Nets(payout', edit'.copies)) = Sum(Nets(payout, edit.copies)) + r.net
      /\ Sum(Nets(payout, edit.copies)) \in Int
  <2> DEFINE f == Nets(payout, edit.copies)
             g == Nets(payout', edit'.copies)
  <2>1. f \in [Payout -> Int]
    BY NetsInt DEF Amounts
  <2>2. g \in [Payout -> Int]
    <3>1. \A q \in Payout : SavedRow(payout', edit'.copies, q) \in Row
      BY <1>1, <1>2, <1>3 DEF SavedRow, RowsGood, CopiesGood, Good
    <3> QED
      BY <3>1 DEF Nets, Row
  <2>3. g[p] = r.net /\ f[p] = 0
    BY <1>1 DEF Nets, SavedRow, Creates, Amounts, RowsGood, Good
  <2>4. \A q \in Payout \ {p} : g[q] = f[q]
    BY <1>1 DEF Nets, SavedRow
  <2> HIDE DEF f, g
  <2>5. Sum(g) = Sum(f) + g[p] - f[p] /\ Sum(f) \in Int
    BY <1>1, <2>1, <2>2, <2>4, Sets, SumChange, SumInt
  <2>6. r.net \in Int
    BY DEF Creates, Good, Row
  <2>7. Sum(g) = Sum(f) + r.net
    BY <2>3, <2>5, <2>6
  <2> QED
    BY <2>5, <2>7 DEF f, g
<1> QED
  BY <1>1, <1>2, <1>3, <1>4

\* What one order earns changes.
LEMMA EarnsMore ==
  ASSUME RestTyped, RestTyped', NEW o \in Order,
         \A q \in Order \ {o} : payout'[q].status = payout[q].status /\ refunded'[q] = refunded[q]
  PROVE  /\ Sum(EarnedBy(payout', refunded')) = Sum(EarnedBy(payout, refunded))
                + EarnedBy(payout', refunded')[o] - EarnedBy(payout, refunded)[o]
         /\ Sum(EarnedBy(payout, refunded)) \in Int
<1> DEFINE f == EarnedBy(payout, refunded)
           g == EarnedBy(payout', refunded')
<1>1. f \in [Order -> Int]
  BY EarnedInt
<1>2. g \in [Order -> Int]
  <2>1. ASSUME NEW q \in Order
        PROVE  (IF payout'[q].status = "NONE" THEN 0 ELSE (Share[q] * (2 - refunded'[q])) \div 2 - Fees[q]) \in Int
    <3>1. Share[q] \in Nat /\ Fees[q] \in Nat /\ refunded'[q] \in Int
      BY PayoutAssumption DEF RestTyped
    <3>2. Share[q] * (2 - refunded'[q]) \in Int
      BY <3>1
    <3>3. \A x \in Int : x \div 2 \in Int
      OBVIOUS
    <3> QED
      BY <3>1, <3>2, <3>3
  <2> QED
    BY <2>1 DEF EarnedBy
<1>3. \A q \in Order \ {o} : g[q] = f[q]
  BY DEF EarnedBy
<1> HIDE DEF f, g
<1>4. Sum(g) = Sum(f) + g[o] - f[o] /\ Sum(f) \in Int
  <2>1. IsFiniteSet(Order)
    BY PayoutAssumption
  <2> QED
    BY <1>1, <1>2, <1>3, <2>1, SumChange, SumInt
<1> QED
  BY <1>4 DEF f, g

LEMMA SaleBooks ==
  ASSUME Base, Amounts, RestTyped', NEW o \in Order, CreatePayout(o)
  PROVE  RowsGood' /\ CopiesGood' /\ Originals' /\ AddUp'
<1>1. PICK e \in 1..event.end :
        payout' = [payout EXCEPT ![o] = [NoRow EXCEPT !.status = "PENDING", !.order = o, !.gross = Share[o],
                                                      !.net = Share[o] - Fees[o], !.end = e]]
  BY DEF CreatePayout
<1> DEFINE r == [NoRow EXCEPT !.status = "PENDING", !.order = o, !.gross = Share[o], !.net = Share[o] - Fees[o], !.end = e]
<1>2. r.status = "PENDING" /\ r.order = o /\ r.gross = Share[o] /\ r.net = Share[o] - Fees[o]
  BY DEF NoRow
<1>3. Good(r)
  <2>1. Share[o] \in Int /\ Share[o] - Fees[o] \in Int
    BY PayoutAssumption
  <2>2. e \in 0..MaxDates
    BY PayoutAssumption DEF Amounts, RestTyped
  <2>3. r \in Row
    BY <2>1, <2>2 DEF NoRow, Row, PayoutStatus
  <2> QED
    BY <2>3 DEF Good, NoRow
<1>4. Creates(o, r) /\ UNCHANGED <<refunded, again, interrupted>> /\ refunded[o] = 0
  <2>1. o \in Payout /\ payout[o].status = "NONE"
    BY Sets DEF CreatePayout
  <2>2. o \notin DOMAIN edit.copies
    BY <2>1 DEF Base, CopiesOK
  <2> QED
    BY <1>1, <1>2, <1>3, <2>1, <2>2 DEF Creates, CreatePayout, Amounts, Originals
<1> HIDE DEF r
<1>5. /\ RowsGood' /\ CopiesGood' /\ o \in Payout /\ payout'[o] = r /\ o \notin DOMAIN edit.copies
      /\ \A q \in Payout \ {o} : payout'[q] = payout[q]
      /\ Sum(Nets(payout', edit'.copies)) = Sum(Nets(payout, edit.copies)) + r.net
      /\ Sum(Nets(payout, edit.copies)) \in Int
  BY <1>4, CreatedRows
<1>6. AddUp'
  <2>1. Sum(EarnedBy(payout', refunded')) = Sum(EarnedBy(payout, refunded))
          + EarnedBy(payout', refunded')[o] - EarnedBy(payout, refunded)[o] /\ Sum(EarnedBy(payout, refunded)) \in Int
    BY <1>4, <1>5, Sets, EarnsMore DEF Amounts
  <2>2. EarnedBy(payout', refunded')[o] = r.net /\ EarnedBy(payout, refunded)[o] = 0
    <3>1. (Share[o] * (2 - 0)) \div 2 = Share[o]
      BY Halves, PayoutAssumption
    <3> QED
      BY <1>2, <1>4, <1>5, <3>1 DEF EarnedBy, CreatePayout
  <2>3. r.net \in Int
    BY <1>3 DEF Good, Row
  <2>4. Sum(EarnedBy(payout', refunded')) = Sum(EarnedBy(payout, refunded)) + r.net
    BY <2>1, <2>2, <2>3
  <2> QED
    BY <1>4, <1>5, <2>1, <2>3, <2>4, AddsAlike
<1>7. Originals'
  <2> SUFFICES ASSUME NEW q \in Order
               PROVE  /\ payout'[q].status = "NONE" => refunded'[q] = 0
                      /\ refunded'[q] = 0 => IsOriginal(q, payout', edit'.copies)
    BY Zenon DEF Originals
  <2>1. edit' = edit /\ q \in Payout /\ (payout[q].status = "NONE" => refunded[q] = 0)
        /\ (refunded[q] = 0 => IsOriginal(q, payout, edit.copies))
    BY <1>4, Sets DEF Creates, Amounts, Originals
  <2>2. payout'[q].status = "NONE" => refunded'[q] = 0
    BY <1>4, <1>5, <2>1
  <2>3. ASSUME refunded[q] = 0, NEW p \in Payout
        PROVE  IsSale(q, p, payout'[p]) /\ IsSale(q, p, SavedRow(payout', edit'.copies, p))
    <3>1. CASE p = o
      BY <1>2, <1>5, <2>1, <3>1 DEF IsSale, SavedRow
    <3>2. CASE p # o
      BY <1>5, <2>1, <2>3, <3>2 DEF IsOriginal, SavedRow
    <3> QED
      BY <3>1, <3>2
  <2> QED
    BY <1>4, <2>2, <2>3 DEF IsOriginal
<1> QED
  BY <1>5, <1>6, <1>7


\* The row a first refund finds is the one the sale created.
LEMMA Refunded ==
  ASSUME Base, Amounts, Exact, NEW o \in Order, NEW h \in {1, 2}, Refunds(o, h)
  PROVE  /\ edit = NoEdit /\ refunded[o] \in 0..2 /\ refunded' = [refunded EXCEPT ![o] = refunded[o] + h]
         /\ (again => again') /\ (refunded[o] # 0 => again')
         /\ refunded[o] = 0 => \A p \in RowsOf(o) : p = o /\ payout[p].gross = Share[o] /\ payout[p].net = Share[o] - Fees[o]
         /\ \A p \in RowsOf(o) : payout[o].status # "NONE"
<1>1. /\ edit = NoEdit /\ refunded[o] \in 0..2 /\ refunded' = [refunded EXCEPT ![o] = refunded[o] + h]
      /\ again' = (again \/ refunded[o] > 0)
  <2>1. edit = NoEdit
    BY Alone DEF Refunds, Exact
  <2>2. refunded[o] \in 0..2
    BY DEF Amounts, RestTyped
  <2> QED
    BY <2>1, <2>2 DEF Refunds
<1>2. (again => again') /\ (refunded[o] # 0 => again')
  <2>1. refunded[o] # 0 => refunded[o] > 0
    BY <1>1
  <2> QED
    BY <1>1, <2>1, Zenon
<1>3. ASSUME refunded[o] = 0, NEW p \in RowsOf(o)
      PROVE  p = o /\ payout[p].gross = Share[o] /\ payout[p].net = Share[o] - Fees[o]
  <2>1. IsOriginal(o, payout, edit.copies)
    BY <1>3 DEF Amounts, Originals
  <2> QED
    BY <2>1 DEF IsOriginal, IsSale, RowsOf, Used
<1>4. ASSUME NEW p \in RowsOf(o) PROVE payout[o].status # "NONE"
  <2>1. CASE refunded[o] = 0
    BY <1>3, <2>1 DEF RowsOf, Used
  <2>2. CASE refunded[o] # 0
    BY <2>2 DEF Amounts, Originals
  <2> QED
    BY <2>1, <2>2
<1> QED
  BY <1>1, <1>2, <1>3, <1>4

LEMMA ReduceBooks ==
  ASSUME Base, Amounts, Exact, RestTyped', NEW o \in Order, NEW h \in {1, 2}, RefundReduces(o, h)
  PROVE  RowsGood' /\ CopiesGood' /\ Originals' /\ AddUp'
<1>1. PICK p \in RowsOf(o) :
        /\ payout[p].status \in {"PENDING", "BLOCKED"} /\ payout[p].settledBy = Nobody
        /\ ReadsRow(p, [payout[p] EXCEPT !.gross = (payout[p].gross * (2 - h)) \div 2,
                                         !.net = ((payout[p].gross * (2 - h)) \div 2) - FeesOf(p)])
  BY DEF RefundReduces, Exact
<1> DEFINE gross == (payout[p].gross * (2 - h)) \div 2
           r == [payout[p] EXCEPT !.gross = gross, !.net = gross - FeesOf(p)]
<1>2. /\ edit = NoEdit /\ refunded[o] \in 0..2 /\ refunded' = [refunded EXCEPT ![o] = refunded[o] + h]
      /\ (again => again') /\ (refunded[o] # 0 => again')
      /\ refunded[o] = 0 => p = o /\ payout[p].gross = Share[o] /\ payout[p].net = Share[o] - Fees[o]
      /\ payout[o].status # "NONE" /\ payout' = payout /\ interrupted' = interrupted
      /\ o \in Payout /\ p \in Payout /\ payout[p].order = o /\ ReadsRow(p, r)
  BY <1>1, Refunded, Sets DEF RefundReduces, NotMoved, RowsOf, Used
<1>3. gross \in Int /\ FeesOf(p) \in Int /\ Good(payout[p]) /\ payout[p] \in Row
  <2>1. Good(payout[p]) /\ payout[p] \in Row /\ payout[p].gross \in Int /\ 2 - h \in Int
    BY <1>2 DEF Amounts, RowsGood, Good, Row
  <2>2. payout[p].gross * (2 - h) \in Int
    BY <2>1
  <2>3. \A x \in Int : x \div 2 \in Int
    OBVIOUS
  <2>4. FeesOf(p) \in Int
    BY PayoutAssumption DEF FeesOf
  <2> QED
    BY <2>1, <2>2, <2>3, <2>4
<1>4. /\ Good(r) /\ r.gross = gross /\ r.net = gross - FeesOf(p) /\ r.order = o
  <2> DEFINE n == gross - FeesOf(p)
             g == [payout[p] EXCEPT !.gross = gross]
  <2>1. n \in Int
    BY <1>3
  <2>2. r = [g EXCEPT !.net = n] /\ n = gross - FeesOf(p)
    BY <1>3 DEF Row
  <2> HIDE DEF r, n, gross
  <2>3. Good(g) /\ g.gross = gross /\ g.order = payout[p].order /\ g.status = payout[p].status /\ g.settledBy = Nobody
    BY <1>1, <1>3, WritesGross
  <2> HIDE DEF g
  <2>4. Good(r) /\ r.net = n /\ r.gross = gross /\ r.order = payout[p].order
    BY <1>1, <2>1, <2>2, <2>3, WritesNet
  <2> QED
    BY <1>2, <2>2, <2>4
<1>5. refunded[o] = 0 => /\ p = o /\ FeesOf(p) = Fees[o] /\ gross = (Share[o] * (2 - h)) \div 2 /\ gross <= Share[o]
                         /\ Share[o] \in Int /\ Fees[o] \in Int
  <2>1. Share[o] \in Nat /\ Share[o] % 4 = 0 /\ Fees[o] \in Int
    BY PayoutAssumption
  <2>2. (Share[o] * (2 - h)) \div 2 <= Share[o]
    BY <2>1, Halves
  <2>3. refunded[o] = 0 => p = o /\ payout[p].gross = Share[o]
    BY <1>2
  <2>4. FeesOf(o) = Fees[o]
    BY DEF FeesOf
  <2> QED
    BY <2>1, <2>2, <2>3, <2>4
<1> HIDE DEF r, gross
<1>6. edit'.copies = [q \in {p} |-> r] /\ edit'.follow = "none"
  BY <1>2 DEF ReadsRow, ReadsRows
<1>7. DOMAIN edit'.copies = {p} /\ edit'.copies[p] = r /\ DOMAIN edit.copies = {}
  BY <1>2, <1>6, NoEditOK
<1>8. RowsGood' /\ CopiesGood'
  <2>1. ~again' => r.net <= payout[p].net
    BY <1>2, <1>3, <1>4, <1>5
  <2> QED
    BY <1>2, <1>4, <1>6, <1>7, <2>1 DEF RowsGood, CopiesGood, Amounts
<1>9. AddUp'
  <2> SUFFICES ASSUME ~again' PROVE AddUp'
    BY DEF AddUp
  <2>0. p = o /\ refunded[o] = 0 /\ payout[o].net = Share[o] - Fees[o] /\ refunded' = [refunded EXCEPT ![o] = h]
    <3>1. refunded[o] = 0
      BY <1>2
    <3>2. refunded[o] + h = h
      BY <3>1
    <3> QED
      BY <1>2, <3>1, <3>2
  <2> DEFINE f == Nets(payout, edit.copies)
             g == Nets(payout', edit'.copies)
  <2>1. f \in [Payout -> Int]
    BY NetsInt DEF Amounts
  <2>2. /\ \A q \in Payout \ {o} : g[q] = f[q]
        /\ g[o] = gross - Fees[o] /\ f[o] = Share[o] - Fees[o] /\ g = [q \in Payout |-> g[q]]
    BY <1>2, <1>4, <1>5, <1>7, <2>0 DEF Nets, SavedRow
  <2>3. \A q \in Payout : g[q] \in Int
    BY <1>3, <1>5, <2>0, <2>1, <2>2
  <2>4. f = Nets(payout, edit.copies) /\ g = Nets(payout', edit'.copies)
    OBVIOUS
  <2> HIDE DEF f, g
  <2>5. Sum(g) = Sum(f) + g[o] - f[o] /\ Sum(f) \in Int
    BY <1>2, <2>1, <2>2, <2>3, Sets, SumChange, SumInt
  <2> DEFINE a == EarnedBy(payout, refunded)
             b == EarnedBy(payout', refunded')
  <2>6. Sum(b) = Sum(a) + b[o] - a[o] /\ Sum(a) \in Int
    BY <1>2, <2>0, EarnsMore DEF Amounts, RestTyped
  <2>7. b[o] = gross - Fees[o] /\ a[o] = Share[o] - Fees[o]
    <3>1. (Share[o] * (2 - 0)) \div 2 = Share[o]
      BY Halves, PayoutAssumption
    <3> QED
      BY <1>2, <1>5, <2>0, <3>1 DEF EarnedBy, Amounts, RestTyped
  <2>8. a = EarnedBy(payout, refunded) /\ b = EarnedBy(payout', refunded')
    OBVIOUS
  <2> HIDE DEF a, b
  <2>9. gross - Share[o] \in Int /\ Sum(g) = Sum(f) + (gross - Share[o]) /\ Sum(b) = Sum(a) + (gross - Share[o])
    BY <1>3, <1>5, <2>0, <2>2, <2>5, <2>6, <2>7
  <2> QED
    BY <1>2, <2>4, <2>5, <2>6, <2>8, <2>9, AddsAlike
<1>10. Originals'
  <2> SUFFICES ASSUME NEW q \in Order
               PROVE  /\ payout'[q].status = "NONE" => refunded'[q] = 0
                      /\ refunded'[q] = 0 => IsOriginal(q, payout', edit'.copies)
    BY Zenon DEF Originals
  <2>1. q \in Payout /\ (payout[q].status = "NONE" => refunded[q] = 0)
        /\ (refunded[q] = 0 => IsOriginal(q, payout, edit.copies))
    BY Sets DEF Amounts, Originals
  <2>2. CASE q = o
    <3>1. refunded'[o] # 0
      BY <1>2 DEF Amounts, RestTyped
    <3> QED
      BY <1>2, <2>2, <3>1
  <2>3. CASE q # o
    <3>1. refunded'[q] = refunded[q]
      BY <1>2, <2>3 DEF Amounts, RestTyped
    <3>2. IsSale(q, p, r)
      BY <1>4, <2>3 DEF IsSale
    <3> QED
      BY <1>2, <1>7, <2>1, <3>1, <3>2 DEF IsOriginal, SavedRow
  <2> QED
    BY <2>2, <2>3
<1> QED
  BY <1>8, <1>9, <1>10

LEMMA AdjustBooks ==
  ASSUME Base, Amounts, Exact, RestTyped', NEW o \in Order, NEW h \in {1, 2}, RefundAdjusts(o, h)
  PROVE  RowsGood' /\ CopiesGood' /\ Originals' /\ AddUp'
<1>1. PICK p \in RowsOf(o) :
        payout' = [payout EXCEPT ![NewRow] = [NoRow EXCEPT !.status = "PENDING", !.order = o,
                                                           !.gross = -((payout[p].gross * h) \div 2),
                                                           !.net = -((payout[p].gross * h) \div 2), !.due = TRUE]]
  BY DEF RefundAdjusts
<1> DEFINE back == -((payout[p].gross * h) \div 2)
           r == [NoRow EXCEPT !.status = "PENDING", !.order = o, !.gross = back, !.net = back, !.due = TRUE]
           n == NewRow
<1>2. /\ edit = NoEdit /\ refunded[o] \in 0..2 /\ refunded' = [refunded EXCEPT ![o] = refunded[o] + h]
      /\ (again => again') /\ (refunded[o] # 0 => again')
      /\ refunded[o] = 0 => p = o /\ payout[p].gross = Share[o]
      /\ payout[o].status # "NONE" /\ edit' = edit /\ interrupted' = interrupted
      /\ o \in Payout /\ p \in Payout /\ payout' = [payout EXCEPT ![n] = r]
      /\ n \in Payout \ Order /\ payout[n].status = "NONE"
  <2>1. n \in Payout \ Order /\ payout[n].status = "NONE"
    BY DEF RefundAdjusts, NewRow, Free, Used
  <2>2. Refunds(o, h) /\ edit' = edit /\ interrupted' = interrupted
    BY DEF RefundAdjusts, NotMoved
  <2>3. o \in Payout /\ p \in Payout
    BY Sets DEF RowsOf, Used
  <2>4. /\ edit = NoEdit /\ refunded[o] \in 0..2 /\ refunded' = [refunded EXCEPT ![o] = refunded[o] + h]
        /\ (again => again') /\ (refunded[o] # 0 => again')
        /\ refunded[o] = 0 => p = o /\ payout[p].gross = Share[o]
        /\ payout[o].status # "NONE"
    BY <2>2, Refunded
  <2> QED
    BY <1>1, <2>1, <2>2, <2>3, <2>4
<1>3. back \in Int
  <2>1. payout[p].gross \in Int /\ h \in Int
    BY <1>2 DEF Amounts, RowsGood, Good, Row
  <2>2. payout[p].gross * h \in Int
    BY <2>1
  <2>3. \A x \in Int : -(x \div 2) \in Int
    OBVIOUS
  <2> QED
    BY <2>2, <2>3
<1>4. refunded[o] = 0 => /\ (Share[o] * (2 - h)) \div 2 = Share[o] + back /\ Share[o] \in Int /\ Fees[o] \in Int
  <2>1. /\ (Share[o] * (2 - h)) \div 2 = Share[o] - (Share[o] * h) \div 2 /\ (Share[o] * h) \div 2 \in Int
        /\ Share[o] \in Int /\ Fees[o] \in Int
    <3>1. Share[o] \in Nat /\ Share[o] % 4 = 0 /\ Fees[o] \in Nat
      BY PayoutAssumption
    <3> DEFINE s == Share[o]
    <3>2. s \in Nat /\ s % 4 = 0 /\ s = Share[o]
      BY <3>1
    <3> HIDE DEF s, back
    <3>3. (s * (2 - h)) \div 2 = s - (s * h) \div 2 /\ (s * h) \div 2 \in Int
      BY <3>2, Halves
    <3> QED
      BY <3>1, <3>2, <3>3
  <2> QED
    BY <1>2, <2>1
<1> HIDE DEF back
<1>5. Good(r) /\ r.net = back /\ r.order = o /\ r.status = "PENDING"
  <2>1. 0 \in 0..MaxDates
    BY PayoutAssumption
  <2>2. r \in Row
    BY <1>3, <2>1 DEF NoRow, Row, PayoutStatus
  <2> QED
    BY <2>2 DEF Good, NoRow
<1> HIDE DEF r, n
<1>6. n \in Payout \ Order /\ Creates(n, r)
  <2>1. DOMAIN edit.copies = {}
    BY <1>2, NoEditOK
  <2> QED
    BY <1>2, <1>5, <2>1 DEF Creates
<1>7. /\ RowsGood' /\ CopiesGood' /\ payout'[n] = r /\ n \notin DOMAIN edit.copies
      /\ \A q \in Payout \ {n} : payout'[q] = payout[q]
      /\ Sum(Nets(payout', edit'.copies)) = Sum(Nets(payout, edit.copies)) + r.net
      /\ Sum(Nets(payout, edit.copies)) \in Int
  BY <1>6, CreatedRows
<1>8. \A q \in Order : q \in Payout /\ payout'[q] = payout[q]
  BY <1>6, <1>7, Sets
<1>9. AddUp'
  <2> SUFFICES ASSUME ~again' PROVE AddUp'
    BY DEF AddUp
  <2>0. refunded[o] = 0 /\ refunded' = [refunded EXCEPT ![o] = h]
    <3>1. refunded[o] = 0
      BY <1>2
    <3>2. refunded[o] + h = h
      BY <3>1
    <3> QED
      BY <1>2, <3>1, <3>2
  <2> DEFINE a == EarnedBy(payout, refunded)
             b == EarnedBy(payout', refunded')
  <2>1. Sum(b) = Sum(a) + b[o] - a[o] /\ Sum(a) \in Int
    BY <1>8, <2>0, EarnsMore DEF Amounts, RestTyped
  <2>2. b[o] = Share[o] + back - Fees[o] /\ a[o] = Share[o] - Fees[o]
    <3>1. (Share[o] * (2 - 0)) \div 2 = Share[o]
      BY Halves, PayoutAssumption
    <3>2. refunded'[o] = h /\ payout'[o].status # "NONE"
      BY <1>2, <1>8, <2>0 DEF Amounts, RestTyped
    <3> DEFINE x == (Share[o] * (2 - h)) \div 2
               y == (Share[o] * (2 - 0)) \div 2
    <3>3. a[o] = y - Fees[o] /\ b[o] = x - Fees[o]
      BY <1>2, <2>0, <3>2 DEF EarnedBy
    <3>4. x = Share[o] + back /\ y = Share[o]
      BY <1>4, <2>0, <3>1
    <3>5. Share[o] \in Int /\ Fees[o] \in Int /\ back \in Int
      BY <1>3, <1>4, <2>0
    <3> HIDE DEF a, b, x, y
    <3> QED
      BY <3>3, <3>4, <3>5
  <2>3. a = EarnedBy(payout, refunded) /\ b = EarnedBy(payout', refunded')
    OBVIOUS
  <2> HIDE DEF a, b
  <2>4. Sum(b) = Sum(a) + back
    BY <1>3, <1>4, <2>0, <2>1, <2>2
  <2> QED
    BY <1>2, <1>3, <1>5, <1>7, <2>1, <2>3, <2>4, AddsAlike
<1>10. Originals'
  <2> SUFFICES ASSUME NEW q \in Order
               PROVE  /\ payout'[q].status = "NONE" => refunded'[q] = 0
                      /\ refunded'[q] = 0 => IsOriginal(q, payout', edit'.copies)
    BY Zenon DEF Originals
  <2>1. q \in Payout /\ (payout[q].status = "NONE" => refunded[q] = 0)
        /\ (refunded[q] = 0 => IsOriginal(q, payout, edit.copies))
    BY Sets DEF Amounts, Originals
  <2>2. CASE q = o
    <3>1. refunded'[o] # 0
      BY <1>2 DEF Amounts, RestTyped
    <3> QED
      BY <1>2, <1>8, <2>2, <3>1
  <2>3. CASE q # o
    <3>1. refunded'[q] = refunded[q]
      BY <1>2, <2>3 DEF Amounts, RestTyped
    <3>2. IsSale(q, n, r)
      BY <1>5, <2>3 DEF IsSale
    <3> QED
      BY <1>2, <1>7, <1>8, <2>1, <3>1, <3>2 DEF IsOriginal, SavedRow
  <2> QED
    BY <2>2, <2>3
<1> QED
  BY <1>7, <1>9, <1>10


\* A debt covered in part: it keeps the rest, and a row for the part is to be saved.
SplitsDebt(d, r, n, s) ==
  /\ d \in Payout /\ n \in Payout \ Order /\ payout[n].status = "NONE" /\ payout[d].status # "NONE"
  /\ edit = NoEdit /\ edit'.copies = [q \in {n} |-> s] /\ edit'.follow = "none"
  /\ UNCHANGED <<refunded, again, interrupted>> /\ payout' = [payout EXCEPT ![d] = r]
  /\ Good(r) /\ r.status # "NONE" /\ r.order = payout[d].order
  /\ Good(s) /\ s.status # "NONE" /\ s.order = payout[d].order /\ s.net < 0
  /\ payout[d].net < 0 /\ r.net + s.net = payout[d].net

LEMMA SplitBooks ==
  ASSUME Base, Amounts, Exact, NEW d, NEW r, NEW n, NEW s, SplitsDebt(d, r, n, s)
  PROVE  RowsGood' /\ CopiesGood' /\ Originals' /\ AddUp'
<1>1. /\ d \in Payout /\ n \in Payout /\ n \notin Order /\ d # n /\ payout'[d] = r /\ payout'[n] = payout[n]
      /\ UNCHANGED <<refunded, again, interrupted>>
      /\ \A q \in Payout \ {d} : payout'[q] = payout[q]
      /\ payout' = [q \in Payout |-> payout'[q]]
  BY DEF SplitsDebt, Base, RowsOK
<1>2. /\ Good(r) /\ Good(s) /\ r.net \in Int /\ s.net \in Int /\ payout[d].net \in Int /\ payout[d].net < 0 /\ s.net < 0
      /\ r.net + s.net = payout[d].net /\ r.order = payout[d].order /\ s.order = payout[d].order
      /\ r.status # "NONE" /\ s.status # "NONE" /\ payout[d].status # "NONE"
      /\ payout[n].status = "NONE" /\ payout[n].net = 0 /\ payout[n].order = Nobody
  BY <1>1 DEF SplitsDebt, Good, Row, Amounts, RowsGood
<1>3. DOMAIN edit.copies = {} /\ DOMAIN edit'.copies = {n} /\ edit'.copies[n] = s /\ edit'.follow = "none"
  BY NoEditOK DEF SplitsDebt
<1>4. RowsGood' /\ CopiesGood'
  <2>1. \A q \in Payout : Good(payout'[q])
    BY <1>1, <1>2 DEF Amounts, RowsGood
  <2> QED
    BY <1>1, <1>2, <1>3, <2>1 DEF RowsGood, CopiesGood, Good
<1>5. AddUp'
  <2> DEFINE f == Nets(payout, edit.copies)
             g == Nets(payout', edit'.copies)
  <2>1. f \in [Payout -> Int]
    BY NetsInt DEF Amounts
  <2>2. /\ \A q \in Payout \ {d, n} : g[q] = f[q]
        /\ g[d] = r.net /\ g[n] = s.net /\ f[d] = payout[d].net /\ f[n] = 0 /\ g = [q \in Payout |-> g[q]]
    BY <1>1, <1>2, <1>3 DEF Nets, SavedRow
  <2>3. \A q \in Payout : g[q] \in Int
    BY <1>2, <2>1, <2>2
  <2>4. f = Nets(payout, edit.copies) /\ g = Nets(payout', edit'.copies)
    OBVIOUS
  <2> HIDE DEF f, g
  <2>5. Sum(g) = Sum(f) + (g[d] - f[d]) + (g[n] - f[n]) /\ Sum(f) \in Int
    BY <1>1, <2>1, <2>2, <2>3, Sets, SumChangeTwo, SumInt
  <2>6. Sum(g) = Sum(f)
    BY <1>2, <2>2, <2>5
  <2>7. EarnedBy(payout', refunded') = EarnedBy(payout, refunded)
    <3>1. \A o \in Order : payout'[o].status = "NONE" <=> payout[o].status = "NONE"
      BY <1>1, <1>2, Sets
    <3> QED
      BY <1>1, <3>1 DEF EarnedBy
  <2> QED
    BY <1>1, <2>4, <2>6, <2>7 DEF AddUp, Amounts
<1>6. Originals'
  <2> SUFFICES ASSUME NEW o \in Order
               PROVE  /\ payout'[o].status = "NONE" => refunded'[o] = 0
                      /\ refunded'[o] = 0 => IsOriginal(o, payout', edit'.copies)
    BY Zenon DEF Originals
  <2>1. o \in Payout /\ (payout[o].status = "NONE" => refunded[o] = 0)
        /\ (refunded[o] = 0 => IsOriginal(o, payout, edit.copies))
    BY Sets DEF Amounts, Originals
  <2>2. ASSUME refunded[o] = 0 PROVE payout[d].order # o
    <3>1. SUFFICES ASSUME payout[d].order = o PROVE FALSE
      OBVIOUS
    <3>2. payout[d].net = Share[o] - Fees[o]
      BY <1>1, <2>1, <2>2, <3>1 DEF IsOriginal, IsSale
    <3> QED
      BY <1>2, <3>2, PayoutAssumption DEF Exact, FeesCovered
  <2>3. ASSUME refunded[o] = 0, NEW p \in Payout
        PROVE  IsSale(o, p, payout'[p]) /\ IsSale(o, p, SavedRow(payout', edit'.copies, p))
    <3>1. IsSale(o, p, payout[p]) /\ IsSale(o, d, r) /\ IsSale(o, n, s)
      BY <1>2, <2>1, <2>2, <2>3 DEF IsOriginal, IsSale
    <3> QED
      BY <1>1, <1>3, <3>1 DEF SavedRow
  <2>4. payout'[o].status = "NONE" => payout[o].status = "NONE"
    BY <1>1, <1>2, <2>1
  <2> QED
    BY <1>1, <2>1, <2>3, <2>4 DEF IsOriginal
<1> QED
  BY <1>4, <1>5, <1>6

\* What was read is never saved: the rows are worth what they were.
LEMMA DropBooks ==
  ASSUME Base, Amounts, edit' = NoEdit, UNCHANGED <<payout, refunded, again>>, interrupted'
  PROVE  RowsGood' /\ CopiesGood' /\ Originals' /\ AddUp'
<1>1. DOMAIN edit'.copies = {} /\ edit'.follow = "none"
  BY NoEditOK
<1>2. RowsGood' /\ CopiesGood'
  BY <1>1 DEF Amounts, RowsGood, CopiesGood
<1>3. Originals'
  BY <1>1 DEF Amounts, Originals, IsOriginal, SavedRow
<1>4. AddUp'
  <2> SUFFICES ASSUME ~again PROVE AddUp'
    BY DEF AddUp
  <2> DEFINE f == Nets(payout, edit.copies)
             g == Nets(payout', edit'.copies)
  <2>1. f \in [Payout -> Int]
    BY NetsInt DEF Amounts
  <2>2. g \in [Payout -> Int] /\ \A p \in Payout : g[p] = payout[p].net
    BY <1>1, <1>2 DEF Nets, SavedRow, RowsGood, Row
  <2>3. \A p \in Payout : f[p] <= g[p]
    <3>1. \A p \in DOMAIN edit.copies : edit.copies[p].net <= payout[p].net
      BY DEF Amounts, CopiesGood
    <3>2. \A p \in Payout : f[p] = SavedRow(payout, edit.copies, p).net /\ g[p] \in Int
      BY <2>2 DEF Nets
    <3> QED
      BY <2>2, <3>1, <3>2 DEF SavedRow
  <2> HIDE DEF f, g
  <2>4. Sum(f) <= Sum(g) /\ Sum(f) \in Int /\ Sum(g) \in Int
    BY <2>1, <2>2, <2>3, Sets, SumLess, SumInt
  <2> DEFINE a == EarnedBy(payout, refunded)
  <2>5. a \in [Order -> Int] /\ IsFiniteSet(Order)
    BY EarnedInt, PayoutAssumption DEF Amounts
  <2>6. EarnedBy(payout', refunded') = a
    BY DEF EarnedBy
  <2>7. Sum(f) >= Sum(a)
    BY DEF Amounts, AddUp, f
  <2> HIDE DEF a
  <2>8. Sum(a) \in Int
    BY <2>5, SumInt
  <2>9. Sum(g) >= Sum(a)
    BY <2>4, <2>7, <2>8
  <2> QED
    BY <2>6, <2>9 DEF AddUp, g
<1> QED
  BY <1>2, <1>3, <1>4


\* Rows are rewritten in place, none is read.
Rewrites ==
  /\ payout' = [p \in Payout |-> payout'[p]] /\ UNCHANGED <<refunded, again>> /\ (interrupted => interrupted')
  /\ edit' = edit \/ (DOMAIN edit.copies = {} /\ edit' = NoEdit)
  /\ \A p \in Payout : /\ Good(payout'[p]) /\ SameWorth(payout'[p], payout[p])
                       /\ payout'[p].status = "NONE" <=> payout[p].status = "NONE"

LEMMA RewritesKeep ==
  ASSUME Base, Amounts, Rewrites
  PROVE  WorthKept
<1>1. RowsGood'
  BY DEF Rewrites, RowsGood, Good
<1>2. \A o \in Order : payout'[o].status = "NONE" <=> payout[o].status = "NONE"
  BY Sets DEF Rewrites
<1>3. CASE edit' = edit
  <2>1. CopiesGood'
    <3>1. \A p \in DOMAIN edit.copies : /\ payout'[p].order = payout[p].order /\ payout'[p].net = payout[p].net
                                        /\ payout'[p].status = "NONE" <=> payout[p].status = "NONE"
      BY DEF Rewrites, SameWorth, Base, CopiesOK
    <3> QED
      BY <1>3, <3>1 DEF CopiesGood, Amounts, Rewrites
  <2> QED
    BY <1>1, <1>2, <1>3, <2>1 DEF Rewrites, WorthKept, SavedRow, SameWorth
<1>4. CASE DOMAIN edit.copies = {} /\ edit' = NoEdit
  <2>1. DOMAIN edit'.copies = {} /\ CopiesGood'
    BY <1>4, NoEditOK DEF CopiesGood
  <2> QED
    BY <1>1, <1>2, <1>4, <2>1 DEF Rewrites, WorthKept, SavedRow, SameWorth
<1> QED
  BY <1>3, <1>4 DEF Rewrites

\* Rows are read, and will be saved at the same worth.
ReadsAlike ==
  /\ edit = NoEdit /\ UNCHANGED <<payout, refunded, again>> /\ (interrupted => interrupted')
  /\ edit'.follow \in {"none", "settle", "free", "unhold"}
  /\ \A p \in DOMAIN edit'.copies : p \in Payout /\ Good(edit'.copies[p]) /\ SameWorth(edit'.copies[p], payout[p])

LEMMA ReadsKeep ==
  ASSUME Amounts, ReadsAlike
  PROVE  WorthKept
<1>1. RowsGood' /\ DOMAIN edit.copies = {}
  BY NoEditOK DEF ReadsAlike, RowsGood, Amounts
<1>2. CopiesGood'
  <2>1. \A p \in Payout : payout[p].net \in Int /\ payout' = payout
    BY DEF ReadsAlike, RowsGood, Amounts, Row
  <2> QED
    BY <2>1 DEF ReadsAlike, CopiesGood, SameWorth
<1> QED
  BY <1>1, <1>2 DEF WorthKept, ReadsAlike, SavedRow, SameWorth

LEMMA SaveKeeps ==
  ASSUME Base, Amounts, EditSave
  PROVE  WorthKept
<1>1. /\ payout' = [p \in Payout |-> SavedRow(payout, edit.copies, p)] /\ UNCHANGED <<refunded, again, interrupted>>
      /\ edit' \in {NoEdit, [edit EXCEPT !.copies = Empty]}
  BY DEF EditSave, SavedRow
<1>2. DOMAIN edit'.copies = {} /\ edit'.follow \in {"none", "settle", "free", "unhold"}
  BY <1>1, NoEditOK, EmptyDomain DEF Base, CopiesOK, EditFields, Amounts, CopiesGood
<1>3. /\ \A p \in Payout : Good(SavedRow(payout, edit.copies, p))
      /\ \A o \in Order : SavedRow(payout, edit.copies, o).status = "NONE" <=> payout[o].status = "NONE"
  BY Sets DEF SavedRow, Amounts, CopiesGood, RowsGood, Base, CopiesOK, Is
<1>4. RowsGood' /\ CopiesGood'
  BY <1>1, <1>2, <1>3 DEF RowsGood, CopiesGood, Good
<1>5. \A p \in Payout : SavedRow(payout', edit'.copies, p) = SavedRow(payout, edit.copies, p)
                        /\ payout'[p] = SavedRow(payout, edit.copies, p)
  BY <1>1, <1>2 DEF SavedRow
<1> QED
  BY <1>1, <1>3, <1>4, <1>5, Sets DEF WorthKept, SameWorth

\* Nobody but workers touches the rows in hand.
Passive ==
  /\ job' = job /\ (interrupted => interrupted')
  /\ \A p \in Payout : /\ payout'[p].status = "PROCESSING" => payout[p].status = "PROCESSING"
                       /\ InHand(p) /\ payout[p].status # "NONE" => SameWorth(payout'[p], payout[p])

\* What a worker still has to save.
Keeps(j) == (IF j.pc = "settle" THEN {} ELSE {j.row}) \cup DOMAIN j.covered

LEMMA KeepsInHand ==
  ASSUME Base, Amounts, NEW w \in Worker, Working(job[w]), NEW p \in Keeps(job[w])
  PROVE  p \in Payout /\ InHand(p) /\ payout[p].status # "NONE"
<1>1. /\ JobOK(job[w]) /\ JobGood(job[w], payout)
  BY DEF Base, JobsOK, Amounts, JobsGood
<1>2. p \in Payout /\ InHand(p)
  BY <1>1 DEF JobOK, Keeps, InHand, Working
<1>3. \E r : Good(r) /\ Is(p, r) /\ SameWorth(r, payout[p])
  BY <1>1 DEF JobOK, JobGood, Keeps
<1>4. payout[p].order # Nobody
  BY <1>3, PayoutAssumption DEF Good, Is, SameWorth
<1> QED
  BY <1>2, <1>4 DEF Amounts, RowsGood, Good

\* A job stays good when what it keeps is worth the same.
LEMMA JobStays ==
  ASSUME NEW j, NEW rows, NEW new, JobGood(j, rows), Working(j) => \A p \in Keeps(j) : SameWorth(new[p], rows[p])
  PROVE  JobGood(j, new)
  BY DEF JobGood, Keeps, SameWorth

LEMMA PassiveKeeps ==
  ASSUME Base, Amounts, Passive
  PROVE  JobsGood' /\ Attended'
<1>1. ASSUME NEW w \in Worker PROVE JobGood(job[w], payout')
  BY KeepsInHand, JobStays DEF Passive, Amounts, JobsGood
<1> QED
  BY <1>1 DEF Passive, JobsGood, Attended, Amounts

\* One worker goes on.
LEMMA WorkerKeeps ==
  ASSUME Base, Amounts, NEW w \in Worker, NEW j, job' = [job EXCEPT ![w] = j], JobGood(j, payout'),
         \A v \in Worker \ {w} : Working(job[v]) => \A p \in Payout : SameWorth(payout'[p], payout[p])
  PROVE  JobsGood'
<1>1. job'[w] = j /\ \A v \in Worker \ {w} : job'[v] = job[v]
  BY DEF Base, JobsOK
<1>2. ASSUME NEW v \in Worker PROVE JobGood(job'[v], payout')
  BY <1>1, <1>2, KeepsInHand, JobStays DEF Amounts, JobsGood
<1> QED
  BY <1>2 DEF JobsGood

-----------------------------------------------------------------------------
(* The handlers, and what rows are worth *)

LEMMA UsedRow ==
  ASSUME Base, Amounts, NEW p \in Payout
  PROVE  Good(payout[p]) /\ payout[p] \in Row
  BY DEF Amounts, RowsGood, Good

\* One row is read, or none.
LEMMA OneRead ==
  ASSUME Amounts, Apart, NEW p \in Payout, Undisturbed(p), UNCHANGED <<payout, refunded, again, interrupted>>,
         NEW r, Good(r), SameWorth(r, payout[p]),
         \/ \E f \in {"none", "settle", "free"} : \E o : ReadsRows([q \in {p} |-> r], f, o, Nobody)
         \/ edit' = edit
  PROVE  ReadsAlike
<1>1. edit = NoEdit
  BY AloneRow
<1>2. CASE edit' = edit
  BY <1>1, <1>2, NoEditOK DEF ReadsAlike
<1>3. ASSUME NEW f \in {"none", "settle", "free"}, NEW o, ReadsRows([q \in {p} |-> r], f, o, Nobody)
      PROVE  ReadsAlike
  <2>1. edit'.copies = [q \in {p} |-> r] /\ edit'.follow = f
    BY <1>3 DEF ReadsRows
  <2>2. DOMAIN edit'.copies = {p} /\ edit'.copies[p] = r
    BY <2>1
  <2> QED
    BY <1>1, <2>1, <2>2 DEF ReadsAlike
<1> QED
  BY <1>2, <1>3

LEMMA BlockAlike ==
  ASSUME Base, Amounts, Apart, NEW p \in Payout, Block(p) \/ UnblockByAdmin(p) \/ UnblockExpired(p)
  PROVE  ReadsAlike
<1>1. Good(payout[p]) /\ payout[p] \in Row /\ payout[p].status # "NONE"
  BY UsedRow DEF Block, UnblockByAdmin, UnblockExpired, Unblock, Used
<1>2. /\ Good(Blocked(p)) /\ SameWorth(Blocked(p), payout[p])
      /\ Good(Unblocked(p)) /\ SameWorth(Unblocked(p), payout[p])
  BY <1>1 DEF Blocked, Unblocked, Good, Row, PayoutStatus, SameWorth
<1>3. CASE Block(p)
  BY <1>2, <1>3, OneRead DEF Block, ReadsRow, NotMoved
<1>4. CASE Unblock(p)
  BY <1>2, <1>4, OneRead DEF Unblock, ReadsRow, NotMoved
<1> QED
  BY <1>3, <1>4 DEF UnblockByAdmin, UnblockExpired

LEMMA DisputeAlike ==
  ASSUME Base, Amounts, Exact, NEW o \in Order, NEW v, OpenDispute(o) \/ ResolveDispute(o, v)
  PROVE  ReadsAlike
<1>1. UNCHANGED <<payout, refunded, again, interrupted>> /\ Apart
  BY DEF OpenDispute, ResolveDispute, NotMoved, Exact
<1>2. PICK p \in RowsOf(o) :
        /\ Undisturbed(p)
        /\ \/ payout[p].status = "PENDING" /\ ReadsRow(p, Blocked(p))
           \/ payout[p].status = "BLOCKED" /\ ReadsRow(p, Unblocked(p))
           \/ edit' = edit
  BY DEF OpenDispute, ResolveDispute
<1>3. p \in Payout /\ payout[p].status # "NONE" /\ Good(payout[p]) /\ payout[p] \in Row
  BY UsedRow DEF RowsOf, Used
<1>4. /\ Good(Blocked(p)) /\ SameWorth(Blocked(p), payout[p])
      /\ Good(Unblocked(p)) /\ SameWorth(Unblocked(p), payout[p])
  BY <1>3 DEF Blocked, Unblocked, Good, Row, PayoutStatus, SameWorth
<1>5. CASE edit' = edit
  BY <1>1, <1>2, <1>3, <1>5, OneRead DEF SameWorth
<1>6. CASE ReadsRow(p, Blocked(p))
  BY <1>1, <1>2, <1>3, <1>4, <1>6, OneRead DEF ReadsRow
<1>7. CASE ReadsRow(p, Unblocked(p))
  BY <1>1, <1>2, <1>3, <1>4, <1>7, OneRead DEF ReadsRow
<1> QED
  BY <1>2, <1>5, <1>6, <1>7

LEMMA EarlyAlike ==
  ASSUME Base, Amounts, Apart, NEW p \in Payout, RequestEarly(p) \/ ApproveEarly(p)
  PROVE  ReadsAlike
<1>1. Good(payout[p]) /\ payout[p] \in Row /\ Undisturbed(p) /\ UNCHANGED <<payout, refunded, again, interrupted>>
  BY UsedRow DEF RequestEarly, ApproveEarly, NotMoved
<1> DEFINE r == [payout[p] EXCEPT !.early = "asked"]
           s == [payout[p] EXCEPT !.early = "approved", !.due = TRUE]
<1>2. Good(r) /\ SameWorth(r, payout[p]) /\ Good(s) /\ SameWorth(s, payout[p])
  BY <1>1 DEF Good, Row, SameWorth
<1>3. ReadsRow(p, r) \/ ReadsRow(p, s)
  BY DEF RequestEarly, ApproveEarly
<1> HIDE DEF r, s
<1> QED
  BY <1>1, <1>2, <1>3, OneRead DEF ReadsRow

LEMMA TransferAlike ==
  ASSUME Base, Amounts, Apart, NEW p \in Payout, ConfirmBankTransfer(p) \/ ReleaseBankTransfer(p)
  PROVE  ReadsAlike
<1>1. /\ Good(payout[p]) /\ payout[p] \in Row /\ Undisturbed(p) /\ UNCHANGED <<payout, refunded, again, interrupted>>
      /\ payout[p].status = "TO_TRANSFER"
  BY UsedRow DEF ConfirmBankTransfer, ReleaseBankTransfer, NotMoved
<1> DEFINE r == [payout[p] EXCEPT !.status = "COMPLETED"]
           s == [payout[p] EXCEPT !.status = "PENDING", !.offset = 0]
<1>2. Good(r) /\ SameWorth(r, payout[p]) /\ Good(s) /\ SameWorth(s, payout[p])
  BY <1>1 DEF Good, Row, SameWorth, PayoutStatus
<1>3. ReadsRows([q \in {p} |-> r], "settle", p, Nobody) \/ ReadsRows([q \in {p} |-> s], "free", p, Nobody)
  BY DEF ConfirmBankTransfer, ReleaseBankTransfer
<1> HIDE DEF r, s
<1> QED
  BY <1>1, <1>2, <1>3, OneRead

LEMMA RescheduleAlike ==
  ASSUME Base, Amounts, NEW end \in 0..MaxDates, NEW w, Reschedules(end, w), UNCHANGED <<payout, refunded, again, interrupted>>
  PROVE  ReadsAlike
<1> DEFINE targets == {p \in Payout : Unpaid(p) /\ payout[p].net > 0}
           new(p) == [payout[p] EXCEPT !.end = end, !.due = FALSE, !.hold = FALSE, !.early = "no"]
<1>1. edit = NoEdit /\ edit' = [copies |-> [p \in targets |-> new(p)], follow |-> "unhold", of |-> Nobody, worker |-> w]
  BY DEF Reschedules, ReadsRows
<1>2. ASSUME NEW p \in targets PROVE Good(new(p)) /\ SameWorth(new(p), payout[p])
  <2>1. Good(payout[p]) /\ payout[p] \in Row
    BY UsedRow
  <2> QED
    BY <2>1 DEF Good, Row, SameWorth
<1> HIDE DEF new
<1>3. DOMAIN edit'.copies = targets /\ (\A p \in targets : p \in Payout /\ edit'.copies[p] = new(p)) /\ edit'.follow = "unhold"
  BY <1>1
<1> QED
  BY <1>1, <1>2, <1>3 DEF ReadsAlike

\* Rows rewritten in place.
LEMMA HeldAlike ==
  ASSUME Base, Amounts, NEW p \in Payout
  PROVE  Good(Held[p]) /\ SameEntry(Held[p], payout[p])
  BY UsedRow, WritesHold DEF Held, SameEntry, SameWorth

LEMMA RewriteAlike ==
  ASSUME Base, Amounts, Apart,
         \/ \E p \in Payout : DueComes(p) \/ BlockAges(p)
         \/ EditFollow
         \/ payout' = Held /\ UNCHANGED <<refunded, again, interrupted, edit>>
  PROVE  Rewrites
<1>1. CASE \E p \in Payout : DueComes(p) \/ BlockAges(p)
  <2>1. PICK p \in Payout : DueComes(p) \/ BlockAges(p)
    BY <1>1
  <2>2. PICK r : /\ payout' = [payout EXCEPT ![p] = r]
                 /\ r \in {[payout[p] EXCEPT !.due = TRUE], [payout[p] EXCEPT !.old = TRUE]}
    BY <2>1 DEF DueComes, BlockAges
  <2>3. Good(r) /\ SameEntry(r, payout[p])
    BY <2>2, UsedRow, WritesDue, WritesOld
  <2>4. payout' = [q \in Payout |-> IF q = p THEN r ELSE payout[q]]
    BY <2>2 DEF Base, RowsOK
  <2>5. \A q \in Payout : Good(payout'[q]) /\ SameEntry(payout'[q], payout[q])
    BY <2>3, <2>4, UsedRow DEF SameEntry, SameWorth
  <2> QED
    BY <2>1, <2>4, <2>5 DEF DueComes, BlockAges, Rewrites, SameEntry
<1>2. CASE EditFollow
  <2>1. ASSUME NEW q \in Payout
        PROVE  Good(payout'[q]) /\ SameWorth(payout'[q], payout[q]) /\ (payout'[q].status = "NONE" <=> payout[q].status = "NONE")
    <3>1. Good(payout[q]) /\ payout[q] \in Row
      BY UsedRow
    <3>2. CASE Reserved(q) /\ payout'[q] = [payout[q] EXCEPT !.status = "COMPLETED"]
      BY <3>1, <3>2, WritesStatus DEF Reserved, PayoutStatus
    <3>3. CASE Reserved(q) /\ payout'[q] = [payout[q] EXCEPT !.settledBy = Nobody]
      BY <3>1, <3>3, WritesSettledBy DEF Reserved
    <3>4. CASE payout'[q] = [payout[q] EXCEPT !.hold = FALSE]
      BY <3>1, <3>4, WritesHold DEF SameEntry
    <3>5. CASE payout'[q] = payout[q]
      BY <3>1, <3>5 DEF SameWorth
    <3> QED
      BY <1>2, <3>2, <3>3, <3>4, <3>5 DEF EditFollow
  <2> QED
    BY <1>2, <2>1 DEF EditFollow, Rewrites
<1>3. CASE payout' = Held /\ UNCHANGED <<refunded, again, interrupted, edit>>
  <2>1. Held = [p \in Payout |-> Held[p]]
    BY DEF Held
  <2> QED
    BY <1>3, <2>1, HeldAlike DEF Rewrites, SameEntry
<1> QED
  BY <1>1, <1>2, <1>3

-----------------------------------------------------------------------------
(* The workers, and what rows are worth *)

\* All but the typing of the other variables.
Accounts == RowsGood /\ CopiesGood /\ JobsGood /\ Originals /\ AddUp /\ Attended

LEMMA NoJobGood == ASSUME NEW rows PROVE JobGood(NoJob, rows)
<1>1. NoJob.event \in [postponed: BOOLEAN, end: 1..MaxDates] /\ NoJob.pc = "idle"
  BY PayoutAssumption DEF NoJob
<1> QED
  BY <1>1 DEF JobGood, Working

LEMMA JobFacts ==
  ASSUME Base, Amounts, NEW w \in Worker, Working(job[w])
  PROVE  /\ JobGood(job[w], payout) /\ JobOK(job[w])
         /\ job[w].row \in Payout /\ Good(job[w].copy) /\ job[w].copy \in Row /\ job[w].copy.status # "NONE"
         /\ job[w].event \in [postponed: BOOLEAN, end: 1..MaxDates]
         /\ job[w].pc # "settle" => payout[job[w].row].status # "NONE" /\ SameWorth(job[w].copy, payout[job[w].row])
         /\ \A v \in Worker \ {w} : job[v].pc = "idle"
         /\ \A d \in DOMAIN job[w].covered : d \in Payout /\ InHand(d) /\ d \notin DOMAIN edit.copies /\ payout[d].status # "NONE"
         /\ job = [v \in Worker |-> job[v]]
<1>1. /\ JobGood(job[w], payout) /\ JobOK(job[w]) /\ job = [v \in Worker |-> job[v]]
      /\ \A v \in Worker \ {w} : job[v].pc = "idle"
  BY DEF Base, JobsOK, OneWorker, Amounts, JobsGood, Working
<1>2. \A p \in Keeps(job[w]) : p \in Payout /\ InHand(p) /\ payout[p].status # "NONE"
  BY KeepsInHand
<1>3. \A p \in Keeps(job[w]) : p \notin DOMAIN edit.copies
  BY <1>2 DEF Base, CopiesOK
<1>4. /\ job[w].row \in Payout /\ Is(job[w].row, job[w].copy) /\ Good(job[w].copy)
      /\ job[w].event \in [postponed: BOOLEAN, end: 1..MaxDates]
      /\ job[w].pc # "settle" => SameWorth(job[w].copy, payout[job[w].row])
  BY <1>1 DEF JobOK, JobGood
<1> QED
  BY <1>1, <1>2, <1>3, <1>4 DEF Keeps, Is, Good

\* A job goes on, or is over.
LEMMA GoesOn ==
  ASSUME Base, Amounts, NEW w \in Worker, Working(job[w]), NEW pc, NEW copy, Goes(w, pc, copy),
         pc \in {"mark", "transfer", "record", "settle"}, Good(copy),
         pc # "settle" => SameWorth(copy, payout'[job[w].row]),
         pc = "record" => copy.status \in {"COMPLETED", "FAILED"},
         \A d \in DOMAIN job[w].covered : SameWorth(payout'[d], payout[d])
  PROVE  JobsGood' /\ job'[w].pc = pc /\ job'[w].row = job[w].row /\ job'[w].copy = copy /\ job'[w].covered = job[w].covered
         /\ job'[w].debts = job[w].debts
<1> DEFINE j == [job[w] EXCEPT !.pc = pc, !.copy = copy]
<1>1. /\ JobGood(job[w], payout) /\ JobOK(job[w]) /\ job = [v \in Worker |-> job[v]]
      /\ \A v \in Worker \ {w} : job[v].pc = "idle"
  BY JobFacts
<1>2. job' = [job EXCEPT ![w] = j]
  BY <1>1 DEF Goes
<1>3. /\ j.pc = pc /\ j.copy = copy /\ j.event = job[w].event
      /\ j.row = job[w].row /\ j.debts = job[w].debts /\ j.covered = job[w].covered
  BY <1>1 DEF JobOK, JobFields
<1> HIDE DEF j
<1>4. JobGood(j, payout')
  BY <1>1, <1>3 DEF JobGood, Working, SameWorth
<1>5. JobsGood'
  BY <1>1, <1>2, <1>4, WorkerKeeps DEF Working
<1>6. job'[w] = j
  BY <1>1, <1>2
<1> QED
  BY <1>3, <1>5, <1>6

LEMMA IsDone ==
  ASSUME Base, Amounts, NEW w \in Worker, Working(job[w]), Done(w)
  PROVE  JobsGood'
<1> DEFINE j == IF w = Admin THEN NoJob
                ELSE [NoJob EXCEPT !.pc = "cycle", !.todo = job[w].todo, !.event = job[w].event]
<1>1. /\ job[w].event \in [postponed: BOOLEAN, end: 1..MaxDates]
      /\ \A v \in Worker \ {w} : job[v].pc = "idle"
  BY JobFacts
<1>2. JobGood(j, payout')
  <2>1. CASE w = Admin
    BY <2>1, NoJobGood
  <2>2. CASE w # Admin
    <3>1. j.pc = "cycle" /\ j.event = job[w].event
      BY <2>2 DEF NoJob
    <3> QED
      BY <1>1, <3>1 DEF JobGood, Working
  <2> QED
    BY <2>1, <2>2
<1>3. job' = [job EXCEPT ![w] = j]
  BY DEF Done
<1> HIDE DEF j
<1> QED
  BY <1>1, <1>2, <1>3, WorkerKeeps DEF Working

\* Rows worked on are not PROCESSING any more, or the worker still pays them.
LEMMA Attends ==
  ASSUME Base, Amounts, NEW w \in Worker, Working(job[w]), interrupted => interrupted',
         \A p \in Payout : payout'[p].status = "PROCESSING" =>
           \/ payout[p].status = "PROCESSING" /\ p # job[w].row
           \/ p = job[w].row /\ job'[w].pc \in {"transfer", "record"} /\ job'[w].row = p
  PROVE  Attended'
<1>1. \A v \in Worker \ {w} : job[v].pc = "idle"
  BY JobFacts
<1>2. \A p \in Payout : payout[p].status = "PROCESSING" => interrupted \/ p = job[w].row
  BY <1>1 DEF Amounts, Attended
<1> QED
  BY <1>2 DEF Attended

\* A worker saves the payout.
LEMMA SavesRow ==
  ASSUME Base, Amounts, NEW w \in Worker, Working(job[w]), job[w].pc # "settle",
         NEW s \in PayoutStatus, s = "TO_TRANSFER" => Pays(w) > 0, Saves(w, s), UNCHANGED <<edit, refunded, again, interrupted>>
  PROVE  /\ Rewrites /\ WorthKept /\ (\A p \in Payout : SameWorth(payout'[p], payout[p]))
         /\ payout'[job[w].row] = [job[w].copy EXCEPT !.status = s] /\ payout'[job[w].row].status = s
         /\ Good([job[w].copy EXCEPT !.status = s]) /\ SameWorth([job[w].copy EXCEPT !.status = s], job[w].copy)
         /\ \A p \in Payout \ {job[w].row} : payout'[p] = payout[p]
<1> DEFINE p == job[w].row
           r == [job[w].copy EXCEPT !.status = s]
<1>1. /\ p \in Payout /\ Good(job[w].copy) /\ job[w].copy \in Row /\ job[w].copy.status # "NONE"
      /\ SameWorth(job[w].copy, payout[p]) /\ payout[p].status # "NONE"
  BY JobFacts
<1>2. s = "TO_TRANSFER" => job[w].copy.net > job[w].copy.offset
  BY <1>1 DEF Pays, Row
<1>3. Good(r) /\ SameWorth(r, job[w].copy) /\ r.status = s
  BY <1>1, <1>2, WritesStatus
<1>4. payout' = [payout EXCEPT ![p] = r]
  BY DEF Saves
<1> HIDE DEF r
<1>5. payout' = [q \in Payout |-> IF q = p THEN r ELSE payout[q]]
  BY <1>4 DEF Base, RowsOK
<1>6. \A q \in Payout : Good(payout'[q]) /\ SameWorth(payout'[q], payout[q]) /\ (payout'[q].status = "NONE" <=> payout[q].status = "NONE")
  BY <1>1, <1>3, <1>5, UsedRow DEF SameWorth, PayoutStatus
<1>7. Rewrites
  BY <1>5, <1>6 DEF Rewrites
<1> QED
  BY <1>1, <1>3, <1>5, <1>6, <1>7, RewritesKeep DEF r


LEMMA MarkAccounts ==
  ASSUME Base, Amounts, NEW w \in Worker, MarkProcessing(w) \/ MarkToTransfer(w)
  PROVE  Accounts'
<1>1. /\ Working(job[w]) /\ job[w].pc = "mark" /\ UNCHANGED <<edit, refunded, again, interrupted>>
  BY DEF MarkProcessing, MarkToTransfer, At, RestUnchanged, OthersUnchanged, Working
<1>2. PICK s \in {"PROCESSING", "COMPLETED", "TO_TRANSFER"} :
        /\ Saves(w, s) /\ (s = "TO_TRANSFER" => ~(Pays(w) <= 0))
        /\ IF s = "PROCESSING" THEN Goes(w, "transfer", job[w].copy) ELSE Goes(w, "settle", [job[w].copy EXCEPT !.status = s])
  BY DEF MarkProcessing, MarkToTransfer
<1>3. /\ SameWorth(job[w].copy, payout[job[w].row]) /\ Good(job[w].copy) /\ job[w].row \in Payout
      /\ \A d \in DOMAIN job[w].covered : d \in Payout
      /\ Pays(w) \in Int
  BY <1>1, JobFacts DEF Pays, Row
<1>4. /\ WorthKept /\ (\A p \in Payout : SameWorth(payout'[p], payout[p]))
      /\ payout'[job[w].row].status = s
      /\ Good([job[w].copy EXCEPT !.status = s])
      /\ \A p \in Payout \ {job[w].row} : payout'[p] = payout[p]
  <2>1. s \in PayoutStatus /\ (s = "TO_TRANSFER" => Pays(w) > 0)
    BY <1>2, <1>3 DEF PayoutStatus
  <2> QED
    BY <1>1, <1>2, <2>1, SavesRow
<1>5. JobsGood' /\ (s = "PROCESSING" => job'[w].pc = "transfer" /\ job'[w].row = job[w].row)
  <2>1. CASE s = "PROCESSING"
    <3>1. SameWorth(job[w].copy, payout'[job[w].row])
      BY <1>3, <1>4 DEF SameWorth
    <3> QED
      BY <1>1, <1>2, <1>3, <1>4, <2>1, <3>1, GoesOn
  <2>2. CASE s # "PROCESSING"
    BY <1>1, <1>2, <1>3, <1>4, <2>2, GoesOn
  <2> QED
    BY <2>1, <2>2
<1>6. Attended'
  BY <1>1, <1>4, <1>5, Attends
<1> QED
  BY <1>4, <1>5, <1>6, WorthBooks DEF WorthKept, Accounts

\* Nothing is rewritten, all rows are worth the same.
LEMMA RowsStay ==
  ASSUME Base, Amounts, UNCHANGED <<payout, edit, refunded, again>>, interrupted => interrupted'
  PROVE  Rewrites /\ WorthKept
<1>1. Rewrites
  BY UsedRow DEF Rewrites, SameWorth, Base, RowsOK
<1> QED
  BY <1>1, RewritesKeep

LEMMA StripeAccounts ==
  ASSUME Base, Amounts, NEW w \in Worker, StripeTransfers(w) \/ StripeFails(w)
  PROVE  Accounts'
<1>1. /\ Working(job[w]) /\ job[w].pc = "transfer" /\ UNCHANGED <<payout, edit, refunded, again>> /\ (interrupted => interrupted')
  BY DEF StripeTransfers, StripeFails, At, RestUnchanged, OthersUnchanged, Working
<1>2. PICK copy : /\ Goes(w, "record", copy)
                  /\ copy \in {[job[w].copy EXCEPT !.status = "COMPLETED"],
                               [job[w].copy EXCEPT !.status = "FAILED", !.offset = 0]}
  BY DEF StripeTransfers, StripeFails
<1>3. /\ SameWorth(job[w].copy, payout[job[w].row]) /\ Good(job[w].copy) /\ job[w].copy \in Row
      /\ job[w].copy.status # "NONE" /\ job[w].row \in Payout
  BY <1>1, JobFacts
<1>4. Good(copy) /\ SameWorth(copy, payout'[job[w].row]) /\ copy.status \in {"COMPLETED", "FAILED"}
  <2>1. Good(copy) /\ SameWorth(copy, job[w].copy) /\ copy.status \in {"COMPLETED", "FAILED"}
    <3>1. CASE copy = [job[w].copy EXCEPT !.status = "COMPLETED"]
      BY <1>3, <3>1, WritesStatus DEF PayoutStatus
    <3>2. CASE copy = [job[w].copy EXCEPT !.status = "FAILED", !.offset = 0]
      <4>1. copy \in Row
        BY <1>3, <3>2 DEF Row, PayoutStatus
      <4>2. /\ copy.status = "FAILED" /\ copy.net = job[w].copy.net /\ copy.gross = job[w].copy.gross
            /\ copy.order = job[w].copy.order /\ copy.settledBy = job[w].copy.settledBy
        BY <1>3, <3>2 DEF Row
      <4> QED
        BY <1>3, <4>1, <4>2 DEF Good, SameWorth
    <3> QED
      BY <1>2, <3>1, <3>2
  <2> QED
    BY <1>1, <1>3, <2>1 DEF SameWorth
<1>5. JobsGood' /\ job'[w].pc = "record" /\ job'[w].row = job[w].row
  BY <1>1, <1>2, <1>4, GoesOn DEF SameWorth
<1>6. Attended'
  BY <1>1, <1>5, Attends
<1> QED
  BY <1>1, <1>5, <1>6, RowsStay, WorthBooks DEF WorthKept, Accounts

LEMMA RecordAccounts ==
  ASSUME Base, Amounts, NEW w \in Worker, Record(w)
  PROVE  Accounts'
<1> DEFINE s == job[w].copy.status
<1>1. /\ Working(job[w]) /\ job[w].pc = "record" /\ UNCHANGED <<edit, refunded, again, interrupted>>
      /\ Saves(w, s) /\ (Done(w) \/ Goes(w, "settle", job[w].copy))
  BY DEF Record, At, RestUnchanged, OthersUnchanged, Working
<1>2. /\ s \in {"COMPLETED", "FAILED"} /\ Good(job[w].copy)
      /\ \A d \in DOMAIN job[w].covered : d \in Payout
  BY <1>1, JobFacts DEF JobGood
<1> HIDE DEF s
<1>3. /\ WorthKept /\ (\A p \in Payout : SameWorth(payout'[p], payout[p]))
      /\ payout'[job[w].row].status = s
      /\ \A p \in Payout \ {job[w].row} : payout'[p] = payout[p]
  BY <1>1, <1>2, SavesRow DEF PayoutStatus
<1>4. JobsGood'
  BY <1>1, <1>2, <1>3, GoesOn, IsDone
<1>5. Attended'
  BY <1>1, <1>2, <1>3, Attends
<1> QED
  BY <1>3, <1>4, <1>5, WorthBooks DEF WorthKept, Accounts

LEMMA SettleEndsAccounts ==
  ASSUME Base, Amounts, NEW w \in Worker, SettleEnds(w)
  PROVE  Accounts'
<1>1. /\ Working(job[w]) /\ job[w].pc = "settle" /\ Done(w) /\ UNCHANGED <<payout, edit, refunded, again, interrupted>>
  BY DEF SettleEnds, At, RestUnchanged, OthersUnchanged, Working
<1>2. JobsGood'
  BY <1>1, IsDone
<1>3. Attended'
  <2>1. \A v \in Worker \ {w} : job[v].pc = "idle"
    BY <1>1, JobFacts
  <2> QED
    BY <1>1, <2>1 DEF Amounts, Attended
<1> QED
  BY <1>1, <1>2, <1>3, RowsStay, WorthBooks DEF WorthKept, Accounts

\* settleDebts goes on with the other debts.
LEMMA NextDebt ==
  ASSUME Base, Amounts, NEW w \in Worker, NEW d \in Payout, SettleDebt(w, d),
         \A q \in Payout \ {d} : payout[q].status # "NONE" => payout'[q] = payout[q]
  PROVE  /\ JobsGood' /\ job'[w].pc = "settle" /\ job'[w].row = job[w].row /\ job'[w].copy = job[w].copy
         /\ job'[w].covered = [q \in DOMAIN job[w].covered \ {d} |-> job[w].covered[q]] /\ job'[w].debts = job[w].debts
<1> DEFINE j == [job[w] EXCEPT !.covered = [q \in DOMAIN job[w].covered \ {d} |-> job[w].covered[q]]]
<1>1. /\ Working(job[w]) /\ job[w].pc = "settle" /\ job' = [job EXCEPT ![w].covered = [q \in DOMAIN @ \ {d} |-> @[q]]]
  BY DEF SettleDebt, At, Working
<1>2. /\ JobGood(job[w], payout) /\ JobOK(job[w]) /\ job = [v \in Worker |-> job[v]]
      /\ \A v \in Worker \ {w} : job[v].pc = "idle"
      /\ \A q \in DOMAIN job[w].covered : q \in Payout /\ payout[q].status # "NONE"
  BY <1>1, JobFacts
<1>3. job' = [job EXCEPT ![w] = j]
  BY <1>1, <1>2
<1>4. /\ j.pc = "settle" /\ j.copy = job[w].copy /\ j.event = job[w].event /\ j.row = job[w].row /\ j.debts = job[w].debts
      /\ j.covered = [q \in DOMAIN job[w].covered \ {d} |-> job[w].covered[q]]
  BY <1>1, <1>2 DEF JobOK, JobFields
<1> HIDE DEF j
<1>5. /\ DOMAIN j.covered = DOMAIN job[w].covered \ {d} /\ \A q \in DOMAIN j.covered : j.covered[q] = job[w].covered[q]
  BY <1>4
<1>6. JobGood(j, payout')
  BY <1>1, <1>2, <1>4, <1>5 DEF JobGood, Working
<1>7. JobsGood'
  BY <1>1, <1>2, <1>3, <1>6, WorkerKeeps DEF Working
<1>8. job'[w] = j
  BY <1>2, <1>3
<1> QED
  BY <1>4, <1>7, <1>8


\* The row added for the part of a debt that is covered.
LEMMA PartInRow ==
  ASSUME NEW status \in PayoutStatus, NEW o \in Order, NEW k \in Int, NEW q \in Payout
  PROVE  [NoRow EXCEPT !.status = status, !.order = o, !.net = k, !.due = TRUE, !.settledBy = q] \in Row
<1>1. 0 \in 0..MaxDates /\ 0 \in Nat /\ 0 \in Int
  BY PayoutAssumption
<1>2. NoRow \in Row
  BY <1>1 DEF NoRow, Row
<1> QED
  BY <1>2 DEF Row

LEMMA SettleAccounts ==
  ASSUME Base, Amounts, Exact, NEW w \in Worker, NEW d \in Payout, SettleDebt(w, d)
  PROVE  Accounts'
<1> DEFINE debt == job[w].debts[d]
           part == job[w].covered[d]
           row == job[w].row
<1>1. /\ Working(job[w]) /\ job[w].pc = "settle" /\ d \in DOMAIN job[w].covered /\ UNCHANGED <<refunded, again, interrupted>>
  BY DEF SettleDebt, At, OthersUnchanged, Working
<1>2. PICK status \in {"COMPLETED", "PENDING"} :
        \/ edit' = edit /\ payout' = [payout EXCEPT ![d] = [debt EXCEPT !.status = status, !.settledBy = row]]
        \/ /\ part < -debt.net /\ Free # {}
           /\ payout' = [payout EXCEPT ![d] = [debt EXCEPT !.net = debt.net + part]]
           /\ ReadsRows([q \in {NewRow} |-> [NoRow EXCEPT !.status = status, !.order = debt.order, !.net = -part,
                                                         !.due = TRUE, !.settledBy = row]], "none", Nobody, w)
  BY DEF SettleDebt
<1>3. /\ Good(debt) /\ debt \in Row /\ debt.net < 0 /\ SameWorth(debt, payout[d]) /\ debt.status = "PENDING" /\ debt.settledBy = Nobody
      /\ part \in Nat \ {0} /\ debt.net \in Int
      /\ row \in Payout /\ payout[d].status # "NONE" /\ d \notin DOMAIN edit.copies
  <2>1. /\ JobGood(job[w], payout) /\ row \in Payout /\ payout[d].status # "NONE" /\ d \notin DOMAIN edit.copies
    BY <1>1, JobFacts
  <2>2. /\ Good(debt) /\ debt.net < 0 /\ SameWorth(debt, payout[d]) /\ debt.status = "PENDING" /\ debt.settledBy = Nobody
        /\ part \in 1..Owes(debt)
    BY <1>1, <2>1 DEF JobGood
  <2>3. debt \in Row /\ debt.net \in Int
    BY <2>2 DEF Good, Row
  <2>4. part \in Nat \ {0}
    BY <2>2, <2>3 DEF Owes
  <2> QED
    BY <2>1, <2>2, <2>3, <2>4
<1> HIDE DEF debt, part, row
<1>4. CASE edit' = edit /\ payout' = [payout EXCEPT ![d] = [debt EXCEPT !.status = status, !.settledBy = row]]
  <2> DEFINE r == [debt EXCEPT !.status = status, !.settledBy = row]
  <2>1. Good(r) /\ SameWorth(r, debt) /\ r.status = status
    <3>1. r \in Row
      BY <1>3 DEF Row, PayoutStatus
    <3>2. r.status = status /\ r.settledBy = row /\ r.net = debt.net /\ r.order = debt.order /\ r.gross = debt.gross
      BY <1>3 DEF Row
    <3> QED
      BY <1>3, <3>1, <3>2 DEF Good, SameWorth
  <2>2. payout' = [q \in Payout |-> IF q = d THEN r ELSE payout[q]]
    BY <1>4 DEF Base, RowsOK
  <2> HIDE DEF r
  <2>3. \A q \in Payout : /\ Good(payout'[q]) /\ SameWorth(payout'[q], payout[q])
                          /\ payout'[q].status = "NONE" <=> payout[q].status = "NONE"
    BY <1>3, <2>1, <2>2, UsedRow DEF SameWorth
  <2>4. WorthKept
    BY <1>1, <1>4, <2>2, <2>3, RewritesKeep DEF Rewrites
  <2>5. JobsGood'
    BY <2>2, NextDebt
  <2>6. Attended'
    <3>1. \A p \in Payout : payout'[p].status = "PROCESSING" => payout[p].status = "PROCESSING"
      BY <2>1, <2>2
    <3>2. \A v \in Worker : job[v].pc \notin {"transfer", "record"}
      BY <1>1, JobFacts
    <3> QED
      BY <1>1, <3>1, <3>2 DEF Amounts, Attended
  <2> QED
    BY <2>4, <2>5, <2>6, WorthBooks DEF WorthKept, Accounts
<1>5. CASE /\ part < -debt.net /\ Free # {}
           /\ payout' = [payout EXCEPT ![d] = [debt EXCEPT !.net = debt.net + part]]
           /\ ReadsRows([q \in {NewRow} |-> [NoRow EXCEPT !.status = status, !.order = debt.order, !.net = -part,
                                                         !.due = TRUE, !.settledBy = row]], "none", Nobody, w)
  <2> DEFINE r == [debt EXCEPT !.net = debt.net + part]
             s == [NoRow EXCEPT !.status = status, !.order = debt.order, !.net = -part, !.due = TRUE, !.settledBy = row]
             n == NewRow
  <2>1. /\ n \in Payout \ Order /\ payout[n].status = "NONE" /\ payout' = [payout EXCEPT ![d] = r]
        /\ edit = NoEdit /\ edit'.copies = [q \in {n} |-> s] /\ edit'.follow = "none"
    BY <1>5 DEF NewRow, Free, Used, ReadsRows
  <2>2. Good(r) /\ r.status = "PENDING" /\ r.order = debt.order /\ r.net = debt.net + part
    <3>1. debt.net + part \in Int
      BY <1>3
    <3> QED
      BY <1>3, <3>1, WritesNet
  <2>3. Good(s) /\ s.status = status /\ s.order = debt.order /\ s.net = -part
    <3>1. 0 \in 0..MaxDates /\ -part \in Int /\ -part < 0
      BY <1>3, PayoutAssumption
    <3>2. debt.order \in Order
      BY <1>3 DEF Good
    <3>3. s \in Row
      BY <1>3, <3>1, <3>2, PartInRow DEF PayoutStatus
    <3>4. s.status = status /\ s.order = debt.order /\ s.net = -part /\ s.settledBy = row
      BY DEF NoRow
    <3> QED
      BY <3>1, <3>2, <3>3, <3>4 DEF Good
  <2> HIDE DEF r, s, n
  <2>4. SplitsDebt(d, r, n, s)
    <3>1. r.net + s.net = payout[d].net /\ payout[d].net < 0
      BY <1>3, <2>2, <2>3 DEF SameWorth
    <3> QED
      BY <1>1, <1>3, <2>1, <2>2, <2>3, <3>1 DEF SplitsDebt, SameWorth
  <2>5. RowsGood' /\ CopiesGood' /\ Originals' /\ AddUp'
    BY <2>4, SplitBooks
  <2>6. \A q \in Payout : payout'[q] = IF q = d THEN r ELSE payout[q]
    BY <2>1 DEF Base, RowsOK
  <2>7. JobsGood'
    BY <2>1, <2>6, NextDebt
  <2>8. Attended'
    <3>1. \A p \in Payout : payout'[p].status = "PROCESSING" => payout[p].status = "PROCESSING"
      BY <2>2, <2>6
    <3>2. \A v \in Worker : job[v].pc \notin {"transfer", "record"}
      BY <1>1, JobFacts
    <3> QED
      BY <1>1, <3>1, <3>2 DEF Amounts, Attended
  <2> QED
    BY <2>5, <2>7, <2>8 DEF Accounts
<1> QED
  BY <1>2, <1>4, <1>5

LEMMA JobAccounts ==
  ASSUME Base, Amounts, Exact, NEW w \in Worker, JobStep(w)
  PROVE  Accounts'
  BY MarkAccounts, StripeAccounts, RecordAccounts, SettleEndsAccounts, SettleAccounts DEF JobStep

-----------------------------------------------------------------------------
(* The other steps, and what rows are worth *)

LEMMA PassiveAccounts ==
  ASSUME Base, Amounts, WorthKept, job' = job, interrupted => interrupted', CopiesOK',
         \A p \in Payout : payout'[p].status = "PROCESSING" => payout[p].status = "PROCESSING"
  PROVE  Accounts'
<1>1. Originals' /\ AddUp'
  BY WorthBooks
<1>2. ASSUME NEW p \in Payout, InHand(p) PROVE SameWorth(payout'[p], payout[p])
  <2>1. p \notin DOMAIN edit.copies /\ p \notin DOMAIN edit'.copies
    BY <1>2 DEF Base, CopiesOK, InHand
  <2> QED
    BY <2>1 DEF WorthKept, SavedRow
<1>3. JobsGood' /\ Attended'
  BY <1>2, PassiveKeeps DEF Passive
<1> QED
  BY <1>1, <1>3 DEF WorthKept, Accounts

LEMMA ReadAccounts ==
  ASSUME Base, Amounts, Exact, CopiesOK',
         \/ \E p \in Payout : \/ Block(p) \/ UnblockByAdmin(p) \/ UnblockExpired(p) \/ RequestEarly(p) \/ ApproveEarly(p)
                              \/ ConfirmBankTransfer(p) \/ ReleaseBankTransfer(p)
         \/ \E o \in Order, v \in {"DECIDED", "CLOSED"} : OpenDispute(o) \/ ResolveDispute(o, v)
         \/ RescheduleArrives
  PROVE  Accounts'
<1>1. ReadsAlike
  <2>1. event.end \in 0..MaxDates
    BY PayoutAssumption DEF Amounts, RestTyped
  <2> QED
    BY <2>1, BlockAlike, DisputeAlike, EarlyAlike, TransferAlike, RescheduleAlike DEF Exact, RescheduleArrives
<1>2. job' = job /\ payout' = payout /\ interrupted' = interrupted
  BY DEF Block, UnblockByAdmin, UnblockExpired, Unblock, RequestEarly, ApproveEarly, ConfirmBankTransfer, ReleaseBankTransfer,
         OpenDispute, ResolveDispute, RescheduleArrives, NotMoved
<1> QED
  BY <1>1, <1>2, ReadsKeep, PassiveAccounts

LEMMA RewriteAccounts ==
  ASSUME Base, Amounts, Apart, CopiesOK',
         (\E p \in Payout : DueComes(p) \/ BlockAges(p)) \/ EditFollow \/ HoldArrives
  PROVE  Accounts'
<1>1. Rewrites /\ job' = job /\ interrupted' = interrupted
  BY RewriteAlike DEF DueComes, BlockAges, EditFollow, HoldArrives
<1>2. \A p \in Payout : payout'[p].status = "PROCESSING" => payout[p].status = "PROCESSING"
  <2>1. CASE \E p \in Payout : DueComes(p) \/ BlockAges(p)
    <3>1. PICK p \in Payout : payout' \in {[payout EXCEPT ![p].due = TRUE], [payout EXCEPT ![p].old = TRUE]}
      BY <2>1 DEF DueComes, BlockAges
    <3>2. \A q \in Payout : payout[q] \in Row
      BY UsedRow
    <3> QED
      BY <3>1, <3>2 DEF Row, Base, RowsOK
  <2>2. CASE EditFollow
    <3>1. \A q \in Payout : payout[q] \in Row
      BY UsedRow
    <3> QED
      BY <2>2, <3>1 DEF EditFollow, Row
  <2>3. CASE HoldArrives
    BY <2>3, HeldAlike DEF HoldArrives, SameEntry
  <2> QED
    BY <2>1, <2>2, <2>3
<1> QED
  BY <1>1, <1>2, RewritesKeep, PassiveAccounts

LEMMA SaveAccounts ==
  ASSUME Base, Amounts, EditSave, CopiesOK'
  PROVE  Accounts'
<1>1. job' = job /\ interrupted' = interrupted
  BY DEF EditSave
<1>2. \A p \in Payout : payout'[p].status = "PROCESSING" => payout[p].status = "PROCESSING"
  BY DEF EditSave, Base, CopiesOK, Paying
<1> QED
  BY <1>1, <1>2, SaveKeeps, PassiveAccounts


\* CopiesGood and the rows do not depend on the jobs.
LEMMA IdleAccounts ==
  ASSUME Base, Amounts, UNCHANGED <<payout, edit, refunded, again, job>>, interrupted => interrupted'
  PROVE  Accounts'
<1>1. CopiesGood' /\ RowsGood' /\ WorthKept
  BY RowsStay DEF WorthKept
<1>2. Originals' /\ AddUp'
  BY <1>1, WorthBooks
<1>3. JobsGood' /\ Attended'
  BY DEF Amounts, JobsGood, Attended
<1> QED
  BY <1>1, <1>2, <1>3 DEF Accounts

\* A worker that does not pay starts, goes on or stops; rows are worth the same.
LEMMA CycleAccounts ==
  ASSUME Base, Amounts, WorthKept, \A p \in Payout : SameWorth(payout'[p], payout[p]),
         NEW w \in Worker, NEW j, job' = [job EXCEPT ![w] = j], JobGood(j, payout'), interrupted => interrupted',
         \A p \in Payout : payout'[p].status = "PROCESSING" => payout[p].status = "PROCESSING",
         ~interrupted' => job[w].pc \notin {"transfer", "record"}
  PROVE  Accounts'
<1>1. JobsGood'
  BY WorkerKeeps
<1>2. Attended'
  <2>1. job = [v \in Worker |-> job[v]]
    BY DEF Base, JobsOK
  <2>2. \A v \in Worker \ {w} : job'[v] = job[v]
    BY <2>1
  <2> QED
    BY <2>2 DEF Amounts, Attended
<1> QED
  BY <1>1, <1>2, WorthBooks DEF WorthKept, Accounts

LEMMA CoveringsGood ==
  ASSUME Base, Amounts, NEW p \in Payout, NEW c \in Coverings(p)
  PROVE  /\ OutstandingDebts \subseteq Payout /\ IsFiniteSet(OutstandingDebts) /\ DOMAIN c = OutstandingDebts
         /\ c \in [OutstandingDebts -> Nat] /\ Sum(c) \in Nat
         /\ \A d \in OutstandingDebts : c[d] \in 0..Owed(d) /\ payout[d] \in Row /\ payout[d].net < 0
<1>1. OutstandingDebts \subseteq Payout /\ IsFiniteSet(OutstandingDebts) /\ DOMAIN c = OutstandingDebts
  BY Sets, FS_Subset, Covered DEF OutstandingDebts
<1>2. MaxOwed \in Int
  <2> DEFINE f == [o \in Order |-> Share[o] + Fees[o]]
  <2>1. f \in [Order -> Int] /\ IsFiniteSet(Order)
    BY PayoutAssumption
  <2> HIDE DEF f
  <2>2. Sum(f) \in Int
    BY <2>1, SumInt
  <2> QED
    BY <2>2 DEF f, MaxOwed
<1>3. c \in [OutstandingDebts -> Nat] /\ \A d \in OutstandingDebts : c[d] <= Owed(d)
  <2>1. c \in [OutstandingDebts -> 0..MaxOwed] /\ \A d \in OutstandingDebts : c[d] <= Owed(d)
    BY DEF Coverings
  <2> QED
    BY <1>2, <2>1
<1>4. \A d \in OutstandingDebts : payout[d] \in Row /\ payout[d].net < 0 /\ Owed(d) \in Int
  BY UsedRow DEF OutstandingDebts, Outstanding, Owed, Row
<1>5. Sum(c) \in Nat
  BY <1>1, <1>3, SumNat
<1>6. \A d \in OutstandingDebts : c[d] \in 0..Owed(d)
  BY <1>3, <1>4
<1> QED
  BY <1>1, <1>3, <1>4, <1>5, <1>6

LEMMA ReadsPayoutGood ==
  ASSUME Base, Amounts, NEW w \in Worker, NEW p \in Payout, NEW todo, ReadsPayout(w, p, todo),
         UNCHANGED <<payout, edit, refunded, again, interrupted>>, job[w].pc \in {"idle", "cycle"}
  PROVE  Accounts'
<1>1. PICK c \in Coverings(p) :
        job' = [job EXCEPT ![w] =
                 [pc |-> "mark", todo |-> todo, event |-> job[w].event, row |-> p,
                  copy |-> [payout[p] EXCEPT !.offset = Sum(c)],
                  covered |-> [d \in Chosen(c) |-> c[d]], debts |-> [d \in Chosen(c) |-> payout[d]]]]
  BY DEF ReadsPayout, Base, JobsOK
<1> DEFINE j == [pc |-> "mark", todo |-> todo, event |-> job[w].event, row |-> p,
                 copy |-> [payout[p] EXCEPT !.offset = Sum(c)],
                 covered |-> [d \in Chosen(c) |-> c[d]], debts |-> [d \in Chosen(c) |-> payout[d]]]
<1>2. /\ j.pc = "mark" /\ j.event = job[w].event /\ j.row = p /\ j.copy = [payout[p] EXCEPT !.offset = Sum(c)]
      /\ DOMAIN j.covered = Chosen(c) /\ \A d \in Chosen(c) : j.covered[d] = c[d] /\ j.debts[d] = payout[d]
  OBVIOUS
<1>3. job' = [job EXCEPT ![w] = j]
  BY <1>1
<1> HIDE DEF j
<1>4. Good([payout[p] EXCEPT !.offset = Sum(c)]) /\ SameWorth([payout[p] EXCEPT !.offset = Sum(c)], payout[p])
  BY UsedRow, CoveringsGood, WritesOffset DEF ReadsPayout
<1>5. ASSUME NEW d \in Chosen(c)
      PROVE  /\ Good(payout[d]) /\ payout[d].net < 0 /\ SameWorth(payout[d], payout'[d])
             /\ payout[d].status = "PENDING" /\ payout[d].settledBy = Nobody /\ c[d] \in 1..Owes(payout[d])
  <2>1. d \in OutstandingDebts /\ d \in Payout /\ c[d] \in Nat /\ c[d] > 0 /\ c[d] \in 0..Owed(d) /\ payout[d] \in Row
    BY CoveringsGood DEF Chosen
  <2>2. c[d] \in 1..Owes(payout[d])
    BY <2>1 DEF Owes, Owed, Row
  <2> QED
    BY <2>1, <2>2, UsedRow DEF OutstandingDebts, Outstanding, SameWorth
<1>6. job[w].event \in [postponed: BOOLEAN, end: 1..MaxDates]
  BY DEF Amounts, JobsGood, JobGood
<1>7. JobGood(j, payout')
  BY <1>2, <1>4, <1>5, <1>6 DEF JobGood
<1>8. (\A q \in Payout : SameWorth(payout'[q], payout[q])) /\ WorthKept
  BY RowsStay DEF SameWorth
<1> QED
  BY <1>3, <1>7, <1>8, CycleAccounts

LEMMA CycleStepAccounts ==
  ASSUME Base, Amounts, Apart, NEW c \in Copy, CronFires(c) \/ CycleStep(c)
  PROVE  Accounts'
<1>1. /\ c \in Worker /\ job[c].pc \in {"idle", "cycle"} /\ UNCHANGED <<refunded, again, interrupted>>
      /\ job[c].event \in [postponed: BOOLEAN, end: 1..MaxDates]
  BY DEF Worker, CronFires, CycleStep, CycleEnds, CycleHolds, CycleReschedules, CycleSkips, CyclePays, Takes,
         Amounts, JobsGood, JobGood
<1>2. CASE CronFires(c) \/ CycleEnds(c)
  <2> DEFINE k == [NoJob EXCEPT !.pc = "cycle", !.event = event, !.todo = [p \in DuePayouts |-> payout[p]]]
  <2>1. JobGood(k, payout')
    <3>1. k.pc = "cycle" /\ k.event = event
      BY DEF NoJob
    <3> QED
      BY <3>1 DEF JobGood, Working, Amounts, RestTyped
  <2>2. job' \in {[job EXCEPT ![c] = k], [job EXCEPT ![c] = NoJob]} /\ UNCHANGED <<payout, edit>>
    BY <1>2 DEF CronFires, CycleEnds
  <2> HIDE DEF k
  <2>3. (\A q \in Payout : SameWorth(payout'[q], payout[q])) /\ WorthKept
    BY <1>1, <2>2, RowsStay DEF SameWorth
  <2> QED
    BY <1>1, <2>1, <2>2, <2>3, NoJobGood, CycleAccounts
<1>3. ASSUME NEW p \in Payout, CyclePays(c, p) PROVE Accounts'
  BY <1>1, <1>3, ReadsPayoutGood DEF CyclePays
<1>4. ASSUME NEW p \in Payout, CycleHolds(c, p) \/ CycleReschedules(c, p) \/ CycleSkips(c, p) PROVE Accounts'
  <2> DEFINE k == [job[c] EXCEPT !.todo = Without(c, p)]
  <2>1. job' = [job EXCEPT ![c] = k] /\ job[c].pc = "cycle" /\ JobOK(job[c])
    BY <1>1, <1>4 DEF CycleHolds, CycleReschedules, CycleSkips, Takes, Skips, Base, JobsOK
  <2>2. JobGood(k, payout')
    <3>1. k.pc = "cycle" /\ k.event = job[c].event
      BY <2>1 DEF JobOK, JobFields
    <3> QED
      BY <1>1, <3>1 DEF JobGood, Working
  <2> HIDE DEF k
  <2>3. /\ \A q \in Payout : SameWorth(payout'[q], payout[q]) /\ (payout'[q].status = "PROCESSING" => payout[q].status = "PROCESSING")
        /\ WorthKept
    <3>1. CASE CycleHolds(c, p)
      <4>1. payout' = Held /\ UNCHANGED <<refunded, again, interrupted, edit>>
        BY <3>1 DEF CycleHolds
      <4> QED
        BY <4>1, HeldAlike, RewriteAlike, RewritesKeep DEF SameEntry
    <3>2. CASE CycleReschedules(c, p)
      <4>1. job[c].event.end \in 0..MaxDates
        BY <1>1, PayoutAssumption
      <4> QED
        BY <3>2, <4>1, RescheduleAlike, ReadsKeep DEF CycleReschedules, SameWorth
    <3>3. CASE CycleSkips(c, p)
      BY <3>3, RowsStay DEF CycleSkips, SameWorth
    <3> QED
      BY <1>4, <3>1, <3>2, <3>3
  <2> QED
    BY <1>1, <2>1, <2>2, <2>3, CycleAccounts
<1> QED
  BY <1>2, <1>3, <1>4 DEF CycleStep

LEMMA AdminPaysAccounts ==
  ASSUME Base, Amounts, NEW p \in Payout, AdminPays(p)
  PROVE  Accounts'
<1>1. Admin \in Worker
  BY DEF Worker
<1> QED
  BY <1>1, ReadsPayoutGood DEF AdminPays

LEMMA CrashAccounts ==
  ASSUME Base, Amounts, Crash
  PROVE  Accounts'
<1>1. UNCHANGED <<payout, refunded, again>> /\ interrupted' /\ (edit' = NoEdit \/ edit' = edit)
  BY DEF Crash, Forgets
<1>2. RowsGood' /\ CopiesGood' /\ Originals' /\ AddUp'
  <2>1. CASE edit' = NoEdit
    BY <1>1, <2>1, DropBooks
  <2>2. CASE edit' = edit
    BY <1>1, <2>2, RowsStay, WorthBooks DEF WorthKept
  <2> QED
    BY <1>1, <2>1, <2>2
<1>3. JobsGood'
  <2>1. ASSUME NEW w \in Worker, job' = [job EXCEPT ![w] = NoJob] PROVE JobsGood'
    BY <1>1, <2>1, NoJobGood, WorkerKeeps DEF SameWorth
  <2>2. CASE job' = job
    BY <1>1, <2>2 DEF Amounts, JobsGood
  <2> QED
    BY <2>1, <2>2 DEF Crash
<1>4. Attended'
  BY <1>1 DEF Attended
<1> QED
  BY <1>2, <1>3, <1>4 DEF Accounts

\* Sales and refunds.
LEMMA SaleAccounts ==
  ASSUME Base, Amounts, Exact, RestTyped', CopiesOK', NEW o \in Order,
         CreatePayout(o) \/ \E h \in {1, 2} : RefundReduces(o, h) \/ RefundAdjusts(o, h)
  PROVE  Accounts'
<1>1. RowsGood' /\ CopiesGood' /\ Originals' /\ AddUp'
  BY SaleBooks, ReduceBooks, AdjustBooks
<1>2. Passive
  <2>1. job' = job /\ interrupted' = interrupted
    BY DEF CreatePayout, RefundReduces, RefundAdjusts, NotMoved
  <2>2. \A p \in Payout : payout'[p] = payout[p] \/ (payout[p].status = "NONE" /\ payout'[p].status = "PENDING")
    <3>1. CASE CreatePayout(o)
      BY <3>1 DEF CreatePayout, Base, RowsOK, NoRow
    <3>2. CASE \E h \in {1, 2} : RefundReduces(o, h)
      BY <3>2 DEF RefundReduces
    <3>3. CASE \E h \in {1, 2} : RefundAdjusts(o, h)
      <4>1. NewRow \in Payout /\ payout[NewRow].status = "NONE"
        BY <3>3 DEF RefundAdjusts, NewRow, Free, Used
      <4> QED
        BY <3>3, <4>1 DEF RefundAdjusts, Base, RowsOK, NoRow
    <3> QED
      BY <3>1, <3>2, <3>3
  <2> QED
    BY <2>1, <2>2 DEF Passive, SameWorth
<1> QED
  BY <1>1, <1>2, PassiveKeeps DEF Accounts


-----------------------------------------------------------------------------
(* Types, and all together *)

\* Only the interventions left may change.
OnlyMoves ==
  /\ UNCHANGED <<refunded, again, dispute, freed, event, announced, account, paid, taken, interrupted>>
  /\ moves' = moves \/ Intervenes

LEMMA MovesTyped ==
  ASSUME Amounts, OnlyMoves
  PROVE  RestTyped'
<1>1. moves' \in 0..MaxMoves
  BY PayoutAssumption DEF Amounts, RestTyped, OnlyMoves, Intervenes
<1> QED
  BY <1>1 DEF Amounts, RestTyped, OnlyMoves

LEMMA RestJob ==
  ASSUME Base, Amounts, NEW w \in Worker, JobStep(w)
  PROVE  RestTyped'
<1>1. UNCHANGED <<refunded, again, dispute, freed, event, announced, account, taken, moves>>
  BY DEF JobStep, MarkProcessing, MarkToTransfer, StripeTransfers, StripeFails, Record, SettleEnds, SettleDebt, RestUnchanged, OthersUnchanged
<1>2. paid' \in Nat /\ interrupted' \in BOOLEAN
  <2>1. CASE StripeTransfers(w) \/ StripeFails(w)
    <3>1. Pays(w) \in Int
      <4>1. Working(job[w])
        BY <2>1 DEF StripeTransfers, StripeFails, At, Working
      <4> QED
        BY <4>1, JobFacts DEF Pays, Row
    <3>2. interrupted' \in BOOLEAN /\ (paid' = paid \/ paid' = paid + Most(Pays(w), 0) \/ (Pays(w) > 0 /\ paid' = paid + Pays(w)))
      BY <2>1 DEF StripeTransfers, StripeFails, Amounts, RestTyped
    <3> QED
      BY <3>1, <3>2 DEF Most, Amounts, RestTyped
  <2>2. CASE ~(StripeTransfers(w) \/ StripeFails(w))
    BY <2>2 DEF JobStep, MarkProcessing, MarkToTransfer, Record, SettleEnds, SettleDebt, Amounts, RestTyped
  <2> QED
    BY <2>1, <2>2
<1> QED
  BY <1>1, <1>2 DEF Amounts, RestTyped

LEMMA RestReads ==
  ASSUME Base, Amounts, NEW p \in Payout,
         \/ Block(p) \/ UnblockByAdmin(p) \/ UnblockExpired(p) \/ RequestEarly(p) \/ ApproveEarly(p)
         \/ AdminPays(p) \/ ConfirmBankTransfer(p) \/ ReleaseBankTransfer(p)
  PROVE  RestTyped'
<1>1. CASE Block(p) \/ RequestEarly(p) \/ ApproveEarly(p) \/ AdminPays(p) \/ ReleaseBankTransfer(p)
  <2>1. OnlyMoves
    BY <1>1 DEF Block, RequestEarly, ApproveEarly, AdminPays, ReleaseBankTransfer, NotMoved, OnlyMoves
  <2> QED
    BY <2>1, MovesTyped
<1>2. CASE UnblockByAdmin(p) \/ UnblockExpired(p)
  <2>1. freed' = freed \cup (Order \cap {p})
    BY <1>2 DEF UnblockByAdmin, UnblockExpired, Unblock
  <2>2. UNCHANGED <<refunded, again, dispute, event, announced, account, paid, taken, interrupted>> /\ moves' \in 0..MaxMoves
    BY <1>2, PayoutAssumption DEF UnblockByAdmin, UnblockExpired, Unblock, NotMoved, Intervenes, Amounts, RestTyped
  <2> QED
    BY <2>1, <2>2 DEF Amounts, RestTyped
<1>3. CASE ConfirmBankTransfer(p)
  <2>1. Good(payout[p]) /\ payout[p] \in Row /\ payout[p].net > payout[p].offset /\ paid \in Nat
    BY <1>3, UsedRow DEF ConfirmBankTransfer, Good, Amounts, RestTyped
  <2>2. paid' = paid + payout[p].net - payout[p].offset /\ payout[p].net \in Int /\ payout[p].offset \in Nat
    BY <1>3, <2>1 DEF ConfirmBankTransfer, Row
  <2>3. paid' \in Nat
    BY <2>1, <2>2
  <2> QED
    BY <1>3, <2>3 DEF ConfirmBankTransfer, Amounts, RestTyped
<1> QED
  BY <1>1, <1>2, <1>3

LEMMA RestOrders ==
  ASSUME Base, Amounts, NEW o \in Order,
         \/ CreatePayout(o) \/ OpenDispute(o) \/ ResolveDispute(o, "DECIDED") \/ ResolveDispute(o, "CLOSED")
         \/ \E h \in {1, 2} : RefundReduces(o, h) \/ RefundAdjusts(o, h)
  PROVE  RestTyped'
<1>1. CASE CreatePayout(o)
  BY <1>1, MovesTyped DEF CreatePayout, OnlyMoves
<1>2. CASE OpenDispute(o) \/ ResolveDispute(o, "DECIDED") \/ ResolveDispute(o, "CLOSED")
  <2>1. /\ UNCHANGED <<refunded, again, event, announced, account, paid, taken, interrupted>> /\ moves' \in 0..MaxMoves
        /\ freed' \subseteq Order
    BY <1>2, PayoutAssumption DEF OpenDispute, ResolveDispute, NotMoved, Intervenes, Amounts, RestTyped
  <2>2. dispute' \in [Order -> {"NONE", "OPEN", "CLOSED", "DECIDED"}]
    BY <1>2 DEF OpenDispute, ResolveDispute, Amounts, RestTyped
  <2> QED
    BY <2>1, <2>2 DEF Amounts, RestTyped
<1>3. ASSUME NEW h \in {1, 2}, Refunds(o, h), NotMoved, UNCHANGED <<dispute, freed>> PROVE RestTyped'
  <2>1. UNCHANGED <<dispute, freed, event, announced, account, paid, taken, interrupted>> /\ moves' \in 0..MaxMoves
    BY <1>3, PayoutAssumption DEF Refunds, NotMoved, Intervenes, Amounts, RestTyped
  <2>2. refunded' = [refunded EXCEPT ![o] = refunded[o] + h] /\ refunded[o] + h <= 2 /\ refunded[o] \in 0..2
        /\ refunded \in [Order -> 0..2]
    BY <1>3 DEF Refunds, Amounts, RestTyped
  <2>3. refunded[o] + h \in 0..2
    BY <2>2
  <2>4. refunded' \in [Order -> 0..2]
    BY <2>2, <2>3
  <2>5. again' \in BOOLEAN
    BY <1>3 DEF Refunds, Amounts, RestTyped
  <2> QED
    BY <2>1, <2>4, <2>5 DEF Amounts, RestTyped
<1> QED
  BY <1>1, <1>2, <1>3 DEF RefundReduces, RefundAdjusts

LEMMA RestCycles ==
  ASSUME Base, Amounts, NEW c \in Copy, CronFires(c) \/ CycleStep(c)
  PROVE  RestTyped'
<1>1. CASE CronFires(c)
  BY <1>1 DEF CronFires, Amounts, RestTyped
<1>2. CASE CycleStep(c)
  <2>1. OnlyMoves
    BY <1>2 DEF CycleStep, CycleEnds, CycleHolds, CycleReschedules, CycleSkips, CyclePays, OnlyMoves
  <2> QED
    BY <2>1, MovesTyped
<1> QED
  BY <1>1, <1>2

LEMMA RestOthers ==
  ASSUME Base, Amounts,
         \/ EditSave \/ EditFollow \/ (\E p \in Payout : DueComes(p) \/ BlockAges(p))
         \/ VerifyAccount \/ HoldArrives \/ RescheduleArrives \/ NewDay \/ NewDate
         \/ Postpone \/ AnnouncementLost \/ Crash
  PROVE  RestTyped'
<1>1. CASE EditSave \/ EditFollow \/ (\E p \in Payout : DueComes(p) \/ BlockAges(p))
  <2>1. OnlyMoves
    BY <1>1 DEF EditSave, EditFollow, DueComes, BlockAges, OnlyMoves
  <2> QED
    BY <2>1, MovesTyped
<1>2. CASE VerifyAccount \/ HoldArrives \/ RescheduleArrives \/ NewDay
  BY <1>2 DEF VerifyAccount, HoldArrives, RescheduleArrives, NewDay, Amounts, RestTyped
<1>3. CASE NewDate
  <2>1. event \in [postponed: BOOLEAN, end: 1..MaxDates] /\ event.postponed /\ event.end < MaxDates
        /\ event' = [postponed |-> FALSE, end |-> event.end + 1]
    BY <1>3 DEF NewDate, Amounts, RestTyped
  <2>2. event.end + 1 \in 1..MaxDates
    BY <2>1, PayoutAssumption
  <2>3. event' \in [postponed: BOOLEAN, end: 1..MaxDates] /\ ~event'.postponed
    BY <2>1, <2>2
  <2> QED
    BY <1>3, <2>3 DEF NewDate, Amounts, RestTyped
<1>4. CASE Postpone
  <2>1. moves' \in 0..MaxMoves
    BY <1>4, PayoutAssumption DEF Postpone, Intervenes, Amounts, RestTyped
  <2>2. event' \in [postponed: BOOLEAN, end: 1..MaxDates] /\ event'.end = event.end /\ event.end < MaxDates
    BY <1>4 DEF Postpone, Amounts, RestTyped
  <2> QED
    BY <1>4, <2>1, <2>2 DEF Postpone, Amounts, RestTyped
<1>5. CASE AnnouncementLost
  BY <1>5 DEF AnnouncementLost, Amounts, RestTyped
<1>6. CASE Crash
  <2>1. moves' \in 0..MaxMoves
    BY <1>6, PayoutAssumption DEF Crash, Intervenes, Amounts, RestTyped
  <2>2. freed' \subseteq Order
    BY <1>6 DEF Crash, Forgets, Amounts, RestTyped
  <2> QED
    BY <1>6, <2>1, <2>2 DEF Crash, Amounts, RestTyped
<1> QED
  BY <1>1, <1>2, <1>3, <1>4, <1>5, <1>6

LEMMA AmountsInit == Init => Amounts
<1> SUFFICES ASSUME Init PROVE Amounts
  OBVIOUS
<1>1. RowsGood /\ CopiesGood
  BY NoRowGood, NoEditOK DEF Init, RowsGood, CopiesGood, Good
<1>2. JobsGood
  BY NoJobGood DEF Init, JobsGood
<1>3. Originals
  <2>1. ASSUME NEW o \in Order, NEW p \in Payout
        PROVE  IsSale(o, p, payout[p]) /\ IsSale(o, p, SavedRow(payout, edit.copies, p))
    <3>1. payout[p] = NoRow /\ SavedRow(payout, edit.copies, p) = NoRow
      BY NoEditOK DEF Init, SavedRow
    <3>2. NoRow.order # o
      BY PayoutAssumption DEF NoRow
    <3> QED
      BY <3>1, <3>2 DEF IsSale
  <2>2. \A o \in Order : refunded[o] = 0
    BY DEF Init
  <2> QED
    BY <2>1, <2>2 DEF Originals, IsOriginal
<1>4. AddUp
  <2>1. Nets(payout, edit.copies) \in [Payout -> Int] /\ \A p \in Payout : Nets(payout, edit.copies)[p] = 0
    BY NoEditOK DEF Init, Nets, SavedRow, NoRow
  <2>2. EarnedBy(payout, refunded) \in [Order -> Int] /\ \A o \in Order : EarnedBy(payout, refunded)[o] = 0
    BY Sets DEF Init, EarnedBy, NoRow
  <2> HIDE DEF Nets, EarnedBy
  <2>3. Sum(Nets(payout, edit.copies)) = 0 /\ Sum(EarnedBy(payout, refunded)) = 0
    BY <2>1, <2>2, Sets, SumZero, PayoutAssumption
  <2> QED
    BY <2>3 DEF AddUp
<1>5. Attended
  BY DEF Init, Attended, NoRow
<1>6. RestTyped
  <2>1. event \in [postponed: BOOLEAN, end: 1..MaxDates] /\ ~event.postponed
    BY PayoutAssumption DEF Init
  <2>2. refunded \in [Order -> 0..2] /\ dispute \in [Order -> {"NONE", "OPEN", "CLOSED", "DECIDED"}] /\ moves \in 0..MaxMoves
    BY PayoutAssumption DEF Init
  <2> QED
    BY <2>1, <2>2 DEF Init, RestTyped
<1> QED
  BY <1>1, <1>2, <1>3, <1>4, <1>5, <1>6 DEF Amounts

LEMMA AmountsStep == Base /\ Amounts /\ Exact /\ [Next]_vars => Amounts'
<1> SUFFICES ASSUME Base, Amounts, Exact, [Next]_vars PROVE Amounts'
  OBVIOUS
<1>1. CopiesOK' /\ Apart
  BY EveryMove, BaseStep DEF Exact, Base
<1>2. RestTyped'
  <2>1. CASE UNCHANGED vars
    BY <2>1, MovesTyped DEF vars, OnlyMoves
  <2>2. CASE Continues
    BY <2>2, RestOthers, RestOrders, RestCycles, RestJob, RestReads DEF Continues, Progress
  <2>3. CASE Intervention
    BY <2>3, RestOthers, RestOrders, RestReads DEF Intervention
  <2> QED
    BY <2>1, <2>2, <2>3 DEF Next
<1>3. Accounts'
  <2>1. CASE VerifyAccount \/ NewDay \/ NewDate \/ Postpone \/ AnnouncementLost \/ UNCHANGED vars
    BY <2>1, IdleAccounts DEF VerifyAccount, NewDay, NewDate, Postpone, AnnouncementLost, vars
  <2>2. CASE Continues
    <3>1. CASE Progress
      BY <1>1, <2>1, <3>1, ReadAccounts, RewriteAccounts DEF Progress
    <3>2. ASSUME NEW o \in Order, CreatePayout(o) PROVE Accounts'
      BY <1>1, <1>2, <3>2, SaleAccounts
    <3>3. ASSUME NEW c \in Copy, CronFires(c) \/ CycleStep(c) PROVE Accounts'
      BY <1>1, <3>3, CycleStepAccounts
    <3>4. ASSUME NEW w \in Worker, JobStep(w) PROVE Accounts'
      BY <3>4, JobAccounts
    <3> QED
      BY <1>1, <2>1, <2>2, <3>1, <3>2, <3>3, <3>4, SaveAccounts, RewriteAccounts DEF Continues
  <2>3. CASE Intervention
    <3>1. ASSUME NEW o \in Order, NEW h \in {1, 2}, RefundReduces(o, h) \/ RefundAdjusts(o, h) PROVE Accounts'
      BY <1>1, <1>2, <3>1, SaleAccounts
    <3>2. ASSUME NEW o \in Order, OpenDispute(o) \/ ResolveDispute(o, "DECIDED") \/ ResolveDispute(o, "CLOSED")
          PROVE  Accounts'
      BY <1>1, <3>2, ReadAccounts
    <3>3. ASSUME NEW p \in Payout, Block(p) \/ UnblockByAdmin(p) \/ RequestEarly(p) \/ ApproveEarly(p)
                                   \/ AdminPays(p) \/ ReleaseBankTransfer(p)
          PROVE  Accounts'
      BY <1>1, <3>3, ReadAccounts, AdminPaysAccounts
    <3> QED
      BY <2>1, <2>3, <3>1, <3>2, <3>3, CrashAccounts DEF Intervention
  <2> QED
    BY <2>1, <2>2, <2>3 DEF Next
<1> QED
  BY <1>2, <1>3 DEF Amounts, Accounts

LEMMA AmountsTyped == Base /\ Amounts => TypeOK
<1> SUFFICES ASSUME Base, Amounts PROVE TypeOK
  OBVIOUS
<1>1. payout \in [Payout -> Row] /\ \A p \in Used : payout[p].settledBy # Nobody => payout[p].net < 0
  BY DEF Amounts, RowsGood, Good, Used
<1>2. \A p \in Used : payout[p].status = "PROCESSING" => interrupted \/ \E w \in Worker : job[w].row = p
  BY DEF Amounts, Attended, Used
<1>3. \A w \in Worker : job[w].pc \in {"idle", "cycle", "mark", "transfer", "record", "settle"}
  BY DEF Amounts, JobsGood, JobGood
<1>4. edit.follow \in {"none", "settle", "free", "unhold"}
  BY DEF Amounts, CopiesGood
<1> QED
  BY <1>1, <1>2, <1>3, <1>4 DEF TypeOK, Amounts, RestTyped

LEMMA AmountsAddUp == Base /\ Amounts => RowsAddUp
<1> SUFFICES ASSUME Base, Amounts, edit = NoEdit, ~again
             PROVE  /\ Total(Payout) >= Sum([o \in Sold |-> Earned(o)])
                    /\ ~interrupted => Total(Payout) = Sum([o \in Sold |-> Earned(o)])
  BY DEF RowsAddUp, Rest
<1>1. Total(Payout) = Sum(Nets(payout, edit.copies))
  <2>1. Nets(payout, edit.copies) = [p \in Payout |-> payout[p].net]
    BY NoEditOK DEF Nets, SavedRow
  <2> QED
    BY <2>1 DEF Total
<1>2. Sum([o \in Sold |-> Earned(o)]) = Sum(EarnedBy(payout, refunded))
  <2> DEFINE f == EarnedBy(payout, refunded)
  <2>1. f \in [Order -> Int] /\ IsFiniteSet(Order) /\ Sold \in SUBSET Order
    BY EarnedInt, PayoutAssumption DEF Sold, Amounts
  <2>2. [o \in Sold |-> Earned(o)] = [o \in Sold |-> f[o]]
    BY DEF Sold, Earned, EarnedBy
  <2>3. [o \in Order |-> IF o \in Sold THEN f[o] ELSE 0] = f
    BY DEF Sold, EarnedBy
  <2> HIDE DEF f
  <2>4. Sum([o \in Sold |-> f[o]]) = Sum(f)
    BY <2>1, <2>3, SumPart
  <2> QED
    BY <2>2, <2>4 DEF f
<1> QED
  BY <1>1, <1>2 DEF Amounts, AddUp

LEMMA AlwaysAmounts == Exact => (Spec => [](Base /\ Amounts))
<1> SUFFICES ASSUME Exact PROVE Spec => [](Base /\ Amounts)
  OBVIOUS
<1>1. Init => Base /\ Amounts
  BY BaseInit, AmountsInit
<1>2. Base /\ Amounts /\ [Next]_vars => (Base /\ Amounts)'
  BY EveryMove, BaseStep, AmountsStep DEF Exact
<1> QED
  BY <1>1, <1>2, PTL DEF Spec

\* Rows, workers and interventions are always well formed: what covers a debt
\* is noted on negative rows only, also after it was split or its order was
\* refunded, and a payout is PROCESSING no longer than a worker pays it.
THEOREM TypeCorrect == Exact => (Spec => []TypeOK)
<1> SUFFICES ASSUME Exact PROVE Spec => []TypeOK
  OBVIOUS
<1>1. Base /\ Amounts => TypeOK
  BY AmountsTyped
<1> QED
  BY <1>1, AlwaysAmounts, PTL

\* Whenever no handler is half-way and no order was refunded a second time, all
\* rows of an organizer together are worth what is earned: for any orders,
\* shares and fees, and whatever was blocked, refused, covered in part, refunded
\* or paid meanwhile.  After a stop between two saves they are worth no less.
THEOREM RowsAlwaysAddUp == Exact => (Spec => []RowsAddUp)
<1> SUFFICES ASSUME Exact PROVE Spec => []RowsAddUp
  OBVIOUS
<1>1. Base /\ Amounts => RowsAddUp
  BY AmountsAddUp
<1> QED
  BY <1>1, AlwaysAmounts, PTL

-----------------------------------------------------------------------------
(* The accounts *)

\* Neither is a paid payout blocked, nor a reserved debt, nor does a refund
\* leave a payout below zero while it may be paid.
Balances == Exact /\ Overlaps \cap {"paid", "reserved", "negative"} = {}

\* The rows as they will be once the handler half-way is over, its UPDATE too.
After(r, follow, of) ==
  IF r.status = "PENDING" /\ r.settledBy = of /\ follow = "settle" THEN [r EXCEPT !.status = "COMPLETED"]
  ELSE IF r.status = "PENDING" /\ r.settledBy = of /\ follow = "free" THEN [r EXCEPT !.settledBy = Nobody]
  ELSE r
Now(rows, e) == [p \in Payout |-> After(SavedRow(rows, e.copies, p), e.follow, e.of)]

\* The job of the worker that pays, if any does.
Current(jobs) == IF \E w \in Worker : Working(jobs[w]) THEN jobs[CHOOSE w \in Worker : Working(jobs[w])] ELSE NoJob

\* What is settled, reserved for a transfer, still to be reserved, and paid
\* before it is settled.
Book(r) == IF r.status = "COMPLETED" THEN r.net ELSE 0
Booked(now) == Sum([p \in Payout |-> Book(now[p])])
ReservedFor(q, r) == IF r.settledBy = q /\ r.status = "PENDING" THEN -r.net ELSE 0
ReservedSum(now, q) == Sum([d \in Payout |-> ReservedFor(q, now[d])])
Yet(j, q) == IF j.pc = "settle" /\ j.row = q THEN Sum(j.covered) ELSE 0
Ahead(j) == IF j.copy.status # "COMPLETED" THEN 0
            ELSE IF j.pc = "record" THEN j.copy.net - j.copy.offset
            ELSE IF j.pc = "settle" THEN -Sum(j.covered) ELSE 0

\* The rows in hand are as the worker left them, and what it takes from the
\* payout is what it covers.
Desk(j, now) ==
  Working(j) =>
    /\ j.copy.offset <= j.copy.net /\ j.covered \in [DOMAIN j.covered -> Nat]
    /\ j.pc = "mark" => now[j.row].status = "PENDING" /\ j.copy.status = "PENDING"
    /\ j.pc \in {"transfer", "record"} => now[j.row].status = "PROCESSING"
    /\ j.pc = "transfer" => j.copy.status = "PENDING"
    /\ j.pc = "settle" => j.copy.status \in {"COMPLETED", "TO_TRANSFER"} /\ now[j.row].status = j.copy.status
    /\ \A d \in DOMAIN j.covered : now[d].status = "PENDING" /\ now[d].settledBy = Nobody
    /\ j.pc \in {"mark", "transfer"} \/ (j.pc = "record" /\ j.copy.status = "COMPLETED") => Sum(j.covered) = j.copy.offset
Blocks(now) == \A p \in Payout : now[p].status = "BLOCKED" => now[p].settledBy = Nobody
Sound(now, j) == Blocks(now) /\ Desk(j, now)

\* What is paid is what was settled, a transfer waits for the debts it covers,
\* and no debt waits for a transfer that is not there.
Orphans(now) == \A d \in Payout : now[d].status = "PENDING" /\ now[d].settledBy # Nobody => now[now[d].settledBy].status = "TO_TRANSFER"
Reserves(now, j) == \A q \in Payout : now[q].status = "TO_TRANSFER" => now[q].offset = ReservedSum(now, q) + Yet(j, q)
Balanced(now, j, money) == Orphans(now) /\ Reserves(now, j) /\ money = Booked(now) + Ahead(j)

\* What may have been paid, also when it was not recorded.
Cap(j, p, r) == IF r.status \in {"COMPLETED", "PROCESSING", "FAILED"} /\ r.net > 0 /\ ~(j.pc = "transfer" /\ j.row = p) THEN r.net ELSE 0
CapSum(now, j) == Sum([p \in Payout |-> Cap(j, p, now[p])])
Bounded(now, j, money) == money <= CapSum(now, j)

\* The UPDATE that comes is about a transfer nobody works on, and no row a
\* worker still has to do with waits for a transfer.
Hand(j) == IF Working(j) THEN {j.row} \cup DOMAIN j.covered ELSE {}
Follows ==
  /\ edit.follow \in {"settle", "free"} => edit.of \in Payout /\ ~InHand(edit.of)
  /\ \A w \in Worker : \A d \in Hand(job[w]) : payout[d].settledBy = Nobody

\* The cycle has positive payouts in its list, and a refund has left no debt.
ListGood(j, now) == j.pc # "idle" => \A p \in DOMAIN j.todo : p \in Payout /\ now[p].net >= 0 /\ now[p].status # "NONE"
Lists == \A w \in Worker : ListGood(job[w], Now(payout, edit))

Books == /\ Sound(Now(payout, edit), Current(job)) /\ Bounded(Now(payout, edit), Current(job), paid)
         /\ ~interrupted => Balanced(Now(payout, edit), Current(job), paid)

\* No account knows of the row yet, or any more.
Neutral(r) == r.status \in {"NONE", "PENDING", "BLOCKED"} /\ r.settledBy = Nobody

\* The rows a handler has read, should it never save them: no account would
\* change, but for a new row, the part of a debt its worker has just split.
Unsaved ==
  /\ edit.follow \in {"settle", "free"} => edit.worker = Nobody
  /\ edit.follow \notin {"settle", "free"} =>
       \A p \in DOMAIN edit.copies :
         \/ SameEntry(edit.copies[p], payout[p])
         \/ Neutral(payout[p]) /\ Neutral(edit.copies[p])
         \/ edit.worker # Nobody /\ payout[p].status = "NONE" /\ edit.copies[p].net <= 0
  /\ \A w \in Worker : ListGood(job[w], payout)

Ledger == Follows /\ Lists /\ Books /\ Unsaved


-----------------------------------------------------------------------------
(* The accounts, step by step *)

Rows == {now \in [Payout -> Row] : \A p \in Payout : Good(now[p])}

\* The rows and the job the accounts are kept for.
Context(now, j) ==
  /\ now \in Rows
  /\ Working(j) => /\ JobGood(j, now) /\ j.row \in Payout /\ DOMAIN j.covered \subseteq Payout
                   /\ j.pc \in {"mark", "transfer", "record", "settle"}

LEMMA RowTypes ==
  ASSUME NEW now \in Rows, NEW j, NEW q
  PROVE  /\ \A p \in Payout : /\ Good(now[p]) /\ now[p] \in Row /\ now[p].net \in Int /\ now[p].offset \in Nat
                              /\ now[p].settledBy \in Payout \cup {Nobody}
         /\ [p \in Payout |-> Book(now[p])] \in [Payout -> Int]
         /\ [p \in Payout |-> ReservedFor(q, now[p])] \in [Payout -> Int]
         /\ [p \in Payout |-> Cap(j, p, now[p])] \in [Payout -> Int]
         /\ \A p \in Payout : Cap(j, p, now[p]) >= 0
         /\ Booked(now) \in Int /\ ReservedSum(now, q) \in Int /\ CapSum(now, j) \in Int
<1>1. \A p \in Payout : /\ Good(now[p]) /\ now[p] \in Row /\ now[p].net \in Int /\ now[p].offset \in Nat
                        /\ now[p].settledBy \in Payout \cup {Nobody}
  BY DEF Rows, Good, Row
<1>2. [p \in Payout |-> Book(now[p])] \in [Payout -> Int]
  BY <1>1 DEF Book
<1>3. [p \in Payout |-> ReservedFor(q, now[p])] \in [Payout -> Int]
  BY <1>1 DEF ReservedFor
<1>4. [p \in Payout |-> Cap(j, p, now[p])] \in [Payout -> Int] /\ \A p \in Payout : Cap(j, p, now[p]) >= 0
  BY <1>1 DEF Cap
<1>5. Booked(now) \in Int /\ ReservedSum(now, q) \in Int /\ CapSum(now, j) \in Int
  BY <1>2, <1>3, <1>4, Sets, SumInt DEF Booked, ReservedSum, CapSum
<1> QED
  BY <1>1, <1>2, <1>3, <1>4, <1>5

\* What a worker covers adds up to an integer, nothing in the end.
LEMMA CoveredSum ==
  ASSUME NEW now, NEW j, Context(now, j), Desk(j, now), Working(j)
  PROVE  /\ IsFiniteSet(DOMAIN j.covered) /\ j.covered \in [DOMAIN j.covered -> Int] /\ Sum(j.covered) \in Nat
         /\ DOMAIN j.covered = {} => Sum(j.covered) = 0
         /\ j.copy \in Row /\ j.copy.net \in Int /\ j.copy.offset \in Nat /\ j.copy.net >= 0 /\ j.copy.settledBy = Nobody
         /\ j.row \in Payout /\ j.row \notin DOMAIN j.covered
         /\ j.pc # "settle" => now[j.row].net = j.copy.net /\ now[j.row].settledBy = Nobody
         /\ \A d \in DOMAIN j.covered : d \in Payout /\ now[d].net < 0 /\ now[d].net \in Int
                                        /\ j.debts[d].net = now[d].net /\ j.covered[d] \in Nat
<1>1. IsFiniteSet(DOMAIN j.covered) /\ j.covered \in [DOMAIN j.covered -> Nat]
  BY Sets, FS_Subset DEF Context, Desk
<1>2. Sum(j.covered) \in Nat
  BY <1>1, SumNat
<1>3. DOMAIN j.covered = {} => Sum(j.covered) = 0
  BY <1>1, SumZero
<1>4. JobGood(j, now) /\ j.row \in Payout /\ DOMAIN j.covered \subseteq Payout /\ now \in Rows
  BY DEF Context
<1>5. Good(j.copy) /\ j.copy \in Row /\ j.copy.net \in Int /\ j.copy.offset \in Nat /\ j.copy.offset <= j.copy.net
  BY <1>4 DEF JobGood, Desk, Good, Row
<1>6. j.copy.net >= 0
  BY <1>5
<1>7. j.copy.settledBy = Nobody
  BY <1>5, <1>6 DEF Good
<1>8. j.pc # "settle" => now[j.row].net = j.copy.net /\ now[j.row].settledBy = Nobody
  BY <1>4, <1>5, <1>6, RowTypes DEF JobGood, SameWorth, Good
<1>9. \A d \in DOMAIN j.covered : d \in Payout /\ now[d].net < 0 /\ now[d].net \in Int
                                  /\ j.debts[d].net = now[d].net /\ j.covered[d] \in Nat
  BY <1>1, <1>4, RowTypes DEF JobGood, SameWorth
<1>10. j.row \notin DOMAIN j.covered
  <2>1. CASE j.pc = "settle"
    BY <2>1 DEF Desk
  <2>2. CASE j.pc # "settle"
    BY <1>5, <1>6, <1>8, <1>9, <2>2
  <2> QED
    BY <2>1, <2>2
<1> QED
  BY <1>1, <1>2, <1>3, <1>4, <1>5, <1>6, <1>7, <1>8, <1>9, <1>10

\* Rows that no account knows of yet, or not any more, change.
Quiet(now, new, j) ==
  \A p \in Payout : SameEntry(new[p], now[p]) \/ (p \notin Hand(j) /\ Neutral(now[p]) /\ Neutral(new[p]))

LEMMA QuietBooks ==
  ASSUME NEW now, NEW new \in Rows, NEW j, NEW money, Context(now, j), Quiet(now, new, j)
  PROVE  /\ Sound(now, j) => Sound(new, j)
         /\ Bounded(now, j, money) => Bounded(new, j, money)
         /\ Balanced(now, j, money) => Balanced(new, j, money)
<1>0. now \in Rows
  BY DEF Context
<1>1. [p \in Payout |-> Book(new[p])] = [p \in Payout |-> Book(now[p])]
  BY DEF Quiet, Book, Neutral, SameEntry, SameWorth
<1>2. \A q \in Payout : [p \in Payout |-> ReservedFor(q, new[p])] = [p \in Payout |-> ReservedFor(q, now[p])]
  BY Sets DEF Quiet, ReservedFor, Neutral, SameEntry, SameWorth
<1>3. [p \in Payout |-> Cap(j, p, new[p])] = [p \in Payout |-> Cap(j, p, now[p])]
  BY DEF Quiet, Cap, Neutral, SameEntry, SameWorth
<1>4. Booked(new) = Booked(now) /\ CapSum(new, j) = CapSum(now, j) /\ \A q \in Payout : ReservedSum(new, q) = ReservedSum(now, q)
  BY <1>1, <1>2, <1>3 DEF Booked, CapSum, ReservedSum
<1>5. ASSUME Sound(now, j) PROVE Sound(new, j)
  <2>1. Blocks(new)
    BY <1>5 DEF Sound, Blocks, Quiet, Neutral, SameEntry
  <2>2. Desk(j, new)
    <3>1. Working(j) => \A p \in {j.row} \cup DOMAIN j.covered : new[p].status = now[p].status /\ new[p].settledBy = now[p].settledBy
      BY DEF Quiet, Hand, SameEntry, Context
    <3> QED
      BY <1>5, <3>1 DEF Sound, Desk
  <2> QED
    BY <2>1, <2>2 DEF Sound
<1>6. ASSUME Balanced(now, j, money) PROVE Balanced(new, j, money)
  <2>1. Orphans(new)
    <3> SUFFICES ASSUME NEW d \in Payout, new[d].status = "PENDING", new[d].settledBy # Nobody
                 PROVE  new[new[d].settledBy].status = "TO_TRANSFER"
      BY DEF Orphans
    <3>1. now[d].status = "PENDING" /\ now[d].settledBy = new[d].settledBy /\ now[d].settledBy \in Payout
      BY <1>0, RowTypes DEF Quiet, Neutral, SameEntry
    <3>2. now[now[d].settledBy].status = "TO_TRANSFER"
      BY <1>6, <3>1 DEF Balanced, Orphans
    <3> QED
      BY <3>1, <3>2 DEF Quiet, Neutral, SameEntry
  <2>2. Reserves(new, j)
    <3>1. \A q \in Payout : new[q].status = "TO_TRANSFER" => now[q].status = "TO_TRANSFER" /\ new[q].offset = now[q].offset
      BY DEF Quiet, Neutral, SameEntry
    <3> QED
      BY <1>4, <1>6, <3>1 DEF Balanced, Reserves
  <2> QED
    BY <1>4, <1>6, <2>1, <2>2 DEF Balanced
<1> QED
  BY <1>4, <1>5, <1>6 DEF Bounded

\* A worker goes on without writing, and pays nothing.
LEMMA JobBooks ==
  ASSUME NEW now, NEW j, NEW k, NEW money, now \in Rows, Desk(k, now),
         j.pc # "transfer", k.pc # "transfer", Ahead(k) = Ahead(j), \A q \in Payout : Yet(k, q) = Yet(j, q)
  PROVE  /\ Sound(now, j) => Sound(now, k)
         /\ Bounded(now, j, money) => Bounded(now, k, money)
         /\ Balanced(now, j, money) => Balanced(now, k, money)
<1>1. CapSum(now, k) = CapSum(now, j)
  BY DEF CapSum, Cap
<1> QED
  BY <1>1 DEF Sound, Bounded, Balanced, Reserves


\* The payout is saved by the worker that pays it.
LEMMA SavedBooks ==
  ASSUME NEW now \in Rows, NEW new \in Rows, NEW p \in Payout, \A q \in Payout \ {p} : new[q] = now[q],
         now[p].settledBy = Nobody, new[p].settledBy = Nobody, now[p].status # "TO_TRANSFER",
         NEW j, NEW k, \A q \in Payout \ {p} : ~(j.pc = "transfer" /\ j.row = q) /\ ~(k.pc = "transfer" /\ k.row = q)
  PROVE  /\ Booked(new) = Booked(now) + Book(new[p]) - Book(now[p])
         /\ CapSum(new, k) = CapSum(now, j) + Cap(k, p, new[p]) - Cap(j, p, now[p])
         /\ \A q \in Payout : ReservedSum(new, q) = ReservedSum(now, q)
         /\ Orphans(now) => Orphans(new)
         /\ Orphans(now) => ReservedSum(now, p) = 0
         /\ Blocks(now) => Blocks(new)
<1>1. Booked(new) = Booked(now) + Book(new[p]) - Book(now[p])
  <2> DEFINE f == [q \in Payout |-> Book(now[q])]
             g == [q \in Payout |-> Book(new[q])]
  <2>1. f \in [Payout -> Int] /\ g \in [Payout -> Int]
    BY RowTypes
  <2>2. (\A q \in Payout \ {p} : g[q] = f[q]) /\ g[p] = Book(new[p]) /\ f[p] = Book(now[p])
    OBVIOUS
  <2>3. Booked(new) = Sum(g) /\ Booked(now) = Sum(f)
    BY DEF Booked
  <2> HIDE DEF f, g
  <2> QED
    BY <2>1, <2>2, <2>3, Sets, SumChange
<1>2. CapSum(new, k) = CapSum(now, j) + Cap(k, p, new[p]) - Cap(j, p, now[p])
  <2> DEFINE f == [q \in Payout |-> Cap(j, q, now[q])]
             g == [q \in Payout |-> Cap(k, q, new[q])]
  <2>1. f \in [Payout -> Int] /\ g \in [Payout -> Int]
    BY RowTypes
  <2>2. (\A q \in Payout \ {p} : g[q] = f[q]) /\ g[p] = Cap(k, p, new[p]) /\ f[p] = Cap(j, p, now[p])
    BY DEF Cap
  <2>3. CapSum(new, k) = Sum(g) /\ CapSum(now, j) = Sum(f)
    BY DEF CapSum
  <2> HIDE DEF f, g
  <2> QED
    BY <2>1, <2>2, <2>3, Sets, SumChange
<1>3. ASSUME NEW q \in Payout PROVE ReservedSum(new, q) = ReservedSum(now, q)
  <2>1. [d \in Payout |-> ReservedFor(q, new[d])] = [d \in Payout |-> ReservedFor(q, now[d])]
    BY Sets DEF ReservedFor
  <2> QED
    BY <2>1 DEF ReservedSum
<1>4. ASSUME Orphans(now) PROVE Orphans(new)
  <2> SUFFICES ASSUME NEW d \in Payout, new[d].status = "PENDING", new[d].settledBy # Nobody
               PROVE  new[new[d].settledBy].status = "TO_TRANSFER"
    BY DEF Orphans
  <2>1. d # p /\ new[d] = now[d] /\ now[d].settledBy \in Payout
    BY RowTypes
  <2>2. now[now[d].settledBy].status = "TO_TRANSFER"
    BY <1>4, <2>1 DEF Orphans
  <2> QED
    BY <2>1, <2>2
<1>5. ASSUME Orphans(now) PROVE ReservedSum(now, p) = 0
  <2> DEFINE f == [d \in Payout |-> ReservedFor(p, now[d])]
  <2>1. f \in [Payout -> Int]
    BY RowTypes
  <2>2. \A d \in Payout : f[d] = 0
    BY <1>5, Sets DEF Orphans, ReservedFor
  <2>3. ReservedSum(now, p) = Sum(f)
    BY DEF ReservedSum
  <2> HIDE DEF f
  <2> QED
    BY <2>1, <2>2, <2>3, Sets, SumZero
<1>6. Blocks(now) => Blocks(new)
  BY DEF Blocks
<1> QED
  BY <1>1, <1>2, <1>3, <1>4, <1>5, <1>6

\* k is what job j becomes when it has saved the payout with status s.
PayStep(j, k, s) ==
  \/ /\ j.pc = "mark" /\ s = "PROCESSING" /\ k.pc = "transfer" /\ k.copy.status = j.copy.status /\ k.copy.offset = j.copy.offset
     /\ k.copy.net = j.copy.net /\ k.row = j.row /\ k.covered = j.covered
  \/ /\ j.pc = "mark" /\ s \in {"COMPLETED", "TO_TRANSFER"} /\ k.pc = "settle" /\ k.copy.status = s /\ k.copy.offset = j.copy.offset
     /\ k.copy.net = j.copy.net /\ k.row = j.row /\ k.covered = j.covered
     /\ s = "COMPLETED" => j.copy.net <= j.copy.offset
  \/ /\ j.pc = "record" /\ s = "COMPLETED" /\ j.copy.status = s /\ k.pc = "settle" /\ k.copy.status = s /\ k.copy.offset = j.copy.offset
     /\ k.copy.net = j.copy.net /\ k.row = j.row /\ k.covered = j.covered
  \/ j.pc = "record" /\ s = "FAILED" /\ j.copy.status = s /\ k = NoJob

LEMMA PayBooks ==
  ASSUME NEW now, NEW j, NEW money \in Int, Context(now, j), Working(j), Sound(now, j), NEW k, NEW s, PayStep(j, k, s),
         NEW new \in Rows, \A q \in Payout \ {j.row} : new[q] = now[q],
         new[j.row].status = s, new[j.row].net = j.copy.net, new[j.row].offset = j.copy.offset, new[j.row].settledBy = Nobody
  PROVE  /\ Sound(new, k)
         /\ Bounded(now, j, money) => Bounded(new, k, money)
         /\ Balanced(now, j, money) => Balanced(new, k, money)
<1> DEFINE p == j.row
<1>1. /\ now \in Rows /\ p \in Payout /\ p \notin DOMAIN j.covered /\ now[p].settledBy = Nobody /\ now[p].net = j.copy.net
      /\ j.copy.net \in Int /\ j.copy.offset \in Nat /\ j.copy.net >= 0 /\ Sum(j.covered) \in Nat
      /\ DOMAIN j.covered \subseteq Payout
      /\ j.copy.offset <= j.copy.net
      /\ IF j.pc = "mark" THEN now[p].status = "PENDING" /\ j.copy.status = "PENDING" ELSE now[p].status = "PROCESSING"
      /\ (j.pc = "mark" \/ s = "COMPLETED") => Sum(j.covered) = j.copy.offset
  <2>1. j.pc # "settle" /\ now \in Rows
    BY DEF PayStep, Context
  <2>2. /\ p \in Payout /\ p \notin DOMAIN j.covered /\ now[p].settledBy = Nobody /\ now[p].net = j.copy.net
        /\ j.copy.net \in Int /\ j.copy.offset \in Nat /\ j.copy.net >= 0 /\ Sum(j.covered) \in Nat
        /\ DOMAIN j.covered \subseteq Payout
    BY <2>1, CoveredSum DEF Sound, Context
  <2>3. /\ j.copy.offset <= j.copy.net
        /\ IF j.pc = "mark" THEN now[p].status = "PENDING" /\ j.copy.status = "PENDING" ELSE now[p].status = "PROCESSING"
        /\ (j.pc = "mark" \/ s = "COMPLETED") => Sum(j.covered) = j.copy.offset
    BY DEF Sound, Desk, PayStep
  <2> QED
    BY <2>1, <2>2, <2>3
<1>2. /\ Booked(new) = Booked(now) + Book(new[p]) - Book(now[p])
      /\ CapSum(new, k) = CapSum(now, j) + Cap(k, p, new[p]) - Cap(j, p, now[p])
      /\ \A q \in Payout : ReservedSum(new, q) = ReservedSum(now, q)
      /\ Orphans(now) => Orphans(new)
      /\ Orphans(now) => ReservedSum(now, p) = 0
      /\ Blocks(now) => Blocks(new)
  <2>1. \A q \in Payout \ {p} : ~(j.pc = "transfer" /\ j.row = q) /\ ~(k.pc = "transfer" /\ k.row = q)
    BY DEF PayStep, NoJob
  <2> QED
    BY <1>1, <2>1, SavedBooks
<1>3. Sound(new, k)
  <2>1. Desk(k, new)
    <3>1. Desk(j, now) /\ \A d \in DOMAIN j.covered : new[d] = now[d]
      BY <1>1 DEF Sound
    <3>2. CASE k = NoJob
      BY <3>2, NoJobOK DEF Desk, Working
    <3>3. CASE k # NoJob
      BY <1>1, <3>1, <3>3 DEF Desk, PayStep, Working
    <3> QED
      BY <3>2, <3>3
  <2> QED
    BY <1>2, <2>1 DEF Sound
<1>4. CapSum(new, k) \in Int /\ CapSum(now, j) \in Int /\ CapSum(new, k) >= CapSum(now, j)
  <2>1. Cap(k, p, new[p]) >= Cap(j, p, now[p])
    BY <1>1 DEF PayStep, Cap, NoJob
  <2>2. Cap(k, p, new[p]) \in Int /\ Cap(j, p, now[p]) \in Int
    BY <1>1 DEF Cap
  <2> QED
    BY <1>1, <1>2, <2>1, <2>2, RowTypes
<1>5. ASSUME Balanced(now, j, money) PROVE Balanced(new, k, money)
  <2>1. Book(now[p]) = 0 /\ Book(new[p]) + Ahead(k) = Ahead(j) /\ Ahead(k) \in Int /\ Book(new[p]) \in Int
    BY <1>1 DEF PayStep, Book, Ahead, NoJob, NoRow
  <2>2. money = Booked(new) + Ahead(k)
    BY <1>1, <1>2, <1>5, <2>1, RowTypes DEF Balanced
  <2>3. Reserves(new, k)
    <3> SUFFICES ASSUME NEW q \in Payout, new[q].status = "TO_TRANSFER" PROVE new[q].offset = ReservedSum(new, q) + Yet(k, q)
      BY DEF Reserves
    <3>1. CASE q = p
      <4>1. Yet(k, q) = Sum(j.covered) /\ new[q].offset = Sum(j.covered)
        BY <1>1, <3>1 DEF PayStep, Yet
      <4> QED
        BY <1>1, <1>2, <1>5, <3>1, <4>1 DEF Balanced
    <3>2. CASE q # p
      <4>1. Yet(k, q) = Yet(j, q)
        BY <3>2 DEF PayStep, Yet, NoJob
      <4> QED
        BY <1>2, <1>5, <3>2, <4>1 DEF Balanced, Reserves
    <3> QED
      BY <3>1, <3>2
  <2> QED
    BY <1>2, <1>5, <2>2, <2>3 DEF Balanced
<1> QED
  BY <1>3, <1>4, <1>5 DEF Bounded

\* Stripe is called: what it answers, or does not.
LEMMA StripeBooks ==
  ASSUME NEW now, NEW j, NEW money \in Int, Context(now, j), j.pc = "transfer", Sound(now, j), NEW k, NEW money2 \in Int,
         k.pc = "record", k.row = j.row, k.covered = j.covered, k.copy.net = j.copy.net,
         \/ k.copy.status = "COMPLETED" /\ k.copy.offset = j.copy.offset /\ money2 = money + (j.copy.net - j.copy.offset)
         \/ k.copy.status = "FAILED" /\ k.copy.offset = 0 /\ money2 \in {money, money + (j.copy.net - j.copy.offset)}
  PROVE  /\ Sound(now, k)
         /\ Bounded(now, j, money) => Bounded(now, k, money2)
         /\ Balanced(now, j, money) /\ (k.copy.status = "FAILED" => money2 = money) => Balanced(now, k, money2)
<1> DEFINE p == j.row
<1>1. /\ now \in Rows /\ p \in Payout /\ now[p].net = j.copy.net /\ now[p].status = "PROCESSING"
      /\ j.copy.net \in Int /\ j.copy.offset \in Nat /\ j.copy.offset <= j.copy.net /\ j.copy.status = "PENDING"
      /\ Sum(j.covered) = j.copy.offset /\ j.covered \in [DOMAIN j.covered -> Nat]
      /\ \A d \in DOMAIN j.covered : now[d].status = "PENDING" /\ now[d].settledBy = Nobody
  <2>1. Working(j) /\ now \in Rows /\ Desk(j, now)
    BY DEF Working, Context, Sound
  <2> QED
    BY <2>1, CoveredSum DEF Desk
<1>2. Sound(now, k)
  BY <1>1 DEF Sound, Desk, Working
<1>3. Bounded(now, j, money) => Bounded(now, k, money2)
  <2> DEFINE f == [q \in Payout |-> Cap(j, q, now[q])]
             g == [q \in Payout |-> Cap(k, q, now[q])]
  <2>1. f \in [Payout -> Int] /\ g \in [Payout -> Int]
    BY <1>1, RowTypes
  <2>2. (\A q \in Payout \ {p} : g[q] = f[q]) /\ g[p] = j.copy.net /\ f[p] = 0
    BY <1>1 DEF Cap
  <2>3. CapSum(now, k) = Sum(g) /\ CapSum(now, j) = Sum(f)
    BY DEF CapSum
  <2> HIDE DEF f, g
  <2>4. Sum(g) = Sum(f) + j.copy.net /\ Sum(f) \in Int
    BY <1>1, <2>1, <2>2, Sets, SumChange, SumInt
  <2>5. money2 <= money + j.copy.net
    BY <1>1
  <2> QED
    BY <1>1, <2>3, <2>4, <2>5 DEF Bounded
<1>4. \A q \in Payout : Yet(k, q) = Yet(j, q)
  BY DEF Yet
<1>5. k.copy.status = "FAILED" => Ahead(k) = 0
  BY DEF Ahead
<1>6. k.copy.status = "COMPLETED" => Ahead(k) = j.copy.net - j.copy.offset
  BY DEF Ahead
<1>7. Ahead(j) = 0
  BY <1>1 DEF Ahead
<1>8. Balanced(now, j, money) /\ (k.copy.status = "FAILED" => money2 = money) => Balanced(now, k, money2)
  BY <1>1, <1>4, <1>5, <1>6, <1>7, RowTypes DEF Balanced, Reserves
<1> QED
  BY <1>2, <1>3, <1>8


\* A debt is settled or reserved, whole or in part: row c carries what is
\* covered, row d, when it is another, what is left.
SettleStep(j, k, d) ==
  /\ j.pc = "settle" /\ d \in DOMAIN j.covered
  /\ k.pc = "settle" /\ k.row = j.row /\ k.copy = j.copy
  /\ k.covered = [q \in DOMAIN j.covered \ {d} |-> j.covered[q]]

Covers(now, new, j, d, c) ==
  /\ c \in Payout /\ new[c].status = (IF j.copy.status = "COMPLETED" THEN "COMPLETED" ELSE "PENDING")
  /\ new[c].settledBy = j.row /\ new[c].net = -j.covered[d]
  /\ \/ c = d
     \/ now[c].status = "NONE" /\ new[d].status = "PENDING" /\ new[d].settledBy = Nobody /\ new[d].net < 0
  /\ \A q \in Payout \ {c, d} : new[q] = now[q]

LEMMA LessCovered ==
  ASSUME NEW now, NEW j, Context(now, j), Sound(now, j), NEW k, NEW d, SettleStep(j, k, d)
  PROVE  /\ Sum(k.covered) = Sum(j.covered) - j.covered[d] /\ Sum(j.covered) \in Nat /\ j.covered[d] \in Nat
         /\ DOMAIN k.covered = DOMAIN j.covered \ {d} /\ k.covered \in [DOMAIN k.covered -> Nat]
         /\ d \in Payout /\ j.row \in Payout /\ d # j.row /\ now[d].status = "PENDING" /\ now[d].settledBy = Nobody /\ now[d].net < 0
         /\ j.copy.status \in {"COMPLETED", "TO_TRANSFER"} /\ now[j.row].status = j.copy.status
<1> DEFINE S == DOMAIN j.covered
<1>1. IsFiniteSet(S) /\ j.covered \in [S -> Int] /\ Sum(j.covered) \in Nat /\ d \in S /\ j.covered[d] \in Nat
      /\ d \in Payout /\ j.row \in Payout /\ d # j.row /\ now[d].net < 0 /\ j.covered \in [S -> Nat]
  BY CoveredSum DEF SettleStep, Working, Sound, Desk
<1>2. DOMAIN k.covered = S \ {d} /\ k.covered = [q \in S \ {d} |-> j.covered[q]] /\ k.covered \in [DOMAIN k.covered -> Nat]
  BY <1>1 DEF SettleStep
<1> HIDE DEF S
<1>3. Sum(k.covered) = Sum(j.covered) - j.covered[d]
  <2> DEFINE T == S \ {d}
  <2>1. T \in SUBSET S /\ d \in S \ T /\ T \cup {d} = S
    BY <1>1
  <2> HIDE DEF T
  <2>2. Over(j.covered, S) = Sum(j.covered) /\ Over(j.covered, T) \in Int /\ Over(j.covered, T \cup {d}) = j.covered[d] + Over(j.covered, T)
    BY <1>1, <2>1, SumOver
  <2>3. Over(j.covered, T) = Sum(k.covered)
    BY <1>2 DEF Over, T
  <2>4. Sum(j.covered) = j.covered[d] + Sum(k.covered) /\ Sum(k.covered) \in Int
    BY <2>1, <2>2, <2>3, Zenon
  <2> QED
    BY <1>1, <2>4
<1>4. /\ now[d].status = "PENDING" /\ now[d].settledBy = Nobody
      /\ j.copy.status \in {"COMPLETED", "TO_TRANSFER"} /\ now[j.row].status = j.copy.status
  BY <1>1 DEF SettleStep, Sound, Desk, Working, S
<1> QED
  BY <1>1, <1>2, <1>3, <1>4 DEF S

LEMMA SettleBooks ==
  ASSUME NEW now, NEW j, NEW money \in Int, Context(now, j), Sound(now, j), NEW k, NEW d, SettleStep(j, k, d),
         NEW new \in Rows, NEW c, Covers(now, new, j, d, c)
  PROVE  /\ Sound(new, k)
         /\ Bounded(now, j, money) => Bounded(new, k, money)
         /\ Balanced(now, j, money) => Balanced(new, k, money)
<1> DEFINE p == j.row
           part == j.covered[d]
           done == j.copy.status = "COMPLETED"
<1>1. /\ Sum(k.covered) = Sum(j.covered) - part /\ Sum(j.covered) \in Nat /\ part \in Nat
      /\ DOMAIN k.covered = DOMAIN j.covered \ {d} /\ k.covered \in [DOMAIN k.covered -> Nat]
      /\ d \in Payout /\ p \in Payout /\ d # p /\ now[d].status = "PENDING" /\ now[d].settledBy = Nobody /\ now[d].net < 0
      /\ j.copy.status \in {"COMPLETED", "TO_TRANSFER"} /\ now[p].status = j.copy.status
  BY LessCovered
<1>2. /\ c \in Payout /\ new[c].status = (IF done THEN "COMPLETED" ELSE "PENDING") /\ new[c].settledBy = p /\ new[c].net = -part
      /\ c # d => now[c].status = "NONE" /\ new[d].status = "PENDING" /\ new[d].settledBy = Nobody /\ new[d].net < 0
      /\ \A q \in Payout \ {c, d} : new[q] = now[q]
      /\ c # p /\ now[c].status \in {"NONE", "PENDING"} /\ now[c].settledBy = Nobody /\ now \in Rows
      /\ c \notin DOMAIN k.covered /\ new[p] = now[p] /\ -part <= 0
  <2>1. /\ c \in Payout /\ new[c].status = (IF done THEN "COMPLETED" ELSE "PENDING") /\ new[c].settledBy = p /\ new[c].net = -part
        /\ c # d => now[c].status = "NONE" /\ new[d].status = "PENDING" /\ new[d].settledBy = Nobody /\ new[d].net < 0
        /\ \A q \in Payout \ {c, d} : new[q] = now[q]
    BY DEF Covers
  <2>2. now \in Rows /\ (c # d => Good(now[c]))
    BY <2>1, RowTypes DEF Context
  <2>3. now[c].status \in {"NONE", "PENDING"} /\ now[c].settledBy = Nobody
    BY <1>1, <2>1, <2>2 DEF Good
  <2>4. \A q \in DOMAIN j.covered : now[q].status = "PENDING"
    BY DEF Sound, Desk, SettleStep, Working
  <2> QED
    BY <1>1, <2>1, <2>2, <2>3, <2>4
<1>3. Working(j) /\ Working(k) /\ j.pc = "settle" /\ k.pc = "settle" /\ k.row = p /\ k.copy = j.copy
  BY DEF SettleStep, Working
<1> HIDE DEF part, done
<1>4. Sound(new, k)
  <2>1. Blocks(new)
    BY <1>1, <1>2 DEF Sound, Blocks
  <2>2. \A q \in DOMAIN k.covered : new[q].status = "PENDING" /\ new[q].settledBy = Nobody
    <3>1. \A q \in DOMAIN j.covered : q \in Payout /\ now[q].status = "PENDING" /\ now[q].settledBy = Nobody
      BY <1>3 DEF Sound, Desk, Context
    <3> QED
      BY <1>1, <1>2, <3>1
  <2>3. Desk(k, new)
    BY <1>1, <1>2, <1>3, <2>2 DEF Desk, Sound
  <2> QED
    BY <2>1, <2>3 DEF Sound
<1>5. CapSum(new, k) = CapSum(now, j)
  <2>1. now[c].net \in Int /\ now[c].status # "COMPLETED" /\ now[d].status # "COMPLETED"
    BY <1>1, <1>2, RowTypes
  <2>2. \A q \in Payout : Cap(k, q, new[q]) = Cap(j, q, now[q])
    BY <1>1, <1>2, <1>3, <2>1 DEF Cap
  <2> QED
    BY <2>2 DEF CapSum
<1>6. Booked(new) = Booked(now) - (IF done THEN part ELSE 0)
  <2> DEFINE f == [q \in Payout |-> Book(now[q])]
             g == [q \in Payout |-> Book(new[q])]
  <2>1. f \in [Payout -> Int] /\ g \in [Payout -> Int]
    BY <1>2, RowTypes
  <2>2. (\A q \in Payout \ {c} : g[q] = f[q]) /\ g[c] = (IF done THEN -part ELSE 0) /\ f[c] = 0
    BY <1>1, <1>2 DEF Book
  <2>3. Booked(new) = Sum(g) /\ Booked(now) = Sum(f)
    BY DEF Booked
  <2> HIDE DEF f, g
  <2>4. Sum(g) = Sum(f) + g[c] - f[c] /\ Sum(f) \in Int
    BY <1>2, <2>1, <2>2, Sets, SumChange, SumInt
  <2> QED
    BY <1>1, <2>2, <2>3, <2>4
<1>7. ASSUME NEW q \in Payout PROVE ReservedSum(new, q) = ReservedSum(now, q) + (IF q = p /\ ~done THEN part ELSE 0)
  <2> DEFINE f == [x \in Payout |-> ReservedFor(q, now[x])]
             g == [x \in Payout |-> ReservedFor(q, new[x])]
  <2>1. f \in [Payout -> Int] /\ g \in [Payout -> Int]
    BY <1>2, RowTypes
  <2>2. (\A x \in Payout \ {c} : g[x] = f[x]) /\ f[c] = 0
    BY <1>1, <1>2, Sets DEF ReservedFor
  <2>3. g[c] = (IF q = p /\ ~done THEN part ELSE 0)
    BY <1>1, <1>2 DEF ReservedFor
  <2>4. ReservedSum(new, q) = Sum(g) /\ ReservedSum(now, q) = Sum(f)
    BY DEF ReservedSum
  <2> HIDE DEF f, g
  <2>5. Sum(g) = Sum(f) + g[c] - f[c] /\ Sum(f) \in Int
    BY <1>2, <2>1, <2>2, Sets, SumChange, SumInt
  <2> QED
    BY <1>1, <2>2, <2>3, <2>4, <2>5
<1>8. ASSUME Balanced(now, j, money) PROVE Balanced(new, k, money)
  <2>1. Orphans(new)
    <3> SUFFICES ASSUME NEW x \in Payout, new[x].status = "PENDING", new[x].settledBy # Nobody
                 PROVE  new[new[x].settledBy].status = "TO_TRANSFER"
      BY DEF Orphans
    <3>1. CASE x = c
      BY <1>1, <1>2, <3>1 DEF done
    <3>2. CASE x # c
      <4>1. new[x] = now[x] /\ now[x].settledBy \in Payout
        BY <1>2, <3>2, RowTypes
      <4>2. now[now[x].settledBy].status = "TO_TRANSFER"
        BY <1>8, <4>1 DEF Balanced, Orphans
      <4> QED
        BY <1>1, <1>2, <4>1, <4>2
    <3> QED
      BY <3>1, <3>2
  <2>2. Reserves(new, k)
    <3> SUFFICES ASSUME NEW q \in Payout, new[q].status = "TO_TRANSFER" PROVE new[q].offset = ReservedSum(new, q) + Yet(k, q)
      BY DEF Reserves
    <3>1. new[q] = now[q]
      BY <1>1, <1>2
    <3>2. now[q].offset = ReservedSum(now, q) + Yet(j, q) /\ ReservedSum(now, q) \in Int
      BY <1>2, <1>8, <3>1, RowTypes DEF Balanced, Reserves
    <3>3. CASE q = p
      <4>1. ~done /\ Yet(k, q) = Sum(k.covered) /\ Yet(j, q) = Sum(j.covered)
        BY <1>1, <1>2, <1>3, <3>1, <3>3 DEF Yet, done
      <4>2. ReservedSum(new, q) = ReservedSum(now, q) + part
        BY <1>7, <3>3, <4>1
      <4> QED
        BY <1>1, <3>1, <3>2, <4>1, <4>2
    <3>4. CASE q # p
      <4>1. ReservedSum(new, q) = ReservedSum(now, q) /\ Yet(k, q) = 0 /\ Yet(j, q) = 0
        BY <1>3, <1>7, <3>2, <3>4 DEF Yet
      <4> QED
        BY <3>1, <3>2, <4>1
    <3> QED
      BY <3>3, <3>4
  <2>3. money = Booked(new) + Ahead(k)
    <3>1. Ahead(k) = (IF done THEN -Sum(k.covered) ELSE 0) /\ Ahead(j) = (IF done THEN -Sum(j.covered) ELSE 0)
      BY <1>3 DEF Ahead, done
    <3>2. Booked(now) \in Int /\ money = Booked(now) + Ahead(j)
      BY <1>2, <1>8, RowTypes DEF Balanced
    <3> QED
      BY <1>1, <1>6, <3>1, <3>2
  <2> QED
    BY <2>1, <2>2, <2>3 DEF Balanced
<1> QED
  BY <1>4, <1>5, <1>8 DEF Bounded


\* Row q is reserved for the transfer of p.
Awaits(now, q, p) == now[q].settledBy = p /\ now[q].status = "PENDING"

\* A confirmed transfer, and the debts reserved for it, are settled.
Confirms(now, new, p) ==
  /\ now[p].status = "TO_TRANSFER"
  /\ \A q \in Payout : /\ new[q].net = now[q].net /\ new[q].offset = now[q].offset /\ new[q].settledBy = now[q].settledBy
                       /\ new[q].status = IF q = p \/ Awaits(now, q, p) THEN "COMPLETED" ELSE now[q].status

\* A cancelled transfer is a payout again, and its debts are free.
Releases(now, new, p) ==
  /\ now[p].status = "TO_TRANSFER" /\ new[p].status = "PENDING"
  /\ \A q \in Payout : /\ new[q].net = now[q].net
                       /\ q # p => new[q].status = now[q].status /\ new[q].offset = now[q].offset
                       /\ new[q].settledBy = IF Awaits(now, q, p) THEN Nobody ELSE now[q].settledBy

\* What both leave alone.
LEMMA TransferHand ==
  ASSUME NEW now, NEW j, Context(now, j), Sound(now, j), NEW p \in Payout, p \notin Hand(j),
         NEW new, Confirms(now, new, p) \/ Releases(now, new, p)
  PROVE  Sound(new, j)
<1>1. now \in Rows
  BY DEF Context
<1>2. now[p].net > 0 /\ now[p].settledBy = Nobody
  BY <1>1, RowTypes DEF Confirms, Releases, Good
<1>3. Blocks(new)
  <2> SUFFICES ASSUME NEW q \in Payout, new[q].status = "BLOCKED" PROVE new[q].settledBy = Nobody
    BY DEF Blocks
  <2>1. now[q].status = "BLOCKED"
    BY DEF Confirms, Releases
  <2>2. now[q].settledBy = Nobody
    BY <2>1 DEF Sound, Blocks
  <2> QED
    BY <2>2 DEF Confirms, Releases
<1>4. Desk(j, new)
  <2> SUFFICES ASSUME Working(j) PROVE Desk(j, new)
    BY DEF Desk
  <2>1. /\ j.row \in Payout /\ j.row # p /\ (j.pc # "settle" => now[j.row].settledBy = Nobody)
        /\ \A d \in DOMAIN j.covered : d \in Payout /\ d # p
    BY CoveredSum DEF Sound, Hand
  <2>2. j.pc = "settle" => now[j.row].status # "PENDING"
    BY DEF Sound, Desk
  <2>3. new[j.row].status = now[j.row].status
    BY <2>1, <2>2, Sets DEF Confirms, Releases, Awaits
  <2>4. \A d \in DOMAIN j.covered : now[d].status = "PENDING" /\ now[d].settledBy = Nobody
    BY DEF Sound, Desk
  <2>5. \A d \in DOMAIN j.covered : new[d].status = "PENDING" /\ new[d].settledBy = Nobody
    BY <2>1, <2>4, Sets DEF Confirms, Releases, Awaits
  <2> QED
    BY <2>3, <2>5 DEF Sound, Desk
<1> QED
  BY <1>3, <1>4 DEF Sound

LEMMA ConfirmBooks ==
  ASSUME NEW now, NEW j, NEW money \in Int, Context(now, j), Sound(now, j), NEW p \in Payout, p \notin Hand(j),
         NEW new \in Rows, Confirms(now, new, p), NEW money2, money2 = money + now[p].net - now[p].offset
  PROVE  /\ Sound(new, j)
         /\ Bounded(now, j, money) => Bounded(new, j, money2)
         /\ Balanced(now, j, money) => Balanced(new, j, money2)
<1>1. /\ now \in Rows /\ now[p].net \in Int /\ now[p].offset \in Nat /\ now[p].net > now[p].offset
      /\ now[p].settledBy = Nobody /\ now[p].status = "TO_TRANSFER"
  <2>1. now \in Rows
    BY DEF Context
  <2>2. Good(now[p]) /\ now[p].net \in Int /\ now[p].offset \in Nat /\ now[p].net > now[p].offset
    BY <2>1, RowTypes DEF Confirms, Good
  <2> QED
    BY <2>1, <2>2 DEF Confirms, Good
<1>2. Sound(new, j)
  BY TransferHand
<1>3. ~(Working(j) /\ j.row = p)
  BY DEF Hand
<1>4. \A q \in Payout : Awaits(now, q, p) => now[q].net < 0 /\ now[q].net \in Int /\ q # p
  BY <1>1, Sets, RowTypes DEF Awaits, Good
<1>5. CapSum(new, j) = CapSum(now, j) + now[p].net
  <2> DEFINE f == [q \in Payout |-> Cap(j, q, now[q])]
             g == [q \in Payout |-> Cap(j, q, new[q])]
  <2>1. f \in [Payout -> Int] /\ g \in [Payout -> Int]
    BY <1>1, RowTypes
  <2>2. \A q \in Payout \ {p} : Cap(j, q, new[q]) = Cap(j, q, now[q])
    <3> SUFFICES ASSUME NEW q \in Payout \ {p} PROVE Cap(j, q, new[q]) = Cap(j, q, now[q])
      OBVIOUS
    <3>1. CASE Awaits(now, q, p)
      BY <1>4, <3>1 DEF Cap, Confirms
    <3>2. CASE ~Awaits(now, q, p)
      BY <3>2 DEF Cap, Confirms
    <3> QED
      BY <3>1, <3>2
  <2>3. g[p] = now[p].net /\ f[p] = 0
    BY <1>1, <1>3 DEF Cap, Confirms, Working
  <2>4. CapSum(new, j) = Sum(g) /\ CapSum(now, j) = Sum(f) /\ \A q \in Payout \ {p} : g[q] = f[q]
    BY <2>2 DEF CapSum
  <2> HIDE DEF f, g
  <2>5. Sum(g) = Sum(f) + g[p] - f[p] /\ Sum(f) \in Int
    BY <2>1, <2>4, Sets, SumChange, SumInt
  <2> QED
    BY <1>1, <2>3, <2>4, <2>5
<1>6. Bounded(now, j, money) => Bounded(new, j, money2)
  <2>1. CapSum(now, j) \in Int
    BY <1>1, RowTypes
  <2> QED
    BY <1>1, <1>5, <2>1 DEF Bounded
<1>7. Booked(new) + ReservedSum(now, p) = Booked(now) + now[p].net
  <2> DEFINE f == [q \in Payout |-> Book(now[q])]
             g == [q \in Payout |-> Book(new[q])]
             r == [q \in Payout |-> ReservedFor(p, now[q])]
             h == [q \in Payout |-> g[q] + r[q]]
  <2>1. f \in [Payout -> Int] /\ g \in [Payout -> Int] /\ r \in [Payout -> Int]
    BY <1>1, RowTypes
  <2>2. \A q \in Payout \ {p} : Book(new[q]) + ReservedFor(p, now[q]) = Book(now[q])
    <3> SUFFICES ASSUME NEW q \in Payout \ {p} PROVE Book(new[q]) + ReservedFor(p, now[q]) = Book(now[q])
      OBVIOUS
    <3>1. now[q].net \in Int
      BY <1>1, RowTypes
    <3>2. CASE Awaits(now, q, p)
      BY <3>1, <3>2 DEF Book, ReservedFor, Awaits, Confirms
    <3>3. CASE ~Awaits(now, q, p)
      BY <3>1, <3>3 DEF Book, ReservedFor, Awaits, Confirms
    <3> QED
      BY <3>2, <3>3
  <2>3. Book(new[p]) + ReservedFor(p, now[p]) = now[p].net /\ Book(now[p]) = 0
    BY <1>1 DEF Book, ReservedFor, Confirms
  <2>4. h \in [Payout -> Int] /\ (\A q \in Payout \ {p} : h[q] = f[q]) /\ h[p] = now[p].net /\ f[p] = 0
    BY <2>1, <2>2, <2>3
  <2>5. Booked(new) = Sum(g) /\ Booked(now) = Sum(f) /\ ReservedSum(now, p) = Sum(r)
    BY DEF Booked, ReservedSum
  <2> HIDE DEF f, g, r
  <2>6. Sum(h) = Sum(g) + Sum(r)
    BY <2>1, Sets, SumPlus
  <2> HIDE DEF h
  <2>7. Sum(h) = Sum(f) + h[p] - f[p] /\ Sum(f) \in Int
    BY <2>1, <2>4, Sets, SumChange, SumInt
  <2> QED
    BY <1>1, <2>4, <2>5, <2>6, <2>7
<1>8. ASSUME Balanced(now, j, money) PROVE Balanced(new, j, money2)
  <2>1. Orphans(new)
    <3> SUFFICES ASSUME NEW x \in Payout, new[x].status = "PENDING", new[x].settledBy # Nobody
                 PROVE  new[new[x].settledBy].status = "TO_TRANSFER"
      BY DEF Orphans
    <3>1. ~Awaits(now, x, p) /\ now[x].status = "PENDING" /\ now[x].settledBy = new[x].settledBy /\ now[x].settledBy \in Payout
      BY <1>1, RowTypes DEF Confirms
    <3>2. now[now[x].settledBy].status = "TO_TRANSFER" /\ now[x].settledBy # p
      BY <1>8, <3>1 DEF Balanced, Orphans, Awaits
    <3> QED
      BY <3>1, <3>2 DEF Confirms, Awaits
  <2>2. Reserves(new, j)
    <3> SUFFICES ASSUME NEW q \in Payout, new[q].status = "TO_TRANSFER" PROVE new[q].offset = ReservedSum(new, q) + Yet(j, q)
      BY DEF Reserves
    <3>1. q # p /\ now[q].status = "TO_TRANSFER" /\ new[q].offset = now[q].offset
      BY DEF Confirms
    <3>2. [d \in Payout |-> ReservedFor(q, new[d])] = [d \in Payout |-> ReservedFor(q, now[d])]
      BY <3>1 DEF ReservedFor, Confirms, Awaits
    <3>3. ReservedSum(new, q) = ReservedSum(now, q)
      BY <3>2 DEF ReservedSum
    <3> QED
      BY <1>8, <3>1, <3>3 DEF Balanced, Reserves
  <2>3. now[p].offset = ReservedSum(now, p) /\ money = Booked(now) + Ahead(j)
    <3>1. Yet(j, p) = 0
      BY <1>3 DEF Yet, Working
    <3>2. ReservedSum(now, p) \in Int
      BY <1>1, RowTypes
    <3> QED
      BY <1>1, <1>8, <3>1, <3>2 DEF Balanced, Reserves
  <2>4. Booked(now) \in Int /\ Booked(new) \in Int
    BY <1>1, RowTypes
  <2>5. Ahead(j) \in Int
    <3>1. CASE Working(j)
      <4>1. j.copy.net \in Int /\ j.copy.offset \in Nat /\ Sum(j.covered) \in Nat
        BY <3>1, CoveredSum DEF Sound
      <4> QED
        BY <4>1 DEF Ahead
    <3>2. CASE ~Working(j)
      BY <3>2 DEF Ahead, Working
    <3> QED
      BY <3>1, <3>2
  <2>6. money2 = Booked(new) + Ahead(j)
    BY <1>1, <1>7, <2>3, <2>4, <2>5
  <2> QED
    BY <2>1, <2>2, <2>6 DEF Balanced
<1> QED
  BY <1>2, <1>6, <1>8

LEMMA ReleaseBooks ==
  ASSUME NEW now, NEW j, NEW money, Context(now, j), Sound(now, j), NEW p \in Payout, p \notin Hand(j),
         NEW new \in Rows, Releases(now, new, p)
  PROVE  /\ Sound(new, j)
         /\ Bounded(now, j, money) => Bounded(new, j, money)
         /\ Balanced(now, j, money) => Balanced(new, j, money)
<1>1. now \in Rows /\ now[p].status = "TO_TRANSFER" /\ now[p].settledBy = Nobody
  <2>1. now \in Rows /\ Good(now[p]) /\ now[p].net \in Int /\ now[p].net > 0
    BY RowTypes DEF Context, Releases, Good
  <2> QED
    BY <2>1 DEF Releases, Good
<1>2. Sound(new, j)
  BY TransferHand
<1>3. CapSum(new, j) = CapSum(now, j)
  <2>1. \A q \in Payout : Cap(j, q, new[q]) = Cap(j, q, now[q])
    BY <1>1 DEF Cap, Releases
  <2> QED
    BY <2>1 DEF CapSum
<1>4. Booked(new) = Booked(now)
  <2>1. \A q \in Payout : Book(new[q]) = Book(now[q])
    BY <1>1 DEF Book, Releases
  <2> QED
    BY <2>1 DEF Booked
<1>5. ASSUME Balanced(now, j, money) PROVE Balanced(new, j, money)
  <2>1. Orphans(new)
    <3> SUFFICES ASSUME NEW x \in Payout, new[x].status = "PENDING", new[x].settledBy # Nobody
                 PROVE  new[new[x].settledBy].status = "TO_TRANSFER"
      BY DEF Orphans
    <3>1. x # p /\ ~Awaits(now, x, p) /\ now[x].status = "PENDING" /\ now[x].settledBy = new[x].settledBy /\ now[x].settledBy \in Payout
      BY <1>1, RowTypes DEF Releases
    <3>2. now[now[x].settledBy].status = "TO_TRANSFER" /\ now[x].settledBy # p
      BY <1>5, <3>1 DEF Balanced, Orphans, Awaits
    <3> QED
      BY <3>1, <3>2 DEF Releases
  <2>2. Reserves(new, j)
    <3> SUFFICES ASSUME NEW q \in Payout, new[q].status = "TO_TRANSFER" PROVE new[q].offset = ReservedSum(new, q) + Yet(j, q)
      BY DEF Reserves
    <3>1. q # p /\ now[q].status = "TO_TRANSFER" /\ new[q].offset = now[q].offset
      BY DEF Releases
    <3>2. \A d \in Payout : ReservedFor(q, new[d]) = ReservedFor(q, now[d])
      <4> SUFFICES ASSUME NEW d \in Payout PROVE ReservedFor(q, new[d]) = ReservedFor(q, now[d])
        OBVIOUS
      <4>1. CASE d = p
        BY <1>1, <4>1, Sets DEF ReservedFor, Releases, Awaits
      <4>2. CASE d # p
        BY <3>1, <4>2, Sets DEF ReservedFor, Releases, Awaits
      <4> QED
        BY <4>1, <4>2
    <3>3. ReservedSum(new, q) = ReservedSum(now, q)
      BY <3>2 DEF ReservedSum
    <3> QED
      BY <1>5, <3>1, <3>3 DEF Balanced, Reserves
  <2> QED
    BY <1>4, <1>5, <2>1, <2>2 DEF Balanced
<1> QED
  BY <1>2, <1>3, <1>5 DEF Bounded


-----------------------------------------------------------------------------
(* The accounts in every state *)

\* Nobody but the workers pays, and one at a time.
LEMMA CurrentIs ==
  ASSUME NEW jobs, NEW w \in Worker, Working(jobs[w]), \A v \in Worker \ {w} : jobs[v].pc = "idle"
  PROVE  Current(jobs) = jobs[w]
<1>1. \A v \in Worker : Working(jobs[v]) <=> v = w
  BY DEF Working
<1>2. (CHOOSE v \in Worker : Working(jobs[v])) = w
  BY <1>1
<1> QED
  BY <1>1, <1>2 DEF Current

LEMMA CurrentNone ==
  ASSUME NEW jobs, \A v \in Worker : ~Working(jobs[v])
  PROVE  Current(jobs) = NoJob /\ ~Working(Current(jobs))
<1>1. Current(jobs) = NoJob
  BY DEF Current
<1> QED
  BY <1>1, NoJobOK DEF Working

LEMMA AfterKeeps ==
  ASSUME NEW r, Good(r), NEW follow, NEW of
  PROVE  /\ Good(After(r, follow, of)) /\ SameWorth(After(r, follow, of), r) /\ After(r, follow, of).offset = r.offset
         /\ After(r, follow, of).status = IF r.status = "PENDING" /\ r.settledBy = of /\ follow = "settle" THEN "COMPLETED" ELSE r.status
         /\ After(r, follow, of).settledBy = IF r.status = "PENDING" /\ r.settledBy = of /\ follow = "free" THEN Nobody ELSE r.settledBy
<1>1. CASE r.status = "PENDING" /\ r.settledBy = of /\ follow = "settle"
  <2> DEFINE s == [r EXCEPT !.status = "COMPLETED"]
  <2>1. After(r, follow, of) = s /\ "COMPLETED" \in PayoutStatus
    BY <1>1 DEF After, PayoutStatus
  <2>2. Good(s) /\ SameWorth(s, r) /\ s.status = "COMPLETED" /\ s.offset = r.offset /\ s.settledBy = r.settledBy
    BY <1>1, <2>1, WritesStatus
  <2> HIDE DEF s
  <2> QED
    BY <1>1, <2>1, <2>2
<1>2. CASE r.status = "PENDING" /\ r.settledBy = of /\ follow = "free"
  <2> DEFINE s == [r EXCEPT !.settledBy = Nobody]
  <2>1. After(r, follow, of) = s
    BY <1>2 DEF After
  <2>2. Good(s) /\ SameWorth(s, r) /\ s.status = r.status /\ s.offset = r.offset /\ s.settledBy = Nobody
    BY <1>2, WritesSettledBy
  <2> HIDE DEF s
  <2> QED
    BY <1>2, <2>1, <2>2
<1>3. CASE ~(r.status = "PENDING" /\ r.settledBy = of /\ follow \in {"settle", "free"})
  BY <1>3 DEF After, SameWorth
<1> QED
  BY <1>1, <1>2, <1>3

LEMMA NowRows ==
  ASSUME NEW rows, NEW e, \A p \in Payout : Good(rows[p]), \A p \in DOMAIN e.copies : Good(e.copies[p])
  PROVE  /\ Now(rows, e) \in Rows
         /\ \A p \in Payout : /\ Now(rows, e)[p] = After(SavedRow(rows, e.copies, p), e.follow, e.of)
                              /\ SameWorth(Now(rows, e)[p], SavedRow(rows, e.copies, p))
<1>1. \A p \in Payout : Good(SavedRow(rows, e.copies, p))
  BY DEF SavedRow
<1>2. \A p \in Payout : /\ Now(rows, e)[p] = After(SavedRow(rows, e.copies, p), e.follow, e.of)
                        /\ Good(Now(rows, e)[p]) /\ SameWorth(Now(rows, e)[p], SavedRow(rows, e.copies, p))
  BY <1>1, AfterKeeps DEF Now
<1>3. Now(rows, e) \in [Payout -> Row]
  BY <1>2 DEF Now, Good
<1> QED
  BY <1>2, <1>3 DEF Rows

\* A worker's rows are in no other hand.
LEMMA HandRows ==
  ASSUME Base, Amounts
  PROVE  /\ Context(Now(payout, edit), Current(job))
         /\ \A p \in Hand(Current(job)) : p \in Payout /\ InHand(p)
<1>0. Now(payout, edit) \in Rows /\ \A p \in Payout : SameWorth(Now(payout, edit)[p], SavedRow(payout, edit.copies, p))
  BY NowRows DEF Amounts, RowsGood, CopiesGood
<1>1. CASE \A v \in Worker : ~Working(job[v])
  BY <1>0, <1>1, CurrentNone DEF Context, Hand
<1>2. ASSUME NEW w \in Worker, Working(job[w]) PROVE /\ Context(Now(payout, edit), Current(job))
                                                     /\ \A p \in Hand(Current(job)) : p \in Payout /\ InHand(p)
  <2>1. Current(job) = job[w] /\ JobGood(job[w], payout) /\ JobOK(job[w])
    BY <1>2, JobFacts, CurrentIs
  <2>2. \A p \in Keeps(job[w]) : p \in Payout /\ InHand(p)
    BY <1>2, KeepsInHand
  <2>3. \A p \in Keeps(job[w]) : SameWorth(Now(payout, edit)[p], payout[p])
    BY <1>0, <2>2 DEF SavedRow, Base, CopiesOK
  <2>4. JobGood(job[w], Now(payout, edit))
    BY <2>1, <2>3, JobStays
  <2>5. job[w].row \in Payout /\ InHand(job[w].row) /\ DOMAIN job[w].covered \subseteq Payout
    BY <1>2, <2>1 DEF JobOK, InHand, Working
  <2>6. job[w].pc \in {"mark", "transfer", "record", "settle"}
    BY <1>2, <2>1 DEF JobGood, Working
  <2>7. \A p \in Hand(job[w]) : p \in Payout /\ InHand(p)
    BY <2>2, <2>5 DEF Hand, Keeps
  <2> QED
    BY <1>0, <2>1, <2>4, <2>5, <2>6, <2>7 DEF Context
<1> QED
  BY <1>1, <1>2

\* What is left of Ledger when the books are kept.
ListsKeep(now, new) == \A p \in Payout : now[p].net >= 0 /\ now[p].status # "NONE" => new[p].net >= 0 /\ new[p].status # "NONE"
FollowsKeep ==
  /\ edit'.follow \in {"settle", "free"} => edit'.of = edit.of /\ edit'.follow = edit.follow
  /\ \A p \in Payout : InHand(p) => payout'[p].settledBy \in {Nobody, payout[p].settledBy}


\* Nobody begins to pay, and the lists of the cycle get shorter.
Skipped ==
  /\ Current(job') = Current(job)
  /\ \A w \in Worker : /\ Working(job'[w]) => job'[w] = job[w]
                       /\ job'[w].pc # "idle" => job[w].pc # "idle" /\ DOMAIN job'[w].todo \subseteq DOMAIN job[w].todo

LEMMA FollowsStay ==
  ASSUME Base, Amounts, Follows, Skipped, FollowsKeep
  PROVE  Follows'
<1>1. \A p \in Payout : InHand(p)' => InHand(p)
  BY DEF InHand, Skipped, Working
<1>2. ASSUME NEW w \in Worker, NEW d \in Hand(job'[w]) PROVE payout'[d].settledBy = Nobody
  <2>1. job'[w] = job[w] /\ Working(job[w]) /\ d \in Hand(job[w])
    BY <1>2 DEF Skipped, Hand
  <2>2. d \in Payout /\ InHand(d)
    BY <2>1, JobFacts DEF Hand, InHand, Working
  <2>3. payout[d].settledBy = Nobody
    BY <2>1 DEF Follows
  <2> QED
    BY <2>2, <2>3 DEF FollowsKeep
<1>3. edit'.follow \in {"settle", "free"} => edit'.of \in Payout /\ ~InHand(edit'.of)
  BY DEF Follows, FollowsKeep
<1>4. edit'.follow \in {"settle", "free"} => edit'.of \in Payout /\ ~InHand(edit.of)'
  BY <1>1 DEF Follows, FollowsKeep
<1> QED
  BY <1>1, <1>2, <1>4 DEF Follows, FollowsKeep, InHand

LEMMA ListsStay ==
  ASSUME Lists, NoCycle \/ ListsKeep(Now(payout, edit), Now(payout', edit')),
         \A w \in Worker : job'[w].pc # "idle" => job[w].pc # "idle" /\ DOMAIN job'[w].todo \subseteq DOMAIN job[w].todo
  PROVE  Lists'
<1>1. ASSUME NEW w \in Worker, job'[w].pc # "idle", NEW p \in DOMAIN job'[w].todo
      PROVE  p \in Payout /\ Now(payout', edit')[p].net >= 0 /\ Now(payout', edit')[p].status # "NONE"
  <2>1. job[w].pc # "idle" /\ p \in DOMAIN job[w].todo
    BY <1>1
  <2> QED
    BY <2>1 DEF Lists, ListGood, ListsKeep, NoCycle
<1> QED
  BY <1>1 DEF Lists, ListGood


LEMMA NoFollow == NoEdit.follow \notin {"settle", "free"} /\ \A rows, p : SavedRow(rows, NoEdit.copies, p) = rows[p]
  BY NoEditOK DEF SavedRow

\* The lists of the cycle get shorter.
Shorter == \A w \in Worker : job'[w].pc # "idle" => job[w].pc # "idle" /\ DOMAIN job'[w].todo \subseteq DOMAIN job[w].todo

LEMMA ListedStay ==
  ASSUME Unsaved, Shorter, ListsKeep(payout, payout')
  PROVE  \A w \in Worker : ListGood(job'[w], payout')
<1>1. ASSUME NEW w \in Worker, job'[w].pc # "idle", NEW p \in DOMAIN job'[w].todo
      PROVE  p \in Payout /\ payout'[p].net >= 0 /\ payout'[p].status # "NONE"
  <2>1. job[w].pc # "idle" /\ p \in DOMAIN job[w].todo
    BY <1>1 DEF Shorter
  <2> QED
    BY <2>1 DEF Unsaved, ListGood, ListsKeep
<1> QED
  BY <1>1 DEF ListGood

\* Nobody begins or ends to read, and what is read is left alone.
LEMMA UnsavedStays ==
  ASSUME Base, Unsaved, Shorter, UNCHANGED edit, ListsKeep(payout, payout'), \A p \in DOMAIN edit.copies : payout'[p] = payout[p]
  PROVE  Unsaved'
<1>1. \A w \in Worker : ListGood(job'[w], payout')
  BY ListedStay
<1> QED
  BY <1>1 DEF Unsaved

\* A handler has saved, or stops.
LEMMA UnsavedEnds ==
  ASSUME DOMAIN edit'.copies = {}, edit' = NoEdit \/ (edit'.worker = edit.worker /\ edit'.follow = edit.follow), Unsaved,
         \A w \in Worker : ListGood(job'[w], payout')
  PROVE  Unsaved'
  BY NoFollow DEF Unsaved

\* Nothing happens to the accounts.
LEMMA KeptLedger ==
  ASSUME Base, Amounts, Amounts', Ledger, Skipped, FollowsKeep, Unsaved', UNCHANGED <<paid, interrupted>>,
         NoCycle \/ ListsKeep(Now(payout, edit), Now(payout', edit')),
         Quiet(Now(payout, edit), Now(payout', edit'), Current(job))
  PROVE  Ledger'
<1>1. Now(payout', edit') \in Rows
  BY NowRows DEF Amounts, RowsGood, CopiesGood
<1>2. Context(Now(payout, edit), Current(job))
  BY HandRows
<1>3. /\ Sound(Now(payout, edit), Current(job)) => Sound(Now(payout', edit'), Current(job))
      /\ Bounded(Now(payout, edit), Current(job), paid) => Bounded(Now(payout', edit'), Current(job), paid)
      /\ Balanced(Now(payout, edit), Current(job), paid) => Balanced(Now(payout', edit'), Current(job), paid)
  BY <1>1, <1>2, QuietBooks
<1>4. Books'
  BY <1>3 DEF Books, Ledger, Skipped
<1> QED
  BY <1>4, FollowsStay, ListsStay DEF Ledger, Skipped

LEMMA NowIs ==
  ASSUME NEW rows, NEW e, NEW p \in Payout
  PROVE  /\ Now(rows, e)[p] = After(SavedRow(rows, e.copies, p), e.follow, e.of)
         /\ e.follow \notin {"settle", "free"} => Now(rows, e)[p] = SavedRow(rows, e.copies, p)
  BY DEF Now, After

LEMMA SameSkips == ASSUME job' = job PROVE Skipped
  BY DEF Skipped

\* The rows will be what they would have been anyway.
LEMMA SaveLedger ==
  ASSUME Base, Amounts, Amounts', Ledger, EditSave
  PROVE  Ledger'
<1>1. /\ payout' = [p \in Payout |-> SavedRow(payout, edit.copies, p)]
      /\ edit' \in {NoEdit, [edit EXCEPT !.copies = Empty]} /\ (edit' = NoEdit <=> edit.follow = "none") /\ UNCHANGED <<job, paid, interrupted>>
  <2>1. edit.follow # "none" => [edit EXCEPT !.copies = Empty] # NoEdit
    BY NoEditOK DEF Base, CopiesOK, EditFields
  <2> QED
    BY <2>1 DEF EditSave, SavedRow
<1>2. /\ DOMAIN edit'.copies = {}
      /\ edit.follow # "none" => edit'.follow = edit.follow /\ edit'.of = edit.of
      /\ edit.follow = "none" => edit'.follow = "none"
  BY <1>1, NoEditOK, EmptyDomain DEF Base, CopiesOK, EditFields
<1>3. \A p \in Payout : Now(payout', edit')[p] = Now(payout, edit)[p]
  <2> SUFFICES ASSUME NEW p \in Payout PROVE Now(payout', edit')[p] = Now(payout, edit)[p]
    OBVIOUS
  <2>1. SavedRow(payout', edit'.copies, p) = SavedRow(payout, edit.copies, p)
    BY <1>1, <1>2 DEF SavedRow
  <2>2. /\ Now(payout, edit)[p] = After(SavedRow(payout, edit.copies, p), edit.follow, edit.of)
        /\ Now(payout', edit')[p] = After(SavedRow(payout', edit'.copies, p), edit'.follow, edit'.of)
    BY NowIs
  <2>3. CASE edit.follow = "none"
    <3>1. Now(payout, edit)[p] = SavedRow(payout, edit.copies, p) /\ Now(payout', edit')[p] = SavedRow(payout', edit'.copies, p)
      BY <1>2, <2>3, NowIs
    <3> QED
      BY <2>1, <3>1
  <2>4. CASE edit.follow # "none"
    BY <1>2, <2>1, <2>2, <2>4
  <2> QED
    BY <2>3, <2>4
<1>4. FollowsKeep
  <2>1. \A p \in Payout : InHand(p) => payout'[p] = payout[p]
    BY <1>1 DEF SavedRow, Base, CopiesOK
  <2> QED
    BY <1>2, <2>1 DEF FollowsKeep
<1>5. Unsaved'
  <2>1. \A p \in Payout : payout'[p].net = Now(payout, edit)[p].net /\ (Now(payout, edit)[p].status # "NONE" => payout'[p].status # "NONE")
    <3>1. \A p \in Payout : payout'[p] = SavedRow(payout, edit.copies, p) /\ Good(SavedRow(payout, edit.copies, p))
      BY <1>1 DEF SavedRow, Amounts, RowsGood, CopiesGood
    <3>2. \A p \in Payout : SameWorth(Now(payout, edit)[p], SavedRow(payout, edit.copies, p)) /\ Good(Now(payout, edit)[p])
      BY NowRows DEF Amounts, RowsGood, CopiesGood, Rows
    <3>3. \A p \in Payout : payout'[p].status = "NONE" <=> payout'[p].order = Nobody
      BY <3>1, PayoutAssumption DEF Good
    <3>4. \A p \in Payout : Now(payout, edit)[p].status = "NONE" <=> Now(payout, edit)[p].order = Nobody
      BY <3>2, PayoutAssumption DEF Good
    <3> QED
      BY <3>1, <3>2, <3>3, <3>4 DEF SameWorth
  <2>2. \A w \in Worker : ListGood(job'[w], payout')
    BY <1>1, <2>1 DEF Ledger, Lists, ListGood
  <2>3. edit' = NoEdit \/ (edit'.worker = edit.worker /\ edit'.follow = edit.follow)
    BY <1>1, <1>2 DEF Base, CopiesOK, EditFields
  <2> QED
    BY <1>2, <2>2, <2>3, UnsavedEnds DEF Ledger
<1> QED
  BY <1>1, <1>3, <1>4, <1>5, SameSkips, KeptLedger DEF Quiet, SameEntry, SameWorth, ListsKeep

\* The UPDATE of a confirmed or cancelled transfer.
LEMMA FollowLedger ==
  ASSUME Base, Amounts, Amounts', Ledger, EditFollow, edit.follow \in {"settle", "free"}
  PROVE  Ledger'
<1>1. DOMAIN edit.copies = {} /\ edit' = NoEdit /\ UNCHANGED <<job, paid, interrupted>>
  BY DEF EditFollow
<1>2. ASSUME NEW p \in Payout PROVE payout'[p] = Now(payout, edit)[p]
  <2>1. SavedRow(payout, edit.copies, p) = payout[p]
    BY <1>1 DEF SavedRow
  <2>2. payout'[p] = IF Reserved(p) THEN IF edit.follow = "settle" THEN [payout[p] EXCEPT !.status = "COMPLETED"]
                                         ELSE [payout[p] EXCEPT !.settledBy = Nobody]
                     ELSE payout[p]
    BY DEF EditFollow
  <2>3. Now(payout, edit)[p] = After(payout[p], edit.follow, edit.of)
    BY <2>1, NowIs
  <2> QED
    BY <2>2, <2>3 DEF After, Reserved
<1>3. \A p \in Payout : Now(payout', edit')[p] = Now(payout, edit)[p]
  BY <1>1, <1>2, NowIs, NoFollow
<1>4. FollowsKeep
  <2> SUFFICES ASSUME NEW p \in Payout, InHand(p) PROVE payout'[p].settledBy \in {Nobody, payout[p].settledBy}
    BY <1>1, NoFollow DEF FollowsKeep
  <2> QED
    BY <1>1 DEF EditFollow, Reserved
<1>5. Unsaved'
  <2>1. \A w \in Worker : ListGood(job'[w], payout')
    BY <1>1, <1>2 DEF Ledger, Lists, ListGood
  <2> QED
    BY <1>1, <2>1, NoEditOK, UnsavedEnds DEF Ledger
<1> QED
  BY <1>1, <1>3, <1>4, <1>5, SameSkips, KeptLedger DEF Quiet, SameEntry, SameWorth, ListsKeep

\* Rows are rewritten in place.
LEMMA InPlaceLedger ==
  ASSUME Base, Amounts, Amounts', Ledger, Skipped, UNCHANGED <<paid, interrupted>>,
         DOMAIN edit.copies = {}, edit.follow \notin {"settle", "free"}, edit' = NoEdit,
         \A p \in Payout : SameEntry(payout'[p], payout[p])
  PROVE  Ledger'
<1>1. \A p \in Payout : Now(payout', edit')[p] = payout'[p] /\ Now(payout, edit)[p] = payout[p]
  BY NowIs, NoFollow DEF SavedRow
<1>2. FollowsKeep
  BY NoFollow DEF FollowsKeep, SameEntry
<1>3. Unsaved'
  <2>1. \A w \in Worker : ListGood(job'[w], payout')
    BY ListedStay DEF Ledger, Skipped, Shorter, ListsKeep, SameEntry, SameWorth
  <2> QED
    BY <2>1, NoEditOK, UnsavedEnds DEF Ledger
<1> QED
  BY <1>1, <1>2, <1>3, KeptLedger DEF Quiet, SameEntry, SameWorth, ListsKeep

\* No row changes.
LEMMA IdleLedger ==
  ASSUME Base, Amounts, Amounts', Ledger, Skipped, UNCHANGED <<payout, edit, paid, interrupted>>
  PROVE  Ledger'
<1>1. FollowsKeep
  BY DEF FollowsKeep
<1>2. Unsaved'
  BY UnsavedStays DEF Ledger, Skipped, Shorter, ListsKeep
<1> QED
  BY <1>1, <1>2, KeptLedger DEF Quiet, SameEntry, SameWorth, ListsKeep

\* Rows are read, and will be saved with nothing changed that was accounted for.
LEMMA ReadLedger ==
  ASSUME Base, Amounts, Amounts', Ledger, Skipped, UNCHANGED <<payout, paid, interrupted>>,
         edit = NoEdit, edit'.follow \notin {"settle", "free"},
         \A p \in DOMAIN edit'.copies :
           \/ SameEntry(edit'.copies[p], payout[p])
           \/ /\ ~InHand(p) /\ Neutral(payout[p]) /\ Neutral(edit'.copies[p])
              /\ NoCycle \/ (edit'.copies[p].status # "NONE" /\ (payout[p].net >= 0 => edit'.copies[p].net >= 0))
  PROVE  Ledger'
<1>1. \A p \in Payout : Now(payout', edit')[p] = SavedRow(payout, edit'.copies, p) /\ Now(payout, edit)[p] = payout[p]
  BY NowIs, NoFollow
<1>2. FollowsKeep
  BY DEF FollowsKeep
<1>3. \A p \in Hand(Current(job)) : InHand(p)
  BY HandRows
<1>4. Quiet(Now(payout, edit), Now(payout', edit'), Current(job))
  BY <1>1, <1>3 DEF Quiet, SavedRow, SameEntry, SameWorth
<1>5. NoCycle \/ ListsKeep(Now(payout, edit), Now(payout', edit'))
  BY <1>1 DEF ListsKeep, SavedRow, SameEntry, SameWorth
<1>6. Unsaved'
  <2>1. \A w \in Worker : ListGood(job'[w], payout')
    BY ListedStay DEF Ledger, Skipped, Shorter, ListsKeep
  <2> QED
    BY <2>1 DEF Unsaved
<1> QED
  BY <1>2, <1>4, <1>5, <1>6, KeptLedger


\* The cycle goes on to the next payout, or is over.
LEMMA CycleSkipped ==
  ASSUME Base, NEW c \in Copy, job[c].pc = "cycle", \A w \in Worker \ {c} : job'[w] = job[w], job'[c].pc \in {"idle", "cycle"},
         job'[c].pc = "cycle" => DOMAIN job'[c].todo \subseteq DOMAIN job[c].todo
  PROVE  Skipped
<1>1. c \in Worker /\ \A w \in Worker \ {c} : job[w].pc = "idle"
  BY DEF Worker, Base, JobsOK, OneWorker
<1>2. (\A w \in Worker : ~Working(job[w])) /\ \A w \in Worker : ~Working(job'[w])
  BY <1>1 DEF Working
<1>3. Current(job') = Current(job)
  BY <1>2, CurrentNone
<1>4. \A w \in Worker : job'[w].pc # "idle" => w = c
  BY <1>1
<1> QED
  BY <1>1, <1>2, <1>3, <1>4 DEF Skipped

LEMMA SkipsSkipped ==
  ASSUME Base, NEW c \in Copy, NEW p, job[c].pc = "cycle", Skips(c, p) \/ job' = [job EXCEPT ![c] = NoJob]
  PROVE  Skipped
<1>1. c \in Worker /\ job = [w \in Worker |-> job[w]] /\ JobOK(job[c])
  BY DEF Worker, Base, JobsOK
<1>2. CASE Skips(c, p)
  <2> DEFINE k == [job[c] EXCEPT !.todo = Without(c, p)]
  <2>1. k.pc = "cycle" /\ k.todo = Without(c, p)
    BY <1>1 DEF JobOK, JobFields
  <2>2. job' = [job EXCEPT ![c] = k]
    BY <1>2 DEF Skips
  <2>3. job'[c] = k /\ \A w \in Worker \ {c} : job'[w] = job[w]
    BY <1>1, <2>2
  <2>4. DOMAIN Without(c, p) \subseteq DOMAIN job[c].todo
    BY DEF Without
  <2> HIDE DEF k
  <2> QED
    BY <2>1, <2>3, <2>4, CycleSkipped
<1>3. CASE job' = [job EXCEPT ![c] = NoJob]
  <2>1. job'[c] = NoJob /\ \A w \in Worker \ {c} : job'[w] = job[w]
    BY <1>1, <1>3
  <2> QED
    BY <2>1, NoJobOK, CycleSkipped
<1> QED
  BY <1>2, <1>3

LEMMA InPlaceSteps ==
  ASSUME Base, Amounts, Amounts', Ledger, Apart,
         \/ (\E p \in Payout : DueComes(p) \/ BlockAges(p)) \/ EditFollow \/ HoldArrives
         \/ \E c \in Copy, p \in Payout : CycleHolds(c, p)
  PROVE  Ledger'
<1>1. CASE \E p \in Payout : DueComes(p) \/ BlockAges(p)
  <2>1. PICK p \in Payout : DueComes(p) \/ BlockAges(p)
    BY <1>1
  <2>2. PICK r : /\ payout' = [payout EXCEPT ![p] = r]
                 /\ r \in {[payout[p] EXCEPT !.due = TRUE], [payout[p] EXCEPT !.old = TRUE]}
    BY <2>1 DEF DueComes, BlockAges
  <2>3. SameEntry(r, payout[p])
    BY <2>2, UsedRow, WritesDue, WritesOld
  <2>4. payout' = [q \in Payout |-> IF q = p THEN r ELSE payout[q]]
    BY <2>2 DEF Base, RowsOK
  <2>5. \A q \in Payout : SameEntry(payout'[q], payout[q])
    BY <2>3, <2>4 DEF SameEntry, SameWorth
  <2>6. edit = NoEdit /\ UNCHANGED <<edit, job, paid, interrupted>>
    BY <2>1 DEF DueComes, BlockAges
  <2> QED
    BY <2>5, <2>6, NoEditOK, SameSkips, InPlaceLedger
<1>2. CASE EditFollow /\ edit.follow \notin {"settle", "free"}
  <2>1. \A q \in Payout : SameEntry(payout'[q], payout[q])
    <3> SUFFICES ASSUME NEW q \in Payout PROVE SameEntry(payout'[q], payout[q])
      OBVIOUS
    <3>1. payout'[q] \in {payout[q], [payout[q] EXCEPT !.hold = FALSE]}
      BY <1>2 DEF EditFollow
    <3>2. SameEntry([payout[q] EXCEPT !.hold = FALSE], payout[q])
      BY UsedRow, WritesHold
    <3> QED
      BY <3>1, <3>2 DEF SameEntry, SameWorth
  <2> QED
    BY <1>2, <2>1, SameSkips, InPlaceLedger DEF EditFollow
<1>3. CASE EditFollow /\ edit.follow \in {"settle", "free"}
  BY <1>3, FollowLedger
<1>4. ASSUME payout' = Held, Settled, UNCHANGED <<edit, paid, interrupted>>, Skipped PROVE Ledger'
  <2>1. \A q \in Payout : SameEntry(payout'[q], payout[q])
    BY <1>4, HeldAlike
  <2> QED
    BY <1>4, <2>1, Alone, NoEditOK, InPlaceLedger
<1>5. CASE HoldArrives
  <2>1. CASE Payout = {}
    <3>1. payout' = payout
      BY <1>5, <2>1 DEF HoldArrives, Held, Base, RowsOK
    <3> QED
      BY <1>5, <3>1, SameSkips, IdleLedger DEF HoldArrives
  <2>2. CASE Payout # {}
    <3>1. Settled
      BY <1>5, <2>2 DEF HoldArrives, AllUndisturbed, Undisturbed
    <3> QED
      BY <1>4, <1>5, <3>1, SameSkips DEF HoldArrives
  <2> QED
    BY <2>1, <2>2
<1>6. ASSUME NEW c \in Copy, NEW p \in Payout, CycleHolds(c, p) PROVE Ledger'
  BY <1>4, <1>6, SkipsSkipped DEF CycleHolds, Takes
<1> QED
  BY <1>1, <1>2, <1>3, <1>5, <1>6

\* A block is made or lifted, of a row that is not worked on.
LEMMA BlockEntries ==
  ASSUME Base, Amounts, Ledger, NEW p \in Payout
  PROVE  /\ payout[p].status = "PENDING" /\ payout[p].settledBy = Nobody
               => /\ Neutral(payout[p]) /\ Neutral(Blocked(p)) /\ Blocked(p).net = payout[p].net
         /\ payout[p].status = "BLOCKED" /\ p \notin DOMAIN edit.copies
               => /\ Neutral(payout[p]) /\ Neutral(Unblocked(p)) /\ Unblocked(p).net = payout[p].net
<1>1. payout[p] \in Row
  BY UsedRow
<1>2. Blocked(p).status = "BLOCKED" /\ Blocked(p).settledBy = payout[p].settledBy /\ Blocked(p).net = payout[p].net
  BY <1>1 DEF Blocked, Row
<1>3. Unblocked(p).status = "PENDING" /\ Unblocked(p).settledBy = payout[p].settledBy /\ Unblocked(p).net = payout[p].net
  BY <1>1 DEF Unblocked, Row
<1>4. ASSUME payout[p].status = "BLOCKED", p \notin DOMAIN edit.copies PROVE payout[p].settledBy = Nobody
  <2>1. Now(payout, edit)[p] = payout[p]
    BY <1>4 DEF Now, After, SavedRow
  <2> QED
    BY <1>4, <2>1 DEF Ledger, Books, Sound, Blocks
<1> QED
  BY <1>2, <1>3, <1>4 DEF Neutral

\* One row is read, or none.
LEMMA OneReadLedger ==
  ASSUME Base, Amounts, Amounts', Ledger, Apart, NEW p \in Payout, Undisturbed(p), UNCHANGED <<payout, job, paid, interrupted>>,
         NEW r, ReadsRow(p, r) \/ edit' = edit,
         \/ SameEntry(r, payout[p])
         \/ /\ Neutral(payout[p]) /\ Neutral(r)
            /\ NoCycle \/ (r.status # "NONE" /\ (payout[p].net >= 0 => r.net >= 0))
  PROVE  Ledger'
<1>1. edit = NoEdit /\ ~InHand(p)
  BY AloneRow
<1>2. CASE edit' = edit
  BY <1>2, SameSkips, IdleLedger
<1>3. CASE ReadsRow(p, r)
  <2>1. edit'.copies = [q \in {p} |-> r] /\ edit'.follow = "none"
    BY <1>3 DEF ReadsRow, ReadsRows
  <2>2. \A q \in DOMAIN edit'.copies : q = p /\ edit'.copies[q] = r
    BY <2>1
  <2>3. edit'.follow \notin {"settle", "free"}
    BY <2>1
  <2> QED
    BY <1>1, <2>2, <2>3, SameSkips, ReadLedger
<1> QED
  BY <1>2, <1>3

LEMMA BlockLedger ==
  ASSUME Base, Amounts, Amounts', Ledger, Balances, NEW p \in Payout, Block(p) \/ UnblockByAdmin(p) \/ UnblockExpired(p)
  PROVE  Ledger'
<1>1. Undisturbed(p) /\ UNCHANGED <<payout, job, paid, interrupted>> /\ Apart
  BY DEF Block, UnblockByAdmin, UnblockExpired, Unblock, NotMoved, Balances, Exact
<1>2. edit = NoEdit
  BY <1>1, AloneRow
<1>3. CASE Block(p)
  <2>1. payout[p].status = "PENDING" /\ payout[p].settledBy = Nobody /\ ReadsRow(p, Blocked(p))
    BY <1>3 DEF Block, Balances
  <2>2. Neutral(payout[p]) /\ Neutral(Blocked(p)) /\ Blocked(p).net = payout[p].net /\ Blocked(p).status = "BLOCKED"
    BY <2>1, BlockEntries, UsedRow DEF Blocked, Row
  <2> QED
    BY <1>1, <2>1, <2>2, OneReadLedger
<1>4. CASE Unblock(p)
  <2>1. payout[p].status = "BLOCKED" /\ ReadsRow(p, Unblocked(p)) /\ p \notin DOMAIN edit.copies
    BY <1>2, <1>4, NoEditOK DEF Unblock
  <2>2. Neutral(payout[p]) /\ Neutral(Unblocked(p)) /\ Unblocked(p).net = payout[p].net /\ Unblocked(p).status = "PENDING"
    BY <2>1, BlockEntries, UsedRow DEF Unblocked, Row
  <2> QED
    BY <1>1, <2>1, <2>2, OneReadLedger
<1> QED
  BY <1>3, <1>4 DEF UnblockByAdmin, UnblockExpired

LEMMA DisputeLedger ==
  ASSUME Base, Amounts, Amounts', Ledger, Balances, NEW o \in Order, NEW v, OpenDispute(o) \/ ResolveDispute(o, v)
  PROVE  Ledger'
<1>1. UNCHANGED <<payout, job, paid, interrupted>> /\ Apart /\ "reserved" \notin Overlaps
  BY DEF OpenDispute, ResolveDispute, NotMoved, Balances, Exact
<1>2. PICK p \in RowsOf(o) :
        /\ Undisturbed(p)
        /\ \/ payout[p].status = "PENDING" /\ payout[p].settledBy = Nobody /\ ReadsRow(p, Blocked(p))
           \/ payout[p].status = "BLOCKED" /\ ReadsRow(p, Unblocked(p))
           \/ edit' = edit
  BY <1>1 DEF OpenDispute, ResolveDispute
<1>3. p \in Payout /\ edit = NoEdit /\ p \notin DOMAIN edit.copies /\ payout[p] \in Row
  BY <1>1, <1>2, AloneRow, NoEditOK, UsedRow DEF RowsOf, Used
<1>4. CASE edit' = edit
  BY <1>1, <1>4, SameSkips, IdleLedger
<1>5. CASE payout[p].status = "PENDING" /\ payout[p].settledBy = Nobody /\ ReadsRow(p, Blocked(p))
  <2>1. Neutral(payout[p]) /\ Neutral(Blocked(p)) /\ Blocked(p).net = payout[p].net /\ Blocked(p).status = "BLOCKED"
    BY <1>3, <1>5, BlockEntries DEF Blocked, Row
  <2> QED
    BY <1>1, <1>2, <1>3, <1>5, <2>1, OneReadLedger
<1>6. CASE payout[p].status = "BLOCKED" /\ ReadsRow(p, Unblocked(p))
  <2>1. Neutral(payout[p]) /\ Neutral(Unblocked(p)) /\ Unblocked(p).net = payout[p].net /\ Unblocked(p).status = "PENDING"
    BY <1>3, <1>6, BlockEntries DEF Unblocked, Row
  <2> QED
    BY <1>1, <1>2, <1>3, <1>6, <2>1, OneReadLedger
<1> QED
  BY <1>2, <1>4, <1>5, <1>6

LEMMA EarlyLedger ==
  ASSUME Base, Amounts, Amounts', Ledger, Apart, NEW p \in Payout, RequestEarly(p) \/ ApproveEarly(p)
  PROVE  Ledger'
<1>1. payout[p] \in Row /\ Undisturbed(p) /\ UNCHANGED <<payout, job, paid, interrupted>>
  BY UsedRow DEF RequestEarly, ApproveEarly, NotMoved
<1> DEFINE r == [payout[p] EXCEPT !.early = "asked"]
           s == [payout[p] EXCEPT !.early = "approved", !.due = TRUE]
<1>2. SameEntry(r, payout[p]) /\ SameEntry(s, payout[p])
  BY <1>1 DEF Row, SameEntry, SameWorth
<1>3. ReadsRow(p, r) \/ ReadsRow(p, s)
  BY DEF RequestEarly, ApproveEarly
<1> HIDE DEF r, s
<1> QED
  BY <1>1, <1>2, <1>3, OneReadLedger

LEMMA RescheduleLedger ==
  ASSUME Base, Amounts, Amounts', Ledger, Skipped, UNCHANGED <<payout, paid, interrupted>>, NEW end, NEW w, Reschedules(end, w)
  PROVE  Ledger'
<1> DEFINE targets == {p \in Payout : Unpaid(p) /\ payout[p].net > 0}
           new(p) == [payout[p] EXCEPT !.end = end, !.due = FALSE, !.hold = FALSE, !.early = "no"]
<1>1. edit = NoEdit /\ edit' = [copies |-> [p \in targets |-> new(p)], follow |-> "unhold", of |-> Nobody, worker |-> w]
  BY DEF Reschedules, ReadsRows
<1>2. ASSUME NEW p \in targets PROVE SameEntry(new(p), payout[p])
  <2>1. payout[p] \in Row
    BY UsedRow
  <2> QED
    BY <2>1 DEF Row, SameEntry, SameWorth
<1> HIDE DEF new
<1>3. edit'.follow \notin {"settle", "free"} /\ \A p \in DOMAIN edit'.copies : SameEntry(edit'.copies[p], payout[p])
  BY <1>1, <1>2
<1> QED
  BY <1>1, <1>3, ReadLedger

\* A refund reduces a row of the order that is not paid yet.
LEMMA ReduceLedger ==
  ASSUME Base, Amounts, Amounts', Ledger, Balances, NEW o \in Order, NEW h \in {1, 2}, RefundReduces(o, h)
  PROVE  Ledger'
<1>1. UNCHANGED <<payout, job, paid, interrupted>> /\ Apart /\ "negative" \notin Overlaps /\ "reserved" \notin Overlaps
  BY DEF RefundReduces, NotMoved, Balances, Exact
<1>2. PICK p \in RowsOf(o) :
        /\ payout[p].status \in {"PENDING", "BLOCKED"} /\ Undisturbed(p)
        /\ LET gross == (payout[p].gross * (2 - h)) \div 2
           IN /\ payout[p].net < 0 \/ gross >= FeesOf(p) \/ NoCycle
              /\ payout[p].settledBy = Nobody
              /\ ReadsRow(p, [payout[p] EXCEPT !.gross = gross, !.net = gross - FeesOf(p)])
  BY <1>1 DEF RefundReduces
<1>3. p \in Payout /\ payout[p] \in Row
  BY <1>2, UsedRow DEF RowsOf, Used
<1> DEFINE gross == (payout[p].gross * (2 - h)) \div 2
           r == [payout[p] EXCEPT !.gross = gross, !.net = gross - FeesOf(p)]
<1>4. gross \in Int /\ FeesOf(p) \in Int /\ payout[p].net \in Int
  <2>1. payout[p].gross \in Int /\ payout[p].net \in Int /\ 2 - h \in Int
    BY <1>3 DEF Row
  <2>2. FeesOf(p) \in Int
    BY PayoutAssumption DEF FeesOf
  <2> QED
    BY <2>1, <2>2
<1>5. r.status = payout[p].status /\ r.settledBy = payout[p].settledBy /\ r.net = gross - FeesOf(p)
  BY <1>3 DEF Row
<1>6. ReadsRow(p, r) /\ Undisturbed(p) /\ (payout[p].net < 0 \/ gross >= FeesOf(p) \/ NoCycle)
      /\ payout[p].settledBy = Nobody /\ payout[p].status \in {"PENDING", "BLOCKED"}
  BY <1>2
<1> HIDE DEF gross, r
<1>7. Neutral(payout[p]) /\ Neutral(r)
  BY <1>5, <1>6 DEF Neutral
<1>8. NoCycle \/ (r.status # "NONE" /\ (payout[p].net >= 0 => r.net >= 0))
  BY <1>4, <1>5, <1>6
<1> QED
  BY <1>1, <1>3, <1>6, <1>7, <1>8, OneReadLedger


\* The rows in a worker's hand are there.
LEMMA HandUsed ==
  ASSUME Base, Amounts, Ledger, NEW p \in Hand(Current(job))
  PROVE  p \in Payout /\ InHand(p) /\ payout[p].status # "NONE" /\ p \notin DOMAIN edit.copies
<1>1. p \in Payout /\ InHand(p) /\ p \notin DOMAIN edit.copies
  BY HandRows DEF Base, CopiesOK
<1>2. CASE \A v \in Worker : ~Working(job[v])
  BY <1>2, CurrentNone DEF Hand
<1>3. ASSUME NEW w \in Worker, Working(job[w]) PROVE payout[p].status # "NONE"
  <2>1. Current(job) = job[w]
    BY <1>3, JobFacts, CurrentIs
  <2>2. CASE p \in Keeps(job[w])
    BY <1>3, <2>2, KeepsInHand
  <2>3. CASE p \notin Keeps(job[w])
    <3>1. p = job[w].row /\ job[w].pc = "settle"
      BY <2>1, <2>3 DEF Keeps, Hand
    <3>2. Now(payout, edit)[p].status \in {"COMPLETED", "TO_TRANSFER"}
      BY <1>3, <2>1, <3>1 DEF Ledger, Books, Sound, Desk
    <3> QED
      BY <1>1, <3>2 DEF Now, After, SavedRow
  <2> QED
    BY <2>2, <2>3
<1> QED
  BY <1>1, <1>2, <1>3

\* A row is added: a sale, or what a refund takes back.
LEMMA NewRowLedger ==
  ASSUME Base, Amounts, Amounts', Ledger, NEW p \in Payout, payout[p].status = "NONE", p \notin DOMAIN edit.copies,
         NEW r, payout' = [payout EXCEPT ![p] = r], Neutral(r), UNCHANGED <<edit, job, paid, interrupted>>
  PROVE  Ledger'
<1>1. payout'[p] = r /\ \A q \in Payout \ {p} : payout'[q] = payout[q]
  BY DEF Base, RowsOK
<1>2. p \notin DOMAIN edit.copies /\ p \notin Hand(Current(job))
  BY HandUsed
<1>3. payout[p].settledBy = Nobody /\ r.settledBy = Nobody
  BY UsedRow DEF Good, Neutral
<1>4. FollowsKeep
  BY <1>1, <1>3 DEF FollowsKeep
<1>5. \A q \in Payout \ {p} : Now(payout', edit')[q] = Now(payout, edit)[q]
  BY <1>1 DEF Now, SavedRow
<1>6. Now(payout, edit)[p] = payout[p]
  BY <1>2 DEF Now, After, SavedRow
<1>7. Now(payout', edit')[p] = r
  <2>1. edit.follow \in {"settle", "free"} => edit.of # Nobody
    BY Sets DEF Ledger, Follows
  <2>2. Now(payout', edit')[p] = After(r, edit.follow, edit.of)
    BY <1>1, <1>2 DEF Now, SavedRow
  <2> QED
    BY <1>3, <2>1, <2>2 DEF After
<1>8. Quiet(Now(payout, edit), Now(payout', edit'), Current(job))
  BY <1>2, <1>3, <1>5, <1>6, <1>7 DEF Quiet, SameEntry, SameWorth, Neutral
<1>9. ListsKeep(Now(payout, edit), Now(payout', edit'))
  BY <1>5, <1>6 DEF ListsKeep
<1>10. Unsaved'
  <2>1. ListsKeep(payout, payout')
    BY <1>1 DEF ListsKeep
  <2> QED
    BY <1>1, <1>2, <2>1, UnsavedStays DEF Ledger, Shorter, Base, CopiesOK
<1> QED
  BY <1>4, <1>8, <1>9, <1>10, SameSkips, KeptLedger

LEMMA SaleLedger ==
  ASSUME Base, Amounts, Amounts', Ledger, NEW o \in Order, CreatePayout(o)
  PROVE  Ledger'
<1>1. o \in Payout /\ payout[o].status = "NONE" /\ UNCHANGED <<edit, job, paid, interrupted>> /\ o \notin DOMAIN edit.copies
  BY Sets DEF CreatePayout, Base, CopiesOK
<1>2. PICK e \in 1..event.end :
        payout' = [payout EXCEPT ![o] = [NoRow EXCEPT !.status = "PENDING", !.order = o, !.gross = Share[o],
                                                      !.net = Share[o] - Fees[o], !.end = e]]
  BY DEF CreatePayout
<1>3. Neutral([NoRow EXCEPT !.status = "PENDING", !.order = o, !.gross = Share[o], !.net = Share[o] - Fees[o], !.end = e])
  BY DEF Neutral, NoRow
<1> QED
  BY <1>1, <1>2, <1>3, NewRowLedger

LEMMA AdjustLedger ==
  ASSUME Base, Amounts, Amounts', Ledger, NEW o \in Order, NEW h, RefundAdjusts(o, h)
  PROVE  Ledger'
<1>1. UNCHANGED <<edit, job, paid, interrupted>>
  BY DEF RefundAdjusts, NotMoved
<1>2. PICK back : payout' = [payout EXCEPT ![NewRow] = [NoRow EXCEPT !.status = "PENDING", !.order = o, !.gross = back,
                                                               !.net = back, !.due = TRUE]]
  BY DEF RefundAdjusts
<1>3. NewRow \in Payout /\ payout[NewRow].status = "NONE" /\ NewRow \notin DOMAIN edit.copies
  BY DEF RefundAdjusts, NewRow, Free, Used
<1>4. Neutral([NoRow EXCEPT !.status = "PENDING", !.order = o, !.gross = back, !.net = back, !.due = TRUE])
  BY DEF Neutral, NoRow
<1> QED
  BY <1>1, <1>2, <1>3, <1>4, NewRowLedger

\* A transfer is confirmed or cancelled.
LEMMA TransferLedger ==
  ASSUME Base, Amounts, Amounts', Ledger, Apart, NEW p \in Payout, ConfirmBankTransfer(p) \/ ReleaseBankTransfer(p)
  PROVE  Ledger'
<1> DEFINE now == Now(payout, edit)
           new == Now(payout', edit')
           j == Current(job)
<1>1. /\ edit = NoEdit /\ ~InHand(p) /\ payout[p].status = "TO_TRANSFER" /\ UNCHANGED <<payout, job, interrupted>>
      /\ Good(payout[p]) /\ payout[p] \in Row
  BY AloneRow, UsedRow DEF ConfirmBankTransfer, ReleaseBankTransfer, NotMoved
<1>2. payout[p].settledBy = Nobody /\ payout[p].settledBy # p
  BY <1>1, Sets DEF Good, Row
<1>3. \A q \in Payout : now[q] = payout[q]
  BY <1>1, NowIs, NoFollow
<1>4. new \in Rows
  BY NowRows DEF Amounts, RowsGood, CopiesGood
<1>5. Context(now, j) /\ p \notin Hand(j)
  BY <1>1, HandRows
<1>6. \A q \in Payout : Good(payout[q])
  BY UsedRow
<1>7. ASSUME NEW r, NEW f \in {"settle", "free"}, ReadsRows([q \in {p} |-> r], f, p, Nobody), r.settledBy = Nobody
      PROVE  /\ edit'.follow = f /\ edit'.of = p /\ new[p] = r
             /\ \A q \in Payout \ {p} : new[q] = After(payout[q], f, p)
  <2>1. edit'.copies = [q \in {p} |-> r] /\ edit'.follow = f /\ edit'.of = p
    BY <1>7 DEF ReadsRows
  <2>2. SavedRow(payout', edit'.copies, p) = r /\ \A q \in Payout \ {p} : SavedRow(payout', edit'.copies, q) = payout[q]
    BY <1>1, <2>1 DEF SavedRow
  <2>3. r.settledBy # p
    BY <1>7, Sets
  <2>4. After(r, f, p) = r
    BY <2>3 DEF After
  <2> QED
    BY <2>1, <2>2, <2>4, NowIs
<1>8. Sound(now, j) /\ Bounded(now, j, paid) /\ (~interrupted => Balanced(now, j, paid)) /\ paid \in Int
  BY DEF Ledger, Books, Amounts, RestTyped
<1> HIDE DEF now, new, j
<1>9. ASSUME ConfirmBankTransfer(p)
      PROVE  /\ Confirms(now, new, p) /\ edit'.of = p
             /\ Sound(new, j) /\ Bounded(new, j, paid') /\ (~interrupted => Balanced(new, j, paid'))
  <2> DEFINE r == [payout[p] EXCEPT !.status = "COMPLETED"]
  <2>1. /\ r.status = "COMPLETED" /\ r.settledBy = payout[p].settledBy /\ r.net = payout[p].net /\ r.offset = payout[p].offset
        /\ ReadsRows([q \in {p} |-> r], "settle", p, Nobody) /\ paid' = paid + payout[p].net - payout[p].offset
    BY <1>1, <1>9 DEF ConfirmBankTransfer, Row
  <2> HIDE DEF r
  <2>2. edit'.of = p /\ new[p] = r /\ \A q \in Payout \ {p} : new[q] = After(payout[q], "settle", p)
    BY <1>2, <1>7, <2>1
  <2>3. \A q \in Payout \ {p} : /\ SameWorth(new[q], payout[q]) /\ new[q].offset = payout[q].offset /\ new[q].settledBy = payout[q].settledBy
                                /\ new[q].status = IF payout[q].settledBy = p /\ payout[q].status = "PENDING" THEN "COMPLETED" ELSE payout[q].status
    BY <1>6, <2>2, AfterKeeps
  <2>4. Confirms(now, new, p)
    BY <1>1, <1>2, <1>3, <2>1, <2>2, <2>3 DEF Confirms, Awaits, SameWorth
  <2>5. paid' = paid + now[p].net - now[p].offset
    BY <1>3, <2>1
  <2> QED
    BY <1>4, <1>5, <1>8, <2>2, <2>4, <2>5, ConfirmBooks
<1>10. ASSUME ReleaseBankTransfer(p)
       PROVE  /\ Releases(now, new, p) /\ edit'.of = p
              /\ Sound(new, j) /\ Bounded(new, j, paid') /\ (~interrupted => Balanced(new, j, paid'))
  <2> DEFINE r == [payout[p] EXCEPT !.status = "PENDING", !.offset = 0]
  <2>1. /\ r.status = "PENDING" /\ r.settledBy = payout[p].settledBy /\ r.net = payout[p].net
        /\ ReadsRows([q \in {p} |-> r], "free", p, Nobody) /\ paid' = paid
    BY <1>1, <1>10 DEF ReleaseBankTransfer, NotMoved, Row
  <2> HIDE DEF r
  <2>2. edit'.of = p /\ new[p] = r /\ \A q \in Payout \ {p} : new[q] = After(payout[q], "free", p)
    BY <1>2, <1>7, <2>1
  <2>3. \A q \in Payout \ {p} : /\ SameWorth(new[q], payout[q]) /\ new[q].offset = payout[q].offset /\ new[q].status = payout[q].status
                                /\ new[q].settledBy = IF payout[q].settledBy = p /\ payout[q].status = "PENDING" THEN Nobody ELSE payout[q].settledBy
    BY <1>6, <2>2, AfterKeeps
  <2>4. Releases(now, new, p)
    BY <1>1, <1>2, <1>3, <2>1, <2>2, <2>3 DEF Releases, Awaits, SameWorth
  <2> QED
    BY <1>4, <1>5, <1>8, <2>1, <2>2, <2>4, ReleaseBooks
<1>11. Books'
  BY <1>1, <1>9, <1>10 DEF Books, now, new, j
<1>12. edit'.of = p /\ \A q \in Payout : new[q].net = now[q].net /\ (now[q].status # "NONE" => new[q].status # "NONE")
  BY <1>9, <1>10 DEF Confirms, Releases
<1>13. Lists'
  <2>1. ListsKeep(now, new)
    BY <1>12 DEF ListsKeep
  <2> QED
    BY <1>1, <2>1, ListsStay DEF Ledger, now, new
<1>14. Follows'
  <2>1. ~InHand(p)'
    BY <1>1 DEF InHand
  <2> QED
    BY <1>1, <1>12, <2>1 DEF Ledger, Follows
<1>15. Unsaved'
  <2>1. edit'.follow \in {"settle", "free"} /\ edit'.worker = Nobody
    BY DEF ConfirmBankTransfer, ReleaseBankTransfer, ReadsRows
  <2> QED
    BY <1>1, <2>1 DEF Ledger, Unsaved
<1> QED
  BY <1>11, <1>13, <1>14, <1>15 DEF Ledger


\* A payout is read, with the debts it will cover.
LEMMA CoversOffset ==
  ASSUME Base, Amounts, NEW p \in Payout, payout[p].net >= 0, NEW c \in Coverings(p)
  PROVE  /\ Sum(c) \in Nat /\ Sum(c) <= payout[p].net /\ Sum([d \in Chosen(c) |-> c[d]]) = Sum(c)
         /\ \A d \in Chosen(c) : d \in Payout /\ c[d] \in Nat /\ payout[d].status = "PENDING" /\ payout[d].settledBy = Nobody
<1>1. /\ OutstandingDebts \subseteq Payout /\ IsFiniteSet(OutstandingDebts) /\ DOMAIN c = OutstandingDebts
      /\ c \in [OutstandingDebts -> Nat] /\ Sum(c) \in Nat /\ c \in [OutstandingDebts -> Int]
      /\ \A d \in OutstandingDebts : payout[d] \in Row
  BY CoveringsGood
<1>2. payout[p].net \in Int
  BY UsedRow DEF Row
<1>3. Sum(c) <= payout[p].net
  <2> DEFINE owed == Sum([d \in OutstandingDebts |-> Owed(d)])
  <2>1. [d \in OutstandingDebts |-> Owed(d)] \in [OutstandingDebts -> Int]
    BY <1>1 DEF Owed, Row
  <2>2. owed \in Int
    BY <1>1, <2>1, SumInt
  <2>3. Sum(c) = Least(Most(payout[p].net, 0), owed)
    BY DEF Coverings
  <2> HIDE DEF owed
  <2> QED
    BY <1>2, <2>2, <2>3 DEF Least, Most
<1>4. Sum([d \in Chosen(c) |-> c[d]]) = Sum(c)
  <2>1. Chosen(c) \in SUBSET OutstandingDebts
    BY <1>1 DEF Chosen
  <2>2. [d \in OutstandingDebts |-> IF d \in Chosen(c) THEN c[d] ELSE 0] = c
    BY <1>1 DEF Chosen
  <2> QED
    BY <1>1, <2>1, <2>2, SumPart
<1> QED
  BY <1>1, <1>3, <1>4 DEF Chosen, OutstandingDebts, Outstanding

LEMMA TakesLedger ==
  ASSUME Base, Amounts, Ledger, NEW w \in Worker, NEW p \in Payout, NEW todo, ReadsPayout(w, p, todo),
         UNCHANGED <<payout, edit, paid, interrupted>>, edit = NoEdit, job[w].pc \in {"idle", "cycle"},
         \A v \in Worker \ {w} : job[v].pc = "idle", payout[p].net >= 0,
         DOMAIN todo = {} \/ (job[w].pc = "cycle" /\ DOMAIN todo \subseteq DOMAIN job[w].todo)
  PROVE  Ledger'
<1>1. PICK c \in Coverings(p) :
        job' = [job EXCEPT ![w] =
                 [pc |-> "mark", todo |-> todo, event |-> job[w].event, row |-> p,
                  copy |-> [payout[p] EXCEPT !.offset = Sum(c)],
                  covered |-> [d \in Chosen(c) |-> c[d]], debts |-> [d \in Chosen(c) |-> payout[d]]]]
  BY DEF ReadsPayout, Base, JobsOK
<1> DEFINE j == [pc |-> "mark", todo |-> todo, event |-> job[w].event, row |-> p,
                 copy |-> [payout[p] EXCEPT !.offset = Sum(c)],
                 covered |-> [d \in Chosen(c) |-> c[d]], debts |-> [d \in Chosen(c) |-> payout[d]]]
           now == Now(payout, edit)
<1>2. /\ j.pc = "mark" /\ j.row = p /\ j.copy = [payout[p] EXCEPT !.offset = Sum(c)] /\ j.todo = todo
      /\ j.covered = [d \in Chosen(c) |-> c[d]] /\ DOMAIN j.covered = Chosen(c)
  OBVIOUS
<1>3. job'[w] = j /\ \A v \in Worker \ {w} : job'[v] = job[v] /\ job'[v].pc = "idle"
  BY <1>1 DEF Base, JobsOK
<1> HIDE DEF j
<1>4. j.copy.status = "PENDING" /\ j.copy.offset = Sum(c) /\ j.copy.net = payout[p].net /\ payout[p].status = "PENDING"
  BY <1>2, UsedRow DEF ReadsPayout, Row
<1>5. now \in Rows /\ \A q \in Payout : now[q] = payout[q]
  BY NowRows, NowIs, NoFollow DEF Amounts, RowsGood, CopiesGood
<1>6. Current(job) = NoJob /\ Current(job') = j
  <2>1. Current(job) = NoJob
    BY CurrentNone DEF Working
  <2>2. Working(job'[w])
    BY <1>2, <1>3 DEF Working
  <2> QED
    BY <1>3, <2>1, <2>2, CurrentIs
<1> HIDE DEF now
<1>7. Desk(j, now)
  <2>1. j.covered \in [DOMAIN j.covered -> Nat] /\ Sum(j.covered) = j.copy.offset /\ j.copy.offset <= j.copy.net
    BY <1>2, <1>4, CoversOffset
  <2>2. \A d \in DOMAIN j.covered : now[d].status = "PENDING" /\ now[d].settledBy = Nobody
    BY <1>2, <1>5, CoversOffset
  <2> QED
    BY <1>2, <1>4, <1>5, <2>1, <2>2 DEF Desk
<1>8. Books'
  <2>1. Ahead(j) = 0 /\ Ahead(NoJob) = 0 /\ (\A q \in Payout : Yet(j, q) = 0 /\ Yet(NoJob, q) = 0) /\ NoJob.pc # "transfer"
    BY <1>2, <1>4 DEF Ahead, Yet, NoJob, NoRow
  <2>2. /\ Sound(now, NoJob) => Sound(now, j)
        /\ Bounded(now, NoJob, paid) => Bounded(now, j, paid)
        /\ Balanced(now, NoJob, paid) => Balanced(now, j, paid)
    BY <1>2, <1>5, <1>7, <2>1, JobBooks
  <2> QED
    BY <1>6, <2>2 DEF Ledger, Books, now
<1>9. Lists'
  <2>1. ASSUME NEW v \in Worker, job'[v].pc # "idle", NEW q \in DOMAIN job'[v].todo
        PROVE  q \in Payout /\ Now(payout', edit')[q].net >= 0 /\ Now(payout', edit')[q].status # "NONE"
    <3>1. v = w /\ q \in DOMAIN todo
      BY <1>2, <1>3, <2>1
    <3> QED
      BY <3>1 DEF Ledger, Lists, ListGood
  <2> QED
    BY <2>1 DEF Lists, ListGood
<1>10. Follows'
  <2>1. payout[p].settledBy = Nobody
    BY UsedRow DEF Good, Row
  <2>2. \A d \in DOMAIN j.covered : payout[d].settledBy = Nobody
    BY <1>2, CoversOffset
  <2>3. \A v \in Worker : \A d \in Hand(job'[v]) : payout[d].settledBy = Nobody
    BY <1>2, <1>3, <2>1, <2>2 DEF Hand, Working
  <2>4. edit'.follow \notin {"settle", "free"}
    BY NoFollow
  <2> QED
    BY <2>3, <2>4 DEF Follows
<1>11. Unsaved'
  <2>1. ASSUME NEW v \in Worker, job'[v].pc # "idle", NEW q \in DOMAIN job'[v].todo
        PROVE  q \in Payout /\ payout'[q].net >= 0 /\ payout'[q].status # "NONE"
    <3>1. v = w /\ q \in DOMAIN todo
      BY <1>2, <1>3, <2>1
    <3> QED
      BY <3>1 DEF Ledger, Unsaved, ListGood
  <2> QED
    BY <2>1, NoEditOK DEF Ledger, Unsaved, ListGood
<1> QED
  BY <1>8, <1>9, <1>10, <1>11 DEF Ledger

LEMMA AdminLedger ==
  ASSUME Base, Amounts, Ledger, Balances, NEW p \in Payout, AdminPays(p)
  PROVE  Ledger'
<1>1. /\ Admin \in Worker /\ (\A v \in Worker : job[v].pc = "idle") /\ payout[p].net >= 0 /\ payout[p].net \in Int
      /\ ReadsPayout(Admin, p, Empty) /\ UNCHANGED <<payout, edit, paid, interrupted>>
  BY UsedRow DEF AdminPays, Worker, Apart, NoCycle, Row, Balances, Exact
<1>2. edit = NoEdit
  BY AloneRow DEF AdminPays, Balances, Exact
<1> QED
  BY <1>1, <1>2, EmptyDomain, TakesLedger

\* The cycle begins: its list are the positive payouts that are due.
LEMMA CronLedger ==
  ASSUME Base, Amounts, Ledger, Apart, NEW c \in Copy, CronFires(c)
  PROVE  Ledger'
<1>1. /\ c \in Worker /\ ~taken /\ edit = NoEdit /\ (\A v \in Worker : job[v].pc = "idle") /\ UNCHANGED <<payout, edit, paid, interrupted>>
  BY Alone DEF Worker, CronFires, Apart, Base, JobsOK, OneWorker
<1> DEFINE k == [NoJob EXCEPT !.pc = "cycle", !.event = event, !.todo = [p \in DuePayouts |-> payout[p]]]
<1>2. k.pc = "cycle" /\ DOMAIN k.todo = DuePayouts
  BY DEF NoJob
<1>3. job' = [job EXCEPT ![c] = k]
  BY DEF CronFires
<1> HIDE DEF k
<1>4. job'[c] = k /\ \A v \in Worker \ {c} : job'[v] = job[v]
  BY <1>1, <1>3 DEF Base, JobsOK
<1>5. (\A v \in Worker : ~Working(job[v])) /\ \A v \in Worker : ~Working(job'[v])
  BY <1>1, <1>2, <1>4 DEF Working
<1>6. Current(job') = Current(job)
  BY <1>5, CurrentNone
<1>7. Books'
  BY <1>1, <1>6 DEF Ledger, Books
<1>8. Follows'
  BY <1>1, <1>5, NoFollow DEF Follows, Hand
<1>9. Lists'
  <2>1. \A p \in DuePayouts : p \in Payout /\ payout[p].net >= 0 /\ payout[p].status # "NONE"
    BY UsedRow DEF DuePayouts, Due, Row
  <2>2. \A p \in Payout : Now(payout', edit')[p] = payout[p]
    BY <1>1, NowIs, NoFollow
  <2> QED
    BY <1>1, <1>2, <1>4, <2>1, <2>2 DEF Lists, ListGood
<1>10. Unsaved'
  <2>1. \A p \in DuePayouts : p \in Payout /\ payout[p].net >= 0 /\ payout[p].status # "NONE"
    BY UsedRow DEF DuePayouts, Due, Row
  <2> QED
    BY <1>1, <1>2, <1>4, <2>1, NoEditOK DEF Ledger, Unsaved, ListGood
<1> QED
  BY <1>7, <1>8, <1>9, <1>10 DEF Ledger

LEMMA CycleLedger ==
  ASSUME Base, Amounts, Amounts', Ledger, Apart, NEW c \in Copy, CycleStep(c)
  PROVE  Ledger'
<1>1. CASE CycleEnds(c)
  BY <1>1, SkipsSkipped, IdleLedger DEF CycleEnds
<1>2. ASSUME NEW p \in Payout, CycleHolds(c, p) PROVE Ledger'
  BY <1>2, InPlaceSteps
<1>3. ASSUME NEW p \in Payout, CycleReschedules(c, p) PROVE Ledger'
  BY <1>3, SkipsSkipped, RescheduleLedger DEF CycleReschedules, Takes
<1>4. ASSUME NEW p \in Payout, CycleSkips(c, p) PROVE Ledger'
  BY <1>4, SkipsSkipped, IdleLedger DEF CycleSkips, Takes
<1>5. ASSUME NEW p \in Payout, CyclePays(c, p) PROVE Ledger'
  <2>1. /\ c \in Worker /\ job[c].pc = "cycle" /\ p \in DOMAIN job[c].todo /\ edit = NoEdit
        /\ ReadsPayout(c, p, Without(c, p)) /\ UNCHANGED <<payout, edit, paid, interrupted>>
    BY <1>5, Alone DEF CyclePays, Takes, Worker
  <2>2. \A v \in Worker \ {c} : job[v].pc = "idle"
    BY <2>1 DEF Base, JobsOK, OneWorker
  <2>3. payout[p].net >= 0
    <3>1. Now(payout, edit)[p].net >= 0
      BY <2>1 DEF Ledger, Lists, ListGood
    <3> QED
      BY <2>1, <3>1, NowIs, NoFollow
  <2>4. DOMAIN Without(c, p) \subseteq DOMAIN job[c].todo
    BY DEF Without
  <2> QED
    BY <2>1, <2>2, <2>3, <2>4, TakesLedger
<1> QED
  BY <1>1, <1>2, <1>3, <1>4, <1>5 DEF CycleStep


\* What the worker that pays knows.
LEMMA AtWork ==
  ASSUME Base, Amounts, Ledger, NEW w \in Worker, Working(job[w])
  PROVE  /\ Current(job) = job[w] /\ Context(Now(payout, edit), job[w]) /\ paid \in Int
         /\ Sound(Now(payout, edit), job[w]) /\ Bounded(Now(payout, edit), job[w], paid)
         /\ ~interrupted => Balanced(Now(payout, edit), job[w], paid)
         /\ job[w].row \in Payout /\ job[w].row \notin DOMAIN edit.copies /\ InHand(job[w].row)
         /\ \A v \in Worker \ {w} : job[v].pc = "idle"
<1>1. Current(job) = job[w] /\ \A v \in Worker \ {w} : job[v].pc = "idle"
  BY JobFacts, CurrentIs
<1>2. job[w].row \in Payout /\ InHand(job[w].row)
  BY JobFacts DEF InHand, Working
<1> QED
  BY <1>1, <1>2, HandRows DEF Ledger, Books, Amounts, RestTyped, Base, CopiesOK

\* The other workers, and what comes next, when a worker goes on.
LEMMA WorkerLedger ==
  ASSUME Base, Amounts, Ledger, NEW w \in Worker, Working(job[w]), NEW k, job' = [job EXCEPT ![w] = k],
         edit' = edit \/ edit'.follow = "none",
         Working(k) => k.row = job[w].row /\ k.debts = job[w].debts,
         \A d \in Hand(k) : payout'[d].settledBy = Nobody,
         k.pc # "idle" => DOMAIN k.todo \subseteq DOMAIN job[w].todo,
         ListsKeep(Now(payout, edit), Now(payout', edit'))
  PROVE  Follows' /\ Lists'
<1>1. job'[w] = k /\ \A v \in Worker \ {w} : job'[v] = job[v] /\ job[v].pc = "idle"
  BY JobFacts
<1>2. \A p \in Payout : InHand(p)' => InHand(p)
  BY <1>1 DEF InHand, Working
<1>3. \A v \in Worker : \A d \in Hand(job'[v]) : payout'[d].settledBy = Nobody
  BY <1>1 DEF Hand, Working
<1>4. Follows'
  <2>1. edit.follow \in {"settle", "free"} => edit.of \in Payout /\ ~InHand(edit.of)
    BY DEF Ledger, Follows
  <2>2. edit'.follow \in {"settle", "free"} => edit'.of \in Payout /\ ~InHand(edit.of)' /\ edit' = edit
    BY <1>2, <2>1
  <2> QED
    BY <1>3, <2>2 DEF Follows, InHand
<1>5. \A v \in Worker : job'[v].pc # "idle" => job[v].pc # "idle" /\ DOMAIN job'[v].todo \subseteq DOMAIN job[v].todo
  BY <1>1 DEF Working
<1> QED
  BY <1>4, <1>5, ListsStay DEF Ledger

\* The worker's lists get shorter.
LEMMA WorkerShorter ==
  ASSUME Base, Amounts, NEW w \in Worker, Working(job[w]), NEW k, job' = [job EXCEPT ![w] = k],
         k.pc # "idle" => DOMAIN k.todo \subseteq DOMAIN job[w].todo
  PROVE  Shorter
<1>1. job'[w] = k /\ \A v \in Worker \ {w} : job'[v] = job[v] /\ job[v].pc = "idle"
  BY JobFacts
<1> QED
  BY <1>1 DEF Shorter, Working

\* A row is written that no transfer waits for, and nobody else saves.
LEMMA NowWritten ==
  ASSUME Base, Ledger, NEW p \in Payout, p \notin DOMAIN edit.copies, NEW r, payout'[p] = r, UNCHANGED edit,
         r.settledBy = Nobody \/ (r.settledBy \in Payout /\ InHand(r.settledBy))
  PROVE  Now(payout', edit')[p] = r
<1>1. edit.follow \in {"settle", "free"} => r.settledBy # edit.of
  BY Sets DEF Ledger, Follows
<1>2. Now(payout', edit')[p] = After(r, edit.follow, edit.of)
  BY DEF Now, SavedRow
<1> QED
  BY <1>1, <1>2 DEF After

LEMMA NowLeft ==
  ASSUME NEW p \in Payout, payout'[p] = payout[p], UNCHANGED edit
  PROVE  Now(payout', edit')[p] = Now(payout, edit)[p]
  BY DEF Now, SavedRow

\* The payout is saved.
LEMMA PayLedger ==
  ASSUME Base, Amounts, Amounts', Ledger, NEW w \in Worker, Working(job[w]), NEW s, Saves(w, s), UNCHANGED <<edit, paid, interrupted>>,
         NEW k, job' = [job EXCEPT ![w] = k], k.pc # "idle" => DOMAIN k.todo \subseteq DOMAIN job[w].todo,
         Working(k) => k.debts = job[w].debts,
         NEW j, PayStep(job[w], j, s), IF Working(k) THEN j = k ELSE j = NoJob
  PROVE  Ledger'
<1> DEFINE p == job[w].row
           r == [job[w].copy EXCEPT !.status = s]
           now == Now(payout, edit)
           new == Now(payout', edit')
<1>1. /\ Current(job) = job[w] /\ Context(now, job[w]) /\ paid \in Int
      /\ Sound(now, job[w]) /\ Bounded(now, job[w], paid) /\ (~interrupted => Balanced(now, job[w], paid))
      /\ p \in Payout /\ p \notin DOMAIN edit.copies /\ \A v \in Worker \ {w} : job[v].pc = "idle"
  BY AtWork
<1>2. /\ job[w].copy \in Row /\ job[w].copy.settledBy = Nobody /\ job[w].copy.net \in Int /\ job[w].copy.net >= 0
      /\ p \notin DOMAIN job[w].covered
  BY <1>1, CoveredSum DEF Sound
<1>3. r.status = s /\ r.net = job[w].copy.net /\ r.offset = job[w].copy.offset /\ r.settledBy = Nobody /\ s # "NONE"
  BY <1>2 DEF Row, PayStep
<1>4. payout'[p] = r /\ \A q \in Payout \ {p} : payout'[q] = payout[q]
  BY <1>1 DEF Saves, Base, RowsOK
<1> HIDE DEF r
<1>5. new[p] = r /\ \A q \in Payout \ {p} : new[q] = now[q]
  BY <1>1, <1>3, <1>4, NowWritten, NowLeft
<1>6. new \in Rows
  BY NowRows DEF Amounts, RowsGood, CopiesGood
<1>7. Current(job') = j
  <2>1. job'[w] = k /\ \A v \in Worker \ {w} : job'[v].pc = "idle"
    BY <1>1 DEF Base, JobsOK
  <2>2. CASE Working(k)
    BY <2>1, <2>2, CurrentIs
  <2>3. CASE ~Working(k)
    <3>1. \A v \in Worker : ~Working(job'[v])
      BY <2>1, <2>3 DEF Working
    <3> QED
      BY <2>3, <3>1, CurrentNone
  <2> QED
    BY <2>2, <2>3
<1> HIDE DEF now, new
<1>8. /\ Sound(new, j)
      /\ Bounded(now, job[w], paid) => Bounded(new, j, paid)
      /\ Balanced(now, job[w], paid) => Balanced(new, j, paid)
  BY <1>1, <1>3, <1>5, <1>6, PayBooks
<1>9. Books'
  BY <1>1, <1>7, <1>8 DEF Books, new
<1>10. Follows' /\ Lists'
  <2>1. Working(k) => k.row = p /\ k.covered = job[w].covered
    BY NoJobOK DEF PayStep, Working
  <2>2. \A d \in Hand(k) : payout'[d].settledBy = Nobody
    <3>1. \A d \in DOMAIN job[w].covered : d \in Payout /\ payout[d].settledBy = Nobody
      BY JobFacts DEF Ledger, Follows, Hand
    <3> QED
      BY <1>2, <1>3, <1>4, <2>1, <3>1 DEF Hand
  <2>3. ListsKeep(now, new)
    BY <1>2, <1>3, <1>5 DEF ListsKeep
  <2> QED
    BY <2>1, <2>2, <2>3, WorkerLedger DEF now, new
<1>11. Unsaved'
  <2>1. ListsKeep(payout, payout')
    BY <1>2, <1>3, <1>4 DEF ListsKeep
  <2> QED
    BY <1>1, <1>4, <2>1, WorkerShorter, UnsavedStays DEF Ledger, Base, CopiesOK
<1> QED
  BY <1>9, <1>10, <1>11 DEF Ledger

LEMMA GoesJob ==
  ASSUME Base, NEW w \in Worker, NEW pc, NEW copy, Goes(w, pc, copy)
  PROVE  \E k : /\ job' = [job EXCEPT ![w] = k] /\ k.pc = pc /\ k.copy = copy /\ k.row = job[w].row /\ k.covered = job[w].covered
                /\ k.debts = job[w].debts /\ k.todo = job[w].todo
<1>1. job = [v \in Worker |-> job[v]] /\ JobOK(job[w])
  BY DEF Base, JobsOK
<1> DEFINE k == [job[w] EXCEPT !.pc = pc, !.copy = copy]
<1>2. /\ k.pc = pc /\ k.copy = copy /\ k.row = job[w].row /\ k.covered = job[w].covered
      /\ k.debts = job[w].debts /\ k.todo = job[w].todo
  BY <1>1 DEF JobOK, JobFields
<1>3. job' = [job EXCEPT ![w] = k]
  BY <1>1 DEF Goes
<1> QED
  BY <1>2, <1>3

LEMMA DoneJob ==
  ASSUME NEW w \in Worker, Done(w)
  PROVE  \E k : job' = [job EXCEPT ![w] = k] /\ ~Working(k) /\ (k.pc # "idle" => DOMAIN k.todo \subseteq DOMAIN job[w].todo)
<1> DEFINE k == IF w = Admin THEN NoJob ELSE [NoJob EXCEPT !.pc = "cycle", !.todo = job[w].todo, !.event = job[w].event]
<1>1. job' = [job EXCEPT ![w] = k]
  BY DEF Done
<1>2. CASE w = Admin
  BY <1>1, <1>2, NoJobOK DEF Working
<1>3. CASE w # Admin
  <2>1. k.pc = "cycle" /\ k.todo = job[w].todo
    BY <1>3 DEF NoJob
  <2> HIDE DEF k
  <2> QED
    BY <1>1, <2>1 DEF Working
<1> QED
  BY <1>2, <1>3

LEMMA MarkLedger ==
  ASSUME Base, Amounts, Amounts', Ledger, NEW w \in Worker, MarkProcessing(w) \/ MarkToTransfer(w)
  PROVE  Ledger'
<1>1. job[w].pc = "mark" /\ Working(job[w]) /\ UNCHANGED <<edit, paid, interrupted>>
  BY DEF MarkProcessing, MarkToTransfer, At, RestUnchanged, Working
<1>2. CASE MarkProcessing(w)
  <2>1. Saves(w, "PROCESSING") /\ Goes(w, "transfer", job[w].copy)
    BY <1>2 DEF MarkProcessing
  <2>2. PICK k : /\ job' = [job EXCEPT ![w] = k] /\ k.pc = "transfer" /\ k.copy = job[w].copy /\ k.row = job[w].row
                 /\ k.covered = job[w].covered /\ k.debts = job[w].debts /\ k.todo = job[w].todo
    BY <2>1, GoesJob
  <2>3. PayStep(job[w], k, "PROCESSING") /\ Working(k)
    BY <1>1, <2>2 DEF PayStep, Working
  <2> QED
    BY <1>1, <2>1, <2>2, <2>3, PayLedger
<1>3. CASE MarkToTransfer(w)
  <2> DEFINE s == IF Pays(w) <= 0 THEN "COMPLETED" ELSE "TO_TRANSFER"
             copy == [job[w].copy EXCEPT !.status = s]
  <2>1. Saves(w, s) /\ Goes(w, "settle", copy)
    BY <1>3 DEF MarkToTransfer
  <2>2. job[w].copy \in Row /\ job[w].copy.net \in Int /\ job[w].copy.offset \in Nat
    BY <1>1, JobFacts DEF Row
  <2>3. copy.status = s /\ copy.net = job[w].copy.net /\ copy.offset = job[w].copy.offset
    BY <2>2 DEF Row
  <2>4. s \in {"COMPLETED", "TO_TRANSFER"} /\ (s = "COMPLETED" => job[w].copy.net <= job[w].copy.offset)
    BY <2>2 DEF Pays
  <2> HIDE DEF s, copy
  <2>5. PICK k : /\ job' = [job EXCEPT ![w] = k] /\ k.pc = "settle" /\ k.copy = copy /\ k.row = job[w].row
                 /\ k.covered = job[w].covered /\ k.debts = job[w].debts /\ k.todo = job[w].todo
    BY <2>1, GoesJob
  <2>6. PayStep(job[w], k, s) /\ Working(k)
    BY <1>1, <2>3, <2>4, <2>5 DEF PayStep, Working
  <2> QED
    BY <1>1, <2>1, <2>5, <2>6, PayLedger
<1> QED
  BY <1>2, <1>3

LEMMA RecordLedger ==
  ASSUME Base, Amounts, Amounts', Ledger, NEW w \in Worker, Record(w)
  PROVE  Ledger'
<1> DEFINE s == job[w].copy.status
<1>1. job[w].pc = "record" /\ Working(job[w]) /\ UNCHANGED <<edit, paid, interrupted>> /\ Saves(w, s)
  BY DEF Record, At, RestUnchanged, Working
<1>2. s \in {"COMPLETED", "FAILED"}
  BY <1>1, JobFacts DEF JobGood
<1>3. CASE s = "FAILED"
  <2>1. PICK k : job' = [job EXCEPT ![w] = k] /\ ~Working(k) /\ (k.pc # "idle" => DOMAIN k.todo \subseteq DOMAIN job[w].todo)
    BY <1>3, DoneJob DEF Record
  <2>2. PayStep(job[w], NoJob, s)
    BY <1>1, <1>3 DEF PayStep
  <2> HIDE DEF s
  <2> QED
    BY <1>1, <2>1, <2>2, PayLedger
<1>4. CASE s = "COMPLETED"
  <2>1. Goes(w, "settle", job[w].copy)
    BY <1>4 DEF Record
  <2>2. PICK k : /\ job' = [job EXCEPT ![w] = k] /\ k.pc = "settle" /\ k.copy = job[w].copy /\ k.row = job[w].row
                 /\ k.covered = job[w].covered /\ k.debts = job[w].debts /\ k.todo = job[w].todo
    BY <2>1, GoesJob
  <2>3. PayStep(job[w], k, s) /\ Working(k)
    BY <1>1, <1>4, <2>2 DEF PayStep, Working
  <2> HIDE DEF s
  <2> QED
    BY <1>1, <2>2, <2>3, PayLedger
<1> QED
  BY <1>2, <1>3, <1>4

LEMMA StripeLedger ==
  ASSUME Base, Amounts, Amounts', Ledger, NEW w \in Worker, StripeTransfers(w) \/ StripeFails(w)
  PROVE  Ledger'
<1> DEFINE now == Now(payout, edit)
<1>1. job[w].pc = "transfer" /\ Working(job[w]) /\ UNCHANGED <<payout, edit>>
  BY DEF StripeTransfers, StripeFails, At, RestUnchanged, Working
<1>2. /\ Current(job) = job[w] /\ Context(now, job[w]) /\ paid \in Int
      /\ Sound(now, job[w]) /\ Bounded(now, job[w], paid) /\ (~interrupted => Balanced(now, job[w], paid))
      /\ job[w].row \in Payout /\ \A v \in Worker \ {w} : job[v].pc = "idle"
  BY <1>1, AtWork
<1>3. /\ job[w].copy \in Row /\ job[w].copy.net \in Int /\ job[w].copy.offset \in Nat /\ job[w].copy.offset <= job[w].copy.net
  <2>1. job[w].copy.offset <= job[w].copy.net
    BY <1>1, <1>2 DEF Sound, Desk
  <2> QED
    BY <1>1, <2>1, JobFacts DEF Row
<1>4. Pays(w) \in Int /\ Pays(w) >= 0 /\ Pays(w) = job[w].copy.net - job[w].copy.offset
  BY <1>3 DEF Pays
<1>5. \E copy : /\ Goes(w, "record", copy) /\ copy.net = job[w].copy.net /\ paid' \in Int
                /\ \/ copy.status = "COMPLETED" /\ copy.offset = job[w].copy.offset /\ paid' = paid + Pays(w)
                   \/ copy.status = "FAILED" /\ copy.offset = 0 /\ paid' \in {paid, paid + Pays(w)}
                /\ ~interrupted' => ~interrupted /\ (copy.status = "FAILED" => paid' = paid)
  <2>1. CASE StripeTransfers(w)
    <3> DEFINE copy == [job[w].copy EXCEPT !.status = "COMPLETED"]
    <3>1. copy.net = job[w].copy.net /\ copy.status = "COMPLETED" /\ copy.offset = job[w].copy.offset
      BY <1>3 DEF Row
    <3>2. paid' = paid + Pays(w) /\ paid' \in Int
      BY <1>2, <1>4, <2>1 DEF StripeTransfers, Most
    <3>3. Goes(w, "record", copy) /\ interrupted' = interrupted
      BY <2>1 DEF StripeTransfers
    <3> HIDE DEF copy
    <3> QED
      BY <3>1, <3>2, <3>3
  <2>2. CASE StripeFails(w)
    <3> DEFINE copy == [job[w].copy EXCEPT !.status = "FAILED", !.offset = 0]
    <3>1. copy.net = job[w].copy.net /\ copy.status = "FAILED" /\ copy.offset = 0
      BY <1>3 DEF Row
    <3>2. Goes(w, "record", copy) /\ (UNCHANGED <<paid, interrupted>> \/ (paid' = paid + Pays(w) /\ interrupted' = TRUE))
      BY <2>2 DEF StripeFails
    <3>3. paid' \in Int
      BY <1>2, <1>4, <3>2
    <3> HIDE DEF copy
    <3> QED
      BY <3>1, <3>2, <3>3
  <2> QED
    BY <2>1, <2>2
<1>6. PICK copy : /\ Goes(w, "record", copy) /\ copy.net = job[w].copy.net /\ paid' \in Int
                  /\ \/ copy.status = "COMPLETED" /\ copy.offset = job[w].copy.offset /\ paid' = paid + Pays(w)
                     \/ copy.status = "FAILED" /\ copy.offset = 0 /\ paid' \in {paid, paid + Pays(w)}
                  /\ ~interrupted' => ~interrupted /\ (copy.status = "FAILED" => paid' = paid)
  BY <1>5
<1>7. PICK k : /\ job' = [job EXCEPT ![w] = k] /\ k.pc = "record" /\ k.copy = copy /\ k.row = job[w].row
               /\ k.covered = job[w].covered /\ k.debts = job[w].debts /\ k.todo = job[w].todo
  BY <1>6, GoesJob
<1>8. Current(job') = k
  <2>1. job'[w] = k /\ (\A v \in Worker \ {w} : job'[v].pc = "idle") /\ Working(job'[w])
    BY <1>2, <1>7 DEF Base, JobsOK, Working
  <2> QED
    BY <2>1, CurrentIs
<1> HIDE DEF now
<1>9. /\ Sound(now, k)
      /\ Bounded(now, job[w], paid) => Bounded(now, k, paid')
      /\ Balanced(now, job[w], paid) /\ (k.copy.status = "FAILED" => paid' = paid) => Balanced(now, k, paid')
  BY <1>1, <1>2, <1>4, <1>6, <1>7, StripeBooks
<1>10. Books'
  BY <1>1, <1>2, <1>6, <1>7, <1>8, <1>9 DEF Books, now
<1>11. Follows' /\ Lists'
  <2>1. \A d \in Hand(k) : payout'[d].settledBy = Nobody
    BY <1>1, <1>7 DEF Hand, Working, Ledger, Follows
  <2>2. ListsKeep(Now(payout, edit), Now(payout', edit'))
    BY <1>1 DEF ListsKeep
  <2> QED
    BY <1>1, <1>7, <2>1, <2>2, WorkerLedger
<1>12. Unsaved'
  BY <1>1, <1>7, WorkerShorter, UnsavedStays DEF Ledger, ListsKeep
<1> QED
  BY <1>10, <1>11, <1>12 DEF Ledger

LEMMA SettleEndsLedger ==
  ASSUME Base, Amounts, Amounts', Ledger, NEW w \in Worker, SettleEnds(w)
  PROVE  Ledger'
<1> DEFINE now == Now(payout, edit)
<1>1. job[w].pc = "settle" /\ Working(job[w]) /\ DOMAIN job[w].covered = {} /\ UNCHANGED <<payout, edit, paid, interrupted>>
  BY DEF SettleEnds, At, RestUnchanged, Working
<1>2. /\ Current(job) = job[w] /\ Context(now, job[w])
      /\ Sound(now, job[w]) /\ Bounded(now, job[w], paid) /\ (~interrupted => Balanced(now, job[w], paid))
      /\ \A v \in Worker \ {w} : job[v].pc = "idle"
  BY <1>1, AtWork
<1>3. PICK k : job' = [job EXCEPT ![w] = k] /\ ~Working(k) /\ (k.pc # "idle" => DOMAIN k.todo \subseteq DOMAIN job[w].todo)
  BY DoneJob DEF SettleEnds
<1>4. Current(job') = NoJob
  <2>1. \A v \in Worker : ~Working(job'[v])
    BY <1>2, <1>3 DEF Base, JobsOK, Working
  <2> QED
    BY <2>1, CurrentNone
<1> HIDE DEF now
<1>5. Sum(job[w].covered) = 0 /\ now \in Rows
  BY <1>1, <1>2, CoveredSum DEF Sound, Context
<1>6. /\ Ahead(NoJob) = Ahead(job[w]) /\ (\A q \in Payout : Yet(NoJob, q) = Yet(job[w], q))
      /\ NoJob.pc # "transfer" /\ Desk(NoJob, now)
  <2>1. Ahead(NoJob) = 0 /\ (\A q \in Payout : Yet(NoJob, q) = 0) /\ NoJob.pc # "transfer" /\ Desk(NoJob, now)
    BY NoJobOK DEF Ahead, Yet, NoJob, NoRow, Desk, Working
  <2>2. Ahead(job[w]) = 0
    <3>1. Ahead(job[w]) \in {0, -Sum(job[w].covered)}
      BY <1>1 DEF Ahead
    <3>2. -Sum(job[w].covered) = 0
      <4>1. \A z \in Int : z >= 0 /\ z <= 0 => -z = 0
        OBVIOUS
      <4>2. Sum(job[w].covered) \in Int
        BY <1>5
      <4>3. Sum(job[w].covered) >= 0 /\ Sum(job[w].covered) <= 0
        BY <1>5
      <4> QED
        BY <4>1, <4>2, <4>3, Zenon
    <3> QED
      BY <3>1, <3>2
  <2>3. \A q \in Payout : Yet(job[w], q) = 0
    BY <1>5 DEF Yet
  <2> QED
    BY <2>1, <2>2, <2>3
<1>7. /\ Sound(now, job[w]) => Sound(now, NoJob)
      /\ Bounded(now, job[w], paid) => Bounded(now, NoJob, paid)
      /\ Balanced(now, job[w], paid) => Balanced(now, NoJob, paid)
  BY <1>1, <1>5, <1>6, JobBooks
<1>8. Books'
  BY <1>1, <1>2, <1>4, <1>7 DEF Books, now
<1>9. Follows' /\ Lists'
  <2>1. \A d \in Hand(k) : payout'[d].settledBy = Nobody
    BY <1>3 DEF Hand
  <2>2. ListsKeep(Now(payout, edit), Now(payout', edit'))
    BY <1>1 DEF ListsKeep
  <2> QED
    BY <1>1, <1>3, <2>1, <2>2, WorkerLedger
<1>10. Unsaved'
  BY <1>1, <1>3, WorkerShorter, UnsavedStays DEF Ledger, ListsKeep
<1> QED
  BY <1>8, <1>9, <1>10 DEF Ledger


\* A debt is settled or reserved, in full or in part.
LEMMA SettleLedger ==
  ASSUME Base, Amounts, Amounts', Ledger, NEW w \in Worker, NEW d \in Payout, SettleDebt(w, d)
  PROVE  Ledger'
<1> DEFINE now == Now(payout, edit)
           new == Now(payout', edit')
           debt == job[w].debts[d]
           part == job[w].covered[d]
           row == job[w].row
           status == IF job[w].copy.status = "COMPLETED" THEN "COMPLETED" ELSE "PENDING"
<1>1. job[w].pc = "settle" /\ Working(job[w]) /\ d \in DOMAIN job[w].covered /\ UNCHANGED <<paid, interrupted>>
  BY DEF SettleDebt, At, Working
<1>2. /\ Current(job) = job[w] /\ Context(now, job[w]) /\ paid \in Int
      /\ Sound(now, job[w]) /\ Bounded(now, job[w], paid) /\ (~interrupted => Balanced(now, job[w], paid))
      /\ row \in Payout /\ InHand(row) /\ \A v \in Worker \ {w} : job[v].pc = "idle"
  BY <1>1, AtWork
<1>3. /\ debt \in Row /\ debt.settledBy = Nobody /\ debt.status = "PENDING" /\ debt.net \in Int
      /\ d \notin DOMAIN edit.copies /\ payout[d].status # "NONE" /\ part \in Int
      /\ now[d].net < 0 /\ now[d].net \in Int /\ d # row
  <2>1. /\ JobGood(job[w], payout) /\ d \notin DOMAIN edit.copies /\ payout[d].status # "NONE"
    BY <1>1, JobFacts
  <2>2. debt \in Row /\ debt.settledBy = Nobody /\ debt.status = "PENDING" /\ debt.net \in Int
    BY <1>1, <2>1 DEF JobGood, Good, Row
  <2>3. part \in Int /\ now[d].net < 0 /\ now[d].net \in Int /\ d # row
    BY <1>1, <1>2, CoveredSum DEF Sound
  <2> QED
    BY <2>1, <2>2, <2>3
<1>4. \/ /\ part = -debt.net /\ UNCHANGED edit
         /\ payout' = [payout EXCEPT ![d] = [debt EXCEPT !.status = status, !.settledBy = row]]
      \/ /\ part < -debt.net /\ Free # {} /\ edit = NoEdit
         /\ payout' = [payout EXCEPT ![d] = [debt EXCEPT !.net = debt.net + part]]
         /\ edit' = [copies |-> [q \in {NewRow} |-> [NoRow EXCEPT !.status = status, !.order = debt.order, !.net = -part,
                                                                  !.due = TRUE, !.settledBy = row]],
                     follow |-> "none", of |-> Nobody, worker |-> w]
  BY DEF SettleDebt, ReadsRows
<1>5. new \in Rows
  BY NowRows DEF Amounts, RowsGood, CopiesGood
<1> HIDE DEF now, new, debt, part, row, status
<1>6. \E c : /\ c \in Payout /\ new[c].status = status /\ new[c].settledBy = row /\ new[c].net = -part
             /\ c = d \/ (now[c].status = "NONE" /\ payout[c].status = "NONE"
                          /\ new[d].status = "PENDING" /\ new[d].settledBy = Nobody /\ new[d].net < 0
                          /\ payout'[d].settledBy = Nobody)
             /\ \A q \in Payout \ {c, d} : new[q] = now[q] /\ payout'[q] = payout[q]
  <2>1. CASE /\ part = -debt.net /\ UNCHANGED edit
             /\ payout' = [payout EXCEPT ![d] = [debt EXCEPT !.status = status, !.settledBy = row]]
    <3> DEFINE r == [debt EXCEPT !.status = status, !.settledBy = row]
    <3>1. r.status = status /\ r.settledBy = row /\ r.net = debt.net
      BY <1>3 DEF Row
    <3>2. payout'[d] = r /\ \A q \in Payout \ {d} : payout'[q] = payout[q]
      BY <2>1 DEF Base, RowsOK
    <3> HIDE DEF r
    <3>3. new[d] = r /\ \A q \in Payout \ {d} : new[q] = now[q]
      BY <1>1, <1>2, <1>3, <2>1, <3>1, <3>2, NowWritten, NowLeft DEF now, new
    <3>4. debt.net = -part
      BY <1>3, <2>1
    <3> QED
      BY <3>1, <3>2, <3>3, <3>4
  <2>2. CASE /\ part < -debt.net /\ Free # {} /\ edit = NoEdit
             /\ payout' = [payout EXCEPT ![d] = [debt EXCEPT !.net = debt.net + part]]
             /\ edit' = [copies |-> [q \in {NewRow} |-> [NoRow EXCEPT !.status = status, !.order = debt.order, !.net = -part,
                                                                      !.due = TRUE, !.settledBy = row]],
                         follow |-> "none", of |-> Nobody, worker |-> w]
    <3> DEFINE r == [debt EXCEPT !.net = debt.net + part]
               s == [NoRow EXCEPT !.status = status, !.order = debt.order, !.net = -part, !.due = TRUE, !.settledBy = row]
               n == NewRow
    <3>1. /\ n \in Payout /\ payout[n].status = "NONE" /\ payout' = [payout EXCEPT ![d] = r] /\ edit = NoEdit
          /\ edit'.copies = [q \in {n} |-> s] /\ edit'.follow = "none"
      BY <2>2 DEF NewRow, Free, Used
    <3>2. r.status = "PENDING" /\ r.settledBy = Nobody /\ r.net = debt.net + part /\ r.net < 0
      <4>1. debt.net + part < 0
        BY <1>3, <2>2
      <4> QED
        BY <1>3, <4>1 DEF Row
    <3>3. s.status = status /\ s.net = -part /\ s.settledBy = row
      BY DEF NoRow
    <3> HIDE DEF r, s, n
    <3>4. n # d /\ payout'[d] = r /\ \A q \in Payout \ {d} : payout'[q] = payout[q]
      BY <1>3, <3>1 DEF Base, RowsOK
    <3>5. /\ \A q \in Payout : now[q] = payout[q]
          /\ \A q \in Payout : new[q] = SavedRow(payout', edit'.copies, q)
      BY <3>1, NowIs, NoFollow DEF now, new
    <3>6. new[d] = r /\ new[n] = s /\ \A q \in Payout \ {n, d} : new[q] = now[q]
      BY <3>1, <3>4, <3>5 DEF SavedRow
    <3>7. now[n].status = "NONE"
      BY <3>1, <3>5
    <3> QED
      BY <3>1, <3>2, <3>3, <3>4, <3>6, <3>7
  <2> QED
    BY <1>4, <2>1, <2>2
<1>7. PICK c : /\ c \in Payout /\ new[c].status = status /\ new[c].settledBy = row /\ new[c].net = -part
               /\ c = d \/ (now[c].status = "NONE" /\ payout[c].status = "NONE"
                            /\ new[d].status = "PENDING" /\ new[d].settledBy = Nobody /\ new[d].net < 0
                            /\ payout'[d].settledBy = Nobody)
               /\ \A q \in Payout \ {c, d} : new[q] = now[q] /\ payout'[q] = payout[q]
  BY <1>6
<1>8. PICK k : /\ job' = [job EXCEPT ![w] = k] /\ k.pc = "settle" /\ k.row = row /\ k.copy = job[w].copy
               /\ k.covered = [q \in DOMAIN job[w].covered \ {d} |-> job[w].covered[q]]
               /\ k.debts = job[w].debts /\ k.todo = job[w].todo
  <2> DEFINE j == [job[w] EXCEPT !.covered = [q \in DOMAIN job[w].covered \ {d} |-> job[w].covered[q]]]
  <2>1. JobOK(job[w]) /\ job = [v \in Worker |-> job[v]]
    BY <1>1, JobFacts
  <2>2. job' = [job EXCEPT ![w] = j]
    BY <2>1 DEF SettleDebt
  <2>3. /\ j.pc = "settle" /\ j.row = row /\ j.copy = job[w].copy /\ j.debts = job[w].debts /\ j.todo = job[w].todo
        /\ j.covered = [q \in DOMAIN job[w].covered \ {d} |-> job[w].covered[q]]
    BY <1>1, <2>1 DEF JobOK, JobFields, row
  <2> QED
    BY <2>2, <2>3
<1>9. Current(job') = k /\ Working(k)
  <2>1. Working(k) /\ job'[w] = k /\ \A v \in Worker \ {w} : job'[v].pc = "idle"
    BY <1>2, <1>8 DEF Base, JobsOK, Working
  <2> QED
    BY <2>1, CurrentIs
<1>10. SettleStep(job[w], k, d)
  BY <1>1, <1>8 DEF SettleStep, row
<1>11. Covers(now, new, job[w], d, c)
  BY <1>7 DEF Covers, status, row, part
<1>12. /\ Sound(new, k)
       /\ Bounded(now, job[w], paid) => Bounded(new, k, paid)
       /\ Balanced(now, job[w], paid) => Balanced(new, k, paid)
  BY <1>2, <1>5, <1>10, <1>11, SettleBooks
<1>13. Books'
  BY <1>1, <1>2, <1>9, <1>12 DEF Books, now, new
<1>14. Follows' /\ Lists'
  <2>1. \A q \in Hand(k) : payout'[q].settledBy = Nobody
    <3> SUFFICES ASSUME NEW q \in Hand(k) PROVE payout'[q].settledBy = Nobody
      OBVIOUS
    <3>1. q \in Hand(job[w]) /\ q # d
      BY <1>1, <1>3, <1>8, <1>9 DEF Hand, row
    <3>2. q \in Payout /\ payout[q].status # "NONE" /\ payout[q].settledBy = Nobody
      BY <1>2, <3>1, HandUsed DEF Ledger, Follows
    <3> QED
      BY <1>7, <3>1, <3>2
  <2>2. ListsKeep(now, new)
    BY <1>3, <1>7 DEF ListsKeep
  <2>3. k.pc # "idle" => DOMAIN k.todo \subseteq DOMAIN job[w].todo
    BY <1>8
  <2>4. edit' = edit \/ edit'.follow = "none"
    BY <1>4
  <2> QED
    BY <1>1, <1>8, <2>1, <2>2, <2>3, <2>4, WorkerLedger DEF now, new, row
<1>15. Unsaved'
  <2>1. payout[d].net < 0 /\ (\A q \in Payout \ {d} : payout'[q] = payout[q]) /\ d \notin DOMAIN edit.copies
    <3>1. now[d].net = payout[d].net
      BY <1>3, NowRows DEF now, SavedRow, SameWorth, Amounts, RowsGood, CopiesGood
    <3>2. \A q \in Payout \ {d} : payout'[q] = payout[q]
      BY <1>4 DEF Base, RowsOK
    <3> QED
      BY <1>3, <3>1, <3>2
  <2>2. ListsKeep(payout, payout') /\ Shorter
    <3>1. payout[d].net \in Int
      BY UsedRow DEF Row
    <3>2. Shorter
      BY <1>1, <1>8, WorkerShorter
    <3> QED
      BY <2>1, <3>1, <3>2 DEF ListsKeep
  <2>3. CASE UNCHANGED edit
    BY <2>1, <2>2, <2>3, UnsavedStays DEF Ledger, Base, CopiesOK
  <2>4. ASSUME part < -debt.net, Free # {}, edit'.follow = "none", edit'.worker = w,
               NEW s, s.net = -part, edit'.copies = [q \in {NewRow} |-> s]
        PROVE  Unsaved'
    <3>1. NewRow \in Payout /\ payout[NewRow].status = "NONE" /\ NewRow # d
      BY <1>3, <2>4 DEF NewRow, Free, Used
    <3>2. payout'[NewRow].status = "NONE"
      BY <2>1, <3>1
    <3>3. -part <= 0
      <4>1. part \in Nat
        BY <1>1, <1>2, CoveredSum DEF part, Sound
      <4> QED
        BY <4>1
    <3>4. w # Nobody
      BY PayoutAssumption DEF Worker
    <3>5. \A v \in Worker : ListGood(job'[v], payout')
      BY <2>2, ListedStay DEF Ledger
    <3> QED
      BY <2>4, <3>2, <3>3, <3>4, <3>5 DEF Unsaved
  <2>5. ASSUME NEW s, part < -debt.net, Free # {}, s.net = -part,
               edit' = [copies |-> [q \in {NewRow} |-> s], follow |-> "none", of |-> Nobody, worker |-> w]
        PROVE  Unsaved'
    BY <2>4, <2>5
  <2>6. [NoRow EXCEPT !.status = status, !.order = debt.order, !.net = -part, !.due = TRUE, !.settledBy = row].net = -part
    BY DEF NoRow
  <2> QED
    BY <1>4, <2>3, <2>5, <2>6
<1> QED
  BY <1>13, <1>14, <1>15 DEF Ledger

LEMMA JobLedger ==
  ASSUME Base, Amounts, Amounts', Ledger, NEW w \in Worker, JobStep(w)
  PROVE  Ledger'
  BY MarkLedger, StripeLedger, RecordLedger, SettleEndsLedger, SettleLedger DEF JobStep


\* A job that stops pays nothing more, and may have paid already.
LEMMA StopsBooks ==
  ASSUME NEW now \in Rows, NEW j, NEW money \in Int
  PROVE  /\ Sound(now, j) => Sound(now, NoJob)
         /\ Bounded(now, j, money) => Bounded(now, NoJob, money)
<1>1. ~Working(NoJob) /\ NoJob.pc = "idle"
  BY NoJobOK DEF Working
<1>2. Sound(now, j) => Sound(now, NoJob)
  BY <1>1 DEF Sound, Desk
<1>3. CapSum(now, j) <= CapSum(now, NoJob) /\ CapSum(now, j) \in Int /\ CapSum(now, NoJob) \in Int
  <2> DEFINE f == [p \in Payout |-> Cap(j, p, now[p])]
             g == [p \in Payout |-> Cap(NoJob, p, now[p])]
  <2>1. f \in [Payout -> Int] /\ g \in [Payout -> Int]
    BY RowTypes
  <2>2. \A p \in Payout : now[p].net \in Int
    BY RowTypes
  <2>3. \A p \in Payout : f[p] <= g[p]
    BY <1>1, <2>2 DEF Cap
  <2>4. CapSum(now, j) = Sum(f) /\ CapSum(now, NoJob) = Sum(g)
    BY DEF CapSum
  <2> HIDE DEF f, g
  <2> QED
    BY <2>1, <2>3, <2>4, Sets, SumLess, SumInt
<1> QED
  BY <1>2, <1>3 DEF Bounded

\* The UPDATE that does not come concerns debts alone.
Undone(now, new, j) ==
  \A p \in Payout : \/ new[p] = now[p]
                    \/ p \notin Hand(j) /\ now[p].net < 0 /\ new[p].net < 0 /\ new[p].status = "PENDING"

LEMMA UndoneBooks ==
  ASSUME NEW now \in Rows, NEW new \in Rows, NEW j, NEW money, Context(now, j), Undone(now, new, j)
  PROVE  /\ Sound(now, j) => Sound(new, j)
         /\ Bounded(now, j, money) => Bounded(new, j, money)
         /\ ListsKeep(now, new)
<1>1. \A p \in Payout : now[p].net \in Int /\ new[p].net \in Int
  BY RowTypes
<1>2. \A p \in Payout : Cap(j, p, new[p]) = Cap(j, p, now[p])
  BY <1>1 DEF Undone, Cap
<1>3. CapSum(new, j) = CapSum(now, j)
  BY <1>2 DEF CapSum
<1>4. Blocks(now) => Blocks(new)
  BY DEF Undone, Blocks
<1>5. Desk(j, now) => Desk(j, new)
  <2>1. Working(j) => \A p \in {j.row} \cup DOMAIN j.covered : new[p] = now[p]
    BY DEF Undone, Hand, Context
  <2> QED
    BY <2>1 DEF Desk
<1>6. ListsKeep(now, new)
  BY <1>1 DEF Undone, ListsKeep
<1> QED
  BY <1>3, <1>4, <1>5, <1>6 DEF Sound, Bounded

LEMMA DroppedBooks ==
  ASSUME NEW now \in Rows, NEW new \in Rows, NEW money \in Int,
         \A p \in Payout : \/ new[p] = now[p] \/ SameEntry(now[p], new[p]) \/ (Neutral(new[p]) /\ Neutral(now[p]))
                           \/ (new[p].status = "NONE" /\ now[p].net <= 0)
  PROVE  /\ Sound(now, NoJob) => Sound(new, NoJob)
         /\ Bounded(now, NoJob, money) => Bounded(new, NoJob, money)
<1>1. ~Working(NoJob)
  BY NoJobOK DEF Working
<1>2. Sound(now, NoJob) => Sound(new, NoJob)
  BY <1>1 DEF Sound, Desk, Blocks, SameEntry, Neutral
<1>3. CapSum(now, NoJob) <= CapSum(new, NoJob) /\ CapSum(now, NoJob) \in Int /\ CapSum(new, NoJob) \in Int
  <2> DEFINE f == [p \in Payout |-> Cap(NoJob, p, now[p])]
             g == [p \in Payout |-> Cap(NoJob, p, new[p])]
  <2>1. f \in [Payout -> Int] /\ g \in [Payout -> Int]
    BY RowTypes
  <2>2. \A p \in Payout : now[p].net \in Int /\ new[p].net \in Int
    BY RowTypes
  <2>3. \A p \in Payout : f[p] <= g[p]
    BY <2>2 DEF Cap, SameEntry, SameWorth, Neutral
  <2>4. CapSum(now, NoJob) = Sum(f) /\ CapSum(new, NoJob) = Sum(g)
    BY DEF CapSum
  <2> HIDE DEF f, g
  <2> QED
    BY <2>1, <2>3, <2>4, Sets, SumLess, SumInt
<1> QED
  BY <1>2, <1>3 DEF Bounded

LEMMA CrashLedger ==
  ASSUME Base, Amounts, Amounts', Ledger, Crash
  PROVE  Ledger'
<1> DEFINE now == Now(payout, edit)
           new == Now(payout', edit')
           j == Current(job)
<1>1. /\ interrupted' = TRUE /\ UNCHANGED <<payout, paid>> /\ paid \in Int
      /\ now \in Rows /\ new \in Rows /\ Context(now, j) /\ Sound(now, j) /\ Bounded(now, j, paid)
      /\ \A p \in Hand(j) : p \in Payout /\ InHand(p)
  BY NowRows, HandRows DEF Crash, Amounts, RowsGood, CopiesGood, RestTyped, Ledger, Books
<1>2. /\ edit' \in {edit, NoEdit} /\ (edit' = NoEdit \/ job' # job)
      /\ \/ edit' = NoEdit /\ UNCHANGED job /\ (DOMAIN edit.copies = {} \/ (edit.follow = "none" /\ edit.worker = Nobody))
         \/ \E w \in Worker : /\ job[w].pc # "idle" /\ job' = [job EXCEPT ![w] = NoJob]
                              /\ UNCHANGED edit \/ (edit' = NoEdit /\ edit.worker = w)
  <2>1. \A w \in Worker : job[w].pc # "idle" => [job EXCEPT ![w] = NoJob] # job
    BY NoJobOK DEF Base, JobsOK
  <2> QED
    BY <2>1 DEF Crash, Forgets
<1>3. CASE DOMAIN edit.copies = {} /\ edit' = NoEdit /\ UNCHANGED job
  <2>1. \A p \in Payout : new[p] = payout[p] /\ now[p] = After(payout[p], edit.follow, edit.of)
    BY <1>1, <1>3, NowIs, NoFollow DEF SavedRow
  <2>2. \A p \in Hand(j) : payout[p].settledBy = Nobody
    BY DEF Ledger, Follows, Current, Hand, NoJob, Working
  <2>3. edit.follow \in {"settle", "free"} => edit.of \in Payout
    BY DEF Ledger, Follows
  <2> HIDE DEF now, new, j
  <2>4. Undone(now, new, j)
    <3> SUFFICES ASSUME NEW p \in Payout, new[p] # now[p]
                 PROVE  p \notin Hand(j) /\ now[p].net < 0 /\ new[p].net < 0 /\ new[p].status = "PENDING"
      BY DEF Undone
    <3>1. payout[p].status = "PENDING" /\ payout[p].settledBy = edit.of /\ edit.follow \in {"settle", "free"}
      BY <2>1 DEF After
    <3>2. payout[p].settledBy # Nobody
      BY <2>3, <3>1, Sets
    <3>3. Good(payout[p])
      BY DEF Amounts, RowsGood
    <3>4. payout[p].net < 0 /\ now[p].net = payout[p].net
      BY <2>1, <3>2, <3>3, AfterKeeps DEF Good, SameWorth
    <3> QED
      BY <2>1, <2>2, <3>1, <3>2, <3>4
  <2>5. Sound(new, j) /\ Bounded(new, j, paid) /\ ListsKeep(now, new)
    BY <1>1, <2>4, UndoneBooks
  <2>6. Books'
    BY <1>1, <1>3, <2>5 DEF Books, new, j
  <2>7. Follows'
    BY <1>1, <1>3, NoFollow DEF Ledger, Follows
  <2>8. Lists'
    BY <1>3, <2>5, ListsStay DEF Ledger, now, new
  <2>9. Unsaved'
    BY <1>1, <1>3, NoEditOK, UnsavedEnds DEF Ledger, Unsaved
  <2> QED
    BY <2>6, <2>7, <2>8, <2>9 DEF Ledger
<1>4. ASSUME edit' = NoEdit, edit.follow \notin {"settle", "free"}
      PROVE  /\ \A p \in Payout : new[p] = payout[p]
             /\ \A p \in Payout : \/ new[p] = now[p] \/ SameEntry(now[p], new[p])
                                  \/ (~InHand(p) /\ Neutral(new[p]) /\ Neutral(now[p]))
                                  \/ (edit.worker # Nobody /\ new[p].status = "NONE" /\ now[p].net <= 0)
  <2>1. \A p \in Payout : new[p] = payout[p] /\ now[p] = SavedRow(payout, edit.copies, p)
    BY <1>1, <1>4, NowIs, NoFollow
  <2>2. \A p \in DOMAIN edit.copies : ~InHand(p)
    BY DEF Base, CopiesOK
  <2> HIDE DEF now, new
  <2> QED
    BY <1>4, <2>1, <2>2 DEF SavedRow, Ledger, Unsaved
<1>5. CASE edit' = NoEdit /\ UNCHANGED job /\ edit.follow = "none" /\ edit.worker = Nobody
  <2>1. /\ \A p \in Payout : new[p] = payout[p]
        /\ \A p \in Payout : SameEntry(new[p], now[p]) \/ (~InHand(p) /\ Neutral(new[p]) /\ Neutral(now[p]))
    BY <1>4, <1>5 DEF SameEntry, SameWorth
  <2> HIDE DEF now, new, j
  <2>2. Quiet(now, new, j)
    BY <1>1, <2>1 DEF Quiet
  <2>3. Sound(new, j) /\ Bounded(new, j, paid)
    BY <1>1, <2>2, QuietBooks
  <2>4. Books'
    BY <1>1, <1>5, <2>3 DEF Books, new, j
  <2>5. Follows'
    BY <1>1, <1>5, NoFollow DEF Ledger, Follows
  <2>6. Lists'
    BY <1>5, <2>1 DEF Ledger, Unsaved, Lists, ListGood, new
  <2>7. Unsaved'
    BY <1>1, <1>5, NoEditOK, UnsavedEnds DEF Ledger, Unsaved
  <2> QED
    BY <2>4, <2>5, <2>6, <2>7 DEF Ledger
<1>6. ASSUME NEW w \in Worker, job[w].pc # "idle", job' = [job EXCEPT ![w] = NoJob], UNCHANGED edit \/ (edit' = NoEdit /\ edit.worker = w)
      PROVE  Ledger'
  <2>1. \A v \in Worker : job'[v].pc = "idle"
    BY <1>6, NoJobOK DEF Base, JobsOK, OneWorker
  <2>2. \A v \in Worker : ~Working(job'[v])
    BY <2>1 DEF Working
  <2>3. Current(job') = NoJob
    BY <2>2, CurrentNone
  <2>4. edit' = NoEdit => edit = NoEdit \/ edit.follow \notin {"settle", "free"}
    BY <1>6, PayoutAssumption DEF Ledger, Unsaved, Worker
  <2>5. Sound(new, NoJob) /\ Bounded(new, NoJob, paid)
    <3>1. Sound(now, NoJob) /\ Bounded(now, NoJob, paid)
      BY <1>1, StopsBooks
    <3>2. CASE UNCHANGED edit
      <4>1. new = now
        BY <1>1, <3>2
      <4> QED
        BY <3>1, <4>1
    <3>3. CASE edit' = NoEdit /\ edit.follow \notin {"settle", "free"}
      <4>1. \A p \in Payout : \/ new[p] = now[p] \/ SameEntry(now[p], new[p]) \/ (Neutral(new[p]) /\ Neutral(now[p]))
                              \/ (new[p].status = "NONE" /\ now[p].net <= 0)
        BY <1>4, <3>3
      <4> HIDE DEF now, new
      <4> QED
        BY <1>1, <3>1, <4>1, DroppedBooks
    <3> QED
      BY <1>6, <2>4, <3>2, <3>3
  <2> HIDE DEF now, new, j
  <2>6. Books'
    BY <1>1, <2>3, <2>5 DEF Books, new
  <2>7. Follows'
    <3>1. \A v \in Worker : Hand(job'[v]) = {}
      BY <2>2 DEF Hand
    <3>2. \A p : ~InHand(p)'
      BY <2>1 DEF InHand
    <3>3. edit'.follow \in {"settle", "free"} => edit'.of \in Payout /\ edit' = edit
      BY <1>6, NoFollow DEF Ledger, Follows
    <3> QED
      BY <3>1, <3>2, <3>3 DEF Follows, InHand
  <2>8. Lists'
    BY <2>1 DEF Lists, ListGood
  <2>9. Unsaved'
    <3>1. \A v \in Worker : ListGood(job'[v], payout')
      BY <2>1 DEF ListGood
    <3>2. CASE UNCHANGED edit
      BY <1>1, <3>1, <3>2 DEF Ledger, Unsaved
    <3>3. CASE edit' = NoEdit
      BY <3>1, <3>3, NoEditOK, UnsavedEnds DEF Ledger
    <3> QED
      BY <1>6, <3>2, <3>3
  <2> QED
    BY <2>6, <2>7, <2>8, <2>9 DEF Ledger
<1> QED
  BY <1>2, <1>3, <1>5, <1>6

-----------------------------------------------------------------------------
(* The accounts, from the beginning *)

LEMMA LedgerInit == Init => Ledger
<1> SUFFICES ASSUME Init PROVE Ledger
  OBVIOUS
<1>1. \A w \in Worker : job[w] = NoJob /\ job[w].pc = "idle" /\ ~Working(job[w])
  BY NoJobOK DEF Init, Working
<1>2. Current(job) = NoJob /\ ~Working(NoJob) /\ NoJob.pc = "idle" /\ NoJob.copy = NoRow
  BY <1>1, CurrentNone, NoJobOK DEF NoJob
<1> DEFINE now == Now(payout, edit)
<1>3. \A p \in Payout : now[p] = NoRow
  BY NoFollow, NowIs DEF Init
<1>4. now \in Rows
  BY NoRowGood, NoEditOK, NowRows DEF Init
<1>5. NoRow.status = "NONE" /\ NoRow.settledBy = Nobody /\ NoRow.net = 0
  BY DEF NoRow
<1>6. Follows /\ Lists
  BY <1>1, NoFollow DEF Init, Follows, Hand, Lists, ListGood
<1> HIDE DEF now
<1>7. Sound(now, NoJob)
  BY <1>2, <1>3, <1>5 DEF Sound, Blocks, Desk
<1>8. Booked(now) = 0 /\ CapSum(now, NoJob) = 0
  <2> DEFINE f == [p \in Payout |-> Book(now[p])]
             g == [p \in Payout |-> Cap(NoJob, p, now[p])]
  <2>1. f \in [Payout -> Int] /\ g \in [Payout -> Int]
    BY <1>4, RowTypes
  <2>2. \A p \in Payout : f[p] = 0 /\ g[p] = 0
    BY <1>3, <1>5 DEF Book, Cap
  <2>3. Booked(now) = Sum(f) /\ CapSum(now, NoJob) = Sum(g)
    BY DEF Booked, CapSum
  <2> HIDE DEF f, g
  <2> QED
    BY <2>1, <2>2, <2>3, Sets, SumZero
<1>9. Balanced(now, NoJob, 0) /\ Bounded(now, NoJob, 0)
  <2>1. Orphans(now) /\ Reserves(now, NoJob)
    BY <1>3, <1>5 DEF Orphans, Reserves
  <2>2. Ahead(NoJob) = 0
    BY <1>2, <1>5 DEF Ahead
  <2> QED
    BY <1>8, <2>1, <2>2 DEF Balanced, Bounded
<1>10. Books
  BY <1>2, <1>7, <1>9 DEF Init, Books, now
<1>11. Unsaved
  BY <1>1, NoEditOK, NoFollow DEF Init, Unsaved, ListGood
<1> QED
  BY <1>6, <1>10, <1>11 DEF Ledger

LEMMA LedgerStep == Base /\ Amounts /\ Ledger /\ Balances /\ [Next]_vars => Ledger'
<1> SUFFICES ASSUME Base, Amounts, Ledger, Balances, [Next]_vars PROVE Ledger'
  OBVIOUS
<1>1. Amounts' /\ Apart
  BY AmountsStep DEF Balances, Exact
<1>2. CASE VerifyAccount \/ NewDay \/ NewDate \/ Postpone \/ AnnouncementLost \/ UNCHANGED vars
  <2>1. UNCHANGED <<payout, edit, job, paid, interrupted>>
    BY <1>2 DEF VerifyAccount, NewDay, NewDate, Postpone, AnnouncementLost, vars
  <2> QED
    BY <1>1, <2>1, SameSkips, IdleLedger
<1>3. CASE RescheduleArrives
  <2>1. Reschedules(event.end, Nobody) /\ UNCHANGED <<payout, job, paid, interrupted>>
    BY <1>3 DEF RescheduleArrives
  <2> QED
    BY <1>1, <2>1, SameSkips, RescheduleLedger
<1>4. CASE Continues
  <2>1. CASE Progress
    BY <1>1, <1>2, <1>3, <2>1, InPlaceSteps, BlockLedger, TransferLedger DEF Progress
  <2>2. ASSUME NEW o \in Order, CreatePayout(o) PROVE Ledger'
    BY <1>1, <2>2, SaleLedger
  <2>3. ASSUME NEW c \in Copy, CronFires(c) \/ CycleStep(c) PROVE Ledger'
    BY <1>1, <2>3, CronLedger, CycleLedger
  <2>4. ASSUME NEW w \in Worker, JobStep(w) PROVE Ledger'
    BY <1>1, <2>4, JobLedger
  <2> QED
    BY <1>1, <1>2, <1>4, <2>1, <2>2, <2>3, <2>4, SaveLedger, InPlaceSteps DEF Continues
<1>5. CASE Intervention
  <2>1. ASSUME NEW o \in Order, NEW h \in {1, 2}, RefundReduces(o, h) \/ RefundAdjusts(o, h) PROVE Ledger'
    BY <1>1, <2>1, ReduceLedger, AdjustLedger
  <2>2. ASSUME NEW o \in Order, OpenDispute(o) \/ ResolveDispute(o, "DECIDED") \/ ResolveDispute(o, "CLOSED") PROVE Ledger'
    BY <1>1, <2>2, DisputeLedger
  <2>3. ASSUME NEW p \in Payout, Block(p) \/ UnblockByAdmin(p) \/ RequestEarly(p) \/ ApproveEarly(p)
                                 \/ AdminPays(p) \/ ReleaseBankTransfer(p)
        PROVE  Ledger'
    BY <1>1, <2>3, BlockLedger, EarlyLedger, AdminLedger, TransferLedger
  <2> QED
    BY <1>1, <1>2, <1>5, <2>1, <2>2, <2>3, CrashLedger DEF Intervention
<1> QED
  BY <1>2, <1>4, <1>5 DEF Next

LEMMA LedgerBalances == Base /\ Amounts /\ Ledger => BooksBalance
<1> SUFFICES ASSUME Base, Amounts, Ledger, Rest
             PROVE  /\ paid <= Total({p \in Payout : payout[p].status \in {"COMPLETED", "PROCESSING", "FAILED"} /\ payout[p].net > 0})
                    /\ ~interrupted => paid = Total({p \in Payout : payout[p].status = "COMPLETED"})
  BY DEF BooksBalance
<1> DEFINE now == Now(payout, edit)
           P == {p \in Payout : payout[p].status \in {"COMPLETED", "PROCESSING", "FAILED"} /\ payout[p].net > 0}
           C == {p \in Payout : payout[p].status = "COMPLETED"}
           n == [p \in Payout |-> payout[p].net]
<1>1. Current(job) = NoJob
  <2>1. \A w \in Worker : ~Working(job[w])
    BY DEF Rest, Working
  <2> QED
    BY <2>1, CurrentNone
<1>2. \A p \in Payout : now[p] = payout[p]
  BY NowIs, NoFollow DEF Rest
<1>3. n \in [Payout -> Int] /\ IsFiniteSet(Payout)
  BY Sets DEF Amounts, RowsGood, Row
<1>4. Total(P) = CapSum(now, NoJob)
  <2>1. Total(P) = Sum([p \in P |-> n[p]])
    BY DEF Total
  <2>2. [p \in Payout |-> IF p \in P THEN n[p] ELSE 0] = [p \in Payout |-> Cap(NoJob, p, now[p])]
    BY <1>2, NoJobOK DEF Cap
  <2>3. P \in SUBSET Payout
    OBVIOUS
  <2> HIDE DEF P, n, now
  <2>4. Sum([p \in P |-> n[p]]) = Sum([p \in Payout |-> IF p \in P THEN n[p] ELSE 0])
    BY <1>3, <2>3, SumPart
  <2> QED
    BY <2>1, <2>2, <2>4 DEF CapSum
<1>5. Total(C) = Booked(now)
  <2>1. Total(C) = Sum([p \in C |-> n[p]])
    BY DEF Total
  <2>2. [p \in Payout |-> IF p \in C THEN n[p] ELSE 0] = [p \in Payout |-> Book(now[p])]
    BY <1>2 DEF Book
  <2>3. C \in SUBSET Payout
    OBVIOUS
  <2> HIDE DEF C, n, now
  <2>4. Sum([p \in C |-> n[p]]) = Sum([p \in Payout |-> IF p \in C THEN n[p] ELSE 0])
    BY <1>3, <2>3, SumPart
  <2> QED
    BY <2>1, <2>2, <2>4 DEF Booked
<1>6. Bounded(now, NoJob, paid) /\ (~interrupted => Balanced(now, NoJob, paid))
  BY <1>1 DEF Ledger, Books
<1>7. ~interrupted => paid = Booked(now)
  <2>1. Ahead(NoJob) = 0
    BY DEF Ahead, NoJob, NoRow
  <2>2. Booked(now) \in Int
    <3>1. now \in Rows
      BY NowRows DEF Amounts, RowsGood, CopiesGood
    <3> HIDE DEF now
    <3> QED
      BY <3>1, RowTypes
  <2> HIDE DEF now
  <2> QED
    BY <1>6, <2>1, <2>2 DEF Balanced
<1> HIDE DEF P, C, now
<1>8. paid <= Total(P) /\ (~interrupted => paid = Total(C))
  BY <1>4, <1>5, <1>6, <1>7 DEF Bounded
<1> QED
  BY <1>8 DEF P, C

\* Whenever no handler is half-way, what left for the organizer is what the
\* rows say was paid and settled; after an interruption it is never more than
\* the payouts that were handed over: for any orders whose shares cover their
\* fees, any number of copies, and whatever pending payout was blocked,
\* disputed, refused, cancelled, or refunded without being left below zero
\* during a cycle.
THEOREM BooksAlwaysBalance == Balances => (Spec => []BooksBalance)
<1> SUFFICES ASSUME Balances PROVE Spec => []BooksBalance
  OBVIOUS
<1>1. Init => Base /\ Amounts /\ Ledger
  BY BaseInit, AmountsInit, LedgerInit
<1>2. Base /\ Amounts /\ Ledger /\ [Next]_vars => (Base /\ Amounts /\ Ledger)'
  BY EveryMove, BaseStep, AmountsStep, LedgerStep DEF Balances, Exact
<1>3. Base /\ Amounts /\ Ledger => BooksBalance
  BY LedgerBalances
<1> QED
  BY <1>1, <1>2, <1>3, PTL DEF Spec
=============================================================================
