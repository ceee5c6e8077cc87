------------------------- MODULE DoorControlProofs -------------------------
(***************************************************************************)
(* For any number of devices, entries and tokens:                          *)
(*                                                                         *)
(* - a ticket whose rows are not overwritten enters once, although devices *)
(*   replay offline entries at any time, doors closed or not;              *)
(* - no entry made offline is forgotten before the server has judged it,   *)
(*   as long as a device judges no ticket while its queue is being         *)
(*   synchronised.  The answer of a synchronisation empties the whole      *)
(*   queue, whatever was sent, so what matters is that the answer covers   *)
(*   it: while a batch is under way, each entry of the queue has been      *)
(*   judged or is in the batch.                                            *)
(* - of the entries that devices made offline on a ticket whose rows are   *)
(*   not overwritten, one at most was accepted: any two the server has     *)
(*   judged include one reported as a conflict or an error.                *)
(***************************************************************************)
EXTENDS DoorControl, TicketHolderProofs

\* What the devices do to the ticket: what its services do, or an entry, which a
\* synchronisation makes whatever the time.
LEMMA DoorAtServer ==
  ASSUME Inv, [DoorNext]_all
  PROVE  [Next]_vars \/ \E k \in 1..MaxToken : Consume(k)
<1>1. ticket.token \in 1..MaxToken
  BY DEF Inv, TypeOK, TicketRow
<1>2. \A k : Consume(k) => k \in 1..MaxToken
  BY <1>1 DEF Consume, Consumable
<1>3. \A k : Scan(k) => Consume(k)
  BY DEF Scan
<1>4. ASSUME NEW d \in Device, DeviceStep(d) PROVE vars' = vars \/ \E k \in 1..MaxToken : Consume(k)
  <2>1. CASE ScanOnline(d)
    BY <1>2, <1>3, <2>1 DEF ScanOnline
  <2>2. CASE SyncEntry(d) \/ AdriftEntry(d)
    BY <1>2, <2>2 DEF SyncEntry, AdriftEntry, Replay
  <2>3. CASE SyncLost(d)
    BY <1>2, <2>3 DEF SyncLost
  <2> QED
    BY <1>4, <2>1, <2>2, <2>3 DEF DeviceStep, ScanRefused, JudgeOffline, RefreshPack, SyncStart,
                                  SyncAnswered, SyncGivenUp
<1>5. CASE ScanReplyLost
  BY <1>2, <1>3, <1>5 DEF ScanReplyLost
<1>6. CASE (Desk /\ UNCHANGED door) \/ ShowCode \/ CodeExpires \/ UNCHANGED all
  BY <1>6 DEF Next, ShowCode, CodeExpires, all
<1> QED
  BY <1>4, <1>5, <1>6 DEF DoorNext

LEMMA TicketInvStep == Inv /\ [DoorNext]_all => Inv'
  BY DoorAtServer, InvStep, InvDoor

LEMMA TicketTidyStep == Orderly /\ Inv /\ Tidy /\ [DoorNext]_all => Tidy'
  BY DoorAtServer, TidyStep, TidyDoor

\* With the devices, offline and online, the server lets the ticket in once.
THEOREM DoorLetsInOnce == Orderly => (DoorSpec => []EntersOnce)
<1> SUFFICES ASSUME Orderly PROVE DoorSpec => []EntersOnce
  OBVIOUS
<1>1. DoorInit => Inv /\ Tidy
  BY InvInit, TidyInit DEF DoorInit
<1>2. Inv /\ Tidy /\ [DoorNext]_all => Inv' /\ Tidy'
  BY TicketInvStep, TicketTidyStep
<1>3. Tidy => EntersOnce
  BY DEF Tidy, EnteredForGood, EntersOnce
<1> QED
  BY <1>1, <1>2, <1>3, PTL DEF DoorSpec

-----------------------------------------------------------------------------
Queued(d, n) == \E i \in 1..Len(queue[d]) : queue[d][i] = n
InBatch(d, n) == \E i \in 1..Len(batch[d]) : batch[d][i] = n

Queues ==
  /\ code \in 0..MaxToken
  /\ queue \in [Device -> Seq(1..MaxScans)] /\ batch \in [Device -> Seq(1..MaxScans)]
  /\ syncing \subseteq Device
  /\ let \in [Device -> Seq(1..MaxToken)]

\* What a device must not forget: each of its entries is judged or queued, and
\* each queued entry is judged or in the batch under way.
Remembers(d) ==
  /\ \A n \in 1..Len(let[d]) : Judged(d, n) \/ Queued(d, n)
  /\ d \in syncing => \A n \in 1..MaxScans : Queued(d, n) => Judged(d, n) \/ InBatch(d, n)

DoorInv == Inv /\ Queues /\ \A d \in Device : Remembers(d)

LEMMA DoorInvInit == DoorInit => DoorInv
  BY InvInit, Constants DEF DoorInit, DoorInv, Queues, Remembers

\* A step of one device leaves the others as they are.
LEMMA OneDevice ==
  ASSUME DoorInv, [DoorNext]_all, NEW d \in Device, Queues', Remembers(d)', log \subseteq log',
         \A e \in Device \ {d} : /\ queue'[e] = queue[e] /\ batch'[e] = batch[e]
                                 /\ let'[e] = let[e] /\ (e \in syncing' <=> e \in syncing)
  PROVE  DoorInv'
<1>1. ASSUME NEW e \in Device \ {d} PROVE Remembers(e)'
  <2>1. \A n : Judged(e, n) => Judged(e, n)'
    BY DEF Judged
  <2>2. \A n : (Queued(e, n)' <=> Queued(e, n)) /\ (InBatch(e, n)' <=> InBatch(e, n))
    BY DEF Queued, InBatch
  <2> QED
    BY <2>1, <2>2 DEF DoorInv, Remembers
<1>2. Inv'
  BY TicketInvStep DEF DoorInv
<1> QED
  BY <1>1, <1>2 DEF DoorInv

\* The steps that only touch the ticket, its code and the packs.
LEMMA DoorElsewhere ==
  ASSUME DoorInv, [DoorNext]_all, UNCHANGED <<queue, batch, syncing, let, log>>, code' \in 0..MaxToken
  PROVE  DoorInv'
<1>1. Inv'
  BY TicketInvStep DEF DoorInv
<1>2. ASSUME NEW d \in Device PROVE Remembers(d)'
  <2>1. \A n : /\ Judged(d, n)' <=> Judged(d, n)
               /\ Queued(d, n)' <=> Queued(d, n)
               /\ InBatch(d, n)' <=> InBatch(d, n)
    BY DEF Judged, Queued, InBatch
  <2> QED
    BY <2>1 DEF DoorInv, Remembers
<1>3. Queues'
  BY DEF DoorInv, Queues
<1> QED
  BY <1>1, <1>2, <1>3 DEF DoorInv

LEMMA DoorInvStep ==
  ASSUME "enqueue" \notin DeviceOverlaps, DoorInv, NEW d \in Device, DeviceStep(d)
  PROVE  DoorInv'
<1>1. /\ queue[d] \in Seq(1..MaxScans) /\ batch[d] \in Seq(1..MaxScans) /\ let[d] \in Seq(1..MaxToken)
      /\ Remembers(d) /\ MaxScans \in Nat /\ code \in 0..MaxToken /\ Queues
  BY DoorAssumption DEF DoorInv, Queues
<1>2. [DoorNext]_all
  BY DEF DoorNext
<1>3. CASE ScanOnline(d) \/ ScanRefused(d) \/ RefreshPack(d)
  BY <1>1, <1>2, <1>3, DoorElsewhere DEF ScanOnline, ScanRefused, RefreshPack
<1>4. CASE JudgeOffline(d)
  <2> DEFINE m == Len(let[d]) + 1
             q == Append(queue[d], m)
             k == Append(let[d], code)
  <2>1. /\ queue' = [queue EXCEPT ![d] = q] /\ let' = [let EXCEPT ![d] = k]
        /\ d \notin syncing /\ m \in 1..MaxScans /\ code \in 1..MaxToken
        /\ UNCHANGED <<batch, syncing, log, code>>
    BY <1>1, <1>4 DEF JudgeOffline
  <2>2. /\ q \in Seq(1..MaxScans) /\ Len(q) = Len(queue[d]) + 1 /\ q[Len(queue[d]) + 1] = m
        /\ \A i \in 1..Len(queue[d]) : q[i] = queue[d][i]
        /\ k \in Seq(1..MaxToken) /\ Len(k) = m
    BY <1>1, <2>1
  <2> HIDE DEF m, q, k
  <2>3. queue'[d] = q /\ let'[d] = k /\ Queues'
    BY <1>1, <2>1, <2>2 DEF Queues
  <2>4. /\ 1..Len(queue[d]) \subseteq 1..Len(q) /\ Len(queue[d]) + 1 \in 1..Len(q)
        /\ \A n : Queued(d, n)' <=> \E i \in 1..Len(q) : q[i] = n
    <3>1. Len(queue[d]) \in Nat
      BY <1>1
    <3>2. 1..Len(queue[d]) \subseteq 1..Len(q) /\ Len(queue[d]) + 1 \in 1..Len(q)
      BY <3>1, <2>2
    <3>3. ASSUME NEW n PROVE Queued(d, n)' <=> \E i \in 1..Len(q) : q[i] = n
      BY <2>3 DEF Queued
    <3> QED
      BY <3>2, <3>3
  <2>5. \A n : Queued(d, n) \/ n = m => Queued(d, n)'
    BY <2>2, <2>4 DEF Queued
  <2>6. \A n \in 1..m : n = m \/ n \in 1..Len(let[d])
    BY <1>1 DEF m
  <2>7. Remembers(d)'
    <3>1. \A x : Judged(d, x)' <=> Judged(d, x)
      BY <2>1 DEF Judged
    <3>2. 1..Len(let[d])' = 1..m /\ d \notin syncing'
      BY <2>1, <2>2, <2>3
    <3> QED
      BY <1>1, <2>5, <2>6, <3>1, <3>2 DEF Remembers
  <2> QED
    BY <1>1, <1>2, <2>1, <2>3, <2>7, OneDevice DEF Queues
<1>5. CASE SyncStart(d)
  <2>1. /\ batch' = [batch EXCEPT ![d] = queue[d]] /\ syncing' = syncing \cup {d}
        /\ UNCHANGED <<queue, let, log, code>>
    BY <1>5 DEF SyncStart
  <2>2. batch'[d] = queue'[d] /\ Queues'
    BY <1>1, <2>1 DEF Queues
  <2>3. Remembers(d)'
    BY <1>1, <2>1, <2>2 DEF Remembers, Judged, Queued, InBatch
  <2> QED
    BY <1>1, <1>2, <2>1, <2>2, <2>3, OneDevice DEF Queues
<1>6. CASE SyncEntry(d)
  <2>1. /\ batch' = [batch EXCEPT ![d] = Tail(batch[d])] /\ batch[d] # <<>>
        /\ \E o \in Outcome : log' = log \cup {<<d, Head(batch[d]), o>>}
        /\ UNCHANGED <<queue, syncing, let, code>>
    BY <1>6 DEF SyncEntry, Replay, Outcome
  <2>2. /\ Tail(batch[d]) \in Seq(1..MaxScans) /\ Len(Tail(batch[d])) = Len(batch[d]) - 1
        /\ \A i \in 1..(Len(batch[d]) - 1) : Tail(batch[d])[i] = batch[d][i + 1]
        /\ Len(batch[d]) \in Nat \ {0} /\ Head(batch[d]) = batch[d][1]
    <3>1. /\ Tail(batch[d]) \in Seq(1..MaxScans) /\ Len(Tail(batch[d])) = Len(batch[d]) - 1
          /\ \A i \in 1..Len(Tail(batch[d])) : Tail(batch[d])[i] = batch[d][i + 1]
      BY <1>1, <2>1, HeadTailProperties
    <3>2. Len(batch[d]) \in Nat \ {0}
      BY <1>1, <2>1, EmptySeq
    <3> QED
      BY <3>1, <3>2
  <2>3. batch'[d] = Tail(batch[d]) /\ Queues'
    BY <1>1, <2>1, <2>2 DEF Queues
  <2>4. \A x : Judged(d, x) \/ x = batch[d][1] => Judged(d, x)'
    BY <2>1, <2>2 DEF Judged
  <2>5. ASSUME NEW x, InBatch(d, x) PROVE x = batch[d][1] \/ InBatch(d, x)'
    <3>1. PICK i \in 1..Len(batch[d]) : batch[d][i] = x
      BY <2>5 DEF InBatch
    <3>2. CASE i = 1
      BY <2>2, <3>1, <3>2
    <3>3. CASE i # 1
      <4>1. i - 1 \in 1..(Len(batch[d]) - 1) /\ (i - 1) + 1 = i
        BY <2>2, <3>1, <3>3
      <4> QED
        BY <2>2, <2>3, <3>1, <4>1 DEF InBatch
    <3> QED
      BY <3>2, <3>3
  <2>6. Remembers(d)'
    <3>1. \A x : Queued(d, x)' <=> Queued(d, x)
      BY <2>1 DEF Queued
    <3> QED
      BY <1>1, <2>1, <2>4, <2>5, <3>1 DEF Remembers
  <2> QED
    BY <1>1, <1>2, <2>1, <2>3, <2>6, OneDevice DEF Queues
<1>7. CASE SyncAnswered(d)
  <2>1. /\ d \in syncing /\ batch[d] = <<>>
        /\ queue' = [queue EXCEPT ![d] = <<>>] /\ syncing' = syncing \ {d}
        /\ UNCHANGED <<batch, let, log, code>>
    BY <1>7 DEF SyncAnswered
  <2>2. Queues'
    BY <1>1, <2>1 DEF Queues
  <2>3. \A n \in 1..MaxScans : Queued(d, n) => Judged(d, n)
    BY <1>1, <2>1 DEF Remembers, InBatch
  <2>4. \A n : Queued(d, n) => n \in 1..MaxScans
    BY <1>1 DEF Queued
  <2>5. Remembers(d)'
    BY <1>1, <2>1, <2>3, <2>4 DEF Remembers, Judged
  <2> QED
    BY <1>1, <1>2, <2>1, <2>2, <2>5, OneDevice DEF Queues
<1>8. CASE SyncLost(d) \/ SyncGivenUp(d)
  <2>1. /\ batch' = [batch EXCEPT ![d] = <<>>] /\ syncing' = syncing \ {d}
        /\ UNCHANGED <<queue, let, log, code>>
    BY <1>8 DEF SyncLost, SyncGivenUp
  <2>2. Queues'
    BY <1>1, <2>1 DEF Queues
  <2>3. Remembers(d)'
    BY <1>1, <2>1 DEF Remembers, Judged, Queued
  <2> QED
    BY <1>1, <1>2, <2>1, <2>2, <2>3, OneDevice DEF Queues
<1>9. CASE AdriftEntry(d)
  <2>1. UNCHANGED <<queue, batch, syncing, let, code>> /\ log \subseteq log'
    BY <1>9 DEF AdriftEntry, Replay
  <2>2. Remembers(d)'
    BY <1>1, <2>1 DEF Remembers, Judged, Queued, InBatch
  <2> QED
    BY <1>1, <1>2, <2>1, <2>2, OneDevice DEF Queues
<1> QED
  BY <1>3, <1>4, <1>5, <1>6, <1>7, <1>8, <1>9 DEF DeviceStep

LEMMA DoorInvNext == "enqueue" \notin DeviceOverlaps /\ DoorInv /\ [DoorNext]_all => DoorInv'
<1> SUFFICES ASSUME "enqueue" \notin DeviceOverlaps, DoorInv, [DoorNext]_all PROVE DoorInv'
  OBVIOUS
<1>1. ticket.token \in 0..MaxToken /\ code \in 0..MaxToken /\ 0 \in 0..MaxToken
  BY Constants DEF DoorInv, Queues, Inv, TypeOK, TicketRow
<1>2. CASE (Desk /\ UNCHANGED door) \/ ShowCode \/ CodeExpires \/ ScanReplyLost \/ UNCHANGED all
  <2>1. UNCHANGED <<queue, batch, syncing, let, log>> /\ code' \in 0..MaxToken
    BY <1>1, <1>2 DEF ShowCode, CodeExpires, ScanReplyLost, door, all
  <2> QED
    BY <2>1, DoorElsewhere
<1> QED
  BY <1>2, DoorInvStep DEF DoorNext

\* An entry made offline stays in the queue until the server has judged it,
\* whatever is lost on the way.
THEOREM NoScanEverForgotten == "enqueue" \notin DeviceOverlaps => (DoorSpec => []NoScanForgotten)
<1> SUFFICES ASSUME "enqueue" \notin DeviceOverlaps PROVE DoorSpec => []NoScanForgotten
  OBVIOUS
<1>1. DoorInv => NoScanForgotten
  BY DEF DoorInv, Remembers, Queued, NoScanForgotten
<1> QED
  BY <1>1, DoorInvInit, DoorInvNext, PTL DEF DoorSpec

-----------------------------------------------------------------------------
(* What the devices let in twice is reported                                   *)
(*                                                                             *)
(* An entry is logged SYNCED only in the step that consumes the ticket, and    *)
(* the ticket is consumed once: two entries are never both accepted.           *)

Traced ==
  /\ Inv /\ Tidy
  /\ \A d, n : <<d, n, "SYNCED">> \in log => entries > 0
  /\ \A d, e, m, n : <<d, m, "SYNCED">> \in log /\ <<e, n, "SYNCED">> \in log => d = e /\ m = n

LEMMA TracedInit == DoorInit => Traced
  BY InvInit, TidyInit DEF DoorInit, Traced

\* What replaying an entry adds to the log.
LEMMA ReplayLogs ==
  ASSUME NEW d, NEW n, Replay(d, n)
  PROVE  \/ \E o \in {"CONFLICT", "ERROR"} : log' = log \cup {<<d, n, o>>} /\ UNCHANGED vars
         \/ log' = log \cup {<<d, n, "SYNCED">>} /\ Consume(let[d][n])
  BY DEF Replay

\* The services never forget that the ticket entered.
LEMMA EntriesGrow ==
  ASSUME Inv, [Next]_vars
  PROVE  entries' >= entries
<1>1. entries \in Nat
  BY DEF Inv, TypeOK
<1>2. entries' = entries \/ entries' = entries + 1
  <2>1. CASE Desk
    BY <2>1, DeskLetsNobodyIn
  <2>2. CASE \E k \in 1..MaxToken : Scan(k)
    BY <2>2 DEF Scan, Consume
  <2>3. CASE UNCHANGED vars
    BY <2>3 DEF vars
  <2> QED
    BY <2>1, <2>2, <2>3 DEF Next
<1> QED
  BY <1>1, <1>2

LEMMA TracedStep == Orderly /\ Traced /\ [DoorNext]_all => Traced'
<1> SUFFICES ASSUME Orderly, Traced, [DoorNext]_all PROVE Traced'
  OBVIOUS
<1>1. Inv' /\ Tidy' /\ entries \in Nat /\ entries' \in Nat /\ entries' <= 1
  <2>1. Inv' /\ Tidy'
    BY TicketInvStep, TicketTidyStep DEF Traced
  <2>2. entries \in Nat /\ entries' \in Nat
    BY <2>1 DEF Traced, Inv, TypeOK
  <2>3. entries' <= 1
    BY <2>1 DEF Tidy, EnteredForGood
  <2> QED
    BY <2>1, <2>2, <2>3
<1>2. ASSUME NEW d, NEW n, Replay(d, n) PROVE Traced'
  <2>1. CASE \E o \in {"CONFLICT", "ERROR"} : log' = log \cup {<<d, n, o>>} /\ UNCHANGED vars
    <3>1. \A e, m : <<e, m, "SYNCED">> \in log' => <<e, m, "SYNCED">> \in log
      BY <2>1
    <3> QED
      BY <1>1, <2>1, <3>1 DEF Traced, vars
  <2>2. CASE log' = log \cup {<<d, n, "SYNCED">>} /\ Consume(let[d][n])
    <3>1. entries' = entries + 1
      BY <2>2 DEF Consume
    <3>2. entries = 0
      BY <1>1, <3>1
    <3>3. \A e, m : <<e, m, "SYNCED">> \notin log
      <4>1. ~(entries > 0)
        BY <3>2
      <4>2. \A e, m : <<e, m, "SYNCED">> \in log => entries > 0
        BY DEF Traced
      <4> QED
        BY <4>1, <4>2
    <3>4. \A e, m : <<e, m, "SYNCED">> \in log' => e = d /\ m = n
      BY <2>2, <3>3
    <3> QED
      BY <1>1, <3>1, <3>4 DEF Traced
  <2> QED
    BY <1>2, <2>1, <2>2, ReplayLogs
<1>3. ASSUME UNCHANGED log PROVE Traced'
  <2>1. entries' >= entries
    <3>1. [Next]_vars \/ \E k \in 1..MaxToken : Consume(k)
      BY DoorAtServer DEF Traced
    <3>2. CASE \E k \in 1..MaxToken : Consume(k)
      BY <1>1, <3>2 DEF Consume
    <3>3. CASE [Next]_vars
      BY <3>3, EntriesGrow DEF Traced
    <3> QED
      BY <3>1, <3>2, <3>3
  <2> QED
    BY <1>1, <1>3, <2>1 DEF Traced
<1>4. ASSUME NEW d \in Device, DeviceStep(d) PROVE Traced'
  <2>1. CASE SyncEntry(d) \/ AdriftEntry(d)
    BY <1>2, <2>1 DEF SyncEntry, AdriftEntry
  <2> QED
    BY <1>3, <1>4, <2>1 DEF DeviceStep, ScanOnline, ScanRefused, JudgeOffline, RefreshPack,
                            SyncStart, SyncAnswered, SyncLost, SyncGivenUp
<1>5. CASE (Desk /\ UNCHANGED door) \/ ShowCode \/ CodeExpires \/ ScanReplyLost \/ UNCHANGED all
  BY <1>3, <1>5 DEF door, all, ShowCode, CodeExpires, ScanReplyLost
<1> QED
  BY <1>4, <1>5 DEF DoorNext

\* Of two offline entries of the ticket the server has judged, whatever devices
\* made them and however often they were sent, one at least is reported.
THEOREM DoubleEntriesTraced == Orderly => (DoorSpec => []DoubleEntryTraced)
<1> SUFFICES ASSUME Orderly PROVE DoorSpec => []DoubleEntryTraced
  OBVIOUS
<1>1. Traced => DoubleEntryTraced
  BY DEF Traced, DoubleEntryTraced, Judged, Reported, Outcome
<1> QED
  BY <1>1, TracedInit, TracedStep, PTL DEF DoorSpec
=============================================================================
