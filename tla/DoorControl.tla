---------------------------- MODULE DoorControl ----------------------------
(***************************************************************************)
(* The control devices at the door of an event, beside the services that   *)
(* keep the ticket (TicketHolder).  A device scans online; without network *)
(* it judges alone, from the pack of tickets it last downloaded, and       *)
(* queues what it let in, to be replayed by OfflineSyncService later.      *)
(***************************************************************************)
EXTENDS TicketHolder

CONSTANTS
  Device,
  MaxScans,      \* bound: offline entries of one device
  MaxEntries,    \* bound: offline entries of all devices
  MaxLosses,     \* bound: synchronisations that fail
  DeviceOverlaps \* which rare overlaps happen on a device, see below

\* "enqueue"  a ticket is let in offline while a synchronisation is running
DeviceOverlapKinds == {"enqueue"}

ASSUME DoorAssumption ==
  /\ MaxScans \in Nat \ {0} /\ {MaxEntries, MaxLosses} \subseteq Nat
  /\ DeviceOverlaps \subseteq DeviceOverlapKinds

VARIABLES
  code,    \* token of the QR code on a holder's screen, 0 when it expired
  pack,    \* pack[d]: token and status of the ticket in the local list
  queue,   \* queue[d]: offline entries not synchronised yet
  batch,   \* batch[d]: what a running synchronisation still has to replay
  adrift,  \* adrift[d]: what the server replays of a call d has given up
  syncing, \* devices with a synchronisation in progress
  losses,  \* failures left
  let,     \* let[d]: tokens let in offline by d, in order
  log      \* offline_sync_logs: device, number of the entry, outcome

door == <<code, pack, queue, batch, adrift, syncing, losses, let, log>>
all == <<vars, door>>

-----------------------------------------------------------------------------
Pack == [token: 0..MaxToken, status: TicketStatus \cup {"NONE"}]
NoPack == [token |-> 0, status |-> "NONE"]
ServerCopy == [token |-> ticket.token, status |-> ticket.status]

\* An entry is its number in let[d]: the token is there.
Outcome == {"SYNCED", "CONFLICT", "ERROR"}

\* The state of the devices is well formed.
DoorTypeOK ==
  /\ code \in 0..MaxToken
  /\ pack \in [Device -> Pack]
  /\ queue \in [Device -> Seq(1..MaxScans)] /\ batch \in [Device -> Seq(1..MaxScans)]
  /\ adrift \in [Device -> Seq(1..MaxScans)] /\ syncing \subseteq Device /\ losses \in 0..MaxLosses
  /\ \A d \in Device \ syncing : batch[d] = <<>>
  /\ let \in [Device -> Seq(1..MaxToken)]
  /\ log \subseteq Device \X (1..MaxScans) \X Outcome

DoorInit ==
  /\ Init
  /\ code = 0 /\ pack = [d \in Device |-> NoPack]
  /\ queue = [d \in Device |-> <<>>] /\ batch = [d \in Device |-> <<>>]
  /\ adrift = [d \in Device |-> <<>>] /\ syncing = {} /\ losses = MaxLosses /\ let = [d \in Device |-> <<>>] /\ log = {}

-----------------------------------------------------------------------------
\* The gateway shows the QR code of a usable ticket to its holder; the code is
\* signed for one rotation period.
ShowCode ==
  /\ Valid /\ code' = ticket.token
  /\ UNCHANGED <<vars, pack, queue, batch, adrift, syncing, losses, let, log>>
CodeExpires ==
  /\ code # 0 /\ code' = 0
  /\ UNCHANGED <<vars, pack, queue, batch, adrift, syncing, losses, let, log>>

UsedInPack(d) == IF pack[d] = NoPack THEN pack ELSE [pack EXCEPT ![d].status = "USED"]

\* handleCode online: the device also notes in its pack a ticket already used.
ScanOnline(d) ==
  /\ code # 0 /\ Scan(code)
  /\ pack' = UsedInPack(d)
  /\ UNCHANGED <<code, queue, batch, adrift, syncing, losses, let, log>>
ScanRefused(d) ==
  /\ code = ticket.token /\ DoorsAreOpen /\ ticket.status = "USED"
  /\ pack' = UsedInPack(d)
  /\ UNCHANGED <<vars, code, queue, batch, adrift, syncing, losses, let, log>>

\* The answer of an online scan is lost: the device goes on to judge alone.
ScanReplyLost ==
  /\ code # 0 /\ Scan(code)
  /\ UNCHANGED door

Made == {x \in Device \X (1..MaxScans) : x[2] <= Len(let[x[1]])}

\* judgeOffline: the local pack decides, the entry is queued and noted there.
JudgeOffline(d) ==
  /\ code # 0 /\ DoorsAreOpen
  /\ pack[d].token = code /\ pack[d].status = "SENT"
  /\ "enqueue" \in DeviceOverlaps \/ d \notin syncing
  /\ Len(let[d]) < MaxScans /\ Cardinality(Made) < MaxEntries  \* bounds
  /\ let' = [let EXCEPT ![d] = Append(@, code)]
  /\ queue' = [queue EXCEPT ![d] = Append(@, Len(let[d]) + 1)]
  /\ pack' = [pack EXCEPT ![d].status = "USED"]
  /\ UNCHANGED <<vars, code, batch, adrift, syncing, losses, log>>

\* refreshPack replaces the local list by the server's, entries waiting or not:
\* what the device let in is not in it.
RefreshPack(d) ==
  /\ pack[d] # ServerCopy /\ pack' = [pack EXCEPT ![d] = ServerCopy]
  /\ UNCHANGED <<vars, code, queue, batch, adrift, syncing, losses, let, log>>

\* syncQueue sends the queue, one synchronisation at a time ...
SyncStart(d) ==
  /\ d \notin syncing /\ queue[d] # <<>>
  /\ batch' = [batch EXCEPT ![d] = queue[d]] /\ syncing' = syncing \cup {d}
  /\ UNCHANGED <<vars, code, pack, queue, adrift, losses, let, log>>

\* Mutant: an entry of a ticket already used is taken for a replay of itself.
ReplayTrusted(d, n) ==
  LET k == let[d][n] IN
  /\ IF Consumable(k) THEN Consume(k) ELSE UNCHANGED vars
  /\ log' = log \cup {<<d, n, IF ticket.token = k /\ ticket.status \in {"SENT", "USED"} THEN "SYNCED" ELSE "ERROR">>}

\* Mutant: only successes and conflicts are logged.
ReplayUnlogged(d, n) ==
  LET k == let[d][n] IN
  /\ IF Consumable(k) THEN Consume(k) ELSE UNCHANGED vars
  /\ log' = IF Consumable(k) THEN log \cup {<<d, n, "SYNCED">>}
            ELSE IF ticket.token = k /\ ticket.status = "USED" THEN log \cup {<<d, n, "CONFLICT">>} ELSE log

\* An entry is replayed as a scan made at its time, then logged.
Replay(d, n) ==
  LET k == let[d][n]
      outcome == IF Consumable(k) THEN "SYNCED"
                 ELSE IF ticket.token = k /\ ticket.status = "USED" THEN "CONFLICT" ELSE "ERROR" IN
  /\ IF Consumable(k) THEN Consume(k) ELSE UNCHANGED vars
  /\ log' = log \cup {<<d, n, outcome>>}

\* ... syncBatch replays the entries one by one ...
SyncEntry(d) ==
  /\ d \in syncing /\ batch[d] # <<>>
  /\ Replay(d, Head(batch[d]))
  /\ batch' = [batch EXCEPT ![d] = Tail(@)]
  /\ UNCHANGED <<code, pack, queue, adrift, syncing, losses, let>>

\* ... the answer empties the queue, whatever it has become, and the pack is
\* downloaded again, if the network allows.
SyncAnswered(d) ==
  /\ d \in syncing /\ batch[d] = <<>>
  /\ queue' = [queue EXCEPT ![d] = <<>>] /\ syncing' = syncing \ {d}
  /\ \/ pack' = [pack EXCEPT ![d] = ServerCopy]
     \/ UNCHANGED pack
  /\ UNCHANGED <<vars, code, batch, adrift, losses, let, log>>

Fails == losses > 0 /\ losses' = losses - 1

\* Mutant: the queue is emptied even when the call fails.
SyncLostEmpties(d) ==
  /\ d \in syncing /\ Fails
  /\ queue' = [queue EXCEPT ![d] = <<>>]
  /\ batch' = [batch EXCEPT ![d] = <<>>] /\ syncing' = syncing \ {d}
  /\ UNCHANGED <<vars, code, pack, adrift, let, log>>

\* The call fails before it arrives, between two entries, between an entry and
\* its log, or its answer is lost: the queue is kept.
SyncLost(d) ==
  /\ d \in syncing /\ Fails
  /\ \/ UNCHANGED vars
     \/ batch[d] # <<>> /\ Consume(let[d][Head(batch[d])])
  /\ batch' = [batch EXCEPT ![d] = <<>>] /\ syncing' = syncing \ {d}
  /\ UNCHANGED <<code, pack, queue, adrift, let, log>>

\* The device loses the call, or its page is reloaded, and the server goes on.
\* Bound: one such call of a device at a time.
SyncGivenUp(d) ==
  /\ d \in syncing /\ Fails /\ batch[d] # <<>> /\ adrift[d] = <<>>
  /\ adrift' = [adrift EXCEPT ![d] = batch[d]]
  /\ batch' = [batch EXCEPT ![d] = <<>>] /\ syncing' = syncing \ {d}
  /\ UNCHANGED <<vars, code, pack, queue, let, log>>
AdriftEntry(d) ==
  /\ adrift[d] # <<>>
  /\ Replay(d, Head(adrift[d]))
  /\ adrift' = [adrift EXCEPT ![d] = Tail(@)]
  /\ UNCHANGED <<code, pack, queue, batch, syncing, losses, let>>

-----------------------------------------------------------------------------
DeviceStep(d) ==
  \/ ScanOnline(d) \/ ScanRefused(d) \/ JudgeOffline(d) \/ RefreshPack(d)
  \/ SyncStart(d) \/ SyncEntry(d) \/ SyncAnswered(d)
  \/ SyncLost(d) \/ SyncGivenUp(d) \/ AdriftEntry(d)

DoorNext ==
  \/ Desk /\ UNCHANGED door
  \/ ShowCode \/ CodeExpires \/ ScanReplyLost
  \/ \E d \in Device : DeviceStep(d)

\* The device tries again when the network is back or its page is reloaded, and
\* the server goes through a batch it has received; calls fail MaxLosses times.
DoorFairness ==
  \A d \in Device : WF_all(SyncStart(d)) /\ WF_all(SyncEntry(d)) /\ WF_all(SyncAnswered(d))

DoorSpec == DoorInit /\ [][DoorNext]_all /\ RequestsGoOn /\ DoorFairness

-----------------------------------------------------------------------------
Judged(d, n) == \E o \in Outcome : <<d, n, o>> \in log

\* No entry made offline is forgotten before the server has judged it.
NoScanForgotten ==
  \A d \in Device : \A n \in 1..Len(let[d]) :
    Judged(d, n) \/ \E i \in 1..Len(queue[d]) : queue[d][i] = n

\* The pack does not keep a device from letting a ticket in twice, and devices do
\* not know of each other; the server catches it: of two offline entries of the
\* ticket it has judged, one at least is reported as a conflict or an error.
Reported(d, n) == <<d, n, "CONFLICT">> \in log \/ <<d, n, "ERROR">> \in log
DoubleEntryTraced ==
  \A d, e \in Device : \A m \in 1..Len(let[d]), n \in 1..Len(let[e]) :
    <<d, m>> # <<e, n>> /\ Judged(d, m) /\ Judged(e, n) => Reported(d, m) \/ Reported(e, n)

\* Every offline entry ends up judged by the server.
OfflineScansJudged ==
  \A d \in Device, n \in 1..MaxScans : (Len(let[d]) >= n) ~> Judged(d, n)

=============================================================================
