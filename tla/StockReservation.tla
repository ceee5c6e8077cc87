-------------------------- MODULE StockReservation --------------------------
(***************************************************************************)
(* From the basket to the order: order-service reserves places in          *)
(* event-service's counter, keeps the reservation as a Redis key           *)
(* reservation:<token> that is also listed, by its expiry, in a sorted     *)
(* set, and turns it into an order or gives the places back.               *)
(*                                                                         *)
(* A key that exists is the only proof that the places were neither turned *)
(* into an order nor given back, and DEL, which says whether it deleted    *)
(* something, is the only lock.  GET followed by DEL is one step, since    *)
(* only the DEL decides; so is DEL followed by ZREM, since a listed token  *)
(* without a key is only ever removed from the list.                       *)
(***************************************************************************)
EXTENDS QuotaCounter

CONSTANTS
  Token,      \* reservations (one per call of order.reserve_stock)
  Creator,    \* concurrent handlers of order.create (bounds the model)
  NoToken,    \* sentinel
  OwnEvent,   \* tokens whose buyer may be the organizer of the event
  Contended,  \* tokens whose order.create may overlap with another create, a
              \* release, or the expiry of the reservation
  Fragile     \* tokens for which calls get lost or processes stop

ASSUME TokensAssumption ==
  /\ IsFiniteSet(Token) /\ IsFiniteSet(Creator) /\ NoToken \notin Token
  /\ Creator \cap {"hand", "key"} = {}  \* they name other holders of places
  /\ OwnEvent \subseteq Token /\ Contended \subseteq Token /\ Fragile \subseteq Token
ASSUME QtyAssumption == Qty \in [Token -> [Category -> Nat]]

VARIABLES
  hand,     \* hand[t]: the handler that reserves t or gives it back
  key,      \* tokens whose key exists in Redis
  index,    \* tokens listed in reservations:pending_index
  expired,  \* tokens whose expires_at is past
  creator,  \* local state of each order.create
  orders    \* <<w, t>>: creator w committed an order for token t

vars == <<remaining, hand, key, index, expired, creator, orders>>

-----------------------------------------------------------------------------
Lines(t) == {c \in Category : Qty[t][c] > 0}

\* new -> take -> set -> index -> open (the buyer has the token) -> back -> over
\* when it succeeds; take -> undo -> refused when it does not.
Phase == {"new", "take", "undo", "refused", "set", "index", "open", "back", "over"}
HandState == [phase: Phase, todo: SUBSET Category, lines: SUBSET Category]

NoCreate == [token |-> NoToken, phase |-> "idle"]
CreatorState == [token: Token, phase: {"validated", "consumed"}] \cup {NoCreate}

TypeOK ==
  /\ remaining \in [Category -> Nat]
  /\ hand \in [Token -> HandState]
  /\ key \subseteq Token /\ index \subseteq Token /\ expired \subseteq Token
  /\ creator \in [Creator -> CreatorState]
  /\ orders \subseteq Creator \X Token

Init ==
  /\ remaining = Quota
  /\ hand = [t \in Token |-> [phase |-> "new", todo |-> {}, lines |-> {}]]
  /\ key = {} /\ index = {} /\ expired = {}
  /\ creator = [w \in Creator |-> NoCreate]
  /\ orders = {}

-----------------------------------------------------------------------------
(* order.reserve_stock *)

Reserve(t) ==
  /\ hand[t].phase = "new" /\ Lines(t) # {}
  /\ hand' = [hand EXCEPT ![t] = [phase |-> "take", todo |-> Lines(t), lines |-> {}]]
  /\ UNCHANGED <<remaining, key, index, expired, creator, orders>>

\* decrementAll(): the next item's quota.
ReserveLine(t, c) ==
  LET h == hand[t] IN
  /\ h.phase = "take" /\ c \in h.todo
  /\ DecrementQuota(c, Qty[t][c])
  /\ hand' = [hand EXCEPT ![t] = [phase |-> IF h.todo = {c} THEN "set" ELSE "take",
                                  todo |-> h.todo \ {c}, lines |-> h.lines \cup {c}]]
  /\ UNCHANGED <<key, index, expired, creator, orders>>

\* What a handler with these lines to give back, in phase p, goes on with.
GivingBack(lines, p) ==
  [phase |-> IF lines # {} THEN p ELSE IF p = "undo" THEN "refused" ELSE "over",
   todo |-> {}, lines |-> lines]

\* The call failed (too few places, sales closed, request lost) before it
\* changed the counter: the items taken so far are given back.
ReserveRefused(t, c) ==
  /\ hand[t].phase = "take" /\ c \in hand[t].todo
  /\ hand' = [hand EXCEPT ![t] = GivingBack(@.lines, "undo")]
  /\ UNCHANGED <<remaining, key, index, expired, creator, orders>>

\* The counter moved but the answer was lost.
ReserveReplyLost(t, c) ==
  /\ t \in Fragile
  /\ hand[t].phase = "take" /\ c \in hand[t].todo
  /\ DecrementQuota(c, Qty[t][c])
  /\ hand' = [hand EXCEPT ![t] = GivingBack(@.lines, "undo")]
  /\ UNCHANGED <<key, index, expired, creator, orders>>

\* SET reservation:<token> ... EX ttl + grace.
SetKey(t) ==
  /\ hand[t].phase = "set"
  /\ key' = key \cup {t}
  /\ hand' = [hand EXCEPT ![t] = [phase |-> "index", todo |-> {}, lines |-> {}]]
  /\ UNCHANGED <<remaining, index, expired, creator, orders>>

\* ZADD, then the token is returned.
IndexKey(t) ==
  /\ hand[t].phase = "index"
  /\ index' = index \cup {t}
  /\ hand' = [hand EXCEPT ![t].phase = "open"]
  /\ UNCHANGED <<remaining, key, expired, creator, orders>>

\* rollback(): one call per item; an error is ignored.
GiveBack(t, c) ==
  /\ hand[t].phase \in {"undo", "back"} /\ c \in hand[t].lines
  /\ RestoreQuota(c, Qty[t][c])
  /\ hand' = [hand EXCEPT ![t] = GivingBack(@.lines \ {c}, @.phase)]
  /\ UNCHANGED <<key, index, expired, creator, orders>>

GiveBackLost(t, c) ==
  /\ t \in Fragile
  /\ hand[t].phase \in {"undo", "back"} /\ c \in hand[t].lines
  /\ hand' = [hand EXCEPT ![t] = GivingBack(@.lines \ {c}, @.phase)]
  /\ UNCHANGED <<remaining, key, index, expired, creator, orders>>

\* order-service stops, or Redis answers SET or ZADD with an error, while t is
\* being reserved or given back; nothing resumes the handler.
HandlerStops(t) ==
  /\ t \in Fragile
  /\ hand[t].phase \in {"take", "undo", "set", "index", "back"}
  /\ hand' = [hand EXCEPT ![t] = [phase |-> IF @.phase \in {"index", "back"} THEN "over" ELSE "refused",
                                  todo |-> {}, lines |-> {}]]
  /\ UNCHANGED <<remaining, key, index, expired, creator, orders>>

-----------------------------------------------------------------------------
(* Expiry and release *)

Creating(t) == \E w \in Creator : creator[w].token = t
Undisturbed(t) == t \in Contended \/ ~Creating(t)

\* expires_at of a reservation passes.
Expire(t) ==
  /\ hand[t].phase = "set" \/ t \in key
  /\ t \notin expired /\ Undisturbed(t)
  /\ expired' = expired \cup {t}
  /\ UNCHANGED <<remaining, hand, key, index, creator, orders>>

\* The grace period is over too and the cron has not come: Redis drops the key.
KeyTimesOut(t) ==
  /\ t \in Fragile /\ t \in key \cap expired
  /\ key' = key \ {t}
  /\ UNCHANGED <<remaining, hand, index, expired, creator, orders>>

\* Mutant: DEL is not used as a lock, the value read by GET is enough.
DeleteKeyUnlocked(t) ==
  /\ key' = key \ {t} /\ index' = index \ {t}
  /\ hand' = [hand EXCEPT ![t] = GivingBack(Lines(t), "back")]

\* DEL deleted the key: the caller gives the places back.
DeleteKey(t) ==
  /\ t \in key
  /\ key' = key \ {t} /\ index' = index \ {t}
  /\ hand' = [hand EXCEPT ![t] = GivingBack(Lines(t), "back")]

\* order.release_reservation, by whoever has the token.
Release(t) ==
  /\ hand[t].phase = "open" /\ Undisturbed(t)
  /\ DeleteKey(t)
  /\ UNCHANGED <<remaining, expired, creator, orders>>

\* Mutant: the cron removes the tokens from the index first.
RestoreForgets(t) ==
  /\ t \in index \cap expired
  /\ index' = index \ {t}
  /\ UNCHANGED <<remaining, hand, key, expired, creator, orders>>

\* restoreExpiredReservations(), one token of the list ...
RestoreExpired(t) ==
  /\ t \in index \cap expired
  /\ DeleteKey(t)
  /\ UNCHANGED <<remaining, expired, creator, orders>>

\* ... or one whose key is already gone.
RestoreNothing(t) ==
  /\ t \in index \cap expired /\ t \notin key
  /\ index' = index \ {t}
  /\ UNCHANGED <<remaining, hand, key, expired, creator, orders>>

-----------------------------------------------------------------------------
(* order.create *)

\* validate(): the key is there and expires_at is not past.
CreateValidate(w, t) ==
  /\ creator[w] = NoCreate
  /\ hand[t].phase = "open" /\ t \in key \ expired /\ Undisturbed(t)
  /\ creator' = [creator EXCEPT ![w] = [token |-> t, phase |-> "validated"]]
  /\ UNCHANGED <<remaining, hand, key, index, expired, orders>>

\* A check, a remote read or an insertion fails: the transaction is rolled
\* back and the reservation stays.
CreateRefused(w) ==
  /\ creator[w].phase = "validated"
  /\ creator' = [creator EXCEPT ![w] = NoCreate]
  /\ UNCHANGED <<remaining, hand, key, index, expired, orders>>

\* The buyer organizes the event: release(), then 403.
CreateOwnEvent(w) ==
  LET t == creator[w].token IN
  /\ creator[w].phase = "validated" /\ t \in OwnEvent
  /\ IF t \in key THEN DeleteKey(t) ELSE UNCHANGED <<key, hand, index>>
  /\ creator' = [creator EXCEPT ![w] = NoCreate]
  /\ UNCHANGED <<remaining, expired, orders>>

\* Mutant: the token is left for the cron.
CreateConsumeKeepsKey(w) ==
  /\ creator[w].phase = "validated"
  /\ creator' = [creator EXCEPT ![w].phase = "consumed"]
  /\ UNCHANGED <<remaining, hand, key, index, expired, orders>>

\* The order and its items are inserted, then consume(): DEL (what it deleted
\* is not looked at) and ZREM ...
CreateConsume(w) ==
  LET t == creator[w].token IN
  /\ creator[w].phase = "validated"
  /\ key' = key \ {t} /\ index' = index \ {t}
  /\ creator' = [creator EXCEPT ![w].phase = "consumed"]
  /\ UNCHANGED <<remaining, hand, expired, orders>>

\* ... and the transaction commits.
CreateCommit(w) ==
  /\ creator[w].phase = "consumed"
  /\ orders' = orders \cup {<<w, creator[w].token>>}
  /\ creator' = [creator EXCEPT ![w] = NoCreate]
  /\ UNCHANGED <<remaining, hand, key, index, expired>>

\* order-service stops or the COMMIT fails.
CreateStops(w) ==
  /\ creator[w].token \in Fragile
  /\ creator' = [creator EXCEPT ![w] = NoCreate]
  /\ UNCHANGED <<remaining, hand, key, index, expired, orders>>

-----------------------------------------------------------------------------
TokenStep(t) ==
  \/ SetKey(t) \/ IndexKey(t) \/ RestoreExpired(t) \/ RestoreNothing(t)
  \/ \E c \in Category : ReserveLine(t, c) \/ ReserveRefused(t, c) \/ GiveBack(t, c)

CreatorStep(w) == CreateRefused(w) \/ CreateOwnEvent(w) \/ CreateConsume(w) \/ CreateCommit(w)

Failure ==
  \/ \E t \in Token : \/ HandlerStops(t) \/ KeyTimesOut(t)
                      \/ \E c \in Category : ReserveReplyLost(t, c) \/ GiveBackLost(t, c)
  \/ \E w \in Creator : CreateStops(w)

Next ==
  \/ \E t \in Token : TokenStep(t) \/ Reserve(t) \/ Expire(t) \/ Release(t)
  \/ \E w \in Creator : CreatorStep(w) \/ \E t \in Token : CreateValidate(w, t)
  \/ Failure

Spec == Init /\ [][Next]_vars

\* Handlers that have started go on and the cron runs every minute.  Time
\* passes whatever order.create does: SF, because Undisturbed makes an
\* uncontended expiry wait for the create in progress.
Fairness ==
  /\ \A t \in Token : WF_vars(TokenStep(t)) /\ SF_vars(Expire(t))
  /\ \A w \in Creator : WF_vars(CreatorStep(w))
FairSpec == Spec /\ Fairness

-----------------------------------------------------------------------------
(* Properties *)

\* Who keeps places of category c out of sale: a handler that has taken them
\* and has no key yet or no longer, a key, an order being committed, an order.
Holders(c) ==
  {<<"hand", t>> : t \in {u \in Token : c \in hand[u].lines}}
  \cup {<<"key", t>> : t \in {u \in key : c \in Lines(u)}}
  \cup {<<w, creator[w].token>> :
          w \in {v \in Creator : creator[v].phase = "consumed" /\ c \in Lines(creator[v].token)}}
  \cup {h \in orders : c \in Lines(h[2])}

Uses(T, c) == \E t \in T : c \in Lines(t)

\* The counter is exact: the places on sale and those kept by a handler, a key
\* or an order add up to the quota, whatever releases, crons, expiries and
\* refused purchases happen; where calls or processes fail, to no more than it.
LedgerBalances ==
  \A c \in Category : ~Uses(Contended, c) =>
    /\ remaining[c] + Cardinality(Places(Holders(c), c)) <= Quota[c]
    /\ ~Uses(Fragile, c) => remaining[c] + Cardinality(Places(Holders(c), c)) = Quota[c]

\* A reservation ends: its places go to an order or back on sale.
ReservationEnds ==
  \A t \in Token \ Fragile :
    t \in key ~> (hand[t].phase = "over" \/ \E w \in Creator : <<w, t>> \in orders)

\* Away from failures and overlapping creates, a reservation is an order that
\* has all its places or none: it waits, then is confirmed or cancelled, once.
Whole == {c \in Category : ~Uses(Fragile, c)}
InHand(c) == Places({<<"hand", t>> : t \in
  {u \in Token : hand[u].phase \in {"take", "undo", "back"} /\ c \in hand[u].lines}}, c)
Status(t) ==
  IF \E w \in Creator : <<w, t>> \in orders THEN "CONFIRMED"
  ELSE CASE hand[t].phase \in {"set", "index", "open"} -> "PENDING_PAYMENT"
         [] hand[t].phase \in {"back", "over"} -> "CANCELLED"
         [] OTHER -> "NONE"
Atomic == INSTANCE AtomicOrders WITH
  Order <- Token \ Fragile,
  Category <- Whole,
  Quota <- [c \in Whole |-> Quota[c]],
  Need <- [t \in Token \ Fragile |-> [c \in Whole |-> Qty[t][c]]],
  free <- [c \in Whole |-> remaining[c] + Cardinality(InHand(c))],
  status <- [t \in Token \ Fragile |-> Status(t)]
ImplementsAtomicOrders == Atomic!Spec
=============================================================================
