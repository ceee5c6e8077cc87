----------------------- MODULE StockReservationProofs -----------------------
(***************************************************************************)
(* For any number of reservations, categories and concurrent order.create, *)
(* any quota and any failures: StockReservation keeps its types, and the   *)
(* ledger of the counter balances; for the reservations spared by failures *)
(* and overlapping creates, it implements AtomicOrders.                    *)
(*                                                                         *)
(* The balance rests on DEL being a lock: at any time one party at most    *)
(* keeps the places of a reservation -- the handler that takes them, the   *)
(* key, the order.create that has consumed the key, its order, or the      *)
(* handler that gives them back.  HandOK says it of the handler alone, for *)
(* every token; KeyOK and CreateOK of the others, for the tokens whose     *)
(* order.create is not overlapped: two of them would share one key.        *)
(***************************************************************************)
EXTENDS StockReservation, QuotaCounterProofs

-----------------------------------------------------------------------------
(* Who keeps the places of a reservation *)

\* The handler's phase says which lines it has taken.
HandOK(t) ==
  LET h == hand[t] IN
  /\ h.todo \cup h.lines \subseteq Lines(t)
  /\ h.phase = "take" => h.todo \cap h.lines = {} /\ h.todo \cup h.lines = Lines(t)
  /\ h.phase = "set" => h.lines = Lines(t)
  /\ h.phase \notin {"take", "undo", "set", "back"} => h.lines = {}

\* A key, a listed token or an order finds no handler at work.
KeyOK(t) ==
  /\ t \in key => hand[t].phase \in {"index", "open", "over"}
  /\ t \in index => hand[t].phase = "open"
  /\ \A w \in Creator : creator[w].token = t \/ <<w, t>> \in orders => hand[t].phase = "open"

\* One order.create at a time, the key before its DEL, and one order after it.
CreateOK(t) ==
  /\ \A w \in Creator : creator[w].token = t =>
       /\ t \notin expired
       /\ creator[w].phase = "validated" => t \in key
       /\ creator[w].phase = "consumed" => t \notin key
       /\ \A v \in Creator : <<v, t>> \notin orders /\ (creator[v].token = t => v = w)
  /\ \A w \in Creator : <<w, t>> \in orders => t \notin key /\ \A v \in Creator : <<v, t>> \in orders => v = w

Alone(t) == t \notin Contended => KeyOK(t) /\ CreateOK(t)
Inv == TypeOK /\ \A t \in Token : HandOK(t) /\ Alone(t)

LEMMA LinesType == \A t \in Token : Lines(t) \in SUBSET Category /\ \A c \in Category : Qty[t][c] \in Nat
  BY QtyAssumption DEF Lines

LEMMA InvInit == Init => Inv
<1> SUFFICES ASSUME Init PROVE Inv
  OBVIOUS
<1>1. TypeOK
  BY QuotaAssumption DEF Init, TypeOK, HandState, Phase, CreatorState
<1>2. \A t \in Token : HandOK(t) /\ Alone(t)
  BY TokensAssumption DEF Init, HandOK, Alone, KeyOK, CreateOK, NoCreate
<1> QED
  BY <1>1, <1>2 DEF Inv

\* What a handler goes on with.
LEMMA GivingBackOK ==
  ASSUME NEW L \in SUBSET Category, NEW p \in {"undo", "back"}
  PROVE  /\ GivingBack(L, p) \in HandState
         /\ GivingBack(L, p).lines = L /\ GivingBack(L, p).todo = {}
         /\ L # {} => GivingBack(L, p).phase = p
         /\ L = {} => GivingBack(L, p).phase = IF p = "undo" THEN "refused" ELSE "over"
  BY DEF GivingBack, HandState, Phase

\* A step of a handler that neither touches key nor index, nor enters or leaves
\* the phases in which there may be a key or an order.
LEMMA HandMoves ==
  ASSUME Inv, NEW t \in Token, NEW h \in HandState,
         hand' = [hand EXCEPT ![t] = h], remaining' \in [Category -> Nat],
         UNCHANGED <<key, index, expired, creator, orders>>,
         HandOK(t)', t \notin Contended => KeyOK(t)'
  PROVE  Inv'
<1>1. TypeOK'
  BY DEF Inv, TypeOK
<1>2. ASSUME NEW s \in Token, s # t PROVE HandOK(s)' /\ Alone(s)'
  BY <1>2 DEF Inv, TypeOK, HandOK, Alone, KeyOK, CreateOK, Lines
<1>3. Alone(t)'
  BY DEF Inv, Alone, CreateOK
<1> QED
  BY <1>1, <1>2, <1>3 DEF Inv

LEMMA InvReserve ==
  ASSUME Inv, NEW t \in Token,
         \/ Reserve(t) \/ IndexKey(t) \/ SetKey(t) \/ HandlerStops(t)
         \/ \E c \in Category : \/ ReserveLine(t, c) \/ ReserveRefused(t, c) \/ ReserveReplyLost(t, c)
                                \/ GiveBack(t, c) \/ GiveBackLost(t, c)
  PROVE  Inv'
<1>1. /\ hand[t] \in HandState /\ hand \in [Token -> HandState] /\ remaining \in [Category -> Nat]
      /\ HandOK(t) /\ (t \notin Contended => KeyOK(t) /\ CreateOK(t))
  BY DEF Inv, TypeOK, Alone
<1>2. Lines(t) \in SUBSET Category /\ \A c \in Category : Qty[t][c] \in Nat
  BY LinesType
<1>3. CASE Reserve(t)
  <2> DEFINE h == [phase |-> "take", todo |-> Lines(t), lines |-> {}]
  <2>1. h \in HandState /\ hand' = [hand EXCEPT ![t] = h] /\ remaining' = remaining
    BY <1>2, <1>3 DEF Reserve, HandState, Phase
  <2>2. HandOK(t)' /\ (t \notin Contended => KeyOK(t)')
    BY <1>1, <1>3 DEF Reserve, HandOK, KeyOK, Lines
  <2> QED
    BY <1>1, <1>3, <2>1, <2>2, HandMoves DEF Reserve
<1>4. ASSUME NEW c \in Category, ReserveLine(t, c) PROVE Inv'
  <2> DEFINE h == [phase |-> IF hand[t].todo = {c} THEN "set" ELSE "take",
                   todo |-> hand[t].todo \ {c}, lines |-> hand[t].lines \cup {c}]
  <2>1. h \in HandState /\ hand' = [hand EXCEPT ![t] = h]
    BY <1>1, <1>4 DEF ReserveLine, HandState, Phase
  <2>2. HandOK(t)' /\ (t \notin Contended => KeyOK(t)')
    BY <1>1, <1>4 DEF ReserveLine, HandOK, KeyOK, Lines
  <2>3. remaining' \in [Category -> Nat]
    BY <1>1, <1>2, <1>4, CounterOK DEF ReserveLine
  <2> QED
    BY <1>4, <2>1, <2>2, <2>3, HandMoves DEF ReserveLine
<1>5. ASSUME NEW c \in Category, ReserveRefused(t, c) \/ ReserveReplyLost(t, c) PROVE Inv'
  <2> DEFINE h == GivingBack(hand[t].lines, "undo")
  <2>1. hand[t].lines \in SUBSET Category
    BY <1>1 DEF HandState
  <2>2. /\ h \in HandState /\ h.lines = hand[t].lines /\ h.todo = {}
        /\ h.phase = IF hand[t].lines = {} THEN "refused" ELSE "undo"
    BY <2>1, GivingBackOK
  <2>3. hand' = [hand EXCEPT ![t] = h] /\ hand'[t] = h
    BY <1>1, <1>5 DEF ReserveRefused, ReserveReplyLost
  <2> HIDE DEF h
  <2>4. HandOK(t)' /\ (t \notin Contended => KeyOK(t)')
    BY <1>1, <1>5, <2>2, <2>3 DEF ReserveRefused, ReserveReplyLost, HandOK, KeyOK, Lines
  <2>5. remaining' \in [Category -> Nat]
    BY <1>1, <1>2, <1>5, CounterOK DEF ReserveRefused, ReserveReplyLost
  <2> QED
    BY <1>5, <2>2, <2>3, <2>4, <2>5, HandMoves DEF ReserveRefused, ReserveReplyLost
<1>6. ASSUME NEW c \in Category, GiveBack(t, c) \/ GiveBackLost(t, c) PROVE Inv'
  <2> DEFINE h == GivingBack(hand[t].lines \ {c}, hand[t].phase)
  <2>1. hand[t].lines \ {c} \in SUBSET Category /\ hand[t].phase \in {"undo", "back"}
    BY <1>1, <1>6 DEF HandState, GiveBack, GiveBackLost
  <2>2. /\ h \in HandState /\ h.lines = hand[t].lines \ {c} /\ h.todo = {}
        /\ h.lines # {} => h.phase = hand[t].phase
        /\ h.lines = {} => h.phase \in {"refused", "over"}
    BY <2>1, GivingBackOK
  <2>3. hand' = [hand EXCEPT ![t] = h] /\ hand'[t] = h
    BY <1>1, <1>6 DEF GiveBack, GiveBackLost
  <2> HIDE DEF h
  <2>4. HandOK(t)' /\ (t \notin Contended => KeyOK(t)')
    BY <1>1, <2>1, <2>2, <2>3, <1>6 DEF GiveBack, GiveBackLost, HandOK, KeyOK, Lines
  <2>5. remaining' \in [Category -> Nat]
    BY <1>1, <1>2, <1>6, CounterOK DEF GiveBack, GiveBackLost
  <2> QED
    BY <1>6, <2>2, <2>3, <2>4, <2>5, HandMoves DEF GiveBack, GiveBackLost
<1>7. CASE HandlerStops(t)
  <2> DEFINE h == [phase |-> IF hand[t].phase \in {"index", "back"} THEN "over" ELSE "refused",
                   todo |-> {}, lines |-> {}]
  <2>1. h \in HandState /\ hand' = [hand EXCEPT ![t] = h] /\ remaining' = remaining
    BY <1>1, <1>7 DEF HandlerStops, HandState, Phase
  <2>2. HandOK(t)' /\ (t \notin Contended => KeyOK(t)')
    BY <1>1, <1>7 DEF HandlerStops, HandOK, KeyOK, Lines
  <2> QED
    BY <1>1, <1>7, <2>1, <2>2, HandMoves DEF HandlerStops
<1>8. CASE SetKey(t) \/ IndexKey(t)
  <2>1. TypeOK'
    BY <1>1, <1>8 DEF SetKey, IndexKey, Inv, TypeOK, HandState, Phase
  <2>2. ASSUME NEW s \in Token, s # t PROVE HandOK(s)' /\ Alone(s)'
    BY <1>8, <2>2 DEF SetKey, IndexKey, Inv, TypeOK, HandOK, Alone, KeyOK, CreateOK, Lines
  <2>3. HandOK(t)'
    BY <1>1, <1>8 DEF SetKey, IndexKey, HandOK, Lines, HandState
  <2>4. Alone(t)'
    <3>1. t \notin Contended => \A w \in Creator : creator[w].token # t /\ <<w, t>> \notin orders
      BY <1>1, <1>8 DEF SetKey, IndexKey, KeyOK
    <3>2. CASE SetKey(t)
      BY <1>1, <3>1, <3>2 DEF SetKey, Alone, KeyOK, CreateOK
    <3>3. CASE IndexKey(t)
      BY <1>1, <3>1, <3>3 DEF IndexKey, Alone, KeyOK, CreateOK, HandState
    <3> QED
      BY <1>8, <3>2, <3>3
  <2> QED
    BY <2>1, <2>2, <2>3, <2>4 DEF Inv
<1> QED
  BY <1>3, <1>4, <1>5, <1>6, <1>7, <1>8

\* DEL deleted the key, and the caller gives the places back.
LEMMA InvDelete ==
  ASSUME Inv, NEW t \in Token, DeleteKey(t), UNCHANGED <<remaining, expired, orders>>,
         \/ creator' = creator /\ \/ ~Creating(t) \/ t \in Contended \/ t \in expired
         \/ \E w \in Creator : creator[w].token = t /\ creator' = [creator EXCEPT ![w] = NoCreate]
  PROVE  Inv'
<1>1. /\ hand[t] \in HandState /\ hand \in [Token -> HandState] /\ creator \in [Creator -> CreatorState]
      /\ HandOK(t) /\ (t \notin Contended => KeyOK(t) /\ CreateOK(t))
  BY DEF Inv, TypeOK, Alone
<1> DEFINE h == GivingBack(Lines(t), "back")
<1>2. /\ h \in HandState /\ h.lines = Lines(t) /\ h.todo = {}
      /\ Lines(t) # {} => h.phase = "back"
      /\ Lines(t) = {} => h.phase = "over"
  BY LinesType, GivingBackOK
<1>3. /\ hand' = [hand EXCEPT ![t] = h] /\ hand'[t] = h /\ t \in key
      /\ key' = key \ {t} /\ index' = index \ {t}
  BY <1>1 DEF DeleteKey
<1> HIDE DEF h
<1>4. NoCreate \in CreatorState /\ NoCreate.token = NoToken /\ NoToken \notin Token
  BY TokensAssumption DEF NoCreate, CreatorState
<1>5. creator' \in [Creator -> CreatorState]
  BY <1>1, <1>4
<1>6. TypeOK'
  BY <1>2, <1>3, <1>5 DEF Inv, TypeOK
<1>7. HandOK(t)'
  BY <1>2, <1>3 DEF HandOK, Lines
<1>8. \A w \in Creator : \/ creator'[w] = creator[w]
                         \/ creator'[w] = NoCreate /\ creator[w].token = t
  BY <1>1
<1>9. ASSUME NEW s \in Token, s # t PROVE HandOK(s)' /\ Alone(s)'
  <2>1. hand'[s] = hand[s] /\ HandOK(s) /\ Alone(s)
    BY <1>1, <1>3, <1>9 DEF Inv
  <2>2. \A w \in Creator : creator'[w].token = s => creator'[w] = creator[w]
    BY <1>4, <1>8
  <2>3. \A w \in Creator : creator[w].token = s => creator'[w] = creator[w]
    BY <1>4, <1>8, <1>9
  <2> QED
    BY <1>3, <1>9, <2>1, <2>2, <2>3 DEF HandOK, Alone, KeyOK, CreateOK, Lines
<1>10. ASSUME t \notin Contended PROVE KeyOK(t)' /\ CreateOK(t)'
  <2>1. \A w \in Creator : <<w, t>> \notin orders
    BY <1>1, <1>3, <1>10 DEF CreateOK
  <2>2. \A w \in Creator : creator'[w].token # t
    BY <1>1, <1>4, <1>8, <1>10 DEF CreateOK, Creating
  <2> QED
    BY <1>3, <2>1, <2>2 DEF KeyOK, CreateOK
<1> QED
  BY <1>6, <1>7, <1>9, <1>10 DEF Inv, Alone

LEMMA InvExpiry ==
  ASSUME Inv, NEW t \in Token,
         \/ Expire(t) \/ KeyTimesOut(t) \/ Release(t) \/ RestoreExpired(t) \/ RestoreNothing(t)
  PROVE  Inv'
<1>1. CASE Expire(t)
  <2>1. ASSUME NEW s \in Token PROVE HandOK(s)' /\ Alone(s)'
    BY <1>1, <2>1 DEF Expire, Undisturbed, Creating, Inv, HandOK, Alone, KeyOK, CreateOK, Lines
  <2> QED
    BY <1>1, <2>1 DEF Expire, Inv, TypeOK
<1>2. CASE KeyTimesOut(t)
  <2>1. ASSUME NEW s \in Token PROVE HandOK(s)' /\ Alone(s)'
    BY <1>2, <2>1 DEF KeyTimesOut, Inv, HandOK, Alone, KeyOK, CreateOK, Lines
  <2> QED
    BY <1>2, <2>1 DEF KeyTimesOut, Inv, TypeOK
<1>3. CASE RestoreNothing(t)
  <2>1. ASSUME NEW s \in Token PROVE HandOK(s)' /\ Alone(s)'
    BY <1>3, <2>1 DEF RestoreNothing, Inv, HandOK, Alone, KeyOK, CreateOK, Lines
  <2> QED
    BY <1>3, <2>1 DEF RestoreNothing, Inv, TypeOK
<1>4. CASE Release(t) \/ RestoreExpired(t)
  BY <1>4, InvDelete DEF Release, RestoreExpired, Undisturbed
<1> QED
  BY <1>1, <1>2, <1>3, <1>4

LEMMA InvCreate ==
  ASSUME Inv, NEW w \in Creator,
         \/ CreatorStep(w) \/ CreateStops(w)
         \/ \E t \in Token : CreateValidate(w, t)
  PROVE  Inv'
<1>1. /\ creator \in [Creator -> CreatorState] /\ creator[w] \in CreatorState
      /\ \A s \in Token : HandOK(s) /\ Alone(s)
      /\ NoCreate \in CreatorState /\ NoCreate.token = NoToken /\ NoCreate.phase = "idle"
      /\ NoToken \notin Token
  BY TokensAssumption DEF Inv, TypeOK, NoCreate, CreatorState
<1> DEFINE t == creator[w].token
<1>2. creator[w].phase # "idle" => t \in Token /\ creator[w].phase \in {"validated", "consumed"}
  BY <1>1 DEF CreatorState, NoCreate
<1> HIDE DEF t
<1>3. CASE CreateRefused(w) \/ CreateStops(w)
  <2>1. TypeOK'
    BY <1>1, <1>3 DEF CreateRefused, CreateStops, Inv, TypeOK
  <2>2. \A v \in Creator : creator'[v] = creator[v] \/ creator'[v] = NoCreate
    BY <1>1, <1>3 DEF CreateRefused, CreateStops
  <2>3. ASSUME NEW s \in Token PROVE HandOK(s)' /\ Alone(s)'
    <3>1. \A v \in Creator : creator'[v].token = s => creator'[v] = creator[v]
      BY <1>1, <2>2
    <3> QED
      BY <1>1, <1>3, <3>1 DEF CreateRefused, CreateStops, HandOK, Alone, KeyOK, CreateOK, Lines
  <2> QED
    BY <2>1, <2>3 DEF Inv
<1>4. CASE CreateOwnEvent(w) /\ t \in key
  <2>1. t \in Token /\ DeleteKey(t)
    BY <1>2, <1>4 DEF CreateOwnEvent, t
  <2> QED
    BY <1>4, <2>1, InvDelete DEF CreateOwnEvent, t
<1>5. CASE CreateOwnEvent(w) /\ t \notin key
  <2>1. TypeOK'
    BY <1>1, <1>5 DEF CreateOwnEvent, Inv, TypeOK, t
  <2>2. \A v \in Creator : creator'[v] = creator[v] \/ creator'[v] = NoCreate
    BY <1>1, <1>5 DEF CreateOwnEvent
  <2>3. ASSUME NEW s \in Token PROVE HandOK(s)' /\ Alone(s)'
    <3>1. \A v \in Creator : creator'[v].token = s => creator'[v] = creator[v]
      BY <1>1, <2>2
    <3> QED
      BY <1>1, <1>5, <3>1 DEF CreateOwnEvent, HandOK, Alone, KeyOK, CreateOK, Lines, t
  <2> QED
    BY <2>1, <2>3 DEF Inv
<1>6. CASE CreateConsume(w)
  <2>1. /\ creator'[w] = [token |-> t, phase |-> "consumed"] /\ t \in Token /\ creator[w].phase = "validated"
        /\ \A v \in Creator : v # w => creator'[v] = creator[v]
        /\ key' = key \ {t} /\ index' = index \ {t}
    BY <1>1, <1>2, <1>6 DEF CreateConsume, CreatorState, NoCreate, t
  <2>2. TypeOK'
    BY <1>1, <1>6, <2>1 DEF CreateConsume, Inv, TypeOK, CreatorState, NoCreate
  <2>3. ASSUME NEW s \in Token PROVE HandOK(s)' /\ Alone(s)'
    <3>1. HandOK(s)'
      BY <1>1, <1>6, <2>3 DEF CreateConsume, HandOK, Lines
    <3>2. \A v \in Creator : creator'[v].token = creator[v].token
      BY <2>1 DEF t
    <3>3. CASE s = t
      <4>1. /\ hand' = hand /\ expired' = expired /\ orders' = orders
            /\ s \notin key' /\ s \notin index' /\ creator[w].token = s
        BY <1>6, <2>1, <3>3 DEF CreateConsume, t
      <4>2. ASSUME s \notin Contended PROVE KeyOK(s) /\ CreateOK(s)
        BY <1>1, <4>2 DEF Alone
      <4>3. ASSUME s \notin Contended PROVE KeyOK(s)'
        BY <3>2, <4>1, <4>2, <4>3 DEF KeyOK
      <4>4. ASSUME s \notin Contended PROVE CreateOK(s)'
        <5>1. /\ s \notin expired
              /\ \A v \in Creator : <<v, s>> \notin orders /\ (creator[v].token = s => v = w)
          BY <4>1, <4>2, <4>4 DEF CreateOK
        <5>2. \A v \in Creator : <<v, s>> \notin orders' /\ (creator'[v].token = s => v = w)
          BY <3>2, <4>1, <5>1
        <5>3. creator'[w].phase = "consumed" /\ s \notin expired'
          BY <2>1, <4>1, <5>1
        <5> QED
          BY <4>1, <5>2, <5>3 DEF CreateOK
      <4> QED
        BY <3>1, <4>3, <4>4 DEF Alone
    <3>4. CASE s # t
      BY <1>1, <1>6, <2>1, <2>3, <3>1, <3>2, <3>4 DEF CreateConsume, Alone, KeyOK, CreateOK, t
    <3> QED
      BY <3>3, <3>4
  <2> QED
    BY <2>2, <2>3 DEF Inv
<1>7. CASE CreateCommit(w)
  <2>1. /\ creator'[w] = NoCreate /\ t \in Token /\ creator[w].phase = "consumed"
        /\ \A v \in Creator : v # w => creator'[v] = creator[v]
        /\ orders' = orders \cup {<<w, t>>}
    BY <1>1, <1>2, <1>7 DEF CreateCommit, t
  <2>2. TypeOK'
    BY <1>1, <1>7, <2>1 DEF CreateCommit, Inv, TypeOK
  <2>3. ASSUME NEW s \in Token PROVE HandOK(s)' /\ Alone(s)'
    BY <1>1, <1>7, <2>1 DEF CreateCommit, HandOK, Alone, KeyOK, CreateOK, Lines, t
  <2> QED
    BY <2>2, <2>3 DEF Inv
<1>8. ASSUME NEW u \in Token, CreateValidate(w, u) PROVE Inv'
  <2>1. /\ creator'[w] = [token |-> u, phase |-> "validated"] /\ creator[w] = NoCreate
        /\ \A v \in Creator : v # w => creator'[v] = creator[v]
    BY <1>1, <1>8 DEF CreateValidate
  <2>2. TypeOK'
    BY <1>1, <1>8 DEF CreateValidate, Inv, TypeOK, CreatorState
  <2>3. ASSUME NEW s \in Token PROVE HandOK(s)' /\ Alone(s)'
    <3>1. \A v \in Creator : <<v, s>> \in orders => s \notin key \/ s \in Contended
      BY <1>1, <2>3 DEF Alone, CreateOK
    <3>2. CASE s = u
      BY <1>1, <1>8, <2>1, <3>1, <3>2 DEF CreateValidate, Undisturbed, Creating, HandOK, Alone, KeyOK, CreateOK, Lines
    <3>3. CASE s # u
      BY <1>1, <1>8, <2>1, <2>3, <3>3 DEF CreateValidate, HandOK, Alone, KeyOK, CreateOK, Lines, NoCreate
    <3> QED
      BY <3>2, <3>3
  <2> QED
    BY <2>2, <2>3 DEF Inv
<1> QED
  BY <1>3, <1>4, <1>5, <1>6, <1>7, <1>8 DEF CreatorStep

LEMMA InvStep == Inv /\ [Next]_vars => Inv'
<1>1. ASSUME Inv, UNCHANGED vars PROVE Inv'
  BY <1>1 DEF vars, Inv, TypeOK, HandOK, Alone, KeyOK, CreateOK, Lines
<1> QED
  BY <1>1, InvReserve, InvExpiry, InvCreate DEF Next, TokenStep, Failure

LEMMA InvAlways == Spec => []Inv
  BY InvInit, InvStep, PTL DEF Spec

\* The variables of the reservation model keep their types: the counter is never
\* negative, whatever fails and whatever overlaps.
THEOREM TypeCorrect == Spec => []TypeOK
<1>1. Inv => TypeOK
  BY DEF Inv
<1> QED
  BY <1>1, InvAlways, PTL

-----------------------------------------------------------------------------
(* Who holds places of a category *)

Calm(c) == ~Uses(Contended, c)
Failing(c) == {t \in Fragile : c \in Lines(t)}

Holder == ({"hand", "key"} \cup Creator) \X Token
CreateHolds(w, t, c) ==
  c \in Lines(t) /\ (<<w, t>> \in orders \/ (creator[w].phase = "consumed" /\ creator[w].token = t))
Holds(h, c) ==
  CASE h[1] = "hand" -> c \in hand[h[2]].lines
    [] h[1] = "key" -> h[2] \in key /\ c \in Lines(h[2])
    [] OTHER -> CreateHolds(h[1], h[2], c)

\* The three kinds of holders of a token, one by one.
LEMMA HoldsIs ==
  ASSUME NEW t \in Token, NEW c
  PROVE  /\ Holds(<<"hand", t>>, c) <=> c \in hand[t].lines
         /\ Holds(<<"key", t>>, c) <=> t \in key /\ c \in Lines(t)
         /\ \A w \in Creator : Holds(<<w, t>>, c) <=> CreateHolds(w, t, c)
  BY TokensAssumption DEF Holds

LEMMA HoldsNext ==
  ASSUME NEW t \in Token, NEW c
  PROVE  /\ Holds(<<"hand", t>>, c)' <=> c \in hand'[t].lines
         /\ Holds(<<"key", t>>, c)' <=> t \in key' /\ c \in Lines(t)
         /\ \A w \in Creator : Holds(<<w, t>>, c)' <=> CreateHolds(w, t, c)'
  BY TokensAssumption DEF Holds, Lines

LEMMA HolderKinds ==
  ASSUME NEW h \in Holder
  PROVE  \E t \in Token : \/ h = <<"hand", t>>
                          \/ h = <<"key", t>>
                          \/ \E w \in Creator : h = <<w, t>>
  BY DEF Holder

LEMMA HoldersAre == Inv => \A c \in Category : Holders(c) = {h \in Holder : Holds(h, c)}
<1> SUFFICES ASSUME Inv, NEW c \in Category PROVE Holders(c) = {h \in Holder : Holds(h, c)}
  OBVIOUS
<1>1. /\ \A w \in Creator : creator[w].phase = "consumed" => creator[w].token \in Token
      /\ key \subseteq Token /\ orders \subseteq Creator \X Token
  BY DEF Inv, TypeOK, CreatorState, NoCreate
<1>2. ASSUME NEW h \in Holders(c) PROVE h \in Holder /\ Holds(h, c)
  <2>1. ASSUME NEW t \in Token, h = <<"hand", t>>, c \in hand[t].lines PROVE h \in Holder /\ Holds(h, c)
    BY <2>1, HoldsIs DEF Holder
  <2>2. ASSUME NEW t \in key, h = <<"key", t>>, c \in Lines(t) PROVE h \in Holder /\ Holds(h, c)
    <3>1. t \in Token
      BY <1>1
    <3> QED
      BY <2>2, <3>1, HoldsIs DEF Holder
  <2>3. ASSUME NEW w \in Creator, h = <<w, creator[w].token>>, creator[w].phase = "consumed",
               c \in Lines(creator[w].token)
        PROVE  h \in Holder /\ Holds(h, c)
    <3>1. creator[w].token \in Token /\ CreateHolds(w, creator[w].token, c)
      BY <1>1, <2>3 DEF CreateHolds
    <3> QED
      BY <2>3, <3>1, HoldsIs DEF Holder
  <2>4. CASE h \in orders /\ c \in Lines(h[2])
    <3>1. PICK w \in Creator, t \in Token : h = <<w, t>>
      BY <1>1, <2>4
    <3>2. CreateHolds(w, t, c)
      BY <2>4, <3>1 DEF CreateHolds
    <3> QED
      BY <3>1, <3>2, HoldsIs DEF Holder
  <2> QED
    BY <1>2, <2>1, <2>2, <2>3, <2>4 DEF Holders
<1>3. ASSUME NEW h \in Holder, Holds(h, c) PROVE h \in Holders(c)
  <2>1. PICK t \in Token : \/ h = <<"hand", t>>
                           \/ h = <<"key", t>>
                           \/ \E w \in Creator : h = <<w, t>>
    BY HolderKinds
  <2>2. CASE h = <<"hand", t>>
    BY <1>3, <2>2, HoldsIs DEF Holders
  <2>3. CASE h = <<"key", t>>
    BY <1>3, <2>3, HoldsIs DEF Holders
  <2>4. ASSUME NEW w \in Creator, h = <<w, t>> PROVE h \in Holders(c)
    <3>1. CreateHolds(w, t, c)
      BY <1>3, <2>4, HoldsIs
    <3>2. CASE <<w, t>> \in orders
      BY <2>4, <3>1, <3>2 DEF Holders, CreateHolds
    <3>3. CASE creator[w].phase = "consumed" /\ creator[w].token = t
      <4>1. w \in {v \in Creator : creator[v].phase = "consumed" /\ c \in Lines(creator[v].token)}
        BY <3>1, <3>3 DEF CreateHolds
      <4>2. h = <<w, creator[w].token>>
        BY <2>4, <3>3
      <4> QED
        BY <4>1, <4>2 DEF Holders
    <3> QED
      BY <3>1, <3>2, <3>3 DEF CreateHolds
  <2> QED
    BY <2>1, <2>2, <2>3, <2>4
<1> QED
  BY <1>2, <1>3

LEMMA HoldersAreNext == Inv' => \A c \in Category : Holders(c)' = {h \in Holder : Holds(h, c)'}
<1>1. (Inv => \A c \in Category : Holders(c) = {h \in Holder : Holds(h, c)})'
  BY HoldersAre, PTL
<1> QED
  BY <1>1

LEMMA HolderCountable ==
  ASSUME NEW c \in Category, NEW H \in SUBSET Holder
  PROVE  Countable(H, c)
<1>1. IsFiniteSet({"hand", "key"} \cup Creator) /\ IsFiniteSet(Token)
  <2>1. IsFiniteSet(Creator \cup {"hand"})
    BY TokensAssumption, FS_AddElement
  <2>2. IsFiniteSet((Creator \cup {"hand"}) \cup {"key"})
    BY <2>1, FS_AddElement
  <2>3. (Creator \cup {"hand"}) \cup {"key"} = {"hand", "key"} \cup Creator
    OBVIOUS
  <2> QED
    BY <2>2, <2>3, TokensAssumption
<1>2. IsFiniteSet(Holder)
  BY <1>1, FS_Product DEF Holder
<1> QED
  BY <1>2, FS_Subset, QtyAssumption DEF Countable, Holder

-----------------------------------------------------------------------------
(* Every action keeps, takes, gives back or passes on the places of a category *)

Keep(c) ==
  /\ \A h \in Holder : Holds(h, c)' <=> Holds(h, c)
  /\ remaining'[c] = remaining[c] \/ (Failing(c) # {} /\ remaining'[c] <= remaining[c])
TakeBy(h, c) ==
  /\ ~Holds(h, c)
  /\ \A g \in Holder : Holds(g, c)' <=> (Holds(g, c) \/ g = h)
  /\ remaining'[c] = remaining[c] - Qty[h[2]][c]
GiveBy(h, c) ==
  /\ Holds(h, c)
  /\ \A g \in Holder : Holds(g, c)' <=> (Holds(g, c) /\ g # h)
  /\ \/ RestoreQuota(c, Qty[h[2]][c])
     \/ Failing(c) # {} /\ remaining'[c] = remaining[c]
HandOver(g, h, c) ==
  /\ g[2] = h[2] /\ Holds(g, c) /\ ~Holds(h, c)
  /\ \A f \in Holder : Holds(f, c)' <=> ((Holds(f, c) /\ f # g) \/ f = h)
  /\ remaining'[c] = remaining[c]
Move(c) ==
  \/ Keep(c)
  \/ \E h \in Holder : TakeBy(h, c) \/ GiveBy(h, c)
  \/ \E g, h \in Holder : HandOver(g, h, c)

LEMMA MoveKeepsBalance ==
  ASSUME Inv, Inv', NEW c \in Category, Balance(Holders(c), c, Failing(c)), Move(c)
  PROVE  /\ remaining'[c] + Cardinality(Places(Holders(c)', c)) <= Quota[c]
         /\ Failing(c) = {} => remaining'[c] + Cardinality(Places(Holders(c)', c)) = Quota[c]
<1> DEFINE H == Holders(c)
           K == Holders(c)'
<1>1. /\ H = {h \in Holder : Holds(h, c)} /\ H \in SUBSET Holder
      /\ K = {h \in Holder : Holds(h, c)'} /\ K \in SUBSET Holder
  BY HoldersAre, HoldersAreNext
<1>2. Countable(H, c) /\ Countable(K, c)
  BY <1>1, HolderCountable
<1>3. remaining \in [Category -> Nat] /\ remaining'[c] \in Nat
  BY DEF Inv, TypeOK
<1>4. Balance(H, c, Failing(c))
  OBVIOUS
<1> HIDE DEF H, K
<1>5. Keep(c) => KeepPlaces(H, K, c, Failing(c))
  BY <1>1 DEF Keep, KeepPlaces
<1>6. \A h \in Holder : TakeBy(h, c) => TakePlaces(H, K, h, c)
  BY <1>1 DEF TakeBy, TakePlaces
<1>7. \A h \in Holder : GiveBy(h, c) => GivePlaces(H, K, h, c, Failing(c))
  BY <1>1 DEF GiveBy, GivePlaces
<1>8. \A g, h \in Holder : HandOver(g, h, c) => PassPlaces(H, K, g, h, c)
  BY <1>1 DEF HandOver, PassPlaces
<1>9. \/ KeepPlaces(H, K, c, Failing(c))
      \/ \E h : TakePlaces(H, K, h, c) \/ GivePlaces(H, K, h, c, Failing(c))
      \/ \E g, h : PassPlaces(H, K, g, h, c)
  BY <1>5, <1>6, <1>7, <1>8 DEF Move
<1>10. /\ remaining'[c] + Cardinality(Places(K, c)) <= Quota[c]
       /\ Failing(c) = {} => remaining'[c] + Cardinality(Places(K, c)) = Quota[c]
  BY <1>2, <1>3, <1>4, <1>9, MoveBalances
<1> QED
  BY <1>10 DEF K

\* A handler's step that leaves key, order.create and orders alone.
LEMMA HandChanges ==
  ASSUME Inv, NEW t \in Token, NEW k, NEW c \in Category,
         hand' = [hand EXCEPT ![t] = k], UNCHANGED <<key, creator, orders>>
  PROVE  /\ \A h \in Holder : h # <<"hand", t>> => (Holds(h, c)' <=> Holds(h, c))
         /\ Holds(<<"hand", t>>, c) <=> c \in hand[t].lines
         /\ Holds(<<"hand", t>>, c)' <=> c \in k.lines
         /\ <<"hand", t>> \in Holder
<1>1. hand'[t] = k /\ \A s \in Token : s # t => hand'[s] = hand[s]
  BY DEF Inv, TypeOK
<1>2. ASSUME NEW h \in Holder, h # <<"hand", t>> PROVE Holds(h, c)' <=> Holds(h, c)
  <2>1. PICK s \in Token : h = <<"hand", s>> \/ h = <<"key", s>> \/ \E w \in Creator : h = <<w, s>>
    BY HolderKinds
  <2>2. CASE h = <<"hand", s>>
    BY <1>1, <1>2, <2>2, HoldsIs, HoldsNext
  <2>3. CASE h = <<"key", s>>
    BY <2>3, HoldsIs, HoldsNext
  <2>4. ASSUME NEW w \in Creator, h = <<w, s>> PROVE Holds(h, c)' <=> Holds(h, c)
    <3>1. CreateHolds(w, s, c)' <=> CreateHolds(w, s, c)
      BY DEF CreateHolds, Lines
    <3>2. Holds(<<w, s>>, c)' <=> Holds(<<w, s>>, c)
      BY <3>1, HoldsIs, HoldsNext
    <3> QED
      BY <2>4, <3>2
  <2> QED
    BY <2>1, <2>2, <2>3, <2>4
<1> QED
  BY <1>1, <1>2, HoldsIs, HoldsNext DEF Holder

LEMMA CalmToken ==
  ASSUME Inv, NEW t \in Token, NEW c \in Category, Calm(c), c \in Lines(t)
  PROVE  /\ t \notin Contended /\ KeyOK(t) /\ CreateOK(t) /\ HandOK(t)
         /\ t \in Fragile => Failing(c) # {}
  BY DEF Calm, Uses, Inv, Alone, Failing

LEMMA MoveReserve ==
  ASSUME Inv, NEW c \in Category, Calm(c), NEW t \in Token,
         \/ Reserve(t) \/ IndexKey(t) \/ HandlerStops(t)
         \/ \E d \in Category : \/ ReserveLine(t, d) \/ ReserveRefused(t, d) \/ ReserveReplyLost(t, d)
                                \/ GiveBack(t, d) \/ GiveBackLost(t, d)
  PROVE  Move(c)
<1>1. /\ hand[t] \in HandState /\ HandOK(t) /\ remaining \in [Category -> Nat]
      /\ \A d \in Category : Qty[t][d] \in Nat
  BY LinesType DEF Inv, TypeOK
<1> DEFINE me == <<"hand", t>>
<1>2. CASE Reserve(t) \/ IndexKey(t)
  <2>1. PICK k : hand' = [hand EXCEPT ![t] = k] /\ k.lines = {}
    BY <1>1, <1>2 DEF Reserve, IndexKey, HandOK, HandState
  <2>2. hand[t].lines = {} /\ UNCHANGED <<key, creator, orders, remaining>>
    BY <1>1, <1>2 DEF Reserve, IndexKey, HandOK
  <2> QED
    BY <2>1, <2>2, HandChanges DEF Move, Keep
<1>3. ASSUME NEW d \in Category, ReserveLine(t, d) PROVE Move(c)
  <2> DEFINE n == [phase |-> IF hand[t].todo = {d} THEN "set" ELSE "take",
                   todo |-> hand[t].todo \ {d}, lines |-> hand[t].lines \cup {d}]
  <2>1. PICK k : hand' = [hand EXCEPT ![t] = k] /\ k.lines = hand[t].lines \cup {d}
    <3>1. hand' = [hand EXCEPT ![t] = n] /\ n.lines = hand[t].lines \cup {d}
      BY <1>3 DEF ReserveLine
    <3> QED
      BY <3>1
  <2>2. /\ d \notin hand[t].lines /\ UNCHANGED <<key, creator, orders>>
        /\ remaining' = [remaining EXCEPT ![d] = @ - Qty[t][d]]
    BY <1>1, <1>3 DEF ReserveLine, DecrementQuota, HandOK
  <2>3. CASE c = d
    <3>1. remaining'[c] = remaining[c] - Qty[me[2]][c]
      BY <1>1, <2>2, <2>3
    <3>2. TakeBy(me, c) /\ me \in Holder
      BY <2>1, <2>2, <2>3, <3>1, HandChanges DEF TakeBy
    <3> QED
      BY <3>2 DEF Move
  <2>4. CASE c # d
    BY <1>1, <2>1, <2>2, <2>4, HandChanges DEF Move, Keep
  <2> QED
    BY <2>3, <2>4
<1>4. ASSUME NEW d \in Category, ReserveRefused(t, d) \/ ReserveReplyLost(t, d) PROVE Move(c)
  <2>1. PICK k : hand' = [hand EXCEPT ![t] = k] /\ k.lines = hand[t].lines
    <3>1. hand[t].lines \in SUBSET Category
      BY <1>1 DEF HandState
    <3> QED
      BY <1>4, <3>1, GivingBackOK DEF ReserveRefused, ReserveReplyLost
  <2>2. UNCHANGED <<key, creator, orders>>
    BY <1>4 DEF ReserveRefused, ReserveReplyLost
  <2>3. remaining'[c] = remaining[c] \/ (Failing(c) # {} /\ remaining'[c] <= remaining[c])
    <3>1. CASE ReserveRefused(t, d)
      BY <3>1 DEF ReserveRefused
    <3>2. CASE ReserveReplyLost(t, d) /\ c # d
      BY <1>1, <3>2 DEF ReserveReplyLost, DecrementQuota
    <3>3. CASE ReserveReplyLost(t, d) /\ c = d
      <4>1. c \in Lines(t) /\ t \in Fragile
        BY <1>1, <3>3 DEF ReserveReplyLost, HandOK
      <4>2. remaining'[c] = remaining[c] - Qty[t][c]
        BY <1>1, <3>3 DEF ReserveReplyLost, DecrementQuota
      <4> QED
        BY <1>1, <4>1, <4>2 DEF Failing
    <3> QED
      BY <1>4, <3>1, <3>2, <3>3
  <2> QED
    BY <2>1, <2>2, <2>3, HandChanges DEF Move, Keep
<1>5. ASSUME NEW d \in Category, GiveBack(t, d) \/ GiveBackLost(t, d) PROVE Move(c)
  <2>1. PICK k : hand' = [hand EXCEPT ![t] = k] /\ k.lines = hand[t].lines \ {d}
    <3>1. hand[t].lines \ {d} \in SUBSET Category /\ hand[t].phase \in {"undo", "back"}
      BY <1>1, <1>5 DEF HandState, GiveBack, GiveBackLost
    <3> QED
      BY <1>5, <3>1, GivingBackOK DEF GiveBack, GiveBackLost
  <2>2. d \in hand[t].lines /\ UNCHANGED <<key, creator, orders>>
    BY <1>5 DEF GiveBack, GiveBackLost
  <2>3. CASE c = d
    <3>1. \/ RestoreQuota(c, Qty[me[2]][c])
          \/ Failing(c) # {} /\ remaining'[c] = remaining[c]
      BY <1>1, <1>5, <2>2, <2>3 DEF GiveBack, GiveBackLost, Failing, HandOK
    <3>2. GiveBy(me, c) /\ me \in Holder
      BY <2>1, <2>2, <2>3, <3>1, HandChanges DEF GiveBy
    <3> QED
      BY <3>2 DEF Move
  <2>4. CASE c # d
    <3>1. remaining'[c] = remaining[c]
      BY <1>1, <1>5, <2>4 DEF GiveBack, GiveBackLost, RestoreQuota
    <3> QED
      BY <2>1, <2>2, <2>4, <3>1, HandChanges DEF Move, Keep
  <2> QED
    BY <2>3, <2>4
<1>6. CASE HandlerStops(t)
  <2> DEFINE n == [phase |-> IF hand[t].phase \in {"index", "back"} THEN "over" ELSE "refused",
                   todo |-> {}, lines |-> {}]
  <2>1. PICK k : hand' = [hand EXCEPT ![t] = k] /\ k.lines = {}
    <3>1. hand' = [hand EXCEPT ![t] = n] /\ n.lines = {}
      BY <1>1, <1>6 DEF HandlerStops, Inv, TypeOK
    <3> QED
      BY <3>1
  <2>2. UNCHANGED <<key, creator, orders, remaining>> /\ t \in Fragile
    BY <1>6 DEF HandlerStops
  <2>3. CASE c \in hand[t].lines
    <3>1. Failing(c) # {}
      BY <1>1, <2>2, <2>3 DEF Failing, HandOK
    <3>2. GiveBy(me, c) /\ me \in Holder
      BY <2>1, <2>2, <2>3, <3>1, HandChanges DEF GiveBy
    <3> QED
      BY <3>2 DEF Move
  <2>4. CASE c \notin hand[t].lines
    BY <2>1, <2>2, <2>4, HandChanges DEF Move, Keep
  <2> QED
    BY <2>3, <2>4
<1> QED
  BY <1>2, <1>3, <1>4, <1>5, <1>6

\* A step that changes what is kept of one token t only, and the counter not.
LEMMA TokenChanges ==
  ASSUME Inv, NEW t \in Token, NEW c \in Category, remaining' = remaining,
         \A s \in Token : s # t =>
           /\ hand'[s].lines = hand[s].lines /\ (s \in key' <=> s \in key)
           /\ \A w \in Creator : CreateHolds(w, s, c)' <=> CreateHolds(w, s, c)
  PROVE  \A h \in Holder : h[2] # t => (Holds(h, c)' <=> Holds(h, c))
<1> SUFFICES ASSUME NEW h \in Holder, h[2] # t PROVE Holds(h, c)' <=> Holds(h, c)
  OBVIOUS
<1>1. PICK s \in Token : h = <<"hand", s>> \/ h = <<"key", s>> \/ \E w \in Creator : h = <<w, s>>
  BY HolderKinds
<1>2. s # t
  BY <1>1
<1>3. CASE h = <<"hand", s>>
  BY <1>2, <1>3, HoldsIs, HoldsNext
<1>4. CASE h = <<"key", s>>
  BY <1>2, <1>4, HoldsIs, HoldsNext
<1>5. ASSUME NEW w \in Creator, h = <<w, s>> PROVE Holds(h, c)' <=> Holds(h, c)
  <2>1. CreateHolds(w, s, c)' <=> CreateHolds(w, s, c)
    BY <1>2
  <2>2. Holds(<<w, s>>, c)' <=> Holds(<<w, s>>, c)
    BY <2>1, HoldsIs, HoldsNext
  <2> QED
    BY <1>5, <2>2
<1> QED
  BY <1>1, <1>3, <1>4, <1>5

\* The holders of one token, when they are known before and after.
LEMMA KeepOne ==
  ASSUME NEW t \in Token, NEW c \in Category, remaining' = remaining,
         \A h \in Holder : h[2] # t => (Holds(h, c)' <=> Holds(h, c)),
         c \in hand'[t].lines <=> c \in hand[t].lines,
         c \in Lines(t) => (t \in key' <=> t \in key),
         \A w \in Creator : CreateHolds(w, t, c)' <=> CreateHolds(w, t, c)
  PROVE  Move(c)
<1>1. ASSUME NEW h \in Holder, h[2] = t PROVE Holds(h, c)' <=> Holds(h, c)
  <2>1. h = <<"hand", t>> \/ h = <<"key", t>> \/ \E w \in Creator : h = <<w, t>>
    BY <1>1, HolderKinds
  <2>2. ASSUME NEW w \in Creator, h = <<w, t>> PROVE Holds(h, c)' <=> Holds(h, c)
    <3>1. Holds(<<w, t>>, c)' <=> Holds(<<w, t>>, c)
      BY HoldsIs, HoldsNext
    <3> QED
      BY <2>2, <3>1
  <2> QED
    BY <2>1, <2>2, HoldsIs, HoldsNext
<1> QED
  BY <1>1 DEF Move, Keep

\* The key takes over from the handler.
LEMMA MoveSetKey ==
  ASSUME Inv, NEW c \in Category, Calm(c), NEW t \in Token, SetKey(t)
  PROVE  Move(c)
<1>1. /\ hand[t].lines = Lines(t) /\ hand'[t].lines = {} /\ remaining' = remaining
      /\ \A s \in Token : s # t => hand'[s] = hand[s] /\ (s \in key' <=> s \in key)
      /\ t \in key' /\ creator' = creator /\ orders' = orders
  BY DEF SetKey, Inv, TypeOK, HandOK
<1>2. \A s \in Token, w \in Creator : CreateHolds(w, s, c)' <=> CreateHolds(w, s, c)
  BY <1>1 DEF CreateHolds, Lines
<1>3. \A h \in Holder : h[2] # t => (Holds(h, c)' <=> Holds(h, c))
  BY <1>1, <1>2, TokenChanges
<1>4. CASE c \notin Lines(t)
  BY <1>1, <1>2, <1>3, <1>4, KeepOne
<1>5. CASE c \in Lines(t)
  <2> DEFINE g == <<"hand", t>>
             k == <<"key", t>>
  <2>1. t \notin key
    BY <1>5, CalmToken DEF SetKey, KeyOK
  <2>2. g \in Holder /\ k \in Holder /\ g # k /\ Holds(g, c) /\ ~Holds(k, c) /\ ~Holds(g, c)' /\ Holds(k, c)'
    BY <1>1, <1>5, <2>1, HoldsIs, HoldsNext DEF Holder
  <2>3. ASSUME NEW w \in Creator PROVE Holds(<<w, t>>, c)' <=> Holds(<<w, t>>, c)
    BY <1>2, HoldsIs, HoldsNext
  <2>4. ASSUME NEW h \in Holder, h # g, h # k PROVE Holds(h, c)' <=> Holds(h, c)
    <3>1. CASE h[2] # t
      BY <1>3, <3>1
    <3>2. CASE h[2] = t
      BY <2>3, <2>4, <3>2, HolderKinds
    <3> QED
      BY <3>1, <3>2
  <2>5. HandOver(g, k, c)
    BY <1>1, <2>2, <2>4 DEF HandOver
  <2> QED
    BY <2>2, <2>5 DEF Move
<1> QED
  BY <1>4, <1>5

\* A handler takes over from the key it has deleted.
LEMMA MoveDelete ==
  ASSUME Inv, NEW c \in Category, Calm(c), NEW t \in Token, DeleteKey(t),
         remaining' = remaining, orders' = orders,
         \A w \in Creator : \/ creator'[w] = creator[w]
                            \/ creator[w].phase = "validated" /\ creator'[w] = NoCreate
  PROVE  Move(c)
<1>1. /\ hand[t] \in HandState /\ HandOK(t) /\ hand'[t] = GivingBack(Lines(t), "back") /\ t \in key /\ t \notin key'
      /\ \A s \in Token : s # t => hand'[s] = hand[s] /\ (s \in key' <=> s \in key)
  BY DEF DeleteKey, Inv, TypeOK
<1>2. hand'[t].lines = Lines(t)
  BY <1>1, LinesType, GivingBackOK
<1>3. \A s \in Token, w \in Creator : CreateHolds(w, s, c)' <=> CreateHolds(w, s, c)
  BY DEF CreateHolds, Lines, NoCreate
<1>4. \A h \in Holder : h[2] # t => (Holds(h, c)' <=> Holds(h, c))
  BY <1>1, <1>3, TokenChanges
<1>5. CASE c \notin Lines(t)
  <2>1. c \notin hand[t].lines
    BY <1>1, <1>5 DEF HandOK
  <2> QED
    BY <1>2, <1>3, <1>4, <1>5, <2>1, KeepOne
<1>6. CASE c \in Lines(t)
  <2> DEFINE g == <<"key", t>>
             k == <<"hand", t>>
  <2>1. hand[t].lines = {}
    BY <1>1, <1>6, CalmToken DEF KeyOK, HandOK
  <2>2. g \in Holder /\ k \in Holder /\ g # k /\ Holds(g, c) /\ ~Holds(k, c) /\ ~Holds(g, c)' /\ Holds(k, c)'
    BY <1>1, <1>2, <1>6, <2>1, HoldsIs, HoldsNext DEF Holder
  <2>3. ASSUME NEW w \in Creator PROVE Holds(<<w, t>>, c)' <=> Holds(<<w, t>>, c)
    BY <1>3, HoldsIs, HoldsNext
  <2>4. ASSUME NEW h \in Holder, h # g, h # k PROVE Holds(h, c)' <=> Holds(h, c)
    <3>1. CASE h[2] # t
      BY <1>4, <3>1
    <3>2. CASE h[2] = t
      BY <2>3, <2>4, <3>2, HolderKinds
    <3> QED
      BY <3>1, <3>2
  <2>5. HandOver(g, k, c)
    BY <2>2, <2>4 DEF HandOver
  <2> QED
    BY <2>2, <2>5 DEF Move
<1> QED
  BY <1>5, <1>6

LEMMA MoveExpiry ==
  ASSUME Inv, NEW c \in Category, Calm(c), NEW t \in Token,
         \/ Expire(t) \/ KeyTimesOut(t) \/ Release(t) \/ RestoreExpired(t) \/ RestoreNothing(t)
  PROVE  Move(c)
<1>1. CASE Release(t) \/ RestoreExpired(t)
  BY <1>1, MoveDelete DEF Release, RestoreExpired
<1>2. CASE Expire(t) \/ RestoreNothing(t) \/ KeyTimesOut(t)
  <2>1. /\ hand' = hand /\ creator' = creator /\ orders' = orders /\ remaining' = remaining
        /\ \A s \in Token : s # t => (s \in key' <=> s \in key)
    BY <1>2 DEF Expire, RestoreNothing, KeyTimesOut
  <2>2. \A s \in Token, w \in Creator : CreateHolds(w, s, c)' <=> CreateHolds(w, s, c)
    BY <2>1 DEF CreateHolds, Lines
  <2>3. \A h \in Holder : h[2] # t => (Holds(h, c)' <=> Holds(h, c))
    BY <2>1, <2>2, TokenChanges
  <2>4. CASE c \notin Lines(t) \/ key' = key
    BY <2>1, <2>2, <2>3, <2>4, KeepOne
  <2>5. CASE KeyTimesOut(t) /\ c \in Lines(t)
    <3> DEFINE g == <<"key", t>>
    <3>1. Failing(c) # {} /\ t \in key /\ t \notin key'
      BY <2>5, CalmToken DEF KeyTimesOut
    <3>2. g \in Holder /\ Holds(g, c) /\ ~Holds(g, c)'
      BY <2>5, <3>1, HoldsIs, HoldsNext DEF Holder
    <3>3. ASSUME NEW w \in Creator PROVE Holds(<<w, t>>, c)' <=> Holds(<<w, t>>, c)
      BY <2>2, HoldsIs, HoldsNext
    <3>4. ASSUME NEW h \in Holder, h # g PROVE Holds(h, c)' <=> Holds(h, c)
      <4>1. CASE h[2] # t
        BY <2>3, <4>1
      <4>2. CASE h[2] = t
        <5>1. PICK s \in Token : h = <<"hand", s>> \/ h = <<"key", s>> \/ \E w \in Creator : h = <<w, s>>
          BY HolderKinds
        <5>2. s = t /\ h # <<"key", s>>
          BY <3>4, <4>2, <5>1
        <5>3. CASE h = <<"hand", s>>
          BY <2>1, <5>3, HoldsIs, HoldsNext
        <5>4. ASSUME NEW w \in Creator, h = <<w, s>> PROVE Holds(h, c)' <=> Holds(h, c)
          <6>1. Holds(<<w, t>>, c)' <=> Holds(<<w, t>>, c)
            BY <3>3
          <6> QED
            BY <5>2, <5>4, <6>1
        <5> QED
          BY <5>1, <5>2, <5>3, <5>4
      <4> QED
        BY <4>1, <4>2
    <3>5. GiveBy(g, c)
      BY <2>1, <3>1, <3>2, <3>4 DEF GiveBy
    <3> QED
      BY <3>2, <3>5 DEF Move
  <2> QED
    BY <1>2, <2>4, <2>5 DEF Expire, RestoreNothing
<1> QED
  BY <1>1, <1>2

\* order.create: the order takes over from the key.
LEMMA MoveConsume ==
  ASSUME Inv, NEW c \in Category, Calm(c), NEW w \in Creator, CreateConsume(w)
  PROVE  Move(c)
<1> DEFINE t == creator[w].token
<1>1. creator[w] \in CreatorState /\ creator[w].phase = "validated"
  BY DEF CreateConsume, Inv, TypeOK
<1>2. t \in Token
  BY <1>1 DEF CreatorState, NoCreate
<1>3. /\ creator'[w] = [token |-> t, phase |-> "consumed"]
      /\ \A v \in Creator : v # w => creator'[v] = creator[v]
      /\ hand' = hand /\ orders' = orders /\ remaining' = remaining /\ key' = key \ {t}
  BY <1>1 DEF CreateConsume, Inv, TypeOK, CreatorState, NoCreate
<1>4. PICK u \in Token : u = t
  BY <1>2
<1> HIDE DEF t
<1>5. \A s \in Token, v \in Creator : <<v, s>> # <<w, u>> => (CreateHolds(v, s, c)' <=> CreateHolds(v, s, c))
  BY <1>1, <1>3, <1>4 DEF CreateHolds, Lines, t
<1>6. \A h \in Holder : h[2] # u => (Holds(h, c)' <=> Holds(h, c))
  BY <1>3, <1>4, <1>5, TokenChanges
<1>7. CASE c \notin Lines(u)
  <2>1. \A v \in Creator : CreateHolds(v, u, c)' <=> CreateHolds(v, u, c)
    BY <1>7 DEF CreateHolds, Lines
  <2> QED
    BY <1>3, <1>6, <1>7, <2>1, KeepOne
<1>8. CASE c \in Lines(u)
  <2> DEFINE g == <<"key", u>>
             k == <<w, u>>
  <2>1. u \in key /\ u \notin key' /\ <<w, u>> \notin orders
    BY <1>1, <1>3, <1>4, <1>8, CalmToken DEF CreateOK, t
  <2>2. ~CreateHolds(w, u, c) /\ CreateHolds(w, u, c)'
    BY <1>1, <1>3, <1>4, <1>8, <2>1 DEF CreateHolds, Lines
  <2>3. g \in Holder /\ k \in Holder /\ g # k
    BY TokensAssumption DEF Holder
  <2>4. Holds(g, c) /\ ~Holds(k, c) /\ ~Holds(g, c)' /\ Holds(k, c)'
    BY <1>8, <2>1, <2>2, HoldsIs, HoldsNext
  <2>5. ASSUME NEW h \in Holder, h # g, h # k PROVE Holds(h, c)' <=> Holds(h, c)
    <3>1. CASE h[2] # u
      BY <1>6, <3>1
    <3>2. CASE h = <<"hand", u>>
      BY <1>3, <3>2, HoldsIs, HoldsNext
    <3>3. ASSUME NEW v \in Creator, h = <<v, u>> PROVE Holds(h, c)' <=> Holds(h, c)
      <4>1. CreateHolds(v, u, c)' <=> CreateHolds(v, u, c)
        BY <1>5, <2>5, <3>3
      <4>2. Holds(<<v, u>>, c)' <=> Holds(<<v, u>>, c)
        BY <4>1, HoldsIs, HoldsNext
      <4> QED
        BY <3>3, <4>2
    <3> QED
      BY <2>5, <3>1, <3>2, <3>3, HolderKinds
  <2>6. HandOver(g, k, c)
    BY <1>3, <2>3, <2>4, <2>5 DEF HandOver
  <2> QED
    BY <2>3, <2>6 DEF Move
<1> QED
  BY <1>7, <1>8

\* order.create: anything else keeps the places, unless its process stops.
LEMMA MoveCreate ==
  ASSUME Inv, NEW c \in Category, Calm(c), NEW w \in Creator,
         \/ CreatorStep(w) \/ CreateStops(w)
         \/ \E t \in Token : CreateValidate(w, t)
  PROVE  Move(c)
<1>1. /\ creator[w] \in CreatorState /\ creator \in [Creator -> CreatorState]
      /\ creator[w].phase # "idle" => creator[w].token \in Token
      /\ creator[w].token \notin Token => creator[w] = NoCreate
      /\ NoCreate.phase = "idle"
  BY TokensAssumption DEF Inv, TypeOK, CreatorState, NoCreate
<1>2. CASE CreateConsume(w)
  BY <1>2, MoveConsume
<1>3. CASE CreateOwnEvent(w) /\ creator[w].token \in key
  <2>1. PICK t \in Token : t = creator[w].token
    BY <1>1, <1>3 DEF CreateOwnEvent
  <2>2. DeleteKey(t)
    BY <1>3, <2>1 DEF CreateOwnEvent
  <2> QED
    BY <1>1, <1>3, <2>2, MoveDelete DEF CreateOwnEvent
<1>4. ASSUME UNCHANGED <<hand, key, remaining>>,
             \A s \in Token, v \in Creator : CreateHolds(v, s, c)' <=> CreateHolds(v, s, c)
      PROVE  Move(c)
  <2>1. ASSUME NEW h \in Holder PROVE Holds(h, c)' <=> Holds(h, c)
    <3>1. PICK s \in Token : h = <<"hand", s>> \/ h = <<"key", s>> \/ \E v \in Creator : h = <<v, s>>
      BY HolderKinds
    <3>2. ASSUME NEW v \in Creator PROVE Holds(<<v, s>>, c)' <=> Holds(<<v, s>>, c)
      BY <1>4, HoldsIs, HoldsNext
    <3> QED
      BY <1>4, <3>1, <3>2, HoldsIs, HoldsNext
  <2> QED
    BY <1>4, <2>1 DEF Move, Keep
<1>5. CASE CreateRefused(w) \/ (CreateOwnEvent(w) /\ creator[w].token \notin key)
  <2>1. \A v \in Creator : \/ creator'[v] = creator[v]
                           \/ creator[v].phase = "validated" /\ creator'[v] = NoCreate
    BY <1>1, <1>5 DEF CreateRefused, CreateOwnEvent
  <2>2. \A s \in Token, v \in Creator : CreateHolds(v, s, c)' <=> CreateHolds(v, s, c)
    BY <1>1, <1>5, <2>1 DEF CreateHolds, Lines, CreateRefused, CreateOwnEvent
  <2> QED
    BY <1>4, <1>5, <2>2 DEF CreateRefused, CreateOwnEvent
<1>6. ASSUME NEW t \in Token, CreateValidate(w, t) PROVE Move(c)
  <2>1. \A s \in Token, v \in Creator : CreateHolds(v, s, c)' <=> CreateHolds(v, s, c)
    BY <1>1, <1>6 DEF CreateHolds, Lines, CreateValidate
  <2> QED
    BY <1>4, <1>6, <2>1 DEF CreateValidate
<1>7. CASE CreateCommit(w)
  <2>1. \A s \in Token, v \in Creator : CreateHolds(v, s, c)' <=> CreateHolds(v, s, c)
    BY <1>1, <1>7 DEF CreateHolds, Lines, CreateCommit
  <2> QED
    BY <1>4, <1>7, <2>1 DEF CreateCommit
<1>8. CASE CreateStops(w)
  <2>1. PICK t \in Token : t = creator[w].token
    BY <1>8, TokensAssumption DEF CreateStops
  <2>2. /\ t \in Fragile /\ UNCHANGED <<hand, key, remaining, orders>> /\ creator'[w] = NoCreate
        /\ \A v \in Creator : v # w => creator'[v] = creator[v]
    BY <1>1, <1>8, <2>1 DEF CreateStops
  <2>3. \A s \in Token, v \in Creator : <<v, s>> # <<w, t>> => (CreateHolds(v, s, c)' <=> CreateHolds(v, s, c))
    BY <1>1, <2>1, <2>2 DEF CreateHolds, Lines
  <2>4. CASE CreateHolds(w, t, c)' <=> CreateHolds(w, t, c)
    BY <1>4, <2>2, <2>3, <2>4
  <2>5. CASE ~(CreateHolds(w, t, c)' <=> CreateHolds(w, t, c))
    <3> DEFINE g == <<w, t>>
    <3>1. CreateHolds(w, t, c) /\ ~CreateHolds(w, t, c)' /\ c \in Lines(t)
      BY <1>1, <2>1, <2>2, <2>5 DEF CreateHolds, Lines
    <3>2. g \in Holder /\ Holds(g, c) /\ ~Holds(g, c)' /\ Failing(c) # {}
      BY <2>2, <3>1, HoldsIs, HoldsNext, CalmToken DEF Holder
    <3>3. ASSUME NEW h \in Holder, h # g PROVE Holds(h, c)' <=> Holds(h, c)
      <4>1. PICK s \in Token : h = <<"hand", s>> \/ h = <<"key", s>> \/ \E v \in Creator : h = <<v, s>>
        BY HolderKinds
      <4>2. ASSUME NEW v \in Creator, h = <<v, s>> PROVE Holds(h, c)' <=> Holds(h, c)
        <5>1. CreateHolds(v, s, c)' <=> CreateHolds(v, s, c)
          BY <2>3, <3>3, <4>2
        <5>2. Holds(<<v, s>>, c)' <=> Holds(<<v, s>>, c)
          BY <5>1, HoldsIs, HoldsNext
        <5> QED
          BY <4>2, <5>2
      <4>3. CASE h = <<"hand", s>> \/ h = <<"key", s>>
        BY <2>2, <4>3, HoldsIs, HoldsNext
      <4> QED
        BY <4>1, <4>2, <4>3
    <3>4. GiveBy(g, c)
      BY <2>2, <3>2, <3>3 DEF GiveBy
    <3> QED
      BY <3>2, <3>4 DEF Move
  <2> QED
    BY <2>4, <2>5
<1> QED
  BY <1>2, <1>3, <1>5, <1>6, <1>7, <1>8 DEF CreatorStep

LEMMA MoveStep ==
  ASSUME Inv, NEW c \in Category, Calm(c), [Next]_vars
  PROVE  Move(c)
<1>1. CASE UNCHANGED vars
  <2>1. \A h \in Holder : Holds(h, c)' <=> Holds(h, c)
    BY <1>1 DEF vars, Holds, CreateHolds, Lines
  <2> QED
    BY <1>1, <2>1 DEF Move, Keep, vars
<1> QED
  BY <1>1, MoveReserve, MoveSetKey, MoveExpiry, MoveCreate DEF Next, TokenStep, Failure

-----------------------------------------------------------------------------
CalmBalanced == \A c \in Category : Calm(c) => Balance(Holders(c), c, Failing(c))

LEMMA BalancedInit == Init => CalmBalanced
<1> SUFFICES ASSUME Init, NEW c \in Category PROVE Balance(Holders(c), c, Failing(c))
  BY DEF CalmBalanced
<1>1. Holders(c) = {}
  BY DEF Init, Holders, NoCreate
<1>2. Places(Holders(c), c) = {} /\ Cardinality({}) = 0
  BY <1>1, FS_EmptySet DEF Places
<1>3. remaining[c] = Quota[c] /\ Quota[c] \in Nat
  BY QuotaAssumption DEF Init
<1> QED
  BY <1>2, <1>3 DEF Balance

LEMMA BalancedStep == Inv /\ Inv' /\ CalmBalanced /\ [Next]_vars => CalmBalanced'
<1> SUFFICES ASSUME Inv, Inv', CalmBalanced, [Next]_vars, NEW c \in Category, Calm(c)'
             PROVE  Balance(Holders(c), c, Failing(c))'
  BY DEF CalmBalanced
<1>1. Calm(c) /\ Failing(c)' = Failing(c)
  BY DEF Calm, Uses, Lines, Failing
<1>2. Balance(Holders(c), c, Failing(c)) /\ Move(c)
  BY <1>1, MoveStep DEF CalmBalanced
<1>3. /\ remaining'[c] + Cardinality(Places(Holders(c)', c)) <= Quota[c]
      /\ Failing(c) = {} => remaining'[c] + Cardinality(Places(Holders(c)', c)) = Quota[c]
  BY <1>2, MoveKeepsBalance
<1> QED
  BY <1>1, <1>3 DEF Balance, Places

\* The stock ledger of the basket: in every category no order.create of which is
\* overlapped, remaining_quota plus the places of handlers, keys and orders
\* never exceeds the quota, and equals it where no call and no process fails.
THEOREM LedgerAlwaysBalances == Spec => []LedgerBalances
<1>1. CalmBalanced => LedgerBalances
  BY DEF CalmBalanced, Calm, Failing, Uses, Balance, LedgerBalances
<1> QED
  BY <1>1, BalancedInit, BalancedStep, InvAlways, PTL DEF Spec

-----------------------------------------------------------------------------
(* The refinement: away from failures and overlapping creates, reservations    *)
(* are the orders of AtomicOrders.  What it sees as free is the counter and    *)
(* the places in the hands of handlers, so a purchase or a return of several   *)
(* items is seen as a whole: when the last item is taken, when the key goes.   *)
(* The ledger is needed where a handler gives places back: the cap of the      *)
(* restoration must not swallow any.                                           *)

Sound == Token \ Fragile
KeepsFree(h, c) == h.phase \in {"take", "undo", "back"} /\ c \in h.lines
Hands(c) == {<<"hand", t>> : t \in {u \in Token : KeepsFree(hand[u], c)}}
Free(c) == remaining[c] + Cardinality(InHand(c))

\* What a handler that goes from h to k adds to InHand(c).
LEMMA HandsFollow ==
  ASSUME Inv, NEW c \in Category, NEW t \in Token, NEW k, hand' = [hand EXCEPT ![t] = k]
  PROVE  /\ Cardinality(InHand(c)) \in Nat
         /\ (KeepsFree(k, c) <=> KeepsFree(hand[t], c))
              => Cardinality(InHand(c)') = Cardinality(InHand(c))
         /\ KeepsFree(k, c) /\ ~KeepsFree(hand[t], c)
              => Cardinality(InHand(c)') = Cardinality(InHand(c)) + Qty[t][c]
         /\ ~KeepsFree(k, c) /\ KeepsFree(hand[t], c)
              => /\ Cardinality(InHand(c)') \in Nat
                 /\ Cardinality(InHand(c)) = Cardinality(InHand(c)') + Qty[t][c]
<1> DEFINE H == Hands(c)
           K == {<<"hand", s>> : s \in {u \in Token : KeepsFree(hand'[u], c)}}
           h == <<"hand", t>>
<1>1. InHand(c) = Places(H, c) /\ InHand(c)' = Places(K, c)
  BY DEF InHand, Hands, KeepsFree, Places
<1>2. hand'[t] = k /\ \A s \in Token : s # t => hand'[s] = hand[s]
  BY DEF Inv, TypeOK
<1>3. Countable(H, c) /\ Countable(K, c)
  <2>1. H \in SUBSET Holder /\ K \in SUBSET Holder
    BY DEF Hands, Holder
  <2> QED
    BY <2>1, HolderCountable
<1>4. Qty[h[2]][c] \in Nat /\ h[2] = t
  BY QtyAssumption
<1>5. (KeepsFree(k, c) <=> KeepsFree(hand[t], c)) => K = H
  BY <1>2 DEF Hands
<1>6. KeepsFree(k, c) /\ ~KeepsFree(hand[t], c) => h \notin H /\ K = H \cup {h}
  BY <1>2 DEF Hands
<1>7. ~KeepsFree(k, c) /\ KeepsFree(hand[t], c) => h \in H /\ K = H \ {h}
  BY <1>2 DEF Hands
<1> HIDE DEF H, K, h
<1>8. Cardinality(Places(H, c)) \in Nat /\ Cardinality(Places(K, c)) \in Nat
  BY <1>3, PlacesFinite
<1>9. h \notin H => Cardinality(Places(H \cup {h}, c)) = Cardinality(Places(H, c)) + Qty[t][c]
  BY <1>3, <1>4, PlacesAdd
<1>10. h \in H => Cardinality(Places(H, c)) = Cardinality(Places(H \ {h}, c)) + Qty[t][c]
  BY <1>3, <1>4, PlacesRemove
<1> QED
  BY <1>1, <1>5, <1>6, <1>7, <1>8, <1>9, <1>10

-----------------------------------------------------------------------------
(* What a step is to AtomicOrders *)

FreeKept == \A c \in Whole : Free(c)' = Free(c)
Turns(t, p, q) ==
  Status(t) = p /\ Status(t)' = q /\ \A s \in Sound \ {t} : Status(s)' = Status(s)
Unseen == FreeKept /\ \A s \in Sound : Status(s)' = Status(s)
Placed(t) ==
  /\ Turns(t, "NONE", "PENDING_PAYMENT")
  /\ \A c \in Whole : Free(c) >= Qty[t][c] /\ Free(c)' = Free(c) - Qty[t][c]
Paid(t) == Turns(t, "PENDING_PAYMENT", "CONFIRMED") /\ FreeKept
Cancelled(t) ==
  /\ Turns(t, "PENDING_PAYMENT", "CANCELLED")
  /\ \A c \in Whole : Free(c)' = Free(c) + Qty[t][c]
Seen == Unseen \/ \E t \in Sound : Placed(t) \/ Paid(t) \/ Cancelled(t)

\* A token that cannot fail obeys the lock, and a category of Whole is used by
\* such tokens alone.
LEMMA SoundToken ==
  ASSUME Contended \subseteq Fragile, Inv, NEW t \in Token
  PROVE  /\ t \in Sound => KeyOK(t) /\ CreateOK(t)
         /\ HandOK(t) /\ hand[t] \in HandState /\ remaining \in [Category -> Nat]
         /\ \A c \in Whole : /\ c \in Category /\ Qty[t][c] \in Nat
                             /\ c \notin Lines(t) => Qty[t][c] = 0
                             /\ t \in Fragile => c \notin Lines(t)
                             /\ Calm(c) /\ Failing(c) = {}
  BY QtyAssumption DEF Sound, Inv, Alone, TypeOK, Whole, Uses, Lines, Calm, Failing
Ordered(t) == \E w \in Creator : <<w, t>> \in orders
OfPhase(p) ==
  IF p \in {"set", "index", "open"} THEN "PENDING_PAYMENT"
  ELSE IF p \in {"back", "over"} THEN "CANCELLED" ELSE "NONE"

\* A handler's step changes the status of its own token alone.
LEMMA StatusFollows ==
  ASSUME Inv, NEW t \in Token, NEW k, hand' = [hand EXCEPT ![t] = k], orders' = orders
  PROVE  /\ \A s \in Token \ {t} : Status(s)' = Status(s)
         /\ Status(t) = IF Ordered(t) THEN "CONFIRMED" ELSE OfPhase(hand[t].phase)
         /\ Status(t)' = IF Ordered(t) THEN "CONFIRMED" ELSE OfPhase(k.phase)
<1>1. hand'[t] = k /\ \A s \in Token : s # t => hand'[s] = hand[s]
  BY DEF Inv, TypeOK
<1>2. \A s \in Token \ {t} : Status(s)' = Status(s)
  BY <1>1 DEF Status
<1>3. Status(t) = IF Ordered(t) THEN "CONFIRMED" ELSE OfPhase(hand[t].phase)
  BY DEF Status, Ordered, OfPhase
<1>4. Status(t)' = IF Ordered(t) THEN "CONFIRMED" ELSE OfPhase(k.phase)
  BY <1>1 DEF Status, Ordered, OfPhase
<1> QED
  BY <1>2, <1>3, <1>4

\* Taking an item: in the hands of the handler it stays free, until the last
\* item places the reservation.
LEMMA SeenTake ==
  ASSUME Contended \subseteq Fragile, Inv, NEW t \in Token, NEW d \in Category, ReserveLine(t, d)
  PROVE  Seen
<1> DEFINE h == hand[t]
           k == [phase |-> IF h.todo = {d} THEN "set" ELSE "take",
                 todo |-> h.todo \ {d}, lines |-> h.lines \cup {d}]
<1>1. /\ h.phase = "take" /\ d \in h.todo /\ hand' = [hand EXCEPT ![t] = k] /\ orders' = orders
      /\ DecrementQuota(d, Qty[t][d])
  BY DEF ReserveLine
<1>2. h.todo \cap h.lines = {} /\ h.todo \cup h.lines = Lines(t) /\ remaining \in [Category -> Nat]
  BY <1>1, SoundToken DEF HandOK
<1>3. \A c \in Category : IF c = d THEN remaining[c] >= Qty[t][c] /\ remaining'[c] = remaining[c] - Qty[t][c]
                          ELSE remaining'[c] = remaining[c]
  BY <1>1, <1>2 DEF DecrementQuota
<1>4. \A c \in Category : KeepsFree(h, c) <=> c \in h.lines
  BY <1>1 DEF KeepsFree
<1>5. CASE h.todo = {d}
  <2>1. \A c \in Category : ~KeepsFree(k, c) /\ (c \in Lines(t) <=> c = d \/ c \in h.lines)
    BY <1>2, <1>5 DEF KeepsFree
  <2>2. ASSUME NEW c \in Whole
        PROVE  Free(c) >= Qty[t][c] /\ Free(c)' = Free(c) - Qty[t][c]
    <3>1. c \in Category /\ Qty[t][c] \in Nat /\ (c \notin Lines(t) => Qty[t][c] = 0) /\ remaining[c] \in Nat
      BY <1>2, SoundToken
    <3> DEFINE n == Cardinality(InHand(c))
               m == Cardinality(InHand(c)')
    <3>2. /\ n \in Nat
          /\ ~KeepsFree(h, c) => m = n
          /\ KeepsFree(h, c) => m \in Nat /\ n = m + Qty[t][c]
      BY <1>1, <2>1, <3>1, HandsFollow
    <3>3. Free(c) = remaining[c] + n /\ Free(c)' = remaining'[c] + m
      BY DEF Free
    <3> HIDE DEF n, m, h, k
    <3>4. CASE c = d
      <4>1. d \notin h.lines
        BY <1>1, <1>2
      <4> QED
        BY <1>3, <1>4, <3>1, <3>2, <3>3, <3>4, <4>1
    <3>5. CASE c # d /\ c \in h.lines
      BY <1>3, <1>4, <3>1, <3>2, <3>3, <3>5
    <3>6. CASE c # d /\ c \notin h.lines
      BY <1>3, <1>4, <2>1, <3>1, <3>2, <3>3, <3>6
    <3> QED
      BY <3>4, <3>5, <3>6
  <2>3. CASE t \in Sound
    <3>1. ~Ordered(t)
      BY <1>1, <2>3, SoundToken DEF KeyOK, Ordered
    <3>2. k.phase = "set" /\ OfPhase(h.phase) = "NONE" /\ OfPhase(k.phase) = "PENDING_PAYMENT"
      BY <1>1, <1>5 DEF OfPhase
    <3> HIDE DEF h, k
    <3>3. /\ \A s \in Token \ {t} : Status(s)' = Status(s)
          /\ Status(t) = "NONE" /\ Status(t)' = "PENDING_PAYMENT"
      BY <1>1, <3>1, <3>2, StatusFollows DEF h
    <3>4. Turns(t, "NONE", "PENDING_PAYMENT")
      BY <3>3 DEF Turns, Sound
    <3> QED
      BY <2>2, <2>3, <3>4 DEF Seen, Placed
  <2>4. CASE t \notin Sound
    <3>1. \A c \in Whole : Free(c)' = Free(c)
      <4>1. ASSUME NEW c \in Whole PROVE Free(c)' = Free(c)
        <5>1. Qty[t][c] = 0 /\ remaining[c] \in Nat /\ Cardinality(InHand(c)) \in Nat
          BY <1>1, <1>2, <2>4, SoundToken, HandsFollow DEF Sound
        <5>2. Free(c) \in Nat
          BY <5>1 DEF Free
        <5> QED
          BY <2>2, <5>1, <5>2
      <4> QED
        BY <4>1
    <3>2. \A s \in Sound : Status(s)' = Status(s)
      BY <1>1, <2>4, StatusFollows DEF Sound
    <3> QED
      BY <3>1, <3>2 DEF Seen, Unseen, FreeKept
  <2> QED
    BY <2>3, <2>4
<1>6. CASE h.todo # {d}
  <2>1. k.phase = "take" /\ \A c \in Category : KeepsFree(k, c) <=> c = d \/ c \in h.lines
    BY <1>6 DEF KeepsFree
  <2>2. ASSUME NEW c \in Whole PROVE Free(c)' = Free(c)
    <3>1. c \in Category /\ Qty[t][c] \in Nat /\ remaining[c] \in Nat
      BY <1>2, SoundToken
    <3> DEFINE n == Cardinality(InHand(c))
               m == Cardinality(InHand(c)')
    <3>2. /\ n \in Nat
          /\ (KeepsFree(k, c) <=> KeepsFree(h, c)) => m = n
          /\ KeepsFree(k, c) /\ ~KeepsFree(h, c) => m = n + Qty[t][c]
      BY <1>1, <3>1, HandsFollow
    <3>3. Free(c) = remaining[c] + n /\ Free(c)' = remaining'[c] + m
      BY DEF Free
    <3>4. d \notin h.lines
      BY <1>1, <1>2
    <3> HIDE DEF n, m, h, k
    <3>5. CASE c = d
      BY <1>3, <1>4, <2>1, <3>1, <3>2, <3>3, <3>4, <3>5
    <3>6. CASE c # d
      BY <1>3, <1>4, <2>1, <3>1, <3>2, <3>3, <3>6
    <3> QED
      BY <3>5, <3>6
  <2>3. Status(t)' = Status(t)
    BY <1>1, <2>1, StatusFollows
  <2>4. \A s \in Sound : Status(s)' = Status(s)
    BY <1>1, <2>3, StatusFollows DEF Sound
  <2> QED
    BY <2>2, <2>4 DEF Seen, Unseen, FreeKept
<1> QED
  BY <1>5, <1>6

\* A handler's step that neither moves the counter, in the eyes of the
\* categories of Whole, nor changes what is in its hands there.
LEMMA SeenQuiet ==
  ASSUME Contended \subseteq Fragile, Inv, NEW t \in Token, NEW k,
         hand' = [hand EXCEPT ![t] = k], orders' = orders,
         \A c \in Whole : remaining'[c] = remaining[c] /\ (KeepsFree(k, c) <=> KeepsFree(hand[t], c)),
         t \in Sound => OfPhase(k.phase) = OfPhase(hand[t].phase)
  PROVE  Seen
<1>1. ASSUME NEW c \in Whole PROVE Free(c)' = Free(c)
  <2>1. c \in Category
    BY SoundToken
  <2> QED
    BY <2>1, HandsFollow DEF Free
<1>2. \A s \in Sound : Status(s)' = Status(s)
  BY StatusFollows DEF Sound
<1> QED
  BY <1>1, <1>2 DEF Seen, Unseen, FreeKept
\* What GivingBack keeps in hand, and the status it shows.
LEMMA GivingBackKeeps ==
  ASSUME NEW L \in SUBSET Category, NEW p \in {"undo", "back"}
  PROVE  /\ \A c : KeepsFree(GivingBack(L, p), c) <=> c \in L
         /\ OfPhase(GivingBack(L, p).phase) = OfPhase(p)
  BY DEF GivingBack, KeepsFree, OfPhase

\* Returning an item that the handler keeps: the ledger leaves room for it, so
\* the counter takes all of it back.
LEMMA SeenGiveBack ==
  ASSUME Contended \subseteq Fragile, Inv, CalmBalanced,
         NEW t \in Token, NEW d \in Category, GiveBack(t, d)
  PROVE  Seen
<1> DEFINE h == hand[t]
           k == GivingBack(h.lines \ {d}, h.phase)
<1>1. /\ h.phase \in {"undo", "back"} /\ d \in h.lines /\ RestoreQuota(d, Qty[t][d])
      /\ hand' = [hand EXCEPT ![t] = k] /\ orders' = orders
  BY DEF GiveBack
<1>2. h.lines \in SUBSET Category /\ h.lines \subseteq Lines(t) /\ remaining \in [Category -> Nat]
  BY LinesType, SoundToken DEF HandOK
<1>3. /\ \A c : KeepsFree(h, c) <=> c \in h.lines
      /\ \A c : KeepsFree(k, c) <=> c \in h.lines /\ c # d
      /\ OfPhase(k.phase) = OfPhase(h.phase)
  <2>1. h.lines \ {d} \in SUBSET Category
    BY <1>2
  <2>2. /\ \A c : KeepsFree(k, c) <=> c \in h.lines \ {d}
        /\ OfPhase(k.phase) = OfPhase(h.phase)
    BY <1>1, <2>1, GivingBackKeeps
  <2> QED
    BY <1>1, <2>2 DEF KeepsFree
<1>4. ASSUME NEW c \in Whole PROVE Free(c)' = Free(c)
  <2>1. c \in Category /\ Qty[t][c] \in Nat /\ remaining[c] \in Nat /\ Calm(c) /\ Failing(c) = {}
    BY <1>2, SoundToken
  <2> DEFINE n == Cardinality(InHand(c))
             m == Cardinality(InHand(c)')
  <2>2. /\ n \in Nat
        /\ (KeepsFree(k, c) <=> KeepsFree(h, c)) => m = n
        /\ ~KeepsFree(k, c) /\ KeepsFree(h, c) => m \in Nat /\ n = m + Qty[t][c]
    BY <1>1, <2>1, HandsFollow
  <2>3. Free(c) = remaining[c] + n /\ Free(c)' = remaining'[c] + m
    BY DEF Free
  <2>4. CASE c = d
    <3>1. remaining[c] + Qty[t][c] <= Quota[c]
      <4> DEFINE H == Holders(c)
                 me == <<"hand", t>>
      <4>1. Countable(H, c) /\ me \in H /\ me[2] = t
        <5>1. H = {g \in Holder : Holds(g, c)} /\ me \in Holder
          BY <2>1, HoldersAre DEF Holder
        <5>2. Holds(me, c)
          BY <1>1, <2>4, HoldsIs
        <5> QED
          BY <2>1, <5>1, <5>2, HolderCountable
      <4>2. remaining[c] + Cardinality(Places(H, c)) = Quota[c]
        BY <2>1 DEF CalmBalanced, Balance
      <4> HIDE DEF H, me
      <4>3. Countable(H \ {me}, c) /\ Cardinality(Places(H, c)) = Cardinality(Places(H \ {me}, c)) + Qty[t][c]
        BY <4>1, PlacesRemove
      <4>4. Cardinality(Places(H \ {me}, c)) \in Nat
        BY <4>3, PlacesFinite
      <4> QED
        BY <2>1, <4>2, <4>3, <4>4
    <3>2. remaining'[c] = remaining[c] + Qty[t][c]
      BY <1>1, <1>2, <2>1, <2>4, <3>1 DEF RestoreQuota
    <3> HIDE DEF n, m, h, k
    <3> QED
      BY <1>1, <1>3, <2>1, <2>2, <2>3, <2>4, <3>2
  <2>5. CASE c # d
    <3>1. remaining'[c] = remaining[c]
      BY <1>1, <1>2, <2>1, <2>5 DEF RestoreQuota
    <3> HIDE DEF n, m, h, k
    <3> QED
      BY <1>3, <2>2, <2>3, <2>5, <3>1
  <2> QED
    BY <2>4, <2>5
<1>5. Status(t)' = Status(t)
  <2> HIDE DEF k
  <2> QED
    BY <1>1, <1>3, StatusFollows
<1>6. \A s \in Sound : Status(s)' = Status(s)
  BY <1>1, <1>5, StatusFollows DEF Sound
<1> QED
  BY <1>4, <1>6 DEF Seen, Unseen, FreeKept

\* Deleting the key: all the places become free at once, in the hands of the
\* handler that is to give them back.
LEMMA SeenDelete ==
  ASSUME Contended \subseteq Fragile, Inv, NEW t \in Token, DeleteKey(t),
         UNCHANGED <<remaining, orders>>,
         t \in Sound => hand[t].phase = "open"
  PROVE  Seen
<1> DEFINE k == GivingBack(Lines(t), "back")
<1>1. hand' = [hand EXCEPT ![t] = k] /\ t \in key /\ Lines(t) \in SUBSET Category
  BY LinesType DEF DeleteKey
<1>2. (\A c : KeepsFree(k, c) <=> c \in Lines(t)) /\ OfPhase(k.phase) = "CANCELLED"
  <2>1. (\A c : KeepsFree(k, c) <=> c \in Lines(t)) /\ OfPhase(k.phase) = OfPhase("back")
    BY <1>1, GivingBackKeeps
  <2> QED
    BY <2>1 DEF OfPhase
<1> HIDE DEF k
<1>3. CASE t \in Sound
  <2>1. hand[t].phase = "open" /\ ~Ordered(t) /\ \A c : ~KeepsFree(hand[t], c)
    BY <1>1, <1>3, SoundToken DEF CreateOK, Ordered, KeepsFree
  <2>2. ASSUME NEW c \in Whole PROVE Free(c)' = Free(c) + Qty[t][c]
    <3>1. c \in Category /\ Qty[t][c] \in Nat /\ remaining[c] \in Nat /\ (c \notin Lines(t) => Qty[t][c] = 0)
      BY SoundToken
    <3> DEFINE n == Cardinality(InHand(c))
               m == Cardinality(InHand(c)')
    <3>2. /\ n \in Nat
          /\ ~KeepsFree(k, c) => m = n
          /\ KeepsFree(k, c) => m = n + Qty[t][c]
      BY <1>1, <2>1, <3>1, HandsFollow
    <3>3. Free(c) = remaining[c] + n /\ Free(c)' = remaining[c] + m
      BY DEF Free
    <3> HIDE DEF n, m
    <3> QED
      BY <1>2, <3>1, <3>2, <3>3
  <2>3. Turns(t, "PENDING_PAYMENT", "CANCELLED")
    <3>1. OfPhase(hand[t].phase) = "PENDING_PAYMENT"
      BY <2>1 DEF OfPhase
    <3>2. /\ \A s \in Token \ {t} : Status(s)' = Status(s)
          /\ Status(t) = "PENDING_PAYMENT" /\ Status(t)' = "CANCELLED"
      BY <1>1, <1>2, <2>1, <3>1, StatusFollows
    <3> QED
      BY <3>2 DEF Turns, Sound
  <2> QED
    BY <1>3, <2>2, <2>3 DEF Seen, Cancelled
<1>4. CASE t \notin Sound
  <2>1. \A c \in Whole : c \notin Lines(t) /\ ~KeepsFree(hand[t], c)
    BY <1>4, SoundToken DEF Sound, HandOK, KeepsFree
  <2> QED
    BY <1>1, <1>2, <1>4, <2>1, SeenQuiet
<1> QED
  BY <1>3, <1>4

\* A step that leaves the counter, the handlers and the orders alone.
LEMMA SeenElsewhere ==
  ASSUME UNCHANGED <<remaining, hand, orders>>
  PROVE  Seen
<1>1. \A c \in Whole : Free(c)' = Free(c)
  BY DEF Free, InHand, Places
<1>2. \A s \in Sound : Status(s)' = Status(s)
  BY DEF Status
<1> QED
  BY <1>1, <1>2 DEF Seen, Unseen, FreeKept

\* The commit of order.create: the reservation becomes an order.
LEMMA SeenCommit ==
  ASSUME Contended \subseteq Fragile, Inv, NEW w \in Creator, CreateCommit(w)
  PROVE  Seen
<1>1. PICK t \in Token :
        /\ t = creator[w].token /\ creator[w].phase = "consumed"
        /\ orders' = orders \cup {<<w, t>>} /\ UNCHANGED <<hand, remaining>>
  BY DEF CreateCommit, Inv, TypeOK, CreatorState, NoCreate
<1>2. FreeKept
  BY <1>1 DEF FreeKept, Free, InHand, Places
<1>3. \A s \in Sound \ {t} : Status(s)' = Status(s)
  BY <1>1 DEF Status
<1>4. CASE t \in Sound
  <2>1. hand[t].phase = "open" /\ ~Ordered(t)
    BY <1>1, <1>4, SoundToken DEF KeyOK, CreateOK, Ordered
  <2>2. Status(t) = "PENDING_PAYMENT"
    BY <2>1 DEF Status, Ordered
  <2>3. Status(t)' = "CONFIRMED"
    BY <1>1 DEF Status
  <2> QED
    BY <1>2, <1>3, <1>4, <2>2, <2>3 DEF Seen, Paid, Turns
<1>5. CASE t \notin Sound
  <2>1. \A s \in Sound : Status(s)' = Status(s)
    BY <1>3, <1>5
  <2> QED
    BY <1>2, <2>1 DEF Seen, Unseen
<1> QED
  BY <1>4, <1>5
\* Every step is seen as a step of AtomicOrders, or not at all.
LEMMA SeenStep ==
  ASSUME Contended \subseteq Fragile, Inv, CalmBalanced, [Next]_vars
  PROVE  Seen
<1>1. CASE UNCHANGED vars
  BY <1>1, SeenElsewhere DEF vars
<1>2. ASSUME NEW t \in Token, TokenStep(t) \/ Reserve(t) \/ Expire(t) \/ Release(t)
      PROVE  Seen
  <2>1. HandOK(t) /\ hand[t] \in HandState /\ (t \in Sound => KeyOK(t))
    BY SoundToken
  <2>2. CASE Reserve(t) \/ SetKey(t) \/ IndexKey(t)
    <3>1. PICK k : /\ hand' = [hand EXCEPT ![t] = k] /\ UNCHANGED <<remaining, orders>>
                   /\ OfPhase(k.phase) = OfPhase(hand[t].phase)
                   /\ hand[t].phase \notin {"take", "undo", "back"}
                   /\ k.lines = {} \/ k.phase \notin {"take", "undo", "back"}
      BY <2>1, <2>2 DEF Reserve, SetKey, IndexKey, OfPhase, HandState
    <3>2. \A c \in Whole : KeepsFree(k, c) <=> KeepsFree(hand[t], c)
      BY <3>1 DEF KeepsFree
    <3> QED
      BY <3>1, <3>2, SeenQuiet
  <2>3. ASSUME NEW d \in Category, ReserveRefused(t, d) PROVE Seen
    <3> DEFINE k == GivingBack(hand[t].lines, "undo")
    <3>1. /\ hand' = [hand EXCEPT ![t] = k] /\ UNCHANGED <<remaining, orders>>
          /\ hand[t].phase = "take" /\ hand[t].lines \in SUBSET Category
      BY <2>1, <2>3, LinesType DEF ReserveRefused, HandOK
    <3>2. (\A c : KeepsFree(k, c) <=> c \in hand[t].lines) /\ OfPhase(k.phase) = OfPhase("undo")
      BY <3>1, GivingBackKeeps
    <3>3. \A c : KeepsFree(hand[t], c) <=> c \in hand[t].lines
      BY <3>1 DEF KeepsFree
    <3>4. OfPhase(k.phase) = OfPhase(hand[t].phase)
      BY <3>1, <3>2 DEF OfPhase
    <3> HIDE DEF k
    <3> QED
      BY <3>1, <3>2, <3>3, <3>4, SeenQuiet
  <2>4. CASE RestoreExpired(t) \/ Release(t)
    <3>1. DeleteKey(t) /\ UNCHANGED <<remaining, orders>> /\ (t \in Sound => hand[t].phase = "open")
      BY <2>1, <2>4 DEF RestoreExpired, Release, KeyOK
    <3> QED
      BY <3>1, SeenDelete
  <2>5. CASE RestoreNothing(t) \/ Expire(t)
    BY <2>5, SeenElsewhere DEF RestoreNothing, Expire
  <2> QED
    BY <1>2, <2>2, <2>3, <2>4, <2>5, SeenTake, SeenGiveBack DEF TokenStep
<1>3. ASSUME NEW w \in Creator, CreatorStep(w) \/ \E t \in Token : CreateValidate(w, t)
      PROVE  Seen
  <2>1. CASE CreateRefused(w) \/ CreateConsume(w) \/ \E t \in Token : CreateValidate(w, t)
    BY <2>1, SeenElsewhere DEF CreateRefused, CreateConsume, CreateValidate
  <2>2. CASE CreateOwnEvent(w)
    <3>1. PICK t \in Token : t = creator[w].token
      BY <2>2 DEF CreateOwnEvent, Inv, TypeOK, CreatorState, NoCreate
    <3>2. CASE t \in key
      <4>1. DeleteKey(t) /\ UNCHANGED <<remaining, orders>>
        BY <2>2, <3>1, <3>2 DEF CreateOwnEvent
      <4>2. t \in Sound => hand[t].phase = "open"
        BY <3>1, SoundToken DEF KeyOK
      <4> QED
        BY <4>1, <4>2, SeenDelete
    <3>3. CASE t \notin key
      BY <2>2, <3>1, <3>3, SeenElsewhere DEF CreateOwnEvent
    <3> QED
      BY <3>2, <3>3
  <2> QED
    BY <1>3, <2>1, <2>2, SeenCommit DEF CreatorStep
<1>4. CASE Failure
  <2>1. ASSUME NEW t \in Token, NEW k, t \in Fragile, hand' = [hand EXCEPT ![t] = k], orders' = orders,
               \A c \in Whole : remaining'[c] = remaining[c], \A c \in k.lines : c \in Lines(t)
        PROVE  Seen
    <3>1. \A c \in Whole : ~KeepsFree(k, c) /\ ~KeepsFree(hand[t], c)
      BY <2>1, SoundToken DEF KeepsFree, HandOK
    <3> QED
      BY <2>1, <3>1, SeenQuiet DEF Sound
  <2>2. ASSUME NEW t \in Token, HandlerStops(t) PROVE Seen
    <3> DEFINE k == [phase |-> IF hand[t].phase \in {"index", "back"} THEN "over" ELSE "refused",
                     todo |-> {}, lines |-> {}]
    <3>1. /\ t \in Fragile /\ hand' = [hand EXCEPT ![t] = k] /\ UNCHANGED <<remaining, orders>>
          /\ k.lines = {}
      BY <2>2 DEF HandlerStops
    <3> HIDE DEF k
    <3> QED
      BY <2>1, <3>1
  <2>3. ASSUME NEW t \in Token, NEW d \in Category, ReserveReplyLost(t, d) \/ GiveBackLost(t, d)
        PROVE  Seen
    <3>1. HandOK(t) /\ hand[t].lines \in SUBSET Category
      BY LinesType, SoundToken DEF HandOK
    <3>2. PICK L \in SUBSET Category, p \in {"undo", "back"} :
             /\ t \in Fragile /\ hand' = [hand EXCEPT ![t] = GivingBack(L, p)] /\ orders' = orders
             /\ L \subseteq hand[t].lines
      <4>1. CASE ReserveReplyLost(t, d)
        BY <3>1, <4>1 DEF ReserveReplyLost
      <4>2. CASE GiveBackLost(t, d)
        <5>1. hand[t].lines \ {d} \in SUBSET Category
          BY <3>1
        <5> QED
          BY <4>2, <5>1 DEF GiveBackLost
      <4> QED
        BY <2>3, <4>1, <4>2
    <3>3. d \in Lines(t)
      BY <2>3, <3>1 DEF ReserveReplyLost, GiveBackLost, HandOK
    <3>4. \A c \in Whole : remaining'[c] = remaining[c]
      BY <2>3, <3>2, <3>3, SoundToken DEF ReserveReplyLost, GiveBackLost, DecrementQuota
    <3>5. GivingBack(L, p).lines = L /\ L \subseteq Lines(t)
      BY <3>1, <3>2, GivingBackOK DEF HandOK
    <3> QED
      BY <2>1, <3>2, <3>4, <3>5
  <2>4. ASSUME NEW t \in Token, KeyTimesOut(t) PROVE Seen
    BY <2>4, SeenElsewhere DEF KeyTimesOut
  <2>5. ASSUME NEW w \in Creator, CreateStops(w) PROVE Seen
    BY <2>5, SeenElsewhere DEF CreateStops
  <2> QED
    BY <1>4, <2>2, <2>3, <2>4, <2>5 DEF Failure
<1> QED
  BY <1>1, <1>2, <1>3, <1>4 DEF Next
LEMMA AtomicInit == Init => Atomic!Init
<1> SUFFICES ASSUME Init PROVE Atomic!Init
  OBVIOUS
<1>1. ASSUME NEW c \in Whole PROVE remaining[c] + Cardinality(InHand(c)) = Quota[c]
  <2>1. InHand(c) = {}
    BY DEF Init, InHand, Places
  <2>2. remaining[c] = Quota[c] /\ Quota[c] \in Nat /\ Cardinality(InHand(c)) = 0
    BY <2>1, FS_EmptySet, QuotaAssumption DEF Init, Whole
  <2> QED
    BY <2>2
<1>2. \A t \in Token \ Fragile : Status(t) = "NONE"
  BY DEF Init, Status
<1> QED
  BY <1>1, <1>2 DEF Atomic!Init

LEMMA AtomicStep ==
  ASSUME Seen
  PROVE  [Atomic!Next]_Atomic!vars
<1> DEFINE free == [c \in Whole |-> remaining[c] + Cardinality(InHand(c))]
           status == [t \in Token \ Fragile |-> Status(t)]
           need == [t \in Token \ Fragile |-> [c \in Whole |-> Qty[t][c]]]
<1>1. \A c \in Whole : free[c] = Free(c) /\ free'[c] = Free(c)'
  BY DEF Free, InHand, Places, Whole, Uses, Lines
<1>2. \A t \in Sound : status[t] = Status(t) /\ status'[t] = Status(t)'
  BY DEF Sound
<1>3. FreeKept => free' = free
  BY <1>1 DEF FreeKept, Whole, Uses, Lines
<1>4. ASSUME NEW t \in Sound, NEW p, NEW q, Turns(t, p, q)
      PROVE  status[t] = p /\ status' = [status EXCEPT ![t] = q]
  BY <1>2, <1>4 DEF Turns, Sound
<1>5. CASE Unseen
  <2>1. free' = free /\ status' = status
    BY <1>2, <1>3, <1>5 DEF Unseen, Sound
  <2> QED
    BY <2>1 DEF Atomic!vars
<1>6. ASSUME NEW t \in Sound, Placed(t) PROVE Atomic!Next
  <2>1. status[t] = "NONE" /\ status' = [status EXCEPT ![t] = "PENDING_PAYMENT"]
    BY <1>4, <1>6 DEF Placed
  <2>2. (\A c \in Whole : free[c] >= need[t][c]) /\ free' = [c \in Whole |-> free[c] - need[t][c]]
    BY <1>1, <1>6 DEF Placed, Sound
  <2> QED
    BY <2>1, <2>2 DEF Sound, Atomic!Place, Atomic!Take, Atomic!Becomes, Atomic!Next
<1>7. ASSUME NEW t \in Sound, Paid(t) PROVE Atomic!Next
  <2>1. status[t] = "PENDING_PAYMENT" /\ status' = [status EXCEPT ![t] = "CONFIRMED"] /\ free' = free
    BY <1>3, <1>4, <1>7 DEF Paid
  <2> QED
    BY <2>1 DEF Sound, Atomic!Pay, Atomic!Becomes, Atomic!Next
<1>8. ASSUME NEW t \in Sound, Cancelled(t) PROVE Atomic!Next
  <2>1. status[t] = "PENDING_PAYMENT" /\ status' = [status EXCEPT ![t] = "CANCELLED"]
    BY <1>4, <1>8 DEF Cancelled
  <2>2. free' = [c \in Whole |-> free[c] + need[t][c]]
    BY <1>1, <1>8 DEF Cancelled, Sound
  <2> QED
    BY <2>1, <2>2 DEF Sound, Atomic!Cancel, Atomic!Give, Atomic!Becomes, Atomic!Next
<1> QED
  BY <1>5, <1>6, <1>7, <1>8 DEF Seen

\* Where neither calls nor processes fail and no order.create is overlapped,
\* reserving, releasing, expiring and ordering behave as if each reservation
\* took all its places and gave them back in one transaction, although
\* order-service makes one remote call per item and keeps the reservation in
\* Redis.
THEOREM ReservationsAreAtomic ==
  ASSUME Contended \subseteq Fragile
  PROVE  Spec => ImplementsAtomicOrders
<1>1. Inv /\ CalmBalanced /\ [Next]_vars => [Atomic!Next]_Atomic!vars
  BY SeenStep, AtomicStep
<1> QED
  BY <1>1, AtomicInit, BalancedInit, BalancedStep, InvAlways, PTL
     DEF Spec, ImplementsAtomicOrders, Atomic!Spec
=============================================================================
