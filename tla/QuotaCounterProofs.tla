------------------------- MODULE QuotaCounterProofs -------------------------
(***************************************************************************)
(* What the counter and its holders add up to: how the number of places    *)
(* changes when a holder comes, goes or hands its places over, and that    *)
(* each of these moves, with what it does to the counter, keeps the        *)
(* balance.  The proofs of the modules that use the counter only have to   *)
(* say which move each of their actions makes.                             *)
(***************************************************************************)
EXTENDS QuotaCounter, FiniteSetTheorems, FunctionTheorems, TLAPS

\* Finitely many holders, each with a number of places of category c.
Countable(H, c) == IsFiniteSet(H) /\ \A h \in H : Qty[h[2]][c] \in Nat

Bundle(h, c) == {h} \X (1..Qty[h[2]][c])

LEMMA BundleSize ==
  ASSUME NEW c, NEW h, Qty[h[2]][c] \in Nat
  PROVE  IsFiniteSet(Bundle(h, c)) /\ Cardinality(Bundle(h, c)) = Qty[h[2]][c]
<1>1. IsFiniteSet({h}) /\ Cardinality({h}) = 1
  BY FS_Singleton
<1>2. ASSUME NEW n \in Nat
      PROVE  IsFiniteSet({h} \X (1..n)) /\ Cardinality({h} \X (1..n)) = n
  <2>1. IsFiniteSet(1..n) /\ Cardinality(1..n) = n
    <3>1. n \in Int /\ 1 \in Int
      OBVIOUS
    <3>2. IsFiniteSet(1..n) /\ Cardinality(1..n) = IF 1 > n THEN 0 ELSE n - 1 + 1
      BY <3>1, FS_Interval
    <3> QED
      BY <3>2
  <2>2. /\ IsFiniteSet({h} \X (1..n))
        /\ Cardinality({h} \X (1..n)) = Cardinality({h}) * Cardinality(1..n)
    BY <1>1, <2>1, FS_Product
  <2> QED
    BY <1>1, <2>1, <2>2
<1> QED
  BY <1>2 DEF Bundle

LEMMA PlacesFinite ==
  ASSUME NEW c, NEW H, Countable(H, c)
  PROVE  IsFiniteSet(Places(H, c)) /\ Cardinality(Places(H, c)) \in Nat
<1> DEFINE B == {Bundle(h, c) : h \in H}
           f == [h \in H |-> Bundle(h, c)]
<1>1. f \in Surjection(H, B)
  BY Fun_IsSurj
<1>2. IsFiniteSet(B)
  <2> HIDE DEF B, f
  <2> QED
    BY <1>1, FS_Surjection DEF Countable
<1>3. \A T \in B : IsFiniteSet(T)
  BY BundleSize DEF Countable
<1>4. Places(H, c) = UNION B
  BY DEF Places, Bundle
<1>5. IsFiniteSet(UNION B)
  <2> HIDE DEF B
  <2> QED
    BY <1>2, <1>3, FS_UNION
<1> QED
  BY <1>4, <1>5, FS_CardinalityType

\* A new holder adds its places ...
LEMMA PlacesAdd ==
  ASSUME NEW c, NEW H, NEW h, h \notin H, Countable(H, c), Qty[h[2]][c] \in Nat
  PROVE  Cardinality(Places(H \cup {h}, c)) = Cardinality(Places(H, c)) + Qty[h[2]][c]
<1>1. Places(H \cup {h}, c) = Places(H, c) \cup Bundle(h, c)
  BY DEF Places, Bundle
<1>2. Places(H, c) \cap Bundle(h, c) = {}
  BY DEF Places, Bundle
<1>3. Cardinality(Places(H, c) \cap Bundle(h, c)) = 0
  BY <1>2, FS_EmptySet
<1>4. /\ IsFiniteSet(Places(H, c)) /\ Cardinality(Places(H, c)) \in Nat
      /\ IsFiniteSet(Bundle(h, c)) /\ Cardinality(Bundle(h, c)) = Qty[h[2]][c]
  BY PlacesFinite, BundleSize
<1>5. Cardinality(Places(H, c) \cup Bundle(h, c))
        = Cardinality(Places(H, c)) + Cardinality(Bundle(h, c))
            - Cardinality(Places(H, c) \cap Bundle(h, c))
  BY <1>4, FS_Union
<1>6. Cardinality(Places(H, c) \cup Bundle(h, c)) = Cardinality(Places(H, c)) + Qty[h[2]][c]
  BY <1>3, <1>4, <1>5
<1> QED
  BY <1>1, <1>6

\* ... a holder that leaves takes its places away ...
LEMMA PlacesRemove ==
  ASSUME NEW c, NEW H, NEW h \in H, Countable(H, c)
  PROVE  /\ Countable(H \ {h}, c)
         /\ Cardinality(Places(H, c)) = Cardinality(Places(H \ {h}, c)) + Qty[h[2]][c]
<1>1. (H \ {h}) \cup {h} = H /\ h \notin H \ {h} /\ H \ {h} \subseteq H
  OBVIOUS
<1>2. Countable(H \ {h}, c) /\ Qty[h[2]][c] \in Nat
  BY <1>1, FS_Subset DEF Countable
<1> QED
  BY <1>1, <1>2, PlacesAdd

\* ... and passing the places of an order from one holder to another leaves the
\* sum alone.
LEMMA PlacesSwap ==
  ASSUME NEW c, NEW H, NEW g \in H, NEW h, h \notin H, g[2] = h[2], Countable(H, c)
  PROVE  Cardinality(Places((H \ {g}) \cup {h}, c)) = Cardinality(Places(H, c))
<1>1. h \notin H \ {g} /\ Qty[h[2]][c] \in Nat
  BY DEF Countable
<1>2. /\ Countable(H \ {g}, c)
      /\ Cardinality(Places(H, c)) = Cardinality(Places(H \ {g}, c)) + Qty[g[2]][c]
  BY PlacesRemove
<1>3. Cardinality(Places((H \ {g}) \cup {h}, c)) = Cardinality(Places(H \ {g}, c)) + Qty[h[2]][c]
  BY <1>1, <1>2, PlacesAdd
<1> QED
  BY <1>2, <1>3

\* Disjoint holders keep disjoint places.
LEMMA PlacesSplit ==
  ASSUME NEW c, NEW H, NEW K, H \cap K = {}, Countable(H, c), Countable(K, c)
  PROVE  /\ Cardinality(Places(H \cup K, c)) = Cardinality(Places(H, c)) + Cardinality(Places(K, c))
         /\ Cardinality(Places(H, c)) \in Nat /\ Cardinality(Places(K, c)) \in Nat
<1>1. Places(H \cup K, c) = Places(H, c) \cup Places(K, c)
  BY DEF Places
<1>2. Places(H, c) \cap Places(K, c) = {}
  BY DEF Places
<1>3. Cardinality(Places(H, c) \cap Places(K, c)) = 0
  BY <1>2, FS_EmptySet
<1>4. /\ IsFiniteSet(Places(H, c)) /\ Cardinality(Places(H, c)) \in Nat
      /\ IsFiniteSet(Places(K, c)) /\ Cardinality(Places(K, c)) \in Nat
  BY PlacesFinite
<1>5. Cardinality(Places(H, c) \cup Places(K, c))
        = Cardinality(Places(H, c)) + Cardinality(Places(K, c))
            - Cardinality(Places(H, c) \cap Places(K, c))
  BY <1>4, FS_Union
<1>6. Cardinality(Places(H, c) \cup Places(K, c)) = Cardinality(Places(H, c)) + Cardinality(Places(K, c))
  BY <1>3, <1>4, <1>5
<1> QED
  BY <1>1, <1>4, <1>6

-----------------------------------------------------------------------------
(* The moves of a step, when the holders of c go from H to K *)

\* The places on sale and those of the holders H make the quota; at most the
\* quota when some calls of F fail.
Balance(H, c, F) ==
  /\ remaining[c] + Cardinality(Places(H, c)) <= Quota[c]
  /\ F = {} => remaining[c] + Cardinality(Places(H, c)) = Quota[c]

KeepPlaces(H, K, c, F) ==
  /\ K = H
  /\ remaining'[c] = remaining[c] \/ (F # {} /\ remaining'[c] <= remaining[c])
TakePlaces(H, K, h, c) ==
  /\ h \notin H /\ K = H \cup {h}
  /\ remaining'[c] = remaining[c] - Qty[h[2]][c]
GivePlaces(H, K, h, c, F) ==
  /\ h \in H /\ K = H \ {h}
  /\ \/ RestoreQuota(c, Qty[h[2]][c])
     \/ F # {} /\ remaining'[c] = remaining[c]
PassPlaces(H, K, g, h, c) ==
  /\ g \in H /\ h \notin H /\ g[2] = h[2] /\ K = (H \ {g}) \cup {h}
  /\ remaining'[c] = remaining[c]

\* remaining' of c after a step that keeps the balance; the cap of a
\* restoration is harmless, because the balance bounded the counter before it.
LEMMA MoveBalances ==
  ASSUME NEW c \in Category, NEW H, NEW K, NEW F,
         Countable(H, c), Countable(K, c),
         remaining \in [Category -> Nat], remaining'[c] \in Nat,
         Balance(H, c, F),
         \/ KeepPlaces(H, K, c, F)
         \/ \E h : TakePlaces(H, K, h, c) \/ GivePlaces(H, K, h, c, F)
         \/ \E g, h : PassPlaces(H, K, g, h, c)
  PROVE  /\ remaining'[c] + Cardinality(Places(K, c)) <= Quota[c]
         /\ F = {} => remaining'[c] + Cardinality(Places(K, c)) = Quota[c]
<1> DEFINE held == Cardinality(Places(H, c))
           next == Cardinality(Places(K, c))
<1>1. remaining[c] \in Nat /\ Quota[c] \in Nat /\ held \in Nat /\ next \in Nat
  BY QuotaAssumption, PlacesFinite
<1>2. remaining[c] + held <= Quota[c] /\ (F = {} => remaining[c] + held = Quota[c])
  BY DEF Balance
<1> HIDE DEF held, next
<1> SUFFICES remaining'[c] + next <= Quota[c] /\ (F = {} => remaining'[c] + next = Quota[c])
  BY DEF next
<1>3. CASE KeepPlaces(H, K, c, F)
  <2>1. next = held
    BY <1>3 DEF KeepPlaces, held, next
  <2> QED
    BY <1>1, <1>2, <1>3, <2>1 DEF KeepPlaces
<1>4. ASSUME NEW h, TakePlaces(H, K, h, c)
      PROVE  remaining'[c] + next <= Quota[c] /\ (F = {} => remaining'[c] + next = Quota[c])
  <2>1. Qty[h[2]][c] \in Nat
    BY <1>4 DEF TakePlaces, Countable
  <2>2. next = held + Qty[h[2]][c]
    BY <1>4, <2>1, PlacesAdd DEF TakePlaces, held, next
  <2> QED
    BY <1>1, <1>2, <1>4, <2>1, <2>2 DEF TakePlaces
<1>5. ASSUME NEW h, GivePlaces(H, K, h, c, F)
      PROVE  remaining'[c] + next <= Quota[c] /\ (F = {} => remaining'[c] + next = Quota[c])
  <2>1. Qty[h[2]][c] \in Nat
    BY <1>5 DEF GivePlaces, Countable
  <2>2. held = next + Qty[h[2]][c]
    BY <1>5, PlacesRemove DEF GivePlaces, held, next
  <2>3. CASE RestoreQuota(c, Qty[h[2]][c])
    <3>1. remaining[c] + Qty[h[2]][c] <= Quota[c]
      BY <1>1, <1>2, <2>1, <2>2
    <3>2. remaining'[c] = remaining[c] + Qty[h[2]][c]
      BY <2>3, <3>1 DEF RestoreQuota
    <3> QED
      BY <1>1, <1>2, <2>1, <2>2, <3>2
  <2>4. CASE F # {} /\ remaining'[c] = remaining[c]
    BY <1>1, <1>2, <2>1, <2>2, <2>4
  <2> QED
    BY <1>5, <2>3, <2>4 DEF GivePlaces
<1>6. ASSUME NEW g, NEW h, PassPlaces(H, K, g, h, c)
      PROVE  remaining'[c] + next <= Quota[c] /\ (F = {} => remaining'[c] + next = Quota[c])
  <2>1. next = held
    BY <1>6, PlacesSwap DEF PassPlaces, held, next
  <2> QED
    BY <1>2, <1>6, <2>1 DEF PassPlaces
<1> QED
  BY <1>3, <1>4, <1>5, <1>6

\* Whatever a call does to the counter, it stays a number of places.
LEMMA CounterOK ==
  ASSUME remaining \in [Category -> Nat], NEW c \in Category, NEW n \in Nat,
         DecrementQuota(c, n) \/ RestoreQuota(c, n)
  PROVE  remaining' \in [Category -> Nat]
  BY QuotaAssumption DEF DecrementQuota, RestoreQuota
=============================================================================
