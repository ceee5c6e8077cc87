---------------------------- MODULE QuotaCounter ----------------------------
(***************************************************************************)
(* event-service's stock counter: ticket_categories.remaining_quota, which *)
(* order-service moves by the remote calls event.decrement_quota and       *)
(* event.restore_quota.  The other columns of a category are fixed once    *)
(* its event has left the draft status.                                    *)
(***************************************************************************)
EXTENDS Integers, FiniteSets

CONSTANTS
  Category,  \* ticket category ids
  Quota,     \* Quota[c]: places on sale in category c
  Qty        \* Qty[x][c]: tickets of category c in the reservation or order x

ASSUME QuotaAssumption == Quota \in [Category -> Nat]

VARIABLE remaining  \* remaining_quota of each category

\* Mutant: the WHERE remaining_quota >= q is dropped.
DecrementQuotaUnguarded(c, q) == remaining' = [remaining EXCEPT ![c] = @ - q]

\* UPDATE ... remaining - q WHERE remaining >= q (one SQL statement).
DecrementQuota(c, q) ==
  /\ remaining[c] >= q
  /\ remaining' = [remaining EXCEPT ![c] = @ - q]

\* UPDATE ... LEAST(remaining + q, quota).
RestoreQuota(c, q) ==
  remaining' = [remaining EXCEPT ![c] = IF @ + q <= Quota[c] THEN @ + q ELSE Quota[c]]

\* One element per place of category c kept by the holders H, which are pairs
\* <<who, x>> where x is the reservation or the order.
Places(H, c) == UNION {{h} \X (1..Qty[h[2]][c]) : h \in H}
=============================================================================
