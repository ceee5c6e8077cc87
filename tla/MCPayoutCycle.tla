--------------------------- MODULE MCPayoutCycle ---------------------------
(* Small instances of PayoutCycle for TLC. *)
EXTENDS PayoutCycle, TLC

CONSTANTS o1, o2

\* Two sales of one price.  Fully refunded after its payout, the first leaves a
\* debt the second covers only in part; fully refunded before its payout, the
\* second leaves its fees as a debt.
MCShare == (o1 :> 4) @@ (o2 :> 4)
MCFees == (o1 :> 0) @@ (o2 :> 1)

\* The copies are interchangeable (a safety run only).
Symmetry == Permutations(Copy)

\* One sale, for the liveness property.
MCShareOne == o1 :> 4
MCFeesOne == o1 :> 1
=============================================================================
