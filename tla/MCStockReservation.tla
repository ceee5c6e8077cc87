------------------------- MODULE MCStockReservation -------------------------
(* Small instances of StockReservation for TLC. *)
EXTENDS StockReservation, TLC

CONSTANTS t1, t2, t3, c1, c2, c3

\* t1 (two lines) and t2 compete for c1; t3, whose calls fail, has c3 alone.
MCQuota == (c1 :> 2) @@ (c2 :> 1) @@ (c3 :> 2)
MCQty == (t1 :> ((c1 :> 1) @@ (c2 :> 1) @@ (c3 :> 0)))
      @@ (t2 :> ((c1 :> 2) @@ (c2 :> 0) @@ (c3 :> 0)))
      @@ (t3 :> ((c1 :> 0) @@ (c2 :> 0) @@ (c3 :> 2)))
=============================================================================
