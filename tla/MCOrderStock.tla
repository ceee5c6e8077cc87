---------------------------- MODULE MCOrderStock ----------------------------
(* Small instances of OrderStock for TLC. *)
EXTENDS OrderStock, TLC

CONSTANTS o1, o2, o3, c1, c2

\* o1 asks for two lines, o2 competes with it on c1: quota 2 does not serve
\* both, so a late payment of either may find its places gone.
MCQuota == (c1 :> 2) @@ (c2 :> 2)
MCQty == (o1 :> ((c1 :> 1) @@ (c2 :> 2)))
      @@ (o2 :> ((c1 :> 2) @@ (c2 :> 0)))

\* o1, whose row is rewritten from old copies, buys c1 alone, so that c2
\* stays plain; o3 is bought on the resale exchange and holds no quota.
MCQtyFaults == (o1 :> ((c1 :> 1) @@ (c2 :> 0)))
            @@ (o2 :> ((c1 :> 1) @@ (c2 :> 1)))
            @@ (o3 :> ((c1 :> 0) @@ (c2 :> 1)))
=============================================================================
