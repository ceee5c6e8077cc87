--------------------------- MODULE MCPaymentFlow ---------------------------
(* Small instances of PaymentFlow for TLC. *)
EXTENDS PaymentFlow, TLC

Symmetry == Permutations(Handler)
=============================================================================
