--------------------------- MODULE MCTicketHolder ---------------------------
(* Small instances of TicketHolder for TLC. *)
EXTENDS TicketHolder, TLC

Symmetry == Permutations(User \ {Buyer}) \cup Permutations(Listing)
              \cup Permutations(Purchase) \cup Permutations(Transfer)
=============================================================================
