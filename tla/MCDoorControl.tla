--------------------------- MODULE MCDoorControl ----------------------------
(* Small instances of DoorControl for TLC. *)
EXTENDS DoorControl, TLC

Symmetry == Permutations(Device)
=============================================================================
