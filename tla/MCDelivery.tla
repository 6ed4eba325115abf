----------------------------- MODULE MCDelivery -----------------------------
(***************************************************************************)
(* Small instances of Delivery: message 1 names the recipient, message 2   *)
(* is to the room or names it too, and only one body fits with the note.   *)
(***************************************************************************)
EXTENDS Delivery

MCSize == [m \in Messages |-> 2]

HookSymmetry == Permutations(Hooks)
=============================================================================
