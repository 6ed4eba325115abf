-------------------------- MODULE MCNativeDelivery --------------------------
(* Two senders offer one message to a session of each client in turn.       *)
EXTENDS NativeDelivery, TLC

CONSTANTS r1, r2

Senders == {r1, r2}
Symmetry == Permutations(Senders)
=============================================================================
