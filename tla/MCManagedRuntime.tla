--------------------------- MODULE MCManagedRuntime ---------------------------
(***************************************************************************)
(* Three releases of which the third changes the store contract.           *)
(***************************************************************************)
EXTENDS ManagedRuntime, TLC

MCContract == [g \in Gens |-> IF g = 3 THEN 2 ELSE 1]

HookSymmetry == Permutations(Hooks)
=============================================================================
