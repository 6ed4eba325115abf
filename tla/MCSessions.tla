----------------------------- MODULE MCSessions -----------------------------
(***************************************************************************)
(* Small instances of Sessions.  Two hooks interleave; each stands for a   *)
(* few operations, so a late one meets the sessions of its successors.     *)
(***************************************************************************)
EXTENDS Sessions, TLC

\* Clients, ids and hooks are interchangeable.
Symmetries ==
    Permutations(Clients) \cup Permutations(Ids) \cup Permutations(Hooks)
=============================================================================
