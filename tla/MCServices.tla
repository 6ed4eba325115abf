----------------------------- MODULE MCServices -----------------------------
(* Two background processes beside a client that do not meet: the worker    *)
(* that restarts a client's service during an update, and the relay of an   *)
(* Antigravity conversation.  A behaviour follows one of them.              *)
EXTENDS Maintenance, AntigravityRelay

VARIABLE part

vars == <<part, mvars, rvars>>

Init == part \in {"maintenance", "relay"} /\ MInit /\ RInit

Next == \/ part = "maintenance" /\ MNext /\ UNCHANGED <<part, rvars>>
        \/ part = "relay" /\ RNext /\ UNCHANGED <<part, mvars>>

\* The fairness of the maintenance worker (see MFairSpec).
Spec == /\ Init /\ [][Next]_vars
        /\ WF_mvars(part = "maintenance" /\ WorkerStep /\ UNCHANGED <<part, rvars>>)
        /\ SF_mvars(part = "maintenance" /\ Relaunch /\ wpc' = "adopt" /\ UNCHANGED <<part, rvars>>)
        /\ SF_mvars(part = "maintenance" /\ StartServed /\ UNCHANGED <<part, rvars>>)
=============================================================================
