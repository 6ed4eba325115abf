----------------------------- MODULE MCRecords -----------------------------
(* Three records that several processes read and advance: the one that names *)
(* the active journal, the receipt of a message, and the binding of a native *)
(* conversation.  A behaviour follows one of them.                            *)
EXTENDS ActiveJournal, Delivery, HookLifecycle

MCSize == [m \in Messages |-> 2]
HookSymmetry == Permutations(Hooks)

VARIABLE part

mail == <<receipt, offer, session, binding, router, hook, handed, shown, successes, again>>
all == <<part, jvars, mail, hvars>>

\* What a behaviour does not follow stands still in one initial state.
RecordsInit ==
    /\ part \in {"journal", "receipt", "binding"} /\ JInit /\ Init /\ HInit
    /\ part # "binding" => adapter = "codex"

RecordsNext ==
    \/ part = "journal" /\ JNext /\ UNCHANGED <<part, mail, hvars>>
    \/ part = "receipt" /\ Next /\ UNCHANGED <<part, jvars, hvars>>
    \/ part = "binding" /\ HNext /\ UNCHANGED <<part, jvars, mail>>

RecordsSpec == RecordsInit /\ [][RecordsNext]_all
=============================================================================
