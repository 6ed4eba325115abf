------------------------------ MODULE MCTurns ------------------------------
(***************************************************************************)
(* What must happen in the end while a conversation takes turns: its       *)
(* messages are shown, and its session is bound to the client that runs.   *)
(* The two follow from different records, so a behaviour follows one of    *)
(* them: the turns of an open session, or the hooks that keep it open.     *)
(***************************************************************************)
EXTENDS Delivery, HookLifecycle

VARIABLE part

mail == <<receipt, offer, session, binding, router, hook, handed, shown, successes, again>>

\* Only one body fits with the note.
MCSize == [m \in Messages |-> 2]

\* The part that a behaviour does not follow stands still in one initial state.
TurnsInit ==
    \/ part = "mail" /\ Init /\ HInit /\ adapter = "kimi"
    \/ part = "life" /\ Init /\ HInit

TurnsNext ==
    \/ part = "mail" /\ Next /\ UNCHANGED <<part, hvars>>
    \/ part = "life" /\ HNext /\ UNCHANGED <<part, mail>>

Mail(A) == part = "mail" /\ A /\ UNCHANGED <<part, hvars>>
Life(A) == part = "life" /\ A /\ UNCHANGED <<part, mail>>

\* The fairness of Delivery and of HookLifecycle, each where it is followed.
TurnsSpec ==
    /\ TurnsInit /\ [][TurnsNext]_<<part, mail, hvars>>
    /\ \A h \in Hooks : /\ SF_mail(Mail(Turn(h)))
                        /\ SF_mail(Mail(WriteOutput(h)))
                        /\ SF_mail(Mail(Commit(h)))
    /\ \A m \in Messages : WF_mail(Mail(Age(m)))
    /\ WF_hvars(Life(Runs)) /\ SF_hvars(Life(Finds)) /\ SF_hvars(Life(TakesTurn))

\* The property of HookLifecycle, stated and explained there.
TurnsRebind == part = "life" => Rebound
=============================================================================
