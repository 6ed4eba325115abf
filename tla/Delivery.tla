------------------------------ MODULE Delivery ------------------------------
(***************************************************************************)
(* How a message reaches one recipient: the receipt in the store           *)
(* (packages/core/src/receipts.mjs, inbox.mjs, next-turn-delivery.mjs),    *)
(* the router of the sender's command that pushes it through a live        *)
(* transport (packages/delivery-router/src/router.mjs), and the hooks of   *)
(* the recipient's client that print it into a turn                        *)
(* (packages/hook-runner/src/runner.mjs, bin/entrypoints/hook-output.mjs). *)
(*                                                                         *)
(* Each of them is a process of its own that may be killed between any two *)
(* of its steps; only the store's transactions are atomic.  The body       *)
(* crosses to the client first and the receipt is advanced afterwards, so  *)
(* the receipt may lag behind what the client was given and must never run *)
(* ahead of it.                                                            *)
(*                                                                         *)
(* A message is its place in the order of sentAt.  Decisions that other    *)
(* decisions replace, the wording of a projection and the offer_failed     *)
(* events are left out.  A session here is one generation of one session   *)
(* of the recipient.  A re-handshake is an Unbind and a Bind.              *)
(***************************************************************************)
EXTENDS Naturals, FiniteSets, SequencesExt

CONSTANTS
    Messages,      \* the messages to the recipient, ordered by sentAt
    Direct,        \* those that name the recipient; the others are to the room
    ReplyOwed,     \* those whose obligation is a reply
    Sessions,      \* the recipient's sessions
    WakeSessions,  \* those whose native transport carries a wake, not a body
    IdStops,       \* those whose client is continued at Stop with ids alone
    Routers,       \* commands that record a message and offer it
    Hooks,         \* hook processes
    Size,          \* Size[m]: what the body of m takes of the budget
    NoteSize,      \* what the note about bodies left out takes of it
    Budget,        \* the context budget left for bodies
    None           \* nobody, nothing

ASSUME MessagesAssumption ==
    Messages \subseteq Nat /\ Direct \subseteq Messages /\ ReplyOwed \subseteq Messages
ASSUME SessionsAssumption == WakeSessions \subseteq Sessions /\ IdStops \subseteq Sessions
ASSUME BudgetAssumption ==
    Budget \in Nat /\ NoteSize \in Nat /\ Size \in [Messages -> Nat]

VARIABLES
    receipt,    \* receipt[m]: the state of the receipt, "none" before m is recorded
    offer,      \* offer[m]: extensions.offer of the receipt, or None
    session,    \* session[s]: "new", "open", "gone" (open, its client dead) or "closed"
    binding,    \* binding[s]: the delivery binding: "none", "live" or "lapsed"
    router,     \* router[r]: [pc, m, s]
    hook,       \* hook[h]: [pc, s, stop, offers, repeats]
    handed,     \* history: the messages whose body a native transport accepted
    shown,      \* history: the messages whose body a hook printed
    successes,  \* history: successes[m]: its offer_succeeded events that are no repeats
    again       \* history: again[m]: its offer_succeeded events that are repeats

vars == <<receipt, offer, session, binding, router, hook, handed, shown,
          successes, again>>

history == <<handed, shown, successes, again>>

-----------------------------------------------------------------------------
Transports == {"native", "next-turn"}

Offers == [transport : Transports, due : BOOLEAN, repeated : BOOLEAN]

ASSUME DeliveryNoneAssumption ==
    None \notin Offers /\ None \notin Sessions /\ None \notin Messages

ReceiptStates == {"none", "queued", "offered", "retrieved", "acknowledged"}

\* advanceReceipt: the order of the receipt's states.
Rank == [state \in ReceiptStates |->
           CASE state = "none" -> 0
             [] state = "queued" -> 1
             [] state = "offered" -> 2
             [] state = "retrieved" -> 3
             [] OTHER -> 4]

IdleRouter == [pc |-> "idle", m |-> None, s |-> None]

IdleHook == [pc |-> "idle", s |-> None, stop |-> FALSE, offers |-> {}, repeats |-> {}]

Init ==
    /\ receipt = [m \in Messages |-> "none"]
    /\ offer = [m \in Messages |-> None]
    /\ session = [s \in Sessions |-> "new"]
    /\ binding = [s \in Sessions |-> "none"]
    /\ router = [r \in Routers |-> IdleRouter]
    /\ hook = [h \in Hooks |-> IdleHook]
    /\ handed = {} /\ shown = {}
    /\ successes = [m \in Messages |-> 0]
    /\ again = [m \in Messages |-> 0]

-----------------------------------------------------------------------------
(* The recipient's sessions.                                               *)

OpenSession(s) ==
    /\ session[s] = "new"
    /\ session' = [session EXCEPT ![s] = "open"]
    /\ UNCHANGED <<receipt, offer, binding, router, hook, history>>

\* The client's process ends without a SessionEnd: the record stays open, and
\* presence reads the dead process as offline.
ClientDies(s) ==
    /\ session[s] = "open"
    /\ session' = [session EXCEPT ![s] = "gone"]
    /\ UNCHANGED <<receipt, offer, binding, router, hook, history>>

\* The client restarts under the same conversation and keeps its generation.
ClientReturns(s) ==
    /\ session[s] = "gone"
    /\ session' = [session EXCEPT ![s] = "open"]
    /\ UNCHANGED <<receipt, offer, binding, router, hook, history>>

\* sessionEnd: the binding is retired with the session.
CloseSession(s) ==
    /\ session[s] \in {"open", "gone"}
    /\ session' = [session EXCEPT ![s] = "closed"]
    /\ binding' = [binding EXCEPT ![s] = "none"]
    /\ UNCHANGED <<receipt, offer, router, hook, history>>

\* publishDeliveryBinding, after a handshake with the client.
Bind(s) ==
    /\ session[s] = "open"
    /\ binding[s] # "live"
    /\ binding' = [binding EXCEPT ![s] = "live"]
    /\ UNCHANGED <<receipt, offer, session, router, hook, history>>

\* The binding's lease runs out.
Lapse(s) ==
    /\ binding[s] = "live"
    /\ binding' = [binding EXCEPT ![s] = "lapsed"]
    /\ UNCHANGED <<receipt, offer, session, router, hook, history>>

\* clearDeliveryBinding
Unbind(s) ==
    /\ binding[s] # "none"
    /\ binding' = [binding EXCEPT ![s] = "none"]
    /\ UNCHANGED <<receipt, offer, session, router, hook, history>>

\* listLiveSessions: not closed, and the process alive.
LiveSessions == {s \in Sessions : session[s] = "open"}

\* requireTarget and requireOpen judge by the record alone.
RecordOpen(s) == session[s] \in {"open", "gone"}

-----------------------------------------------------------------------------
(* Receipts.                                                               *)

\* dueForRepeat
DueForRepeat(m) ==
    /\ m \in Direct
    /\ receipt[m] = "offered"
    /\ offer[m] # None
    /\ offer[m].transport # "next-turn"
    /\ ~offer[m].repeated
    /\ offer[m].due

\* REPEAT_OFFER_AFTER_MS passes after the offer.
Age(m) ==
    /\ offer[m] # None
    /\ ~offer[m].due
    /\ offer' = [offer EXCEPT ![m].due = TRUE]
    /\ UNCHANGED <<receipt, session, binding, router, hook, history>>

\* Mutant: a late commit of an accepted offer overwrites what the recipient did since.
OfferOnceUnconditional(m, t) ==
    /\ receipt' = [receipt EXCEPT ![m] = "offered"]
    /\ offer' = [offer EXCEPT ![m] = [transport |-> t, due |-> FALSE, repeated |-> FALSE]]
    /\ successes' = [successes EXCEPT ![m] = @ + 1]

\* Mutant: a second commit of the same offer is recorded again.
OfferOnceRepeated(m, t) ==
    IF receipt[m] \in {"queued", "offered"}
    THEN /\ receipt' = [receipt EXCEPT ![m] = "offered"]
         /\ offer' = [offer EXCEPT ![m] = [transport |-> t, due |-> FALSE, repeated |-> FALSE]]
         /\ successes' = [successes EXCEPT ![m] = @ + 1]
    ELSE UNCHANGED <<receipt, offer, successes>>

\* recordOfferSucceeded of a first offer; its target is open.
OfferOnce(m, t) ==
    IF receipt[m] = "queued"
    THEN /\ receipt' = [receipt EXCEPT ![m] = "offered"]
         /\ offer' = [offer EXCEPT ![m] = [transport |-> t, due |-> FALSE, repeated |-> FALSE]]
         /\ successes' = [successes EXCEPT ![m] = @ + 1]
    ELSE UNCHANGED <<receipt, offer, successes>>

\* recordOfferSucceeded of a repeat: judged again under the writer.
OfferAgain(m) ==
    IF DueForRepeat(m)
    THEN /\ offer' = [offer EXCEPT ![m].repeated = TRUE]
         /\ again' = [again EXCEPT ![m] = @ + 1]
    ELSE UNCHANGED <<offer, again>>

-----------------------------------------------------------------------------
(* The sender's command: recordAndOffer.                                   *)

\* recordMessageInTransaction, with the receipt it queues.  A retry with the
\* same client key finds the message, records nothing and offers it again.
Record(r, m) ==
    /\ router[r].pc = "idle"
    /\ receipt' = [receipt EXCEPT ![m] = IF @ = "none" THEN "queued" ELSE @]
    /\ router' = [router EXCEPT ![r] =
                    IF m \in Direct THEN [pc |-> "receipt", m |-> m, s |-> None] ELSE @]
    /\ UNCHANGED <<offer, session, binding, hook, history>>

At(r, pc) == router[r].pc = pc

RouterGoes(r, pc) == router' = [router EXCEPT ![r].pc = pc]

\* The offer ends, the message stays durable.
RouterEnds(r) == router' = [router EXCEPT ![r] = IdleRouter]

ReadReceipt(r) ==
    /\ At(r, "receipt")
    /\ IF receipt[router[r].m] = "queued" THEN RouterGoes(r, "sessions") ELSE RouterEnds(r)
    /\ UNCHANGED <<receipt, offer, session, binding, hook, history>>

\* Nobody live, or more than one session: durable.
FindTarget(r) ==
    /\ At(r, "sessions")
    /\ IF \E s \in Sessions : LiveSessions = {s}
       THEN \E s \in LiveSessions :
              router' = [router EXCEPT ![r] = [pc |-> "binding", m |-> router[r].m, s |-> s]]
       ELSE RouterEnds(r)
    /\ UNCHANGED <<receipt, offer, session, binding, hook, history>>

\* The binding, an expired one included, and the policy of its client.
FindBinding(r) ==
    /\ At(r, "binding")
    /\ \/ /\ RecordOpen(router[r].s)
          /\ binding[router[r].s] # "none"
          /\ RouterGoes(r, IF binding[router[r].s] = "live" THEN "recheck" ELSE "refresh")
       \/ RouterEnds(r)  \* no binding, or a policy that is off
    /\ UNCHANGED <<receipt, offer, session, binding, hook, history>>

\* refreshExpiredBinding: the adapter asks the client; the lease of a binding
\* that was not retired meanwhile is extended.
Refresh(r) ==
    /\ At(r, "refresh")
    /\ \/ /\ RecordOpen(router[r].s)
          /\ binding[router[r].s] # "none"
          /\ binding' = [binding EXCEPT ![router[r].s] = "live"]
          /\ RouterGoes(r, "recheck")
       \/ RouterEnds(r) /\ UNCHANGED binding
    /\ UNCHANGED <<receipt, offer, session, hook, history>>

\* The policy once more, and the target still the only live session.
RecheckTarget(r) ==
    /\ At(r, "recheck")
    /\ \/ LiveSessions = {router[r].s} /\ RouterGoes(r, "current")
       \/ RouterEnds(r)
    /\ UNCHANGED <<receipt, offer, session, binding, hook, history>>

RecheckBinding(r) ==
    /\ At(r, "current")
    /\ IF RecordOpen(router[r].s) /\ binding[router[r].s] = "live"
       THEN RouterGoes(r, "transport")
       ELSE RouterEnds(r)
    /\ UNCHANGED <<receipt, offer, session, binding, hook, history>>

\* adapter.offerMessage throws, is refused, or names a client version the
\* contract rules out.
TransportFails(r) ==
    /\ At(r, "transport")
    /\ RouterEnds(r)
    /\ UNCHANGED <<receipt, offer, session, binding, hook, history>>

\* Mutant: a wake counts as an offer of the body.
TransportAcceptsWake(r) ==
    /\ At(r, "transport")
    /\ handed' = IF router[r].s \in WakeSessions THEN handed ELSE handed \union {router[r].m}
    /\ RouterGoes(r, "record")
    /\ UNCHANGED <<receipt, offer, session, binding, hook, shown, successes, again>>

\* adapter.offerMessage is accepted.  A wake carries no body and records nothing.
TransportAccepts(r) ==
    /\ At(r, "transport")
    /\ IF router[r].s \in WakeSessions
       THEN RouterEnds(r) /\ UNCHANGED handed
       ELSE RouterGoes(r, "record") /\ handed' = handed \union {router[r].m}
    /\ UNCHANGED <<receipt, offer, session, binding, hook, shown, successes, again>>

\* recordOfferSucceeded; a target that closed meanwhile leaves the receipt queued.
RecordLive(r) ==
    /\ At(r, "record")
    /\ IF RecordOpen(router[r].s)
       THEN OfferOnce(router[r].m, "native")
       ELSE UNCHANGED <<receipt, offer, successes>>
    /\ RouterEnds(r)
    /\ UNCHANGED <<session, binding, hook, handed, shown, again>>

RouterKilled(r) ==
    /\ ~At(r, "idle")
    /\ RouterEnds(r)
    /\ UNCHANGED <<receipt, offer, session, binding, hook, history>>

-----------------------------------------------------------------------------
(* The recipient's hooks: projectTurn, then completeHookOutput.            *)

SizeOf(seq) == FoldLeft(LAMBDA used, m : used + Size[m], 0, seq)

\* projectContextResult: each body that still fits, in order; when one is left
\* out the last ones make room for the note that says so.
Fitting(seq) ==
    LET Step(kept, m) == IF SizeOf(kept) + Size[m] <= Budget THEN Append(kept, m) ELSE kept
        kept   == FoldLeft(Step, <<>>, seq)
        noted  == {k \in 0 .. Len(kept) : SizeOf(SubSeq(kept, 1, k)) + NoteSize <= Budget}
    IN IF kept = seq THEN seq ELSE SubSeq(kept, 1, Cardinality(noted) - 1)

InOrder(set) == SetToSortSeq(set, <)

Queued == {m \in Messages : receipt[m] = "queued"}

\* Mutant: a message offered once is never shown again.
RepeatsNever(stop) == {}

\* repeatMessages: a continuation at the end of a turn asks for none.
Repeats(stop) == IF stop THEN {} ELSE {m \in Messages : DueForRepeat(m)}

\* projectTurn of beforeTurn, or of turnEnd (`stop`): one snapshot decides what
\* is shown and what may be recorded afterwards.
Select(h, s, stop) ==
    /\ hook[h].pc = "idle"
    /\ session[s] = "open"
    /\ \E offers \in SUBSET (Queued \union Repeats(stop)) \ {{}} :
         /\ offers = ToSet(Fitting(InOrder(Queued) \o InOrder(Repeats(stop))))
         /\ hook' = [hook EXCEPT ![h] =
              [pc |-> "print", s |-> s, stop |-> stop,
               offers |-> offers, repeats |-> offers \intersect Repeats(stop)]]
    /\ UNCHANGED <<receipt, offer, session, binding, router, history>>

\* writeOutput of completeHookOutput.  A continuation is in the adapter's words:
\* the projection (adapter-antigravity), or the ids alone (adapter-kimi).
WriteOutput(h) ==
    /\ hook[h].pc = "print"
    /\ shown' = IF hook[h].stop /\ hook[h].s \in IdStops
                THEN shown ELSE shown \union hook[h].offers
    /\ hook' = [hook EXCEPT ![h].pc = "commit"]
    /\ UNCHANGED <<receipt, offer, session, binding, router, handed, successes, again>>

\* The order of offerInputs: new bodies, then repeats.
CommitOrder(h) ==
    InOrder(hook[h].offers \ hook[h].repeats) \o InOrder(hook[h].repeats)

\* One turn of commitOffers: a target that is gone fails it and the rest.
Commit(h) ==
    /\ hook[h].pc = "commit"
    /\ \E m \in hook[h].offers :
         /\ m = Head(CommitOrder(h))
         /\ IF RecordOpen(hook[h].s)
            THEN /\ IF m \in hook[h].repeats
                    THEN OfferAgain(m) /\ UNCHANGED <<receipt, successes>>
                    ELSE OfferOnce(m, "next-turn") /\ UNCHANGED again
                 /\ hook' = [hook EXCEPT ![h] =
                      IF hook[h].offers = {m} THEN IdleHook
                      ELSE [hook[h] EXCEPT !.offers = @ \ {m}, !.repeats = @ \ {m}]]
            ELSE /\ hook' = [hook EXCEPT ![h] = IdleHook]
                 /\ UNCHANGED <<receipt, offer, successes, again>>
    /\ UNCHANGED <<session, binding, router, handed, shown>>

\* The client kills the hook, its budget runs out, its stdout is closed, or the
\* adapter declines to continue the turn: nothing is recorded any more.
HookEnds(h) ==
    /\ hook[h].pc # "idle"
    /\ hook' = [hook EXCEPT ![h] = IdleHook]
    /\ UNCHANGED <<receipt, offer, session, binding, router, history>>

-----------------------------------------------------------------------------
(* The recipient's own commands, from a session of it.                     *)

Advance(ms, state) ==
    receipt' = [m \in Messages |->
                  IF m \in ms /\ Rank[receipt[m]] < Rank[state] THEN state ELSE receipt[m]]

\* readInbox of one message, or of all that are listed.
ReadInbox(s) ==
    /\ RecordOpen(s)
    /\ \E ms \in {{m} : m \in Messages} \union {Messages} :
         Advance({m \in ms : receipt[m] # "none"}, "retrieved")
    /\ UNCHANGED <<offer, session, binding, router, hook, history>>

\* acknowledgeMessage: a message that asks for a reply is not acknowledged.
Acknowledge(s, m) ==
    /\ RecordOpen(s)
    /\ receipt[m] # "none"
    /\ m \notin ReplyOwed
    /\ Advance({m}, "acknowledged")
    /\ UNCHANGED <<offer, session, binding, router, hook, history>>

\* replyToMessage: the answer it records goes to the sender.
Reply(s, m) ==
    /\ RecordOpen(s)
    /\ receipt[m] # "none"
    /\ Advance({m}, "acknowledged")
    /\ UNCHANGED <<offer, session, binding, router, hook, history>>

-----------------------------------------------------------------------------
SessionStep(s) ==
    \/ OpenSession(s) \/ ClientDies(s) \/ ClientReturns(s) \/ CloseSession(s)
    \/ Bind(s) \/ Lapse(s) \/ Unbind(s)

RouterStep(r) ==
    \/ \E m \in Messages : Record(r, m)
    \/ ReadReceipt(r) \/ FindTarget(r) \/ FindBinding(r) \/ Refresh(r)
    \/ RecheckTarget(r) \/ RecheckBinding(r)
    \/ TransportFails(r) \/ TransportAccepts(r) \/ RecordLive(r)
    \/ RouterKilled(r)

Turn(h) == \E s \in Sessions : Select(h, s, FALSE)

HookStep(h) ==
    \/ Turn(h)
    \/ \E s \in Sessions : Select(h, s, TRUE)
    \/ WriteOutput(h) \/ Commit(h) \/ HookEnds(h)

InboxStep(s) ==
    \/ ReadInbox(s)
    \/ \E m \in Messages : Acknowledge(s, m) \/ Reply(s, m)

Next ==
    \/ \E s \in Sessions : SessionStep(s) \/ InboxStep(s)
    \/ \E r \in Routers : RouterStep(r)
    \/ \E h \in Hooks : HookStep(h)
    \/ \E m \in Messages : Age(m)

\* The client keeps taking turns while a session of it is open, and does not
\* kill every one of its hooks; time passes.
Fairness ==
    /\ \A h \in Hooks : SF_vars(Turn(h)) /\ SF_vars(WriteOutput(h)) /\ SF_vars(Commit(h))
    /\ \A m \in Messages : WF_vars(Age(m))

Spec == Init /\ [][Next]_vars

FairSpec == Spec /\ Fairness

-----------------------------------------------------------------------------
\* Every variable has its type.
TypeOK ==
    /\ receipt \in [Messages -> ReceiptStates]
    /\ offer \in [Messages -> Offers \union {None}]
    /\ session \in [Sessions -> {"new", "open", "gone", "closed"}]
    /\ binding \in [Sessions -> {"none", "live", "lapsed"}]
    /\ router \in [Routers ->
         [pc : {"idle", "receipt", "sessions", "binding", "refresh", "recheck",
                "current", "transport", "record"},
          m : Messages \union {None}, s : Sessions \union {None}]]
    /\ hook \in [Hooks ->
         [pc : {"idle", "print", "commit"}, s : Sessions \union {None}, stop : BOOLEAN,
          offers : SUBSET Messages, repeats : SUBSET Messages]]
    /\ handed \subseteq Messages /\ shown \subseteq Messages
    /\ successes \in [Messages -> Nat] /\ again \in [Messages -> Nat]

\* A next-turn offer is recorded only after a hook's stdout carried the body, in
\* the words of the comment on dueForRepeat (receipts.mjs), which rests the rule
\* that such an offer is never repeated on it.
NextTurnOfferShown ==
    \A m \in Messages :
      offer[m] # None /\ offer[m].transport = "next-turn" => m \in shown

\* A receipt never claims more than happened, whichever of the router and the
\* hooks commits and wherever they are killed (recordOfferSucceeded is called
\* after the transport): a native offer was accepted by a transport that takes
\* bodies, a next-turn offer and a repeat were printed by a hook.
OfferCrossed ==
    /\ NextTurnOfferShown
    /\ \A m \in Messages : offer[m] # None =>
         /\ offer[m].transport = "native" => m \in handed
         /\ offer[m].repeated => m \in shown

\* The event log agrees with the receipts however many routers and hooks
\* commit offers of one message (recordOfferSucceeded judges the receipt under
\* the writer): one success for the offer, one for its repeat, a repeat only
\* of a native offer.
OffersMatchEvents ==
    \A m \in Messages :
      /\ successes[m] = (IF offer[m] = None THEN 0 ELSE 1)
      /\ again[m] = (IF offer[m] # None /\ offer[m].repeated THEN 1 ELSE 0)
      /\ again[m] = 1 => offer[m].transport = "native"
      /\ receipt[m] = "offered" => offer[m] # None

\* Receipts only move forward (advanceReceipt), and once the recipient has
\* retrieved or answered a message no late router or hook records an offer of it.
SettledStaysSettled ==
    [][\A m \in Messages :
         /\ Rank[receipt[m]] <= Rank[receipt'[m]]
         /\ receipt[m] \in {"retrieved", "acknowledged"} =>
              /\ successes'[m] = successes[m]
              /\ again'[m] = again[m]]_vars

\* No message is forgotten: while the recipient has an open session that takes
\* turns, a recorded message is printed by a hook or taken by the recipient,
\* even if a native transport accepted it and dropped it (the repeat of
\* nextTurnDelivery).
EventuallyShown ==
    \A m \in Messages :
      receipt[m] # "none" ~>
        \/ m \in shown
        \/ receipt[m] \in {"retrieved", "acknowledged"}
        \/ LiveSessions = {}
=============================================================================
