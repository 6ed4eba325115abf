--------------------------- MODULE NativeDelivery ---------------------------
(***************************************************************************)
(* Native (live) delivery to one session whose client offers an endpoint:  *)
(* Claude Code's inbox socket, Kimi's web server, the Codex app server and *)
(* the Antigravity desktop server.  A hook binds the session: it retires   *)
(* what it published before, asks the adapter for an endpoint, which the   *)
(* adapter writes as a private record, and publishes a delivery binding    *)
(* that names the record.  Routers of other processes read the binding,    *)
(* refresh an expired lease, look again and hand the message to the        *)
(* adapter, which verifies the client behind the record once more.  The    *)
(* client may restart, change its conversation or exit, the user may       *)
(* change the consent, another command may replace the session, and hooks  *)
(* and senders may be killed, between any two steps.                       *)
(***************************************************************************)
EXTENDS Naturals, FiniteSets, Sequences

CONSTANTS
    Kinds,      \* the adapters under study
    Routers,    \* processes that offer the one message of the model
    MaxEps,     \* bound on the endpoint records written
    MaxInc,     \* bound on the client processes
    MaxFaults,  \* bound on kills, restarts, timeouts, expiries and settings
    None

ASSUME NativeAssumption ==
    /\ Kinds \subseteq {"claude", "kimi", "codex", "desktop"}
    /\ MaxEps \in Nat /\ MaxInc \in Nat \ {0} /\ MaxFaults \in Nat
    /\ None \notin Nat \cup {"accepted", "refused", "claimed", "queued", "ambiguous"}
    /\ None \notin [ep : Nat, live : BOOLEAN, retired : BOOLEAN]

VARIABLES
    kind,       \* the client of this session
    sess,       \* the session: replaced by another generation, closed
    consent,    \* the installed live policy
    client,     \* the client process: incarnation, running, on this conversation
    binding,    \* the delivery binding record of the session
    eps,        \* the adapter's endpoint records: the incarnation each names
    born,       \* history: the incarnation each endpoint was written for
    hook,       \* the hook that holds the session's lifecycle lock
    late,       \* an endpoint request whose hook stopped waiting (0: not answered yet)
    router,     \* each sender: where it is, what it read, what it was told
    marks,      \* wake markers of each endpoint, with the recorded outcome
    arrived,    \* how often the message reached the client through an endpoint
    unsure,     \* history: endpoints with a send of unknown or raced outcome
    left,       \* history: records a killed or expired hook left behind
    faults

vars == <<kind, sess, consent, client, binding, eps, born, hook, late, router,
          marks, arrived, unsure, left, faults>>

Ids == 1..MaxEps
Maybe(S) == S \cup {None}
Idle == [pc |-> "idle", goal |-> None, prior |-> None, ep |-> None]
Off == [pc |-> "idle", ep |-> None, said |-> None]
HookPcs == {"idle", "observe", "clear", "cleanup", "bind", "answer", "publish", "recheck", "close"}
RouterPcs == {"idle", "verify", "refresh", "check", "offer", "claim", "send", "done"}

Init ==
    /\ kind \in Kinds
    /\ sess = [replaced |-> FALSE, open |-> TRUE]
    /\ consent = TRUE /\ client = [inc |-> 1, up |-> TRUE, here |-> TRUE]
    /\ binding = None /\ eps = [e \in Ids |-> None] /\ born = << >>
    /\ hook = Idle /\ late = None
    /\ router = [r \in Routers |-> Off]
    /\ marks = [e \in Ids |-> None] /\ arrived = [e \in Ids |-> 0]
    /\ unsure = {} /\ left = {} /\ faults = 0

\* What may go wrong any time and any number of times, here a bounded one.
Fault == faults < MaxFaults /\ faults' = faults + 1
Fine == UNCHANGED faults

(***************************************************************************)
(* The adapter's records and the checks made against the running client.   *)
(***************************************************************************)
Ours == sess.open /\ ~sess.replaced

Live == binding # None /\ ~binding.retired

\* Claude Code's own registry of sessions: the process, and its conversation.
SessionRecord(e) == client.up /\ eps[e] = client.inc
InboxServes(e) == SessionRecord(e) /\ client.here

\* Kimi's registry of servers, the lock a server takes on a session, and the
\* facts its interface answers without resuming the session.
ServerInstance(e) == client.up /\ eps[e] = client.inc
SessionLock == client.here
WebSession(e) == ServerInstance(e) /\ SessionLock
WebServes(e) == WebSession(e)

\* A Codex record names the socket, so a daemon that restarted serves it too.
QueueProbed == client.up
ThreadLocated == client.here
ReceiverServes == QueueProbed /\ ThreadLocated

\* The desktop's language server, by its pid and its start time.
SameServer(e) == client.up /\ eps[e] = client.inc
DesktopServes(e) == SameServer(e) /\ client.here

\* The record is there and the process it names serves this conversation.
Verified(e) ==
    /\ eps[e] # None
    /\ CASE kind = "claude" -> InboxServes(e)
         [] kind = "kimi" -> WebServes(e)
         [] kind = "codex" -> ReceiverServes
         [] kind = "desktop" -> DesktopServes(e)

\* A bind looks at the client itself; Claude's may not name the conversation yet.
InboxBinds == client.up
WebBinds == client.up /\ SessionLock
ThreadBinds == ReceiverServes
DesktopBinds == client.up /\ client.here
Bindable == CASE kind = "claude" -> InboxBinds
              [] kind = "kimi" -> WebBinds
              [] kind = "codex" -> ThreadBinds
              [] kind = "desktop" -> DesktopBinds

\* The Antigravity adapter has nothing that retires an endpoint.
Retires == kind # "desktop"

\* The record goes with its wake markers.
Remove(e) == /\ eps' = [eps EXCEPT ![e] = IF Retires THEN None ELSE @]
             /\ marks' = [marks EXCEPT ![e] = IF Retires THEN None ELSE @]

\* Claude and Kimi sweep the records of dead processes, the desktop keeps one.
DeadInboxes == {e \in Ids : eps[e] # None /\ ~SessionRecord(e)}
DeadServers == {e \in Ids : eps[e] # None /\ ~ServerInstance(e)}
OlderOfConversation == {e \in Ids : eps[e] # None}
Swept == CASE kind = "claude" -> DeadInboxes
           [] kind = "kimi" -> DeadServers
           [] kind = "desktop" -> OlderOfConversation
           [] OTHER -> {}

Fresh == Len(born) + 1

Written ==
    /\ born' = Append(born, client.inc)
    /\ eps' = [d \in Ids |-> IF d = Fresh THEN client.inc ELSE IF d \in Swept THEN None ELSE eps[d]]
    /\ marks' = [d \in Ids |-> IF d \in Swept THEN None ELSE marks[d]]

(***************************************************************************)
(* The hook.                                                               *)
(***************************************************************************)
\* Without an adapter's cleanup the clear is not scoped to an endpoint.
Retiring == IF Retires THEN "observe" ELSE "clear"

HookBegin ==
    /\ hook.pc = "idle" /\ Ours
    /\ \E goal \in {IF consent THEN "bind" ELSE "off", "end"} :
        hook' = [Idle EXCEPT !.pc = Retiring, !.goal = goal]
    /\ UNCHANGED <<kind, sess, consent, client, binding, eps, born, late, router, marks, arrived,
                   unsure, left, faults>>

\* What follows a retirement that was observed, and one that was not.
Retired == [hook EXCEPT !.pc = CASE hook.goal = "bind" -> "bind"
                                 [] hook.goal = "end" -> "close"
                                 [] OTHER -> "idle",
                        !.prior = None]
NotRetired == IF hook.goal = "end" THEN Retired ELSE Idle

\* A read that takes too long scopes the clear to no endpoint: it does nothing.
Observe ==
    /\ hook.pc = "observe"
    /\ \/ hook' = [hook EXCEPT !.pc = "clear", !.prior = IF binding = None THEN None ELSE binding.ep] /\ Fine
       \/ hook' = NotRetired /\ Fault
    /\ UNCHANGED <<kind, sess, consent, client, binding, eps, born, late, router, marks, arrived,
                   unsure, left>>

\* clearDeliveryBinding scoped to an endpoint, under the key's writer lock.
ClearBinding(e) ==
    binding' = IF Live /\ (binding.ep = e \/ ~Retires)
               THEN [binding EXCEPT !.retired = TRUE, !.live = FALSE] ELSE binding

\* Mutant: the endpoint is cleaned up whether or not its retirement was seen.
ClearLate ==
    /\ hook.pc = "clear"
    /\ \/ /\ ClearBinding(hook.prior)
          /\ hook' = IF hook.prior # None THEN [hook EXCEPT !.pc = "cleanup"] ELSE Retired
          /\ UNCHANGED left /\ Fine
       \/ /\ UNCHANGED binding
          /\ hook.prior # None /\ hook' = [hook EXCEPT !.pc = "cleanup"]
          /\ UNCHANGED left /\ Fault
    /\ UNCHANGED <<kind, sess, consent, client, eps, born, late, router, marks, arrived, unsure>>

\* The budget may run out while the update waits for the key's lock: it then
\* applies or not, and the hook neither cleans up nor binds.
Clear ==
    /\ hook.pc = "clear"
    /\ \/ /\ ClearBinding(hook.prior)
          /\ hook' = IF hook.prior # None THEN [hook EXCEPT !.pc = "cleanup"] ELSE Retired
          /\ UNCHANGED left /\ Fine
       \/ /\ ClearBinding(hook.prior) \/ UNCHANGED binding
          /\ hook' = NotRetired /\ Fault
          /\ left' = IF binding' # binding /\ Retires THEN left \cup {hook.prior} ELSE left
    /\ UNCHANGED <<kind, sess, consent, client, eps, born, late, router, marks, arrived, unsure>>

Cleanup ==
    /\ hook.pc = "cleanup"
    /\ \/ Remove(hook.prior) /\ UNCHANGED left /\ Fine
       \/ left' = left \cup {hook.prior} /\ UNCHANGED <<eps, marks>> /\ Fault
    /\ hook' = Retired
    /\ UNCHANGED <<kind, sess, consent, client, binding, born, late, router, arrived, unsure>>

\* The adapter refuses, answers with a record, or is still asking at the deadline.
BindRefused ==
    /\ hook.pc = "bind"
    /\ hook' = Idle
    /\ UNCHANGED <<kind, sess, consent, client, binding, eps, born, late, router, marks, arrived,
                   unsure, left, faults>>

Bind ==
    /\ hook.pc = "bind" /\ Bindable /\ Fresh \in Ids
    /\ Written
    /\ hook' = [hook EXCEPT !.pc = "answer", !.ep = Fresh]
    /\ UNCHANGED <<kind, sess, consent, client, binding, late, router, arrived, unsure, left,
                   faults>>

BindTimesOut ==
    /\ hook.pc \in {"bind", "answer"} /\ late = None /\ Fault
    /\ late' = IF hook.pc = "bind" THEN 0 ELSE hook.ep
    /\ hook' = [Idle EXCEPT !.pc = Retiring, !.goal = "fail"]
    /\ UNCHANGED <<kind, sess, consent, client, binding, eps, born, router, marks, arrived,
                   unsure, left>>

\* The answer that lands after the budget is written first and discarded next.
LateWrites ==
    /\ late = 0 /\ Bindable /\ Fresh \in Ids
    /\ Written
    /\ late' = Fresh
    /\ UNCHANGED <<kind, sess, consent, client, binding, hook, router, arrived, unsure, left,
                   faults>>

LateDiscard ==
    /\ late # None
    /\ IF late = 0 THEN UNCHANGED <<eps, marks>> ELSE Remove(late)
    /\ late' = None
    /\ UNCHANGED <<kind, sess, consent, client, binding, born, hook, router, arrived, unsure, left,
                   faults>>

\* Mutant: a refused handshake keeps the record it was answered with.
AnswerRefusedKept ==
    /\ hook.pc = "answer"
    /\ hook' = Idle
    /\ UNCHANGED <<kind, sess, consent, client, binding, eps, born, late, router, marks, arrived,
                   unsure, left, faults>>

\* The static rule refuses the handshake: its record is discarded.
AnswerRefused ==
    /\ hook.pc = "answer"
    /\ Remove(hook.ep)
    /\ hook' = Idle
    /\ UNCHANGED <<kind, sess, consent, client, binding, born, late, router, arrived, unsure,
                   left, faults>>

\* A handshake whose lease already passed ends here and keeps its record.
AnswerExpired ==
    /\ hook.pc = "answer" /\ Fault
    /\ left' = left \cup {hook.ep}
    /\ hook' = Idle
    /\ UNCHANGED <<kind, sess, consent, client, binding, eps, born, late, router, marks, arrived,
                   unsure>>

Answer ==
    /\ hook.pc = "answer"
    /\ hook' = [hook EXCEPT !.pc = "publish"]
    /\ UNCHANGED <<kind, sess, consent, client, binding, eps, born, late, router, marks, arrived,
                   unsure, left, faults>>

\* Mutant: the endpoint observed before the handshake is published.
PublishPrior ==
    /\ hook.pc = "publish"
    /\ IF Ours THEN /\ binding' = [ep |-> hook.prior, live |-> TRUE, retired |-> FALSE]
                    /\ hook' = [hook EXCEPT !.pc = "recheck"]
                    /\ UNCHANGED left
               ELSE /\ left' = left \cup {hook.ep}
                    /\ hook' = [Idle EXCEPT !.pc = Retiring, !.goal = "fail"]
                    /\ UNCHANGED binding
    /\ UNCHANGED <<kind, sess, consent, client, eps, born, late, router, marks, arrived, unsure,
                   faults>>

\* Under the key's lock: the open generation of the hook, or a conflict.
Publish ==
    /\ hook.pc = "publish"
    /\ IF Ours THEN /\ binding' = [ep |-> hook.ep, live |-> TRUE, retired |-> FALSE]
                    /\ hook' = [hook EXCEPT !.pc = "recheck"]
                    /\ UNCHANGED left
               ELSE /\ left' = left \cup {hook.ep}
                    /\ hook' = [Idle EXCEPT !.pc = Retiring, !.goal = "fail"]
                    /\ UNCHANGED binding
    /\ UNCHANGED <<kind, sess, consent, client, eps, born, late, router, marks, arrived, unsure,
                   faults>>

\* The session may have been replaced or closed between the write and this look.
Recheck ==
    /\ hook.pc = "recheck"
    /\ hook' = IF Ours THEN Idle ELSE [Idle EXCEPT !.pc = Retiring, !.goal = "fail"]
    /\ UNCHANGED <<kind, sess, consent, client, binding, eps, born, late, router, marks, arrived,
                   unsure, left, faults>>

\* Session end: close the session unless it was replaced, and clear again.
Close ==
    /\ hook.pc = "close"
    /\ sess' = IF Ours THEN [sess EXCEPT !.open = FALSE] ELSE sess
    /\ IF Ours /\ Live THEN ClearBinding(binding.ep) /\ left' = left \cup {binding.ep}
                       ELSE UNCHANGED <<binding, left>>
    /\ hook' = Idle
    /\ UNCHANGED <<kind, consent, client, eps, born, late, router, marks, arrived, unsure,
                   faults>>

(***************************************************************************)
(* A router: snapshot, refresh of an expired lease, last look, offer.      *)
(***************************************************************************)
Wakes == kind \in {"claude", "kimi"}
At(r, pc) == router[r].pc = pc
Goes(r, pc) == router' = [router EXCEPT ![r].pc = pc]
Told(r, word) == router' = [router EXCEPT ![r].pc = "done", ![r].said = word]

\* A wake leaves the receipt queued; a message that was taken is offered once.
Queued == Wakes \/ \A r \in Routers : router[r].said # "accepted"

Snapshot(r) ==
    /\ At(r, "idle") /\ consent /\ Queued
    /\ Ours /\ Live
    /\ router' = [router EXCEPT ![r].ep = binding.ep,
                                ![r].pc = IF binding.live THEN "check" ELSE "verify"]
    /\ UNCHANGED <<kind, sess, consent, client, binding, eps, born, hook, late, marks, arrived,
                   unsure, left, faults>>

\* Kimi's adapter exposes no refresh: its binding is renewed by the hooks only.
Refreshable(e) == kind # "kimi" /\ Verified(e)

VerifyExpired(r) ==
    /\ At(r, "verify")
    /\ IF Refreshable(router[r].ep) THEN Goes(r, "refresh") ELSE Told(r, "refused")
    /\ UNCHANGED <<kind, sess, consent, client, binding, eps, born, hook, late, marks, arrived,
                   unsure, left, faults>>

\* Mutant: a refresh revives a binding that was retired meanwhile.
RefreshRevives(r) ==
    /\ At(r, "refresh")
    /\ IF Ours /\ binding # None
       THEN binding' = [binding EXCEPT !.live = TRUE, !.retired = FALSE] ELSE UNCHANGED binding
    /\ IF Ours /\ binding' # None /\ ~binding'.retired /\ binding'.ep = router[r].ep
       THEN Goes(r, "check") ELSE Told(r, "refused")
    /\ UNCHANGED <<kind, sess, consent, client, eps, born, hook, late, marks, arrived, unsure,
                   left, faults>>

\* It moves the lease of whichever endpoint is published by now.
Refresh(r) ==
    /\ At(r, "refresh")
    /\ IF Ours /\ Live THEN binding' = [binding EXCEPT !.live = TRUE] ELSE UNCHANGED binding
    /\ IF Ours /\ Live /\ binding.ep = router[r].ep THEN Goes(r, "check") ELSE Told(r, "refused")
    /\ UNCHANGED <<kind, sess, consent, client, eps, born, hook, late, marks, arrived, unsure,
                   left, faults>>

\* Consent, the session and the binding's identity, just before the transport.
LastLook(r) ==
    /\ At(r, "check")
    /\ IF consent /\ Ours /\ Live /\ binding.live /\ binding.ep = router[r].ep
       THEN Goes(r, "offer") ELSE Told(r, "refused")
    /\ UNCHANGED <<kind, sess, consent, client, binding, eps, born, hook, late, marks, arrived,
                   unsure, left, faults>>

\* The adapter's own check of the record and of the client behind it.
OfferVerifies(r) ==
    /\ At(r, "offer")
    /\ IF Verified(router[r].ep) THEN Goes(r, IF kind = "desktop" THEN "send" ELSE "claim")
                                 ELSE Told(r, "refused")
    /\ UNCHANGED <<kind, sess, consent, client, binding, eps, born, hook, late, marks, arrived,
                   unsure, left, faults>>

\* Claude's adapter answers a duplicate at once.
InboxDuplicate == "accepted"

\* Kimi's adapter answers a duplicate with the outcome on record.
WakeOutcome(e) == IF marks[e] \in {"claimed", "ambiguous"} THEN "refused" ELSE "accepted"

\* Mutant: the marker is looked for and not created exclusively.
ClaimWakeShared(r, duplicate) ==
    /\ At(r, "claim")
    /\ Goes(r, "send")
    /\ marks' = [marks EXCEPT ![router[r].ep] = IF @ = None THEN "claimed" ELSE @]
    /\ UNCHANGED <<kind, sess, consent, client, binding, eps, born, hook, late, arrived, unsure,
                   left, faults>>

\* One exclusive marker file per message and endpoint.
ClaimWake(r, duplicate) ==
    /\ At(r, "claim")
    /\ LET e == router[r].ep
       IN IF marks[e] = None
          THEN marks' = [marks EXCEPT ![e] = "claimed"] /\ Goes(r, "send")
          ELSE UNCHANGED marks /\ Told(r, duplicate)
    /\ UNCHANGED <<kind, sess, consent, client, binding, eps, born, hook, late, arrived, unsure,
                   left, faults>>

InboxClaim(r) == kind = "claude" /\ ClaimWake(r, InboxDuplicate)
WebClaim(r) == kind = "kimi" /\ At(r, "claim") /\ ClaimWake(r, WakeOutcome(router[r].ep))

\* The queue is listed before the message is added: what it holds is accepted.
\* A turn may have taken the message out of the queue already.
QueueLook(r) ==
    /\ At(r, "claim") /\ kind = "codex"
    /\ \/ (\E e \in Ids : arrived[e] > 0) /\ Told(r, "accepted")
       \/ Goes(r, "send")
    /\ UNCHANGED <<kind, sess, consent, client, binding, eps, born, hook, late, marks, arrived,
                   unsure, left, faults>>

\* The client has the message; Kimi's server knows it by its prompt id.
Reaches(e) ==
    arrived' = [arrived EXCEPT ![e] =
        IF kind = "kimi" /\ \E d \in Ids : arrived[d] > 0 THEN @ ELSE @ + 1]

\* Only beside a marker that is still there; the first outcome stays.
Outcome(e, word) == marks' = [marks EXCEPT ![e] = IF @ = "claimed" THEN word ELSE @]

Sending(e) == {q \in Routers : router[q].pc = "send" /\ router[q].ep = e}

Reachable(e) == client.up /\ client.here /\ (kind # "codex" => born[e] = client.inc)

\* Offers that were under way when this one was accepted.
Overlapping(r) == {router[q].ep : q \in {p \in Routers \ {r} : router[p].pc \notin {"idle", "done"}}}

Taken(r) ==
    /\ At(r, "send") /\ Reachable(router[r].ep)
    /\ Reaches(router[r].ep)
    /\ Told(r, "accepted")
    /\ UNCHANGED <<kind, sess, consent, client, binding, eps, born, hook, late, left, faults>>

InboxWritten(r) == kind = "claude" /\ Taken(r) /\ UNCHANGED <<marks, unsure>>
PromptSubmitted(r) ==
    kind = "kimi" /\ Taken(r) /\ Outcome(router[r].ep, "queued") /\ UNCHANGED unsure
QueueAdded(r) ==
    kind = "codex" /\ Taken(r) /\ unsure' = unsure \cup Overlapping(r) /\ UNCHANGED marks
DesktopSent(r) ==
    kind = "desktop" /\ Taken(r) /\ unsure' = unsure \cup Overlapping(r) /\ UNCHANGED marks

\* Mutant: a refused send keeps its marker.
SendRefusedKept(r) ==
    /\ At(r, "send")
    /\ UNCHANGED marks
    /\ Told(r, "refused")
    /\ UNCHANGED <<kind, sess, consent, client, binding, eps, born, hook, late, arrived, unsure,
                   left, faults>>

\* Not sent: no token, a reaped or switched session, a refused connection.
SendRefused(r) ==
    /\ At(r, "send")
    /\ marks' = [marks EXCEPT ![router[r].ep] = None]
    /\ Told(r, "refused")
    /\ UNCHANGED <<kind, sess, consent, client, binding, eps, born, hook, late, arrived, unsure,
                   left, faults>>

\* No answer in time: the client has the message or not.  Kimi's adapter keeps
\* the marker with that outcome, the others let the message be offered again.
Unanswered(r) ==
    /\ At(r, "send") /\ Fault
    /\ LET e == router[r].ep
       IN /\ (Reachable(e) /\ Reaches(e)) \/ UNCHANGED arrived
          /\ unsure' = unsure \cup {e}
    /\ Told(r, "refused")
    /\ UNCHANGED <<kind, sess, consent, client, binding, eps, born, hook, late, left>>

PromptUnanswered(r) == kind = "kimi" /\ Unanswered(r) /\ Outcome(router[r].ep, "ambiguous")
SendUnanswered(r) ==
    kind # "kimi" /\ Unanswered(r) /\ marks' = [marks EXCEPT ![router[r].ep] = None]

(***************************************************************************)
(* The environment.                                                        *)
(***************************************************************************)
ClientRestarts ==
    /\ client.inc < MaxInc /\ Fault
    /\ client' = [inc |-> client.inc + 1, up |-> TRUE, here |-> TRUE]
    /\ UNCHANGED <<kind, sess, consent, binding, eps, born, hook, late, router, marks, arrived,
                   unsure, left>>

ClientExits ==
    /\ client.up /\ Fault
    /\ client' = [client EXCEPT !.up = FALSE]
    /\ UNCHANGED <<kind, sess, consent, binding, eps, born, hook, late, router, marks, arrived,
                   unsure, left>>

Flips ==
    /\ Fault
    /\ \/ consent' = ~consent /\ UNCHANGED <<client, sess>>
       \/ client' = [client EXCEPT !.here = ~@] /\ UNCHANGED <<consent, sess>>
       \/ ~sess.replaced /\ sess' = [sess EXCEPT !.replaced = TRUE] /\ UNCHANGED <<consent, client>>
    /\ UNCHANGED <<kind, binding, eps, born, hook, late, router, marks, arrived, unsure, left>>

LeaseExpires ==
    /\ Live /\ binding.live /\ Fault
    /\ binding' = [binding EXCEPT !.live = FALSE]
    /\ UNCHANGED <<kind, sess, consent, client, eps, born, hook, late, router, marks, arrived,
                   unsure, left>>

HookKilled ==
    /\ hook.pc # "idle" /\ Fault
    /\ left' = left \cup ({hook.ep, hook.prior} \ {None})
    /\ hook' = Idle
    /\ UNCHANGED <<kind, sess, consent, client, binding, eps, born, late, router, marks, arrived,
                   unsure>>

LateKilled ==
    /\ late # None /\ Fault
    /\ left' = left \cup ({late} \ {0})
    /\ late' = None
    /\ UNCHANGED <<kind, sess, consent, client, binding, eps, born, hook, router, marks, arrived,
                   unsure>>

SenderKilled(r) ==
    /\ At(r, "send") /\ Fault
    /\ LET e == router[r].ep
       IN /\ (Reachable(e) /\ Reaches(e)) \/ UNCHANGED arrived
          /\ unsure' = unsure \cup {e}
    /\ router' = [router EXCEPT ![r] = Off]
    /\ UNCHANGED <<kind, sess, consent, client, binding, eps, born, hook, late, marks, left>>

HookStep == \/ HookBegin \/ Observe \/ Clear \/ Cleanup \/ BindRefused \/ Bind \/ BindTimesOut
            \/ LateWrites \/ LateDiscard \/ AnswerRefused \/ AnswerExpired \/ Answer
            \/ Publish \/ Recheck \/ Close

RouterStep(r) == \/ Snapshot(r) \/ VerifyExpired(r) \/ Refresh(r) \/ LastLook(r)
                 \/ OfferVerifies(r) \/ InboxClaim(r) \/ WebClaim(r) \/ QueueLook(r) 
                 \/ InboxWritten(r) \/ PromptSubmitted(r) \/ QueueAdded(r) \/ DesktopSent(r)
                 \/ SendRefused(r) \/ PromptUnanswered(r) \/ SendUnanswered(r)

Next == \/ HookStep
        \/ \E r \in Routers : RouterStep(r) \/ SenderKilled(r)
        \/ ClientRestarts \/ ClientExits \/ Flips \/ LeaseExpires \/ HookKilled \/ LateKilled

Spec == Init /\ [][Next]_vars

(***************************************************************************)
(* Properties.                                                             *)
(***************************************************************************)
TypeOK ==
    /\ kind \in Kinds /\ consent \in BOOLEAN
    /\ sess \in [replaced : BOOLEAN, open : BOOLEAN]
    /\ client \in [inc : 1..MaxInc, up : BOOLEAN, here : BOOLEAN]
    /\ binding \in Maybe([ep : Ids, live : BOOLEAN, retired : BOOLEAN])
    /\ eps \in [Ids -> Maybe(1..MaxInc)] /\ born \in Seq(1..MaxInc) /\ Len(born) <= MaxEps
    /\ hook \in [pc : HookPcs, goal : {None, "bind", "off", "end", "fail"},
                 prior : Maybe(Ids), ep : Maybe(Ids)]
    /\ late \in Maybe(Ids \cup {0}) /\ faults \in 0..MaxFaults
    /\ router \in [Routers -> [pc : RouterPcs, ep : Maybe(Ids),
                               said : {None, "accepted", "refused"}]]
    /\ marks \in [Ids -> {None, "claimed", "queued", "ambiguous"}]
    /\ arrived \in [Ids -> Nat] /\ unsure \subseteq Ids /\ left \subseteq Ids

\* Cleaning up never takes the endpoint from under a published binding: a
\* binding that routers may select names a record that is on disk, unless the
\* client process the record was written for is gone.  The desktop adapter is
\* left out: a late bind of its own removes the record published meanwhile.
PublishedEndpointKept ==
    (Live /\ Retires /\ eps[binding.ep] = None)
        => kind # "codex" /\ ~(client.up /\ born[binding.ep] = client.inc)

\* No record of an endpoint is forgotten: each one is published (or about to
\* be cleaned up), in a hook's or a late answer's hands, or was left behind by
\* a kill, an expired budget or lease, or a publication that was refused.
EndpointsAccounted ==
    \A e \in Ids : Retires /\ eps[e] # None =>
        \/ binding # None /\ binding.ep = e
        \/ e \in {hook.ep, hook.prior, late} \cup left

\* "A retirement is final": no refresh and no stale lease makes a retired
\* endpoint reachable again; only a new endpoint does.
RetiredNeverRevived ==
    [][(binding # None /\ binding.retired /\ ~binding'.retired)
          => binding'.ep # binding.ep]_vars

\* A sender is told "accepted" only when the client has the message through
\* that endpoint or an earlier one, whatever happened meanwhile.  Claude's
\* inbox is left out: its duplicates are accepted before the first is written.
AcceptedReached ==
    \A r \in Routers : (router[r].said = "accepted" /\ kind # "claude")
        => \E e \in Ids : arrived[e] > 0

\* The wake marker, Kimi's prompt id and, for the clients that are handed the
\* message itself, the receipt keep it to one arrival per endpoint, unless a
\* send ended without an answer, two offers overlapped or the endpoint was
\* removed, with its markers, under an offer that had verified it; Kimi's id
\* holds even then.
OneArrival ==
    \A e \in Ids : arrived[e] > 1 =>
        kind # "kimi" /\ (e \in unsure \/ eps[e] = None)

\* A message arrives once, and as often as its senders are told.
ArrivalsAsTold == AcceptedReached /\ OneArrival

\* A wake marker suppresses later wakes of the message, so none may outlive a
\* send that certainly failed: a marker without an arrival has its sender at
\* work or an outcome nobody knows.
MarkerJustified ==
    \A e \in Ids : (marks[e] # None /\ \A d \in Ids : arrived[d] = 0)
        => Sending(e) # {} \/ e \in unsure

\* The records on disk and the binding agree: what is published is there, what
\* is there is published or somebody's, and a marker stands for a wake.
RecordsAgree == PublishedEndpointKept /\ EndpointsAccounted /\ MarkerJustified
=============================================================================
