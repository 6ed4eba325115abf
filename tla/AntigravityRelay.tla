--------------------------- MODULE AntigravityRelay ---------------------------
(***************************************************************************)
(* The relay of an Antigravity CLI conversation: a detached process, that  *)
(* the agent starts by a command of its own, listens on a private socket,  *)
(* registers itself, publishes the session's delivery binding the way a    *)
(* hook does and pushes what it receives into the conversation, one        *)
(* message at a time.  It renews its registration and the binding, and     *)
(* closes when the client exits, the conversation is gone, its life time   *)
(* is over or it is told to stop.  Two commands may start two relays, a    *)
(* hook may bind while a relay closes, senders may give up waiting, and a  *)
(* relay may be killed.                                                    *)
(***************************************************************************)
EXTENDS Naturals, Sequences

CONSTANTS
    Relays,     \* start commands, each with the relay it may spawn
    Senders,    \* processes that offer the one message of the model
    MaxMishaps, \* bound on kills, lost answers, expiries and closings
    Nothing

VARIABLES
    relay,      \* where each relay is
    renewing,   \* relays whose renewal passed its first look
    regs,       \* registrations on disk: live or past their lease
    pub,        \* the session's delivery binding
    conv,       \* the conversation: its client runs, its session is open
    bind,       \* who binds under the session's lifecycle lock
    sender,     \* what each sender waits for or was told
    queue,      \* the envelopes a relay accepted on its socket
    seen,       \* relays that know the message as pushed
    pushed,     \* pushes of the message by each relay
    doubt,      \* history: relays with a push of unknown outcome
    raced,      \* history: relays that ended while a binding to them was made
    mishaps

rvars == <<relay, renewing, regs, pub, conv, bind, sender, queue, seen, pushed, doubt, raced,
           mishaps>>

RInit ==
    /\ relay = [i \in Relays |-> "off"] /\ renewing = {}
    /\ regs = [i \in Relays |-> Nothing] /\ pub = Nothing
    /\ conv = [agy |-> TRUE, open |-> TRUE]
    /\ bind = Nothing /\ sender = [s \in Senders |-> "idle"]
    /\ queue = [i \in Relays |-> << >>] /\ seen = {} /\ pushed = [i \in Relays |-> 0]
    /\ doubt = {} /\ raced = {} /\ mishaps = 0

\* What a router is given of a relay, and what a hook or a relay that binds holds.
Published == [ep : Relays, live : BOOLEAN, retired : BOOLEAN]
Binder == [by : Relays \cup {"hook"}, pick : Relays \cup {Nothing}]

ASSUME RelayAssumption == Nothing \notin Relays \cup Published \cup Binder

Mishap == mishaps < MaxMishaps /\ mishaps' = mishaps + 1

\* The process exists; it answers its socket until it closes.
Alive(i) == relay[i] \notin {"off", "checked", "gone", "dead"}
Serves(i) == relay[i] \in {"listening", "activating", "serving"}
Current == pub # Nothing /\ ~pub.retired
Becomes(i, pc) == relay' = [relay EXCEPT ![i] = pc]

\* What a bind, a refresh or a second start command asks of a registration.
Serving(i) == regs[i] = "live" /\ Serves(i) /\ conv.agy

(***************************************************************************)
(* Starting.                                                               *)
(***************************************************************************)
StartRelay(i) ==
    /\ relay[i] = "off" /\ conv.agy /\ conv.open
    /\ ~\E j \in Relays : regs[j] # Nothing /\ Alive(j)
    /\ Becomes(i, "checked")
    /\ UNCHANGED <<renewing, regs, pub, conv, bind, sender, queue, seen, pushed, doubt, raced, mishaps>>

Listen(i) ==
    /\ relay[i] = "checked"
    /\ IF conv.open THEN Becomes(i, "listening") /\ regs' = [regs EXCEPT ![i] = "live"]
                    ELSE Becomes(i, "gone") /\ UNCHANGED regs
    /\ UNCHANGED <<renewing, pub, conv, bind, sender, queue, seen, pushed, doubt, raced, mishaps>>

(***************************************************************************)
(* Binding, by a hook or by a relay that listens: retire, pick, publish.   *)
(***************************************************************************)
BindBegin(by) ==
    /\ bind = Nothing /\ conv.open /\ conv.agy
    /\ IF by \in Relays THEN relay[by] = "listening" /\ Becomes(by, "activating") ELSE UNCHANGED relay
    /\ pub' = IF Current THEN [pub EXCEPT !.retired = TRUE, !.live = FALSE] ELSE pub
    /\ bind' = [by |-> by, pick |-> Nothing]
    /\ UNCHANGED <<renewing, regs, conv, sender, queue, seen, pushed, doubt, raced, mishaps>>

BindPick ==
    /\ bind # Nothing /\ bind.pick = Nothing
    /\ \E i \in Relays : Serving(i) /\ bind' = [bind EXCEPT !.pick = i]
    /\ UNCHANGED <<relay, renewing, regs, pub, conv, sender, queue, seen, pushed, doubt, raced, mishaps>>

\* The one whose bind is over serves, or closes because it was not activated.
Settled(active) ==
    LET by == bind.by
    IN IF by \in Relays /\ relay[by] = "activating"
       THEN Becomes(by, IF active THEN "serving" ELSE "closing") ELSE UNCHANGED relay

BindFails ==
    /\ bind # Nothing /\ (bind.pick = Nothing \/ ~conv.open)
    /\ Settled(FALSE)
    /\ bind' = Nothing
    /\ UNCHANGED <<renewing, regs, pub, conv, sender, queue, seen, pushed, doubt, raced, mishaps>>

BindPublish ==
    /\ bind # Nothing /\ bind.pick # Nothing /\ conv.open
    /\ pub' = [ep |-> bind.pick, live |-> TRUE, retired |-> FALSE]
    /\ raced' = IF relay[bind.pick] \in {"gone", "dead"} THEN raced \cup {bind.pick} ELSE raced
    /\ Settled(TRUE)
    /\ bind' = Nothing
    /\ UNCHANGED <<renewing, regs, conv, sender, queue, seen, pushed, doubt, mishaps>>

(***************************************************************************)
(* Renewal: a look at the relay's own flag, then the record and whichever  *)
(* binding the session has by then.                                        *)
(***************************************************************************)
RenewBegin(i) ==
    /\ relay[i] = "serving" /\ i \notin renewing
    /\ renewing' = renewing \cup {i}
    /\ UNCHANGED <<relay, regs, pub, conv, bind, sender, queue, seen, pushed, doubt, raced, mishaps>>

Renew(i) ==
    /\ i \in renewing /\ Alive(i)
    /\ renewing' = renewing \ {i}
    /\ regs' = [regs EXCEPT ![i] = "live"]
    /\ pub' = IF Current /\ conv.open THEN [pub EXCEPT !.live = TRUE] ELSE pub
    /\ UNCHANGED <<relay, conv, bind, sender, queue, seen, pushed, doubt, raced, mishaps>>

(***************************************************************************)
(* The message.                                                            *)
(***************************************************************************)
\* The router's snapshot and the adapter's: the registration, then its socket.
Offer(s) ==
    /\ sender[s] = "idle" /\ conv.open /\ Current /\ pub.live
    /\ LET i == pub.ep
       IN IF regs[i] = "live" /\ Serves(i)
          THEN /\ queue' = [queue EXCEPT ![i] = Append(@, [from |-> s, pc |-> "queued"])]
               /\ sender' = [sender EXCEPT ![s] = "waits"]
          ELSE /\ sender' = [sender EXCEPT ![s] = "refused"]
               /\ UNCHANGED queue
    /\ UNCHANGED <<relay, renewing, regs, pub, conv, bind, seen, pushed, doubt, raced, mishaps>>

Answer(s, word) == sender' = [sender EXCEPT ![s] = IF @ = "waits" THEN word ELSE @]

\* Mutant: envelopes are pushed as they come, not one after another.
PushNowUnordered(i, n) ==
    /\ n \in DOMAIN queue[i] /\ queue[i][n].pc = "queued" /\ i \notin seen /\ Alive(i)
    /\ queue' = [queue EXCEPT ![i][n].pc = "pushing"]
    /\ UNCHANGED <<relay, renewing, regs, pub, conv, bind, sender, seen, pushed, doubt, raced, mishaps>>

\* One push at a time: the next envelope waits for the one before it.
PushNow(i, n) ==
    /\ n = 1 /\ queue[i] # << >> /\ queue[i][1].pc = "queued" /\ i \notin seen /\ Alive(i)
    /\ queue' = [queue EXCEPT ![i][1].pc = "pushing"]
    /\ UNCHANGED <<relay, renewing, regs, pub, conv, bind, sender, seen, pushed, doubt, raced, mishaps>>

Without(i, n) == [m \in 1..(Len(queue[i]) - 1) |-> queue[i][IF m < n THEN m ELSE m + 1]]

\* Mutant: a message is remembered when it comes, not when it was pushed.
DuplicateEarly(i) ==
    /\ Alive(i) /\ \E n \in DOMAIN queue[i] :
        /\ i \in seen \/ (queue[i][n].pc = "queued" /\ Len(queue[i]) > 1)
        /\ Answer(queue[i][n].from, "accepted")
        /\ queue' = [queue EXCEPT ![i] = Without(i, n)]
    /\ UNCHANGED <<relay, renewing, regs, pub, conv, bind, seen, pushed, doubt, raced, mishaps>>

Duplicate(i) ==
    /\ Alive(i) /\ queue[i] # << >> /\ queue[i][1].pc = "queued" /\ i \in seen
    /\ Answer(queue[i][1].from, "accepted")
    /\ queue' = [queue EXCEPT ![i] = Tail(@)]
    /\ UNCHANGED <<relay, renewing, regs, pub, conv, bind, seen, pushed, doubt, raced, mishaps>>

\* The push of agentapi ends: taken, refused, or killed at its time limit.
Pushed(i, n) ==
    /\ Alive(i) /\ n \in DOMAIN queue[i] /\ queue[i][n].pc = "pushing"
    /\ queue' = [queue EXCEPT ![i] = Without(i, n)]
    /\ \/ /\ conv.agy /\ pushed' = [pushed EXCEPT ![i] = @ + 1]
          /\ seen' = seen \cup {i} /\ Answer(queue[i][n].from, "accepted")
          /\ UNCHANGED <<doubt, mishaps>>
       \/ /\ Answer(queue[i][n].from, "refused")
          /\ UNCHANGED <<pushed, seen, doubt, mishaps>>
       \/ /\ Mishap /\ doubt' = doubt \cup {i} /\ Answer(queue[i][n].from, "refused")
          /\ pushed' \in {pushed, [pushed EXCEPT ![i] = @ + 1]}
          /\ UNCHANGED seen
    /\ UNCHANGED <<relay, renewing, regs, pub, conv, bind, raced>>

\* The sender's own time limit: its envelope stays in the relay's queue.
GiveUp(s) ==
    /\ sender[s] = "waits"
    /\ sender' = [sender EXCEPT ![s] = "refused"]
    /\ UNCHANGED <<relay, renewing, regs, pub, conv, bind, queue, seen, pushed, doubt, raced, mishaps>>

(***************************************************************************)
(* The end of a relay.                                                     *)
(***************************************************************************)
Cut(i) == [s \in Senders |-> IF sender[s] = "waits" /\ \E n \in DOMAIN queue[i] : queue[i][n].from = s
                             THEN "refused" ELSE sender[s]]

\* The client exited, the conversation is gone, its time is over, SIGTERM.
CloseBegin(i) ==
    /\ Serves(i) /\ Mishap
    /\ Becomes(i, "closing")
    /\ sender' = Cut(i)
    /\ UNCHANGED <<renewing, regs, pub, conv, bind, queue, seen, pushed, doubt, raced>>

CloseRemove(i) ==
    /\ relay[i] = "closing"
    /\ regs' = [regs EXCEPT ![i] = Nothing]
    /\ Becomes(i, "exiting")
    /\ UNCHANGED <<renewing, pub, conv, bind, sender, queue, seen, pushed, doubt, raced, mishaps>>

\* Only a binding that names this relay is retired: a successor's is kept.
CloseClear(i) ==
    /\ relay[i] = "exiting"
    /\ pub' = IF Current /\ pub.ep = i THEN [pub EXCEPT !.retired = TRUE, !.live = FALSE] ELSE pub
    /\ Becomes(i, "gone")
    /\ renewing' = renewing \ {i} /\ queue' = [queue EXCEPT ![i] = << >>]
    /\ UNCHANGED <<regs, conv, bind, sender, seen, pushed, doubt, raced, mishaps>>

Killed(i) ==
    /\ Alive(i) /\ Mishap
    /\ Becomes(i, "dead")
    /\ sender' = Cut(i)
    /\ renewing' = renewing \ {i} /\ queue' = [queue EXCEPT ![i] = << >>]
    /\ bind' = IF bind # Nothing /\ bind.by = i THEN Nothing ELSE bind
    /\ doubt' = IF \E n \in DOMAIN queue[i] : queue[i][n].pc = "pushing" THEN doubt \cup {i} ELSE doubt
    /\ UNCHANGED <<regs, pub, conv, seen, pushed, raced>>

Expires ==
    /\ Mishap
    /\ \/ \E i \in Relays : regs[i] = "live" /\ regs' = [regs EXCEPT ![i] = "stale"] /\ UNCHANGED pub
       \/ Current /\ pub.live /\ pub' = [pub EXCEPT !.live = FALSE] /\ UNCHANGED regs
    /\ UNCHANGED <<relay, renewing, conv, bind, sender, queue, seen, pushed, doubt, raced>>

\* Uninstall stops the registered relays and removes what they registered.
StopRelays ==
    /\ Mishap /\ \E i \in Relays : regs[i] # Nothing
    /\ relay' = [i \in Relays |-> IF regs[i] # Nothing /\ Serves(i)
                                  THEN "closing" ELSE relay[i]]
    /\ sender' = [s \in Senders |-> IF sender[s] = "waits" THEN "refused" ELSE sender[s]]
    /\ regs' = [i \in Relays |-> Nothing]
    /\ UNCHANGED <<renewing, pub, conv, bind, queue, seen, pushed, doubt, raced>>

SessionEnds ==
    /\ conv.open /\ bind = Nothing /\ Mishap
    /\ conv' = [conv EXCEPT !.open = FALSE]
    /\ pub' = IF Current THEN [pub EXCEPT !.retired = TRUE, !.live = FALSE] ELSE pub
    /\ UNCHANGED <<relay, renewing, regs, bind, sender, queue, seen, pushed, doubt, raced>>

ClientExits ==
    /\ conv.agy /\ Mishap
    /\ conv' = [conv EXCEPT !.agy = FALSE]
    /\ UNCHANGED <<relay, renewing, regs, pub, bind, sender, queue, seen, pushed, doubt, raced>>

Binding == BindPick \/ BindFails \/ BindPublish
RelayStep(i) == \/ StartRelay(i) \/ Listen(i) \/ RenewBegin(i) \/ Renew(i) \/ Duplicate(i)
                \/ \E n \in 1..2 : PushNow(i, n) \/ Pushed(i, n)
                \/ CloseRemove(i) \/ CloseClear(i)

RNext == \/ \E i \in Relays : RelayStep(i) \/ BindBegin(i) \/ CloseBegin(i) \/ Killed(i)
         \/ Binding \/ BindBegin("hook")
         \/ \E s \in Senders : Offer(s) \/ GiveUp(s)
         \/ Expires \/ StopRelays \/ SessionEnds \/ ClientExits

RSpec == RInit /\ [][RNext]_rvars

(***************************************************************************)
(* Properties.                                                             *)
(***************************************************************************)
\* The relay's queue and its set of ids push the message once, however many
\* senders offer it and whichever gave up waiting, unless a push ended without
\* an answer.
PushedOnce == \A i \in Relays : i \notin doubt => pushed[i] <= 1

\* A sender is told "accepted" only when the conversation has the message.
AcceptedPushed ==
    (\E s \in Senders : sender[s] = "accepted") => \E i \in Relays : pushed[i] > 0

\* A relay that closed in order leaves no binding that routers may select to
\* its endpoint, unless a hook had picked the endpoint before it closed.
ClosedRelayUnpublished ==
    \A i \in Relays : (relay[i] = "gone" /\ Current /\ pub.ep = i) => i \in raced

\* What the relay tells senders and routers is what it did and can do.
RelayHonest == PushedOnce /\ AcceptedPushed /\ ClosedRelayUnpublished
=============================================================================
