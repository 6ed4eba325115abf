--------------------------- MODULE HookLifecycle ---------------------------
(***************************************************************************)
(* The hooks of one native conversation and the ACC session they keep for  *)
(* it: the room the conversation is routed to, the binding that names its  *)
(* session, and the session's record.  Any number of hooks may run beside  *)
(* each other, beside a peer that registers the conversation (acc status)  *)
(* and beside the command line; each may be cut anywhere, by a kill or by  *)
(* its budget.  Before it holds the lifecycle lock a hook only reads and   *)
(* chooses the room, so hooks that wait are not told apart; the lock is    *)
(* WriterMutex's, taken here as exclusive and free again when its holder   *)
(* is gone.  beforeTool and turnEnd take no lock and write nothing but a   *)
(* heartbeat.  Native delivery is NativeDelivery's subject, and what a     *)
(* turn prints Delivery's.                                                 *)
(***************************************************************************)
EXTENDS Naturals

CONSTANTS Adapters,   \* the clients a behaviour may be about
          MaxClients, \* bound: processes the client has over time
          MaxMishaps, \* bound: ends, cuts, commands of the user
          NoFile      \* no record on disk

ASSUME LifecycleAssumption ==
    /\ MaxMishaps \in Nat
    /\ NoFile \notin {"here", "there"} /\ NoFile \notin [id : Nat, gen : {1}, pid : Nat]

VARIABLES
    adapter,  \* the conversation's client
    room,     \* native-workspaces/<key>.json: the room, or None
    choosing, \* rooms that hooks which saw no record are about to write
    routed,   \* rooms that hooks were routed to
    bind,     \* bindings/<session>.json in each room
    sess,     \* the ACC sessions that were opened for the conversation
    holder,   \* the hook that holds lifecycle-locks/<session> in each room
    client,   \* the running client process, 0 when there is none
    started,  \* client processes so far
    mishaps

hvars == <<adapter, room, choosing, routed, bind, sess, holder, client, started, mishaps>>

Rooms == {"here", "there"}
Ids == 1 .. 1 + MaxMishaps
Pids == 0 .. MaxClients          \* 0: not known

\* The first generation of an id is a hook's; the second a replacement that the
\* user attached from the command line under the same id.
Absent == [st |-> "absent", gen |-> 1, pid |-> 0, room |-> "here"]
Idle == [pc |-> "idle"]

Binding(i, p) == [id |-> i, gen |-> 1, pid |-> p]

\* normalizeHook of each adapter: the kinds of event its client sends for which
\* the runner has a handler.
ClaudeEvents == {"sessionStart", "sessionEnd", "beforeTurn", "beforeTool", "turnEnd"}
CodexEvents == {"sessionStart", "sessionEnd", "beforeTurn", "beforeTool", "turnEnd"}
KimiEvents ==
    {"sessionStart", "sessionEnd", "heartbeat", "beforeTurn", "beforeTool", "turnEnd"}
AntigravityEvents == {"sessionStart", "beforeTurn", "turnEnd"}
GrokEvents == {"sessionStart", "sessionEnd", "beforeTurn", "beforeTool", "turnEnd"}
GeminiEvents == {"sessionStart", "sessionEnd", "beforeTurn", "beforeTool", "turnEnd"}

\* Codex names its sessions to a peer (discoverNativeSessions).
Registers == IF adapter = "codex" THEN {"register"} ELSE {}

Events == (CASE adapter = "claude" -> ClaudeEvents
             [] adapter = "codex" -> CodexEvents
             [] adapter = "kimi" -> KimiEvents
             [] adapter = "antigravity" -> AntigravityEvents
             [] adapter = "grok" -> GrokEvents
             [] adapter = "gemini" -> GeminiEvents) \cup Registers

\* runHook: the kinds that hold the lifecycle lock from the load of the binding
\* to their last write.
Lifecycle == {"sessionStart", "sessionEnd", "beforeTurn", "heartbeat", "register"}

HInit ==
    /\ adapter \in Adapters
    /\ room = NoFile /\ choosing = {} /\ routed = {}
    /\ bind = [w \in Rooms |-> NoFile]
    /\ sess = [i \in Ids |-> Absent]
    /\ holder = [w \in Rooms |-> Idle]
    /\ client = 1 /\ started = 1
    /\ mishaps = 0

Mishap == mishaps < MaxMishaps /\ mishaps' = mishaps + 1

Routing == <<adapter, room, choosing, routed>>
World == <<client, started, mishaps>>

HolderAt(w, pc) == holder[w].pc = pc
Goes(w, pc) == holder' = [holder EXCEPT ![w].pc = pc]
Seen(w) == holder[w].seen     \* the binding as the hook loaded it
Found(w) == holder[w].found   \* the client's pid as the hook knows it

\* locateSession of the pair in a binding.
Open(b) == sess[b.id].st = "open" /\ sess[b.id].gen = b.gen
Closed(b) == sess[b.id].st = "closed" /\ sess[b.id].gen = b.gen
Gone(b) == sess[b.id].st \in {"absent", "gone"}

\* The hook is over: by its answer, by a throw (fail open), or by a kill.
Ends(w) == holder' = [holder EXCEPT ![w] = Idle]

-----------------------------------------------------------------------------
(* The way in: the room, the lock and the binding.                         *)

\* A start, a turn or a registration in directory w finds no record.
Arrive(w) ==
    /\ room = NoFile /\ client # 0 /\ w \notin choosing
    /\ choosing' = choosing \cup {w}
    /\ UNCHANGED <<adapter, room, routed, bind, sess, holder, World>>

\* resolveHookWorkspace under its lock: the first hook's room is everybody's.
Chosen(w) == IF room = NoFile THEN w ELSE room

Choose(w) ==
    /\ w \in choosing
    /\ room' = Chosen(w)
    /\ choosing' = choosing \ {w} /\ routed' = routed \cup {room'}
    /\ UNCHANGED <<adapter, bind, sess, holder, World>>

\* Mutant: a registration does not ask whether the conversation is known.
KnownUnasked(w) == FALSE

\* registerNativeSession: a conversation with a binding is left alone.
Known(w) == bind[w] # NoFile

Handler(kind) ==
    CASE kind \in {"sessionStart", "register"} -> "drop"
      [] kind = "beforeTurn" -> "turn"
      [] kind = "heartbeat" -> "beat"
      [] kind = "sessionEnd" -> "end"

\* withSessionLifecycle, for a hook of client process c, which may have exited
\* while the hook waited: the store is opened again and the binding loaded.  A
\* registration is handed the pid that its peer discovered, and no binding.
Enter(w, kind, c) ==
    /\ w \in routed /\ holder[w] = Idle
    /\ kind \in Events \cap Lifecycle
    /\ kind = "register" => ~Known(w)
    /\ IF kind = "sessionEnd" THEN Mishap ELSE UNCHANGED mishaps
    /\ holder' = [holder EXCEPT ![w] =
          [pc |-> Handler(kind), kind |-> kind, client |-> c,
           seen |-> IF kind = "register" THEN NoFile ELSE bind[w],
           found |-> IF kind = "register" THEN c ELSE 0, late |-> FALSE, new |-> 0]]
    /\ UNCHANGED <<Routing, bind, sess, client, started>>
-----------------------------------------------------------------------------
(* beforeTurn and heartbeat: whether to start again.                       *)

\* clientGone: the process the binding names has exited.
clientGone(b) == b.pid # 0 /\ b.pid # client

\* resolveClient in a table read now: the hook's own client, while it runs.
\* The read may fail or come too late, and then nobody is found.
TableRead(w) == {0} \cup (IF holder[w].client = client THEN {client} ELSE {})

\* Mutant: a client that could not be found at the start is not looked for.
LateClientNever(w) == {0}

\* A turn looks again for the client of an open session bound without one.
LateClient(w) == IF Seen(w).pid = 0 /\ Open(Seen(w)) THEN TableRead(w) ELSE {0}

\* Nothing to resume, or nothing but the session of a former incarnation.
TurnStarts(w) ==
    /\ HolderAt(w, "turn")
    /\ Seen(w) # NoFile => Gone(Seen(w)) \/ Closed(Seen(w))
    /\ Goes(w, "drop")
    /\ UNCHANGED <<Routing, bind, sess, World>>

\* The client restarted, or is found only now: start again, keep the session.
TurnRestarts(w, p) ==
    /\ HolderAt(w, "turn") /\ Seen(w) # NoFile
    /\ ~Gone(Seen(w)) /\ ~Closed(Seen(w))
    /\ p \in LateClient(w)
    /\ p # 0 \/ clientGone(Seen(w))
    /\ holder' = [holder EXCEPT ![w].pc = "drop", ![w].late = TRUE, ![w].found = p]
    /\ UNCHANGED <<Routing, bind, sess, World>>

\* An ordinary turn: the heartbeat, which throws for a replaced session, the
\* native binding and the projection.
TurnPasses(w) ==
    /\ HolderAt(w, "turn") /\ Seen(w) # NoFile
    /\ ~Gone(Seen(w)) /\ ~Closed(Seen(w))
    /\ 0 \in LateClient(w) /\ ~clientGone(Seen(w))
    /\ Ends(w)
    /\ UNCHANGED <<Routing, bind, sess, World>>

\* heartbeat of a client with a native transport.
Heartbeat(w) ==
    /\ HolderAt(w, "beat")
    /\ IF Seen(w) # NoFile /\ Open(Seen(w)) THEN Goes(w, "drop") ELSE Ends(w)
    /\ UNCHANGED <<Routing, bind, sess, World>>
-----------------------------------------------------------------------------
(* sessionStart.                                                           *)

\* The client's facts are taken off a binding before they are read again.
Drop(w) ==
    /\ HolderAt(w, "drop")
    /\ bind' = IF Seen(w) = NoFile THEN bind
               ELSE [bind EXCEPT ![w] = Binding(Seen(w).id, 0)]
    /\ Goes(w, "probe")
    /\ UNCHANGED <<Routing, sess, World>>

\* The process table and the client's version, unless the pid is known.
Probe(w, p) ==
    /\ HolderAt(w, "probe")
    /\ p \in IF Found(w) # 0 THEN {Found(w)} ELSE TableRead(w)
    /\ holder' = [holder EXCEPT ![w].found = p,
                                ![w].pc = IF Seen(w) = NoFile THEN "allocate"
                                          ELSE IF holder[w].kind = "beforeTurn" THEN "check"
                                          ELSE "resume"]
    /\ UNCHANGED <<Routing, bind, sess, World>>

\* A turn looks again after the probes: the session is gone or closed or, for a
\* client that restarted, still open; anything else is a replacement.
Check(w) ==
    LET b == Seen(w) IN
    /\ HolderAt(w, "check")
    /\ IF Gone(b) \/ Closed(b) \/ (holder[w].late /\ Open(b))
       THEN Goes(w, "resume")
       ELSE Ends(w)
    /\ UNCHANGED <<Routing, bind, sess, World>>

\* resumeSession: only the open generation that the binding names.
Resumable(b) == Open(b)

Resume(w) ==
    LET b == Seen(w) IN
    /\ HolderAt(w, "resume")
    /\ IF Resumable(b)
       THEN /\ sess' = [sess EXCEPT ![b.id].pid = Found(w)]
            /\ holder' = [holder EXCEPT ![w].new = b.id, ![w].pc = "store"]
       ELSE UNCHANGED sess /\ Goes(w, "allocate")
    /\ UNCHANGED <<Routing, bind, World>>

\* Ids that were never given out: each is random and new.
NewIds == {i \in Ids : /\ sess[i] = Absent
                       /\ \A w \in Rooms : bind[w] = NoFile \/ bind[w].id # i
                       /\ \A w \in Rooms : holder[w] = Idle \/ holder[w].new # i}
NewId == CHOOSE i \in NewIds : \A j \in NewIds : i <= j

\* "Persist ownership before creating its session."
Allocate(w) ==
    /\ HolderAt(w, "allocate") /\ NewIds # {}
    /\ bind' = [bind EXCEPT ![w] = Binding(NewId, 0)]
    /\ holder' = [holder EXCEPT ![w].new = NewId, ![w].pc = "open"]
    /\ UNCHANGED <<Routing, sess, World>>

OpenOwned(w) ==
    /\ HolderAt(w, "open")
    /\ sess' = [sess EXCEPT ![holder[w].new] =
                  [st |-> "open", gen |-> 1, pid |-> Found(w), room |-> w]]
    /\ Goes(w, "store")
    /\ UNCHANGED <<Routing, bind, World>>

\* The binding with the client's facts, and the answer.
Store(w) ==
    /\ HolderAt(w, "store")
    /\ bind' = [bind EXCEPT ![w] = Binding(holder[w].new, Found(w))]
    /\ Ends(w)
    /\ UNCHANGED <<Routing, sess, World>>
-----------------------------------------------------------------------------
(* sessionEnd.                                                             *)

EndLook(w) ==
    /\ HolderAt(w, "end")
    /\ IF Seen(w) = NoFile THEN Ends(w)
       ELSE Goes(w, IF Open(Seen(w)) THEN "close" ELSE "unbind")
    /\ UNCHANGED <<Routing, bind, sess, World>>

\* A closed session keeps its durable record and loses its ephemeral one.
Closing(i) == \E st \in {"closed", "gone"} : sess' = [sess EXCEPT ![i].st = st]

\* closeSession refuses a pair that was replaced since the look.
EndClose(w) ==
    /\ HolderAt(w, "close")
    /\ \/ Open(Seen(w)) /\ Closing(Seen(w).id) /\ Goes(w, "unbind")
       \/ ~Open(Seen(w)) /\ Ends(w) /\ UNCHANGED sess
    /\ UNCHANGED <<Routing, bind, World>>

EndUnbind(w) ==
    /\ HolderAt(w, "unbind")
    /\ bind' = [bind EXCEPT ![w] = NoFile]
    /\ Ends(w)
    /\ UNCHANGED <<Routing, sess, World>>
-----------------------------------------------------------------------------
(* What happens around the hooks.                                          *)

\* A kill, an expired budget before a publication, or a failed read.
Cut(w) ==
    /\ holder[w] # Idle /\ Mishap
    /\ Ends(w)
    /\ UNCHANGED <<Routing, bind, sess, client, started>>

\* acc detach, by whoever has the pair.
Detach(i) ==
    /\ sess[i].st = "open" /\ Mishap
    /\ Closing(i)
    /\ UNCHANGED <<Routing, bind, holder, client, started>>

\* acc attach --session: another generation of the same id, where the session is
\* closed or its process confirmed dead (assertReplaceable).
Replace(i) ==
    /\ sess[i] # Absent /\ Mishap
    /\ sess[i].st # "open" \/ sess[i].pid \notin {0, client}
    /\ sess' = [sess EXCEPT ![i].st = "open", ![i].gen = 2, ![i].pid = 0]
    /\ UNCHANGED <<Routing, bind, holder, client, started>>

ClientExits ==
    /\ client # 0 /\ started < MaxClients
    /\ client' = 0
    /\ UNCHANGED <<Routing, bind, sess, holder, started, mishaps>>

\* The conversation is opened again, maybe elsewhere and maybe without a
\* SessionStart (Antigravity 2.0).
ClientStarts ==
    /\ client = 0
    /\ client' = started + 1 /\ started' = started + 1
    /\ UNCHANGED <<Routing, bind, sess, holder, mishaps>>

HolderStep(w) ==
    \/ TurnStarts(w) \/ (\E p \in Pids : TurnRestarts(w, p)) \/ TurnPasses(w) \/ Heartbeat(w)
    \/ Drop(w) \/ (\E p \in Pids : Probe(w, p)) \/ Check(w) \/ Resume(w)
    \/ Allocate(w) \/ OpenOwned(w) \/ Store(w)
    \/ EndLook(w) \/ EndClose(w) \/ EndUnbind(w)

HNext ==
    \/ \E w \in Rooms :
          \/ Arrive(w) \/ Choose(w) \/ HolderStep(w) \/ Cut(w)
          \/ \E kind \in Events \cap Lifecycle, c \in 1 .. started : Enter(w, kind, c)
    \/ \E i \in Ids : Detach(i) \/ Replace(i)
    \/ ClientExits \/ ClientStarts

HSpec == HInit /\ [][HNext]_hvars

\* What fairness is about: a running hook goes on, the user keeps taking turns
\* and a turn gets its lock in the end, and the process table is not unreadable
\* for ever.
Runs == \E w \in Rooms : HolderStep(w) \/ Choose(w)
TakesTurn == \E w \in Rooms : Arrive(w) \/ (client # 0 /\ Enter(w, "beforeTurn", client))
Finds == \E w \in Rooms, p \in Pids \ {0} : TurnRestarts(w, p) \/ Probe(w, p)

(***************************************************************************)
(* Properties.                                                             *)
(***************************************************************************)
HookOpen(i) == sess[i].st = "open" /\ sess[i].gen = 1

\* However its hooks race, die and are repeated, however often it is registered
\* and wherever it goes, the conversation has one open session at most; its
\* binding names it, so that the next hook finds it; and no hook takes over the
\* session that a user attached in its place (it would leave its pid there).
OneOwner ==
    /\ \A i \in Ids : HookOpen(i) =>
          /\ bind[sess[i].room] # NoFile
          /\ bind[sess[i].room].id = i
          /\ \A j \in Ids : HookOpen(j) => j = i
    /\ \A i \in Ids : sess[i].gen = 2 => sess[i].pid = 0

\* The session and its binding both name the client that is running.
Bound ==
    \E w \in Rooms : /\ bind[w] # NoFile /\ HookOpen(bind[w].id)
                     /\ bind[w].pid = client /\ sess[bind[w].id].pid = client

\* The user attached a session of their own in the place of the bound one; no
\* turn takes it over, and only a session start opens another.
Displaced == \E w \in Rooms : bind[w] # NoFile /\ sess[bind[w].id].gen = 2

\* A conversation whose client runs on and takes turns comes to have a session
\* bound to that client, also when the client restarted without saying so, was
\* not found at the start, or its hooks were cut between any two writes.
Rebound == <>[](client # 0) => []<>(Bound \/ Displaced)
=============================================================================
