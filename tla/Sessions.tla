------------------------------ MODULE Sessions ------------------------------
(***************************************************************************)
(* Sessions of one workspace: opening, resuming, heartbeats, intents,      *)
(* closing, and the lazy materialisation of the workspace                  *)
(* (packages/core/src: sessions, session-opening, materialisation,         *)
(* intents).                                                               *)
(*                                                                         *)
(* A lone session keeps its record and its intent in the ephemeral area.   *)
(* The second live session, or the first durable object, materialises the  *)
(* workspace: one transaction copies every ephemeral record into the       *)
(* durable store, and the copies are deleted afterwards, one by one.       *)
(*                                                                         *)
(* Every operation runs in a hook, a short-lived process.  Its durable     *)
(* transactions and its ephemeral updates and deletes each run under the   *)
(* writer mutex and are one step; what it reads without the mutex is a     *)
(* step of its own.  A hook may be killed between two steps, and a client  *)
(* may die while a hook of its session is still running.                   *)
(*                                                                         *)
(* Left out as data: participants (written once, never changed), display   *)
(* fields and heartbeat times.  An intent is known by the generation that  *)
(* wrote it.                                                               *)
(***************************************************************************)
EXTENDS Naturals, FiniteSets

CONSTANTS
    Clients,   \* client processes; a session's pid is its client
    Ids,       \* session identifiers
    Hooks,     \* processes that run the operations
    MaxGen,    \* bound: how many generations are handed out
    MaxOps,    \* bound: how many operations are started
    None       \* no record

ASSUME SessionBoundsAssumption == MaxGen \in Nat /\ MaxOps \in Nat

VARIABLES
    workspace,  \* has the durable workspace record been written?
    eph,        \* eph[i]: the ephemeral session record of i, or None
    dur,        \* dur[i]: the durable session record of i, or None
    ephIntent,  \* ephIntent[i]: the ephemeral intent of i, or None
    durIntent,  \* durIntent[i]: the durable intent of i, or None
    nextGen,    \* the generation ids.next hands out next
    live,       \* the clients that are running
    op,         \* op[h]: the operation hook h is in
    ops,        \* how many operations were started
    given,      \* the sessions openSession has returned: [id, gen]
    \* History, read by the properties alone.
    holder,     \* holder[g]: the client that opened or last resumed g, or None
    opened,     \* opened[g]: session.opened events recorded for g
    closing,    \* generations for which a close was asked
    closed,     \* generations whose close was recorded
    said,       \* said[g]: what the last intent operation of g did
    refused,    \* generations refused although their owner is alive
    paired      \* were two sessions ever open at once, or a durable object asked for?

records == <<workspace, eph, dur, ephIntent, durIntent>>
history == <<holder, opened, closing, closed, said, refused, paired>>
vars == <<records, nextGen, live, op, ops, given, history>>

-----------------------------------------------------------------------------
Gens == 1 .. MaxGen

SessionRecord == [gen : Gens, state : {"open", "closed"}, pid : Clients]

IntentRecord == [gen : Gens, done : BOOLEAN]

ASSUME NoneAssumption ==
    None \notin Clients /\ None \notin Ids /\ None \notin SessionRecord
    /\ None \notin IntentRecord

NoOp == [pc |-> "idle", task |-> "none", id |-> None, gen |-> 0, client |-> None,
         reserved |-> FALSE, seen |-> None, copies |-> {}, intents |-> {}]

\* Mutant: a generation that was not given is not replaced by a fresh one.
SessionWithoutGeneration(g, c) == [gen |-> 0, state |-> "open", pid |-> c]

\* sessionRecord: what openSession writes.
Session(g, c) == [gen |-> g, state |-> "open", pid |-> c]

Intent(g) == [gen |-> g, done |-> FALSE]

IsOpen(record) == record # None /\ record.state = "open"

\* The session an id stands for: the durable record answers first.
Owner(i) == IF dur[i] # None THEN dur[i] ELSE eph[i]

\* The intent a reader of the workspace is shown.
Visible(i) == IF workspace THEN durIntent[i] ELSE ephIntent[i]

\* assertAvailable and assertReplaceable: a closed session may be replaced, and an
\* open one only if its pid is confirmed dead; a reserved generation replaces
\* nothing.
Available(record, reserved) ==
    record # None => ~reserved /\ (record.state = "closed" \/ record.pid \notin live)

\* requireOwner, and the checks of beat: the record is open and of generation g.
Owns(record, g) == IsOpen(record) /\ record.gen = g

EphOpen == {i \in Ids : IsOpen(eph[i])}

At(h, task, stage) == op[h].task = task /\ op[h].pc = stage

Goto(h, stage) == op' = [op EXCEPT ![h].pc = stage]

End(h) == op' = [op EXCEPT ![h] = NoOp]

\* A conflict is thrown: `refused` if the generation was handed out, nobody asked
\* to close it and its client is alive.
Refuse(h) ==
    /\ End(h)
    /\ refused' = IF /\ [id |-> op[h].id, gen |-> op[h].gen] \in given
                     /\ op[h].gen \notin closing
                     /\ holder[op[h].gen] \in live
                  THEN refused \cup {op[h].gen} ELSE refused

\* `paired` once this step leaves two sessions open.
NotePair(nextEph, nextDur) ==
    LET after(i) == IF nextDur[i] # None THEN nextDur[i] ELSE nextEph[i] IN
    paired' = (paired \/ \E i, j \in Ids : i # j /\ IsOpen(after(i)) /\ IsOpen(after(j)))

-----------------------------------------------------------------------------
Init ==
    /\ workspace = FALSE
    /\ eph = [i \in Ids |-> None]
    /\ dur = [i \in Ids |-> None]
    /\ ephIntent = [i \in Ids |-> None]
    /\ durIntent = [i \in Ids |-> None]
    /\ nextGen = 1
    /\ live = Clients
    /\ op = [h \in Hooks |-> NoOp]
    /\ ops = 0
    /\ given = {}
    /\ holder = [g \in Gens |-> None]
    /\ opened = [g \in Gens |-> 0]
    /\ closing = {}
    /\ closed = {}
    /\ said = [g \in Gens |-> "nothing"]
    /\ refused = {}
    /\ paired = FALSE

\* A hook starts an operation.
Start(h, task, stage, id, gen, client) ==
    /\ op[h].pc = "idle"
    /\ ops < MaxOps
    /\ ops' = ops + 1
    /\ op' = [op EXCEPT ![h] = [NoOp EXCEPT !.pc = stage, !.task = task, !.id = id,
                                            !.gen = gen, !.client = client]]

-----------------------------------------------------------------------------
(* Steps that operations share.                                            *)

\* The end of locate: openSession asks assertAvailable, the intent operations
\* requireOwner.
Judge(h, found) ==
    LET proceed == op' = [op EXCEPT ![h].pc = "branch", ![h].seen = None] IN
    IF op[h].task = "open"
    THEN /\ IF Available(found, op[h].reserved) THEN proceed ELSE End(h)
         /\ UNCHANGED refused
    ELSE IF Owns(found, op[h].gen)
    THEN proceed /\ UNCHANGED refused
    ELSE Refuse(h)

\* Mutant: the durable record is read first and the ephemeral one after it.
LocateDurableFirst(h) ==
    LET i == op[h].id IN
    /\ \/ /\ op[h].pc = "locate"
          /\ op' = [op EXCEPT ![h].pc = "resolve", ![h].seen = dur[i]]
          /\ UNCHANGED refused
       \/ /\ op[h].pc = "resolve"
          /\ Judge(h, IF op[h].seen # None THEN op[h].seen ELSE eph[i])
    /\ UNCHANGED <<records, nextGen, live, ops, given, holder, opened, closing, closed,
                   said, paired>>

\* locate: the ephemeral record is read first, then the durable one, which answers
\* before it.
Locate(h) ==
    LET i == op[h].id IN
    /\ \/ /\ op[h].pc = "locate"
          /\ op' = [op EXCEPT ![h].pc = "resolve", ![h].seen = eph[i]]
          /\ UNCHANGED refused
       \/ /\ op[h].pc = "resolve"
          /\ Judge(h, IF dur[i] # None THEN dur[i] ELSE op[h].seen)
    /\ UNCHANGED <<records, nextGen, live, ops, given, holder, opened, closing, closed,
                   said, paired>>

\* isMaterialised, asked without the lock, decides which area the operation tries.
Branch(h) ==
    /\ op[h].pc = "branch"
    /\ \/ workspace /\ Goto(h, "durable")
       \/ ~workspace /\ op[h].task = "open" /\ Goto(h, "peek")
       \/ ~workspace /\ op[h].task \in {"set", "clear"} /\ Goto(h, "ephemeral")
       \/ ~workspace /\ op[h].task = "reclear" /\ End(h)
    /\ UNCHANGED <<records, nextGen, live, ops, given, history>>

-----------------------------------------------------------------------------
(* materialise.                                                            *)

\* The ephemeral sessions a materialising transaction copies: those without a
\* durable counterpart, except the copy that the opening itself replaces.
Promoted(skip) == {i \in Ids \ skip : eph[i] # None /\ dur[i] = None}

\* Mutant: a record that was promoted already is promoted again.
PromoteOverwrites(skip) ==
    /\ workspace' = TRUE
    /\ dur' = [i \in Ids |-> IF i \notin skip /\ eph[i] # None THEN eph[i] ELSE dur[i]]
    /\ durIntent' = [i \in Ids |-> IF durIntent[i] = None THEN ephIntent[i] ELSE durIntent[i]]
    /\ opened' = [g \in Gens |-> opened[g] +
                    Cardinality({i \in Ids \ skip : eph[i] # None /\ eph[i].gen = g})]
    /\ UNCHANGED <<eph, ephIntent>>

\* The transaction without an opening: the workspace record, then every ephemeral
\* record that has no durable counterpart, with its session.opened event.
Promote(skip) ==
    /\ workspace' = TRUE
    /\ dur' = [i \in Ids |-> IF i \in Promoted(skip) THEN eph[i] ELSE dur[i]]
    /\ durIntent' = [i \in Ids |-> IF durIntent[i] = None THEN ephIntent[i] ELSE durIntent[i]]
    /\ opened' = [g \in Gens |-> opened[g] +
                    Cardinality({i \in Promoted(skip) : eph[i].gen = g})]
    /\ UNCHANGED <<eph, ephIntent>>

\* `staged`: the copies to delete once the transaction has committed.
StageCopies(h) ==
    op' = [op EXCEPT ![h].pc = "cleanup",
                     ![h].copies = {i \in Ids : eph[i] # None},
                     ![h].intents = {i \in Ids : ephIntent[i] # None}]

\* materialise, called by openSession or by ensureMaterialised.
Materialise(h) ==
    /\ op[h].pc = "materialise"
    /\ Promote({})
    /\ StageCopies(h)
    /\ UNCHANGED <<nextGen, live, ops, given, holder, closing, closed, said, refused, paired>>

\* One ephemeral.delete of the loop that ends materialise: sessions, then intents.
Cleanup(h) ==
    /\ op[h].pc = "cleanup"
    /\ \/ \E i \in op[h].copies :
             /\ eph' = [eph EXCEPT ![i] = None]
             /\ op' = [op EXCEPT ![h].copies = @ \ {i}]
             /\ UNCHANGED ephIntent
       \/ \E i \in op[h].intents :
             /\ op[h].copies = {}
             /\ ephIntent' = [ephIntent EXCEPT ![i] = None]
             /\ op' = [op EXCEPT ![h].intents = @ \ {i}]
             /\ UNCHANGED eph
       \/ /\ op[h].copies = {} /\ op[h].intents = {}
          /\ Goto(h, "return")
          /\ UNCHANGED <<eph, ephIntent>>
    /\ UNCHANGED <<workspace, dur, durIntent, nextGen, live, ops, given, history>>

\* ensureMaterialised, asked for by the first durable object of a session: the
\* look is taken without the lock.
Ensure(h, s) ==
    /\ ~workspace
    /\ Start(h, "ensure", "materialise", s.id, s.gen, None)
    /\ paired' = TRUE
    /\ UNCHANGED <<records, nextGen, live, given, holder, opened, closing, closed, said,
                   refused>>

-----------------------------------------------------------------------------
(* openSession.                                                            *)

\* The call.  A fresh generation may be taken at any time before it is written.
Open(h, c, i, reserved) ==
    /\ c \in live
    /\ nextGen <= MaxGen
    /\ op[h].pc = "idle"
    /\ ops < MaxOps
    /\ ops' = ops + 1
    /\ op' = [op EXCEPT ![h] = [NoOp EXCEPT !.pc = "locate", !.task = "open", !.id = i,
                   !.gen = nextGen, !.client = c, !.reserved = reserved]]
    /\ nextGen' = nextGen + 1
    /\ UNCHANGED <<records, live, given, history>>

\* joining: is another session open already?  Asked without the lock.
OpenPeek(h) ==
    /\ At(h, "open", "peek")
    /\ Goto(h, IF EphOpen \ {op[h].id} # {} THEN "join" ELSE "ephemeral")
    /\ UNCHANGED <<records, nextGen, live, ops, given, history>>

\* The second session opens in the transaction that materialises.
Join(h) ==
    LET i == op[h].id
        g == op[h].gen
        copied == Promoted({i})
        durable == [j \in Ids |-> IF j = i THEN Session(g, op[h].client)
                                  ELSE IF j \in copied THEN eph[j] ELSE dur[j]]
    IN
    /\ workspace' = TRUE
    /\ dur' = durable
    /\ durIntent' = [j \in Ids |-> IF durIntent[j] = None THEN ephIntent[j] ELSE durIntent[j]]
    /\ opened' = [x \in Gens |-> opened[x] + (IF x = g THEN 1 ELSE 0) +
                    Cardinality({j \in copied : eph[j].gen = x})]
    /\ holder' = [holder EXCEPT ![g] = op[h].client]
    /\ StageCopies(h)
    /\ NotePair(eph, durable)
    /\ UNCHANGED <<eph, ephIntent>>

\* Mutant: the look taken without the lock is not taken again under it.
OpenJoinUnchecked(h) ==
    /\ At(h, "open", "join")
    /\ \/ ~Available(Owner(op[h].id), op[h].reserved) /\ End(h)
          /\ UNCHANGED <<records, holder, opened, paired>>
       \/ Available(Owner(op[h].id), op[h].reserved) /\ Join(h)
    /\ UNCHANGED <<nextGen, live, ops, given, closing, closed, said, refused>>

\* materialise with an opening.  It asks again under the lock: if the session it
\* joins has gone, nothing is written and the opening goes on ephemerally.
OpenJoin(h) ==
    LET company == workspace \/ EphOpen \ {op[h].id} # {}
        available == Available(Owner(op[h].id), op[h].reserved)
    IN
    /\ At(h, "open", "join")
    /\ \/ ~company /\ Goto(h, "ephemeral")
          /\ UNCHANGED <<records, holder, opened, paired>>
       \/ company /\ ~available /\ End(h)
          /\ UNCHANGED <<records, holder, opened, paired>>
       \/ company /\ available /\ Join(h)
    /\ UNCHANGED <<nextGen, live, ops, given, closing, closed, said, refused>>

\* The session record is published in the ephemeral area.
PublishEphemeral(h) ==
    LET published == [eph EXCEPT ![op[h].id] = Session(op[h].gen, op[h].client)] IN
    /\ eph' = published
    /\ holder' = [holder EXCEPT ![op[h].gen] = op[h].client]
    /\ Goto(h, "count")
    /\ NotePair(published, dur)

\* Mutant: isMaterialised is not asked again under the lock.
OpenEphemeralLate(h) ==
    /\ At(h, "open", "ephemeral")
    /\ \/ Available(eph[op[h].id], op[h].reserved) /\ PublishEphemeral(h)
       \/ ~Available(eph[op[h].id], op[h].reserved) /\ End(h)
          /\ UNCHANGED <<eph, holder, paired>>
    /\ UNCHANGED <<workspace, dur, ephIntent, durIntent, nextGen, live, ops, given, opened,
                   closing, closed, said, refused>>

\* Mutant: the availability judged before the lock is trusted under it.
OpenEphemeralUnavailable(h) ==
    /\ At(h, "open", "ephemeral")
    /\ \/ workspace /\ Goto(h, "durable") /\ UNCHANGED <<eph, holder, paired>>
       \/ ~workspace /\ PublishEphemeral(h)
    /\ UNCHANGED <<workspace, dur, ephIntent, durIntent, nextGen, live, ops, given, opened,
                   closing, closed, said, refused>>

\* ephemeral.update: promotion may have won, and the id may have been taken.
OpenEphemeral(h) ==
    LET available == Available(eph[op[h].id], op[h].reserved) IN
    /\ At(h, "open", "ephemeral")
    /\ \/ workspace /\ Goto(h, "durable") /\ UNCHANGED <<eph, holder, paired>>
       \/ ~workspace /\ ~available /\ End(h) /\ UNCHANGED <<eph, holder, paired>>
       \/ ~workspace /\ available /\ PublishEphemeral(h)
    /\ UNCHANGED <<workspace, dur, ephIntent, durIntent, nextGen, live, ops, given, opened,
                   closing, closed, said, refused>>

\* How many sessions are open by now, without the lock.
OpenCount(h) ==
    /\ At(h, "open", "count")
    /\ Goto(h, IF Cardinality(EphOpen) > 1 THEN "materialise" ELSE "recheck")
    /\ UNCHANGED <<records, nextGen, live, ops, given, history>>

\* Has another opener promoted this session meanwhile?
OpenRecheck(h) ==
    /\ At(h, "open", "recheck")
    /\ Goto(h, IF workspace THEN "materialise" ELSE "return")
    /\ UNCHANGED <<records, nextGen, live, ops, given, history>>

\* openDurable: the id is judged again inside the transaction.
OpenDurable(h) ==
    LET i == op[h].id
        durable == [dur EXCEPT ![i] = Session(op[h].gen, op[h].client)]
    IN
    /\ At(h, "open", "durable")
    /\ \/ /\ Available(dur[i], op[h].reserved)
          /\ dur' = durable
          /\ opened' = [opened EXCEPT ![op[h].gen] = @ + 1]
          /\ holder' = [holder EXCEPT ![op[h].gen] = op[h].client]
          /\ Goto(h, "return")
          /\ NotePair(eph, durable)
       \/ /\ ~Available(dur[i], op[h].reserved)
          /\ End(h)
          /\ UNCHANGED <<dur, opened, holder, paired>>
    /\ UNCHANGED <<workspace, eph, ephIntent, durIntent, nextGen, live, ops, given, closing,
                   closed, said, refused>>

\* The call returns; openSession hands out the session.
Return(h) ==
    /\ op[h].pc = "return"
    /\ given' = IF op[h].task = "open"
                THEN given \cup {[id |-> op[h].id, gen |-> op[h].gen]} ELSE given
    /\ End(h)
    /\ UNCHANGED <<records, nextGen, live, ops, history>>

-----------------------------------------------------------------------------
(* heartbeatSession and recordNotices, which take the same path.           *)

Heartbeat(h, s) ==
    /\ Start(h, "beat", "look", s.id, s.gen, None)
    /\ UNCHANGED <<records, nextGen, live, given, history>>

\* ephemeral.get and isMaterialised, without the lock; both answers are only a
\* hint, since each writer below looks again.
HeartbeatLook(h) ==
    /\ At(h, "beat", "look")
    /\ Goto(h, IF eph[op[h].id] = None \/ workspace THEN "durable" ELSE "ephemeral")
    /\ UNCHANGED <<records, nextGen, live, ops, given, history>>

\* ephemeral.update(beat): the record under the lock gets a new heartbeat time.
HeartbeatEphemeral(h) ==
    LET current == eph[op[h].id] IN
    /\ At(h, "beat", "ephemeral")
    /\ \/ (current = None \/ workspace) /\ Goto(h, "durable") /\ UNCHANGED refused
       \/ current # None /\ ~workspace /\ Owns(current, op[h].gen)
          /\ End(h) /\ UNCHANGED refused
       \/ current # None /\ ~workspace /\ ~Owns(current, op[h].gen) /\ Refuse(h)
    /\ UNCHANGED <<records, nextGen, live, ops, given, holder, opened, closing, closed, said,
                   paired>>

HeartbeatDurable(h) ==
    /\ At(h, "beat", "durable")
    /\ IF Owns(dur[op[h].id], op[h].gen) THEN End(h) /\ UNCHANGED refused ELSE Refuse(h)
    /\ UNCHANGED <<records, nextGen, live, ops, given, holder, opened, closing, closed, said,
                   paired>>

-----------------------------------------------------------------------------
(* resumeSession: client c takes up the session a binding names.           *)

Resume(h, s, c) ==
    /\ c \in live
    /\ Start(h, "resume", "ephemeral", s.id, s.gen, c)
    /\ UNCHANGED <<records, nextGen, live, given, history>>

\* null, so that the durable record is tried, unless the record under the lock is
\* the one the binding names.
ResumeEphemeral(h) ==
    LET i == op[h].id IN
    /\ At(h, "resume", "ephemeral")
    /\ \/ /\ ~workspace /\ Owns(eph[i], op[h].gen)
          /\ eph' = [eph EXCEPT ![i].pid = op[h].client]
          /\ holder' = [holder EXCEPT ![op[h].gen] = op[h].client]
          /\ End(h)
       \/ /\ workspace \/ ~Owns(eph[i], op[h].gen)
          /\ Goto(h, "durable")
          /\ UNCHANGED <<eph, holder>>
    /\ UNCHANGED <<workspace, dur, ephIntent, durIntent, nextGen, live, ops, given, opened,
                   closing, closed, said, refused, paired>>

\* Null again means that the caller opens a new session: nobody is refused.
ResumeDurable(h) ==
    LET i == op[h].id IN
    /\ At(h, "resume", "durable")
    /\ \/ /\ Owns(dur[i], op[h].gen)
          /\ dur' = [dur EXCEPT ![i].pid = op[h].client]
          /\ holder' = [holder EXCEPT ![op[h].gen] = op[h].client]
       \/ /\ ~Owns(dur[i], op[h].gen)
          /\ UNCHANGED <<dur, holder>>
    /\ End(h)
    /\ UNCHANGED <<workspace, eph, ephIntent, durIntent, nextGen, live, ops, given, opened,
                   closing, closed, said, refused, paired>>

-----------------------------------------------------------------------------
(* closeSession.                                                           *)

Close(h, s) ==
    /\ Start(h, "close", "ephemeral", s.id, s.gen, None)
    /\ closing' = closing \cup {s.gen}
    /\ UNCHANGED <<records, nextGen, live, given, holder, opened, closed, said, refused, paired>>

\* ephemeral.delete of the session, guarded: a promoted copy is left alone, and a
\* replaced generation is refused.
CloseEphemeral(h) ==
    LET current == eph[op[h].id] IN
    /\ At(h, "close", "ephemeral")
    /\ \/ (current = None \/ workspace) /\ Goto(h, "durable") /\ UNCHANGED <<eph, closed>>
       \/ /\ current # None /\ ~workspace /\ current.gen = op[h].gen
          /\ eph' = [eph EXCEPT ![op[h].id] = None]
          /\ closed' = closed \cup {op[h].gen}
          /\ Goto(h, "intent")
       \/ current # None /\ ~workspace /\ current.gen # op[h].gen
          /\ End(h) /\ UNCHANGED <<eph, closed>>
    /\ UNCHANGED <<workspace, dur, ephIntent, durIntent, nextGen, live, ops, given, holder,
                   opened, closing, said, refused, paired>>

\* Mutant: the intent is deleted whoever owns the id by now.
CloseIntentUnguarded(h) ==
    /\ At(h, "close", "intent")
    /\ ephIntent' = [ephIntent EXCEPT ![op[h].id] = None]
    /\ End(h)
    /\ UNCHANGED <<workspace, eph, dur, durIntent, nextGen, live, ops, given, history>>

\* The separate delete of the intent, unless the id has a session again.
CloseIntent(h) ==
    LET i == op[h].id IN
    /\ At(h, "close", "intent")
    /\ ephIntent' = IF eph[i] = None THEN [ephIntent EXCEPT ![i] = None] ELSE ephIntent
    /\ End(h)
    /\ UNCHANGED <<workspace, eph, dur, durIntent, nextGen, live, ops, given, history>>

\* The durable record is marked closed, whatever its state was.
CloseDurable(h) ==
    LET i == op[h].id
        owned == dur[i] # None /\ dur[i].gen = op[h].gen
    IN
    /\ At(h, "close", "durable")
    /\ \/ /\ owned
          /\ dur' = [dur EXCEPT ![i].state = "closed"]
          /\ closed' = closed \cup {op[h].gen}
       \/ /\ ~owned
          /\ UNCHANGED <<dur, closed>>
    /\ End(h)
    /\ UNCHANGED <<workspace, eph, ephIntent, durIntent, nextGen, live, ops, given, holder,
                   opened, closing, said, refused, paired>>

-----------------------------------------------------------------------------
(* setIntent and clearIntent: both begin with requireOwner, without lock.  *)

IntentOp(h, s, task) ==
    /\ Start(h, task, "locate", s.id, s.gen, None)
    /\ UNCHANGED <<records, nextGen, live, given, history>>

\* Mutant: isMaterialised is not asked again under the lock.
SetEphemeralLate(h) ==
    LET i == op[h].id IN
    /\ At(h, "set", "ephemeral")
    /\ \/ /\ Owns(Owner(i), op[h].gen)
          /\ ephIntent' = [ephIntent EXCEPT ![i] = Intent(op[h].gen)]
          /\ said' = [said EXCEPT ![op[h].gen] = "set"]
          /\ End(h) /\ UNCHANGED refused
       \/ /\ ~Owns(Owner(i), op[h].gen)
          /\ Refuse(h) /\ UNCHANGED <<ephIntent, said>>
    /\ UNCHANGED <<workspace, eph, dur, durIntent, nextGen, live, ops, given, holder, opened,
                   closing, closed, paired>>

\* ephemeral.update: promotion may have won, and the session may have been closed
\* or replaced, since the looks.
SetEphemeral(h) ==
    LET i == op[h].id
        owns == Owns(Owner(i), op[h].gen)
    IN
    /\ At(h, "set", "ephemeral")
    /\ \/ workspace /\ Goto(h, "durable") /\ UNCHANGED <<ephIntent, said, refused>>
       \/ /\ ~workspace /\ owns
          /\ ephIntent' = [ephIntent EXCEPT ![i] = Intent(op[h].gen)]
          /\ said' = [said EXCEPT ![op[h].gen] = "set"]
          /\ End(h) /\ UNCHANGED refused
       \/ ~workspace /\ ~owns /\ Refuse(h) /\ UNCHANGED <<ephIntent, said>>
    /\ UNCHANGED <<workspace, eph, dur, durIntent, nextGen, live, ops, given, holder, opened,
                   closing, closed, paired>>

SetDurable(h) ==
    LET i == op[h].id
        owns == Owns(dur[i], op[h].gen)
    IN
    /\ At(h, "set", "durable")
    /\ \/ /\ owns
          /\ durIntent' = [durIntent EXCEPT ![i] = Intent(op[h].gen)]
          /\ said' = [said EXCEPT ![op[h].gen] = "set"]
          /\ End(h) /\ UNCHANGED refused
       \/ ~owns /\ Refuse(h) /\ UNCHANGED <<durIntent, said>>
    /\ UNCHANGED <<workspace, eph, dur, ephIntent, nextGen, live, ops, given, holder, opened,
                   closing, closed, paired>>

\* ephemeral.delete of the intent.  The guard is not asked when there is no intent:
\* then the owner is required once more, and isMaterialised asked once more.
ClearEphemeral(h) ==
    LET i == op[h].id
        owns == Owns(Owner(i), op[h].gen)
        again == op' = [op EXCEPT ![h].pc = "locate", ![h].task = "reclear"]
    IN
    /\ At(h, "clear", "ephemeral")
    /\ \/ (ephIntent[i] = None \/ workspace) /\ again /\ UNCHANGED <<ephIntent, said, refused>>
       \/ /\ ephIntent[i] # None /\ ~workspace /\ owns
          /\ ephIntent' = [ephIntent EXCEPT ![i] = None]
          /\ said' = [said EXCEPT ![op[h].gen] = "cleared"]
          /\ End(h) /\ UNCHANGED refused
       \/ /\ ephIntent[i] # None /\ ~workspace /\ ~owns
          /\ Refuse(h) /\ UNCHANGED <<ephIntent, said>>
    /\ UNCHANGED <<workspace, eph, dur, durIntent, nextGen, live, ops, given, holder, opened,
                   closing, closed, paired>>

\* Mutant: a cleared durable intent is erased instead of marked done.
ClearDurableErases(h) ==
    LET i == op[h].id
        owns == Owns(dur[i], op[h].gen)
    IN
    /\ op[h].task \in {"clear", "reclear"} /\ op[h].pc = "durable"
    /\ \/ owns /\ durIntent' = [durIntent EXCEPT ![i] = None]
          /\ said' = [said EXCEPT ![op[h].gen] = "cleared"]
          /\ End(h) /\ UNCHANGED refused
       \/ ~owns /\ Refuse(h) /\ UNCHANGED <<durIntent, said>>
    /\ UNCHANGED <<workspace, eph, dur, ephIntent, nextGen, live, ops, given, holder, opened,
                   closing, closed, paired>>

\* A durable intent is marked done, not erased.
ClearDurable(h) ==
    LET i == op[h].id
        owns == Owns(dur[i], op[h].gen)
    IN
    /\ op[h].task \in {"clear", "reclear"} /\ op[h].pc = "durable"
    /\ \/ /\ owns /\ durIntent[i] # None
          /\ durIntent' = [durIntent EXCEPT ![i].done = TRUE]
          /\ said' = [said EXCEPT ![op[h].gen] = "cleared"]
          /\ End(h) /\ UNCHANGED refused
       \/ owns /\ durIntent[i] = None /\ End(h) /\ UNCHANGED <<durIntent, said, refused>>
       \/ ~owns /\ Refuse(h) /\ UNCHANGED <<durIntent, said>>
    /\ UNCHANGED <<workspace, eph, dur, ephIntent, nextGen, live, ops, given, holder, opened,
                   closing, closed, paired>>

-----------------------------------------------------------------------------
\* A hook is killed between two steps.
HookKilled(h) ==
    /\ op[h].pc # "idle"
    /\ End(h)
    /\ UNCHANGED <<records, nextGen, live, ops, given, history>>

\* A client exits without closing its session.
ClientDies(c) ==
    /\ c \in live
    /\ live' = live \ {c}
    /\ UNCHANGED <<records, nextGen, op, ops, given, history>>

Step(h) ==
    \/ Locate(h) \/ Branch(h) \/ Materialise(h) \/ Cleanup(h) \/ Return(h)
    \/ OpenPeek(h) \/ OpenJoin(h) \/ OpenEphemeral(h) \/ OpenCount(h) \/ OpenRecheck(h)
    \/ OpenDurable(h)
    \/ HeartbeatLook(h) \/ HeartbeatEphemeral(h) \/ HeartbeatDurable(h)
    \/ ResumeEphemeral(h) \/ ResumeDurable(h)
    \/ CloseEphemeral(h) \/ CloseIntent(h) \/ CloseDurable(h)
    \/ SetEphemeral(h) \/ SetDurable(h) \/ ClearEphemeral(h) \/ ClearDurable(h)
    \/ HookKilled(h)

\* The operations on a session that was handed out, by a hook that may be late.
Call(h) ==
    \/ \E c \in Clients, i \in Ids, reserved \in BOOLEAN : Open(h, c, i, reserved)
    \/ \E s \in given :
          \/ Ensure(h, s) \/ Heartbeat(h, s) \/ Close(h, s)
          \/ \E c \in Clients : Resume(h, s, c)
          \/ \E task \in {"set", "clear"} : IntentOp(h, s, task)

Next ==
    \/ \E h \in Hooks : Call(h) \/ Step(h)
    \/ \E c \in Clients : ClientDies(c)

Spec == Init /\ [][Next]_vars

-----------------------------------------------------------------------------
(* Properties.                                                             *)

\* Every record has the fields the code gives it.
TypeOK ==
    /\ workspace \in BOOLEAN
    /\ eph \in [Ids -> SessionRecord \cup {None}]
    /\ dur \in [Ids -> SessionRecord \cup {None}]
    /\ ephIntent \in [Ids -> IntentRecord \cup {None}]
    /\ durIntent \in [Ids -> IntentRecord \cup {None}]
    /\ nextGen \in 1 .. MaxGen + 1
    /\ live \subseteq Clients
    /\ ops \in 0 .. MaxOps
    /\ \A s \in given : s.id \in Ids /\ s.gen \in Gens
    /\ holder \in [Gens -> Clients \cup {None}]
    /\ opened \in [Gens -> Nat]
    /\ closing \subseteq Gens /\ closed \subseteq closing /\ refused \subseteq Gens
    /\ said \in [Gens -> {"nothing", "set", "cleared"}]
    /\ paired \in BOOLEAN

\* Once the workspace is materialised, no ephemeral record is without its durable
\* counterpart: a crash between the transaction of materialise and the retirement
\* of the copies leaves a duplicate, never a hole, and no late opener or intent
\* adds an ephemeral record that the durable readers cannot see.
DurableCoversCopies ==
    workspace => \A i \in Ids :
        /\ eph[i] # None => dur[i] # None
        /\ ephIntent[i] # None => durIntent[i] # None

\* Acquisition (assertReplaceable): while a session is open and its process alive,
\* no step gives its id to another generation; only its own close ends it.
LiveOwnerNotReplaced ==
    [][\A i \in Ids : IsOpen(Owner(i)) /\ Owner(i).pid \in live =>
          \/ IsOpen(Owner(i)') /\ Owner(i)'.gen = Owner(i).gen
          \/ Owner(i).gen \in closed']_vars

\* The owner of a live session that nobody asked to close is never told that its
\* session is not open or was replaced, whatever promotion moves between the two
\* areas while its operation looks for the session.
OwnerNotRefused == refused = {}

\* A closed generation is never open again: no delayed heartbeat, resumption or
\* promotion restores the record of a session that was closed.
ClosedStaysClosed ==
    \A i \in Ids : IsOpen(Owner(i)) => Owner(i).gen \notin closed

\* The feed tells of each session's opening at most once, however many promotions,
\* retries and crashes the opening met.
OpenedOnce == \A g \in Gens : opened[g] <= 1

\* A lone session leaves no durable trace: the workspace is materialised only after
\* two sessions were open at once or a durable object was asked for.
LoneSessionLeavesNoTrace == workspace => paired

\* The intent shown for an open session is what its own last intent operation said:
\* neither promotion nor the delayed cleanup of an earlier session of the same id
\* erases it, hides it or brings back a cleared one.
IntentAsStated ==
    \A s \in given : Owns(Owner(s.id), s.gen) =>
        /\ said[s.gen] = "set" => Visible(s.id) = Intent(s.gen)
        /\ said[s.gen] = "cleared" => Visible(s.id) = None \/ Visible(s.id).done

\* The move between the two areas loses and doubles nothing: the durable record
\* covers the copies, the owner finds its session, the feed tells of it once.
MoveIsSeamless == DurableCoversCopies /\ OwnerNotRefused /\ OpenedOnce

\* What a session said last is what the store says of it: a close stays a close
\* and an intent stays what it was.
LastWordStands == ClosedStaysClosed /\ IntentAsStated
=============================================================================
