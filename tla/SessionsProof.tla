--------------------------- MODULE SessionsProof ---------------------------
(***************************************************************************)
(* Proofs about Sessions, for every set of clients, identifiers and hooks  *)
(* and every bound on generations and operations.                          *)
(*                                                                         *)
(* The argument has three layers.  The areas: promotion happens once, so   *)
(* before it the durable area is empty and after it every ephemeral record *)
(* is a copy.  The generations: a generation stands for one id, and until  *)
(* its opener writes it nothing on disk knows it; so a record that has     *)
(* left an id never comes back.  The owners: the record that answers for   *)
(* an id names the client that opened or resumed it last, and a generation *)
(* that was handed out, was not asked to close and whose client lives is   *)
(* that record's.                                                          *)
(***************************************************************************)
EXTENDS Sessions, FiniteSetTheorems, TLAPS

Stages == {"idle", "locate", "resolve", "branch", "peek", "join", "ephemeral", "durable",
           "count", "recheck", "materialise", "cleanup", "return", "look", "intent"}

Tasks == {"none", "open", "ensure", "beat", "resume", "close", "set", "clear", "reclear"}

Operation == [pc : Stages, task : Tasks, id : Ids \cup {None}, gen : Gens \cup {0},
              client : Clients \cup {None}, reserved : BOOLEAN,
              seen : SessionRecord \cup {None}, copies : SUBSET Ids, intents : SUBSET Ids]

\* The stages of openSession before and after its record is written.
Unwritten == {"locate", "resolve", "branch", "peek", "join", "ephemeral", "durable"}

WrittenStages == {"count", "recheck", "materialise", "cleanup", "return"}

\* A hook at work knows its session, and the client that opens or resumes it.
OperationsTyped ==
    /\ op \in [Hooks -> Operation]
    /\ \A h \in Hooks : op[h].pc # "idle" =>
        /\ op[h].id \in Ids /\ op[h].gen \in Gens /\ op[h].task # "none"
        /\ op[h].task \in {"open", "resume"} => op[h].client \in Clients
        /\ op[h].task = "open" => op[h].pc \in Unwritten \cup WrittenStages
        /\ op[h].pc \in WrittenStages => op[h].task \in {"open", "ensure"}
    /\ \A h \in Hooks : op[h].pc = "idle" => op[h].task = "none"
    /\ \A h \in Hooks : op[h].task = "close" => op[h].gen \in closing

SessionTypes == TypeOK /\ OperationsTyped

\* The areas.  Before the workspace record is written nothing is durable; whoever
\* retires copies or opens durably comes after it.
AreasApart ==
    /\ DurableCoversCopies
    /\ ~workspace => /\ \A i \in Ids : dur[i] = None /\ durIntent[i] = None
                     /\ \A g \in Gens : opened[g] = 0
    /\ \A h \in Hooks : op[h].pc = "cleanup" => workspace
    /\ \A h \in Hooks : op[h].pc = "durable" /\ op[h].task \in {"open", "set", "clear", "reclear"}
                          => workspace

\* The hook that opens a session and has not written it, or has.
Fresh(h) == op[h].task = "open" /\ op[h].pc \in Unwritten

Written(h) == op[h].task = "open" /\ op[h].pc \in WrittenStages

\* Generation g was given out for id i: it was handed out, or is about to be, or a
\* record carries it.
Issued(i, g) ==
    \/ [id |-> i, gen |-> g] \in given
    \/ \E h \in Hooks : Written(h) /\ op[h].id = i /\ op[h].gen = g

Known(i, g) ==
    \/ Issued(i, g)
    \/ eph[i] # None /\ eph[i].gen = g
    \/ dur[i] # None /\ dur[i].gen = g

\* Some record or hook carries g.
Carried(g) == \E i \in Ids : Known(i, g)

\* The generations.
GenerationsUnique ==
    /\ given \subseteq [id : Ids, gen : Gens]
    /\ \A i, j \in Ids, g \in Gens : Known(i, g) /\ Known(j, g) => i = j
    /\ \A i \in Ids, g \in Gens : Known(i, g) => g < nextGen
    /\ \A h \in Hooks : Fresh(h) =>
        /\ op[h].gen < nextGen
        /\ \A i \in Ids, g \in Gens : g = op[h].gen => ~Known(i, g)
        /\ opened[op[h].gen] = 0
    /\ \A h, k \in Hooks : Fresh(h) /\ op[k].task = "open" /\ op[h].gen = op[k].gen => h = k
    /\ \A g \in Gens : g >= nextGen => opened[g] = 0
    /\ \A h \in Hooks : op[h].pc # "idle" /\ op[h].task # "open" =>
        [id |-> op[h].id, gen |-> op[h].gen] \in given
    /\ \A g \in Gens : g \in closing \/ said[g] # "nothing" =>
        \E i \in Ids : [id |-> i, gen |-> g] \in given

\* The record that answers for an id names the last client that took it up.
HolderNamed == \A i \in Ids : Owner(i) # None => holder[Owner(i).gen] = Owner(i).pid

\* A generation that was issued, was not asked to close and has a living client
\* owns its id.
IssuedOwns ==
    \A i \in Ids, g \in Gens :
        Issued(i, g) /\ g \notin closing /\ holder[g] \in live => Owns(Owner(i), g)

\* What a hook saw, or the area it was sent to, still is where its session is.
LooksHold ==
    \A h \in Hooks :
        /\ op[h].pc = "resolve" /\ op[h].task # "open" /\ dur[op[h].id] = None
             /\ Owns(eph[op[h].id], op[h].gen) => Owns(op[h].seen, op[h].gen)
        /\ op[h].pc = "durable" /\ op[h].task = "beat"
             /\ Owns(Owner(op[h].id), op[h].gen) => workspace

\* Two open sessions were noted, and whoever is about to materialise has a reason.
PairsNoted ==
    /\ \A i, j \in Ids : i # j /\ IsOpen(Owner(i)) /\ IsOpen(Owner(j)) => paired
    /\ workspace => paired
    /\ \A h \in Hooks : op[h].pc = "materialise" => paired

\* The inductive invariant.
SessionInv ==
    /\ SessionTypes /\ AreasApart /\ GenerationsUnique
    /\ HolderNamed /\ IssuedOwns /\ LooksHold
    /\ OwnerNotRefused /\ OpenedOnce /\ ClosedStaysClosed
    /\ PairsNoted /\ IntentAsStated

-----------------------------------------------------------------------------
(* The first layer: types.                                                 *)

\* Nothing has happened yet.
LEMMA InitTypes == Init => SessionTypes
<1> SUFFICES ASSUME Init PROVE SessionTypes
  OBVIOUS
<1>1. NoOp \in Operation /\ NoOp.pc = "idle" /\ NoOp.task = "none"
  BY DEF NoOp, Operation, Stages, Tasks
<1>2. TypeOK
  <2> USE SessionBoundsAssumption DEF Init, Gens
  <2>1. /\ eph \in [Ids -> SessionRecord \cup {None}] /\ dur \in [Ids -> SessionRecord \cup {None}]
        /\ ephIntent \in [Ids -> IntentRecord \cup {None}]
        /\ durIntent \in [Ids -> IntentRecord \cup {None}]
    OBVIOUS
  <2>2. nextGen \in 1 .. MaxGen + 1 /\ ops \in 0 .. MaxOps
    OBVIOUS
  <2>3. /\ holder \in [Gens -> Clients \cup {None}] /\ opened \in [Gens -> Nat]
        /\ said \in [Gens -> {"nothing", "set", "cleared"}]
    OBVIOUS
  <2>4. QED
    BY <2>1, <2>2, <2>3 DEF TypeOK
<1>3. OperationsTyped
  BY <1>1 DEF Init, OperationsTyped
<1>4. QED
  BY <1>2, <1>3 DEF SessionTypes

\* How the steps change the operation of one hook, field by field.
SameOthers(h) == \A k \in Hooks : k # h => op'[k] = op[k]

\* The session hook h works for stays the same.
KeepsSession(h) ==
    /\ op'[h].id = op[h].id /\ op'[h].gen = op[h].gen /\ op'[h].client = op[h].client
    /\ op'[h].reserved = op[h].reserved

\* A hook that goes on keeps everything but its stage.
LEMMA GotoEffect ==
    ASSUME op \in [Hooks -> Operation], NEW h \in Hooks, NEW stage \in Stages, Goto(h, stage)
    PROVE  /\ op' \in [Hooks -> Operation] /\ SameOthers(h) /\ KeepsSession(h)
           /\ op'[h].pc = stage /\ op'[h].task = op[h].task /\ op'[h].seen = op[h].seen
  BY DEF Goto, Operation, SameOthers, KeepsSession

\* A hook whose operation ends is idle, and no other hook notices.
LEMMA EndEffect ==
    ASSUME op \in [Hooks -> Operation], NEW h \in Hooks, End(h)
    PROVE  /\ op' \in [Hooks -> Operation] /\ SameOthers(h)
           /\ op'[h].pc = "idle" /\ op'[h].task = "none"
  BY DEF End, Operation, NoOp, SameOthers, Stages, Tasks

\* A look without the lock.
Sees(h, stage, seen) == op' = [op EXCEPT ![h].pc = stage, ![h].seen = seen]

\* The two looks of locate set the stage and what was seen.
LEMMA LookEffect ==
    ASSUME op \in [Hooks -> Operation], NEW h \in Hooks,
           NEW stage \in Stages, NEW seen \in SessionRecord \cup {None}, Sees(h, stage, seen)
    PROVE  /\ op' \in [Hooks -> Operation] /\ SameOthers(h) /\ KeepsSession(h)
           /\ op'[h].pc = stage /\ op'[h].task = op[h].task /\ op'[h].seen = seen
<1>1. op' = [op EXCEPT ![h] = [op[h] EXCEPT !.pc = stage, !.seen = seen]]
  BY DEF Sees
<1>2. [op[h] EXCEPT !.pc = stage, !.seen = seen] \in Operation
  BY DEF Operation
<1>3. KeepsSession(h) /\ op'[h].pc = stage /\ op'[h].task = op[h].task /\ op'[h].seen = seen
  BY DEF Sees, Operation, KeepsSession
<1>4. QED
  BY <1>1, <1>2, <1>3 DEF SameOthers

\* StageCopies sets the stage and the two sets of copies to delete.
LEMMA StageEffect ==
    ASSUME op \in [Hooks -> Operation], NEW h \in Hooks, StageCopies(h)
    PROVE  /\ op' \in [Hooks -> Operation] /\ SameOthers(h) /\ KeepsSession(h)
           /\ op'[h].pc = "cleanup" /\ op'[h].task = op[h].task
<1> DEFINE copies == {i \in Ids : eph[i] # None}
           intents == {i \in Ids : ephIntent[i] # None}
<1>1. "cleanup" \in Stages /\ copies \in SUBSET Ids /\ intents \in SUBSET Ids
  BY DEF Stages
<1>2. op' = [op EXCEPT ![h].pc = "cleanup", ![h].copies = copies, ![h].intents = intents]
  BY DEF StageCopies
<1> HIDE DEF copies, intents
<1>3. op' = [op EXCEPT ![h] = [op[h] EXCEPT !.pc = "cleanup", !.copies = copies, !.intents = intents]]
  BY <1>2
<1>4. [op[h] EXCEPT !.pc = "cleanup", !.copies = copies, !.intents = intents] \in Operation
  BY <1>1 DEF Operation
<1>5. KeepsSession(h) /\ op'[h].pc = "cleanup" /\ op'[h].task = op[h].task
  BY <1>2 DEF Operation, KeepsSession
<1>6. QED
  BY <1>3, <1>4, <1>5 DEF SameOthers

\* clearIntent that found no ephemeral intent starts over as a second clear.
LEMMA AgainEffect ==
    ASSUME op \in [Hooks -> Operation], NEW h \in Hooks,
           op' = [op EXCEPT ![h].pc = "locate", ![h].task = "reclear"]
    PROVE  /\ op' \in [Hooks -> Operation] /\ SameOthers(h) /\ KeepsSession(h)
           /\ op'[h].pc = "locate" /\ op'[h].task = "reclear"
<1>1. "locate" \in Stages /\ "reclear" \in Tasks
  BY DEF Stages, Tasks
<1>2. op' = [op EXCEPT ![h] = [op[h] EXCEPT !.pc = "locate", !.task = "reclear"]]
  OBVIOUS
<1>3. [op[h] EXCEPT !.pc = "locate", !.task = "reclear"] \in Operation
  BY <1>1 DEF Operation
<1>4. KeepsSession(h) /\ op'[h].pc = "locate" /\ op'[h].task = "reclear"
  BY DEF Operation, KeepsSession
<1>5. QED
  BY <1>2, <1>3, <1>4 DEF SameOthers

\* openSession starts with all six fields of its operation.
LEMMA StartEffect ==
    ASSUME op \in [Hooks -> Operation], NEW h \in Hooks, NEW task \in Tasks,
           NEW stage \in Stages, NEW i \in Ids, NEW g \in Gens, NEW c \in Clients \cup {None},
           NEW reserved \in BOOLEAN,
           op' = [op EXCEPT ![h] = [NoOp EXCEPT !.pc = stage, !.task = task, !.id = i,
                                       !.gen = g, !.client = c, !.reserved = reserved]]
    PROVE  /\ op' \in [Hooks -> Operation] /\ SameOthers(h)
           /\ op'[h].pc = stage /\ op'[h].task = task
           /\ op'[h].id = i /\ op'[h].gen = g /\ op'[h].client = c
<1> DEFINE new == [NoOp EXCEPT !.pc = stage, !.task = task, !.id = i,
                               !.gen = g, !.client = c, !.reserved = reserved]
<1>1. new \in Operation
  BY DEF NoOp, Operation
<1>2. new.pc = stage /\ new.task = task /\ new.id = i /\ new.gen = g /\ new.client = c
  BY DEF NoOp
<1>3. op'[h] = new
  OBVIOUS
<1> HIDE DEF new
<1>4. QED
  BY <1>1, <1>2, <1>3 DEF SameOthers, new

\* One delete of the loop that ends materialise.
LEMMA CleanupEffect ==
    ASSUME op \in [Hooks -> Operation], NEW h \in Hooks, Cleanup(h)
    PROVE  /\ op' \in [Hooks -> Operation] /\ SameOthers(h) /\ KeepsSession(h)
           /\ op'[h].pc \in {"cleanup", "return"} /\ op'[h].task = op[h].task
<1> "return" \in Stages
  BY DEF Stages
<1>1. CASE Goto(h, "return")
  BY <1>1, GotoEffect
<1>2. ASSUME NEW i, op' = [op EXCEPT ![h].copies = @ \ {i}], op[h].pc = "cleanup"
      PROVE  /\ op' \in [Hooks -> Operation] /\ SameOthers(h) /\ KeepsSession(h)
             /\ op'[h].pc = "cleanup" /\ op'[h].task = op[h].task
  BY <1>2 DEF Operation, SameOthers, KeepsSession
<1>3. ASSUME NEW i, op' = [op EXCEPT ![h].intents = @ \ {i}], op[h].pc = "cleanup"
      PROVE  /\ op' \in [Hooks -> Operation] /\ SameOthers(h) /\ KeepsSession(h)
             /\ op'[h].pc = "cleanup" /\ op'[h].task = op[h].task
  BY <1>3 DEF Operation, SameOthers, KeepsSession
<1>4. QED
  BY <1>1, <1>2, <1>3 DEF Cleanup

\* Every other operation starts unreserved.
LEMMA BeginEffect ==
    ASSUME op \in [Hooks -> Operation], NEW h \in Hooks, NEW task \in Tasks,
           NEW stage \in Stages, NEW i \in Ids, NEW g \in Gens, NEW c \in Clients \cup {None},
           Start(h, task, stage, i, g, c)
    PROVE  /\ op' \in [Hooks -> Operation] /\ SameOthers(h)
           /\ op'[h].pc = stage /\ op'[h].task = task
           /\ op'[h].id = i /\ op'[h].gen = g /\ op'[h].client = c
<1> DEFINE new == [NoOp EXCEPT !.pc = stage, !.task = task, !.id = i, !.gen = g, !.client = c]
<1>1. new \in Operation
  BY DEF NoOp, Operation
<1>2. new.pc = stage /\ new.task = task /\ new.id = i /\ new.gen = g /\ new.client = c
  BY DEF NoOp
<1>3. op' = [op EXCEPT ![h] = new]
  BY DEF Start
<1> HIDE DEF new
<1>4. QED
  BY <1>1, <1>2, <1>3 DEF SameOthers

-----------------------------------------------------------------------------
(* The generations stay unique in a step that adds no knowledge of one but *)
(* by the hook that opens it.                                              *)

\* Hook k still opens what it opened.
SameOpening(k) ==
    /\ op'[k].task = "open" => op[k].task = "open" /\ op'[k].gen = op[k].gen
    /\ Fresh(k)' => Fresh(k)

\* What a step has to leave alone for the generations to stay unique.
LEMMA GenerationsPreserved ==
    ASSUME GenerationsUnique, SessionTypes, SessionTypes', nextGen' = nextGen,
           given' \subseteq [id : Ids, gen : Gens],
           \A k \in Hooks : SameOpening(k),
           \A i \in Ids, g \in Gens : Known(i, g)' =>
               \/ Known(i, g)
               \/ \E h \in Hooks : Fresh(h) /\ ~Fresh(h)' /\ i = op[h].id /\ g = op[h].gen,
           \A g \in Gens : opened'[g] # opened[g] => Carried(g)',
           \A h \in Hooks : op'[h].pc # "idle" /\ op'[h].task # "open" =>
               [id |-> op'[h].id, gen |-> op'[h].gen] \in given',
           \A g \in Gens : g \in closing' \/ said'[g] # "nothing" =>
               \E i \in Ids : [id |-> i, gen |-> g] \in given'
    PROVE  GenerationsUnique'
<1>1. \A h \in Hooks : Fresh(h) => op[h].id \in Ids /\ op[h].gen \in Gens
  BY DEF Fresh, Unwritten, SessionTypes, OperationsTyped
<1>2. \A i, j \in Ids, g \in Gens : Known(i, g)' /\ Known(j, g)' => i = j
  BY <1>1 DEF GenerationsUnique, Fresh
<1>3. \A i \in Ids, g \in Gens : Known(i, g)' => g < nextGen
  BY <1>1 DEF GenerationsUnique
<1>4. ASSUME NEW k \in Hooks, Fresh(k)'
      PROVE  /\ op'[k].gen < nextGen /\ op'[k].gen \in Gens
             /\ \A i \in Ids, g \in Gens : g = op'[k].gen => ~Known(i, g)'
  BY <1>1, <1>4 DEF SameOpening, GenerationsUnique, Fresh
<1>5. \A k \in Hooks : Fresh(k)' => opened'[op'[k].gen] = 0
  BY <1>4 DEF SameOpening, GenerationsUnique, Fresh, Carried
<1>6. \A h, k \in Hooks : Fresh(h)' /\ op'[k].task = "open" /\ op'[h].gen = op'[k].gen => h = k
  BY DEF SameOpening, GenerationsUnique, Fresh
<1>7. \A g \in Gens : g >= nextGen => opened'[g] = 0
  <2> SUFFICES ASSUME NEW g \in Gens, g >= nextGen, opened'[g] # 0 PROVE FALSE
    OBVIOUS
  <2>1. PICK i \in Ids : Known(i, g)'
    BY DEF GenerationsUnique, Carried
  <2>2. g < nextGen
    BY <1>3, <2>1
  <2>3. QED
    BY <2>2 DEF SessionTypes, TypeOK, Gens
<1>8. QED
  BY <1>2, <1>3, <1>4, <1>5, <1>6, <1>7 DEF GenerationsUnique

-----------------------------------------------------------------------------
(* Steps that change nothing but the operation of one hook.                *)

\* The operation ends, or goes on to a stage whose conditions hold.
Proceeds(h) ==
    \/ op'[h].pc = "idle" /\ op'[h].task = "none"
    \/ /\ KeepsSession(h) /\ op[h].pc # "idle" /\ op'[h].pc \notin {"idle", "cleanup"}
       /\ op'[h].task = op[h].task \/ (op[h].task = "clear" /\ op'[h].task = "reclear")
       /\ op'[h].task = "open" =>
            \/ op[h].pc \in Unwritten /\ op'[h].pc \in Unwritten
            \/ op[h].pc \in WrittenStages /\ op'[h].pc \in WrittenStages
       /\ op'[h].pc \in WrittenStages => op'[h].task \in {"open", "ensure"}
       /\ op'[h].pc = "materialise" => paired
       /\ op'[h].pc = "durable" /\ op'[h].task \in {"open", "set", "clear", "reclear"}
            => workspace
       /\ op'[h].pc = "durable" /\ op'[h].task = "beat" /\ Owns(Owner(op[h].id), op[h].gen)
            => workspace
       /\ op'[h].pc = "resolve" /\ op'[h].task # "open" /\ dur[op[h].id] = None
            /\ Owns(eph[op[h].id], op[h].gen) => Owns(op'[h].seen, op[h].gen)

\* A step that only moves one operation on keeps the invariant.
LEMMA OperationProceeds ==
    ASSUME SessionInv, NEW h \in Hooks, op' \in [Hooks -> Operation], SameOthers(h),
           Proceeds(h), ops' \in 0 .. MaxOps, UNCHANGED <<records, nextGen, live, given, history>>
    PROVE  SessionInv'
<1> USE DEF SessionInv
<1>1. SessionTypes'
  <2>1. TypeOK'
    BY DEF SessionTypes, TypeOK, records, history
  <2>2. OperationsTyped'
    BY DEF SessionTypes, OperationsTyped, Proceeds, KeepsSession, SameOthers, history
  <2>3. QED
    BY <2>1, <2>2 DEF SessionTypes
<1>2. /\ \A i : Owner(i)' = Owner(i) /\ Visible(i)' = Visible(i)
      /\ \A r, g : Owns(r, g)' = Owns(r, g)
  BY DEF Owner, Visible, records, Owns, IsOpen
<1>3. AreasApart'
  <2>1. DurableCoversCopies'
    BY DEF AreasApart, DurableCoversCopies, records
  <2>2. QED
    BY <2>1 DEF AreasApart, Proceeds, SameOthers, records, history
<1>4. \A k \in Hooks :
        /\ Fresh(k)' => Fresh(k) /\ op'[k].id = op[k].id /\ op'[k].gen = op[k].gen
        /\ Written(k)' => Written(k) /\ op'[k].id = op[k].id /\ op'[k].gen = op[k].gen
  BY DEF Fresh, Written, Proceeds, KeepsSession, SameOthers, Unwritten, WrittenStages
<1>5. \A i \in Ids, g \in Gens : /\ Issued(i, g)' => Issued(i, g)
                                 /\ Known(i, g)' => Known(i, g)
  BY <1>4 DEF Issued, Known, records
<1>6. GenerationsUnique'
  <2>1. \A k \in Hooks : SameOpening(k)
    BY <1>4 DEF SameOpening, Proceeds, KeepsSession, SameOthers
  <2>2. \A k \in Hooks : op'[k].pc # "idle" /\ op'[k].task # "open" =>
          [id |-> op'[k].id, gen |-> op'[k].gen] \in given'
    BY DEF GenerationsUnique, Proceeds, KeepsSession, SameOthers
  <2>3. QED
    BY <1>1, <1>5, <2>1, <2>2, GenerationsPreserved DEF GenerationsUnique, history
<1>7. HolderNamed'
  BY <1>2 DEF HolderNamed, history
<1>8. IssuedOwns'
  BY <1>2, <1>5 DEF IssuedOwns, history
<1>9. LooksHold'
  BY <1>2 DEF LooksHold, Proceeds, KeepsSession, SameOthers, records
<1>10. OwnerNotRefused' /\ OpenedOnce'
  BY DEF OwnerNotRefused, OpenedOnce, history
<1>11. ClosedStaysClosed' /\ PairsNoted'
  BY <1>2 DEF ClosedStaysClosed, PairsNoted, IsOpen, Proceeds, SameOthers, history, records
<1>12. IntentAsStated'
  BY <1>2 DEF IntentAsStated, history, Intent
<1>13. QED
  BY <1>1, <1>3, <1>6, <1>7, <1>8, <1>9, <1>10, <1>11, <1>12

\* A hook at work has a session.
LEMMA AtWork ==
    ASSUME SessionInv, NEW h \in Hooks, op[h].pc # "idle"
    PROVE  /\ op \in [Hooks -> Operation] /\ op[h].id \in Ids /\ op[h].gen \in Gens
           /\ op[h].task \in Tasks \ {"none"} /\ ops \in 0 .. MaxOps
           /\ eph[op[h].id] \in SessionRecord \cup {None}
           /\ dur[op[h].id] \in SessionRecord \cup {None}
  BY DEF SessionInv, SessionTypes, OperationsTyped, TypeOK, Operation

\* A conflict meets no owner: whoever is refused has closed, was replaced after
\* its client died, or has no client any more.
LEMMA RefusesNoOwner ==
    ASSUME SessionInv, NEW h \in Hooks, op[h].pc # "idle",
           ~Owns(Owner(op[h].id), op[h].gen), Refuse(h)
    PROVE  refused' = refused /\ End(h)
  BY AtWork DEF SessionInv, IssuedOwns, Issued, Refuse

\* An operation that ends without writing.
LEMMA EndKeeps ==
    ASSUME SessionInv, NEW h \in Hooks, End(h), ops' = ops,
           UNCHANGED <<records, nextGen, live, given, history>>
    PROVE  SessionInv'
<1>1. op \in [Hooks -> Operation] /\ ops \in 0 .. MaxOps
  BY DEF SessionInv, SessionTypes, OperationsTyped, TypeOK
<1>2. QED
  BY <1>1, EndEffect, OperationProceeds DEF Proceeds

\* The same for one that throws a conflict.
LEMMA RefuseKeeps ==
    ASSUME SessionInv, NEW h \in Hooks, op[h].pc # "idle",
           ~Owns(Owner(op[h].id), op[h].gen), Refuse(h), ops' = ops,
           UNCHANGED <<records, nextGen, live, given, holder, opened, closing, closed, said, paired>>
    PROVE  SessionInv'
  BY RefusesNoOwner, EndKeeps DEF history

\* locate: what was read of the ephemeral area holds until the durable one was.
LEMMA LocateKeeps ==
    ASSUME SessionInv, NEW h \in Hooks, Locate(h)
    PROVE  SessionInv'
<1> DEFINE i == op[h].id
           found == IF dur[i] # None THEN dur[i] ELSE op[h].seen
<1>1. /\ op[h].pc # "idle" /\ ops' = ops
      /\ UNCHANGED <<records, nextGen, live, given, holder, opened, closing, closed, said, paired>>
  BY DEF Locate
<1>2. /\ {"resolve", "branch"} \subseteq Stages /\ "resolve" \in Unwritten
      /\ "branch" \in Unwritten /\ "locate" \in Unwritten
      /\ "resolve" \notin WrittenStages /\ "branch" \notin WrittenStages
  BY DEF Stages, Unwritten, WrittenStages
<1>3. CASE /\ op[h].pc = "locate" /\ refused' = refused
           /\ Sees(h, "resolve", eph[i])
  <2>1. op' \in [Hooks -> Operation] /\ SameOthers(h) /\ KeepsSession(h)
        /\ op'[h].pc = "resolve" /\ op'[h].task = op[h].task /\ op'[h].seen = eph[i]
    BY <1>1, <1>2, <1>3, AtWork, LookEffect
  <2>2. Proceeds(h)
    BY <1>1, <1>2, <1>3, <2>1 DEF Proceeds
  <2>3. QED
    BY <1>1, <1>3, <2>1, <2>2, AtWork, OperationProceeds DEF history
<1>4. CASE op[h].pc = "resolve" /\ Judge(h, found)
  <2>1. ASSUME Sees(h, "branch", None), refused' = refused
        PROVE  SessionInv'
    <3>1. op' \in [Hooks -> Operation] /\ SameOthers(h) /\ KeepsSession(h)
          /\ op'[h].pc = "branch" /\ op'[h].task = op[h].task
      BY <1>1, <1>2, <2>1, AtWork, LookEffect
    <3>2. Proceeds(h)
      BY <1>1, <1>2, <1>4, <3>1 DEF Proceeds
    <3>3. QED
      BY <1>1, <2>1, <3>1, <3>2, AtWork, OperationProceeds DEF history
  <2>2. ASSUME op[h].task # "open", ~Owns(found, op[h].gen)
        PROVE  ~Owns(Owner(i), op[h].gen)
    BY <1>4, <2>2, NoneAssumption DEF Owner, SessionInv, LooksHold, Owns, IsOpen
  <2>3. QED
    BY <1>1, <1>4, <2>1, <2>2, EndKeeps, RefuseKeeps DEF Judge, Sees, history
<1>5. QED
  BY <1>3, <1>4 DEF Locate, Sees

\* Two open sessions in the ephemeral area were noted.
LEMMA CountNoted == SessionInv /\ Cardinality(EphOpen) > 1 => paired
<1> SUFFICES ASSUME SessionInv, ~paired
             PROVE  ~(Cardinality(EphOpen) > 1)
  BY DEF SessionInv, SessionTypes, TypeOK
<1>1. \A i, j \in EphOpen : i = j
  BY DEF EphOpen, SessionInv, PairsNoted, Owner, AreasApart
<1>2. CASE EphOpen = {}
  BY <1>2, FS_EmptySet
<1>3. CASE EphOpen # {}
  <2>1. PICK i \in EphOpen : TRUE
    BY <1>3
  <2>2. EphOpen = {i}
    BY <1>1, <2>1
  <2>3. Cardinality(EphOpen) = 1
    BY <2>2, FS_Singleton
  <2>4. QED
    BY <2>3
<1>4. QED
  BY <1>2, <1>3

\* An operation that goes on without writing.
LEMMA GotoKeeps ==
    ASSUME SessionInv, NEW h \in Hooks, op[h].pc # "idle", ops' = ops,
           UNCHANGED <<records, nextGen, live, given, history>>,
           NEW stage \in Stages \ {"idle", "cleanup", "resolve"}, Goto(h, stage),
           op[h].task = "open" => \/ op[h].pc \in Unwritten /\ stage \in Unwritten
                                  \/ op[h].pc \in WrittenStages /\ stage \in WrittenStages,
           stage \in WrittenStages => op[h].task = "open",
           stage = "materialise" => paired,
           stage = "durable" => \/ workspace \/ op[h].task \in {"resume", "close"}
                                \/ op[h].task = "beat" /\ eph[op[h].id] = None
    PROVE  SessionInv'
<1>1. op' \in [Hooks -> Operation] /\ SameOthers(h) /\ KeepsSession(h)
      /\ op'[h].pc = stage /\ op'[h].task = op[h].task
  BY AtWork, GotoEffect
<1>2. ~workspace /\ eph[op[h].id] = None => ~Owns(Owner(op[h].id), op[h].gen)
  BY AtWork DEF SessionInv, AreasApart, Owner, Owns, IsOpen
<1>3. Proceeds(h)
  BY <1>1, <1>2 DEF Proceeds
<1>4. QED
  BY <1>1, <1>3, AtWork, OperationProceeds

\* The looks that are taken without the lock decide only where a hook goes on.
LEMMA LooksKeep ==
    ASSUME SessionInv, NEW h \in Hooks,
           Branch(h) \/ OpenPeek(h) \/ OpenCount(h) \/ OpenRecheck(h) \/ HeartbeatLook(h)
    PROVE  SessionInv'
<1>1. /\ op[h].pc # "idle" /\ ops' = ops
      /\ UNCHANGED <<records, nextGen, live, given, history>>
  BY DEF Branch, OpenPeek, OpenCount, OpenRecheck, HeartbeatLook, At
<1> USE <1>1, GotoKeeps DEF Unwritten, WrittenStages, Stages
<1>2. CASE Branch(h)
  BY <1>2, EndKeeps DEF Branch
<1>3. CASE OpenPeek(h)
  BY <1>3 DEF OpenPeek, At
<1>4. CASE OpenCount(h)
  BY <1>4, CountNoted DEF OpenCount, At
<1>5. CASE OpenRecheck(h)
  BY <1>5 DEF OpenRecheck, At, SessionInv, PairsNoted
<1>6. CASE HeartbeatLook(h)
  BY <1>6 DEF HeartbeatLook, At
<1>7. QED
  BY <1>2, <1>3, <1>4, <1>5, <1>6

\* Whoever was sent to the durable area and still owns its id finds it there.
LEMMA DurableAnswers ==
    ASSUME SessionInv, NEW h \in Hooks, op[h].pc = "durable",
           op[h].task \in {"beat", "set", "clear", "reclear"}
    PROVE  Owns(Owner(op[h].id), op[h].gen) = Owns(dur[op[h].id], op[h].gen)
  BY AtWork DEF SessionInv, LooksHold, AreasApart, DurableCoversCopies, Owner, Owns, IsOpen

\* heartbeatSession, and a hook that is killed.
LEMMA HeartbeatKeeps ==
    ASSUME SessionInv, NEW h \in Hooks,
           HeartbeatEphemeral(h) \/ HeartbeatDurable(h) \/ HookKilled(h)
    PROVE  SessionInv'
<1>1. CASE HeartbeatEphemeral(h)
  <2>1. /\ op[h].pc # "idle" /\ ops' = ops /\ op[h].task = "beat"
        /\ UNCHANGED <<records, nextGen, live, given, holder, opened, closing, closed, said, paired>>
    BY <1>1 DEF HeartbeatEphemeral, At
  <2>2. ~workspace => Owner(op[h].id) = eph[op[h].id]
    BY <2>1, AtWork DEF SessionInv, AreasApart, Owner
  <2>3. CASE Goto(h, "durable") /\ refused' = refused
             /\ (eph[op[h].id] = None \/ workspace)
    BY <2>1, <2>3, GotoKeeps DEF history, Unwritten, WrittenStages, Stages
  <2>4. QED
    BY <1>1, <2>1, <2>2, <2>3, EndKeeps, RefuseKeeps DEF HeartbeatEphemeral, history
<1>2. CASE HeartbeatDurable(h)
  BY <1>2, DurableAnswers, EndKeeps, RefuseKeeps DEF HeartbeatDurable, At, history
<1>3. CASE HookKilled(h)
  BY <1>3, EndKeeps DEF HookKilled
<1>4. QED
  BY <1>1, <1>2, <1>3

-----------------------------------------------------------------------------
(* Steps that leave every owner alone.                                     *)

\* The operation ends, retires its copies or goes on to the intent.
Rests(h) ==
    \/ op'[h].pc = "idle" /\ op'[h].task = "none"
    \/ /\ KeepsSession(h) /\ op[h].pc # "idle" /\ op'[h].task = op[h].task
       /\ \/ op[h].pc \in WrittenStages /\ op'[h].pc \in {"cleanup", "return"}
          \/ op[h].task = "close" /\ op'[h].pc = "intent"

\* Such a step keeps the operations typed.
LEMMA RestsTyped ==
    ASSUME SessionTypes, NEW h \in Hooks, op' \in [Hooks -> Operation], SameOthers(h), Rests(h),
           closing' = closing
    PROVE  OperationsTyped'
  BY DEF SessionTypes, OperationsTyped, Rests, KeepsSession, SameOthers, Unwritten, WrittenStages

\* It issues no generation, and the hook keeps the session it was called for.
LEMMA RestsOpening ==
    ASSUME SessionTypes, NEW h \in Hooks, SameOthers(h), Rests(h), given' = given
    PROVE  /\ \A k \in Hooks : SameOpening(k)
           /\ \A i \in Ids, g \in Gens : Issued(i, g)' => Issued(i, g)
           /\ GenerationsUnique =>
                \A k \in Hooks : op'[k].pc # "idle" /\ op'[k].task # "open" =>
                    [id |-> op'[k].id, gen |-> op'[k].gen] \in given'
<1>1. \A k \in Hooks :
        /\ Fresh(k)' => Fresh(k)
        /\ op'[k].task = "open" => op[k].task = "open" /\ op'[k].gen = op[k].gen
        /\ Written(k)' => Written(k) /\ op'[k].id = op[k].id /\ op'[k].gen = op[k].gen
  BY DEF Rests, KeepsSession, SameOthers, Fresh, Written, Unwritten, WrittenStages
<1>2. \A k \in Hooks : SameOpening(k)
  BY <1>1 DEF SameOpening
<1>3. \A i \in Ids, g \in Gens : Issued(i, g)' => Issued(i, g)
  BY <1>1 DEF Issued
<1>4. GenerationsUnique =>
        \A k \in Hooks : op'[k].pc # "idle" /\ op'[k].task # "open" =>
            [id |-> op'[k].id, gen |-> op'[k].gen] \in given'
  BY DEF GenerationsUnique, Rests, KeepsSession, SameOthers
<1>5. QED
  BY <1>2, <1>3, <1>4

\* If every owner stays, so does all that is said of owners.
LEMMA OwnersKept ==
    ASSUME SessionInv, NEW h \in Hooks, SameOthers(h), Rests(h),
           \A j \in Ids : Owner(j)' = Owner(j) /\ (dur[j] # None => dur'[j] # None),
           workspace => workspace', workspace' => paired,
           UNCHANGED <<live, given, holder, closing, closed, refused, paired>>
    PROVE  /\ HolderNamed' /\ IssuedOwns' /\ LooksHold' /\ OwnerNotRefused'
           /\ ClosedStaysClosed' /\ PairsNoted'
<1> USE DEF SessionInv
<1>1. HolderNamed'
  BY DEF HolderNamed
<1>2. IssuedOwns'
  BY RestsOpening DEF IssuedOwns, Owns, IsOpen
<1>3. \A j \in Ids : dur'[j] = None => eph'[j] = eph[j]
  BY DEF Owner
<1>4. LooksHold'
  <2>1. \A k \in Hooks : op'[k].pc \in {"resolve", "durable"} =>
          op'[k] = op[k] /\ op[k].id \in Ids
    BY DEF Rests, SameOthers, SessionTypes, OperationsTyped
  <2>2. QED
    BY <1>3, <2>1 DEF LooksHold, Owns, IsOpen
<1>5. OwnerNotRefused' /\ ClosedStaysClosed'
  BY DEF OwnerNotRefused, ClosedStaysClosed, IsOpen
<1>6. PairsNoted'
  BY DEF PairsNoted, IsOpen, Rests, SameOthers
<1>7. QED
  BY <1>1, <1>2, <1>4, <1>5, <1>6

\* Promotion counts an opening only once, and only when it really promotes.
LEMMA PromotionCounts ==
    ASSUME SessionInv, NEW skip, NEW g \in Gens
    PROVE  \/ Cardinality({i \in Promoted(skip) : eph[i].gen = g}) = 0
           \/ /\ Cardinality({i \in Promoted(skip) : eph[i].gen = g}) = 1
              /\ opened[g] = 0 /\ ~workspace
              /\ \E i \in Ids : eph[i] # None /\ eph[i].gen = g
<1> DEFINE S == {i \in Promoted(skip) : eph[i].gen = g}
<1>1. \A i \in S : i \in Ids /\ eph[i] # None /\ dur[i] = None /\ eph[i].gen = g
  BY DEF Promoted
<1>2. \A i, j \in S : i = j
  BY <1>1 DEF SessionInv, GenerationsUnique, Known
<1> HIDE DEF S
<1>3. CASE S = {}
  BY <1>3, FS_EmptySet DEF S
<1>4. CASE S # {}
  <2>1. PICK i \in S : TRUE
    BY <1>4
  <2>2. S = {i}
    BY <1>2, <2>1
  <2>3. Cardinality(S) = 1
    BY <2>2, FS_Singleton
  <2>4. ~workspace /\ opened[g] = 0
    BY <1>1, <2>1 DEF SessionInv, AreasApart, DurableCoversCopies
  <2>5. QED
    BY <1>1, <2>1, <2>3, <2>4 DEF S
<1>5. QED
  BY <1>3, <1>4

\* The intents a promotion leaves in the durable area are those that were shown.
LEMMA PromotionShows ==
    ASSUME SessionInv, NEW i \in Ids
    PROVE  (IF durIntent[i] = None THEN ephIntent[i] ELSE durIntent[i]) = Visible(i)
  BY DEF SessionInv, AreasApart, DurableCoversCopies, Visible

\* materialise: every record moves, and nobody notices.
LEMMA MaterialiseKeeps ==
    ASSUME SessionInv, NEW h \in Hooks, Materialise(h)
    PROVE  SessionInv'
<1> USE DEF SessionInv
<1>1. op[h].pc = "materialise" /\ op[h].pc # "idle" /\ paired
  BY DEF Materialise, PairsNoted
<1>2. /\ op' \in [Hooks -> Operation] /\ SameOthers(h) /\ KeepsSession(h)
      /\ op'[h].pc = "cleanup" /\ op'[h].task = op[h].task
  BY <1>1, AtWork, StageEffect DEF Materialise
<1>3. Rests(h)
  BY <1>1, <1>2 DEF Rests, WrittenStages
<1>4. /\ workspace' = TRUE
      /\ \A i \in Ids : /\ dur'[i] = Owner(i) /\ durIntent'[i] = Visible(i)
                        /\ Owner(i)' = Owner(i) /\ Visible(i)' = Visible(i)
                        /\ eph'[i] = eph[i] /\ ephIntent'[i] = ephIntent[i]
                        /\ dur[i] # None => dur'[i] # None
  BY PromotionShows DEF Materialise, Promote, Promoted, Owner, Visible
<1>5. \A g \in Gens : /\ opened'[g] \in Nat /\ opened'[g] <= 1
                      /\ opened'[g] # opened[g] => Carried(g)'
  <2> SUFFICES ASSUME NEW g \in Gens
               PROVE  /\ opened'[g] \in Nat /\ opened'[g] <= 1
                      /\ opened'[g] # opened[g] => Carried(g)'
    OBVIOUS
  <2>1. opened'[g] = opened[g] + Cardinality({i \in Promoted({}) : eph[i].gen = g})
    BY DEF Materialise, Promote
  <2>2. opened[g] \in Nat /\ opened[g] <= 1
    BY DEF SessionTypes, TypeOK, OpenedOnce
  <2>3. CASE Cardinality({i \in Promoted({}) : eph[i].gen = g}) = 0
    BY <2>1, <2>2, <2>3
  <2>4. CASE Cardinality({i \in Promoted({}) : eph[i].gen = g}) = 1 /\ opened[g] = 0
             /\ \E i \in Ids : eph[i] # None /\ eph[i].gen = g
    BY <1>4, <2>1, <2>2, <2>4 DEF Known, Carried
  <2>5. QED
    BY <2>3, <2>4, PromotionCounts
<1>6. SessionTypes'
  <2>1. OperationsTyped'
    BY <1>2, <1>3, RestsTyped DEF Materialise
  <2>2. /\ dur' \in [Ids -> SessionRecord \cup {None}]
        /\ durIntent' \in [Ids -> IntentRecord \cup {None}]
    BY DEF Materialise, Promote, SessionTypes, TypeOK
  <2>3. opened' \in [Gens -> Nat]
    BY <1>5 DEF Materialise, Promote
  <2>4. QED
    BY <2>1, <2>2, <2>3 DEF SessionTypes, TypeOK, Materialise, Promote
<1>7. AreasApart'
  BY <1>4, PromotionShows DEF AreasApart, DurableCoversCopies, Owner, Visible
<1>8. GenerationsUnique'
  <2>1. \A i \in Ids, g \in Gens : Known(i, g)' => Known(i, g)
    BY <1>3, <1>2, <1>4, RestsOpening DEF Known, Owner, Materialise
  <2>2. /\ GenerationsUnique /\ SessionTypes /\ nextGen' = nextGen /\ given' = given
        /\ closing' = closing /\ said' = said
    BY DEF Materialise
  <2>3. \A g \in Gens : opened'[g] # opened[g] => Carried(g)'
    BY <1>5
  <2>4. QED
    BY <1>2, <1>3, <1>6, <2>1, <2>2, <2>3, RestsOpening, GenerationsPreserved
    DEF GenerationsUnique
<1>9. IntentAsStated'
  BY <1>4 DEF IntentAsStated, Materialise, GenerationsUnique, Owns, IsOpen, Intent
<1>10. OpenedOnce'
  BY <1>5 DEF OpenedOnce
<1>11. QED
  BY <1>1, <1>2, <1>3, <1>4, <1>6, <1>7, <1>8, <1>9, <1>10, OwnersKept DEF Materialise

\* A step that only retires copies or writes intents has to keep the types, the
\* areas and the intents.
LEMMA IntentStepKeeps ==
    ASSUME SessionInv, NEW h \in Hooks, SameOthers(h), Rests(h),
           SessionTypes', AreasApart', IntentAsStated',
           UNCHANGED <<workspace, dur, nextGen, live, given, holder, opened, closing, closed,
                       refused, paired>>,
           \A j \in Ids : Owner(j)' = Owner(j) /\ eph'[j] \in {eph[j], None},
           \A g \in Gens : said'[g] # said[g] => \E i \in Ids : [id |-> i, gen |-> g] \in given
    PROVE  SessionInv'
<1> USE DEF SessionInv
<1>1. GenerationsUnique'
  <2>1. \A i \in Ids, g \in Gens : Known(i, g)' => Known(i, g)
    BY RestsOpening DEF Known
  <2>2. \A g \in Gens : g \in closing' \/ said'[g] # "nothing" =>
          \E i \in Ids : [id |-> i, gen |-> g] \in given'
    BY DEF GenerationsUnique
  <2>3. QED
    BY <2>1, <2>2, RestsOpening, GenerationsPreserved DEF GenerationsUnique
<1>2. OpenedOnce'
  BY DEF OpenedOnce
<1>3. QED
  BY <1>1, <1>2, OwnersKept DEF PairsNoted

\* The end of materialise: only copies go.
LEMMA CleanupKeeps ==
    ASSUME SessionInv, NEW h \in Hooks, Cleanup(h)
    PROVE  SessionInv'
<1> USE DEF SessionInv
<1>1. op[h].pc = "cleanup" /\ op[h].pc # "idle" /\ workspace
  BY DEF Cleanup, AreasApart
<1>2. /\ op' \in [Hooks -> Operation] /\ SameOthers(h) /\ KeepsSession(h)
      /\ op'[h].pc \in {"cleanup", "return"} /\ op'[h].task = op[h].task
  BY <1>1, AtWork, CleanupEffect
<1>3. Rests(h)
  BY <1>1, <1>2 DEF Rests, WrittenStages
<1>4. /\ eph' \in [Ids -> SessionRecord \cup {None}] /\ ephIntent' \in [Ids -> IntentRecord \cup {None}]
      /\ \A j \in Ids : eph'[j] \in {eph[j], None} /\ ephIntent'[j] \in {ephIntent[j], None}
  BY DEF Cleanup, SessionTypes, TypeOK
<1>5. UNCHANGED <<workspace, dur, durIntent, nextGen, live, ops, given, history>>
  BY DEF Cleanup
<1>6. \A j \in Ids : Owner(j)' = Owner(j) /\ Visible(j)' = Visible(j)
  BY <1>1, <1>4, <1>5 DEF Owner, Visible, AreasApart, DurableCoversCopies
<1>7. SessionTypes'
  BY <1>2, <1>3, <1>4, <1>5, RestsTyped DEF SessionTypes, TypeOK, history
<1>8. AreasApart'
  BY <1>1, <1>4, <1>5 DEF AreasApart, DurableCoversCopies
<1>9. IntentAsStated'
  BY <1>5, <1>6 DEF IntentAsStated, GenerationsUnique, Owns, IsOpen, Intent, history
<1>10. QED
  BY <1>2, <1>3, <1>4, <1>5, <1>6, <1>7, <1>8, <1>9, IntentStepKeeps DEF history

\* The second delete of closeSession meets no session of its id.
LEMMA CloseIntentKeeps ==
    ASSUME SessionInv, NEW h \in Hooks, CloseIntent(h)
    PROVE  SessionInv'
<1> USE DEF SessionInv
<1> DEFINE i == op[h].id
<1>1. op[h].pc # "idle" /\ End(h)
  BY DEF CloseIntent, At
<1>2. /\ op' \in [Hooks -> Operation] /\ SameOthers(h)
      /\ op'[h].pc = "idle" /\ op'[h].task = "none" /\ i \in Ids
  BY <1>1, AtWork, EndEffect
<1>3. Rests(h)
  BY <1>2 DEF Rests
<1>4. UNCHANGED <<workspace, eph, dur, durIntent, nextGen, live, ops, given, history>>
  BY DEF CloseIntent
<1>5. /\ ephIntent' \in [Ids -> IntentRecord \cup {None}]
      /\ \A j \in Ids : ephIntent'[j] = ephIntent[j] \/ (ephIntent'[j] = None /\ eph[j] = None)
  BY <1>2 DEF CloseIntent, SessionTypes, TypeOK
<1>6. \A j \in Ids : /\ Owner(j)' = Owner(j)
                     /\ Visible(j)' = Visible(j) \/ Owner(j) = None
  BY <1>4, <1>5 DEF Owner, Visible, AreasApart
<1>7. SessionTypes'
  BY <1>2, <1>3, <1>4, <1>5, RestsTyped DEF SessionTypes, TypeOK, history
<1>8. AreasApart'
  BY <1>2, <1>4, <1>5 DEF AreasApart, DurableCoversCopies, SameOthers, history
<1>9. IntentAsStated'
  BY <1>4, <1>6 DEF IntentAsStated, GenerationsUnique, Owns, IsOpen, Intent, history
<1>10. QED
  BY <1>2, <1>3, <1>4, <1>6, <1>7, <1>8, <1>9, IntentStepKeeps DEF history

\* An intent operation that writes: the id is its own, what it shows is what it said.
LEMMA IntentWritten ==
    ASSUME SessionInv, NEW h \in Hooks, op[h].pc # "idle", op[h].task \in {"set", "clear", "reclear"},
           NEW i \in Ids, i = op[h].id, End(h), Owns(Owner(i), op[h].gen), NEW word \in {"set", "cleared"},
           said' = [said EXCEPT ![op[h].gen] = word],
           UNCHANGED <<workspace, eph, dur, nextGen, live, ops, given, holder, opened, closing,
                       closed, refused, paired>>,
           ephIntent' \in [Ids -> IntentRecord \cup {None}],
           durIntent' \in [Ids -> IntentRecord \cup {None}],
           \A j \in Ids : j # i => ephIntent'[j] = ephIntent[j] /\ durIntent'[j] = durIntent[j],
           word = "set" => Visible(i)' = Intent(op[h].gen),
           word = "cleared" => Visible(i)' = None \/ Visible(i)'.done,
           DurableCoversCopies', ~workspace => durIntent' = durIntent
    PROVE  SessionInv'
<1> USE DEF SessionInv
<1> DEFINE g == op[h].gen
<1>1. /\ op' \in [Hooks -> Operation] /\ SameOthers(h) /\ g \in Gens
      /\ op'[h].pc = "idle" /\ op'[h].task = "none" /\ [id |-> i, gen |-> g] \in given
  BY AtWork, EndEffect DEF GenerationsUnique
<1>2. Rests(h)
  BY <1>1 DEF Rests
<1>3. said' \in [Gens -> {"nothing", "set", "cleared"}] /\ said'[g] = word
      /\ \A x \in Gens : x # g => said'[x] = said[x]
  BY <1>1 DEF SessionTypes, TypeOK
<1>4. SessionTypes'
  BY <1>1, <1>2, <1>3, RestsTyped DEF SessionTypes, TypeOK
<1>5. AreasApart'
  BY <1>1 DEF AreasApart, SameOthers
<1>6. \A j \in Ids : Owner(j)' = Owner(j) /\ (j # i => Visible(j)' = Visible(j))
  BY DEF Owner, Visible
<1>7. IntentAsStated'
  <2> SUFFICES ASSUME NEW s \in given, Owns(Owner(s.id), s.gen)
               PROVE  /\ said'[s.gen] = "set" => Visible(s.id)' = Intent(s.gen)
                      /\ said'[s.gen] = "cleared" => Visible(s.id)' = None \/ Visible(s.id)'.done
    BY <1>6 DEF IntentAsStated, GenerationsUnique, Owns, IsOpen, Intent
  <2>1. s.id \in Ids /\ s.gen \in Gens /\ s = [id |-> s.id, gen |-> s.gen]
    BY DEF GenerationsUnique
  <2>2. CASE s.gen = g
    <3>1. s.id = i
      BY <1>1, <2>1, <2>2 DEF GenerationsUnique, Known, Issued
    <3>2. QED
      BY <1>3, <2>2, <3>1
  <2>3. CASE s.gen # g
    <3>1. s.id # i
      BY <2>3 DEF Owns
    <3>2. QED
      BY <1>3, <1>6, <2>1, <2>3, <3>1 DEF IntentAsStated
  <2>4. QED
    BY <2>2, <2>3
<1>8. QED
  BY <1>1, <1>2, <1>3, <1>4, <1>5, <1>6, <1>7, IntentStepKeeps

\* setIntent and clearIntent.
LEMMA IntentsKeep ==
    ASSUME SessionInv, NEW h \in Hooks,
           SetEphemeral(h) \/ SetDurable(h) \/ ClearEphemeral(h) \/ ClearDurable(h)
    PROVE  SessionInv'
<1> USE DEF SessionInv
<1>1. PICK i \in Ids : i = op[h].id
  BY AtWork DEF SetEphemeral, SetDurable, ClearEphemeral, ClearDurable, At
<1>2. /\ op[h].pc # "idle" /\ op[h].task \in {"set", "clear", "reclear"} /\ op[h].gen \in Gens
      /\ UNCHANGED <<workspace, eph, dur, nextGen, live, ops, given, holder, opened, closing,
                     closed, paired>>
  BY AtWork DEF SetEphemeral, SetDurable, ClearEphemeral, ClearDurable, At
<1>3. /\ ephIntent \in [Ids -> IntentRecord \cup {None}] /\ durIntent \in [Ids -> IntentRecord \cup {None}]
      /\ Intent(op[h].gen) \in IntentRecord
  BY <1>2 DEF SessionTypes, TypeOK, Intent, IntentRecord
<1>4. Intent(op[h].gen) # None
  BY <1>3, NoneAssumption
<1>5. CASE /\ SetEphemeral(h) /\ ~workspace /\ Owns(Owner(i), op[h].gen)
           /\ ephIntent' = [ephIntent EXCEPT ![i] = Intent(op[h].gen)]
           /\ said' = [said EXCEPT ![op[h].gen] = "set"] /\ End(h) /\ UNCHANGED refused
  <2>1. durIntent' = durIntent
    BY <1>5 DEF SetEphemeral
  <2>2. DurableCoversCopies'
    BY <1>2, <1>5 DEF DurableCoversCopies
  <2>3. \A g \in Gens : g = op[h].gen => Visible(i)' = Intent(g)
    BY <1>1, <1>2, <1>3, <1>5 DEF Visible
  <2>4. QED
    BY <1>1, <1>2, <1>3, <1>5, <2>1, <2>2, <2>3, IntentWritten
<1>6. CASE /\ SetDurable(h) /\ Owns(dur[i], op[h].gen)
           /\ durIntent' = [durIntent EXCEPT ![i] = Intent(op[h].gen)]
           /\ said' = [said EXCEPT ![op[h].gen] = "set"] /\ End(h) /\ UNCHANGED refused
  <2>1. ephIntent' = ephIntent /\ workspace
    BY <1>6 DEF SetDurable, At, AreasApart
  <2>2. DurableCoversCopies'
    BY <1>1, <1>2, <1>3, <1>4, <1>6, <2>1 DEF DurableCoversCopies, AreasApart
  <2>3. \A g \in Gens : g = op[h].gen => Visible(i)' = Intent(g)
    BY <1>1, <1>2, <1>3, <1>6, <2>1 DEF Visible
  <2>4. Owns(Owner(i), op[h].gen)
    BY <1>6 DEF Owner, Owns, IsOpen
  <2>5. QED
    BY <1>1, <1>2, <1>3, <1>6, <2>1, <2>2, <2>3, <2>4, IntentWritten
<1>7. CASE /\ ClearEphemeral(h) /\ ~workspace /\ Owns(Owner(i), op[h].gen)
           /\ ephIntent' = [ephIntent EXCEPT ![i] = None]
           /\ said' = [said EXCEPT ![op[h].gen] = "cleared"] /\ End(h) /\ UNCHANGED refused
  <2>1. durIntent' = durIntent
    BY <1>7 DEF ClearEphemeral
  <2>2. DurableCoversCopies'
    BY <1>2, <1>7 DEF DurableCoversCopies
  <2>3. Visible(i)' = None
    BY <1>1, <1>2, <1>3, <1>7 DEF Visible
  <2>4. QED
    BY <1>1, <1>2, <1>3, <1>7, <2>1, <2>2, <2>3, IntentWritten
<1>8. CASE /\ ClearDurable(h) /\ Owns(dur[i], op[h].gen) /\ durIntent[i] # None
           /\ durIntent' = [durIntent EXCEPT ![i].done = TRUE]
           /\ said' = [said EXCEPT ![op[h].gen] = "cleared"] /\ End(h) /\ UNCHANGED refused
  <2>1. ephIntent' = ephIntent /\ workspace
    BY <1>8 DEF ClearDurable, AreasApart
  <2>2. /\ durIntent' \in [Ids -> IntentRecord \cup {None}] /\ durIntent'[i] \in IntentRecord
        /\ durIntent'[i].done /\ \A j \in Ids : j # i => durIntent'[j] = durIntent[j]
    BY <1>1, <1>3, <1>8 DEF IntentRecord
  <2>3. DurableCoversCopies'
    BY <1>1, <1>2, <1>3, <2>1, <2>2, NoneAssumption DEF DurableCoversCopies, AreasApart
  <2>4. Visible(i)'.done
    BY <1>2, <2>1, <2>2 DEF Visible
  <2>5. Owns(Owner(i), op[h].gen)
    BY <1>8 DEF Owner, Owns, IsOpen
  <2>6. QED
    BY <1>1, <1>2, <1>3, <1>8, <2>1, <2>2, <2>3, <2>4, <2>5, IntentWritten
<1>9. CASE /\ Goto(h, "durable") /\ workspace
           /\ UNCHANGED <<ephIntent, durIntent, said, refused>>
  BY <1>2, <1>9, GotoKeeps DEF records, history, Stages, Unwritten, WrittenStages
<1>10. CASE /\ op' = [op EXCEPT ![h].pc = "locate", ![h].task = "reclear"] /\ op[h].task = "clear"
            /\ UNCHANGED <<ephIntent, durIntent, said, refused>>
  <2>1. /\ op' \in [Hooks -> Operation] /\ SameOthers(h) /\ KeepsSession(h)
        /\ op'[h].pc = "locate" /\ op'[h].task = "reclear" /\ ops \in 0 .. MaxOps
    BY <1>2, <1>10, AtWork, AgainEffect
  <2>2. Proceeds(h)
    BY <1>2, <1>10, <2>1 DEF Proceeds, WrittenStages
  <2>3. QED
    BY <1>2, <1>10, <2>1, <2>2, OperationProceeds DEF records, history
<1>11. CASE End(h) /\ UNCHANGED <<ephIntent, durIntent, said, refused>>
  BY <1>2, <1>11, EndKeeps DEF records, history
<1>12. CASE /\ Refuse(h) /\ ~Owns(Owner(i), op[h].gen)
            /\ UNCHANGED <<ephIntent, durIntent, said>>
  BY <1>1, <1>2, <1>12, RefuseKeeps DEF records
<1>13. CASE SetEphemeral(h)
  BY <1>1, <1>5, <1>9, <1>12, <1>13 DEF SetEphemeral
<1>14. CASE SetDurable(h)
  BY <1>1, <1>6, <1>12, <1>14, DurableAnswers DEF SetDurable, At
<1>15. CASE ClearEphemeral(h)
  BY <1>1, <1>7, <1>10, <1>12, <1>15 DEF ClearEphemeral, At
<1>16. CASE ClearDurable(h)
  BY <1>1, <1>8, <1>11, <1>12, <1>16, DurableAnswers DEF ClearDurable
<1>17. QED
  BY <1>13, <1>14, <1>15, <1>16

-----------------------------------------------------------------------------
(* Steps that change the owner of one id.                                  *)

\* The record that answers for an id carries a known generation, of that id alone.
LEMMA OwnerKnown ==
    ASSUME SessionInv
    PROVE  /\ \A j \in Ids : Owner(j) \in SessionRecord \cup {None}
           /\ \A j \in Ids : Owner(j) # None => Owner(j).gen \in Gens /\ Known(j, Owner(j).gen)
           /\ \A j, k \in Ids, g \in Gens : Owner(j) # None /\ Owner(j).gen = g /\ Known(k, g)
                                          => j = k
<1>1. \A j \in Ids : Owner(j) \in SessionRecord \cup {None}
  BY DEF Owner, SessionInv, SessionTypes, TypeOK
<1>2. \A j \in Ids : Owner(j) # None => Owner(j).gen \in Gens /\ Known(j, Owner(j).gen)
  BY <1>1 DEF SessionRecord, Known, Owner
<1>3. QED
  BY <1>1, <1>2 DEF SessionInv, GenerationsUnique

\* A resumption writes the new client into the record that owns the id.
LEMMA Resumed ==
    ASSUME SessionInv, NEW h \in Hooks, NEW i \in Ids, NEW g \in Gens, NEW c \in Clients,
           op[h].id = i, op[h].gen = g, op[h].pc # "idle", End(h), Owns(Owner(i), g),
           holder' = [holder EXCEPT ![g] = c],
           UNCHANGED <<workspace, ephIntent, durIntent, nextGen, live, ops, given, opened,
                       closing, closed, said, refused, paired>>,
           \/ dur' = dur /\ dur[i] = None /\ eph' = [eph EXCEPT ![i].pid = c]
           \/ eph' = eph /\ dur[i] # None /\ dur' = [dur EXCEPT ![i].pid = c]
    PROVE  SessionInv'
<1> USE DEF SessionInv
<1>1. /\ op' \in [Hooks -> Operation] /\ SameOthers(h)
      /\ op'[h].pc = "idle" /\ op'[h].task = "none"
  BY AtWork, EndEffect
<1>2. Rests(h)
  BY <1>1 DEF Rests
<1>3. /\ eph' \in [Ids -> SessionRecord \cup {None}] /\ dur' \in [Ids -> SessionRecord \cup {None}]
      /\ \A j \in Ids : /\ (eph'[j] = None) = (eph[j] = None) /\ (dur'[j] = None) = (dur[j] = None)
                        /\ eph'[j].gen = eph[j].gen /\ eph'[j].state = eph[j].state
                        /\ dur'[j].gen = dur[j].gen /\ dur'[j].state = dur[j].state
                        /\ j # i => eph'[j] = eph[j] /\ dur'[j] = dur[j]
      /\ IF dur[i] = None THEN eph'[i].pid = c ELSE dur'[i].pid = c
  <2>1. eph \in [Ids -> SessionRecord \cup {None}] /\ dur \in [Ids -> SessionRecord \cup {None}]
    BY DEF SessionTypes, TypeOK
  <2>2. (IF dur[i] # None THEN dur[i] ELSE eph[i]) # None
    BY DEF Owns, IsOpen, Owner
  <2>3. CASE dur' = dur /\ dur[i] = None /\ eph' = [eph EXCEPT ![i].pid = c]
    <3>1. eph[i] \in SessionRecord /\ eph'[i] = [eph[i] EXCEPT !.pid = c]
      BY <2>1, <2>2, <2>3
    <3>2. eph'[i] \in SessionRecord /\ eph'[i].gen = eph[i].gen /\ eph'[i].state = eph[i].state
          /\ eph'[i].pid = c
      BY <3>1 DEF SessionRecord
    <3>3. QED
      BY <2>1, <2>3, <3>1, <3>2, NoneAssumption
  <2>4. CASE eph' = eph /\ dur[i] # None /\ dur' = [dur EXCEPT ![i].pid = c]
    <3>1. dur[i] \in SessionRecord /\ dur'[i] = [dur[i] EXCEPT !.pid = c]
      BY <2>1, <2>2, <2>4
    <3>2. dur'[i] \in SessionRecord /\ dur'[i].gen = dur[i].gen /\ dur'[i].state = dur[i].state
          /\ dur'[i].pid = c
      BY <3>1 DEF SessionRecord
    <3>3. QED
      BY <2>1, <2>4, <3>1, <3>2, NoneAssumption
  <2>5. QED
    BY <2>3, <2>4
<1>4. \A j \in Ids : /\ (Owner(j)' = None) = (Owner(j) = None)
                     /\ Owner(j)'.gen = Owner(j).gen /\ Owner(j)'.state = Owner(j).state
                     /\ j # i => Owner(j)' = Owner(j)
  BY <1>3 DEF Owner
<1>5. Owner(i)'.pid = c
  BY <1>3 DEF Owner
<1>6. SessionTypes'
  <2>1. OperationsTyped' /\ holder' \in [Gens -> Clients \cup {None}]
    BY <1>1, <1>2, RestsTyped DEF SessionTypes, TypeOK
  <2>2. QED
    BY <1>3, <2>1 DEF SessionTypes, TypeOK
<1>7. AreasApart'
  BY <1>1, <1>3 DEF AreasApart, DurableCoversCopies, SameOthers
<1>8. GenerationsUnique'
  <2>1. \A j \in Ids, x \in Gens : Known(j, x)' => Known(j, x)
    BY <1>1, <1>2, <1>3, RestsOpening DEF Known
  <2>2. QED
    BY <1>1, <1>2, <1>6, <2>1, RestsOpening, GenerationsPreserved DEF GenerationsUnique
<1>9. \A j \in Ids, x \in Gens : Owner(j) # None /\ Owner(j).gen = x /\ j # i => x # g
  BY OwnerKnown DEF Owns, IsOpen
<1>10. HolderNamed'
  BY <1>4, <1>5, <1>9, OwnerKnown DEF HolderNamed, SessionTypes, TypeOK, Owns, IsOpen
<1>11. IssuedOwns'
  <2> SUFFICES ASSUME NEW j \in Ids, NEW x \in Gens, Issued(j, x), x \notin closing, holder'[x] \in live
               PROVE  Owns(Owner(j), x)
    BY <1>1, <1>2, <1>4, RestsOpening DEF IssuedOwns, Owns, IsOpen
  <2>1. CASE x = g
    BY <2>1, OwnerKnown DEF Known, Owns, IsOpen
  <2>2. CASE x # g
    BY <2>2 DEF IssuedOwns, SessionTypes, TypeOK
  <2>3. QED
    BY <2>1, <2>2
<1>12. LooksHold'
  <2>1. \A k \in Hooks : op'[k].pc \in {"resolve", "durable"} => op'[k] = op[k] /\ op[k].id \in Ids
    BY <1>1 DEF SameOthers, SessionTypes, OperationsTyped
  <2>2. QED
    BY <1>3, <1>4, <2>1 DEF LooksHold, Owns, IsOpen
<1>13. OwnerNotRefused' /\ ClosedStaysClosed' /\ OpenedOnce'
  BY <1>4 DEF OwnerNotRefused, ClosedStaysClosed, OpenedOnce, IsOpen
<1>14. PairsNoted'
  BY <1>1, <1>4 DEF PairsNoted, IsOpen, SameOthers
<1>15. IntentAsStated'
  BY <1>4 DEF IntentAsStated, GenerationsUnique, Owns, IsOpen, Visible, Intent
<1>16. QED
  BY <1>6, <1>7, <1>8, <1>10, <1>11, <1>12, <1>13, <1>14, <1>15

\* resumeSession.
LEMMA ResumeKeeps ==
    ASSUME SessionInv, NEW h \in Hooks, ResumeEphemeral(h) \/ ResumeDurable(h)
    PROVE  SessionInv'
<1> USE DEF SessionInv
<1>1. /\ op[h].pc # "idle" /\ op[h].task = "resume" /\ op[h].client \in Clients
      /\ op[h].id \in Ids /\ op[h].gen \in Gens
  BY DEF ResumeEphemeral, ResumeDurable, At, SessionTypes, OperationsTyped
<1>2. CASE ResumeEphemeral(h)
  <2>1. ASSUME ~workspace, Owns(eph[op[h].id], op[h].gen), End(h),
               eph' = [eph EXCEPT ![op[h].id].pid = op[h].client],
               holder' = [holder EXCEPT ![op[h].gen] = op[h].client]
        PROVE  SessionInv'
    <3>1. dur[op[h].id] = None /\ Owns(Owner(op[h].id), op[h].gen)
      BY <1>1, <2>1 DEF AreasApart, Owner
    <3>2. QED
      BY <1>1, <1>2, <2>1, <3>1, Resumed DEF ResumeEphemeral
  <2>2. ASSUME Goto(h, "durable"), UNCHANGED <<eph, holder>>
        PROVE  SessionInv'
    BY <1>1, <1>2, <2>2, GotoKeeps
    DEF ResumeEphemeral, records, history, Stages, Unwritten, WrittenStages
  <2>3. QED
    BY <1>2, <2>1, <2>2 DEF ResumeEphemeral
<1>3. CASE ResumeDurable(h)
  <2>1. ASSUME Owns(dur[op[h].id], op[h].gen),
               dur' = [dur EXCEPT ![op[h].id].pid = op[h].client],
               holder' = [holder EXCEPT ![op[h].gen] = op[h].client]
        PROVE  SessionInv'
    <3>1. dur[op[h].id] # None /\ Owns(Owner(op[h].id), op[h].gen)
      BY <2>1 DEF Owner, Owns, IsOpen
    <3>2. QED
      BY <1>1, <1>3, <2>1, <3>1, Resumed DEF ResumeDurable
  <2>2. ASSUME UNCHANGED <<dur, holder>>
        PROVE  SessionInv'
    BY <1>3, <2>2, EndKeeps DEF ResumeDurable, records, history
  <2>3. QED
    BY <1>3, <2>1, <2>2 DEF ResumeDurable
<1>4. QED
  BY <1>2, <1>3

\* A close is recorded: nobody answers for the id, or a record that is closed.
LEMMA Closed ==
    ASSUME SessionInv, NEW h \in Hooks, NEW i \in Ids, NEW g \in Gens,
           op[h].id = i, op[h].gen = g, op[h].task = "close", op[h].pc # "idle",
           Owner(i) # None, Owner(i).gen = g, closed' = closed \cup {g},
           UNCHANGED <<workspace, ephIntent, durIntent, nextGen, live, ops, given, holder, opened,
                       closing, said, refused, paired>>,
           \/ ~workspace /\ dur' = dur /\ eph' = [eph EXCEPT ![i] = None] /\ Goto(h, "intent")
           \/ eph' = eph /\ dur[i] # None /\ dur' = [dur EXCEPT ![i].state = "closed"] /\ End(h)
    PROVE  SessionInv'
<1> USE DEF SessionInv
<1>1. op' \in [Hooks -> Operation] /\ SameOthers(h) /\ Rests(h)
  BY AtWork, EndEffect, GotoEffect DEF Rests, Stages
<1>2. g \in closing
  BY DEF SessionTypes, OperationsTyped
<1>3. /\ eph' \in [Ids -> SessionRecord \cup {None}] /\ dur' \in [Ids -> SessionRecord \cup {None}]
      /\ \A j \in Ids : /\ eph'[j] \in {eph[j], None} /\ (dur'[j] = None) = (dur[j] = None)
                        /\ dur'[j].gen = dur[j].gen
                        /\ j # i => eph'[j] = eph[j] /\ dur'[j] = dur[j]
      /\ Owner(i)' = None \/ (/\ Owner(i)'.state = "closed" /\ Owner(i)'.gen = g
                              /\ Owner(i)'.pid = Owner(i).pid)
  <2>1. eph \in [Ids -> SessionRecord \cup {None}] /\ dur \in [Ids -> SessionRecord \cup {None}]
    BY DEF SessionTypes, TypeOK
  <2>2. CASE ~workspace /\ dur' = dur /\ eph' = [eph EXCEPT ![i] = None]
    BY <2>1, <2>2 DEF Owner, AreasApart
  <2>3. CASE eph' = eph /\ dur[i] # None /\ dur' = [dur EXCEPT ![i].state = "closed"]
    <3>1. dur[i] \in SessionRecord /\ dur'[i] = [dur[i] EXCEPT !.state = "closed"]
      BY <2>1, <2>3
    <3>2. dur'[i] \in SessionRecord /\ dur'[i].gen = dur[i].gen /\ dur'[i].state = "closed"
          /\ dur'[i].pid = dur[i].pid
      BY <3>1 DEF SessionRecord
    <3>3. QED
      BY <2>1, <2>3, <3>1, <3>2, NoneAssumption DEF Owner
  <2>4. QED
    BY <2>2, <2>3
<1>4. \A j \in Ids : j # i => Owner(j)' = Owner(j)
  BY <1>3 DEF Owner
<1>5. \A j \in Ids : Owner(j) # None /\ Owner(j).gen = g => j = i
  BY OwnerKnown
<1>6. SessionTypes'
  <2>1. OperationsTyped' /\ closed' \subseteq closing
    BY <1>1, <1>2, RestsTyped DEF SessionTypes, TypeOK
  <2>2. QED
    BY <1>3, <2>1 DEF SessionTypes, TypeOK
<1>7. AreasApart'
  <2>1. \A k \in Hooks : op'[k].pc \in {"cleanup", "durable"} =>
          op'[k] = op[k] \/ (op[k].pc = "cleanup" /\ op'[k].pc = "cleanup")
    BY <1>1, GotoEffect, EndEffect, AtWork DEF SameOthers, Stages
  <2>2. QED
    BY <1>3, <2>1 DEF AreasApart, DurableCoversCopies
<1>8. GenerationsUnique'
  <2>1. \A j \in Ids, x \in Gens : Known(j, x)' => Known(j, x)
    BY <1>1, <1>3, RestsOpening DEF Known
  <2>2. QED
    BY <1>1, <1>6, <2>1, RestsOpening, GenerationsPreserved DEF GenerationsUnique
<1>9. HolderNamed'
  BY <1>3, <1>4 DEF HolderNamed
<1>10. IssuedOwns'
  <2> SUFFICES ASSUME NEW j \in Ids, NEW x \in Gens, Issued(j, x), x \notin closing, holder[x] \in live
               PROVE  Owns(Owner(j)', x)
    BY <1>1, RestsOpening DEF IssuedOwns, Owns, IsOpen
  <2>1. Owns(Owner(j), x)
    BY DEF IssuedOwns
  <2>2. j # i
    BY <1>2, <2>1 DEF Owns
  <2>3. QED
    BY <1>4, <2>1, <2>2
<1>11. LooksHold'
  <2>1. \A k \in Hooks : op'[k].pc \in {"resolve", "durable"} => op'[k] = op[k] /\ op[k].id \in Ids
    BY <1>1 DEF Rests, SameOthers, SessionTypes, OperationsTyped
  <2>2. \A j \in Ids : \A x : Owns(Owner(j)', x) => Owns(Owner(j), x)
    BY <1>3, <1>4 DEF Owns, IsOpen
  <2>3. QED
    BY <1>3, <2>1, <2>2 DEF LooksHold, Owns, IsOpen
<1>12. OwnerNotRefused' /\ OpenedOnce'
  BY DEF OwnerNotRefused, OpenedOnce
<1>13. ClosedStaysClosed'
  BY <1>3, <1>4, <1>5 DEF ClosedStaysClosed, IsOpen
<1>14. PairsNoted'
  BY <1>1, <1>3, <1>4 DEF PairsNoted, IsOpen, Rests, SameOthers
<1>15. IntentAsStated'
  BY <1>3, <1>4 DEF IntentAsStated, GenerationsUnique, Owns, IsOpen, Visible, Intent
<1>16. QED
  BY <1>6, <1>7, <1>8, <1>9, <1>10, <1>11, <1>12, <1>13, <1>14, <1>15

\* closeSession.
LEMMA CloseKeeps ==
    ASSUME SessionInv, NEW h \in Hooks, CloseEphemeral(h) \/ CloseDurable(h)
    PROVE  SessionInv'
<1> USE DEF SessionInv
<1>1. /\ op[h].pc # "idle" /\ op[h].task = "close" /\ op[h].id \in Ids /\ op[h].gen \in Gens
  BY DEF CloseEphemeral, CloseDurable, At, SessionTypes, OperationsTyped
<1>2. CASE CloseEphemeral(h)
  <2>1. ASSUME Goto(h, "durable"), UNCHANGED <<eph, closed>>
        PROVE  SessionInv'
    BY <1>1, <1>2, <2>1, GotoKeeps
    DEF CloseEphemeral, records, history, Stages, Unwritten, WrittenStages
  <2>2. ASSUME eph[op[h].id] # None, ~workspace, eph[op[h].id].gen = op[h].gen,
               eph' = [eph EXCEPT ![op[h].id] = None], closed' = closed \cup {op[h].gen},
               Goto(h, "intent")
        PROVE  SessionInv'
    <3>1. Owner(op[h].id) = eph[op[h].id]
      BY <1>1, <2>2 DEF AreasApart, Owner
    <3>2. QED
      BY <1>1, <1>2, <2>2, <3>1, Closed DEF CloseEphemeral
  <2>3. ASSUME End(h), UNCHANGED <<eph, closed>>
        PROVE  SessionInv'
    BY <1>2, <2>3, EndKeeps DEF CloseEphemeral, records, history
  <2>4. QED
    BY <1>2, <2>1, <2>2, <2>3 DEF CloseEphemeral
<1>3. CASE CloseDurable(h)
  <2>1. ASSUME dur[op[h].id] # None, dur[op[h].id].gen = op[h].gen,
               dur' = [dur EXCEPT ![op[h].id].state = "closed"],
               closed' = closed \cup {op[h].gen}
        PROVE  SessionInv'
    <3>1. Owner(op[h].id) = dur[op[h].id]
      BY <2>1 DEF Owner
    <3>2. QED
      BY <1>1, <1>3, <2>1, <3>1, Closed DEF CloseDurable
  <2>2. ASSUME UNCHANGED <<dur, closed>>
        PROVE  SessionInv'
    BY <1>3, <2>2, EndKeeps DEF CloseDurable, records, history
  <2>3. QED
    BY <1>3, <2>1, <2>2 DEF CloseDurable
<1>4. QED
  BY <1>2, <1>3

\* A session is written: the id was available, and the generation is new.
LEMMA Opened ==
    ASSUME SessionInv, NEW h \in Hooks, NEW i \in Ids, NEW g \in Gens, NEW c \in Clients,
           op[h].id = i, op[h].gen = g, Fresh(h), Available(Owner(i), op[h].reserved),
           op' \in [Hooks -> Operation], SameOthers(h), KeepsSession(h), op'[h].task = "open",
           op'[h].pc \in WrittenStages \ {"materialise"},
           UNCHANGED <<nextGen, live, ops, given, closing, closed, said, refused>>,
           holder' = [holder EXCEPT ![g] = c], TypeOK', AreasApart', OpenedOnce',
           \A j \in Ids : Visible(j)' = Visible(j), Owner(i)' = Session(g, c),
           \A j \in Ids : j # i => Owner(j)' = Owner(j),
           \A j \in Ids : /\ eph'[j] = eph[j] \/ (j = i /\ eph'[j] = Session(g, c))
                          /\ dur'[j] \in {dur[j], eph[j]} \/ (j = i /\ dur'[j] = Session(g, c))
                          /\ dur[j] # None => dur'[j] # None,
           \A x \in Gens : opened'[x] # opened[x] => Carried(x)',
           workspace => workspace', workspace' => paired', paired => paired',
           \A j, k \in Ids : j # k /\ IsOpen(Owner(j)') /\ IsOpen(Owner(k)') => paired'
    PROVE  SessionInv'
<1> USE DEF SessionInv
<1>1. \A j \in Ids : ~Known(j, g)
  BY DEF GenerationsUnique
<1>2. SessionTypes'
  BY DEF SessionTypes, OperationsTyped, Fresh, KeepsSession, SameOthers, Unwritten, WrittenStages
<1>3. /\ ~Fresh(h)' /\ Written(h)' /\ ~Written(h)
      /\ \A k \in Hooks : k # h => Fresh(k)' = Fresh(k) /\ Written(k)' = Written(k)
  BY DEF Fresh, Written, SameOthers, Unwritten, WrittenStages
<1>4. \A j \in Ids, x \in Gens : Issued(j, x)' => Issued(j, x) \/ (j = i /\ x = g)
  BY <1>3 DEF Issued, SameOthers, KeepsSession
<1>5. GenerationsUnique'
  <2>1. \A j \in Ids, x \in Gens : Known(j, x)' => Known(j, x) \/ (j = i /\ x = g)
    BY <1>4 DEF Known, Session
  <2>2. \A k \in Hooks : SameOpening(k)
    BY <1>3 DEF SameOpening, SameOthers, KeepsSession, Fresh
  <2>3. \A k \in Hooks : op'[k].pc # "idle" /\ op'[k].task # "open" =>
          [id |-> op'[k].id, gen |-> op'[k].gen] \in given'
    BY DEF SameOthers, GenerationsUnique
  <2>4. QED
    BY <1>2, <1>3, <2>1, <2>2, <2>3, GenerationsPreserved, SMTT(30) DEF GenerationsUnique
<1>6. HolderNamed'
  BY <1>1, OwnerKnown DEF HolderNamed, Session, SessionTypes, TypeOK
<1>7. IssuedOwns'
  <2> SUFFICES ASSUME NEW j \in Ids, NEW x \in Gens, Issued(j, x)', x \notin closing,
                      holder'[x] \in live
               PROVE  Owns(Owner(j)', x)
    BY DEF IssuedOwns, Owns, IsOpen
  <2>1. CASE j = i /\ x = g
    <3>1. Session(g, c) \in SessionRecord /\ Session(g, c).state = "open" /\ Session(g, c).gen = g
      BY DEF Session, SessionRecord
    <3>2. QED
      BY <2>1, <3>1, NoneAssumption DEF Owns, IsOpen
  <2>2. CASE Issued(j, x)
    <3>1. x # g
      BY <1>1, <2>2 DEF Known
    <3>2. holder[x] \in live /\ Owns(Owner(j), x)
      BY <2>2, <3>1 DEF IssuedOwns, SessionTypes, TypeOK
    <3>3. j # i
      BY <3>2 DEF Available, HolderNamed, Owns, IsOpen
    <3>4. QED
      BY <3>2, <3>3
  <2>3. QED
    BY <1>4, <2>1, <2>2
<1>8. \A k \in Hooks : op[k].pc # "idle" /\ op[k].task # "open" => op[k].gen # g /\ op[k].gen \in Gens
                                                                   /\ op[k].id \in Ids
  BY <1>1 DEF GenerationsUnique, Known, Issued, SessionTypes, OperationsTyped
<1>9. LooksHold'
  <2>1. \A k \in Hooks : op'[k].pc \in {"resolve", "durable"} => op'[k] = op[k]
    BY DEF SameOthers, WrittenStages
  <2>2. \A j \in Ids, x \in Gens : x # g /\ Owns(Owner(j)', x) => Owns(Owner(j), x)
    BY DEF Owns, Session
  <2>3. \A j \in Ids : dur'[j] = None => eph'[j] = Owner(j)' /\ eph[j] = Owner(j) /\ dur[j] = None
    BY DEF Owner
  <2>4. QED
    BY <1>8, <2>1, <2>2, <2>3 DEF LooksHold, Owns, IsOpen
<1>10. OwnerNotRefused'
  BY DEF OwnerNotRefused
<1>11. ClosedStaysClosed'
  <2>1. \A x \in Ids : [id |-> x, gen |-> g] \notin given
    BY <1>1 DEF Known, Issued
  <2>2. g \notin closing
    BY <2>1 DEF GenerationsUnique
  <2>3. g \notin closed
    BY <2>2 DEF SessionTypes, TypeOK
  <2>4. QED
    BY <2>3 DEF ClosedStaysClosed, IsOpen, Session
<1>12. PairsNoted'
  BY DEF PairsNoted, IsOpen, SameOthers
<1>13. IntentAsStated'
  <2>1. \A s \in given : s.id \in Ids /\ s.gen \in Gens /\ s.gen # g
    BY <1>1 DEF GenerationsUnique, Known, Issued
  <2>2. \A s \in given : Owns(Owner(s.id)', s.gen) => Owns(Owner(s.id), s.gen)
    BY <2>1 DEF Owns, Session
  <2>3. QED
    BY <2>1, <2>2 DEF IntentAsStated, Owns, IsOpen, Intent
<1>14. QED
  BY <1>2, <1>5, <1>6, <1>7, <1>9, <1>10, <1>11, <1>12, <1>13

\* The record openSession writes, and who writes it.
LEMMA Opener ==
    ASSUME SessionInv, NEW h \in Hooks, op[h].task = "open", op[h].pc \in Unwritten
    PROVE  /\ op[h].pc # "idle" /\ Fresh(h) /\ op[h].id \in Ids /\ op[h].gen \in Gens
           /\ op[h].client \in Clients /\ Session(op[h].gen, op[h].client) \in SessionRecord
           /\ Session(op[h].gen, op[h].client) # None
           /\ IsOpen(Session(op[h].gen, op[h].client))
<1>1. op[h].pc # "idle"
  BY DEF Unwritten
<1>2. op[h].id \in Ids /\ op[h].gen \in Gens /\ op[h].client \in Clients
  BY <1>1 DEF SessionInv, SessionTypes, OperationsTyped
<1>3. Session(op[h].gen, op[h].client) \in SessionRecord
  BY <1>2 DEF Session, SessionRecord
<1>4. Session(op[h].gen, op[h].client) # None
  BY <1>3, NoneAssumption
<1>5. IsOpen(Session(op[h].gen, op[h].client))
  BY <1>4 DEF Session, IsOpen
<1>6. QED
  BY <1>1, <1>2, <1>3, <1>4, <1>5 DEF Fresh

\* openSession in the ephemeral area.
LEMMA OpenEphemeralKeeps ==
    ASSUME SessionInv, NEW h \in Hooks, OpenEphemeral(h)
    PROVE  SessionInv'
<1> USE DEF SessionInv
<1>1. op[h].task = "open" /\ op[h].pc = "ephemeral" /\ op[h].pc \in Unwritten
  BY DEF OpenEphemeral, At, Unwritten
<1> USE <1>1, Opener
<1>2. CASE workspace /\ Goto(h, "durable") /\ UNCHANGED <<eph, holder, paired>>
  BY <1>2, GotoKeeps DEF OpenEphemeral, records, history, Stages, Unwritten, WrittenStages
<1>3. CASE End(h) /\ UNCHANGED <<eph, holder, paired>>
  BY <1>3, EndKeeps DEF OpenEphemeral, records, history
<1>4. CASE ~workspace /\ Available(eph[op[h].id], op[h].reserved) /\ PublishEphemeral(h)
  <2>1. PICK i \in Ids, g \in Gens, c \in Clients : i = op[h].id /\ g = op[h].gen /\ c = op[h].client
    OBVIOUS
  <2>2. /\ op' \in [Hooks -> Operation] /\ SameOthers(h) /\ KeepsSession(h)
        /\ op'[h].pc = "count" /\ op'[h].task = "open"
    BY <1>4, AtWork, GotoEffect DEF PublishEphemeral, Stages
  <2>3. /\ UNCHANGED <<workspace, dur, ephIntent, durIntent, nextGen, live, ops, given, opened,
                       closing, closed, said, refused>>
        /\ eph' = [eph EXCEPT ![i] = Session(g, c)] /\ holder' = [holder EXCEPT ![g] = c]
        /\ eph \in [Ids -> SessionRecord \cup {None}]
        /\ \A j \in Ids : dur[j] = None
    BY <1>4, <2>1 DEF OpenEphemeral, PublishEphemeral, SessionTypes, TypeOK, AreasApart
  <2>4. /\ \A j \in Ids : Owner(j) = eph[j] /\ Visible(j)' = Visible(j)
        /\ \A j \in Ids : Owner(j)' = IF j = i THEN Session(g, c) ELSE Owner(j)
    BY <2>1, <2>3 DEF Owner, Visible
  <2>5. /\ paired' \in BOOLEAN /\ (paired => paired')
        /\ \A j, k \in Ids : j # k /\ IsOpen(Owner(j)') /\ IsOpen(Owner(k)') => paired'
    BY <1>4, <2>1, <2>3 DEF PublishEphemeral, NotePair, Owner
  <2>6. TypeOK'
    <3>1. /\ eph' \in [Ids -> SessionRecord \cup {None}]
          /\ holder' \in [Gens -> Clients \cup {None}]
      BY <2>1, <2>3 DEF SessionTypes, TypeOK
    <3>2. QED
      BY <2>3, <2>5, <3>1 DEF SessionTypes, TypeOK
  <2>7. AreasApart'
    BY <1>4, <2>2, <2>3 DEF AreasApart, DurableCoversCopies, SameOthers
  <2>8. OpenedOnce'
    BY <2>3 DEF OpenedOnce
  <2>9. Available(Owner(i), op[h].reserved)
    BY <1>4, <2>1, <2>4
  <2>10. \A j \in Ids : /\ eph'[j] = eph[j] \/ (j = i /\ eph'[j] = Session(g, c))
                        /\ dur'[j] \in {dur[j], eph[j]} \/ (j = i /\ dur'[j] = Session(g, c))
                        /\ dur[j] # None => dur'[j] # None
    BY <2>3
  <2>11. /\ Owner(i)' = Session(g, c) /\ \A j \in Ids : j # i => Owner(j)' = Owner(j)
         /\ op'[h].pc \in WrittenStages \ {"materialise"}
         /\ \A x \in Gens : opened'[x] # opened[x] => Carried(x)'
         /\ workspace => workspace'
         /\ workspace' => paired'
    BY <1>4, <2>2, <2>3, <2>4 DEF WrittenStages
  <2>12. \A j \in Ids : Visible(j)' = Visible(j)
    BY <2>4
  <2>13. SessionInv /\ op[h].id = i /\ op[h].gen = g /\ Fresh(h)
    BY <2>1
  <2> HIDE DEF SessionInv
  <2>14. QED
    BY <2>2, <2>3, <2>5, <2>6, <2>7, <2>8, <2>9, <2>10, <2>11, <2>12, <2>13, Opened
<1>5. QED
  BY <1>2, <1>3, <1>4 DEF OpenEphemeral

\* openDurable.
LEMMA OpenDurableKeeps ==
    ASSUME SessionInv, NEW h \in Hooks, OpenDurable(h)
    PROVE  SessionInv'
<1> USE DEF SessionInv
<1>1. op[h].task = "open" /\ op[h].pc = "durable" /\ op[h].pc \in Unwritten /\ workspace
  BY DEF OpenDurable, At, Unwritten, AreasApart
<1> USE <1>1, Opener
<1>2. CASE End(h) /\ UNCHANGED <<dur, opened, holder, paired>>
  BY <1>2, EndKeeps DEF OpenDurable, records, history
<1>3. CASE /\ Available(dur[op[h].id], op[h].reserved)
           /\ dur' = [dur EXCEPT ![op[h].id] = Session(op[h].gen, op[h].client)]
           /\ opened' = [opened EXCEPT ![op[h].gen] = @ + 1]
           /\ holder' = [holder EXCEPT ![op[h].gen] = op[h].client]
           /\ Goto(h, "return") /\ NotePair(eph, dur')
  <2>1. PICK i \in Ids, g \in Gens, c \in Clients : i = op[h].id /\ g = op[h].gen /\ c = op[h].client
    OBVIOUS
  <2>2. /\ op' \in [Hooks -> Operation] /\ SameOthers(h) /\ KeepsSession(h)
        /\ op'[h].pc = "return" /\ op'[h].task = "open"
    BY <1>3, AtWork, GotoEffect DEF OpenDurable, Stages
  <2>3. /\ UNCHANGED <<workspace, eph, ephIntent, durIntent, nextGen, live, ops, given,
                       closing, closed, said, refused>>
        /\ dur' = [dur EXCEPT ![i] = Session(g, c)] /\ holder' = [holder EXCEPT ![g] = c]
        /\ opened' = [opened EXCEPT ![g] = @ + 1]
        /\ NotePair(eph, dur')
        /\ dur \in [Ids -> SessionRecord \cup {None}] /\ opened \in [Gens -> Nat]
    BY <1>3, <2>1 DEF OpenDurable, SessionTypes, TypeOK
  <2>4. \A j \in Ids : /\ dur'[j] = IF j = i THEN Session(g, c) ELSE dur[j]
                       /\ dur[j] = None => eph[j] = None
    BY <2>3 DEF AreasApart, DurableCoversCopies
  <2>5. \A j \in Ids : /\ Owner(j) = dur[j] /\ Visible(j)' = Visible(j)
                       /\ Owner(j)' = IF j = i THEN Session(g, c) ELSE Owner(j)
    BY <2>1, <2>3, <2>4 DEF Owner, Visible
  <2>6. /\ paired' \in BOOLEAN /\ (paired => paired')
        /\ \A j, k \in Ids : j # k /\ IsOpen(Owner(j)') /\ IsOpen(Owner(k)') => paired'
    BY <2>3 DEF NotePair, Owner
  <2>7. \A x \in Gens : /\ opened'[x] = IF x = g THEN 1 ELSE opened[x]
                        /\ opened'[x] # opened[x] => Carried(x)'
    <3>1. opened[g] = 0
      BY <2>1 DEF GenerationsUnique
    <3>2. Known(i, g)'
      BY <2>1, <2>4 DEF Known, Session
    <3>3. QED
      BY <2>3, <3>1, <3>2 DEF Carried
  <2>8. TypeOK'
    <3>1. /\ dur' \in [Ids -> SessionRecord \cup {None}] /\ opened' \in [Gens -> Nat]
          /\ holder' \in [Gens -> Clients \cup {None}]
      BY <2>1, <2>3 DEF SessionTypes, TypeOK
    <3>2. QED
      BY <2>3, <2>6, <3>1 DEF SessionTypes, TypeOK
  <2>9. AreasApart'
    <3>1. Session(g, c) # None
      BY <2>1
    <3>2. DurableCoversCopies'
      BY <2>3, <2>4, <3>1 DEF AreasApart, DurableCoversCopies
    <3>3. QED
      BY <2>2, <2>3, <3>2 DEF AreasApart, SameOthers
  <2>10. OpenedOnce'
    BY <2>7 DEF OpenedOnce
  <2>11. Available(Owner(i), op[h].reserved)
    BY <1>3, <2>1, <2>5
  <2>12. QED
    BY <2>1, <2>2, <2>3, <2>4, <2>5, <2>6, <2>7, <2>8, <2>9, <2>10, <2>11, Opened,
       ZenonT(40)
    DEF WrittenStages, PairsNoted
<1>4. QED
  BY <1>2, <1>3 DEF OpenDurable

\* The second session opens in the transaction that promotes the first.
LEMMA OpenJoinKeeps ==
    ASSUME SessionInv, NEW h \in Hooks, OpenJoin(h)
    PROVE  SessionInv'
<1> USE DEF SessionInv
<1>1. op[h].task = "open" /\ op[h].pc = "join" /\ op[h].pc \in Unwritten
  BY DEF OpenJoin, At, Unwritten
<1> USE <1>1, Opener
<1>2. CASE Goto(h, "ephemeral") /\ UNCHANGED <<records, holder, opened, paired>>
  BY <1>2, GotoKeeps DEF OpenJoin, history, Stages, Unwritten, WrittenStages
<1>3. CASE End(h) /\ UNCHANGED <<records, holder, opened, paired>>
  BY <1>3, EndKeeps DEF OpenJoin, history
<1>4. CASE /\ workspace \/ EphOpen \ {op[h].id} # {}
           /\ Available(Owner(op[h].id), op[h].reserved) /\ Join(h)
  <2>1. PICK i \in Ids, g \in Gens, c \in Clients : i = op[h].id /\ g = op[h].gen /\ c = op[h].client
    OBVIOUS
  <2>2. /\ op' \in [Hooks -> Operation] /\ SameOthers(h) /\ KeepsSession(h)
        /\ op'[h].pc = "cleanup" /\ op'[h].task = "open"
    BY <1>4, AtWork, StageEffect DEF Join
  <2>3. /\ UNCHANGED <<eph, ephIntent, nextGen, live, ops, given, closing, closed, said, refused>>
        /\ workspace' = TRUE /\ holder' = [holder EXCEPT ![g] = c]
        /\ dur' = [j \in Ids |-> IF j = i THEN Session(g, c)
                                 ELSE IF j \in Promoted({i}) THEN eph[j] ELSE dur[j]]
        /\ durIntent' = [j \in Ids |-> IF durIntent[j] = None THEN ephIntent[j] ELSE durIntent[j]]
        /\ opened' = [x \in Gens |-> opened[x] + (IF x = g THEN 1 ELSE 0) +
                        Cardinality({j \in Promoted({i}) : eph[j].gen = x})]
        /\ NotePair(eph, dur')
    BY <1>4, <2>1 DEF OpenJoin, Join
  <2>4. \A j \in Ids : /\ dur'[j] = IF j = i THEN Session(g, c) ELSE Owner(j)
                       /\ durIntent'[j] = Visible(j)
    BY <2>3, PromotionShows DEF Promoted, Owner
  <2>5. Session(g, c) # None /\ Session(g, c) \in SessionRecord /\ IsOpen(Session(g, c))
        /\ Session(g, c).gen = g
    BY <2>1 DEF Session
  <2>6. \A j \in Ids : /\ Visible(j)' = Visible(j)
                       /\ Owner(j)' = IF j = i THEN Session(g, c) ELSE Owner(j)
    BY <2>3, <2>4, <2>5 DEF Owner, Visible
  <2>7. /\ paired' \in BOOLEAN /\ (paired => paired')
        /\ \A j, k \in Ids : j # k /\ IsOpen(Owner(j)') /\ IsOpen(Owner(k)') => paired'
    BY <2>3 DEF NotePair, Owner
  <2>8. paired'
    <3>1. CASE workspace
      BY <2>7, <3>1 DEF PairsNoted
    <3>2. CASE ~workspace
      <4>1. PICK j \in EphOpen : j # i
        BY <1>4, <2>1, <3>2
      <4>2. j \in Ids /\ IsOpen(Owner(j))
        BY <3>2, <4>1 DEF EphOpen, Owner, AreasApart
      <4>3. IsOpen(Owner(j)') /\ IsOpen(Owner(i)')
        BY <2>5, <2>6, <4>1, <4>2
      <4>4. QED
        BY <2>7, <4>1, <4>2, <4>3
    <3>3. QED
      BY <3>1, <3>2
  <2>9. \A x \in Gens : /\ opened'[x] \in Nat /\ opened'[x] <= 1
                        /\ opened'[x] # opened[x] => Carried(x)'
    <3> SUFFICES ASSUME NEW x \in Gens
                 PROVE  /\ opened'[x] \in Nat /\ opened'[x] <= 1
                        /\ opened'[x] # opened[x] => Carried(x)'
      OBVIOUS
    <3> DEFINE n == Cardinality({j \in Promoted({i}) : eph[j].gen = x})
    <3>1. opened'[x] = opened[x] + (IF x = g THEN 1 ELSE 0) + n
      BY <2>3
    <3>2. opened[x] \in Nat /\ opened[x] <= 1
      BY DEF SessionTypes, TypeOK, OpenedOnce
    <3>3. n = 0 \/ (n = 1 /\ opened[x] = 0 /\ \E j \in Ids : eph[j] # None /\ eph[j].gen = x)
      BY PromotionCounts
    <3> HIDE DEF n
    <3>4. CASE x = g
      <4>1. opened[x] = 0 /\ \A j \in Ids : ~Known(j, x)
        BY <2>1, <3>4 DEF GenerationsUnique
      <4>2. n = 0
        BY <3>3, <4>1 DEF Known
      <4>3. Known(i, x)'
        BY <2>4, <2>5, <3>4 DEF Known
      <4>4. QED
        BY <3>1, <3>4, <4>1, <4>2, <4>3 DEF Carried
    <3>5. CASE x # g
      <4>1. (\E j \in Ids : eph[j] # None /\ eph[j].gen = x) => Carried(x)'
        BY <2>3 DEF Known, Carried
      <4>2. opened'[x] = opened[x] + n
        BY <3>1, <3>2, <3>3, <3>5
      <4>3. QED
        BY <3>2, <3>3, <4>1, <4>2
    <3>6. QED
      BY <3>4, <3>5
  <2>10. TypeOK'
    <3>1. opened' \in [Gens -> Nat]
      BY <2>3, <2>9
    <3>2. /\ dur' \in [Ids -> SessionRecord \cup {None}]
          /\ durIntent' \in [Ids -> IntentRecord \cup {None}]
          /\ holder' \in [Gens -> Clients \cup {None}]
      BY <2>3, <2>5 DEF SessionTypes, TypeOK
    <3>3. QED
      BY <2>3, <2>7, <3>1, <3>2 DEF SessionTypes, TypeOK
  <2>11. AreasApart'
    <3>1. DurableCoversCopies'
      BY <2>3, <2>4, <2>5, PromotionShows DEF DurableCoversCopies, Owner, AreasApart
    <3>2. QED
      BY <2>3, <3>1 DEF AreasApart
  <2>12. OpenedOnce'
    BY <2>9 DEF OpenedOnce
  <2>13. \A j \in Ids : /\ eph'[j] = eph[j] \/ (j = i /\ eph'[j] = Session(g, c))
                        /\ dur'[j] \in {dur[j], eph[j]} \/ (j = i /\ dur'[j] = Session(g, c))
                        /\ dur[j] # None => dur'[j] # None
    BY <2>3, <2>4, <2>5 DEF Owner
  <2>14. /\ Owner(i)' = Session(g, c) /\ \A j \in Ids : j # i => Owner(j)' = Owner(j)
         /\ op'[h].pc \in WrittenStages \ {"materialise"}
         /\ \A x \in Gens : opened'[x] # opened[x] => Carried(x)'
         /\ \A j \in Ids : Visible(j)' = Visible(j)
    BY <2>2, <2>6, <2>9 DEF WrittenStages
  <2>15. /\ SessionInv /\ op[h].id = i /\ op[h].gen = g /\ Fresh(h)
         /\ Available(Owner(i), op[h].reserved)
    BY <1>4, <2>1
  <2>16. /\ UNCHANGED <<nextGen, live, ops, given, closing, closed, said, refused>>
         /\ workspace' = TRUE /\ holder' = [holder EXCEPT ![g] = c]
    BY <2>3
  <2> HIDE DEF SessionInv
  <2>17. QED
    BY <2>2, <2>16, <2>7, <2>8, <2>10, <2>11, <2>12, <2>13, <2>14, <2>15, Opened
<1>5. QED
  BY <1>2, <1>3, <1>4 DEF OpenJoin

-----------------------------------------------------------------------------
(* Calls, returns and deaths.                                              *)

\* The call returns: what is handed out was issued before, and no intent was
\* stated for a generation that was not handed out.
LEMMA ReturnKeeps ==
    ASSUME SessionInv, NEW h \in Hooks, Return(h)
    PROVE  SessionInv'
<1> USE DEF SessionInv
<1>1. PICK i \in Ids, g \in Gens : i = op[h].id /\ g = op[h].gen
  BY AtWork DEF Return
<1>2. /\ op' \in [Hooks -> Operation] /\ SameOthers(h)
      /\ op'[h].pc = "idle" /\ op'[h].task = "none"
  BY EndEffect DEF Return, SessionTypes, OperationsTyped
<1>3. /\ UNCHANGED <<records, nextGen, live, ops, history>> /\ op[h].pc = "return"
      /\ given' = given \/ (given' = given \cup {[id |-> i, gen |-> g]} /\ Written(h))
  BY <1>1 DEF Return, Written, WrittenStages
<1>4. [id |-> i, gen |-> g] \in [id : Ids, gen : Gens]
  OBVIOUS
<1>5. given \subseteq given' /\ given' \subseteq [id : Ids, gen : Gens]
  BY <1>3, <1>4 DEF GenerationsUnique
<1>6. SessionTypes'
  <2>1. \A s \in given' : s.id \in Ids /\ s.gen \in Gens
    BY <1>5
  <2>2. TypeOK'
    BY <1>3, <2>1 DEF SessionTypes, TypeOK, records, history
  <2>3. OperationsTyped'
    BY <1>2, <1>3 DEF SessionTypes, OperationsTyped, SameOthers, history
  <2>4. QED
    BY <2>2, <2>3 DEF SessionTypes
<1>7. \A x : Owner(x)' = Owner(x) /\ Visible(x)' = Visible(x)
  BY <1>3 DEF Owner, Visible, records
<1>8. \A k \in Hooks : /\ Fresh(k)' => Fresh(k) /\ op'[k] = op[k]
                       /\ Written(k)' => Written(k) /\ op'[k] = op[k]
  BY <1>2 DEF Fresh, Written, SameOthers
<1>9. \A x \in Ids, y \in Gens : /\ Issued(x, y)' => Issued(x, y)
                                 /\ Known(x, y)' => Known(x, y)
  BY <1>1, <1>3, <1>8 DEF Issued, Known, records
<1>10. GenerationsUnique'
  <2>1. \A k \in Hooks : SameOpening(k)
    BY <1>2, <1>8 DEF SameOpening, SameOthers
  <2>2. \A k \in Hooks : op'[k].pc # "idle" /\ op'[k].task # "open" =>
          [id |-> op'[k].id, gen |-> op'[k].gen] \in given'
    BY <1>2, <1>5 DEF GenerationsUnique, SameOthers
  <2>3. \A y \in Gens : y \in closing' \/ said'[y] # "nothing" =>
          \E x \in Ids : [id |-> x, gen |-> y] \in given'
    BY <1>3, <1>5 DEF GenerationsUnique, history
  <2>4. QED
    BY <1>3, <1>5, <1>6, <1>9, <2>1, <2>2, <2>3, GenerationsPreserved DEF history
<1>11. AreasApart'
  <2>1. DurableCoversCopies'
    BY <1>3 DEF AreasApart, DurableCoversCopies, records
  <2>2. QED
    BY <1>2, <1>3, <2>1 DEF AreasApart, SameOthers, records, history
<1>12. HolderNamed' /\ OwnerNotRefused' /\ OpenedOnce'
  BY <1>3, <1>7 DEF HolderNamed, OwnerNotRefused, OpenedOnce, history
<1>13. IssuedOwns'
  BY <1>3, <1>7, <1>9 DEF IssuedOwns, Owns, IsOpen, history
<1>14. LooksHold'
  BY <1>2, <1>3, <1>7 DEF LooksHold, SameOthers, Owns, IsOpen, records
<1>15. ClosedStaysClosed' /\ PairsNoted'
  BY <1>2, <1>3, <1>7 DEF ClosedStaysClosed, PairsNoted, IsOpen, SameOthers, history, records
<1>16. IntentAsStated'
  <2> SUFFICES ASSUME NEW s \in given', Owns(Owner(s.id), s.gen)'
               PROVE  /\ said'[s.gen] = "set" => Visible(s.id)' = Intent(s.gen)
                      /\ said'[s.gen] = "cleared" => Visible(s.id)' = None \/ Visible(s.id)'.done
    BY DEF IntentAsStated, Intent
  <2>1. Owns(Owner(s.id), s.gen) /\ said' = said
    BY <1>3, <1>7 DEF Owns, IsOpen, history
  <2>2. CASE s \in given
    BY <1>7, <2>1, <2>2 DEF IntentAsStated
  <2>3. CASE s \notin given
    <3>1. s = [id |-> i, gen |-> g] /\ s.gen = g /\ Known(i, g)
      BY <1>1, <1>3, <2>3 DEF Known, Issued
    <3>2. \A x \in Ids : [id |-> x, gen |-> g] \notin given
      BY <2>3, <3>1 DEF GenerationsUnique, Known, Issued
    <3>3. said[g] = "nothing"
      BY <3>2 DEF GenerationsUnique
    <3>4. QED
      BY <2>1, <3>1, <3>3
  <2>4. QED
    BY <2>2, <2>3
<1>17. QED
  BY <1>6, <1>10, <1>11, <1>12, <1>13, <1>14, <1>15, <1>16

\* A hook takes up a session that was handed out.
LEMMA OperationBegins ==
    ASSUME SessionInv, NEW h \in Hooks, NEW i \in Ids, NEW g \in Gens,
           [id |-> i, gen |-> g] \in given,
           NEW task \in Tasks \ {"none", "open"},
           NEW stage \in {"locate", "look", "ephemeral", "materialise"},
           NEW c \in Clients \cup {None}, Start(h, task, stage, i, g, c),
           task = "resume" => c \in Clients,
           stage = "materialise" => task = "ensure" /\ paired',
           UNCHANGED <<records, nextGen, live, given, holder, opened, closed, said, refused>>,
           closing' = closing \cup (IF task = "close" THEN {g} ELSE {}),
           paired' \in {paired, TRUE}
    PROVE  SessionInv'
<1> USE DEF SessionInv
<1>1. stage \in Stages /\ task \in Tasks /\ stage # "idle"
      /\ (stage \in WrittenStages => task = "ensure")
  BY DEF Stages, WrittenStages
<1>2. /\ op' \in [Hooks -> Operation] /\ SameOthers(h)
      /\ op'[h].pc = stage /\ op'[h].task = task
      /\ op'[h].id = i /\ op'[h].gen = g /\ op'[h].client = c
  BY <1>1, BeginEffect DEF SessionTypes, OperationsTyped
<1>3. ops' \in 0 .. MaxOps /\ closing \subseteq closing' /\ closing' \subseteq Gens
      /\ (task = "close" => g \in closing')
  BY SessionBoundsAssumption DEF Start, SessionTypes, TypeOK
<1>4. SessionTypes'
  <2>1. TypeOK'
    BY <1>3 DEF SessionTypes, TypeOK, records
  <2>2. OperationsTyped'
    <3>1. \A k \in Hooks : op'[k].task = "close" => op'[k].gen \in closing'
      BY <1>2, <1>3 DEF SessionTypes, OperationsTyped, SameOthers
    <3>2. ASSUME NEW k \in Hooks, op'[k].pc # "idle"
          PROVE  /\ op'[k].id \in Ids /\ op'[k].gen \in Gens /\ op'[k].task # "none"
                 /\ op'[k].task \in {"open", "resume"} => op'[k].client \in Clients
                 /\ op'[k].task = "open" => op'[k].pc \in Unwritten \cup WrittenStages
                 /\ op'[k].pc \in WrittenStages => op'[k].task \in {"open", "ensure"}
      <4>1. CASE k = h
        BY <1>1, <1>2, <4>1
      <4>2. CASE k # h
        BY <1>2, <3>2, <4>2 DEF SessionTypes, OperationsTyped, SameOthers
      <4>3. QED
        BY <4>1, <4>2
    <3>3. \A k \in Hooks : op'[k].pc = "idle" => op'[k].task = "none"
      BY <1>1, <1>2 DEF SessionTypes, OperationsTyped, SameOthers
    <3>4. QED
      BY <1>2, <3>1, <3>2, <3>3 DEF OperationsTyped
  <2>3. QED
    BY <2>1, <2>2 DEF SessionTypes
<1>5. \A x : Owner(x)' = Owner(x) /\ Visible(x)' = Visible(x)
  BY DEF Owner, Visible, records
<1>6. \A k \in Hooks : /\ Fresh(k)' => Fresh(k) /\ op'[k] = op[k]
                       /\ Written(k)' => Written(k) /\ op'[k] = op[k]
  BY <1>2 DEF Fresh, Written, SameOthers
<1>7. \A x \in Ids, y \in Gens : /\ Issued(x, y)' => Issued(x, y)
                                 /\ Known(x, y)' => Known(x, y)
  BY <1>6 DEF Issued, Known, records
<1>8. GenerationsUnique'
  <2>1. \A k \in Hooks : SameOpening(k)
    BY <1>2, <1>6 DEF SameOpening, SameOthers
  <2>2. \A k \in Hooks : op'[k].pc # "idle" /\ op'[k].task # "open" =>
          [id |-> op'[k].id, gen |-> op'[k].gen] \in given'
    BY <1>2 DEF GenerationsUnique, SameOthers
  <2>3. \A y \in Gens : y \in closing' \/ said'[y] # "nothing" =>
          \E x \in Ids : [id |-> x, gen |-> y] \in given'
    BY DEF GenerationsUnique
  <2>4. given' \subseteq [id : Ids, gen : Gens]
    BY DEF GenerationsUnique
  <2>5. QED
    BY <1>4, <1>7, <2>1, <2>2, <2>3, <2>4, GenerationsPreserved
<1>9. AreasApart'
  <2>1. DurableCoversCopies'
    BY DEF AreasApart, DurableCoversCopies, records
  <2>2. QED
    BY <1>2, <2>1 DEF AreasApart, SameOthers, records
<1>10. HolderNamed' /\ OwnerNotRefused' /\ OpenedOnce'
  BY <1>5 DEF HolderNamed, OwnerNotRefused, OpenedOnce
<1>11. IssuedOwns'
  BY <1>3, <1>5, <1>7 DEF IssuedOwns, Owns, IsOpen
<1>12. LooksHold'
  BY <1>2, <1>5 DEF LooksHold, SameOthers, Owns, IsOpen, records
<1>13. ClosedStaysClosed'
  BY <1>5 DEF ClosedStaysClosed, IsOpen
<1>14. PairsNoted'
  BY <1>2, <1>5 DEF PairsNoted, IsOpen, SameOthers, records
<1>15. IntentAsStated'
  BY <1>5 DEF IntentAsStated, Intent, Owns, IsOpen
<1>16. QED
  BY <1>4, <1>8, <1>9, <1>10, <1>11, <1>12, <1>13, <1>14, <1>15

\* openSession is called: its generation is new.
LEMMA OpenKeeps ==
    ASSUME SessionInv, NEW h \in Hooks, NEW c \in Clients, NEW i \in Ids,
           NEW reserved \in BOOLEAN, Open(h, c, i, reserved)
    PROVE  SessionInv'
<1> USE DEF SessionInv
<1>1. PICK n \in Gens : n = nextGen
  BY DEF Open, SessionTypes, TypeOK, Gens
<1>2. "locate" \in Stages /\ "open" \in Tasks /\ "locate" \in Unwritten /\ "locate" \notin WrittenStages
  BY DEF Stages, Tasks, Unwritten, WrittenStages
<1>3. /\ op' \in [Hooks -> Operation] /\ SameOthers(h)
      /\ op'[h].pc = "locate" /\ op'[h].task = "open"
      /\ op'[h].id = i /\ op'[h].gen = n /\ op'[h].client = c
  <2>1. op' = [op EXCEPT ![h] = [NoOp EXCEPT !.pc = "locate", !.task = "open", !.id = i,
                   !.gen = n, !.client = c, !.reserved = reserved]]
    BY <1>1 DEF Open
  <2>2. op \in [Hooks -> Operation] /\ c \in Clients \cup {None}
    BY DEF SessionTypes, OperationsTyped
  <2> HIDE DEF SessionInv
  <2>3. QED
    BY <1>2, <2>1, <2>2, StartEffect, ZenonT(40)
<1>4. /\ UNCHANGED <<records, live, given, history>> /\ nextGen' = n + 1 /\ n <= MaxGen
      /\ n \in Nat /\ ops' \in 0 .. MaxOps
  BY <1>1, SessionBoundsAssumption DEF Open, SessionTypes, TypeOK, Gens
<1>5. SessionTypes'
  <2>1. nextGen' \in 1 .. MaxGen + 1
    BY <1>4, SessionBoundsAssumption
  <2>2. TypeOK'
    BY <1>4, <2>1 DEF SessionTypes, TypeOK, records, history
  <2>3. ASSUME NEW k \in Hooks
        PROVE  /\ op'[k].task = "close" => op'[k].gen \in closing'
               /\ op'[k].pc = "idle" => op'[k].task = "none"
               /\ op'[k].pc # "idle" =>
                    /\ op'[k].id \in Ids /\ op'[k].gen \in Gens /\ op'[k].task # "none"
                    /\ op'[k].task \in {"open", "resume"} => op'[k].client \in Clients
                    /\ op'[k].task = "open" => op'[k].pc \in Unwritten \cup WrittenStages
                    /\ op'[k].pc \in WrittenStages => op'[k].task \in {"open", "ensure"}
    <3>1. CASE k = h
      BY <1>2, <1>3, <3>1
    <3>2. CASE k # h
      BY <1>3, <1>4, <3>2 DEF SessionTypes, OperationsTyped, SameOthers, history
    <3>3. QED
      BY <3>1, <3>2
  <2>4. OperationsTyped'
    BY <1>3, <2>3 DEF OperationsTyped
  <2>5. QED
    BY <2>2, <2>4 DEF SessionTypes
<1>6. \A x : Owner(x)' = Owner(x) /\ Visible(x)' = Visible(x)
  BY <1>4 DEF Owner, Visible, records
<1>7. /\ \A k \in Hooks : k # h => Fresh(k)' = Fresh(k) /\ op'[k] = op[k]
      /\ \A k \in Hooks : Written(k)' => Written(k) /\ op'[k] = op[k]
  BY <1>2, <1>3 DEF Fresh, Written, SameOthers
<1>8. \A x \in Ids, y \in Gens : /\ Issued(x, y)' => Issued(x, y)
                                 /\ Known(x, y)' => Known(x, y)
  BY <1>4, <1>7 DEF Issued, Known, records
<1>9. /\ \A x \in Ids, y \in Gens : Known(x, y) => y < n
      /\ opened[n] = 0
      /\ \A k \in Hooks : op[k].task = "open" => op[k].gen < n
  <2>1. \A x \in Ids, y \in Gens : Known(x, y) => y < n
    BY <1>1 DEF GenerationsUnique
  <2>2. opened[n] = 0
    BY <1>1, <1>4 DEF GenerationsUnique
  <2>3. ASSUME NEW k \in Hooks, op[k].task = "open"
        PROVE  op[k].gen < n
    <3>1. /\ op[k].id \in Ids /\ op[k].gen \in Gens
          /\ Fresh(k) \/ Written(k)
      BY <2>3 DEF SessionTypes, OperationsTyped, Fresh, Written
    <3>2. Written(k) => Known(op[k].id, op[k].gen)
      BY DEF Known, Issued
    <3>3. QED
      BY <1>1, <2>1, <3>1, <3>2 DEF GenerationsUnique
  <2>4. QED
    BY <2>1, <2>2, <2>3
<1>10. GenerationsUnique'
  <2>1. \A x, y \in Ids, z \in Gens : Known(x, z)' /\ Known(y, z)' => x = y
    BY <1>8 DEF GenerationsUnique
  <2>2. \A x \in Ids, y \in Gens : Known(x, y)' => y < nextGen'
    <3> SUFFICES ASSUME NEW x \in Ids, NEW y \in Gens, Known(x, y)' PROVE y < nextGen'
      OBVIOUS
    <3>1. y < n /\ y \in Nat
      BY <1>8, <1>9 DEF Gens
    <3>2. QED
      BY <1>4, <3>1
  <2>3. ASSUME NEW k \in Hooks, Fresh(k)'
        PROVE  /\ op'[k].gen < nextGen'
               /\ \A x \in Ids, y \in Gens : y = op'[k].gen => ~Known(x, y)'
               /\ opened'[op'[k].gen] = 0
    <3>1. CASE k = h
      <4>1. \A x \in Ids : ~Known(x, n)'
        BY <1>4, <1>8, <1>9
      <4>2. QED
        BY <1>3, <1>4, <1>9, <3>1, <4>1 DEF history
    <3>2. CASE k # h
      <4>1. Fresh(k) /\ op'[k] = op[k]
        BY <1>7, <2>3, <3>2
      <4>2. op[k].gen \in Nat /\ op[k].gen < n
        BY <1>9, <4>1 DEF Fresh, SessionTypes, OperationsTyped, Unwritten, Gens
      <4>3. op'[k].gen < nextGen'
        BY <1>4, <4>1, <4>2
      <4>4. QED
        BY <1>4, <1>8, <4>1, <4>3 DEF GenerationsUnique, history
    <3>3. QED
      BY <3>1, <3>2
  <2>4. \A a, b \in Hooks : Fresh(a)' /\ op'[b].task = "open" /\ op'[a].gen = op'[b].gen => a = b
    <3> SUFFICES ASSUME NEW a \in Hooks, NEW b \in Hooks, Fresh(a)', op'[b].task = "open",
                        op'[a].gen = op'[b].gen, a # b
                 PROVE  FALSE
      OBVIOUS
    <3>1. CASE a # h /\ b # h
      BY <1>3, <1>7, <3>1 DEF GenerationsUnique, SameOthers
    <3>2. CASE a = h
      <4>1. op[b].task = "open" /\ op[b].gen = n
        BY <1>3, <3>2 DEF SameOthers
      <4>2. QED
        BY <1>4, <1>9, <4>1
    <3>3. CASE b = h
      <4>1. op[a].task = "open" /\ op[a].gen = n
        BY <1>3, <1>7, <3>3 DEF SameOthers, Fresh
      <4>2. QED
        BY <1>4, <1>9, <4>1
    <3>4. QED
      BY <3>1, <3>2, <3>3
  <2>5. \A y \in Gens : y >= nextGen' => opened'[y] = 0
    <3> SUFFICES ASSUME NEW y \in Gens, y >= nextGen' PROVE opened'[y] = 0
      OBVIOUS
    <3>1. y >= nextGen
      BY <1>1, <1>4 DEF Gens
    <3>2. QED
      BY <1>4, <3>1 DEF GenerationsUnique, history
  <2>6. \A k \in Hooks : op'[k].pc # "idle" /\ op'[k].task # "open" =>
          [id |-> op'[k].id, gen |-> op'[k].gen] \in given'
    BY <1>3, <1>4 DEF GenerationsUnique, SameOthers
  <2>7. \A y \in Gens : y \in closing' \/ said'[y] # "nothing" =>
          \E x \in Ids : [id |-> x, gen |-> y] \in given'
    BY <1>4 DEF GenerationsUnique, history
  <2>8. given' \subseteq [id : Ids, gen : Gens]
    BY <1>4 DEF GenerationsUnique
  <2>9. QED
    BY <2>1, <2>2, <2>3, <2>4, <2>5, <2>6, <2>7, <2>8 DEF GenerationsUnique
<1>11. AreasApart'
  <2>1. DurableCoversCopies'
    BY <1>4 DEF AreasApart, DurableCoversCopies, records
  <2>2. QED
    BY <1>3, <1>4, <2>1 DEF AreasApart, SameOthers, records, history
<1>12. HolderNamed' /\ OwnerNotRefused' /\ OpenedOnce'
  BY <1>4, <1>6 DEF HolderNamed, OwnerNotRefused, OpenedOnce, history
<1>13. IssuedOwns'
  BY <1>4, <1>6, <1>8 DEF IssuedOwns, Owns, IsOpen, history
<1>14. LooksHold'
  BY <1>3, <1>4, <1>6 DEF LooksHold, SameOthers, Owns, IsOpen, records
<1>15. ClosedStaysClosed' /\ PairsNoted'
  BY <1>3, <1>4, <1>6 DEF ClosedStaysClosed, PairsNoted, IsOpen, SameOthers, history, records
<1>16. IntentAsStated'
  BY <1>4, <1>6 DEF IntentAsStated, Intent, Owns, IsOpen, history
<1>17. QED
  BY <1>5, <1>10, <1>11, <1>12, <1>13, <1>14, <1>15, <1>16

\* Every call starts an operation that may start.
LEMMA CallKeeps ==
    ASSUME SessionInv, NEW h \in Hooks, Call(h)
    PROVE  SessionInv'
<1>1. CASE \E c \in Clients, i \in Ids, reserved \in BOOLEAN : Open(h, c, i, reserved)
  BY <1>1, OpenKeeps
<1>2. ASSUME NEW s \in given,
             \/ Ensure(h, s) \/ Heartbeat(h, s) \/ Close(h, s)
             \/ \E c \in Clients : Resume(h, s, c)
             \/ \E task \in {"set", "clear"} : IntentOp(h, s, task)
      PROVE  SessionInv'
  <2>1. PICK i \in Ids, g \in Gens : s = [id |-> i, gen |-> g] /\ s.id = i /\ s.gen = g
    BY DEF SessionInv, GenerationsUnique
  <2>2. /\ {"locate", "look", "ephemeral", "materialise"} \subseteq Stages
        /\ {"ensure", "beat", "close", "resume", "set", "clear"} \subseteq Tasks
        /\ closing = closing \cup {} /\ [id |-> i, gen |-> g] \in given
    BY <2>1 DEF Stages, Tasks
  <2>3. CASE Ensure(h, s)
    <3>1. /\ Start(h, "ensure", "materialise", i, g, None) /\ paired' = TRUE
          /\ UNCHANGED <<records, nextGen, live, given, holder, opened, closing, closed, said,
                         refused>>
      BY <2>1, <2>3 DEF Ensure
    <3>2. QED
      BY <2>2, <3>1, OperationBegins
  <2>4. CASE Heartbeat(h, s)
    <3>1. /\ Start(h, "beat", "look", i, g, None)
          /\ UNCHANGED <<records, nextGen, live, given, holder, opened, closing, closed, said,
                         refused, paired>>
      BY <2>1, <2>4 DEF Heartbeat, history
    <3>2. QED
      BY <2>2, <3>1, OperationBegins
  <2>5. CASE Close(h, s)
    <3>1. /\ Start(h, "close", "ephemeral", i, g, None) /\ closing' = closing \cup {g}
          /\ UNCHANGED <<records, nextGen, live, given, holder, opened, closed, said, refused,
                         paired>>
      BY <2>1, <2>5 DEF Close
    <3>2. QED
      BY <2>2, <3>1, OperationBegins
  <2>6. ASSUME NEW c \in Clients, Resume(h, s, c)
        PROVE  SessionInv'
    <3>1. /\ Start(h, "resume", "ephemeral", i, g, c)
          /\ UNCHANGED <<records, nextGen, live, given, holder, opened, closing, closed, said,
                         refused, paired>>
      BY <2>1, <2>6 DEF Resume, history
    <3>2. QED
      BY <2>2, <3>1, OperationBegins
  <2>7. ASSUME NEW task \in {"set", "clear"}, IntentOp(h, s, task)
        PROVE  SessionInv'
    <3>1. /\ Start(h, task, "locate", i, g, None)
          /\ UNCHANGED <<records, nextGen, live, given, holder, opened, closing, closed, said,
                         refused, paired>>
      BY <2>1, <2>7 DEF IntentOp, history
    <3>2. QED
      BY <2>2, <3>1, OperationBegins
  <2>8. QED
    BY <1>2, <2>3, <2>4, <2>5, <2>6, <2>7
<1>3. QED
  BY <1>1, <1>2 DEF Call

\* A client that dies owns nothing any more.
LEMMA ClientDiesKeeps ==
    ASSUME SessionInv, NEW c \in Clients, ClientDies(c)
    PROVE  SessionInv'
<1> USE DEF SessionInv
<1>1. /\ UNCHANGED <<records, nextGen, op, ops, given, history>> /\ live' \subseteq live
  BY DEF ClientDies
<1>2. /\ \A x : Owner(x)' = Owner(x) /\ Visible(x)' = Visible(x)
      /\ \A k : Fresh(k)' = Fresh(k) /\ Written(k)' = Written(k)
      /\ \A x, g : Issued(x, g)' = Issued(x, g) /\ Known(x, g)' = Known(x, g)
  BY <1>1 DEF Owner, Visible, Fresh, Written, Issued, Known, records
<1>3. SessionTypes'
  BY <1>1 DEF SessionTypes, TypeOK, OperationsTyped, records, history
<1>4. AreasApart' /\ GenerationsUnique'
  BY <1>1, <1>2 DEF AreasApart, DurableCoversCopies, GenerationsUnique, records, history
<1>5. HolderNamed' /\ OwnerNotRefused' /\ OpenedOnce'
  BY <1>1, <1>2 DEF HolderNamed, OwnerNotRefused, OpenedOnce, history
<1>6. IssuedOwns' /\ LooksHold'
  BY <1>1, <1>2 DEF IssuedOwns, LooksHold, Owns, IsOpen, records, history
<1>7. ClosedStaysClosed' /\ PairsNoted' /\ IntentAsStated'
  BY <1>1, <1>2
  DEF ClosedStaysClosed, PairsNoted, IntentAsStated, Owns, IsOpen, Intent, records, history
<1>8. QED
  BY <1>3, <1>4, <1>5, <1>6, <1>7

\* A step that changes no variable keeps the invariant.
LEMMA StutterKeeps ==
    ASSUME SessionInv, UNCHANGED vars
    PROVE  SessionInv'
<1> USE DEF SessionInv
<1>1. /\ UNCHANGED <<records, nextGen, live, op, ops, given, history>>
  BY DEF vars
<1>2. /\ \A x : Owner(x)' = Owner(x) /\ Visible(x)' = Visible(x)
      /\ \A k : Fresh(k)' = Fresh(k) /\ Written(k)' = Written(k)
      /\ \A x, g : Issued(x, g)' = Issued(x, g) /\ Known(x, g)' = Known(x, g)
  BY <1>1 DEF Owner, Visible, Fresh, Written, Issued, Known, records
<1>3. SessionTypes'
  BY <1>1 DEF SessionTypes, TypeOK, OperationsTyped, records, history
<1>4. AreasApart' /\ GenerationsUnique'
  BY <1>1, <1>2 DEF AreasApart, DurableCoversCopies, GenerationsUnique, records, history
<1>5. HolderNamed' /\ OwnerNotRefused' /\ OpenedOnce'
  BY <1>1, <1>2 DEF HolderNamed, OwnerNotRefused, OpenedOnce, history
<1>6. IssuedOwns' /\ LooksHold'
  BY <1>1, <1>2 DEF IssuedOwns, LooksHold, Owns, IsOpen, records, history
<1>7. ClosedStaysClosed' /\ PairsNoted' /\ IntentAsStated'
  BY <1>1, <1>2
  DEF ClosedStaysClosed, PairsNoted, IntentAsStated, Owns, IsOpen, Intent, records, history
<1>8. QED
  BY <1>3, <1>4, <1>5, <1>6, <1>7

\* At the start there is no session and no operation.
LEMMA InitEstablishes == Init => SessionInv
<1> SUFFICES ASSUME Init PROVE SessionInv
  OBVIOUS
<1>1. SessionTypes
  BY InitTypes
<1>2. \A h \in Hooks : op[h].pc = "idle" /\ op[h].task = "none"
  BY DEF Init, NoOp
<1>3. \A i \in Ids : /\ eph[i] = None /\ dur[i] = None /\ Owner(i) = None
                     /\ ephIntent[i] = None /\ durIntent[i] = None
  BY DEF Init, Owner
<1>4. \A h \in Hooks : ~Fresh(h) /\ ~Written(h)
  BY <1>2 DEF Fresh, Written
<1>5. \A i \in Ids, g \in Gens : ~Issued(i, g) /\ ~Known(i, g)
  BY <1>3, <1>4 DEF Issued, Known, Init
<1>6. /\ given = {} /\ closing = {} /\ closed = {} /\ refused = {} /\ workspace = FALSE
      /\ \A g \in Gens : opened[g] = 0 /\ said[g] = "nothing"
  BY DEF Init
<1>7. AreasApart
  BY <1>2, <1>3, <1>6 DEF AreasApart, DurableCoversCopies
<1>8. GenerationsUnique
  BY <1>2, <1>4, <1>5, <1>6 DEF GenerationsUnique
<1>9. HolderNamed /\ IssuedOwns /\ LooksHold
  BY <1>2, <1>3, <1>5 DEF HolderNamed, IssuedOwns, LooksHold
<1>10. OwnerNotRefused /\ OpenedOnce
  BY <1>6 DEF OwnerNotRefused, OpenedOnce
<1>11. ClosedStaysClosed /\ PairsNoted /\ IntentAsStated
  BY <1>2, <1>3, <1>6 DEF ClosedStaysClosed, PairsNoted, IntentAsStated, IsOpen
<1>12. QED
  BY <1>1, <1>7, <1>8, <1>9, <1>10, <1>11 DEF SessionInv

\* Every step of the specification preserves the invariant, action by action.
LEMMA NextPreserves == SessionInv /\ [Next]_vars => SessionInv'
<1> SUFFICES ASSUME SessionInv, [Next]_vars PROVE SessionInv'
  OBVIOUS
<1>1. ASSUME NEW h \in Hooks, Call(h) PROVE SessionInv'
  BY <1>1, CallKeeps
<1>2. ASSUME NEW h \in Hooks, Step(h) PROVE SessionInv'
  <2>1. CASE Locate(h)
    BY <2>1, LocateKeeps
  <2>2. CASE Branch(h) \/ OpenPeek(h) \/ OpenCount(h) \/ OpenRecheck(h) \/ HeartbeatLook(h)
    BY <2>2, LooksKeep
  <2>3. CASE HeartbeatEphemeral(h) \/ HeartbeatDurable(h) \/ HookKilled(h)
    BY <2>3, HeartbeatKeeps
  <2>4. CASE Materialise(h)
    BY <2>4, MaterialiseKeeps
  <2>5. CASE Cleanup(h)
    BY <2>5, CleanupKeeps
  <2>6. CASE Return(h)
    BY <2>6, ReturnKeeps
  <2>7. CASE OpenJoin(h)
    BY <2>7, OpenJoinKeeps
  <2>8. CASE OpenEphemeral(h)
    BY <2>8, OpenEphemeralKeeps
  <2>9. CASE OpenDurable(h)
    BY <2>9, OpenDurableKeeps
  <2>10. CASE ResumeEphemeral(h) \/ ResumeDurable(h)
    BY <2>10, ResumeKeeps
  <2>11. CASE CloseEphemeral(h) \/ CloseDurable(h)
    BY <2>11, CloseKeeps
  <2>12. CASE CloseIntent(h)
    BY <2>12, CloseIntentKeeps
  <2>13. CASE SetEphemeral(h) \/ SetDurable(h) \/ ClearEphemeral(h) \/ ClearDurable(h)
    BY <2>13, IntentsKeep
  <2>14. QED
    BY <1>2, <2>1, <2>2, <2>3, <2>4, <2>5, <2>6, <2>7, <2>8, <2>9, <2>10, <2>11, <2>12, <2>13
    DEF Step
<1>3. ASSUME NEW c \in Clients, ClientDies(c) PROVE SessionInv'
  BY <1>3, ClientDiesKeeps
<1>4. CASE UNCHANGED vars
  BY <1>4, StutterKeeps
<1>5. QED
  BY <1>1, <1>2, <1>3, <1>4 DEF Next

-----------------------------------------------------------------------------
(* What the sessions of a workspace promise.                               *)

\* The inductive invariant holds in every reachable state.
THEOREM SessionInvariant == Spec => []SessionInv
  BY InitEstablishes, NextPreserves, PTL DEF Spec

\* Every record has the fields the code gives it.
THEOREM SessionTypeCorrect == Spec => []TypeOK
<1>1. SessionInv => TypeOK
  BY DEF SessionInv, SessionTypes
<1>2. QED
  BY <1>1, SessionInvariant, PTL

\* materialise: the move from the ephemeral to the durable area loses and doubles
\* nothing.  Once it happened every copy has its durable counterpart, a living
\* owner is never refused, and the feed tells of each opening at most once,
\* whatever hook is killed between two steps.
THEOREM SeamlessMove == Spec => []MoveIsSeamless
<1>1. SessionInv => MoveIsSeamless
  BY DEF SessionInv, AreasApart, MoveIsSeamless
<1>2. QED
  BY <1>1, SessionInvariant, PTL

\* openSession and ensureMaterialised: the workspace is materialised only after two
\* sessions were open at once or a durable object was asked for.
THEOREM LoneSession == Spec => []LoneSessionLeavesNoTrace
<1>1. SessionInv => LoneSessionLeavesNoTrace
  BY DEF SessionInv, PairsNoted, LoneSessionLeavesNoTrace
<1>2. QED
  BY <1>1, SessionInvariant, PTL

\* closeSession, setIntent and clearIntent: a closed generation is never open again,
\* and the intent shown for an open session is what its own last operation said.
THEOREM LastWord == Spec => []LastWordStands
<1>1. SessionInv => LastWordStands
  BY DEF SessionInv, LastWordStands
<1>2. QED
  BY <1>1, SessionInvariant, PTL

\* The owner of i, if it is open and alive, keeps its id in this step, or is closed.
OwnerStands(i) ==
    IsOpen(Owner(i)) /\ Owner(i).pid \in live =>
        \/ IsOpen(Owner(i)') /\ Owner(i)'.gen = Owner(i).gen
        \/ Owner(i).gen \in closed'

\* A step that writes no session record leaves every owner where it is.
LEMMA SameRecordsStand ==
    ASSUME UNCHANGED <<eph, dur>>, NEW i
    PROVE  OwnerStands(i)
  BY DEF OwnerStands, Owner, IsOpen

\* An opener writes over a record only if that record is available.
LEMMA OpenersStand ==
    ASSUME SessionInv, NEW h \in Hooks, NEW i \in Ids,
           OpenJoin(h) \/ OpenEphemeral(h) \/ OpenDurable(h)
    PROVE  OwnerStands(i)
<1> USE DEF SessionInv
<1>1. op[h].pc # "idle" /\ op[h].id \in Ids
  BY AtWork DEF OpenJoin, OpenEphemeral, OpenDurable, At
<1>2. \A r, b : IsOpen(r) /\ r.pid \in live => ~Available(r, b)
  BY DEF IsOpen, Available
<1>3. CASE UNCHANGED <<eph, dur>>
  BY <1>3, SameRecordsStand
<1>4. CASE /\ Available(Owner(op[h].id), op[h].reserved)
           /\ \A j \in Ids : j # op[h].id => Owner(j)' = Owner(j)
  BY <1>1, <1>2, <1>4 DEF OwnerStands, IsOpen
<1>5. CASE OpenJoin(h) /\ Join(h) /\ Available(Owner(op[h].id), op[h].reserved)
  <2>1. \A j \in Ids : j # op[h].id => Owner(j)' = Owner(j)
    BY <1>5 DEF Join, Promoted, Owner
  <2>2. QED
    BY <1>4, <1>5, <2>1
<1>6. CASE /\ OpenEphemeral(h) /\ PublishEphemeral(h) /\ ~workspace
           /\ Available(eph[op[h].id], op[h].reserved)
  <2>1. eph \in [Ids -> SessionRecord \cup {None}] /\ dur' = dur
        /\ eph' = [eph EXCEPT ![op[h].id] = Session(op[h].gen, op[h].client)]
        /\ Owner(op[h].id) = eph[op[h].id]
    BY <1>1, <1>6
    DEF OpenEphemeral, PublishEphemeral, SessionTypes, TypeOK, AreasApart, Owner
  <2>2. \A j \in Ids : j # op[h].id => Owner(j)' = Owner(j)
    BY <2>1 DEF Owner
  <2>3. QED
    BY <1>4, <1>6, <2>1, <2>2
<1>7. CASE /\ OpenDurable(h) /\ Available(dur[op[h].id], op[h].reserved)
           /\ dur' = [dur EXCEPT ![op[h].id] = Session(op[h].gen, op[h].client)]
  <2>1. workspace /\ eph' = eph /\ dur \in [Ids -> SessionRecord \cup {None}]
    BY <1>7 DEF OpenDurable, At, AreasApart, SessionTypes, TypeOK
  <2>2. Owner(op[h].id) = dur[op[h].id]
    BY <1>1, <2>1 DEF Owner, AreasApart, DurableCoversCopies
  <2>3. \A j \in Ids : j # op[h].id => Owner(j)' = Owner(j)
    BY <1>7, <2>1 DEF Owner
  <2>4. QED
    BY <1>4, <1>7, <2>2, <2>3
<1>8. QED
  BY <1>3, <1>5, <1>6, <1>7 DEF OpenJoin, OpenEphemeral, OpenDurable, records

\* The move between the areas shows every owner unchanged.
LEMMA MoversStand ==
    ASSUME SessionInv, NEW h \in Hooks, NEW i \in Ids, Materialise(h) \/ Cleanup(h)
    PROVE  OwnerStands(i)
<1> USE DEF SessionInv
<1>1. CASE Materialise(h)
  <2>1. Owner(i)' = Owner(i)
    BY <1>1 DEF Materialise, Promote, Promoted, Owner
  <2>2. QED
    BY <2>1 DEF OwnerStands, IsOpen
<1>2. CASE Cleanup(h)
  <2>1. workspace /\ dur' = dur
    BY <1>2 DEF Cleanup, AreasApart
  <2>2. \A j \in Ids : eph'[j] \in {eph[j], None}
    BY <1>2 DEF Cleanup, SessionTypes, TypeOK
  <2>3. Owner(i)' = Owner(i)
    BY <2>1, <2>2 DEF Owner, AreasApart, DurableCoversCopies
  <2>4. QED
    BY <2>3 DEF OwnerStands, IsOpen
<1>3. QED
  BY <1>1, <1>2

\* resumeSession changes the client of a record, never its generation or its state.
LEMMA ResumersStand ==
    ASSUME SessionInv, NEW h \in Hooks, NEW i \in Ids, ResumeEphemeral(h) \/ ResumeDurable(h)
    PROVE  OwnerStands(i)
<1> USE DEF SessionInv
<1>1. PICK x \in Ids, c \in Clients : x = op[h].id /\ c = op[h].client
  BY DEF ResumeEphemeral, ResumeDurable, At, SessionTypes, OperationsTyped
<1>2. eph \in [Ids -> SessionRecord \cup {None}] /\ dur \in [Ids -> SessionRecord \cup {None}]
  BY DEF SessionTypes, TypeOK
<1>3. ASSUME NEW r \in SessionRecord
      PROVE  /\ [r EXCEPT !.pid = c] \in SessionRecord
             /\ [r EXCEPT !.pid = c].gen = r.gen /\ [r EXCEPT !.pid = c].state = r.state
  BY DEF SessionRecord
<1>4. CASE UNCHANGED <<eph, dur>>
  BY <1>4, SameRecordsStand
<1>5. CASE dur' = dur /\ Owns(eph[x], op[h].gen) /\ eph' = [eph EXCEPT ![x].pid = c]
  <2>1. eph[x] \in SessionRecord /\ eph' = [eph EXCEPT ![x] = [eph[x] EXCEPT !.pid = c]]
    BY <1>2, <1>5 DEF Owns, IsOpen
  <2>2. \A j \in Ids : /\ eph'[j] # None <=> eph[j] # None
                       /\ eph[j] # None => eph'[j].gen = eph[j].gen /\ eph'[j].state = eph[j].state
    BY <1>2, <1>3, <2>1, NoneAssumption
  <2>3. QED
    BY <1>5, <2>2 DEF OwnerStands, Owner, IsOpen
<1>6. CASE eph' = eph /\ Owns(dur[x], op[h].gen) /\ dur' = [dur EXCEPT ![x].pid = c]
  <2>1. dur[x] \in SessionRecord /\ dur' = [dur EXCEPT ![x] = [dur[x] EXCEPT !.pid = c]]
    BY <1>2, <1>6 DEF Owns, IsOpen
  <2>2. \A j \in Ids : /\ dur'[j] # None <=> dur[j] # None
                       /\ dur[j] # None => dur'[j].gen = dur[j].gen /\ dur'[j].state = dur[j].state
    BY <1>2, <1>3, <2>1, NoneAssumption
  <2>3. QED
    BY <1>6, <2>2 DEF OwnerStands, Owner, IsOpen
<1>7. QED
  BY <1>1, <1>4, <1>5, <1>6 DEF ResumeEphemeral, ResumeDurable

\* closeSession ends the session of its own generation only, and records it.
LEMMA ClosersStand ==
    ASSUME SessionInv, NEW h \in Hooks, NEW i \in Ids, CloseEphemeral(h) \/ CloseDurable(h)
    PROVE  OwnerStands(i)
<1> USE DEF SessionInv
<1>1. PICK x \in Ids : x = op[h].id
  BY DEF CloseEphemeral, CloseDurable, At, SessionTypes, OperationsTyped
<1>2. eph \in [Ids -> SessionRecord \cup {None}] /\ dur \in [Ids -> SessionRecord \cup {None}]
  BY DEF SessionTypes, TypeOK
<1>3. CASE UNCHANGED <<eph, dur>>
  BY <1>3, SameRecordsStand
<1>4. CASE /\ CloseEphemeral(h) /\ ~workspace /\ eph[x].gen = op[h].gen
           /\ eph' = [eph EXCEPT ![x] = None] /\ closed' = closed \cup {op[h].gen}
  <2>1. dur' = dur /\ \A j \in Ids : Owner(j) = eph[j]
    BY <1>4 DEF CloseEphemeral, AreasApart, Owner
  <2>2. i # x => Owner(i)' = Owner(i)
    BY <1>2, <1>4, <2>1 DEF Owner
  <2>3. i = x => Owner(i).gen \in closed'
    BY <1>4, <2>1
  <2>4. QED
    BY <2>2, <2>3 DEF OwnerStands, IsOpen
<1>5. CASE /\ CloseDurable(h) /\ dur[x] # None /\ dur[x].gen = op[h].gen
           /\ dur' = [dur EXCEPT ![x].state = "closed"] /\ closed' = closed \cup {op[h].gen}
  <2>1. eph' = eph /\ Owner(x) = dur[x]
    BY <1>5 DEF CloseDurable, Owner
  <2>2. i # x => Owner(i)' = Owner(i)
    BY <1>2, <1>5, <2>1 DEF Owner
  <2>3. i = x => Owner(i).gen \in closed'
    BY <1>5, <2>1
  <2>4. QED
    BY <2>2, <2>3 DEF OwnerStands, IsOpen
<1>6. QED
  BY <1>1, <1>3, <1>4, <1>5 DEF CloseEphemeral, CloseDurable

\* assertReplaceable: while a session is open and its process alive, no step gives
\* its id to another generation; only its own close ends it.
THEOREM OwnerNotReplaced == Spec => LiveOwnerNotReplaced
<1>1. ASSUME SessionInv, Next, NEW i \in Ids
      PROVE  OwnerStands(i)
  <2>1. ASSUME NEW h \in Hooks, Call(h)
        PROVE  UNCHANGED <<eph, dur>>
    BY <2>1 DEF Call, Open, Ensure, Heartbeat, Close, Resume, IntentOp, records
  <2>2. ASSUME NEW h \in Hooks, Step(h)
        PROVE  OwnerStands(i)
    <3>1. CASE \/ Locate(h) \/ Branch(h) \/ Return(h) \/ OpenPeek(h) \/ OpenCount(h)
               \/ OpenRecheck(h) \/ HeartbeatLook(h) \/ HeartbeatEphemeral(h)
               \/ HeartbeatDurable(h) \/ HookKilled(h)
      <4>1. UNCHANGED <<eph, dur>>
        BY <3>1
        DEF Locate, Branch, Return, OpenPeek, OpenCount, OpenRecheck, HeartbeatLook,
            HeartbeatEphemeral, HeartbeatDurable, HookKilled, records
      <4>2. QED
        BY <4>1, SameRecordsStand
    <3>2. CASE \/ CloseIntent(h) \/ SetEphemeral(h) \/ SetDurable(h) \/ ClearEphemeral(h)
               \/ ClearDurable(h)
      <4>1. UNCHANGED <<eph, dur>>
        BY <3>2 DEF CloseIntent, SetEphemeral, SetDurable, ClearEphemeral, ClearDurable
      <4>2. QED
        BY <4>1, SameRecordsStand
    <3>3. CASE OpenJoin(h) \/ OpenEphemeral(h) \/ OpenDurable(h)
      BY <1>1, <3>3, OpenersStand
    <3>4. CASE Materialise(h) \/ Cleanup(h)
      BY <1>1, <3>4, MoversStand
    <3>5. CASE ResumeEphemeral(h) \/ ResumeDurable(h)
      BY <1>1, <3>5, ResumersStand
    <3>6. CASE CloseEphemeral(h) \/ CloseDurable(h)
      BY <1>1, <3>6, ClosersStand
    <3>7. QED
      BY <2>2, <3>1, <3>2, <3>3, <3>4, <3>5, <3>6 DEF Step
  <2>3. ASSUME NEW c \in Clients, ClientDies(c)
        PROVE  UNCHANGED <<eph, dur>>
    BY <2>3 DEF ClientDies, records
  <2>4. QED
    BY <1>1, <2>1, <2>2, <2>3, SameRecordsStand DEF Next
<1>2. SessionInv /\ [Next]_vars =>
        [\A i \in Ids : IsOpen(Owner(i)) /\ Owner(i).pid \in live =>
            \/ IsOpen(Owner(i)') /\ Owner(i)'.gen = Owner(i).gen
            \/ Owner(i).gen \in closed']_vars
  BY <1>1 DEF OwnerStands
<1>3. QED
  BY <1>2, SessionInvariant, PTL DEF Spec, LiveOwnerNotReplaced

=============================================================================
