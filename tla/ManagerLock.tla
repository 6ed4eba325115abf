---------------------------- MODULE ManagerLock ----------------------------
(***************************************************************************)
(* The manager lock of the managed runtime                                 *)
(* (packages/cli/src/managed-runtime/mutex.mjs).                           *)
(*                                                                         *)
(* A call of withManagerLock prepares a private candidate directory that   *)
(* carries its owner record and takes the lock by renaming the candidate   *)
(* to manager.lock.  rename(2) never lands a directory on a non-empty one, *)
(* so a lock is taken only while the name is free.  A lock leaves the name *)
(* by a second rename, to a tombstone named after the identity of the      *)
(* owner that was OBSERVED: by the owner itself when it releases, or by a  *)
(* contender that found the owner's process dead.  Observation and rename  *)
(* are separate steps, and the tombstones are the only fence between a     *)
(* stale observation and the lock of a successor.  A new holder removes    *)
(* tombstones when no other live call can still carry such an observation. *)
(*                                                                         *)
(* One member of Calls is one call of withManagerLock: its owner record    *)
(* holds a fresh random token, so a call and its identity are the same     *)
(* thing.  A call runs once; a process that locks again is another call    *)
(* with the same process id.                                               *)
(***************************************************************************)
EXTENDS FiniteSets

CONSTANTS
    Calls,   \* the calls of withManagerLock
    Pids,    \* the processes
    PidOf,   \* the process that makes a call
    None     \* no directory under a name, no owner observed

ASSUME CallsAssumption == None \notin Calls
ASSUME PidOfAssumption == PidOf \in [Calls -> Pids]

VARIABLES
    alive,       \* the processes that are running
    pc,          \* where each call stands
    seen,        \* the owner a call read from manager.lock (current)
    lock,        \* the call whose owner record is in manager.lock, or None
    candidates,  \* the calls that have a manager.candidate-<pid>-<token> entry
    tombs,       \* tombs[x]: whose record manager.reclaimed-<x> holds, or None
    unchecked,   \* compaction: candidates of the listing still to be probed
    dead,        \* compaction: candidates of the listing found dead
    doomed       \* compaction: tombstones of the listing still to be removed

vars == <<alive, pc, seen, lock, candidates, tombs, unchecked, dead, doomed>>

scan == <<unchecked, dead, doomed>>

-----------------------------------------------------------------------------
(* The stages of a call, in the order of the source.                       *)

\* From the creation of the candidate to its publication or removal: the call
\* may carry an observation of somebody else's lock.
Contending == {"look", "judge", "reclaim", "publish"}

\* compactQuiescentLocks, which runs after the lock is taken.
Compacting == {"list", "probe", "sweep", "bury"}

\* From the publication of the candidate to the end of the finally block.
Owning == Compacting \cup {"operate", "release", "retire"}

Stages == {"idle", "done", "dead"} \cup Contending \cup Owning

Goto(c, stage) == pc' = [pc EXCEPT ![c] = stage]

\* confirmedDead: the only expiry of a lock is the death of its process.
ConfirmedDead(c) == PidOf[c] \notin alive

\* The local variables of compactQuiescentLocks go out of scope.
ForgetScan(c) ==
    /\ unchecked' = [unchecked EXCEPT ![c] = {}]
    /\ dead' = [dead EXCEPT ![c] = {}]
    /\ doomed' = [doomed EXCEPT ![c] = {}]

\* Mutant: the tombstone is named after the process id alone.
RetireToPidTombstone(identity) ==
    IF lock # None /\ \A x \in Calls : PidOf[x] = PidOf[identity] => tombs[x] = None
    THEN /\ tombs' = [tombs EXCEPT ![identity] = lock]
         /\ lock' = None
    ELSE UNCHANGED <<tombs, lock>>

\* retire: move whatever manager.lock holds to the tombstone of `identity`.
\* ENOENT (no lock) and EEXIST/ENOTEMPTY (a tombstone is there) change nothing.
RetireTo(identity) ==
    IF lock # None /\ tombs[identity] = None
    THEN /\ tombs' = [tombs EXCEPT ![identity] = lock]
         /\ lock' = None
    ELSE UNCHANGED <<tombs, lock>>

-----------------------------------------------------------------------------
Init ==
    /\ alive = Pids
    /\ pc = [c \in Calls |-> "idle"]
    /\ seen = [c \in Calls |-> None]
    /\ lock = None
    /\ candidates = {}
    /\ tombs = [c \in Calls |-> None]
    /\ unchecked = [c \in Calls |-> {}]
    /\ dead = [c \in Calls |-> {}]
    /\ doomed = [c \in Calls |-> {}]

\* mkdir(candidate) and the owner record inside it.  Compaction goes by the
\* name of the candidate, so a candidate without a record counts the same.
Prepare(c) ==
    /\ pc[c] = "idle"
    /\ PidOf[c] \in alive
    /\ candidates' = candidates \cup {c}
    /\ Goto(c, "look")
    /\ UNCHANGED <<alive, seen, lock, tombs, scan>>

\* Mutant: the branch on `if (current)` is missing.
LookOwnerUnchecked(c) ==
    /\ pc[c] = "look"
    /\ seen' = [seen EXCEPT ![c] = lock]
    /\ Goto(c, "judge")
    /\ UNCHANGED <<alive, lock, candidates, tombs, scan>>

\* readOwner(directory).  The two lstat calls around the read make a lock that
\* moved meanwhile read as null, which is what an instant without a lock reads.
LookOwner(c) ==
    /\ pc[c] = "look"
    /\ lock # None
    /\ seen' = [seen EXCEPT ![c] = lock]
    /\ Goto(c, "judge")
    /\ UNCHANGED <<alive, lock, candidates, tombs, scan>>

LookFree(c) ==
    /\ pc[c] = "look"
    /\ lock = None
    /\ Goto(c, "publish")
    /\ UNCHANGED <<alive, seen, lock, candidates, tombs, scan>>

\* await confirmedDead(current.pid): a dead owner's lock is to be retired, a
\* live one is waited for (the sleep is the way back to the loop's head).
JudgeDead(c) ==
    /\ pc[c] = "judge"
    /\ ConfirmedDead(seen[c])
    /\ Goto(c, "reclaim")
    /\ UNCHANGED <<alive, seen, lock, candidates, tombs, scan>>

JudgeAlive(c) ==
    /\ pc[c] = "judge"
    /\ ~ConfirmedDead(seen[c])
    /\ seen' = [seen EXCEPT ![c] = None]
    /\ Goto(c, "look")
    /\ UNCHANGED <<alive, lock, candidates, tombs, scan>>

\* retire(directory, tombstone of the owner this call observed).
Reclaim(c) ==
    /\ pc[c] = "reclaim"
    /\ RetireTo(seen[c])
    /\ seen' = [seen EXCEPT ![c] = None]
    /\ Goto(c, "look")
    /\ UNCHANGED <<alive, candidates, scan>>

\* renameEntry(candidate, directory): takes the lock or finds the name taken.
Publish(c) ==
    /\ pc[c] = "publish"
    /\ IF lock = None
       THEN /\ lock' = c
            /\ candidates' = candidates \ {c}
            /\ Goto(c, "list")
       ELSE /\ Goto(c, "look")
            /\ UNCHANGED <<lock, candidates>>
    /\ UNCHANGED <<alive, seen, tombs, scan>>

\* The deadline passed at the head of the loop: the finally block removes the
\* candidate and the call throws.
Timeout(c) ==
    /\ pc[c] = "look"
    /\ candidates' = candidates \ {c}
    /\ Goto(c, "done")
    /\ UNCHANGED <<alive, seen, lock, tombs, scan>>

\* readdir(root): every candidate and every tombstone of this instant.
CompactList(c) ==
    /\ pc[c] = "list"
    /\ unchecked' = [unchecked EXCEPT ![c] = candidates]
    /\ doomed' = [doomed EXCEPT ![c] = {x \in Calls : tombs[x] # None}]
    /\ Goto(c, "probe")
    /\ UNCHANGED <<alive, seen, lock, candidates, tombs, dead>>

\* Mutant: a candidate whose process is alive does not stop the compaction.
CompactProbeAnyCandidate(c) ==
    /\ pc[c] = "probe"
    /\ \E x \in unchecked[c] : unchecked' = [unchecked EXCEPT ![c] = @ \ {x}]
    /\ UNCHANGED <<alive, pc, seen, lock, candidates, tombs, dead, doomed>>

\* One candidate of the listing.  One that is gone, or whose process is not
\* confirmed dead, ends the compaction with nothing removed.
CompactProbe(c) ==
    /\ pc[c] = "probe"
    /\ \E x \in unchecked[c] :
          IF x \in candidates /\ ConfirmedDead(x)
          THEN /\ unchecked' = [unchecked EXCEPT ![c] = @ \ {x}]
               /\ dead' = [dead EXCEPT ![c] = @ \cup {x}]
               /\ UNCHANGED <<pc, doomed>>
          ELSE /\ Goto(c, "operate")
               /\ ForgetScan(c)
    /\ UNCHANGED <<alive, seen, lock, candidates, tombs>>

\* Mutant: the sweep begins before the whole listing has been probed.
CompactProbedEarly(c) ==
    /\ pc[c] = "probe"
    /\ Goto(c, "sweep")
    /\ UNCHANGED <<alive, seen, lock, candidates, tombs, scan>>

CompactProbed(c) ==
    /\ pc[c] = "probe"
    /\ unchecked[c] = {}
    /\ Goto(c, "sweep")
    /\ UNCHANGED <<alive, seen, lock, candidates, tombs, scan>>

\* One tombstone of the listing, removed if the record in it is the owner its
\* name was made from.
CompactSweep(c) ==
    /\ pc[c] = "sweep"
    /\ \E x \in doomed[c] :
          /\ doomed' = [doomed EXCEPT ![c] = @ \ {x}]
          /\ tombs' = [tombs EXCEPT ![x] = IF @ = x THEN None ELSE @]
    /\ UNCHANGED <<alive, pc, seen, lock, candidates, unchecked, dead>>

CompactSwept(c) ==
    /\ pc[c] = "sweep"
    /\ doomed[c] = {}
    /\ Goto(c, "bury")
    /\ UNCHANGED <<alive, seen, lock, candidates, tombs, scan>>

\* The candidates of the dead calls go last.
CompactBury(c) ==
    /\ pc[c] = "bury"
    /\ candidates' = candidates \ dead[c]
    /\ ForgetScan(c)
    /\ Goto(c, "operate")
    /\ UNCHANGED <<alive, seen, lock, tombs>>

\* The locked operation returned or threw: the finally block begins.
Operate(c) ==
    /\ pc[c] = "operate"
    /\ Goto(c, "release")
    /\ UNCHANGED <<alive, seen, lock, candidates, tombs, scan>>

\* The finally block reads the owner again and retires only its own record.
ReleaseCheck(c) ==
    /\ pc[c] = "release"
    /\ Goto(c, IF lock = c THEN "retire" ELSE "done")
    /\ UNCHANGED <<alive, seen, lock, candidates, tombs, scan>>

\* Mutant: a release removes the lock and leaves no tombstone behind.
ReleaseWithoutTombstone(c) ==
    /\ pc[c] = "retire"
    /\ lock' = None
    /\ Goto(c, "done")
    /\ UNCHANGED <<alive, seen, candidates, tombs, scan>>

ReleaseRetire(c) ==
    /\ pc[c] = "retire"
    /\ RetireTo(c)
    /\ Goto(c, "done")
    /\ UNCHANGED <<alive, seen, candidates, scan>>

\* A process dies or exits at any instant: its unfinished calls stop there and
\* their local variables are lost.  What is on disk stays.
Die(p) ==
    /\ p \in alive
    /\ alive' = alive \ {p}
    /\ pc' = [c \in Calls |-> IF PidOf[c] = p /\ pc[c] # "done"
                              THEN "dead" ELSE pc[c]]
    /\ seen' = [c \in Calls |-> IF PidOf[c] = p THEN None ELSE seen[c]]
    /\ unchecked' = [c \in Calls |-> IF PidOf[c] = p THEN {} ELSE unchecked[c]]
    /\ dead' = [c \in Calls |-> IF PidOf[c] = p THEN {} ELSE dead[c]]
    /\ doomed' = [c \in Calls |-> IF PidOf[c] = p THEN {} ELSE doomed[c]]
    /\ UNCHANGED <<lock, candidates, tombs>>

\* One step of one call of withManagerLock.
Step(c) ==
    \/ LookOwner(c) \/ LookFree(c) \/ JudgeDead(c) \/ JudgeAlive(c)
    \/ Reclaim(c) \/ Publish(c)
    \/ CompactList(c) \/ CompactProbe(c) \/ CompactProbed(c)
    \/ CompactSweep(c) \/ CompactSwept(c) \/ CompactBury(c)
    \/ Operate(c) \/ ReleaseCheck(c) \/ ReleaseRetire(c)

Next ==
    \/ \E c \in Calls : Prepare(c) \/ Timeout(c) \/ Step(c)
    \/ \E p \in Pids : Die(p)

Spec == Init /\ [][Next]_vars

\* A live call is running code: it takes its next step in the end.  Starting a
\* call, the passing of its deadline and the death of a process are not forced.
FairSpec == Spec /\ \A c \in Calls : WF_vars(Step(c))

-----------------------------------------------------------------------------
(* Properties.                                                             *)

\* Every variable has its type, and a call that judges or reclaims has read an
\* owner to judge (withManagerLock branches on `if (current)`).
TypeOK ==
    /\ alive \in SUBSET Pids
    /\ pc \in [Calls -> Stages]
    /\ seen \in [Calls -> Calls \cup {None}]
    /\ lock \in Calls \cup {None}
    /\ candidates \in SUBSET Calls
    /\ tombs \in [Calls -> Calls \cup {None}]
    /\ unchecked \in [Calls -> SUBSET Calls]
    /\ dead \in [Calls -> SUBSET Calls]
    /\ doomed \in [Calls -> SUBSET Calls]
    /\ \A c \in Calls : pc[c] \in {"judge", "reclaim"} => seen[c] \in Calls

\* withManagerLock runs at most one operation at a time, whatever processes die
\* and however long a contender sleeps between its read and its rename.
MutualExclusion ==
    \A c, d \in Calls : pc[c] \in Owning /\ pc[d] \in Owning => c = d

\* A contender that carries an observed owner either still faces that owner's
\* lock or will be stopped by the retained tombstone (mutex.mjs, the comments in
\* withManagerLock and before compactQuiescentLocks).
StaleObserverFenced ==
    \A c \in Calls : pc[c] \in {"judge", "reclaim"} =>
        lock = seen[c] \/ tombs[seen[c]] # None

\* The lock leaves the canonical name only when its process is dead or when the
\* owner itself releases it.
LiveOwnerKeepsLock ==
    [][ \A c \in Calls : lock = c /\ lock' # c =>
            PidOf[c] \notin alive \/ pc[c] = "retire" ]_vars

\* A dead owner blocks nobody forever: while somebody goes on contending, its
\* lock is reclaimed.
AbandonedLockReclaimed ==
    \A c \in Calls :
        lock = c /\ PidOf[c] \notin alive
            ~> lock # c \/ \A d \in Calls : pc[d] \notin Contending
=============================================================================
