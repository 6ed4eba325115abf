---------------------------- MODULE WriterMutex ----------------------------
(***************************************************************************)
(* The store's writer mutex (packages/storage-filesystem/src/              *)
(* writer-mutex.mjs), on POSIX.                                            *)
(*                                                                         *)
(* Like the manager lock it is a directory with an owner record inside,    *)
(* published and retired by rename(2).  Two things differ.  A lock is      *)
(* stale when its process is dead OR when it is older than STALE_MS, since *)
(* a process id may be recycled.  And a release moves the directory to a   *)
(* private name and deletes it: only a RECLAIMED lock leaves a tombstone.  *)
(*                                                                         *)
(* Nothing is flushed: a crash of the machine may leave an owner record    *)
(* that cannot be read, which is then judged by its age alone.             *)
(*                                                                         *)
(* One member of Writers is one call of withWriterMutex (one random        *)
(* token).                                                                 *)
(***************************************************************************)
EXTENDS FiniteSets

CONSTANTS
    Writers,     \* the calls of withWriterMutex
    Processes,   \* the processes
    WriterPid,   \* the process that makes a call
    NoWriter     \* no directory under a name, no owner observed

ASSUME WritersAssumption == NoWriter \notin Writers
ASSUME WriterPidAssumption == WriterPid \in [Writers -> Processes]

VARIABLES
    living,      \* the processes that have not ended
    stage,       \* where each call stands
    met,         \* the owner a call read from writer.lock
    writerLock,  \* the call whose directory is writer.lock, or NoWriter
    prepared,    \* the calls that have a writer.candidate-<token> entry
    reclaimed,   \* reclaimed[x]: whose directory writer.reclaimed-<x> is, or NoWriter
    aged,        \* the calls whose acquiredAt is more than STALE_MS ago
    torn,        \* the calls whose owner record a machine crash made unreadable
    \* History, read by the properties alone.
    lapses       \* what happened that the code takes for too rare: "slow", "exit"

writerVars == <<living, stage, met, writerLock, prepared, reclaimed, aged, torn, lapses>>

environment == <<living, aged, torn, lapses>>

-----------------------------------------------------------------------------
Waiting == {"try", "look", "judge", "reclaim", "sleep"}

\* From the rename that takes the lock to the end of the finally block.
Writing == {"taken", "operate", "release", "retire"}

Running == Waiting \cup Writing

WriterStages == {"idle", "done", "dead"} \cup Running

WriterGoto(c, next) == stage' = [stage EXCEPT ![c] = next]

\* Mutant: an owner record that cannot be read is never stale.
StaleReadableOnly(owner) ==
    owner \notin torn /\ (WriterPid[owner] \notin living \/ owner \in aged)

\* The test of takeStaleOwnership.
Stale(owner) ==
    IF owner \in torn THEN owner \in aged
                      ELSE WriterPid[owner] \notin living \/ owner \in aged

-----------------------------------------------------------------------------
WriterInit ==
    /\ living = Processes
    /\ stage = [c \in Writers |-> "idle"]
    /\ met = [c \in Writers |-> NoWriter]
    /\ writerLock = NoWriter
    /\ prepared = {}
    /\ reclaimed = [c \in Writers |-> NoWriter]
    /\ aged = {}
    /\ torn = {}
    /\ lapses = {}

\* prepareCandidate: a directory that already carries the owner record.
WriterPrepares(c) ==
    /\ stage[c] = "idle"
    /\ WriterPid[c] \in living
    /\ prepared' = prepared \cup {c}
    /\ WriterGoto(c, "try")
    /\ UNCHANGED <<environment, met, writerLock, reclaimed>>

\* rename(candidate, writer.lock): EEXIST/ENOTEMPTY if a lock is there.
Acquire(c) ==
    /\ stage[c] = "try"
    /\ writerLock = NoWriter
    /\ writerLock' = c
    /\ prepared' = prepared \ {c}
    /\ WriterGoto(c, "taken")
    /\ UNCHANGED <<environment, met, reclaimed>>

Taken(c) ==
    /\ stage[c] = "try"
    /\ writerLock # NoWriter
    /\ WriterGoto(c, "look")
    /\ UNCHANGED <<environment, met, writerLock, prepared, reclaimed>>

\* Mutant: a lock that has gone is not told from an owner.
LookUnchecked(c) ==
    /\ stage[c] = "look"
    /\ met' = [met EXCEPT ![c] = writerLock]
    /\ WriterGoto(c, "judge")
    /\ UNCHANGED <<environment, writerLock, prepared, reclaimed>>

\* readOwner(writer.lock): null if the directory has gone meanwhile.
Look(c) ==
    /\ stage[c] = "look"
    /\ met' = [met EXCEPT ![c] = writerLock]
    /\ WriterGoto(c, IF writerLock = NoWriter THEN "sleep" ELSE "judge")
    /\ UNCHANGED <<environment, writerLock, prepared, reclaimed>>

\* takeStaleOwnership up to its verdict.
Judge(c) ==
    /\ stage[c] = "judge"
    /\ IF Stale(met[c])
       THEN /\ WriterGoto(c, "reclaim")
            /\ UNCHANGED met
       ELSE /\ WriterGoto(c, "sleep")
            /\ met' = [met EXCEPT ![c] = NoWriter]
    /\ UNCHANGED <<environment, writerLock, prepared, reclaimed>>

\* Mutant: the stale lock is deleted and leaves no tombstone.
ReclaimWithoutTombstone(c) ==
    /\ stage[c] = "reclaim"
    /\ writerLock' = NoWriter
    /\ met' = [met EXCEPT ![c] = NoWriter]
    /\ WriterGoto(c, "try")
    /\ UNCHANGED <<environment, prepared, reclaimed>>

\* Mutant: the tombstone is made before the lock is moved.
ReclaimTombstoneFirst(c) ==
    /\ stage[c] = "reclaim"
    /\ IF writerLock # NoWriter /\ reclaimed[met[c]] = NoWriter
       THEN /\ reclaimed' = [reclaimed EXCEPT ![met[c]] = met[c]]
            /\ UNCHANGED <<writerLock, met, stage>>
       ELSE /\ UNCHANGED reclaimed
            /\ writerLock' = NoWriter
            /\ met' = [met EXCEPT ![c] = NoWriter]
            /\ WriterGoto(c, "try")
    /\ UNCHANGED <<environment, prepared>>

\* rename(writer.lock, writer.reclaimed-<identity of the observed owner>): moves
\* whatever is there, unless nothing is or the tombstone exists.  A success
\* retries at once, a failure sleeps first.
WriterReclaims(c) ==
    /\ stage[c] = "reclaim"
    /\ IF writerLock # NoWriter /\ reclaimed[met[c]] = NoWriter
       THEN /\ reclaimed' = [reclaimed EXCEPT ![met[c]] = writerLock]
            /\ writerLock' = NoWriter
            /\ WriterGoto(c, "try")
       ELSE /\ UNCHANGED <<writerLock, reclaimed>>
            /\ WriterGoto(c, "sleep")
    /\ met' = [met EXCEPT ![c] = NoWriter]
    /\ UNCHANGED <<environment, prepared>>

Sleep(c) ==
    /\ stage[c] = "sleep"
    /\ WriterGoto(c, "try")
    /\ UNCHANGED <<environment, met, writerLock, prepared, reclaimed>>

\* The deadline passed while waiting: the finally block removes the candidate
\* and the call throws a conflict.
GiveUp(c) ==
    /\ stage[c] \in {"try", "sleep"}
    /\ prepared' = prepared \ {c}
    /\ WriterGoto(c, "done")
    /\ UNCHANGED <<environment, met, writerLock, reclaimed>>

Enter(c) ==
    /\ stage[c] = "taken"
    /\ WriterGoto(c, "operate")
    /\ UNCHANGED <<environment, met, writerLock, prepared, reclaimed>>

\* Mutant: the late branch returns without releasing.
TooLateKeepsLock(c) ==
    /\ stage[c] = "taken"
    /\ WriterGoto(c, "done")
    /\ UNCHANGED <<environment, met, writerLock, prepared, reclaimed>>

\* The deadline passed in the rename: the lock is released unused.
TooLate(c) ==
    /\ stage[c] = "taken"
    /\ WriterGoto(c, "release")
    /\ UNCHANGED <<environment, met, writerLock, prepared, reclaimed>>

\* The operation returned or threw.
WriterOperates(c) ==
    /\ stage[c] = "operate"
    /\ WriterGoto(c, "release")
    /\ UNCHANGED <<environment, met, writerLock, prepared, reclaimed>>

\* releaseCanonical reads the owner and goes on only if the token is its own.
WriterReleases(c) ==
    /\ stage[c] = "release"
    /\ WriterGoto(c, IF writerLock = c THEN "retire" ELSE "done")
    /\ UNCHANGED <<environment, met, writerLock, prepared, reclaimed>>

\* rename(writer.lock, writer.released-<own identity>), then removal of it.  The
\* target is new, so the rename moves whatever lock is there.
WriterRetires(c) ==
    /\ stage[c] = "retire"
    /\ writerLock' = NoWriter
    /\ WriterGoto(c, "done")
    /\ UNCHANGED <<environment, met, prepared, reclaimed>>

-----------------------------------------------------------------------------
(* The environment: clocks, clients that kill their hooks, power failures. *)

\* STALE_MS has passed since a call stamped its owner record.  It is a lapse if
\* the call, or one that met it alive, is still running.
Age(c) ==
    /\ c \notin aged
    /\ stage[c] # "idle"
    /\ aged' = aged \cup {c}
    /\ lapses' = IF \/ stage[c] \in Running
                    \/ stage[c] # "dead" /\ \E d \in Writers : met[d] = c
                 THEN lapses \cup {"slow"} ELSE lapses
    /\ UNCHANGED <<living, stage, met, writerLock, prepared, reclaimed, torn>>

Stopped(processes) ==
    /\ living' = living \ processes
    /\ stage' = [c \in Writers |-> IF WriterPid[c] \in processes /\ stage[c] # "done"
                              THEN "dead" ELSE stage[c]]
    /\ met' = [c \in Writers |-> IF WriterPid[c] \in processes THEN NoWriter ELSE met[c]]

\* A process is killed, or exits.  It is a lapse if a contender has read an owner
\* of it that has released since, and goes on to judge it.
WriterDies(p) ==
    /\ p \in living
    /\ Stopped({p})
    /\ lapses' = IF \E c, d \in Writers : /\ WriterPid[c] = p /\ stage[c] = "done"
                                       /\ WriterPid[d] # p /\ met[d] = c
                 THEN lapses \cup {"exit"} ELSE lapses
    /\ UNCHANGED <<writerLock, prepared, reclaimed, aged, torn>>

\* The machine goes down: every process that has begun a call ends, and the
\* record in the lock, never flushed, may be lost.
MachineCrash ==
    LET begun == {WriterPid[c] : c \in {d \in Writers : stage[d] # "idle"}} IN
    /\ begun \cap living # {}
    /\ Stopped(begun)
    /\ torn' \in {torn, torn \cup ({writerLock} \ {NoWriter})}
    /\ UNCHANGED <<writerLock, prepared, reclaimed, aged, lapses>>

-----------------------------------------------------------------------------
WriterStep(c) ==
    \/ Acquire(c) \/ Taken(c) \/ Look(c) \/ Judge(c) \/ WriterReclaims(c) \/ Sleep(c)
    \/ Enter(c) \/ WriterOperates(c) \/ WriterReleases(c) \/ WriterRetires(c)

WriterNext ==
    \/ \E c \in Writers : WriterPrepares(c) \/ GiveUp(c) \/ TooLate(c) \/ WriterStep(c) \/ Age(c)
    \/ \E p \in Processes : WriterDies(p)
    \/ MachineCrash

WriterSpec == WriterInit /\ [][WriterNext]_writerVars

\* A running process takes its next step, and time passes for a lock nobody
\* works under any more.
WriterFairSpec ==
    /\ WriterSpec
    /\ \A c \in Writers : /\ WF_writerVars(WriterStep(c))
                          /\ WF_writerVars(Age(c) /\ stage[c] = "dead")

-----------------------------------------------------------------------------
(* Properties.                                                             *)

\* Every variable has its type, and a call judges or reclaims only an owner it
\* has read.
WriterTypeOK ==
    /\ living \in SUBSET Processes
    /\ stage \in [Writers -> WriterStages]
    /\ met \in [Writers -> Writers \cup {NoWriter}]
    /\ writerLock \in Writers \cup {NoWriter}
    /\ prepared \in SUBSET Writers
    /\ reclaimed \in [Writers -> Writers \cup {NoWriter}]
    /\ aged \in SUBSET Writers
    /\ torn \in SUBSET Writers
    /\ lapses \subseteq {"slow", "exit"}
    /\ \A c \in Writers : stage[c] \in {"judge", "reclaim"} => met[c] \in Writers

\* Two writers are never inside the mutex at once, unless a write outlived
\* STALE_MS or an owner released and exited between a contender's read of its
\* record and the contender's verdict.
WritersExclude ==
    lapses = {} => \A c, d \in Writers : stage[c] \in Writing /\ stage[d] \in Writing => c = d

\* A call that has returned or thrown has left no lock of its own behind.
FinishedLeavesNoLock == \A c \in Writers : stage[c] = "done" => writerLock # c

\* The retired name of an owner is never taken while that owner still is in
\* writer.lock: a stale lock can always be moved aside.
StaleLockMovable == writerLock # NoWriter => reclaimed[writerLock] = NoWriter

\* The writer mutex excludes, and neither a finished nor a stale call wedges it.
WriterSafe == WritersExclude /\ FinishedLeavesNoLock /\ StaleLockMovable

\* A writer killed while it held the mutex, or a machine that went down, blocks
\* the store for no longer than somebody waits for it.
WriterLockReclaimed ==
    \A c \in Writers :
        writerLock = c /\ WriterPid[c] \notin living
            ~> writerLock # c \/ \A d \in Writers : stage[d] \notin Waiting
=============================================================================
