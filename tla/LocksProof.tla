----------------------------- MODULE LocksProof -----------------------------
(***************************************************************************)
(* Proofs about ManagerLock and WriterMutex, the two file locks of the     *)
(* program, for every set of calls and processes.                          *)
(*                                                                         *)
(* Mutual exclusion of the manager lock is not inductive: it rests on the  *)
(* fence that retained tombstones put in front of stale observations, and  *)
(* the fence in turn on what compaction may know of the calls it did not   *)
(* list.                                                                   *)
(*                                                                         *)
(* What protects a writer is the tombstone of the owner a contender has    *)
(* read.  A writer that was killed keeps its lock until that tombstone     *)
(* stands, so a contender that judged it stale can only move that lock.  A *)
(* writer that has released leaves nothing behind; while nothing lapsed,   *)
(* no contender judges it stale.                                           *)
(***************************************************************************)
EXTENDS ManagerLock, WriterMutex, TLAPS

(***************************************************************************)
(* The manager lock.                                                       *)
(***************************************************************************)
\* Only a running process executes steps of a call.
RunningCallsLive ==
    \A c \in Calls : pc[c] \in Contending \cup Owning => PidOf[c] \in alive

\* A call that has taken the lock and not given it back is the one whose
\* record is in manager.lock.
OwnerHoldsLock == \A c \in Calls : pc[c] \in Owning => lock = c

\* A tombstone holds the record it is named after.
TombstonesNamedAfterOwner == \A x \in Calls : tombs[x] \in {x, None}

\* The owner in manager.lock has not been retired.
OwnerNotRetired == lock # None => tombs[lock] = None

\* A call that has not published its candidate has left no trace of ownership.
UnpublishedCalls ==
    \A c \in Calls : pc[c] \in {"idle"} \cup Contending =>
        lock # c /\ tombs[c] = None

\* A contender keeps its candidate for as long as it may hold an observation.
ContendersListed == \A c \in Calls : pc[c] \in Contending => c \in candidates

\* An owner judged dead is dead.
JudgedDeadIsDead ==
    \A c \in Calls : pc[c] = "reclaim" => PidOf[seen[c]] \notin alive

\* What a compacting holder h knows: a contender is still to be probed, or it
\* came after the listing and can only have observed h, whose own tombstone is
\* not among the doomed ones.
CompactionKnows ==
    \A h \in Calls : pc[h] \in {"probe", "sweep"} =>
        /\ h \notin doomed[h]
        /\ pc[h] = "sweep" => unchecked[h] = {}
        /\ \A c \in Calls : pc[c] \in Contending =>
              c \in unchecked[h] \/ (pc[c] \in {"judge", "reclaim"} => seen[c] = h)

ProbedDeadAreDead ==
    \A h \in Calls : \A x \in dead[h] : PidOf[x] \notin alive

IInv ==
    /\ TypeOK
    /\ RunningCallsLive
    /\ OwnerHoldsLock
    /\ TombstonesNamedAfterOwner
    /\ OwnerNotRetired
    /\ UnpublishedCalls
    /\ ContendersListed
    /\ JudgedDeadIsDead
    /\ CompactionKnows
    /\ ProbedDeadAreDead
    /\ StaleObserverFenced

-----------------------------------------------------------------------------
(* The inductive invariant.                                                *)

\* The initial state: nothing on disk, no call started.
LEMMA InitEstablishes == Init => IInv
  BY CallsAssumption, PidOfAssumption
  DEF Init, IInv, TypeOK, RunningCallsLive, OwnerHoldsLock, TombstonesNamedAfterOwner,
     OwnerNotRetired, UnpublishedCalls, ContendersListed, JudgedDeadIsDead, CompactionKnows,
     ProbedDeadAreDead, StaleObserverFenced, Stages, Contending, Owning, Compacting

\* Every step of every call, and every death, preserves the invariant.
LEMMA NextPreserves == IInv /\ [Next]_vars => IInv'
<1> SUFFICES ASSUME IInv, [Next]_vars
             PROVE  IInv'
  OBVIOUS
<1> USE CallsAssumption, PidOfAssumption
    DEF IInv, TypeOK, RunningCallsLive, OwnerHoldsLock,
        TombstonesNamedAfterOwner, OwnerNotRetired, UnpublishedCalls,
        ContendersListed, JudgedDeadIsDead, CompactionKnows,
        ProbedDeadAreDead, StaleObserverFenced,
        Stages, Contending, Owning, Compacting, Goto, scan
<1>1. ASSUME NEW c \in Calls, Prepare(c)
      PROVE  IInv'
  BY <1>1 DEF Prepare
  \* Whoever looks while a holder compacts observes that holder.
<1>2. ASSUME NEW c \in Calls, LookOwner(c)
      PROVE  IInv'
  BY <1>2 DEF LookOwner
<1>3. ASSUME NEW c \in Calls, LookFree(c)
      PROVE  IInv'
  BY <1>3 DEF LookFree
<1>4. ASSUME NEW c \in Calls, JudgeDead(c)
      PROVE  IInv'
  BY <1>4 DEF JudgeDead, ConfirmedDead
<1>5. ASSUME NEW c \in Calls, JudgeAlive(c)
      PROVE  IInv'
  BY <1>5 DEF JudgeAlive, ConfirmedDead
  \* The fence makes the lock that is moved the one that was observed, so the
  \* tombstone gets the record it is named after.
<1>6. ASSUME NEW c \in Calls, Reclaim(c)
      PROVE  IInv'
  BY <1>6 DEF Reclaim, RetireTo
  \* The new owner has no tombstone and no other call owns the lock.
<1>7. ASSUME NEW c \in Calls, Publish(c)
      PROVE  IInv'
  BY <1>7 DEF Publish
<1>8. ASSUME NEW c \in Calls, Timeout(c)
      PROVE  IInv'
  BY <1>8 DEF Timeout
<1>9. ASSUME NEW c \in Calls, CompactList(c)
      PROVE  IInv'
  BY <1>9 DEF CompactList
  \* A probed candidate belongs to a dead process, hence to no contender.
<1>10. ASSUME NEW c \in Calls, CompactProbe(c)
      PROVE  IInv'
  BY <1>10 DEF CompactProbe, ForgetScan, ConfirmedDead
<1>11. ASSUME NEW c \in Calls, CompactProbed(c)
      PROVE  IInv'
  BY <1>11 DEF CompactProbed
  \* A tombstone that goes is nobody's fence: whoever holds an observation came
  \* after the listing and observed this holder.
<1>12. ASSUME NEW c \in Calls, CompactSweep(c)
      PROVE  IInv'
  BY <1>12 DEF CompactSweep
<1>13. ASSUME NEW c \in Calls, CompactSwept(c)
      PROVE  IInv'
  BY <1>13 DEF CompactSwept
<1>14. ASSUME NEW c \in Calls, CompactBury(c)
      PROVE  IInv'
  BY <1>14 DEF CompactBury, ForgetScan
<1>15. ASSUME NEW c \in Calls, Operate(c)
      PROVE  IInv'
  BY <1>15 DEF Operate
<1>16. ASSUME NEW c \in Calls, ReleaseCheck(c)
      PROVE  IInv'
  BY <1>16 DEF ReleaseCheck
<1>17. ASSUME NEW c \in Calls, ReleaseRetire(c)
      PROVE  IInv'
  BY <1>17 DEF ReleaseRetire, RetireTo
<1>18. ASSUME NEW p \in Pids, Die(p)
      PROVE  IInv'
  BY <1>18 DEF Die
<1>19. CASE UNCHANGED vars
  BY <1>19 DEF vars
<1>20. QED
  BY <1>1, <1>2, <1>3, <1>4, <1>5, <1>6, <1>7, <1>8, <1>9, <1>10, <1>11, <1>12, <1>13, <1>14,
     <1>15, <1>16, <1>17, <1>18, <1>19
  DEF Next, Step

\* The inductive invariant holds in every reachable state.
THEOREM Invariant == Spec => []IInv
<1>1. Init => IInv
  BY InitEstablishes
<1>2. IInv /\ [Next]_vars => IInv'
  BY NextPreserves
<1>3. QED
  BY <1>1, <1>2, PTL DEF Spec

-----------------------------------------------------------------------------
(* What follows from it.                                                   *)

\* Type correctness of the lock protocol of withManagerLock.
THEOREM TypeCorrect == Spec => []TypeOK
<1>1. IInv => TypeOK
  BY DEF IInv
<1>2. QED
  BY <1>1, Invariant, PTL

\* At most one call of withManagerLock owns the lock and runs its operation,
\* whatever dies and whenever: two owners would both be in manager.lock.
THEOREM Exclusion == Spec => []MutualExclusion
<1>1. IInv => MutualExclusion
  BY DEF IInv, OwnerHoldsLock, MutualExclusion
<1>2. QED
  BY <1>1, Invariant, PTL

\* A stale observation of an owner stays fenced until it is dropped, although
\* every new holder may remove tombstones.
THEOREM Fencing == Spec => []StaleObserverFenced
<1>1. IInv => StaleObserverFenced
  BY DEF IInv
<1>2. QED
  BY <1>1, Invariant, PTL

\* No step takes manager.lock away from a live owner that is not releasing it.
THEOREM LiveOwnerSafe == Spec => LiveOwnerKeepsLock
<1> DEFINE Keeps == \A c \in Calls : lock = c /\ lock' # c =>
                        PidOf[c] \notin alive \/ pc[c] = "retire"
<1>1. ASSUME IInv, [Next]_vars
      PROVE  Keeps
  <2> SUFFICES ASSUME NEW c \in Calls, lock = c, lock' # c
               PROVE  PidOf[c] \notin alive \/ pc[c] = "retire"
    OBVIOUS
  <2> USE IInv, CallsAssumption DEF IInv, TypeOK
    \* The fence: with no tombstone of the observed owner, the lock is its.
  <2>1. ASSUME NEW d \in Calls, Reclaim(d)
        PROVE  PidOf[c] \notin alive
    BY <2>1 DEF Reclaim, RetireTo, StaleObserverFenced, JudgedDeadIsDead
  <2>2. ASSUME NEW d \in Calls, ReleaseRetire(d)
        PROVE  pc[c] = "retire"
    BY <2>2 DEF ReleaseRetire, OwnerHoldsLock, Owning
  <2>3. ASSUME NEW d \in Calls, Publish(d)
        PROVE  FALSE
    BY <2>3 DEF Publish
  <2>4. QED
    BY <1>1, <2>1, <2>2, <2>3
    DEF Next, Step, vars, Die, Prepare, LookOwner, LookFree, JudgeDead,
        JudgeAlive, Timeout, CompactList, CompactProbe, CompactProbed,
        CompactSweep, CompactSwept, CompactBury, Operate, ReleaseCheck
<1>2. IInv /\ [Next]_vars => [Keeps]_vars
  BY <1>1
<1>3. QED
  BY <1>2, Invariant, PTL DEF Spec, LiveOwnerKeepsLock

(***************************************************************************)
(* The writer mutex.                                                       *)
(***************************************************************************)
\* A call that is not the owner of a lock yet has left no trace of ownership.
UnpublishedWriters ==
    \A c \in Writers : stage[c] \in {"idle"} \cup Waiting =>
        /\ writerLock # c /\ reclaimed[c] = NoWriter
        /\ \A d \in Writers : met[d] # c

\* Only a running process executes the steps of a call, and only such a call
\* remembers an owner.
RunningWritersLive ==
    \A c \in Writers :
        /\ stage[c] \in Running => WriterPid[c] \in living
        /\ met[c] # NoWriter => stage[c] \in {"judge", "reclaim"}

\* A call between its rename and its return is the one in writer.lock.
WriterHoldsLock == \A c \in Writers : stage[c] \in Writing => writerLock = c

\* An owner that was read still is in writer.lock, has its tombstone, or has
\* released.
MetAccounted ==
    \A d \in Writers : met[d] # NoWriter =>
        \/ writerLock = met[d] \/ reclaimed[met[d]] # NoWriter
        \/ stage[met[d]] = "done"

\* While nothing lapsed no running call is old, and an owner that released is
\* young and lives for as long as somebody remembers it: it is not judged stale.
ReleasedNotStale ==
    /\ \A c \in aged : stage[c] \notin Running \cup {"idle"}
    /\ \A d \in Writers : met[d] # NoWriter /\ stage[met[d]] = "done" =>
        met[d] \notin aged /\ WriterPid[met[d]] \in living
    /\ \A d \in Writers : stage[d] = "reclaim" => stage[met[d]] = "dead"

\* The inductive invariant: what holds at all times, and what holds until a write
\* outlives STALE_MS or an owner exits under a contender's eyes.
WriterInv ==
    /\ WriterTypeOK
    /\ UnpublishedWriters
    /\ RunningWritersLive
    /\ FinishedLeavesNoLock
    /\ StaleLockMovable
    /\ lapses = {} => WriterHoldsLock /\ MetAccounted /\ ReleasedNotStale

-----------------------------------------------------------------------------
\* Nothing on disk, no call started.
LEMMA WriterInitEstablishes == WriterInit => WriterInv
  BY WritersAssumption, WriterPidAssumption
  DEF WriterInit, WriterInv, WriterTypeOK, UnpublishedWriters, RunningWritersLive,
      FinishedLeavesNoLock, StaleLockMovable, WriterHoldsLock, MetAccounted,
      ReleasedNotStale, WriterStages, Running, Waiting, Writing

\* Every step of a call, the passing of time, deaths and crashes preserve it.
LEMMA WriterNextPreserves == WriterInv /\ [WriterNext]_writerVars => WriterInv'
<1> SUFFICES ASSUME WriterInv, [WriterNext]_writerVars
             PROVE  WriterInv'
  OBVIOUS
<1> USE WritersAssumption, WriterPidAssumption
    DEF WriterInv, WriterTypeOK, UnpublishedWriters, RunningWritersLive,
        FinishedLeavesNoLock, StaleLockMovable, WriterHoldsLock, MetAccounted,
        ReleasedNotStale, WriterStages, Running, Waiting, Writing, WriterGoto, environment
<1>1. ASSUME NEW c \in Writers, WriterPrepares(c)
      PROVE  WriterInv'
  BY <1>1 DEF WriterPrepares
  \* The new owner has no tombstone, nobody has read it, and no other call is
  \* between its rename and its return.
<1>2. ASSUME NEW c \in Writers, Acquire(c)
      PROVE  WriterInv'
  BY <1>2 DEF Acquire
<1>3. ASSUME NEW c \in Writers, Taken(c) \/ Sleep(c) \/ GiveUp(c)
      PROVE  WriterInv'
  <2>1. CASE Taken(c)
    BY <2>1 DEF Taken
  <2>2. CASE Sleep(c)
    BY <2>2 DEF Sleep
  <2>3. CASE GiveUp(c)
    BY <2>3 DEF GiveUp
  <2>4. QED
    BY <1>3, <2>1, <2>2, <2>3
<1>4. ASSUME NEW c \in Writers, Look(c)
      PROVE  WriterInv'
  BY <1>4 DEF Look
  \* Whoever is judged stale and did not release is dead.
<1>5. ASSUME NEW c \in Writers, Judge(c)
      PROVE  WriterInv'
  BY <1>5 DEF Judge, Stale
  \* The owner that was read is dead: without its tombstone the lock is its own.
<1>6. ASSUME NEW c \in Writers, WriterReclaims(c)
      PROVE  WriterInv'
  BY <1>6 DEF WriterReclaims
<1>7. ASSUME NEW c \in Writers, Enter(c) \/ TooLate(c) \/ WriterOperates(c)
      PROVE  WriterInv'
  <2>1. CASE Enter(c)
    BY <2>1 DEF Enter
  <2>2. CASE TooLate(c)
    BY <2>2 DEF TooLate
  <2>3. CASE WriterOperates(c)
    BY <2>3 DEF WriterOperates
  <2>4. QED
    BY <1>7, <2>1, <2>2, <2>3
<1>8. ASSUME NEW c \in Writers, WriterReleases(c)
      PROVE  WriterInv'
  BY <1>8 DEF WriterReleases
<1>9. ASSUME NEW c \in Writers, WriterRetires(c)
      PROVE  WriterInv'
  BY <1>9 DEF WriterRetires
<1>10. ASSUME NEW c \in Writers, Age(c)
      PROVE  WriterInv'
  BY <1>10 DEF Age
<1>11. ASSUME NEW p \in Processes, WriterDies(p)
      PROVE  WriterInv'
  BY <1>11 DEF WriterDies, Stopped
<1>12. ASSUME MachineCrash
      PROVE  WriterInv'
  BY <1>12 DEF MachineCrash, Stopped
<1>13. CASE UNCHANGED writerVars
  BY <1>13 DEF writerVars
<1>14. QED
  BY <1>1, <1>2, <1>3, <1>4, <1>5, <1>6, <1>7, <1>8, <1>9, <1>10, <1>11, <1>12, <1>13
  DEF WriterNext, WriterStep

-----------------------------------------------------------------------------
\* The invariant holds in every state of every behaviour of the writer mutex.
THEOREM WriterInvariant == WriterSpec => []WriterInv
  BY WriterInitEstablishes, WriterNextPreserves, PTL DEF WriterSpec

\* Every variable keeps its type, and a call judges only an owner it has read.
THEOREM WriterTypeCorrect == WriterSpec => []WriterTypeOK
<1>1. WriterInv => WriterTypeOK
  BY DEF WriterInv
<1>2. QED
  BY <1>1, WriterInvariant, PTL

\* withWriterMutex excludes two writers as long as nothing lapsed, a call that
\* ended has left no lock, and a stale lock can always be moved aside: whatever
\* the number of calls and processes.
THEOREM WriterSafety == WriterSpec => []WriterSafe
<1>1. WriterInv => WriterSafe
  <2> SUFFICES ASSUME WriterInv
               PROVE  WritersExclude
    BY DEF WriterInv, WriterSafe
  <2> QED
    BY DEF WriterInv, WriterHoldsLock, WritersExclude
<1>2. QED
  BY <1>1, WriterInvariant, PTL
=============================================================================
