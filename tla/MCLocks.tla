------------------------------ MODULE MCLocks ------------------------------
(***************************************************************************)
(* Small instances of the two locks of the program, which never meet: a    *)
(* behaviour is one of the manager lock (four calls of three processes,    *)
(* two of them of one process, so that a process locks again) or one of    *)
(* the writer mutex (an owner, its successor, and a contender that has     *)
(* read the owner).                                                        *)
(***************************************************************************)
EXTENDS ManagerLock, WriterMutex, TLC

CONSTANTS c1, c2, c3, c4, p1, p2, p3

MCCalls == {c1, c2, c3, c4}
MCPids == {p1, p2, p3}
MCPidOf == (c1 :> p1) @@ (c2 :> p1) @@ (c3 :> p2) @@ (c4 :> p3)

MCWriters == {c1, c2, c3}
MCWriterPid == (c1 :> p1) @@ (c2 :> p2) @@ (c3 :> p3)

VARIABLE part

LocksInit == part \in {"manager", "writer"} /\ Init /\ WriterInit

LocksNext ==
    \/ part = "manager" /\ Next /\ UNCHANGED <<part, writerVars>>
    \/ part = "writer" /\ WriterNext /\ UNCHANGED <<part, vars>>

\* The fairness of FairSpec in ManagerLock and of WriterFairSpec in WriterMutex.
LocksSpec ==
    /\ LocksInit /\ [][LocksNext]_<<part, vars, writerVars>>
    /\ \A c \in Calls : WF_vars(part = "manager" /\ Step(c) /\ UNCHANGED <<part, writerVars>>)
    /\ \A c \in Writers :
        /\ WF_writerVars(part = "writer" /\ WriterStep(c) /\ UNCHANGED <<part, vars>>)
        /\ WF_writerVars(/\ part = "writer" /\ Age(c) /\ stage[c] = "dead"
                         /\ UNCHANGED <<part, vars>>)

\* An abandoned lock is reclaimed, in both designs.
LocksReclaimed == AbandonedLockReclaimed /\ WriterLockReclaimed
=============================================================================
