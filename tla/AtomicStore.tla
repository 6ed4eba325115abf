---------------------------- MODULE AtomicStore ----------------------------
(***************************************************************************)
(* What the filesystem store promises its callers: a transaction takes     *)
(* effect as a whole, its events get the next sequence numbers of one log, *)
(* and history is only ever cut off at its old end.                        *)
(*                                                                         *)
(* A transaction is known by its identifier.  The value of a record is the *)
(* transaction that wrote it last, and an event is known by the            *)
(* transaction that appended it; 0 stands for no transaction.              *)
(***************************************************************************)
EXTENDS Naturals

CONSTANTS
    Keys,    \* the names of state records
    MaxTx,   \* bound: how many transactions are run
    MaxSeq   \* bound: how many sequence numbers there are

Txs == 1 .. MaxTx
Seqs == 1 .. MaxSeq

VARIABLES
    recs,  \* recs[k]: the transaction that wrote record k last
    log,   \* log[s]: the transaction that appended event s, 0 if there is none
    last,  \* the newest sequence number issued
    cut    \* events up to this number have been trimmed

storeVars == <<recs, log, last, cut>>

Init ==
    /\ recs = [k \in Keys |-> 0]
    /\ log = [s \in Seqs |-> 0]
    /\ last = 0
    /\ cut = 0

\* A transaction that has not run before writes some records and appends n
\* events, all in one step.
Commit(t, writes, n) ==
    /\ \A k \in Keys : recs[k] # t
    /\ \A s \in Seqs : log[s] # t
    /\ last + n <= MaxSeq
    /\ recs' = [k \in Keys |-> IF k \in writes THEN t ELSE recs[k]]
    /\ log' = [s \in Seqs |-> IF s \in last + 1 .. last + n THEN t ELSE log[s]]
    /\ last' = last + n
    /\ UNCHANGED cut

\* The log is cut at a boundary that has been issued.
Trim(boundary) ==
    /\ boundary <= last
    /\ boundary > cut
    /\ cut' = boundary
    /\ log' = [s \in Seqs |-> IF s <= boundary THEN 0 ELSE log[s]]
    /\ UNCHANGED <<recs, last>>

Next ==
    \/ \E t \in Txs, writes \in SUBSET Keys, n \in 0 .. MaxSeq : Commit(t, writes, n)
    \/ \E boundary \in Seqs : Trim(boundary)

Spec == Init /\ [][Next]_storeVars
=============================================================================
