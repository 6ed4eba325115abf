--------------------------- MODULE ActiveJournal ---------------------------
(***************************************************************************)
(* The active journal (packages/storage-filesystem/src/active-journal.mjs):*)
(* two files, active.0 and active.1, replaced in turn.  A record carries a *)
(* generation that grows by one with every transition, the slot it goes to *)
(* is the generation's parity, and it names the checksum of the record     *)
(* before it.  The newer of the two is the authority.                      *)
(*                                                                         *)
(* Appends happen one at a time, under the writer mutex.  Readers hold no  *)
(* lock: they read slot 0, slot 1 and slot 0 again.  Openers of a new      *)
(* store publish the first record without a lock either.                   *)
(***************************************************************************)
EXTENDS Integers

CONSTANTS
    Readers,       \* processes that read the active journal without the mutex
    Openers,       \* processes that open the store for the first time
    Transactions,  \* transaction identifiers
    MaxGeneration, \* the last generation GENERATION_WIDTH digits can hold
    ReadAttempts,  \* how often a reader tries (READ_ATTEMPTS)
    Missing        \* an absent file, no transaction

ASSUME AttemptsAssumption == ReadAttempts \in Nat \ {0}
ASSUME GenerationAssumption == MaxGeneration \in Nat
ASSUME NoneAssumption ==
    /\ Missing \notin Transactions
    /\ Missing \notin [gen : Nat, state : {"idle", "open"},
                    tx : Transactions \cup {Missing}, prev : Nat \cup {-1}]

VARIABLES
    slot,      \* slot[i]: the record in active.i, or Missing
    opener,    \* where each opener stands
    pc,        \* where each reader stands
    first,     \* first[r]: what reader r read from slot 0
    second,    \* second[r]: what reader r read from slot 1
    attempt,   \* attempts reader r has begun
    result,    \* result[r]: the authority reader r settled on, or Missing
    witness    \* witness[r]: both slots at the instant r read slot 1

readerVars == <<pc, first, second, attempt, result, witness>>
jvars == <<slot, opener, readerVars>>

-----------------------------------------------------------------------------
(* A checksum is modelled by the generation of the record it was taken of: *)
(* appends are serialised, so there is one record of each generation.      *)

Records == [gen : Nat, state : {"idle", "open"},
            tx : Transactions \cup {Missing}, prev : Nat \cup {-1}]

Genesis == [gen |-> 0, state |-> "idle", tx |-> Missing, prev |-> -1]

\* decodeAuthority: a record sits in the slot of its parity.
InPlace(rec, i) == rec = Missing \/ rec.gen % 2 = i

\* selectAuthority on two records, the older one first: generations follow on
\* each other, the checksum chain holds and states alternate.
Follows(new, old) ==
    /\ new.gen = old.gen + 1
    /\ new.prev = old.gen
    /\ new.state # old.state

\* selectAuthority: a pair it accepts.  One record alone must be the first.
Wellformed(a, b) ==
    /\ InPlace(a, 0) /\ InPlace(b, 1)
    /\ \/ a = Missing /\ b = Missing
       \/ a # Missing /\ b = Missing /\ a.gen = 0
       \/ a # Missing /\ b # Missing /\ (Follows(a, b) \/ Follows(b, a))

\* selectAuthority: the record it picks from a pair it accepts.
Authority(a, b) ==
    IF a = Missing THEN Missing
    ELSE IF b = Missing THEN a
    ELSE IF a.gen > b.gen THEN a ELSE b

Current == Authority(slot[0], slot[1])

-----------------------------------------------------------------------------
JInit ==
    /\ slot = [i \in {0, 1} |-> Missing]
    /\ opener = [o \in Openers |-> "start"]
    /\ pc = [r \in Readers |-> "idle"]
    /\ first = [r \in Readers |-> Missing]
    /\ second = [r \in Readers |-> Missing]
    /\ attempt = [r \in Readers |-> 0]
    /\ result = [r \in Readers |-> Missing]
    /\ witness = [r \in Readers |-> <<Missing, Missing>>]

\* initialiseActiveJournal: an opener that finds an authority leaves it alone.
OpenerLooks(o) ==
    /\ opener[o] = "start"
    /\ opener' = [opener EXCEPT ![o] = IF Current = Missing THEN "publish" ELSE "open"]
    /\ UNCHANGED <<slot, readerVars>>

\* Mutant: the first record is renamed over whatever is in slot 0.
OpenerReplaces(o) ==
    /\ opener[o] = "publish"
    /\ slot' = [slot EXCEPT ![0] = Genesis]
    /\ opener' = [opener EXCEPT ![o] = "open"]
    /\ UNCHANGED readerVars

\* The first record is linked, never renamed, into place: if slot 0 is there by
\* now, the conflict is ignored and the slot stays what it is.
OpenerPublishes(o) ==
    /\ opener[o] = "publish"
    /\ slot' = [slot EXCEPT ![0] = IF @ = Missing THEN Genesis ELSE @]
    /\ opener' = [opener EXCEPT ![o] = "open"]
    /\ UNCHANGED readerVars

\* Mutant: the next record goes over the current one.
AppendInPlace(state, tx) ==
    /\ Current # Missing
    /\ Current.state # state
    /\ Current.gen < MaxGeneration
    /\ slot' = [slot EXCEPT ![Current.gen % 2] =
                  [gen |-> Current.gen + 1, state |-> state, tx |-> tx,
                   prev |-> Current.gen]]
    /\ UNCHANGED <<opener, readerVars>>

\* appendTransition: the next record replaces the older slot.  nextGeneration
\* refuses to go past the last generation.
AppendTransition(state, tx) ==
    /\ Current # Missing
    /\ Current.state # state
    /\ Current.gen < MaxGeneration
    /\ LET next == Current.gen + 1 IN
       slot' = [slot EXCEPT ![next % 2] =
                  [gen |-> next, state |-> state, tx |-> tx, prev |-> Current.gen]]
    /\ UNCHANGED <<opener, readerVars>>

\* activateJournal: only an idle journal is opened.
Activate(tx) == AppendTransition("open", tx)

\* idleJournal: only the transaction that is open goes idle.
GoIdle(tx) ==
    /\ Current # Missing
    /\ Current.tx = tx
    /\ AppendTransition("idle", Missing)

\* readStableSlots, the first read of an attempt.
ReadFirst(r) ==
    /\ pc[r] \in {"idle", "retry"}
    /\ attempt[r] < ReadAttempts
    /\ attempt' = [attempt EXCEPT ![r] = @ + 1]
    /\ first' = [first EXCEPT ![r] = slot[0]]
    /\ pc' = [pc EXCEPT ![r] = "second"]
    /\ UNCHANGED <<slot, opener, second, result, witness>>

ReadSecond(r) ==
    /\ pc[r] = "second"
    /\ second' = [second EXCEPT ![r] = slot[1]]
    /\ witness' = [witness EXCEPT ![r] = <<slot[0], slot[1]>>]
    /\ pc' = [pc EXCEPT ![r] = "confirm"]
    /\ UNCHANGED <<slot, opener, first, attempt, result>>

\* Mutant: slot 0 is not read a second time.
ReadUnconfirmed(r) ==
    /\ pc[r] = "confirm"
    /\ IF Wellformed(first[r], second[r])
       THEN /\ pc' = [pc EXCEPT ![r] = "settled"]
            /\ result' = [result EXCEPT ![r] = Authority(first[r], second[r])]
       ELSE /\ pc' = [pc EXCEPT ![r] = "refused"]
            /\ UNCHANGED result
    /\ UNCHANGED <<slot, opener, first, second, attempt, witness>>

\* Slot 0 again: if it has not changed, selectAuthority judges the pair.
ReadConfirm(r) ==
    /\ pc[r] = "confirm"
    /\ IF slot[0] = first[r]
       THEN IF Wellformed(first[r], second[r])
            THEN /\ pc' = [pc EXCEPT ![r] = "settled"]
                 /\ result' = [result EXCEPT ![r] = Authority(first[r], second[r])]
            ELSE /\ pc' = [pc EXCEPT ![r] = "refused"]
                 /\ UNCHANGED result
       ELSE /\ pc' = [pc EXCEPT ![r] = "retry"]
            /\ UNCHANGED result
    /\ UNCHANGED <<slot, opener, first, second, attempt, witness>>

\* The caller is done with the answer, or with the conflict after the last
\* attempt, and reads again later.
ReadAgain(r) ==
    /\ pc[r] \in {"settled", "refused"} \/ (pc[r] = "retry" /\ attempt[r] = ReadAttempts)
    /\ pc' = [pc EXCEPT ![r] = "idle"]
    /\ attempt' = [attempt EXCEPT ![r] = 0]
    /\ first' = [first EXCEPT ![r] = Missing]
    /\ second' = [second EXCEPT ![r] = Missing]
    /\ result' = [result EXCEPT ![r] = Missing]
    /\ witness' = [witness EXCEPT ![r] = <<Missing, Missing>>]
    /\ UNCHANGED <<slot, opener>>

ReaderStep(r) == ReadFirst(r) \/ ReadSecond(r) \/ ReadConfirm(r) \/ ReadAgain(r)

JNext ==
    \/ \E o \in Openers : OpenerLooks(o) \/ OpenerPublishes(o)
    \/ \E tx \in Transactions : Activate(tx) \/ GoIdle(tx)
    \/ \E r \in Readers : ReaderStep(r)

JSpec == JInit /\ [][JNext]_jvars

-----------------------------------------------------------------------------
(* Properties.                                                             *)

\* Every variable has its type, and the two slots always are a pair that
\* selectAuthority accepts.
JTypeOK ==
    /\ slot \in [{0, 1} -> Records \cup {Missing}]
    /\ Wellformed(slot[0], slot[1])
    /\ opener \in [Openers -> {"start", "publish", "open"}]
    /\ pc \in [Readers -> {"idle", "second", "confirm", "retry", "settled", "refused"}]
    /\ first \in [Readers -> Records \cup {Missing}]
    /\ second \in [Readers -> Records \cup {Missing}]
    /\ attempt \in [Readers -> 0 .. ReadAttempts]
    /\ result \in [Readers -> Records \cup {Missing}]
    /\ witness \in [Readers -> (Records \cup {Missing}) \X (Records \cup {Missing})]

\* A lock-free reader beside any number of transitions never takes a healthy
\* active journal for a corrupt one, and what it settles on was the authority
\* at one instant of its read (readStableSlots: "equal reads prove that the
\* pair existed at one instant").
StableReadIsAuthority ==
    \A r \in Readers :
        /\ pc[r] # "refused"
        /\ pc[r] = "settled" => result[r] = Authority(witness[r][1], witness[r][2])

\* The authority is never taken back: an opener that lost the race cannot put
\* the first record over a later one, and no transition is undone.
AuthorityNeverRollsBack ==
    [][ Current # Missing => Current' # Missing /\ Current'.gen >= Current.gen ]_jvars
=============================================================================
