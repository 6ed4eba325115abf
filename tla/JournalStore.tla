--------------------------- MODULE JournalStore ---------------------------
(***************************************************************************)
(* Transactions of the filesystem store: the redo journal, the event log,  *)
(* recovery, trimming and the lock-free reader of the log                  *)
(* (packages/storage-filesystem/src: store, journal, reclaim, event-floor, *)
(* recovery).                                                              *)
(*                                                                         *)
(* Writers run one at a time under the writer mutex, so one program        *)
(* counter stands for whichever process holds it.  A writer may be killed  *)
(* between any two publications; the mutex is then reclaimed and the next  *)
(* writer finds what is on disk.  Every publication is one atomic file     *)
(* operation (publishAtomic: a rename, or a link that never overwrites).   *)
(*                                                                         *)
(* A transaction is decided when the active journal names it open.  Its    *)
(* publications are then the journal entry's: events first, in sequence    *)
(* order, then state records; whoever comes next completes them.           *)
(***************************************************************************)
EXTENDS Naturals, Sequences, FiniteSets, FiniteSetsExt, Functions

CONSTANTS
    Keys,        \* the names of state records
    DirectKeys,  \* those of kinds that may be published without a journal
    WriteLists,  \* the sequences of records a transaction may stage
    EventCounts, \* how many events a transaction may append
    MaxTx,       \* bound: how many transactions are run
    MaxSeq,      \* bound: how many sequence numbers there are
    MaxCrashes,  \* bound: how many times a writer is killed
    MaxTrims,    \* bound: how many times an operator trims the log
    MaxReads,    \* bound: how many pages the reader asks for
    PageLimit    \* how many events a page may hold

ASSUME StoreBoundsAssumption ==
    /\ MaxTx \in Nat /\ MaxSeq \in Nat
    /\ MaxCrashes \in Nat /\ MaxTrims \in Nat /\ MaxReads \in Nat
    /\ PageLimit \in Nat \ {0}
ASSUME StorePlansAssumption ==
    /\ DirectKeys \subseteq Keys
    /\ WriteLists \subseteq Seq(Keys)
    /\ EventCounts \subseteq Nat

VARIABLES
    active,   \* the active journal: [state, tx, first]
    entries,  \* the transactions whose journal entry file exists
    plan,     \* plan[t]: the contents of t's entry, [first, events, writes]
    events,   \* events[s]: the transaction in events/<s>.json, 0 if absent
    records,  \* records[k]: the transaction that wrote record k, 0 if absent
    floor,    \* trimmedThrough in retention.json, 0 if there is none
    nextTx,   \* the identifier ids.next hands out next
    writer,   \* the process under the mutex: [pc, tx, pos, resume, trim]
    crashes,  \* writers killed so far
    trims,    \* trims begun so far
    reader,   \* a caller of eventsSince: [pc, cursor, ceiling, names, page]
    got,      \* the sequence numbers of every event the reader was given
    told,     \* the trimmedThrough the reader was told last
    reads     \* pages asked for so far

disk == <<active, entries, plan, events, records, floor>>
readerVars == <<reader, got, told, reads>>
counters == <<crashes, trims>>
vars == <<disk, nextTx, writer, counters, readerVars>>

-----------------------------------------------------------------------------
Txs == 1 .. MaxTx
Seqs == 1 .. MaxSeq

Idle == [state |-> "idle", tx |-> 0, first |-> 0]

NoPlan == [first |-> 0, events |-> 0, writes |-> <<>>]

\* What every writer starts from: no local variables.
Free == [pc |-> "free", tx |-> 0, pos |-> 0, resume |-> "free", trim |-> {}]

Published == {s \in Seqs : events[s] # 0}

\* Mutant: an empty event directory starts the log over.
NewestFileOnly == IF Published = {} THEN 0 ELSE Max(Published)

\* The newest sequence number issued: the newest event file answers, and the
\* floor only if there is none.
Newest == IF Published = {} THEN floor ELSE Max(Published)

Publications(t) == plan[t].events + Len(plan[t].writes)

-----------------------------------------------------------------------------
Init ==
    /\ active = Idle
    /\ entries = {}
    /\ plan = [t \in Txs |-> NoPlan]
    /\ events = [s \in Seqs |-> 0]
    /\ records = [k \in Keys |-> 0]
    /\ floor = 0
    /\ nextTx = 1
    /\ writer = Free
    /\ crashes = 0
    /\ trims = 0
    /\ reader = [pc |-> "idle", cursor |-> 0, ceiling |-> 0, names |-> {}, page |-> {}]
    /\ got = {}
    /\ told = 0
    /\ reads = 0

-----------------------------------------------------------------------------
(* Writers.                                                                *)

\* Mutant: an open journal is left to whoever opened it.
BeginWithoutRecovery(resume) ==
    /\ writer.pc = "free"
    /\ resume = "callback"
    /\ nextTx <= MaxTx
    /\ active.state = "idle"
    /\ writer' = [Free EXCEPT !.pc = resume]
    /\ UNCHANGED <<disk, nextTx, counters, readerVars>>

\* The mutex is taken: by transaction(), which goes on to its callback, or by
\* recoverOpenJournals and repair, which have nothing more to do.  Whatever
\* journal is open is rolled forward first.
Begin(resume) ==
    /\ writer.pc = "free"
    /\ resume = "callback" => nextTx <= MaxTx
    /\ resume = "free" => active.state = "open"
    /\ writer' = IF active.state = "idle"
                 THEN [Free EXCEPT !.pc = resume]
                 ELSE IF active.tx \in entries
                 THEN [Free EXCEPT !.pc = "roll", !.tx = active.tx, !.pos = 1,
                                   !.resume = resume]
                 ELSE Free
    /\ UNCHANGED <<disk, nextTx, counters, readerVars>>

\* rollForward, one publication.  An event file is never overwritten: the same
\* bytes are accepted, other bytes are a conflict and the roll-forward throws.
Roll ==
    LET t == writer.tx
        s == plan[t].first + writer.pos - 1
        k == plan[t].writes[writer.pos - plan[t].events]
        onward == [writer EXCEPT !.pos = @ + 1]
    IN
    /\ writer.pc = "roll"
    /\ writer.pos <= Publications(t)
    /\ IF writer.pos <= plan[t].events
       THEN /\ events' = [events EXCEPT ![s] = IF @ = 0 THEN t ELSE @]
            /\ writer' = IF events[s] \in {0, t} THEN onward ELSE Free
            /\ UNCHANGED records
       ELSE /\ records' = [records EXCEPT ![k] = t]
            /\ writer' = onward
            /\ UNCHANGED events
    /\ UNCHANGED <<active, entries, plan, floor, nextTx, counters, readerVars>>

\* retireJournalEntry: the active journal goes idle once everything is out.
Retire ==
    /\ writer.pc = "roll"
    /\ writer.pos > Publications(writer.tx)
    /\ active' = Idle
    /\ writer' = [Free EXCEPT !.pc = writer.resume]
    /\ UNCHANGED <<entries, plan, events, records, floor, nextTx, counters, readerVars>>

\* The callback staged nothing and appended nothing, or threw.
CommitNothing ==
    /\ writer.pc = "callback"
    /\ writer' = Free
    /\ UNCHANGED <<disk, nextTx, counters, readerVars>>

\* One record replaced and nothing appended: a single rename, no journal.
CommitDirect ==
    /\ writer.pc = "callback"
    /\ \E k \in DirectKeys :
          /\ <<k>> \in WriteLists
          /\ records' = [records EXCEPT ![k] = nextTx]
    /\ nextTx' = nextTx + 1
    /\ writer' = Free
    /\ UNCHANGED <<active, entries, plan, events, floor, counters, readerVars>>

\* Mutant: publications begin before the active journal names the transaction.
PrepareUndecided ==
    /\ writer.pc = "callback"
    /\ \E n \in EventCounts, writes \in WriteLists :
          /\ n + Len(writes) > 0
          /\ Newest + n <= MaxSeq
          /\ plan' = [plan EXCEPT ![nextTx] =
                        [first |-> Newest + 1, events |-> n, writes |-> writes]]
    /\ entries' = entries \cup {nextTx}
    /\ nextTx' = nextTx + 1
    /\ writer' = [Free EXCEPT !.pc = "roll", !.tx = nextTx, !.pos = 1]
    /\ UNCHANGED <<active, events, records, floor, counters, readerVars>>

\* Sequence numbers are assigned and the journal entry is written; nothing is
\* decided yet.
Prepare ==
    /\ writer.pc = "callback"
    /\ \E n \in EventCounts, writes \in WriteLists :
          /\ n + Len(writes) > 0
          /\ ~(n = 0 /\ Len(writes) = 1 /\ writes[1] \in DirectKeys)
          /\ Newest + n <= MaxSeq
          /\ plan' = [plan EXCEPT ![nextTx] =
                        [first |-> Newest + 1, events |-> n, writes |-> writes]]
    /\ entries' = entries \cup {nextTx}
    /\ nextTx' = nextTx + 1
    /\ writer' = [Free EXCEPT !.pc = "prepared", !.tx = nextTx]
    /\ UNCHANGED <<active, events, records, floor, counters, readerVars>>

\* activateJournal decides the transaction; roll-forward follows.
Activate ==
    /\ writer.pc = "prepared"
    /\ active' = [state |-> "open", tx |-> writer.tx, first |-> plan[writer.tx].first]
    /\ writer' = [writer EXCEPT !.pc = "roll", !.pos = 1]
    /\ UNCHANGED <<entries, plan, events, records, floor, nextTx, counters, readerVars>>

\* Mutant: the floor is raised to one less than the boundary.
TrimRaiseOffByOne ==
    /\ writer.pc = "free"
    /\ trims < MaxTrims
    /\ trims' = trims + 1
    /\ \E boundary \in Seqs :
          /\ boundary <= Newest
          /\ floor' = Max({floor, boundary - 1})
          /\ writer' = [Free EXCEPT !.pc = "trim",
                                    !.trim = {s \in Published : s <= boundary}]
    /\ UNCHANGED <<active, entries, plan, events, records, nextTx, crashes, readerVars>>

\* trimEventLog: the events are listed and the floor is raised, never lowered,
\* before any file goes.  It does not roll an open journal forward first.
TrimRaise ==
    /\ writer.pc = "free"
    /\ trims < MaxTrims
    /\ trims' = trims + 1
    /\ \E boundary \in Seqs :
          /\ boundary <= Newest
          /\ floor' = Max({floor, boundary})
          /\ writer' = [Free EXCEPT !.pc = "trim",
                                    !.trim = {s \in Published : s <= boundary}]
    /\ UNCHANGED <<active, entries, plan, events, records, nextTx, crashes, readerVars>>

\* Condemn the oldest listed event.
TrimRemove ==
    /\ writer.pc = "trim"
    /\ writer.trim # {}
    /\ events' = [events EXCEPT ![Min(writer.trim)] = 0]
    /\ writer' = [writer EXCEPT !.trim = @ \ {Min(@)}]
    /\ UNCHANGED <<active, entries, plan, records, floor, nextTx, counters, readerVars>>

\* The listing is done, or the pass has spent its limit or its budget.
TrimEnd ==
    /\ writer.pc = "trim"
    /\ writer' = Free
    /\ UNCHANGED <<disk, nextTx, counters, readerVars>>

\* Mutant: the entry the active journal names open is condemned too.
CondemnAnyEntry ==
    /\ writer.pc = "free"
    /\ \E t \in entries :
          /\ entries' = entries \ {t}
          /\ plan' = [plan EXCEPT ![t] = NoPlan]
    /\ UNCHANGED <<active, events, records, floor, nextTx, writer, counters, readerVars>>

\* condemnRetiredJournals, one entry: any the active journal does not name.
CondemnEntry ==
    /\ writer.pc = "free"
    /\ \E t \in entries :
          /\ ~(active.state = "open" /\ active.tx = t)
          /\ entries' = entries \ {t}
          /\ plan' = [plan EXCEPT ![t] = NoPlan]
    /\ UNCHANGED <<active, events, records, floor, nextTx, writer, counters, readerVars>>

\* The process under the mutex is killed, or throws on its deadline before the
\* decision; its lock is released or reclaimed.
Crash ==
    /\ writer.pc # "free"
    /\ crashes < MaxCrashes
    /\ crashes' = crashes + 1
    /\ writer' = Free
    /\ UNCHANGED <<disk, nextTx, trims, readerVars>>

-----------------------------------------------------------------------------
(* eventsSince, which takes no lock.                                       *)

\* readJournalCeiling.
ReadCeiling ==
    /\ reader.pc = "idle"
    /\ reads < MaxReads
    /\ reads' = reads + 1
    /\ reader' = [reader EXCEPT
                    !.pc = "list",
                    !.ceiling = IF active.state = "open" THEN active.first
                                                         ELSE MaxSeq + 1]
    /\ UNCHANGED <<disk, nextTx, writer, counters, got, told>>

\* listJsonFiles(events): names after the cursor and below the ceiling.
ListEvents ==
    /\ reader.pc = "list"
    /\ reader' = [reader EXCEPT
                    !.pc = "read",
                    !.names = {s \in Published :
                                 s > reader.cursor /\ s < reader.ceiling}]
    /\ UNCHANGED <<disk, nextTx, writer, counters, got, told, reads>>

\* One listed file.  A file trimmed since the listing is passed over; a full
\* page ends the loop.
ReadEvent ==
    /\ reader.pc = "read"
    /\ reader.names # {}
    /\ LET s == Min(reader.names)
           page == IF events[s] = 0 THEN reader.page ELSE reader.page \cup {s}
       IN reader' = [reader EXCEPT
                       !.names = IF Cardinality(page) = PageLimit THEN {} ELSE @ \ {s},
                       !.page = page]
    /\ UNCHANGED <<disk, nextTx, writer, counters, got, told, reads>>

\* The floor is read last; the page goes to the caller, who keeps its cursor.
ReadFloor ==
    /\ reader.pc = "read"
    /\ reader.names = {}
    /\ told' = floor
    /\ got' = got \cup reader.page
    /\ reader' = [reader EXCEPT
                    !.pc = "idle",
                    !.ceiling = 0,
                    !.page = {},
                    !.cursor = IF reader.page = {} THEN @ ELSE Max(reader.page)]
    /\ UNCHANGED <<disk, nextTx, writer, counters, reads>>

-----------------------------------------------------------------------------
\* The rest of a write that has begun.
WriterStep ==
    \/ Roll \/ Retire \/ CommitNothing \/ CommitDirect \/ Prepare \/ Activate
    \/ TrimRemove \/ TrimEnd

ReaderStep == ReadCeiling \/ ListEvents \/ ReadEvent \/ ReadFloor

Next ==
    \/ \E resume \in {"callback", "free"} : Begin(resume)
    \/ WriterStep
    \/ TrimRaise
    \/ CondemnEntry
    \/ Crash
    \/ ReaderStep

Spec == Init /\ [][Next]_vars

\* A live writer finishes its write, and a store with an open journal is opened
\* again by somebody: every hook of every client opens it.
FairSpec == Spec /\ WF_vars(WriterStep) /\ WF_vars(Begin("free"))

-----------------------------------------------------------------------------
(* What the store's callers see: an open transaction counts as done.       *)

Decided == active.state = "open"

\* The sequence numbers of the open transaction.
DecidedSeqs ==
    IF Decided THEN active.first .. active.first + plan[active.tx].events - 1 ELSE {}

Store == INSTANCE AtomicStore WITH
    recs <- [k \in Keys |->
               IF Decided /\ k \in Range(plan[active.tx].writes)
               THEN active.tx ELSE records[k]],
    log  <- [s \in Seqs |->
               IF s <= floor THEN 0
               ELSE IF s \in DecidedSeqs THEN active.tx ELSE events[s]],
    last <- Max({Newest} \cup DecidedSeqs),
    cut  <- floor

-----------------------------------------------------------------------------
(* Properties.                                                             *)

\* Every variable has its type, and a writer rolls forward only what the active
\* journal names.
TypeOK ==
    /\ active \in [state : {"idle", "open"}, tx : 0 .. MaxTx, first : 0 .. MaxSeq + 1]
    /\ entries \in SUBSET Txs
    /\ plan \in [Txs -> [first : 0 .. MaxSeq + 1, events : EventCounts \cup {0},
                        writes : WriteLists \cup {<<>>}]]
    /\ events \in [Seqs -> 0 .. MaxTx]
    /\ records \in [Keys -> 0 .. MaxTx]
    /\ floor \in 0 .. MaxSeq
    /\ nextTx \in 1 .. MaxTx + 1
    /\ writer \in [pc : {"free", "callback", "prepared", "roll", "trim"},
                   tx : 0 .. MaxTx, pos : Nat,
                   resume : {"free", "callback"}, trim : SUBSET Seqs]
    /\ writer.pc = "roll" => active.state = "open" /\ active.tx = writer.tx
    /\ crashes \in 0 .. MaxCrashes
    /\ trims \in 0 .. MaxTrims
    /\ reader \in [pc : {"idle", "list", "read"}, cursor : 0 .. MaxSeq,
                   ceiling : 0 .. MaxSeq + 1, names : SUBSET Seqs, page : SUBSET Seqs]
    /\ got \in SUBSET Seqs
    /\ told \in 0 .. MaxSeq
    /\ reads \in 0 .. MaxReads

\* A transaction takes effect as a whole at one instant, sequence numbers are
\* issued once and in order although the newest event may have been trimmed
\* away, and trimming takes only a prefix: transaction(), rollForward and
\* trimEventLog implement AtomicStore whatever writer is killed wherever.
ImplementsAtomicStore == Store!Spec

\* A decided transaction can always be completed: its journal entry is there
\* and none of its event names is taken by other bytes.
OpenJournalRecoverable ==
    Decided =>
        /\ active.tx \in entries
        /\ \A s \in DecidedSeqs : events[s] \in {0, active.tx}

\* The reader of the log misses an event below its cursor only if it has been
\* told of a boundary at or above that event (eventsSince reads the floor last,
\* trimEventLog raises it first).
NoSilentGap ==
    \A s \in 1 .. reader.cursor : s \in got \/ s <= told

\* inspect(): the event files it reports corrupt.
Corrupt ==
    IF Decided THEN {}
    ELSE {s \in Published : s # 1 + Max({0} \cup {r \in Published : r < s})}

\* What the comment in inspect says: a gap is a file removed by hand.  Nothing
\* in this model removes a file by hand, so nothing is reported.
NothingReportedCorrupt == Corrupt = {}

\* A decided transaction is completed in the end.
OpenJournalCompleted == Decided ~> ~Decided
=============================================================================
