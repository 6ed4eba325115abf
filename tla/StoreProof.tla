------------------------------ MODULE StoreProof ------------------------------
(***************************************************************************)
(* Proofs about the filesystem store: JournalStore, for every set of       *)
(* records, every plan of a transaction and every bound on transactions,   *)
(* events, crashes, trims and reads; and IndexCache, for any receipts,     *)
(* generations, passes and mishaps.                                        *)
(*                                                                         *)
(* The argument for the store.  A transaction counts as done from its      *)
(* decision, which is the write of the active journal; what a writer       *)
(* publishes afterwards, or a successor publishes for it, only catches the *)
(* disk up.  So the newest number a caller knows of is Last, that of the   *)
(* open transaction if there is one, and the next transaction is numbered  *)
(* from it.  The log is dense above the floor: events are published and    *)
(* removed in ascending order, and the floor goes up before they are       *)
(* removed.  The reader reads the floor after its listing and its page, so *)
(* whatever they left out is at or below the boundary the reader is told.  *)
(*                                                                         *)
(* The argument for the cache.  Every change of the records moves the      *)
(* journal's generation, except a migration's, which is made while no tree *)
(* of this generation exists; so a tree of this generation files the       *)
(* records as they are, wherever it is kept.                               *)
(***************************************************************************)
EXTENDS JournalStore, IndexCache, WellFoundedInduction, TLAPS

(***************************************************************************)
(* The inductive invariant.                                                *)
(***************************************************************************)
\* Only a transaction that has begun waits for a callback.
Admitted ==
    writer.pc = "callback" \/ (writer.pc = "roll" /\ writer.resume = "callback") =>
        nextTx <= MaxTx

\* Identifiers are handed out once: nothing on disk is of a later transaction.
Issued ==
    /\ \A t \in entries : t < nextTx
    /\ \A s \in Seqs : events[s] < nextTx
    /\ \A k \in Keys : records[k] < nextTx

\* The newest sequence number a caller of the store knows of.
Last == IF Decided THEN active.first + plan[active.tx].events - 1 ELSE Newest

\* The numbers of the open transaction follow what was issued before it, and no
\* event of another lies beyond them.
LastKnown ==
    /\ floor <= Last
    /\ Decided =>
        /\ active.tx \in entries /\ active.first = plan[active.tx].first
        /\ active.first >= 1 /\ Last <= MaxSeq /\ Newest <= Last
        /\ plan[active.tx].events = 0 => Newest = Last
        /\ \A s \in DecidedSeqs : events[s] \in {0, active.tx}

\* A transaction about to be decided knows the newest number, and nothing on
\* disk is its own.
PreparedAfresh ==
    /\ writer.pc \in {"callback", "prepared"} => active.state = "idle"
    /\ writer.pc = "prepared" =>
        /\ writer.tx \in entries /\ writer.resume = "free"
        /\ plan[writer.tx].first = Newest + 1
        /\ Newest + plan[writer.tx].events <= MaxSeq
        /\ \A s \in Seqs : events[s] # writer.tx
        /\ \A k \in Keys : records[k] # writer.tx

\* A writer that rolls forward has published everything up to its position.
RolledUpTo ==
    writer.pc = "roll" =>
        LET p == plan[active.tx] IN
        /\ writer.pos >= 1
        /\ \A i \in 1 .. writer.pos - 1 :
            /\ i <= p.events => events[active.first + i - 1] = active.tx
            /\ \A j \in 1 .. Len(p.writes) : i = p.events + j => records[p.writes[j]] = active.tx

\* What a trim has listed is below the floor, and nothing older is left out.
TrimsPrefix ==
    writer.pc = "trim" =>
        \A s \in writer.trim :
            /\ s \in Published /\ s <= floor
            /\ \A r \in Published : r < s => r \in writer.trim

\* Above the floor the log has no hole, and none before the open transaction.
Dense ==
    \A s \in Seqs : s > floor =>
        /\ (\E r \in Published : s < r) => s \in Published
        /\ Decided /\ s < active.first => s \in Published

\* What the reader's page and listing pass over has been trimmed.
ReaderKnows ==
    /\ told <= floor
    /\ \A s \in reader.names : s \in Published \/ s <= floor
    /\ \A s \in reader.page : \A r \in reader.names : s < r
    /\ \A s \in reader.names \cup reader.page : \A r \in Seqs :
        reader.cursor < r /\ r < s => r \in reader.names \cup reader.page \/ r <= floor
    /\ \A s \in reader.names \cup reader.page : s > reader.cursor
    /\ reader.pc # "read" => reader.names = {} /\ reader.page = {}

\* The invariant: the inductive strengthening of NoSilentGap and of recovery.
StoreInv ==
    /\ TypeOK /\ Admitted /\ Issued /\ LastKnown /\ PreparedAfresh /\ RolledUpTo
    /\ TrimsPrefix /\ Dense /\ ReaderKnows /\ NoSilentGap

(***************************************************************************)
(* Least and greatest elements.                                            *)
(***************************************************************************)
\* A nonempty set of naturals has a least element, which Min chooses.
LEMMA Least ==
    ASSUME NEW T \in SUBSET Nat, T # {}
    PROVE  Min(T) \in T /\ \A k \in T : Min(T) <= k
<1> DEFINE Less == {ss \in Nat \X Nat : ss[1] < ss[2]}
<1>1. IsWellFoundedOn(Less, Nat)
  BY NatLessThanWellFounded DEF OpToRel
<1> HIDE DEF Less
<1>2. PICK m \in T : \A k \in T : <<k, m>> \notin Less
  BY <1>1, WFMin
<1>3. \A k \in T : ~(k < m)
  BY <1>2 DEF Less
<1>4. \E x \in T : \A y \in T : x =< y
  BY <1>3
<1> QED
  BY <1>4, Zenon DEF Min

\* A nonempty set of naturals below a bound has a greatest element, which Max
\* chooses.
LEMMA Greatest ==
    ASSUME NEW N \in Nat, NEW T \in SUBSET (0 .. N), T # {}
    PROVE  Max(T) \in T /\ \A k \in T : k <= Max(T)
<1> DEFINE Below == {N - k : k \in T}
<1>0. PICK k \in T : TRUE
  OBVIOUS
<1>1. Below \in SUBSET Nat /\ N - k \in Below
  OBVIOUS
<1>2. Min(Below) \in Below /\ \A b \in Below : Min(Below) <= b
  BY <1>1, Least
<1>3. PICK m \in T : Min(Below) = N - m
  BY <1>2
<1>4. \E x \in T : \A y \in T : x >= y
  <2>1. \A y \in T : N - m <= N - y
    BY <1>2, <1>3
  <2>2. \A y \in T : m >= y
    BY <2>1
  <2> QED
    BY <2>2
<1>5. Max(T) \in T /\ \A y \in T : Max(T) >= y
  BY <1>4, Zenon DEF Max
<1> QED
  BY <1>5

\* The newest sequence number issued is the greatest event's, or the floor.
NewestIsGreatest ==
    /\ Newest \in 0 .. MaxSeq
    /\ Published = {} => Newest = floor
    /\ Published # {} => Newest \in Published
    /\ \A s \in Published : s <= Newest

\* Wherever the types are right newestSequence is the greatest published number.
LEMMA NewestKnown == TypeOK => NewestIsGreatest
<1> SUFFICES ASSUME TypeOK PROVE NewestIsGreatest
  OBVIOUS
<1>1. Published \in SUBSET (0 .. MaxSeq) /\ MaxSeq \in Nat
  BY StoreBoundsAssumption DEF Published, Seqs
<1>2. CASE Published = {}
  BY <1>2 DEF TypeOK, NewestIsGreatest, Newest
<1>3. CASE Published # {}
  BY <1>1, <1>3, Greatest DEF NewestIsGreatest, Newest
<1> QED
  BY <1>2, <1>3

\* The same after the step.
LEMMA NewestKnownNext == TypeOK' => NewestIsGreatest'
  BY NewestKnown, PTL

(***************************************************************************)
(* Types.                                                                  *)
(***************************************************************************)
Planned == [first : 0 .. MaxSeq + 1, events : EventCounts \cup {0},
            writes : WriteLists \cup {<<>>}]

WriterAt == [pc : {"free", "callback", "prepared", "roll", "trim"}, tx : 0 .. MaxTx, pos : Nat,
             resume : {"free", "callback"}, trim : SUBSET Seqs]

ReaderAt == [pc : {"idle", "list", "read"}, cursor : 0 .. MaxSeq,
             ceiling : 0 .. MaxSeq + 1, names : SUBSET Seqs, page : SUBSET Seqs]

\* Every step under the mutex keeps the types of the disk and of the writer.
LEMMA WriterTypes ==
    ASSUME StoreInv,
           \/ \E resume \in {"callback", "free"} : Begin(resume)
           \/ WriterStep \/ TrimRaise \/ CondemnEntry \/ Crash
    PROVE  TypeOK'
<1>1. /\ Free \in WriterAt /\ NoPlan \in Planned /\ Idle.state = "idle"
      /\ Idle \in [state : {"idle", "open"}, tx : 0 .. MaxTx, first : 0 .. MaxSeq + 1]
  BY StoreBoundsAssumption DEF Free, WriterAt, NoPlan, Planned, Idle
<1>2. /\ writer \in WriterAt /\ plan \in [Txs -> Planned] /\ Newest \in 0 .. MaxSeq
      /\ events \in [Seqs -> 0 .. MaxTx] /\ active.tx \in 0 .. MaxTx
      /\ nextTx \in 1 .. MaxTx + 1
  BY NewestKnown DEF StoreInv, TypeOK, NewestIsGreatest, WriterAt, Planned
<1>3. MaxTx \in Nat /\ MaxSeq \in Nat /\ MaxCrashes \in Nat /\ MaxTrims \in Nat
  BY StoreBoundsAssumption
<1>4. ASSUME NEW resume \in {"callback", "free"}, Begin(resume)
      PROVE  TypeOK'
  <2>1. /\ writer' \in WriterAt
        /\ writer'.pc = "roll" => active.state = "open" /\ active.tx = writer'.tx
    BY <1>1, <1>2, <1>4 DEF Begin, WriterAt, Free, StoreInv, TypeOK
  <2> QED
    BY <1>4, <2>1 DEF Begin, disk, counters, readerVars, StoreInv, TypeOK, WriterAt
<1>5. CASE Roll
  <2>1. writer' \in WriterAt /\ (writer'.pc = "roll" => writer'.tx = writer.tx)
    BY <1>1, <1>2, <1>5 DEF Roll, WriterAt, Free
  <2>2. writer.tx \in Txs
    BY <1>5 DEF StoreInv, TypeOK, LastKnown, Decided, Roll
  <2>3. events' \in [Seqs -> 0 .. MaxTx]
    BY <1>2, <1>5, <2>2 DEF Roll, Txs
  <2>4. records' \in [Keys -> 0 .. MaxTx]
    BY <1>5, <2>2 DEF Roll, StoreInv, TypeOK, Txs
  <2> QED
    BY <1>5, <2>1, <2>3, <2>4 DEF Roll, counters, readerVars, StoreInv, TypeOK, WriterAt
<1>6. CASE Retire
  <2>1. writer' \in WriterAt /\ writer'.pc \in {"free", "callback"}
    BY <1>1, <1>2, <1>6 DEF Retire, WriterAt, Free
  <2> QED
    BY <1>1, <1>6, <2>1 DEF Retire, counters, readerVars, StoreInv, TypeOK, WriterAt
<1>7. CASE CommitNothing \/ TrimEnd \/ Crash
  <2>1. writer' = Free /\ (crashes' = crashes \/ (crashes < MaxCrashes /\ crashes' = crashes + 1))
    BY <1>7 DEF CommitNothing, TrimEnd, Crash, counters
  <2>2. crashes \in 0 .. MaxCrashes
    BY DEF StoreInv, TypeOK
  <2>3. crashes' \in 0 .. MaxCrashes
    BY <1>3, <2>1, <2>2
  <2> QED
    <3>1. Free \in WriterAt
      BY <1>1
    <3>2. /\ UNCHANGED <<active, entries, plan, events, records, floor, nextTx, readerVars, trims>>
          /\ writer' = Free
      BY <1>7 DEF CommitNothing, TrimEnd, Crash, disk, counters
    <3> QED
      BY <1>1, <2>3, <3>1, <3>2 DEF readerVars, StoreInv, TypeOK, WriterAt, Free
<1>8. CASE CommitDirect
  <2>1. nextTx \in Txs /\ nextTx' \in 1 .. MaxTx + 1
    BY <1>2, <1>3, <1>8 DEF CommitDirect, StoreInv, Admitted, Txs
  <2>2. records' \in [Keys -> 0 .. MaxTx]
    <3>1. PICK k \in DirectKeys : records' = [records EXCEPT ![k] = nextTx]
      BY <1>8 DEF CommitDirect
    <3>2. nextTx \in 0 .. MaxTx /\ records \in [Keys -> 0 .. MaxTx]
      BY <1>3, <2>1 DEF StoreInv, TypeOK, Txs
    <3> QED
      BY <3>1, <3>2
  <2> QED
    BY <1>1, <1>8, <2>1, <2>2 DEF CommitDirect, counters, readerVars, StoreInv, TypeOK,
       WriterAt, Free
<1>9. CASE Prepare
  <2>1. nextTx \in Txs /\ nextTx' \in 1 .. MaxTx + 1
    BY <1>2, <1>3, <1>9 DEF Prepare, StoreInv, Admitted, Txs
  <2>2. writer' \in WriterAt /\ writer'.pc = "prepared"
    <3>1. writer' = [Free EXCEPT !.pc = "prepared", !.tx = nextTx] /\ nextTx \in 0 .. MaxTx
      BY <1>3, <1>9, <2>1 DEF Prepare, Txs
    <3> QED
      BY <1>1, <3>1 DEF WriterAt, Free
  <2>3. plan' \in [Txs -> Planned]
    <3>1. PICK n \in EventCounts, writes \in WriteLists :
            plan' = [plan EXCEPT ![nextTx] =
                       [first |-> Newest + 1, events |-> n, writes |-> writes]]
      BY <1>9 DEF Prepare
    <3>2. [first |-> Newest + 1, events |-> n, writes |-> writes] \in Planned
      BY <1>2, <1>3 DEF Planned
    <3> QED
      BY <1>2, <3>1, <3>2
  <2>4. entries' \in SUBSET Txs
    BY <1>9, <2>1 DEF Prepare, StoreInv, TypeOK
  <2> QED
    BY <1>9, <2>1, <2>2, <2>3, <2>4 DEF Prepare, counters, readerVars, StoreInv, TypeOK,
       WriterAt, Planned
<1>10. CASE Activate
  <2>1. writer.tx \in Txs
    BY <1>10 DEF Activate, StoreInv, TypeOK, PreparedAfresh
  <2>2. /\ writer' \in WriterAt
        /\ active' \in [state : {"idle", "open"}, tx : 0 .. MaxTx, first : 0 .. MaxSeq + 1]
        /\ active'.state = "open" /\ active'.tx = writer'.tx
    BY <1>2, <1>10, <2>1 DEF Activate, WriterAt, Planned, Txs
  <2> QED
    BY <1>10, <2>2 DEF Activate, counters, readerVars, StoreInv, TypeOK, WriterAt
<1>11. CASE TrimRaise
  <2>1. PICK boundary \in Seqs :
          /\ boundary <= Newest /\ floor' = Max({floor, boundary})
          /\ writer' = [Free EXCEPT !.pc = "trim", !.trim = {s \in Published : s <= boundary}]
    BY <1>11 DEF TrimRaise
  <2>2. floor' \in {floor, boundary}
    <3>1. {floor, boundary} \in SUBSET (0 .. MaxSeq)
      BY <1>3 DEF StoreInv, TypeOK, Seqs
    <3> QED
      BY <1>3, <2>1, <3>1, Greatest
  <2>3. floor' \in 0 .. MaxSeq
    BY <1>3, <2>2 DEF StoreInv, TypeOK, Seqs
  <2>4. trims' \in 0 .. MaxTrims
    <3>1. trims' = trims + 1 /\ trims < MaxTrims /\ trims \in 0 .. MaxTrims
      BY <1>11 DEF TrimRaise, StoreInv, TypeOK
    <3> QED
      BY <1>3, <3>1
  <2>5. writer' \in WriterAt /\ writer'.pc = "trim"
    BY <1>1, <2>1 DEF WriterAt, Free, Published
  <2> QED
    BY <1>11, <2>3, <2>4, <2>5 DEF TrimRaise, readerVars, StoreInv, TypeOK, WriterAt
<1>12. CASE TrimRemove
  <2>1. writer' \in WriterAt /\ writer'.pc = "trim"
    BY <1>2, <1>12 DEF TrimRemove, WriterAt
  <2>2. events' \in [Seqs -> 0 .. MaxTx]
    <3>1. events' = [events EXCEPT ![Min(writer.trim)] = 0] /\ 0 \in 0 .. MaxTx
      BY <1>3, <1>12 DEF TrimRemove
    <3> QED
      BY <1>2, <3>1
  <2> QED
    BY <1>12, <2>1, <2>2 DEF TrimRemove, counters, readerVars, StoreInv, TypeOK, WriterAt
<1>13. CASE CondemnEntry
  <2>1. plan' \in [Txs -> Planned] /\ entries' \in SUBSET Txs
    BY <1>1, <1>2, <1>13, SMTT(30) DEF CondemnEntry, StoreInv, TypeOK
  <2> QED
    BY <1>13, <2>1 DEF CondemnEntry, counters, readerVars, StoreInv, TypeOK, Planned
<1> QED
  BY <1>4, <1>5, <1>6, <1>7, <1>8, <1>9, <1>10, <1>11, <1>12, <1>13 DEF WriterStep

\* So does every read, for the reader.
LEMMA ReaderTypes ==
    ASSUME StoreInv, ReaderStep
    PROVE  TypeOK'
<1>1. reader \in ReaderAt /\ MaxSeq \in Nat /\ MaxReads \in Nat
  BY StoreBoundsAssumption DEF StoreInv, TypeOK, ReaderAt
<1>2. CASE ReadCeiling
  <2> DEFINE ceiling == IF active.state = "open" THEN active.first ELSE MaxSeq + 1
  <2>1. ceiling \in 0 .. MaxSeq + 1
    BY <1>1 DEF StoreInv, TypeOK
  <2>2. reader' \in ReaderAt
    <3>1. reader' = [reader EXCEPT !.pc = "list", !.ceiling = ceiling]
      BY <1>2 DEF ReadCeiling
    <3> HIDE DEF ceiling
    <3> QED
      BY <1>1, <2>1, <3>1 DEF ReaderAt
  <2>3. reads' \in 0 .. MaxReads
    BY <1>1, <1>2, SMTT(30) DEF ReadCeiling, StoreInv, TypeOK
  <2> QED
    BY <1>2, <2>2, <2>3 DEF ReadCeiling, disk, counters, StoreInv, TypeOK, ReaderAt
<1>3. CASE ListEvents
  <2>1. reader' \in ReaderAt
    BY <1>1, <1>3 DEF ListEvents, ReaderAt, Published
  <2> QED
    BY <1>3, <2>1 DEF ListEvents, disk, counters, StoreInv, TypeOK, ReaderAt
<1>4. CASE ReadEvent
  <2>1. reader.names \in SUBSET Nat /\ reader.names # {}
    BY <1>1, <1>4 DEF ReadEvent, ReaderAt, Seqs
  <2>2. Min(reader.names) \in Seqs
    BY <1>1, <2>1, Least DEF ReaderAt
  <2>3. reader' \in ReaderAt
    BY <1>1, <1>4, <2>2 DEF ReadEvent, ReaderAt
  <2> QED
    BY <1>4, <2>3 DEF ReadEvent, disk, counters, StoreInv, TypeOK, ReaderAt
<1>5. CASE ReadFloor
  <2> DEFINE cursor == IF reader.page = {} THEN reader.cursor ELSE Max(reader.page)
  <2>1. cursor \in 0 .. MaxSeq
    <3>1. reader.page \in SUBSET (0 .. MaxSeq) /\ reader.cursor \in 0 .. MaxSeq
      BY <1>1 DEF ReaderAt, Seqs
    <3> QED
      BY <1>1, <3>1, Greatest
  <2>2. reader' \in ReaderAt
    <3>1. reader' = [reader EXCEPT !.pc = "idle", !.ceiling = 0, !.page = {}, !.cursor = cursor]
      BY <1>5 DEF ReadFloor
    <3>2. 0 \in 0 .. MaxSeq + 1
      BY <1>1
    <3> HIDE DEF cursor
    <3> QED
      BY <1>1, <2>1, <3>1, <3>2 DEF ReaderAt
  <2>3. got' \in SUBSET Seqs
    BY <1>1, <1>5 DEF ReadFloor, ReaderAt, StoreInv, TypeOK
  <2> QED
    BY <1>5, <2>2, <2>3 DEF ReadFloor, disk, counters, StoreInv, TypeOK, ReaderAt
<1> QED
  BY <1>2, <1>3, <1>4, <1>5 DEF ReaderStep

(***************************************************************************)
(* The reader.                                                             *)
(***************************************************************************)
\* A writer that removes only events it has raised the floor over leaves what
\* the reader knows true.
LEMMA ReaderUndisturbed ==
    ASSUME StoreInv, TypeOK', UNCHANGED readerVars, floor <= floor',
           \A s \in Published : s \in Published' \/ s <= floor'
    PROVE  ReaderKnows' /\ NoSilentGap'
<1>1. floor \in Nat /\ floor' \in Nat /\ told \in Nat /\ \A s \in Seqs : s \in Nat
  BY StoreBoundsAssumption DEF StoreInv, TypeOK, Seqs
<1>2. reader.names \subseteq Seqs /\ reader.page \subseteq Seqs
  BY DEF StoreInv, TypeOK
<1>3. reader' = reader /\ told' = told /\ got' = got
  BY DEF readerVars
<1>4. told' <= floor'
  BY <1>1, <1>3 DEF StoreInv, ReaderKnows
<1>5. \A s \in reader.names : s \in Published' \/ s <= floor'
  BY <1>1, <1>2 DEF StoreInv, ReaderKnows
<1>6. \A s \in reader.names \cup reader.page : \A r \in Seqs :
        reader.cursor < r /\ r < s => r \in reader.names \cup reader.page \/ r <= floor'
  BY <1>1, <1>2 DEF StoreInv, ReaderKnows
<1> QED
  BY <1>3, <1>4, <1>5, <1>6 DEF StoreInv, ReaderKnows, NoSilentGap

\* Each of the reader's own steps keeps it too: what a listing or a page leaves
\* out was trimmed, and the floor is read after both.
LEMMA ReaderKeeps ==
    ASSUME StoreInv, ReaderStep
    PROVE  StoreInv'
<1>1. TypeOK'
  BY ReaderTypes
<1>2. UNCHANGED <<disk, nextTx, writer>>
  BY DEF ReaderStep, ReadCeiling, ListEvents, ReadEvent, ReadFloor
<1>3. Published' = Published /\ floor' = floor /\ events' = events
  BY <1>2 DEF disk, Published
<1>4. /\ floor \in Nat /\ told \in Nat /\ reader.cursor \in Nat /\ \A s \in Seqs : s \in Nat
      /\ reader.names \subseteq Seqs /\ reader.page \subseteq Seqs /\ Published \subseteq Seqs
      /\ MaxSeq \in Nat
  BY StoreBoundsAssumption DEF StoreInv, TypeOK, Seqs, Published
<1>5. ReaderKnows' /\ NoSilentGap'
  <2>1. CASE ReadCeiling
    BY <1>3, <2>1 DEF ReadCeiling, StoreInv, TypeOK, ReaderKnows, NoSilentGap
  <2>2. CASE ListEvents
    <3>1. /\ reader' = [reader EXCEPT !.pc = "read",
                          !.names = {s \in Published : s > reader.cursor /\ s < reader.ceiling}]
          /\ told' = told /\ got' = got /\ reader.page = {}
      BY <2>2 DEF ListEvents, StoreInv, ReaderKnows
    <3>2. \A s \in reader'.names : \A r \in Seqs :
            reader.cursor < r /\ r < s => r \in reader'.names \/ r <= floor
      <4> SUFFICES ASSUME NEW s \in reader'.names, NEW r \in Seqs,
                          reader.cursor < r, r < s, ~(r <= floor)
                   PROVE  r \in reader'.names
        OBVIOUS
      <4>1. s \in Published /\ s < reader.ceiling /\ reader.ceiling \in Nat
        BY <1>4, <3>1 DEF StoreInv, TypeOK
      <4>2. r \in Published
        BY <1>4, <4>1 DEF StoreInv, Dense
      <4>3. r > reader.cursor /\ r < reader.ceiling
        BY <1>4, <4>1
      <4> QED
        BY <3>1, <4>2, <4>3 DEF StoreInv, TypeOK
    <3>3. \A s \in reader'.names : s \in Published /\ s > reader.cursor
      BY <3>1 DEF StoreInv, TypeOK
    <3>4. reader'.page = {} /\ reader'.cursor = reader.cursor /\ reader'.pc = "read"
      BY <3>1 DEF StoreInv, TypeOK
    <3> QED
      BY <1>3, <3>1, <3>2, <3>3, <3>4 DEF StoreInv, ReaderKnows, NoSilentGap
  <2>3. CASE ReadEvent
    <3> DEFINE s0 == Min(reader.names)
               page == IF events[s0] = 0 THEN reader.page ELSE reader.page \cup {s0}
               names == IF Cardinality(page) = PageLimit THEN {} ELSE reader.names \ {s0}
    <3>1. s0 \in reader.names /\ \A r \in reader.names : s0 <= r
      <4>1. reader.names \in SUBSET Nat /\ reader.names # {}
        BY <1>4, <2>3 DEF ReadEvent
      <4> QED
        BY <4>1, Least
    <3>2. /\ reader' = [reader EXCEPT !.names = names, !.page = page] /\ reader.pc = "read"
          /\ told' = told /\ got' = got
      BY <2>3 DEF ReadEvent
    <3>3. /\ reader'.names = names /\ reader'.page = page
          /\ reader'.cursor = reader.cursor /\ reader'.pc = "read"
      BY <3>2 DEF StoreInv, TypeOK
    <3>4. s0 \in page \/ s0 <= floor
      BY <1>4, <3>1 DEF StoreInv, ReaderKnows, Published
    <3>5. page \subseteq reader.page \cup {s0} /\ reader.page \subseteq page
      OBVIOUS
    <3>6. names = {} \/ names = reader.names \ {s0}
      OBVIOUS
    <3> HIDE DEF s0, page, names
    <3>7. \A s \in page : \A r \in reader.names \ {s0} : s < r
      BY <1>4, <3>1, <3>5 DEF StoreInv, ReaderKnows
    <3>8. ASSUME NEW s \in names \cup page, NEW r \in Seqs, reader.cursor < r, r < s
          PROVE  r \in names \cup page \/ r <= floor
      <4>1. r \in reader.names \cup reader.page \/ r <= floor
        BY <3>1, <3>5, <3>6, <3>8 DEF StoreInv, ReaderKnows
      <4>2. CASE r \in reader.names \ {s0} /\ names = {}
        <5>1. s \in page /\ s < r
          BY <3>7, <3>8, <4>2
        <5> QED
          BY <1>4, <3>1, <3>5, <3>8, <5>1
      <4> QED
        BY <3>4, <3>5, <3>6, <4>1, <4>2
    <3>9. \A s \in names \cup page : s > reader.cursor
      BY <3>1, <3>5, <3>6 DEF StoreInv, ReaderKnows
    <3>10. \A s \in names : s \in Published \/ s <= floor
      BY <3>6 DEF StoreInv, ReaderKnows
    <3>11. \A s \in page : \A r \in names : s < r
      BY <3>6, <3>7
    <3> QED
      BY <1>3, <3>2, <3>3, <3>8, <3>9, <3>10, <3>11 DEF StoreInv, ReaderKnows, NoSilentGap
  <2>4. CASE ReadFloor
    <3> DEFINE cursor == IF reader.page = {} THEN reader.cursor ELSE Max(reader.page)
    <3>1. /\ reader' = [reader EXCEPT !.pc = "idle", !.ceiling = 0, !.page = {}, !.cursor = cursor]
          /\ told' = floor /\ got' = got \cup reader.page /\ reader.names = {}
      BY <2>4 DEF ReadFloor
    <3>2. reader'.cursor = cursor /\ reader'.page = {} /\ reader'.names = {}
      BY <3>1 DEF StoreInv, TypeOK
    <3>3. reader.page # {} => cursor \in reader.page
      <4>1. reader.page \in SUBSET (0 .. MaxSeq)
        BY <1>4 DEF Seqs
      <4> QED
        BY <1>4, <4>1, Greatest
    <3>4. ASSUME NEW s \in 1 .. cursor
          PROVE  s \in got \cup reader.page \/ s <= floor
      <4>1. CASE s <= reader.cursor
        <5>1. s \in got \/ s <= told
          BY <1>4, <4>1 DEF StoreInv, NoSilentGap
        <5> QED
          BY <1>4, <5>1 DEF StoreInv, ReaderKnows
      <4>2. CASE ~(s <= reader.cursor)
        <5>1. reader.page # {} /\ cursor \in reader.page /\ cursor \in Seqs
          BY <1>4, <3>3, <3>4, <4>2
        <5>2. s \in Seqs /\ s <= cursor
          BY <1>4, <3>4, <5>1 DEF Seqs
        <5>3. s \in reader.page \/ s <= floor
          BY <1>4, <3>1, <4>2, <5>1, <5>2 DEF StoreInv, ReaderKnows
        <5> QED
          BY <5>3
      <4> QED
        BY <4>1, <4>2
    <3> HIDE DEF cursor
    <3> QED
      BY <1>3, <1>4, <3>1, <3>2, <3>4 DEF ReaderKnows, NoSilentGap
  <2> QED
    BY <2>1, <2>2, <2>3, <2>4 DEF ReaderStep
<1> QED
  BY <1>1, <1>2, <1>5 DEF StoreInv, disk, Admitted, Issued, LastKnown, PreparedAfresh, RolledUpTo,
     TrimsPrefix, Dense, Last, Decided, DecidedSeqs, Newest, Published

(***************************************************************************)
(* Writers.                                                                *)
(***************************************************************************)
\* What the arithmetic of the steps below needs to know.
LEMMA Numbers ==
    ASSUME StoreInv
    PROVE  /\ MaxSeq \in Nat /\ MaxTx \in Nat /\ floor \in Nat /\ Newest \in Nat
           /\ nextTx \in Nat /\ active.first \in Nat
           /\ \A s \in Seqs : s \in Nat /\ events[s] \in Nat
           /\ \A k \in Keys : records[k] \in Nat
           /\ \A t \in entries : t \in Nat /\ t \in Txs
<1>1. TypeOK /\ MaxSeq \in Nat /\ MaxTx \in Nat
  BY StoreBoundsAssumption DEF StoreInv
<1>2. /\ floor \in Nat /\ nextTx \in Nat /\ active.first \in Nat
      /\ \A s \in Seqs : s \in Nat /\ events[s] \in Nat
      /\ \A k \in Keys : records[k] \in Nat
  BY <1>1 DEF TypeOK, Seqs
<1>3. Newest \in Nat
  BY <1>1, NewestKnown DEF NewestIsGreatest
<1>4. \A t \in entries : t \in Nat /\ t \in Txs
  BY <1>1 DEF TypeOK, Txs
<1> QED
  BY <1>1, <1>2, <1>3, <1>4

\* A journal entry names numbers and a sequence of records.
LEMMA Plans ==
    ASSUME StoreInv, NEW t \in Txs
    PROVE  /\ plan[t].events \in Nat /\ plan[t].first \in Nat
           /\ plan[t].writes \in Seq(Keys)
<1>1. plan[t] \in Planned
  BY DEF StoreInv, TypeOK, Planned
<1>2. plan[t].events \in Nat
  BY <1>1, StorePlansAssumption DEF Planned
<1>3. plan[t].first \in Nat
  BY <1>1, StoreBoundsAssumption DEF Planned
<1>4. plan[t].writes \in WriteLists \cup {<<>>} /\ <<>> \in Seq(Keys)
  BY <1>1 DEF Planned
<1> QED
  BY <1>2, <1>3, <1>4, StorePlansAssumption

\* The writer alone changes: the disk is as good as before.
LEMMA DiskKept ==
    ASSUME StoreInv, UNCHANGED <<disk, nextTx, readerVars>>
    PROVE  Issued' /\ LastKnown' /\ Dense' /\ ReaderKnows' /\ NoSilentGap'
BY DEF disk, readerVars, StoreInv, Issued, LastKnown, Dense, Last, Decided, DecidedSeqs, Newest,
   Published, ReaderKnows, NoSilentGap

\* A call takes the mutex, and starts by finishing an open transaction.
LEMMA BeginKeeps ==
    ASSUME StoreInv, NEW resume \in {"callback", "free"}, Begin(resume)
    PROVE  StoreInv'
<1>1. TypeOK'
  BY WriterTypes
<1>2. UNCHANGED <<disk, nextTx, readerVars>>
  BY DEF Begin
<1>3. Admitted'
  BY <1>2 DEF Begin, Admitted, Free
<1>4. PreparedAfresh'
  BY <1>2 DEF Begin, PreparedAfresh, Free, disk
<1>5. RolledUpTo'
  BY <1>2 DEF Begin, RolledUpTo, Free, disk
<1>6. TrimsPrefix'
  BY <1>2 DEF Begin, TrimsPrefix, Free
<1> QED
  BY <1>1, <1>2, <1>3, <1>4, <1>5, <1>6, DiskKept DEF StoreInv

\* A call that has nothing to commit or to trim, or whose process is killed,
\* leaves the mutex and what is on disk.
LEMMA LeaveKeeps ==
    ASSUME StoreInv, CommitNothing \/ TrimEnd \/ Crash
    PROVE  StoreInv'
<1>1. TypeOK'
  BY WriterTypes DEF WriterStep
<1>2. UNCHANGED <<disk, nextTx, readerVars>> /\ writer' = Free
  BY DEF CommitNothing, TrimEnd, Crash
<1>3. Admitted' /\ PreparedAfresh' /\ RolledUpTo' /\ TrimsPrefix'
  BY <1>2 DEF Admitted, PreparedAfresh, RolledUpTo, TrimsPrefix, Free
<1> QED
  BY <1>1, <1>2, <1>3, DiskKept DEF StoreInv

\* A transaction of one record publishes it without the journal.
LEMMA CommitDirectKeeps ==
    ASSUME StoreInv, CommitDirect
    PROVE  StoreInv'
<1>1. TypeOK'
  BY WriterTypes DEF WriterStep
<1>2. UNCHANGED <<active, entries, plan, events, floor, readerVars>> /\ writer' = Free
  BY DEF CommitDirect
<1>3. Issued'
  <2>1. PICK k \in DirectKeys : records' = [records EXCEPT ![k] = nextTx]
    BY DEF CommitDirect
  <2>2. nextTx' = nextTx + 1
    BY DEF CommitDirect
  <2>3. \A k2 \in Keys : records'[k2] < nextTx'
    <3>1. records \in [Keys -> Nat] /\ \A k2 \in Keys : records[k2] < nextTx
      BY StoreBoundsAssumption DEF StoreInv, TypeOK, Issued
    <3> QED
      BY <2>1, <2>2, <3>1, Numbers
  <2>4. \A t \in entries : t < nextTx'
    BY <2>2, Numbers DEF StoreInv, Issued
  <2>5. \A s \in Seqs : events[s] < nextTx'
    BY <2>2, Numbers DEF StoreInv, Issued
  <2> QED
    BY <1>2, <2>3, <2>4, <2>5 DEF Issued
<1>4. LastKnown' /\ Dense'
  BY <1>2 DEF StoreInv, LastKnown, Dense, Last, Decided, DecidedSeqs, Newest, Published
<1>5. ReaderKnows' /\ NoSilentGap'
  BY <1>2 DEF readerVars, StoreInv, ReaderKnows, NoSilentGap, Published
<1>6. Admitted' /\ PreparedAfresh' /\ RolledUpTo' /\ TrimsPrefix'
  BY <1>2 DEF Admitted, PreparedAfresh, RolledUpTo, TrimsPrefix, Free
<1> QED
  BY <1>1, <1>3, <1>4, <1>5, <1>6 DEF StoreInv

\* The journal entry is written under a number nobody used, above Newest.
LEMMA PrepareKeeps ==
    ASSUME StoreInv, Prepare
    PROVE  StoreInv'
<1>1. TypeOK'
  BY WriterTypes DEF WriterStep
<1>2. /\ UNCHANGED <<active, events, records, floor, readerVars>>
      /\ writer' = [Free EXCEPT !.pc = "prepared", !.tx = nextTx]
      /\ entries' = entries \cup {nextTx} /\ nextTx' = nextTx + 1
      /\ writer.pc = "callback"
  BY DEF Prepare
<1>3. PICK n \in EventCounts, writes \in WriteLists :
        /\ Newest + n <= MaxSeq
        /\ plan' = [plan EXCEPT ![nextTx] =
                      [first |-> Newest + 1, events |-> n, writes |-> writes]]
  BY DEF Prepare
<1>4. writer'.pc = "prepared" /\ writer'.tx = nextTx /\ writer'.resume = "free"
  BY <1>2 DEF Free
<1>5. nextTx \in Txs /\ ~Decided /\ ~Decided' /\ active.state = "idle"
  BY <1>2, Numbers DEF StoreInv, TypeOK, Admitted, PreparedAfresh, Decided, Txs
<1>6. Newest' = Newest /\ Published' = Published
  BY <1>2 DEF Newest, Published
<1>7. Issued'
  <2>1. \A t \in entries' : t < nextTx'
    BY <1>2, Numbers DEF StoreInv, Issued
  <2>2. (\A s \in Seqs : events[s] < nextTx') /\ \A k \in Keys : records[k] < nextTx'
    BY <1>2, Numbers DEF StoreInv, Issued
  <2> QED
    BY <1>2, <2>1, <2>2 DEF Issued
<1>8. LastKnown' /\ Dense'
  BY <1>2, <1>5, <1>6 DEF StoreInv, LastKnown, Dense, Last
<1>9. plan'[nextTx] = [first |-> Newest + 1, events |-> n, writes |-> writes]
  BY <1>3, <1>5 DEF StoreInv, TypeOK
<1>10. PreparedAfresh'
  <2>1. (\A s \in Seqs : events[s] # nextTx) /\ \A k \in Keys : records[k] # nextTx
    BY Numbers DEF StoreInv, Issued
  <2> QED
    BY <1>2, <1>3, <1>4, <1>5, <1>6, <1>9, <2>1 DEF PreparedAfresh
<1>11. Admitted' /\ RolledUpTo' /\ TrimsPrefix'
  BY <1>4 DEF Admitted, RolledUpTo, TrimsPrefix
<1>12. ReaderKnows' /\ NoSilentGap'
  BY <1>2, <1>6 DEF readerVars, StoreInv, ReaderKnows, NoSilentGap
<1> QED
  BY <1>1, <1>7, <1>8, <1>10, <1>11, <1>12 DEF StoreInv

\* The decision: the numbers of the entry are now the newest.
LEMMA ActivateKeeps ==
    ASSUME StoreInv, Activate
    PROVE  StoreInv'
<1>1. TypeOK'
  BY WriterTypes DEF WriterStep
<1>2. /\ UNCHANGED <<entries, plan, events, records, floor, nextTx, readerVars>>
      /\ active' = [state |-> "open", tx |-> writer.tx, first |-> plan[writer.tx].first]
      /\ writer' = [writer EXCEPT !.pc = "roll", !.pos = 1]
      /\ writer.pc = "prepared"
  BY DEF Activate
<1>3. writer'.pc = "roll" /\ writer'.pos = 1 /\ writer'.resume = writer.resume
  BY <1>2 DEF StoreInv, TypeOK
<1>4. Newest' = Newest /\ Published' = Published
  BY <1>2 DEF Newest, Published
<1>5. writer.tx \in Txs /\ ~Decided /\ Decided' /\ active.state = "idle"
  BY <1>2 DEF StoreInv, TypeOK, PreparedAfresh, Decided
<1>6. Last = Newest /\ Last' = Newest + plan[writer.tx].events
  <2>1. Last = Newest /\ Last' = active'.first + plan'[active'.tx].events - 1
    BY <1>5 DEF Last
  <2>2. active'.first = Newest + 1 /\ plan'[active'.tx] = plan[writer.tx]
    BY <1>2 DEF StoreInv, PreparedAfresh
  <2>3. plan[writer.tx].events \in Nat /\ Newest \in Nat
    BY <1>5, Plans, Numbers
  <2> QED
    BY <2>1, <2>2, <2>3
<1>7. active'.tx \in entries' /\ active'.first = plan[writer.tx].first
  BY <1>2 DEF StoreInv, PreparedAfresh
<1>8. LastKnown'
  <2>1. floor' <= Last' /\ Newest' <= Last'
    BY <1>2, <1>4, <1>5, <1>6, Numbers, Plans DEF StoreInv, LastKnown
  <2>2. \A s \in DecidedSeqs' : events[s] = 0
    <3> SUFFICES ASSUME NEW s \in DecidedSeqs' PROVE events[s] = 0
      OBVIOUS
    <3>1. s \in Newest + 1 .. Newest + plan[writer.tx].events
      <4>1. active'.first = Newest + 1 /\ plan'[active'.tx] = plan[writer.tx]
        BY <1>2 DEF StoreInv, PreparedAfresh
      <4>2. plan[writer.tx].events \in Nat /\ Newest \in Nat
        BY <1>5, Plans, Numbers
      <4> QED
        BY <1>5, <4>1, <4>2 DEF DecidedSeqs
    <3>2. s \in Seqs /\ s > Newest
      <4>1. plan[writer.tx].events \in Nat /\ Newest \in Nat /\ MaxSeq \in Nat
        BY <1>5, Plans, Numbers
      <4>2. Newest + plan[writer.tx].events <= MaxSeq
        BY <1>2 DEF StoreInv, PreparedAfresh
      <4> QED
        BY <3>1, <4>1, <4>2 DEF Seqs
    <3> QED
      BY <3>2, NewestKnown, Numbers DEF NewestIsGreatest, StoreInv, Published
  <2>3. active'.first >= 1 /\ Last' <= MaxSeq
    BY <1>2, <1>6, <1>7, Numbers DEF StoreInv, PreparedAfresh
  <2> QED
    BY <1>2, <1>4, <1>5, <1>6, <1>7, <2>1, <2>2, <2>3, Numbers DEF LastKnown
<1>9. Dense'
  <2>1. \A s \in Seqs : s > floor /\ s < active'.first => s \in Published
    <3> SUFFICES ASSUME NEW s \in Seqs, s > floor, s < active'.first PROVE s \in Published
      OBVIOUS
    <3>1. s <= Newest
      BY <1>2, <1>7, Numbers DEF StoreInv, PreparedAfresh
    <3>2. Published # {} /\ Newest \in Published
      BY <3>1, NewestKnown, Numbers DEF StoreInv, NewestIsGreatest
    <3> QED
      BY <3>1, <3>2, Numbers DEF StoreInv, Dense
  <2> QED
    BY <1>2, <1>4, <2>1 DEF StoreInv, Dense
<1>10. Issued'
  BY <1>2 DEF StoreInv, Issued
<1>11. Admitted' /\ PreparedAfresh' /\ RolledUpTo' /\ TrimsPrefix'
  BY <1>2, <1>3
  DEF StoreInv, Admitted, PreparedAfresh, RolledUpTo, TrimsPrefix
<1>12. ReaderKnows' /\ NoSilentGap'
  BY <1>2, <1>4 DEF readerVars, StoreInv, ReaderKnows, NoSilentGap
<1> QED
  BY <1>1, <1>8, <1>9, <1>10, <1>11, <1>12 DEF StoreInv

\* A writer that rolls forward is at the open transaction.
LEMMA Rolling ==
    ASSUME StoreInv, writer.pc = "roll"
    PROVE  /\ Decided /\ writer.tx = active.tx /\ active.tx \in Txs /\ active.tx \in entries
           /\ active.first = plan[active.tx].first /\ active.first >= 1
           /\ Last = active.first + plan[active.tx].events - 1 /\ Last <= MaxSeq
           /\ writer.pos \in Nat /\ writer.pos >= 1
           /\ plan[active.tx].events \in Nat /\ active.first \in Nat
           /\ DecidedSeqs = active.first .. Last
           /\ DecidedSeqs \subseteq Seqs
<1>1. Decided /\ writer.tx = active.tx /\ writer.pos \in Nat
  BY DEF StoreInv, TypeOK, Decided
<1>2. active.tx \in entries /\ active.tx \in Txs
  BY <1>1, Numbers DEF StoreInv, LastKnown
<1>3. /\ active.first = plan[active.tx].first /\ active.first >= 1 /\ Last <= MaxSeq
      /\ Last = active.first + plan[active.tx].events - 1 /\ writer.pos >= 1
      /\ DecidedSeqs = active.first .. Last
  BY <1>1, <1>2 DEF StoreInv, LastKnown, RolledUpTo, Last, DecidedSeqs
<1>4. plan[active.tx].events \in Nat /\ active.first \in Nat /\ MaxSeq \in Nat
  BY <1>2, Plans, Numbers
<1>5. DecidedSeqs \subseteq Seqs
  BY <1>3, <1>4 DEF Seqs
<1> QED
  BY <1>1, <1>2, <1>3, <1>4, <1>5

\* The next event of the open transaction is published.
LEMMA RollEventKeeps ==
    ASSUME StoreInv, Roll, writer.pos <= plan[active.tx].events
    PROVE  StoreInv'
<1> DEFINE s0 == active.first + writer.pos - 1
<1>1. TypeOK'
  BY WriterTypes DEF WriterStep
<1>2. /\ UNCHANGED <<active, entries, plan, floor, records, nextTx, readerVars>>
      /\ events' = [events EXCEPT ![s0] = IF @ = 0 THEN active.tx ELSE @]
      /\ writer' = IF events[s0] \in {0, active.tx} THEN [writer EXCEPT !.pos = @ + 1] ELSE Free
      /\ writer.pc = "roll"
  BY Rolling DEF Roll
<1>3. /\ s0 \in Seqs /\ s0 \in DecidedSeqs /\ s0 <= Last /\ s0 >= active.first
      /\ active.tx \in Nat /\ active.tx # 0
  <2>1. s0 \in active.first .. Last
    BY <1>2, Rolling, SMTT(30)
  <2>2. active.tx \in Nat /\ active.tx # 0
    BY <1>2, Rolling, Numbers DEF Txs
  <2> QED
    BY <1>2, <2>1, <2>2, Rolling
<1>4. events[s0] \in {0, active.tx}
  BY <1>2, <1>3, Rolling DEF StoreInv, LastKnown
<1>5. /\ events'[s0] = active.tx /\ \A s \in Seqs : s # s0 => events'[s] = events[s]
      /\ writer'.pc = "roll" /\ writer'.pos = writer.pos + 1 /\ writer'.resume = writer.resume
  BY <1>2, <1>3, <1>4 DEF StoreInv, TypeOK
<1> HIDE DEF s0
<1>6. Published' = Published \cup {s0}
  BY <1>3, <1>5 DEF Published
<1>7. Last' = Last /\ Decided' /\ DecidedSeqs' = DecidedSeqs
  BY <1>2, Rolling DEF Last, Decided, DecidedSeqs
<1>8. Issued'
  <2>1. active.tx < nextTx
    BY <1>2, Rolling DEF StoreInv, Issued
  <2> QED
    BY <1>2, <1>5, <2>1 DEF StoreInv, Issued
<1>9. LastKnown'
  <2>1. Newest' <= Last'
    <3>1. Newest' \in Published \/ Newest' = s0
      BY <1>1, <1>6, NewestKnownNext DEF NewestIsGreatest
    <3>2. CASE Newest' \in Published
      <4>1. Newest' <= Newest /\ Newest <= Last
        BY <1>2, <3>2, Rolling, NewestKnown DEF StoreInv, NewestIsGreatest, LastKnown
      <4>2. Newest' \in Nat /\ Newest \in Nat /\ Last \in Int
        BY <1>2, <3>2, Rolling, Numbers, Plans, SMTT(30) DEF Published
      <4> QED
        BY <1>7, <4>1, <4>2
    <3> QED
      BY <1>3, <1>7, <3>1, <3>2
  <2>2. \A s \in DecidedSeqs : events'[s] \in {0, active.tx}
    BY <1>2, <1>5, Rolling DEF StoreInv, LastKnown
  <2>3. plan[active.tx].events # 0
    BY <1>2, Rolling, Plans
  <2>4. floor' <= Last'
    BY <1>2, <1>7 DEF StoreInv, LastKnown
  <2> QED
    BY <1>2, <1>7, <2>1, <2>2, <2>3, <2>4, Rolling DEF LastKnown
<1>10. RolledUpTo'
  <2> SUFFICES ASSUME NEW i \in 1 .. writer.pos
               PROVE  /\ i <= plan[active.tx].events => events'[active.first + i - 1] = active.tx
                      /\ \A j \in 1 .. Len(plan[active.tx].writes) :
                            i # plan[active.tx].events + j
    BY <1>2, <1>5, Rolling DEF RolledUpTo
  <2>1. CASE i = writer.pos
    <3>1. active.first + i - 1 = s0
      BY <2>1 DEF s0
    <3>2. i <= plan[active.tx].events /\ plan[active.tx].events \in Nat /\ i \in Nat
      BY <1>2, <2>1, Rolling
    <3>3. \A j \in 1 .. Len(plan[active.tx].writes) : i # plan[active.tx].events + j
      BY <3>2
    <3> QED
      BY <1>5, <3>1, <3>3
  <2>2. CASE i # writer.pos
    <3>1. i \in 1 .. writer.pos - 1
      BY <1>2, <2>2, Rolling
    <3>2. events[active.first + i - 1] = active.tx
      <4>1. i <= plan[active.tx].events
        BY <1>2, <3>1, Rolling
      <4> QED
        BY <1>2, <3>1, <4>1 DEF StoreInv, RolledUpTo
    <3>3. active.first + i - 1 \in Seqs
      <4>1. active.first + i - 1 \in active.first .. Last
        BY <1>2, <3>1, Rolling
      <4> QED
        BY <1>2, <4>1, Rolling
    <3>4. events'[active.first + i - 1] = active.tx
      BY <1>5, <3>2, <3>3
    <3>5. i <= plan[active.tx].events /\ plan[active.tx].events \in Nat
      BY <1>2, <3>1, Rolling
    <3> QED
      BY <3>1, <3>4, <3>5
  <2> QED
    BY <2>1, <2>2
<1>11. Dense'
  <2> SUFFICES ASSUME NEW s \in Seqs, s > floor PROVE
                   /\ (\E r \in Published' : s < r) => s \in Published'
                   /\ s < active.first => s \in Published'
    BY <1>2 DEF Dense
  <2>1. s < active.first => s \in Published
    BY <1>2, Rolling DEF StoreInv, Dense
  <2>2. CASE \E r \in Published : s < r
    BY <1>6, <2>1, <2>2 DEF StoreInv, Dense
  <2>3. CASE s < s0
    <3>1. CASE s < active.first
      BY <1>6, <2>1, <3>1
    <3>2. CASE ~(s < active.first)
      <4> DEFINE i == s - active.first + 1
      <4>1. i \in 1 .. writer.pos - 1 /\ s = active.first + i - 1
        <5>1. /\ s \in Nat /\ active.first \in Nat /\ writer.pos \in Nat
              /\ s < active.first + writer.pos - 1
          BY <1>2, <2>3, Rolling, Numbers DEF s0
        <5> QED
          BY <3>2, <5>1
      <4>2. i <= plan[active.tx].events
        BY <1>2, <4>1, Rolling, Plans
      <4>3. events[active.first + i - 1] = active.tx
        BY <1>2, <4>1, <4>2 DEF StoreInv, RolledUpTo
      <4>4. events[s] = active.tx
        BY <4>1, <4>3
      <4> QED
        BY <1>3, <1>6, <4>4 DEF Published
    <3> QED
      BY <3>1, <3>2
  <2> QED
    BY <1>6, <2>1, <2>2, <2>3
<1>12. Admitted' /\ PreparedAfresh' /\ TrimsPrefix'
  BY <1>2, <1>5 DEF StoreInv, Admitted, PreparedAfresh, TrimsPrefix
<1>13. ReaderKnows' /\ NoSilentGap'
  BY <1>1, <1>2, <1>6, Numbers, ReaderUndisturbed
<1> QED
  BY <1>1, <1>8, <1>9, <1>10, <1>11, <1>12, <1>13 DEF StoreInv

\* The next record of the open transaction is published.
LEMMA RollRecordKeeps ==
    ASSUME StoreInv, Roll, ~(writer.pos <= plan[active.tx].events)
    PROVE  StoreInv'
<1> DEFINE j0 == writer.pos - plan[active.tx].events
           k0 == plan[active.tx].writes[j0]
<1>1. TypeOK'
  BY WriterTypes DEF WriterStep
<1>2. /\ UNCHANGED <<active, entries, plan, floor, events, nextTx, readerVars>>
      /\ records' = [records EXCEPT ![k0] = active.tx]
      /\ writer' = [writer EXCEPT !.pos = @ + 1]
      /\ writer.pc = "roll"
      /\ writer.pos <= plan[active.tx].events + Len(plan[active.tx].writes)
  BY Rolling DEF Roll, Publications
<1>3. j0 \in 1 .. Len(plan[active.tx].writes)
  BY <1>2, Rolling, Plans, SMTT(30)
<1>4. k0 \in Keys
  BY <1>2, <1>3, Rolling, Plans
<1>5. /\ records'[k0] = active.tx /\ \A k \in Keys : k # k0 => records'[k] = records[k]
      /\ writer'.pc = "roll" /\ writer'.pos = writer.pos + 1 /\ writer'.resume = writer.resume
  BY <1>2, <1>4 DEF StoreInv, TypeOK
<1>6. LastKnown' /\ Dense'
  BY <1>2 DEF StoreInv, LastKnown, Dense, Last, Decided, DecidedSeqs, Newest, Published
<1>7. Issued'
  <2>1. active.tx < nextTx
    BY <1>2, Rolling DEF StoreInv, Issued
  <2> QED
    BY <1>2, <1>5, <2>1 DEF StoreInv, Issued
<1>8. RolledUpTo'
  <2>0. writer'.pos >= 1 /\ writer'.pos - 1 = writer.pos
    BY <1>2, <1>5, Rolling
  <2> SUFFICES ASSUME NEW i \in 1 .. writer.pos
               PROVE  /\ i <= plan[active.tx].events => events[active.first + i - 1] = active.tx
                      /\ \A j \in 1 .. Len(plan[active.tx].writes) :
                            i = plan[active.tx].events + j =>
                                records'[plan[active.tx].writes[j]] = active.tx
    BY <1>2, <2>0 DEF RolledUpTo
  <2>1. CASE i = writer.pos
    <3>1. \A j \in 1 .. Len(plan[active.tx].writes) : i = plan[active.tx].events + j => j = j0
      BY <1>2, <2>1, Rolling, Plans
    <3> HIDE DEF j0
    <3> QED
      BY <1>5, <2>1, <3>1
  <2>2. CASE i # writer.pos
    <3>1. i \in 1 .. writer.pos - 1
      BY <1>2, <2>2, Rolling
    <3>2. \A j \in 1 .. Len(plan[active.tx].writes) : plan[active.tx].writes[j] \in Keys
      BY <1>2, Rolling, Plans
    <3> QED
      BY <1>2, <1>5, <3>1, <3>2 DEF StoreInv, RolledUpTo
  <2> QED
    BY <2>1, <2>2
<1>9. Admitted' /\ PreparedAfresh' /\ TrimsPrefix'
  BY <1>2, <1>5 DEF StoreInv, Admitted, PreparedAfresh, TrimsPrefix
<1>10. ReaderKnows' /\ NoSilentGap'
  BY <1>2 DEF readerVars, StoreInv, ReaderKnows, NoSilentGap, Published
<1> QED
  BY <1>1, <1>6, <1>7, <1>8, <1>9, <1>10 DEF StoreInv

\* Everything is out when the active journal goes idle, so the newest event on
\* disk is the newest number issued.
LEMMA RetireKeeps ==
    ASSUME StoreInv, Retire
    PROVE  StoreInv' /\ Last' = Last
<1>1. TypeOK'
  BY WriterTypes DEF WriterStep
<1>2. /\ UNCHANGED <<entries, plan, events, records, floor, nextTx, readerVars>>
      /\ active' = Idle /\ writer' = [Free EXCEPT !.pc = writer.resume]
      /\ writer.pc = "roll" /\ writer.pos > plan[active.tx].events + Len(plan[active.tx].writes)
  BY Rolling DEF Retire, Publications
<1>3. ~Decided' /\ Newest' = Newest /\ Published' = Published
  BY <1>2 DEF Decided, Idle, Newest, Published
<1>4. Newest = Last
  <2>1. CASE plan[active.tx].events = 0
    BY <1>2, <2>1, Rolling DEF StoreInv, LastKnown
  <2>2. CASE plan[active.tx].events # 0
    <3>1. plan[active.tx].events \in 1 .. writer.pos - 1
      <4>1. Len(plan[active.tx].writes) \in Nat
        BY <1>2, Rolling, Plans
      <4> QED
        BY <1>2, <2>2, <4>1, Rolling, SMTT(30)
    <3>2. events[Last] = active.tx
      BY <1>2, <3>1, Rolling DEF StoreInv, RolledUpTo
    <3>3. Last \in Published
      <4>1. Last \in active.first .. Last /\ active.tx # 0
        <5>1. active.tx # 0
          BY <1>2, Rolling, Numbers DEF Txs
        <5> QED
          BY <1>2, <2>2, <5>1, Rolling
      <4> QED
        BY <1>2, <3>2, <4>1, Rolling DEF Published
    <3>4. Last <= Newest /\ Newest <= Last
      BY <1>2, <3>3, Rolling, NewestKnown DEF StoreInv, NewestIsGreatest, LastKnown
    <3>5. Last \in Nat /\ Newest \in Nat
      BY <3>3, Numbers DEF Published
    <3> QED
      BY <3>4, <3>5
  <2> QED
    BY <2>1, <2>2
<1>5. Last' = Last
  BY <1>3, <1>4 DEF Last
<1>6. LastKnown' /\ Dense'
  BY <1>2, <1>3, <1>5 DEF StoreInv, LastKnown, Dense
<1>7. Issued'
  BY <1>2 DEF StoreInv, Issued
<1>8. writer'.pc = writer.resume /\ writer.resume \in {"free", "callback"} /\ active'.state = "idle"
  BY <1>2 DEF StoreInv, TypeOK, Free, Idle
<1>9. Admitted' /\ PreparedAfresh' /\ RolledUpTo' /\ TrimsPrefix'
  BY <1>2, <1>8 DEF StoreInv, Admitted, PreparedAfresh, RolledUpTo, TrimsPrefix
<1>10. ReaderKnows' /\ NoSilentGap'
  BY <1>2, <1>3 DEF readerVars, StoreInv, ReaderKnows, NoSilentGap
<1> QED
  BY <1>1, <1>5, <1>6, <1>7, <1>9, <1>10 DEF StoreInv

\* Nothing is issued beyond the newest number a caller knows of.
LEMMA NewestBelowLast ==
    ASSUME StoreInv
    PROVE  Newest <= Last /\ Last \in Nat
<1>1. CASE Decided
  <2>1. active.tx \in Txs /\ active.first >= 1
    BY <1>1, Numbers DEF StoreInv, LastKnown
  <2>2. plan[active.tx].events \in Nat /\ active.first \in Nat
    BY <2>1, Plans, Numbers
  <2> QED
    BY <1>1, <2>1, <2>2 DEF StoreInv, LastKnown, Last
<1>2. CASE ~Decided
  BY <1>2, Numbers DEF Last
<1> QED
  BY <1>1, <1>2

\* The floor goes up, to no more than the newest number, before anything goes.
LEMMA TrimRaiseKeeps ==
    ASSUME StoreInv, TrimRaise
    PROVE  /\ StoreInv' /\ Last' = Last /\ floor <= floor'
           /\ floor' \in {floor} \cup Seqs
<1>1. TypeOK'
  BY WriterTypes
<1>2. /\ UNCHANGED <<active, entries, plan, events, records, nextTx, readerVars>>
      /\ writer.pc = "free"
  BY DEF TrimRaise
<1>3. PICK boundary \in Seqs :
        /\ boundary <= Newest /\ floor' = Max({floor, boundary})
        /\ writer' = [Free EXCEPT !.pc = "trim", !.trim = {s \in Published : s <= boundary}]
  BY DEF TrimRaise
<1>4. floor' \in {floor, boundary} /\ floor <= floor' /\ boundary <= floor'
  <2>1. {floor, boundary} \in SUBSET (0 .. MaxSeq) /\ MaxSeq \in Nat
    BY StoreBoundsAssumption DEF StoreInv, TypeOK, Seqs
  <2> QED
    BY <1>3, <2>1, Greatest
<1>5. Published' = Published /\ Decided' = Decided /\ DecidedSeqs' = DecidedSeqs
  BY <1>2 DEF Published, Decided, DecidedSeqs
<1>6. Newest' = Newest
  <2>1. CASE Published = {}
    <3>1. Newest = floor /\ Newest' = floor'
      BY <1>5, <2>1 DEF Newest
    <3> QED
      BY <1>3, <1>4, <3>1, Numbers
  <2>2. CASE Published # {}
    BY <1>5, <2>2 DEF Newest
  <2> QED
    BY <2>1, <2>2
<1>7. Last' = Last
  BY <1>2, <1>5, <1>6 DEF Last
<1>8. floor' <= Last'
  BY <1>3, <1>4, <1>7, NewestBelowLast, Numbers DEF StoreInv, LastKnown
<1>9. LastKnown'
  BY <1>2, <1>5, <1>6, <1>7, <1>8 DEF StoreInv, LastKnown
<1>10. Dense'
  <2>1. \A s \in Seqs : s > floor' => s > floor
    BY <1>4, Numbers DEF Seqs
  <2> QED
    BY <1>2, <1>5, <2>1 DEF StoreInv, Dense
<1>11. Issued'
  BY <1>2 DEF StoreInv, Issued
<1>12. writer'.pc = "trim" /\ writer'.trim = {s \in Published : s <= boundary}
  BY <1>3 DEF Free
<1>13. TrimsPrefix'
  <2>1. \A s \in writer'.trim : s \in Nat /\ s <= floor'
    BY <1>3, <1>4, <1>12, Numbers DEF Published
  <2>2. \A s \in writer'.trim : \A r \in Published : r < s => r <= boundary
    BY <1>3, <1>12, Numbers DEF Published
  <2> QED
    BY <1>5, <1>12, <2>1, <2>2 DEF TrimsPrefix
<1>14. Admitted' /\ PreparedAfresh' /\ RolledUpTo'
  BY <1>12 DEF Admitted, PreparedAfresh, RolledUpTo
<1>15. ReaderKnows' /\ NoSilentGap'
  BY <1>1, <1>2, <1>4, <1>5, ReaderUndisturbed
<1> QED
  BY <1>1, <1>4, <1>7, <1>9, <1>10, <1>11, <1>13, <1>14, <1>15 DEF StoreInv

\* The oldest listed event goes.  It is the newest one only if it is the last
\* one, and then the floor answers for it.
LEMMA TrimRemoveKeeps ==
    ASSUME StoreInv, TrimRemove
    PROVE  StoreInv' /\ Last' = Last /\ \A s \in Seqs : s > floor => events'[s] = events[s]
<1> DEFINE s0 == Min(writer.trim)
<1>1. TypeOK'
  BY WriterTypes DEF WriterStep
<1>2. /\ UNCHANGED <<active, entries, plan, records, floor, nextTx, readerVars>>
      /\ events' = [events EXCEPT ![s0] = 0]
      /\ writer' = [writer EXCEPT !.trim = @ \ {s0}]
      /\ writer.pc = "trim" /\ writer.trim # {}
  BY DEF TrimRemove
<1>3. /\ s0 \in writer.trim /\ \A r \in writer.trim : s0 <= r
  <2>1. writer.trim \in SUBSET Nat
    BY StoreBoundsAssumption DEF StoreInv, TypeOK, Seqs
  <2> QED
    BY <1>2, <2>1, Least
<1>4. s0 \in Published /\ s0 \in Seqs /\ s0 \in Nat /\ s0 <= floor
  BY <1>2, <1>3, Numbers DEF StoreInv, TrimsPrefix, Published
<1> HIDE DEF s0
<1>5. /\ events'[s0] = 0 /\ \A s \in Seqs : s # s0 => events'[s] = events[s]
      /\ writer'.pc = "trim" /\ writer'.trim = writer.trim \ {s0}
  BY <1>2, <1>4 DEF StoreInv, TypeOK
<1>6. Published' = Published \ {s0}
  BY <1>4, <1>5 DEF Published
<1>7. Decided' = Decided /\ DecidedSeqs' = DecidedSeqs
  BY <1>2 DEF Decided, DecidedSeqs
<1>8. \A r \in Published : s0 <= r
  <2>1. \A r \in Published : r \in Nat
    BY Numbers DEF Published
  <2>2. \A r \in Published : r < s0 => r \in writer.trim
    BY <1>2, <1>3 DEF StoreInv, TrimsPrefix
  <2> SUFFICES ASSUME NEW r \in Published, r < s0 PROVE FALSE
    BY <1>4, <2>1
  <2>3. r \in writer.trim /\ s0 <= r
    BY <1>3, <2>2
  <2> QED
    BY <1>4, <2>1, <2>3
<1>9. Newest' = Newest \/ (Newest' = floor /\ Newest = s0)
  <2>1. CASE Published' = {}
    <3>1. Published = {s0}
      BY <1>4, <1>6, <2>1
    <3>2. Newest = s0 /\ Newest' = floor
      BY <1>1, <1>2, <2>1, <3>1, NewestKnown, NewestKnownNext DEF StoreInv, NewestIsGreatest
    <3> QED
      BY <3>2
  <2>2. CASE Published' # {}
    <3>1. Newest' \in Published' /\ Newest \in Published
      BY <1>1, <1>4, <2>2, NewestKnown, NewestKnownNext DEF StoreInv, NewestIsGreatest
    <3>2. Newest' <= Newest /\ s0 <= Newest' /\ Newest' # s0
      BY <1>6, <1>8, <3>1, NewestKnown DEF StoreInv, NewestIsGreatest
    <3>3. Newest' \in Nat /\ Newest \in Nat
      BY <1>6, <3>1, Numbers DEF Published
    <3>4. Newest # s0
      BY <1>4, <3>2, <3>3
    <3>5. Newest <= Newest'
      BY <1>1, <1>6, <3>1, <3>4, NewestKnownNext DEF NewestIsGreatest
    <3> QED
      BY <3>2, <3>3, <3>5
  <2> QED
    BY <2>1, <2>2
<1>10. Newest' = Newest \/ (Newest' = floor /\ Newest < floor)
  BY <1>4, <1>9, Numbers
<1>11. ~Decided => Newest' = Newest
  BY <1>10, NewestBelowLast, Numbers DEF StoreInv, LastKnown, Last
<1>12. Last' = Last
  BY <1>2, <1>7, <1>11 DEF Last
<1>13. LastKnown'
  <2>1. Newest' <= Last'
    BY <1>10, <1>12, NewestBelowLast DEF StoreInv, LastKnown
  <2>2. Decided /\ plan[active.tx].events = 0 => Newest' = Last'
    BY <1>10, <1>12, NewestBelowLast, Numbers DEF StoreInv, LastKnown
  <2>3. Decided => \A s \in DecidedSeqs : events'[s] \in {0, active.tx}
    <3>1. Decided => \A s \in DecidedSeqs : events[s] \in {0, active.tx}
      BY DEF StoreInv, LastKnown
    <3>2. \A s \in DOMAIN events : events'[s] \in {0, events[s]}
      BY <1>2
    <3>3. DOMAIN events = Seqs
      BY DEF StoreInv, TypeOK
    <3>4. Decided => DecidedSeqs \subseteq Seqs
      <4> SUFFICES ASSUME Decided PROVE DecidedSeqs \subseteq Seqs
        OBVIOUS
      <4>1. active.tx \in Txs /\ active.first >= 1 /\ Last <= MaxSeq
        BY Numbers DEF StoreInv, LastKnown
      <4>2. Last = active.first + plan[active.tx].events - 1
        BY DEF Last
      <4>3. plan[active.tx].events \in Nat /\ active.first \in Nat /\ MaxSeq \in Nat
        BY <4>1, Plans, Numbers
      <4> QED
        BY <4>1, <4>2, <4>3 DEF DecidedSeqs, Seqs
    <3> QED
      BY <3>1, <3>2, <3>3, <3>4
  <2> QED
    BY <1>2, <1>7, <1>12, <2>1, <2>2, <2>3 DEF StoreInv, LastKnown
<1>14. Dense'
  BY <1>2, <1>4, <1>6, <1>7, Numbers DEF StoreInv, Dense
<1>15. Issued'
  BY <1>2, <1>5, Numbers DEF StoreInv, Issued
<1>16. TrimsPrefix'
  BY <1>2, <1>5, <1>6 DEF StoreInv, TrimsPrefix
<1>17. Admitted' /\ PreparedAfresh' /\ RolledUpTo'
  BY <1>5 DEF Admitted, PreparedAfresh, RolledUpTo
<1>18. ReaderKnows' /\ NoSilentGap'
  BY <1>1, <1>2, <1>4, <1>6, Numbers, ReaderUndisturbed
<1>19. \A s \in Seqs : s > floor => events'[s] = events[s]
  <2>1. \A s \in Seqs : s > floor => s # s0
    BY <1>4, Numbers
  <2> QED
    BY <1>5, <2>1
<1> QED
  BY <1>1, <1>12, <1>13, <1>14, <1>15, <1>16, <1>17, <1>18, <1>19 DEF StoreInv

\* An entry the active journal does not name open is nobody's any more.
LEMMA CondemnEntryKeeps ==
    ASSUME StoreInv, CondemnEntry
    PROVE  /\ StoreInv' /\ UNCHANGED <<active, events, records, floor>>
           /\ Decided => plan'[active.tx] = plan[active.tx]
<1>1. TypeOK'
  BY WriterTypes
<1>2. /\ UNCHANGED <<active, events, records, floor, nextTx, writer, readerVars>>
      /\ writer.pc = "free"
  BY DEF CondemnEntry
<1>3. PICK t \in entries :
        /\ ~(active.state = "open" /\ active.tx = t)
        /\ entries' = entries \ {t} /\ plan' = [plan EXCEPT ![t] = NoPlan]
  BY DEF CondemnEntry
<1>4. Decided => /\ active.tx \in entries' /\ plan'[active.tx] = plan[active.tx]
  BY <1>3 DEF StoreInv, LastKnown, TypeOK, Decided
<1>5. Newest' = Newest /\ Published' = Published /\ Decided' = Decided
  BY <1>2 DEF Newest, Published, Decided
<1>6. DecidedSeqs' = DecidedSeqs /\ Last' = Last
  BY <1>2, <1>4, <1>5 DEF DecidedSeqs, Last
<1>7. LastKnown' /\ Dense'
  BY <1>2, <1>4, <1>5, <1>6 DEF StoreInv, LastKnown, Dense
<1>8. Issued' /\ Admitted' /\ PreparedAfresh' /\ RolledUpTo' /\ TrimsPrefix'
  BY <1>2, <1>3 DEF StoreInv, Issued, Admitted, PreparedAfresh, RolledUpTo, TrimsPrefix
<1>9. ReaderKnows' /\ NoSilentGap'
  BY <1>2, <1>5 DEF readerVars, StoreInv, ReaderKnows, NoSilentGap
<1> QED
  BY <1>1, <1>2, <1>4, <1>7, <1>8, <1>9 DEF StoreInv

(***************************************************************************)
(* The theorems.                                                           *)
(***************************************************************************)
\* A fresh store satisfies the invariant.
LEMMA InitEstablishes == Init => StoreInv
<1> SUFFICES ASSUME Init PROVE StoreInv
  OBVIOUS
<1>1. /\ MaxTx \in Nat /\ MaxSeq \in Nat /\ MaxCrashes \in Nat /\ MaxTrims \in Nat
      /\ MaxReads \in Nat
  BY StoreBoundsAssumption
<1>2. /\ active = Idle /\ writer = Free /\ floor = 0 /\ events = [s \in Seqs |-> 0]
      /\ reader = [pc |-> "idle", cursor |-> 0, ceiling |-> 0, names |-> {}, page |-> {}]
      /\ entries = {} /\ records = [k \in Keys |-> 0] /\ nextTx = 1 /\ told = 0
  BY DEF Init
<1>3. Published = {} /\ Newest = 0 /\ ~Decided
  BY <1>2 DEF Published, Newest, Decided, Idle
<1>4. active \in [state : {"idle", "open"}, tx : 0 .. MaxTx, first : 0 .. MaxSeq + 1]
  BY <1>1, <1>2 DEF Idle
<1>5. plan \in [Txs -> Planned]
  BY <1>1 DEF Init, NoPlan, Planned
<1>6. writer \in WriterAt /\ writer.pc = "free"
  BY <1>1, <1>2 DEF Free, WriterAt
<1>7. reader \in ReaderAt
  BY <1>1, <1>2 DEF ReaderAt
<1>8. TypeOK
  BY <1>1, <1>4, <1>5, <1>6, <1>7 DEF Init, TypeOK, Planned, WriterAt, ReaderAt
<1>9. Issued
  BY <1>2 DEF Issued
<1>10. LastKnown /\ Dense
  BY <1>2, <1>3 DEF LastKnown, Dense, Last
<1>11. Admitted /\ PreparedAfresh /\ RolledUpTo /\ TrimsPrefix
  BY <1>6 DEF Admitted, PreparedAfresh, RolledUpTo, TrimsPrefix
<1>12. ReaderKnows /\ NoSilentGap
  BY <1>2 DEF ReaderKnows, NoSilentGap
<1> QED
  BY <1>8, <1>9, <1>10, <1>11, <1>12 DEF StoreInv

\* Every step of a writer, every kill and every read keeps the invariant.
LEMMA NextPreserves == StoreInv /\ [Next]_vars => StoreInv'
<1> SUFFICES ASSUME StoreInv, [Next]_vars PROVE StoreInv'
  OBVIOUS
<1>1. CASE \E resume \in {"callback", "free"} : Begin(resume)
  BY <1>1, BeginKeeps
<1>2. CASE Roll
  <2>1. CASE writer.pos <= plan[active.tx].events
    BY <1>2, <2>1, RollEventKeeps
  <2>2. CASE ~(writer.pos <= plan[active.tx].events)
    BY <1>2, <2>2, RollRecordKeeps
  <2> QED
    BY <2>1, <2>2
<1>3. CASE Retire
  BY <1>3, RetireKeeps
<1>4. CASE CommitNothing \/ TrimEnd \/ Crash
  BY <1>4, LeaveKeeps
<1>5. CASE CommitDirect
  BY <1>5, CommitDirectKeeps
<1>6. CASE Prepare
  BY <1>6, PrepareKeeps
<1>7. CASE Activate
  BY <1>7, ActivateKeeps
<1>8. CASE TrimRaise
  BY <1>8, TrimRaiseKeeps
<1>9. CASE TrimRemove
  BY <1>9, TrimRemoveKeeps
<1>10. CASE CondemnEntry
  BY <1>10, CondemnEntryKeeps
<1>11. CASE ReaderStep
  BY <1>11, ReaderKeeps
<1>12. CASE UNCHANGED vars
  <2>1. UNCHANGED <<disk, nextTx, readerVars>> /\ UNCHANGED <<writer, counters>>
    BY <1>12 DEF vars
  <2>2. TypeOK'
    BY <2>1 DEF disk, counters, readerVars, StoreInv, TypeOK
  <2>3. Admitted' /\ PreparedAfresh' /\ RolledUpTo' /\ TrimsPrefix'
    BY <2>1 DEF disk, StoreInv, Admitted, PreparedAfresh, RolledUpTo, TrimsPrefix, Newest, Published
  <2> QED
    BY <2>1, <2>2, <2>3, DiskKept DEF StoreInv
<1> QED
  BY <1>1, <1>2, <1>3, <1>4, <1>5, <1>6, <1>7, <1>8, <1>9, <1>10, <1>11, <1>12
  DEF Next, WriterStep

\* The inductive invariant holds in every reachable state.
THEOREM StoreInvariant == Spec => []StoreInv
  BY InitEstablishes, NextPreserves, PTL DEF Spec

\* The files of the store, its writer and its reader are typed.
THEOREM StoreTypeCorrect == Spec => []TypeOK
<1>1. StoreInv => TypeOK
  BY DEF StoreInv
<1> QED
  BY <1>1, StoreInvariant, PTL

\* A reader that missed an event has been told of a boundary at or above it.
THEOREM GapsTold == Spec => []NoSilentGap
<1>1. StoreInv => NoSilentGap
  BY DEF StoreInv
<1> QED
  BY <1>1, StoreInvariant, PTL

\* A decided transaction can be completed: its entry is there and no event name
\* of its own is taken.
THEOREM Recoverable == Spec => []OpenJournalRecoverable
<1>1. StoreInv => OpenJournalRecoverable
  BY DEF StoreInv, LastKnown, OpenJournalRecoverable
<1> QED
  BY <1>1, StoreInvariant, PTL

(***************************************************************************)
(* The refinement: what callers see of the records and of the log.         *)
(***************************************************************************)
SeenRecs == [k \in Keys |-> IF Decided /\ k \in Range(plan[active.tx].writes)
                            THEN active.tx ELSE records[k]]

SeenLog == [s \in Seqs |-> IF s <= floor THEN 0
                           ELSE IF s \in DecidedSeqs THEN active.tx ELSE events[s]]

\* The newest number a caller sees is Last.
LEMMA LastSeen == StoreInv => Max({Newest} \cup DecidedSeqs) = Last
<1> SUFFICES ASSUME StoreInv PROVE Max({Newest} \cup DecidedSeqs) = Last
  OBVIOUS
<1> DEFINE T == {Newest} \cup DecidedSeqs
<1>1. Newest <= Last /\ Last \in Nat /\ Newest \in Nat
  BY NewestBelowLast, Numbers
<1>2. Last \in T /\ \A s \in T : s \in Nat /\ s <= Last
  <2>1. CASE ~Decided
    BY <1>1, <2>1 DEF DecidedSeqs, Last
  <2>2. CASE Decided
    <3>1. active.tx \in Txs /\ active.first >= 1 /\ active.first \in Nat
      BY <2>2, Numbers DEF StoreInv, LastKnown
    <3>2. plan[active.tx].events \in Nat
      BY <3>1, Plans
    <3>3. DecidedSeqs = active.first .. Last /\ Last = active.first + plan[active.tx].events - 1
      BY <2>2 DEF DecidedSeqs, Last
    <3>4. Last \in T
      <4>1. CASE plan[active.tx].events = 0
        BY <2>2, <4>1 DEF StoreInv, LastKnown
      <4>2. CASE plan[active.tx].events # 0
        BY <3>1, <3>2, <3>3, <4>2, SMTT(30)
      <4> QED
        BY <4>1, <4>2
    <3> QED
      BY <1>1, <3>1, <3>3, <3>4
  <2> QED
    BY <2>1, <2>2
<1> HIDE DEF T
<1>3. T \in SUBSET (0 .. Last) /\ T # {}
  BY <1>1, <1>2
<1>4. Max(T) \in T /\ \A k \in T : k <= Max(T)
  BY <1>1, <1>3, Greatest
<1>5. Max(T) = Last
  <2>1. Max(T) \in Nat /\ Max(T) <= Last /\ Last <= Max(T)
    BY <1>2, <1>4
  <2> QED
    BY <1>1, <2>1
<1> QED
  BY <1>5 DEF T

\* The same after the step.
LEMMA LastSeenNext == StoreInv' => (Max({Newest} \cup DecidedSeqs) = Last)'
  BY LastSeen, PTL

\* A step that changes nothing a caller sees.
LEMMA Unseen ==
    ASSUME StoreInv, StoreInv', SeenRecs' = SeenRecs, SeenLog' = SeenLog, Last' = Last,
           floor' = floor
    PROVE  UNCHANGED Store!storeVars
<1>1. UNCHANGED Max({Newest} \cup DecidedSeqs)
  BY LastSeen, LastSeenNext
<1> QED
  BY <1>1 DEF Store!storeVars, SeenRecs, SeenLog

\* Publishing an event of the open transaction is not seen.
LEMMA RollEventUnseen ==
    ASSUME StoreInv, StoreInv', Roll, writer.pos <= plan[active.tx].events
    PROVE  UNCHANGED Store!storeVars
<1> DEFINE s0 == active.first + writer.pos - 1
<1>1. /\ UNCHANGED <<active, plan, floor, records>> /\ writer.pc = "roll"
      /\ events' = [events EXCEPT ![s0] = IF @ = 0 THEN active.tx ELSE @]
  BY Rolling DEF Roll
<1>2. s0 \in DecidedSeqs /\ DecidedSeqs \subseteq Seqs
  <2>1. s0 \in active.first .. Last
    BY <1>1, Rolling
  <2> QED
    BY <1>1, <2>1, Rolling
<1> HIDE DEF s0
<1>3. \A s \in Seqs : s \notin DecidedSeqs => events'[s] = events[s]
  BY <1>1, <1>2 DEF StoreInv, TypeOK
<1>4. Decided' = Decided /\ DecidedSeqs' = DecidedSeqs /\ Last' = Last
  BY <1>1, Rolling DEF Decided, DecidedSeqs, Last
<1>5. SeenLog' = SeenLog
  BY <1>1, <1>3, <1>4 DEF SeenLog
<1>6. SeenRecs' = SeenRecs
  BY <1>1, <1>4 DEF SeenRecs
<1> QED
  BY <1>1, <1>4, <1>5, <1>6, Unseen

\* Nor is publishing a record of it.
LEMMA RollRecordUnseen ==
    ASSUME StoreInv, StoreInv', Roll, ~(writer.pos <= plan[active.tx].events)
    PROVE  UNCHANGED Store!storeVars
<1> DEFINE j0 == writer.pos - plan[active.tx].events
           k0 == plan[active.tx].writes[j0]
<1>1. /\ UNCHANGED <<active, plan, floor, events>> /\ writer.pc = "roll"
      /\ records' = [records EXCEPT ![k0] = active.tx]
      /\ writer.pos <= plan[active.tx].events + Len(plan[active.tx].writes)
  BY Rolling DEF Roll, Publications
<1>2. k0 \in Range(plan[active.tx].writes)
  <2>1. j0 \in DOMAIN plan[active.tx].writes
    BY <1>1, Rolling, Plans
  <2> QED
    BY <2>1 DEF Range
<1> HIDE DEF j0, k0
<1>3. \A k \in Keys : k \notin Range(plan[active.tx].writes) => records'[k] = records[k]
  BY <1>1, <1>2 DEF StoreInv, TypeOK
<1>4. Decided /\ Decided' /\ DecidedSeqs' = DecidedSeqs /\ Last' = Last
  BY <1>1, Rolling DEF Decided, DecidedSeqs, Last
<1>5. SeenRecs' = SeenRecs
  BY <1>1, <1>3, <1>4 DEF SeenRecs
<1>6. SeenLog' = SeenLog
  BY <1>1, <1>4 DEF SeenLog
<1> QED
  BY <1>1, <1>4, <1>5, <1>6, Unseen

\* When the journal goes idle what counted as done is done.
LEMMA RetireUnseen ==
    ASSUME StoreInv, StoreInv', Retire
    PROVE  UNCHANGED Store!storeVars
<1>1. /\ UNCHANGED <<plan, events, records, floor>>
      /\ active' = Idle /\ writer.pc = "roll"
      /\ writer.pos > plan[active.tx].events + Len(plan[active.tx].writes)
  BY Rolling DEF Retire, Publications
<1>2. Decided /\ ~Decided' /\ DecidedSeqs' = {}
  BY <1>1, Rolling DEF Decided, DecidedSeqs, Idle
<1>3. Last' = Last
  BY RetireKeeps
<1>4. Len(plan[active.tx].writes) \in Nat /\ plan[active.tx].writes \in Seq(Keys)
  BY <1>1, Rolling, Plans
<1>5. ASSUME NEW s \in DecidedSeqs PROVE events[s] = active.tx
  <2> DEFINE i == s - active.first + 1
  <2>1. /\ s \in active.first .. active.first + plan[active.tx].events - 1
        /\ active.first \in Nat /\ plan[active.tx].events \in Nat /\ writer.pos \in Nat
        /\ writer.pos > plan[active.tx].events
    <3>1. DecidedSeqs = active.first .. active.first + plan[active.tx].events - 1
      BY <1>2 DEF DecidedSeqs
    <3> QED
      BY <1>1, <1>4, <3>1, Rolling
  <2>2. i \in 1 .. writer.pos - 1 /\ i <= plan[active.tx].events /\ s = active.first + i - 1
    BY <2>1
  <2> QED
    BY <1>1, <2>2 DEF StoreInv, RolledUpTo
<1>6. ASSUME NEW k \in Range(plan[active.tx].writes) PROVE records[k] = active.tx
  <2>1. PICK j \in DOMAIN plan[active.tx].writes : k = plan[active.tx].writes[j]
    BY <1>6 DEF Range
  <2>2. j \in 1 .. Len(plan[active.tx].writes)
    BY <1>4, <2>1
  <2>3. plan[active.tx].events + j \in 1 .. writer.pos - 1
    <3>1. /\ plan[active.tx].events \in Nat /\ writer.pos \in Nat
          /\ writer.pos > plan[active.tx].events + Len(plan[active.tx].writes)
      BY <1>1, Rolling
    <3> QED
      BY <1>4, <2>2, <3>1, SMTT(30)
  <2> QED
    BY <1>1, <2>1, <2>2, <2>3 DEF StoreInv, RolledUpTo
<1>7. SeenRecs' = SeenRecs
  BY <1>1, <1>2, <1>6 DEF SeenRecs
<1>8. SeenLog' = SeenLog
  BY <1>1, <1>2, <1>5 DEF SeenLog
<1> QED
  BY <1>1, <1>3, <1>7, <1>8, Unseen

\* The decision is the instant at which a transaction takes effect.
LEMMA ActivateCommits ==
    ASSUME StoreInv, StoreInv', Activate
    PROVE  Store!Next
<1> DEFINE t == writer.tx
           n == plan[writer.tx].events
           W == Range(plan[writer.tx].writes)
<1>1. /\ UNCHANGED <<plan, events, records, floor>>
      /\ active' = [state |-> "open", tx |-> t, first |-> plan[t].first]
      /\ writer.pc = "prepared"
  BY DEF Activate
<1>2. /\ t \in Txs /\ ~Decided /\ Decided' /\ plan[t].first = Newest + 1
      /\ Newest + n <= MaxSeq
      /\ (\A s \in Seqs : events[s] # t) /\ \A k \in Keys : records[k] # t
  BY <1>1, Numbers DEF StoreInv, PreparedAfresh, Decided
<1>3. n \in Nat /\ Newest \in Nat /\ floor \in Nat /\ MaxSeq \in Nat /\ t # 0
      /\ plan[t].writes \in Seq(Keys)
  <2>1. Newest \in Nat /\ floor \in Nat /\ MaxSeq \in Nat /\ MaxTx \in Nat
    BY Numbers
  <2>2. n \in Nat /\ plan[t].writes \in Seq(Keys)
    BY <1>2, Plans
  <2>3. t # 0
    BY <1>2, <2>1 DEF Txs
  <2> QED
    BY <2>1, <2>2, <2>3
<1>4. n \in 0 .. MaxSeq
  BY <1>2, <1>3
<1>5. W \in SUBSET Keys
  BY <1>3 DEF Range
<1>6. Last = Newest /\ DecidedSeqs = {}
  BY <1>2 DEF Last, DecidedSeqs
<1>7. DecidedSeqs' = Newest + 1 .. Newest + n
  <2>1. DecidedSeqs' = Newest + 1 .. Newest + 1 + n - 1
    BY <1>1, <1>2 DEF DecidedSeqs
  <2> QED
    BY <1>3, <2>1, SMTT(30)
<1>8. Last' = Newest + n
  <2>1. Last' = Newest + 1 + n - 1
    BY <1>1, <1>2 DEF Last
  <2>2. Newest + 1 + n - 1 = Newest + n
    <3> HIDE DEF n
    <3> QED
      BY <1>3
  <2> QED
    BY <2>1, <2>2
<1>9. Max({Newest} \cup DecidedSeqs) = Newest /\ Max({Newest} \cup DecidedSeqs)' = Newest + n
  BY <1>6, <1>8, LastSeen, LastSeenNext
<1>10. SeenRecs = records /\ \A k \in Keys : SeenRecs[k] # t
  BY <1>2 DEF SeenRecs, StoreInv, TypeOK
<1>11. \A s \in Seqs : SeenLog[s] # t
  BY <1>2, <1>3, <1>6 DEF SeenLog
<1>12. SeenRecs' = [k \in Keys |-> IF k \in W THEN t ELSE SeenRecs[k]]
  BY <1>1, <1>2, <1>10 DEF SeenRecs
<1>13. SeenLog' = [s \in Seqs |-> IF s \in Newest + 1 .. Newest + n THEN t ELSE SeenLog[s]]
  <2>1. floor <= Newest
    BY <1>6 DEF StoreInv, LastKnown
  <2>2. \A s \in Seqs : s <= floor => s \notin Newest + 1 .. Newest + n
    BY <1>3, <2>1, Numbers
  <2> QED
    BY <1>1, <1>2, <1>6, <1>7, <2>2 DEF SeenLog
<1>14. Store!Commit(t, W, n)
  BY <1>1, <1>2, <1>9, <1>10, <1>11, <1>12, <1>13
  DEF Store!Commit, Store!Seqs, Seqs, SeenRecs, SeenLog
<1> HIDE DEF t, n, W
<1>15. t \in Store!Txs
  BY <1>2 DEF Store!Txs, Txs
<1>16. PICK t1 \in Store!Txs, W1 \in SUBSET Keys, n1 \in 0 .. MaxSeq : t1 = t /\ W1 = W /\ n1 = n
  BY <1>4, <1>5, <1>15
<1>17. Store!Commit(t1, W1, n1)
  BY <1>14, <1>16 DEF Store!Commit
<1> QED
  BY <1>17 DEF Store!Next

\* A record published by itself is a transaction of its own.
LEMMA CommitDirectCommits ==
    ASSUME StoreInv, StoreInv', CommitDirect
    PROVE  Store!Next
<1>1. UNCHANGED <<active, plan, events, floor>> /\ writer.pc = "callback"
  BY DEF CommitDirect
<1>2. PICK k0 \in DirectKeys : records' = [records EXCEPT ![k0] = nextTx]
  BY DEF CommitDirect
<1>3. /\ nextTx \in Txs /\ ~Decided /\ ~Decided' /\ k0 \in Keys
      /\ (\A s \in Seqs : events[s] # nextTx) /\ \A k \in Keys : records[k] # nextTx
  <2>1. nextTx \in Txs /\ ~Decided /\ ~Decided'
    BY <1>1, Numbers DEF StoreInv, TypeOK, Admitted, PreparedAfresh, Decided, Txs
  <2>2. (\A s \in Seqs : events[s] # nextTx) /\ \A k \in Keys : records[k] # nextTx
    BY Numbers DEF StoreInv, Issued
  <2> QED
    BY <2>1, <2>2, StorePlansAssumption
<1>4. Newest' = Newest /\ DecidedSeqs = {} /\ DecidedSeqs' = {} /\ Last' = Newest /\ Last = Newest
  BY <1>1, <1>3 DEF Newest, Published, DecidedSeqs, Last
<1>5. Newest \in Nat /\ MaxSeq \in Nat /\ Newest <= MaxSeq /\ nextTx # 0
  <2>1. Newest \in 0 .. MaxSeq
    BY NewestKnown DEF StoreInv, NewestIsGreatest
  <2> QED
    BY <1>3, <2>1, Numbers DEF Txs
<1>6. Max({Newest} \cup DecidedSeqs) = Newest /\ Max({Newest} \cup DecidedSeqs)' = Newest
  BY <1>4, LastSeen, LastSeenNext
<1>7. /\ SeenRecs = records /\ (\A k \in Keys : SeenRecs[k] # nextTx)
      /\ SeenRecs' = [k \in Keys |-> IF k \in {k0} THEN nextTx ELSE SeenRecs[k]]
  BY <1>1, <1>2, <1>3 DEF SeenRecs, StoreInv, TypeOK
<1>8. \A s \in Seqs : SeenLog[s] # nextTx
  BY <1>3, <1>4, <1>5 DEF SeenLog
<1>9. SeenLog' = [s \in Seqs |-> IF s \in Newest + 1 .. Newest + 0 THEN nextTx ELSE SeenLog[s]]
  <2>1. Newest + 1 .. Newest + 0 = {}
    BY <1>5
  <2>2. SeenLog' = SeenLog
    BY <1>1, <1>4 DEF SeenLog
  <2> QED
    BY <2>1, <2>2 DEF SeenLog
<1>10. Newest + 0 = Newest
  BY <1>5
<1>11. Store!Commit(nextTx, {k0}, 0)
  BY <1>1, <1>5, <1>6, <1>7, <1>8, <1>9, <1>10
  DEF Store!Commit, Store!Seqs, Seqs, SeenRecs, SeenLog
<1> QED
  BY <1>3, <1>5, <1>11 DEF Store!Next, Store!Txs, Txs

\* A trim cuts the log when it raises the floor.
LEMMA TrimRaiseTrims ==
    ASSUME StoreInv, StoreInv', TrimRaise
    PROVE  Store!Next \/ UNCHANGED Store!storeVars
<1>1. UNCHANGED <<active, plan, events, records>>
  BY DEF TrimRaise
<1>2. Last' = Last /\ floor <= floor' /\ floor' \in {floor} \cup Seqs
  BY TrimRaiseKeeps
<1>3. Decided' = Decided /\ DecidedSeqs' = DecidedSeqs
  BY <1>1 DEF Decided, DecidedSeqs
<1>4. SeenRecs' = SeenRecs
  BY <1>1, <1>3 DEF SeenRecs
<1>5. CASE floor' = floor
  <2>1. SeenLog' = SeenLog
    BY <1>1, <1>3, <1>5 DEF SeenLog
  <2> QED
    BY <1>2, <1>4, <1>5, <2>1, Unseen
<1>6. CASE floor' # floor
  <2>1. floor' \in Seqs /\ floor' > floor /\ floor' <= Last
    <3>1. floor' \in Seqs /\ floor' \in Nat /\ floor \in Nat
      BY <1>2, <1>6, Numbers
    <3>2. floor' <= Last'
      BY DEF StoreInv, LastKnown
    <3> QED
      BY <1>2, <1>6, <3>1, <3>2
  <2>2. SeenLog' = [s \in Seqs |-> IF s <= floor' THEN 0 ELSE SeenLog[s]]
    <3>1. \A s \in Seqs : ~(s <= floor') => ~(s <= floor)
      BY <1>2, <2>1, Numbers
    <3> QED
      BY <1>1, <1>3, <3>1 DEF SeenLog
  <2>3. Max({Newest} \cup DecidedSeqs) = Last /\ Max({Newest} \cup DecidedSeqs)' = Last
    BY <1>2, LastSeen, LastSeenNext
  <2>4. Store!Trim(floor')
    BY <1>4, <2>1, <2>2, <2>3 DEF Store!Trim, Store!Seqs, Seqs, SeenRecs, SeenLog
  <2>5. floor' \in Store!Seqs
    BY <2>1 DEF Store!Seqs, Seqs
  <2>6. PICK boundary \in Store!Seqs : boundary = floor'
    BY <2>5
  <2>7. Store!Trim(boundary)
    BY <2>4, <2>6 DEF Store!Trim
  <2> QED
    BY <2>7 DEF Store!Next
<1> QED
  BY <1>5, <1>6

\* Every step is a step of AtomicStore or is not seen.
LEMMA StepRefines ==
    ASSUME StoreInv, StoreInv', [Next]_vars
    PROVE  [Store!Next]_(Store!storeVars)
<1>1. CASE Roll
  BY <1>1, RollEventUnseen, RollRecordUnseen
<1>2. CASE Retire
  BY <1>2, RetireUnseen
<1>3. CASE Activate
  BY <1>3, ActivateCommits
<1>4. CASE CommitDirect
  BY <1>4, CommitDirectCommits
<1>5. CASE TrimRaise
  BY <1>5, TrimRaiseTrims
<1>6. CASE TrimRemove
  <2>1. UNCHANGED <<active, plan, records, floor>>
    BY <1>6 DEF TrimRemove
  <2>2. Decided' = Decided /\ DecidedSeqs' = DecidedSeqs
    BY <2>1 DEF Decided, DecidedSeqs
  <2>3. SeenRecs' = SeenRecs
    BY <2>1, <2>2 DEF SeenRecs
  <2>4. \A s \in Seqs : ~(s <= floor) => events'[s] = events[s]
    BY <1>6, TrimRemoveKeeps, Numbers
  <2>5. SeenLog' = SeenLog
    BY <2>1, <2>2, <2>4 DEF SeenLog
  <2> QED
    BY <1>6, <2>1, <2>3, <2>5, TrimRemoveKeeps, Unseen
<1>7. CASE Prepare
  <2>1. UNCHANGED <<active, events, records, floor>> /\ writer.pc = "callback"
    BY <1>7 DEF Prepare
  <2>2. ~Decided /\ ~Decided' /\ DecidedSeqs = {} /\ DecidedSeqs' = {} /\ Newest' = Newest
    BY <2>1 DEF StoreInv, PreparedAfresh, Decided, DecidedSeqs, Newest, Published
  <2>3. SeenRecs' = SeenRecs /\ SeenLog' = SeenLog /\ Last' = Last
    BY <2>1, <2>2 DEF SeenRecs, SeenLog, Last
  <2> QED
    BY <2>1, <2>3, Unseen
<1>8. CASE CondemnEntry
  <2>1. /\ UNCHANGED <<active, events, records, floor>>
        /\ Decided => plan'[active.tx] = plan[active.tx]
    BY <1>8, CondemnEntryKeeps
  <2>2. Decided' = Decided /\ DecidedSeqs' = DecidedSeqs /\ Newest' = Newest
    BY <2>1 DEF Decided, DecidedSeqs, Newest, Published
  <2>3. SeenRecs' = SeenRecs /\ SeenLog' = SeenLog /\ Last' = Last
    BY <2>1, <2>2 DEF SeenRecs, SeenLog, Last
  <2> QED
    BY <2>1, <2>3, Unseen
<1>9. CASE UNCHANGED disk
  <2>1. SeenRecs' = SeenRecs /\ SeenLog' = SeenLog /\ Last' = Last /\ floor' = floor
    BY <1>9 DEF disk, SeenRecs, SeenLog, Last, Decided, DecidedSeqs, Newest, Published
  <2> QED
    BY <2>1, Unseen
<1>10. CASE \/ \E resume \in {"callback", "free"} : Begin(resume)
            \/ CommitNothing \/ TrimEnd \/ Crash \/ ReaderStep \/ UNCHANGED vars
  BY <1>9, <1>10 DEF Begin, CommitNothing, TrimEnd, Crash, ReaderStep, ReadCeiling, ListEvents,
     ReadEvent, ReadFloor, vars
<1> QED
  BY <1>1, <1>2, <1>3, <1>4, <1>5, <1>6, <1>7, <1>8, <1>10 DEF Next, WriterStep

\* The store does what AtomicStore promises, whatever writer is killed wherever.
THEOREM StoreRefines == Spec => ImplementsAtomicStore
<1>1. Init => Store!Init
  <2> SUFFICES ASSUME Init PROVE Store!Init
    OBVIOUS
  <2>1. ~Decided /\ DecidedSeqs = {} /\ Published = {} /\ Newest = 0 /\ floor = 0
    BY DEF Init, Idle, Decided, DecidedSeqs, Published, Newest
  <2>2. Max({Newest} \cup DecidedSeqs) = 0
    BY <2>1, InitEstablishes, LastSeen DEF Last
  <2> QED
    BY <2>1, <2>2 DEF Init, Store!Init, Store!Seqs, Seqs
<1>2. StoreInv /\ StoreInv' /\ [Next]_vars => [Store!Next]_(Store!storeVars)
  BY StepRefines
<1> QED
  BY <1>1, <1>2, StoreInvariant, PTL DEF Spec, ImplementsAtomicStore, Store!Spec

(***************************************************************************)
(* The index cache.  The inductive invariant.                              *)
(***************************************************************************)
\* The journal as it is, and an answer.
Journals == [gen : Nat, entry : Maybe(Entries)]
Answers == [tuple : Tuples, refused : BOOLEAN, ids : SUBSET Receipts]

\* Every variable has its type.
CacheTyped ==
    /\ version \in {7, 8}
    /\ journal \in Journals
    /\ primary \in [Receipts -> States]
    /\ manifest \in Maybe(Manifests) /\ pages \in SUBSET Pages /\ progress \in Maybe(Marks)
    /\ kept \in Maybe(Memories) /\ holder \in Maybe(Holders)
    /\ answer \in Maybe(Answers)
    /\ mishaps \in 0 .. MaxMishaps /\ passes \in 0 .. MaxPasses

\* No note is written as retrieved without its message's obligation.
Settled(recs) == \A r \in Notes \intersect DOMAIN recs : recs[r] # "seen"

\* A tree of the journal's generation files the records as they are.
Describes(d, j, p) ==
    d # None =>
        /\ d.gen <= j.gen
        /\ d.gen = j.gen => j.entry = None /\ Settled(p) /\ d.root = Filed(p)

\* So do both trees a store remembers.
Remembers(m, j, p) == Describes(m.validated, j, p) /\ Describes(m.unpublished, j, p)

\* The manifest describes the records, and so does what the stores remember.
TreesDescribe ==
    /\ Describes(manifest, journal, primary)
    /\ kept # None => Remembers(kept, journal, primary)
    /\ holder # None => Remembers(holder.memory, journal, primary)

\* A store of contract 8 has no note left that contract 7 retrieved, and every
\* job is one its version admits.
VersionsRespected ==
    /\ version = 8 => Settled(primary) /\ (journal.entry # None => Settled(journal.entry))
    /\ holder # None =>
           /\ holder.job = "contract7" => version = 7
           /\ holder.job \in {"transaction", "prune", "reclaim"} => version = 8
           /\ holder.job # "contract7" => Settled(holder.staged)

\* What the steps of a job have behind them.
StepsReached ==
    holder # None =>
        /\ holder.step = "indexed" =>
               holder.job = "migration" /\ Settled(primary) /\ journal.entry = None
        /\ holder.step \in {"fenced", "pruning"} => holder.job = "prune" /\ journal.entry # None
        /\ holder.step = "decided" =>
               /\ holder.job \in {"transaction", "contract7"}
               /\ journal.entry = holder.staged /\ journal.gen = holder.before + 1
               /\ holder.deltas = Deltas(holder.staged, primary)
               /\ manifest # None /\ manifest.gen = holder.before =>
                      manifest.root = Filed(primary)
        /\ holder.step = "applied" =>
               /\ holder.job = "transaction"
               /\ journal.entry = None /\ journal.gen = holder.before + 2
               /\ manifest # None /\ manifest.gen = holder.before =>
                      Applied(manifest.root, holder.deltas) = Filed(primary)

\* What a marked page names is marked or about to be.
Traced(marks) ==
    \A page \in marks.visited : Children(page) \subseteq marks.visited \union marks.pending

\* The marks of a pass, and those that the last one left.
MarksClosed ==
    /\ progress # None => Traced(progress)
    /\ holder # None /\ holder.marks # None =>
           /\ holder.job = "reclaim" /\ holder.step = "mark" /\ manifest # None
           /\ Traced(holder.marks)
           /\ RootPages(manifest.root) \subseteq holder.marks.visited \union holder.marks.pending

\* An answer is of the transaction that is open.
AnswerOpen ==
    answer # None =>
        /\ holder # None /\ holder.job = "transaction" /\ holder.step = "opened"
        /\ journal.entry = None

\* The inductive invariant.
CacheInv ==
    /\ CacheTyped /\ TreesDescribe /\ VersionsRespected /\ StepsReached /\ MarksClosed
    /\ AnswerOpen /\ LookupExact

(***************************************************************************)
(* Entries, trees and pages.                                               *)
(***************************************************************************)
\* None is no record, no memory and no process.
LEMMA NoneIsNothing ==
    None \notin Entries /\ None \notin Memories /\ None \notin Holders
  BY CacheAssumption

\* An entry is a function from some of the receipts.
LEMMA EntryIs ==
    ASSUME NEW e \in Entries
    PROVE  /\ DOMAIN e \subseteq Receipts
           /\ \A r \in DOMAIN e : e[r] \in States
  BY DEF Entries

\* One staged record, and none, are entries.
LEMMA EntriesMade ==
    /\ Nothing \in Entries /\ DOMAIN Nothing = {}
    /\ \A r \in Receipts : \A f \in [{r} -> States] : f \in Entries /\ DOMAIN f = {r}
  <1>1. [{} -> States] \subseteq Entries
    BY DEF Entries
  <1>2. Nothing \in [{} -> States]
    BY DEF Nothing
  <1>3. ASSUME NEW r \in Receipts PROVE [{r} -> States] \subseteq Entries
    <2>1. {r} \in SUBSET Receipts
      OBVIOUS
    <2> QED
      BY <2>1 DEF Entries
  <1> QED
    BY <1>1, <1>2, <1>3

\* The keys of a receipt are tuples; a receipt that is absent has none, and a
\* note that was settled is not listed as retrieved.
LEMMA KeysAre ==
    ASSUME NEW r, NEW s \in States
    PROVE  /\ KeysFor(r, s) \subseteq Tuples
           /\ KeysFor(r, "absent") = {}
           /\ r \in Notes /\ s # "seen" => "retrieved" \notin KeysFor(r, s)
  BY DEF KeysFor, Tuples, States

\* What is filed is a tree.
LEMMA FiledIs ==
    ASSUME NEW p
    PROVE  /\ Filed(p) \in Trees
           /\ \A t \in Tuples : Filed(p)[t] = {r \in Receipts : t \in KeysFor(r, p[r])}
  BY DEF Filed, Trees

\* Records laid over others are records, and nothing laid over them changes none.
LEMMA OverIs ==
    ASSUME NEW p \in [Receipts -> States], NEW e \in Entries
    PROVE  /\ Over(e, p) \in [Receipts -> States]
           /\ \A r \in Receipts : Over(e, p)[r] = IF r \in DOMAIN e THEN e[r] ELSE p[r]
  BY EntryIs DEF Over

\* The deltas of an entry are deltas.
LEMMA DeltasAre ==
    ASSUME NEW p \in [Receipts -> States], NEW e \in Entries
    PROVE  /\ Deltas(e, p) \in SUBSET [tuple : Tuples, id : Receipts, put : BOOLEAN]
           /\ \A d \in Deltas(e, p) :
                 d.id \in DOMAIN e /\ (d.put <=> d.tuple \in KeysFor(d.id, e[d.id]))
           /\ \A t \in Tuples, r \in DOMAIN e :
                 (t \in KeysFor(r, p[r])) # (t \in KeysFor(r, e[r])) =>
                     \E d \in Deltas(e, p) : d.tuple = t /\ d.id = r
  <1>0. /\ DOMAIN e \subseteq Receipts
        /\ \A r \in DOMAIN e : KeysFor(r, p[r]) \subseteq Tuples /\ KeysFor(r, e[r]) \subseteq Tuples
    BY EntryIs, KeysAre
  <1> DEFINE D == UNION {(KeysFor(r, p[r]) \ KeysFor(r, e[r]))
                             \union (KeysFor(r, e[r]) \ KeysFor(r, p[r])) : r \in DOMAIN e}
  <1>1. D \subseteq Tuples
    BY <1>0
  <1>2. Deltas(e, p) = {[tuple |-> t, id |-> r, put |-> t \in KeysFor(r, e[r])] :
                           t \in D, r \in DOMAIN e}
    BY DEF Deltas
  <1>3. ASSUME NEW t \in Tuples, NEW r \in DOMAIN e,
               (t \in KeysFor(r, p[r])) # (t \in KeysFor(r, e[r]))
        PROVE  t \in D
    BY <1>3
  <1> HIDE DEF D
  <1>4. ASSUME NEW d \in Deltas(e, p)
        PROVE  /\ d \in [tuple : Tuples, id : Receipts, put : BOOLEAN]
               /\ d.id \in DOMAIN e /\ (d.put <=> d.tuple \in KeysFor(d.id, e[d.id]))
    <2>1. PICK t \in D, r \in DOMAIN e :
              d = [tuple |-> t, id |-> r, put |-> t \in KeysFor(r, e[r])]
      BY <1>2
    <2> DEFINE b == t \in KeysFor(r, e[r])
    <2>2. b \in BOOLEAN /\ (b <=> t \in KeysFor(r, e[r])) /\ d = [tuple |-> t, id |-> r, put |-> b]
      BY <2>1
    <2> HIDE DEF b
    <2>3. d.tuple = t /\ d.id = r /\ d.put = b
      BY <2>2
    <2>4. d \in [tuple : Tuples, id : Receipts, put : BOOLEAN]
      BY <2>2, <1>0, <1>1
    <2>5. d.id \in DOMAIN e
      BY <2>3
    <2>6. d.put <=> d.tuple \in KeysFor(d.id, e[d.id])
      BY <2>2, <2>3
    <2> QED
      BY <2>4, <2>5, <2>6
  <1>5. ASSUME NEW t \in Tuples, NEW r \in DOMAIN e,
               (t \in KeysFor(r, p[r])) # (t \in KeysFor(r, e[r]))
        PROVE  \E d \in Deltas(e, p) : d.tuple = t /\ d.id = r
    <2>1. [tuple |-> t, id |-> r, put |-> t \in KeysFor(r, e[r])] \in Deltas(e, p)
      BY <1>2, <1>3, <1>5
    <2> QED
      BY <2>1
  <1> QED
    BY <1>4, <1>5

\* Deltas applied to the tree of the old records make the tree of the new ones.
LEMMA DeltasApply ==
    ASSUME NEW p \in [Receipts -> States], NEW e \in Entries
    PROVE  Applied(Filed(p), Deltas(e, p)) = Filed(Over(e, p))
  <1> DEFINE D == Deltas(e, p)
             Gone(t) == {d.id : d \in {c \in D : c.tuple = t /\ ~c.put}}
             Come(t) == {d.id : d \in {c \in D : c.tuple = t /\ c.put}}
  <1>1. ASSUME NEW t \in Tuples, NEW r \in Receipts
        PROVE  r \in (Filed(p)[t] \ Gone(t)) \union Come(t) <=> r \in Filed(Over(e, p))[t]
    <2>0. /\ r \in Filed(p)[t] <=> t \in KeysFor(r, p[r])
          /\ r \in Filed(Over(e, p))[t] <=> t \in KeysFor(r, Over(e, p)[r])
      BY FiledIs
    <2>1. r \in Gone(t) => r \in DOMAIN e /\ t \notin KeysFor(r, e[r])
      BY DeltasAre
    <2>2. r \in Come(t) => r \in DOMAIN e /\ t \in KeysFor(r, e[r])
      BY DeltasAre
    <2>3. CASE r \notin DOMAIN e
      BY <2>0, <2>1, <2>2, <2>3, OverIs
    <2>4. CASE r \in DOMAIN e
      <3>1. t \in KeysFor(r, p[r]) /\ t \notin KeysFor(r, e[r]) => r \in Gone(t)
        BY <2>4, DeltasAre
      <3>2. t \notin KeysFor(r, p[r]) /\ t \in KeysFor(r, e[r]) => r \in Come(t)
        BY <2>4, DeltasAre
      <3> HIDE DEF Gone, Come
      <3> QED
        BY <2>0, <2>1, <2>2, <2>4, <3>1, <3>2, OverIs
    <2> QED
      BY <2>3, <2>4
  <1>2. ASSUME NEW t \in Tuples PROVE (Filed(p)[t] \ Gone(t)) \union Come(t) = Filed(Over(e, p))[t]
    <2>1. Filed(p)[t] \subseteq Receipts /\ Filed(Over(e, p))[t] \subseteq Receipts
      BY FiledIs
    <2>2. Come(t) \subseteq Receipts
      BY DeltasAre, EntryIs
    <2> HIDE DEF Gone, Come
    <2> QED
      BY <1>1, <2>1, <2>2
  <1>3. Applied(Filed(p), D) = [t \in Tuples |-> (Filed(p)[t] \ Gone(t)) \union Come(t)]
    BY DEF Applied
  <1>4. Filed(Over(e, p)) = [t \in Tuples |-> Filed(Over(e, p))[t]]
    BY FiledIs DEF Trees
  <1> HIDE DEF Gone, Come, D
  <1> QED
    BY <1>2, <1>3, <1>4 DEF D

\* A tree with deltas applied is a tree.
LEMMA AppliedIs ==
    ASSUME NEW root \in Trees,
           NEW ds \in SUBSET [tuple : Tuples, id : Receipts, put : BOOLEAN]
    PROVE  Applied(root, ds) \in Trees
  BY DEF Applied, Trees

\* The pages of a tree are pages.
LEMMA PagesAre ==
    /\ \A root \in Trees : /\ RootPages(root) \subseteq Pages /\ TreePages(root) \subseteq Pages
                           /\ \A t \in Tuples : Route(root, t) \subseteq Pages
    /\ \A page \in Pages : Children(page) \subseteq Pages
  <1>1. ASSUME NEW root \in Trees, NEW t \in Tuples PROVE GroupPage(root[t]) \in Pages
    BY DEF Trees, Pages
  <1>2. ASSUME NEW root \in Trees
        PROVE  RootPages(root) \subseteq Pages /\ Children(LeafPage(root)) \subseteq Pages
    <2>1. LeafPage(root) \in Pages
      BY DEF Pages
    <2>2. LeafPage(root)[1] = "leaf" /\ LeafPage(root)[2] = root
      BY DEF LeafPage
    <2> QED
      BY <1>1, <2>1, <2>2 DEF RootPages, Children
  <1>3. ASSUME NEW ids PROVE Children(GroupPage(ids)) = {}
    BY DEF Children, GroupPage
  <1>4. ASSUME NEW page \in Pages PROVE Children(page) \subseteq Pages
    BY <1>2, <1>3 DEF Pages
  <1>5. ASSUME NEW root \in Trees
        PROVE  /\ TreePages(root) \subseteq Pages
               /\ \A t \in Tuples : Route(root, t) \subseteq Pages
    BY <1>1, <1>2, <1>4 DEF TreePages, Route
  <1> QED
    BY <1>2, <1>4, <1>5

(***************************************************************************)
(* What is known of trees when the journal moves on.                       *)
(***************************************************************************)
\* Once the journal has moved on, a tree of before describes nothing.
LEMMA DescribesLater ==
    ASSUME NEW d \in Maybe([gen : Nat, root : Trees]) \union
                     Maybe([gen : Nat, root : Trees, read : SUBSET Pages]),
           NEW j, NEW k, NEW p, NEW q, j.gen \in Nat, k.gen = j.gen + 1,
           Describes(d, j, p)
    PROVE  Describes(d, k, q)
  <1>1. d # None => d.gen \in Nat
    BY DEF Maybe
  <1> QED
    BY <1>1 DEF Describes

\* The same of a memory.
LEMMA RemembersLater ==
    ASSUME NEW m \in Memories, NEW j, NEW k, NEW p, NEW q, j.gen \in Nat, k.gen = j.gen + 1,
           Remembers(m, j, p)
    PROVE  Remembers(m, k, q)
  <1>1. /\ m.validated \in Maybe([gen : Nat, root : Trees, read : SUBSET Pages])
        /\ m.unpublished \in Maybe([gen : Nat, root : Trees])
    BY DEF Memories, Manifests
  <1> QED
    BY <1>1, DescribesLater DEF Remembers

\* A tree made of the records describes them while nothing is decided.
LEMMA DescribesNow ==
    ASSUME NEW j, NEW p, j.gen \in Nat, j.entry = None, Settled(p)
    PROVE  /\ Describes([gen |-> j.gen, root |-> Filed(p)], j, p)
           /\ \A read : Describes([gen |-> j.gen, root |-> Filed(p), read |-> read], j, p)
           /\ Describes(None, j, p)
  BY DEF Describes

\* An open journal is described by nothing; a tree of before it may be amended.
LEMMA DescribedBefore ==
    ASSUME NEW d, NEW j, NEW p, Describes(d, j, p), d # None, d.gen = j.gen
    PROVE  j.entry = None /\ Settled(p) /\ d.root = Filed(p)
  BY DEF Describes

\* All of TreesDescribe when the journal moves on and nothing else does.
LEMMA TreesLater ==
    ASSUME CacheTyped, TreesDescribe, journal'.gen = journal.gen + 1,
           manifest' = manifest, kept' = kept \/ (holder # None /\ kept' = holder.memory),
           holder' = None \/ (holder # None /\ holder'.memory = holder.memory)
    PROVE  TreesDescribe'
  <1>0. journal.gen \in Nat
    BY DEF CacheTyped, Journals
  <1>1. Describes(manifest', journal', primary')
    BY <1>0, DescribesLater DEF CacheTyped, TreesDescribe, Maybe, Manifests
  <1>2. kept # None => Remembers(kept, journal', primary')
    BY <1>0, RemembersLater DEF CacheTyped, TreesDescribe, Maybe
  <1>3. holder # None => Remembers(holder.memory, journal', primary')
    <2>1. holder # None => holder.memory \in Memories
      BY DEF CacheTyped, Maybe, Holders
    <2> QED
      BY <1>0, <2>1, RemembersLater DEF TreesDescribe
  <1> QED
    BY <1>1, <1>2, <1>3 DEF TreesDescribe

\* No answer, nothing to show.
LEMMA NoAnswer == ASSUME answer' = None PROVE AnswerOpen' /\ LookupExact'
  BY DEF AnswerOpen, LookupExact

(***************************************************************************)
(* The steps.                                                              *)
(***************************************************************************)
\* A process under the mutex, and what it holds.
LEMMA HolderIs ==
    ASSUME CacheTyped, holder # None
    PROVE  /\ holder \in Holders /\ holder.memory \in Memories
           /\ holder.staged \in Entries /\ holder.before \in Nat
           /\ journal.gen \in Nat
  BY DEF CacheTyped, Journals, Maybe, Holders

\* A process that leaves takes its steps, its marks and its answer with it.
LEMMA Departs ==
    ASSUME CacheInv, holder # None, holder' = None, answer' = None,
           kept' = kept \/ kept' = holder.memory,
           version' = version,
           journal' \in Journals, primary' \in [Receipts -> States],
           manifest' \in Maybe(Manifests), pages' \in SUBSET Pages, progress' \in Maybe(Marks),
           mishaps' \in 0 .. MaxMishaps, passes' = passes,
           TreesDescribe',
           version = 8 => Settled(primary') /\ (journal'.entry # None => Settled(journal'.entry)),
           progress' # None => Traced(progress')
    PROVE  CacheInv'
  <1>1. CacheTyped'
    BY HolderIs DEF CacheInv, CacheTyped, Maybe
  <1> QED
    BY <1>1, NoAnswer DEF CacheInv, VersionsRespected, StepsReached, MarksClosed

\* Nothing but the cache changes for the trees that are remembered.
LEMMA TreesKept ==
    ASSUME CacheInv, journal' = journal, primary' = primary,
           Describes(manifest', journal, primary),
           kept' = kept \/ (holder # None /\ kept' = holder.memory),
           holder' = None \/ (holder # None /\ holder'.memory = holder.memory)
    PROVE  TreesDescribe'
  BY DEF CacheInv, TreesDescribe

\* Entering the mutex.
LEMMA EnterKeeps ==
    ASSUME CacheInv, NEW keeps \in BOOLEAN,
           NEW job \in {"transaction", "contract7", "prune", "migration", "reclaim"},
           EnterMutex(job, keeps)
    PROVE  CacheInv'
  <1>0. answer = None /\ answer' = None
    BY DEF CacheInv, AnswerOpen, EnterMutex
  <1>m. NoMemory \in Memories
    BY DEF NoMemory, Memories, Maybe
  <1>h. holder' \in Holders /\ holder'.job = job /\ holder'.step = "opened" /\ holder'.marks = None
        /\ holder'.staged = Nothing /\ holder'.memory = IF keeps THEN kept ELSE NoMemory
    <2>1. (IF keeps THEN kept ELSE NoMemory) \in Memories
      BY <1>m DEF EnterMutex, CacheInv, CacheTyped, Maybe
    <2> QED
      BY <2>1, EntriesMade DEF EnterMutex, Holding, Holders, Maybe
  <1>1. CacheTyped'
    <2>1. passes' \in 0 .. MaxPasses
      BY CacheAssumption DEF CacheInv, CacheTyped, EnterMutex
    <2>2. kept' \in Maybe(Memories) /\ holder' \in Maybe(Holders)
      BY <1>h, <1>m DEF CacheInv, CacheTyped, EnterMutex, Maybe
    <2> QED
      BY <2>1, <2>2 DEF CacheInv, CacheTyped, EnterMutex, cacheVars
  <1>2. TreesDescribe'
    <2>1. Remembers(NoMemory, journal, primary)
      BY DEF NoMemory, Remembers, Describes
    <2> QED
      BY <2>1, <1>h DEF CacheInv, TreesDescribe, EnterMutex, cacheVars
  <1>3. VersionsRespected'
    <2>1. /\ job = "contract7" => version = 7
          /\ job \in {"transaction", "prune", "reclaim"} => version = 8
      BY DEF EnterMutex
    <2>2. Settled(Nothing)
      BY EntriesMade DEF Settled
    <2> QED
      BY <1>h, <2>1, <2>2 DEF CacheInv, VersionsRespected, EnterMutex
  <1>4. StepsReached'
    BY <1>h DEF StepsReached
  <1>5. MarksClosed'
    BY <1>h DEF CacheInv, MarksClosed, EnterMutex, cacheVars
  <1> QED
    BY <1>0, <1>1, <1>2, <1>3, <1>4, <1>5, NoAnswer DEF CacheInv

\* What an entry of contract 8 leaves settled stays settled.
LEMMA OverSettled ==
    ASSUME NEW p \in [Receipts -> States], NEW e \in Entries, Settled(p), Settled(e)
    PROVE  Settled(Over(e, p))
  BY OverIs, EntryIs, CacheAssumption DEF Settled

\* Completing what a dead process decided.
LEMMA RecoverKeeps ==
    ASSUME CacheInv, Recover
    PROVE  CacheInv'
  <1>0. answer = None /\ answer' = None
    BY DEF CacheInv, AnswerOpen, Recover
  <1>e. journal.entry \in Entries /\ journal.gen \in Nat /\ primary \in [Receipts -> States]
    BY DEF CacheInv, CacheTyped, Journals, Recover, Maybe
  <1>j. journal'.gen = journal.gen + 1 /\ journal'.entry = None
    BY DEF Recover
  <1>1. CacheTyped'
    <2>1. journal' \in Journals
      BY <1>e DEF Recover, Maybe, Journals
    <2>2. primary' \in [Receipts -> States]
      BY <1>e, OverIs DEF Recover
    <2> QED
      BY <2>1, <2>2 DEF CacheInv, CacheTyped, Recover, cacheVars
  <1>2. TreesDescribe'
    <2>1. holder # None /\ holder' = holder /\ manifest' = manifest /\ kept' = kept
      BY DEF Recover, cacheVars
    <2> QED
      BY <1>j, <2>1, TreesLater DEF CacheInv
  <1>3. VersionsRespected'
    <2>1. version = 8 => Settled(primary')
      BY <1>e, OverSettled DEF CacheInv, VersionsRespected, Recover
    <2> QED
      BY <1>j, <2>1 DEF CacheInv, VersionsRespected, Recover
  <1>4. StepsReached'
    BY DEF StepsReached, Recover
  <1>5. MarksClosed'
    BY DEF CacheInv, MarksClosed, Recover, cacheVars
  <1> QED
    BY <1>0, <1>1, <1>2, <1>3, <1>4, <1>5, NoAnswer DEF CacheInv

\* Giving up, and being killed.
LEMMA EndsKeep ==
    ASSUME CacheInv, GiveUp \/ Kill
    PROVE  CacheInv'
  <1>1. /\ holder # None /\ holder' = None /\ answer' = None
        /\ kept' = kept \/ kept' = holder.memory
        /\ UNCHANGED <<version, journal, primary, manifest, pages, progress, passes>>
    BY DEF GiveUp, Kill, Leave, cacheVars
  <1>2. mishaps' \in 0 .. MaxMishaps
    BY CacheAssumption DEF GiveUp, Kill, CacheInv, CacheTyped
  <1>3. TreesDescribe'
    BY <1>1, TreesKept DEF CacheInv, TreesDescribe
  <1> QED
    BY <1>1, <1>2, <1>3, Departs DEF CacheInv, CacheTyped, VersionsRespected, MarksClosed

(***************************************************************************)
(* Lookups.                                                                *)
(***************************************************************************)
\* A tree of the records as they are answers a lookup exactly.
LEMMA AnswersExact ==
    ASSUME CacheInv, holder # None, holder.job = "transaction", NEW tuple \in Tuples
    PROVE  /\ Answer(Filed(primary), tuple) \in Answers
           /\ Answer(Filed(primary), tuple).tuple = tuple
           /\ ~Answer(Filed(primary), tuple).refused
           /\ Answer(Filed(primary), tuple).ids
                  = {r \in Receipts : tuple \in KeysFor(r, Current(r))}
           /\ tuple = "retrieved" => Answer(Filed(primary), tuple).ids \intersect Notes = {}
  <1> DEFINE root == Filed(primary)
  <1>0. /\ holder.staged \in Entries /\ primary \in [Receipts -> States]
        /\ DOMAIN holder.staged \subseteq Receipts
    BY HolderIs, EntryIs DEF CacheInv, CacheTyped
  <1>1. ASSUME NEW r \in Receipts
        PROVE  /\ Current(r) \in States
               /\ Current(r) = "absent" => tuple \notin KeysFor(r, Current(r))
               /\ r \in DOMAIN holder.staged => Current(r) = holder.staged[r]
               /\ r \notin DOMAIN holder.staged => Current(r) = primary[r]
               /\ r \in root[tuple] <=> tuple \in KeysFor(r, primary[r])
    <2>1. Current(r) \in States
      BY <1>0, EntryIs DEF Current
    <2> QED
      BY <2>1, KeysAre, FiledIs DEF Current
  <1>2. root[tuple] \subseteq Receipts
    BY FiledIs
  <1> HIDE DEF root
  <1>3. ASSUME NEW r \in Receipts
        PROVE  r \in Selected(root, tuple) <=> tuple \in KeysFor(r, Current(r))
    BY <1>0, <1>1 DEF Selected
  <1>4. Selected(root, tuple) \subseteq Receipts
    BY <1>0, <1>2 DEF Selected
  <1>5. Verified(root, tuple)
    BY <1>3, <1>4 DEF Verified
  <1>6. Selected(root, tuple) = {r \in Receipts : tuple \in KeysFor(r, Current(r))}
    BY <1>3, <1>4
  <1>7. ASSUME NEW r \in Notes PROVE "retrieved" \notin KeysFor(r, Current(r))
    <2>1. r \in Receipts /\ Current(r) \in States
      BY <1>1, CacheAssumption
    <2>2. Current(r) # "seen"
      <3>1. Settled(holder.staged) /\ Settled(primary)
        BY DEF CacheInv, VersionsRespected
      <3> QED
        BY <1>0, <2>1, <3>1 DEF Settled, Current
    <2> QED
      BY <2>1, <2>2, KeysAre
  <1>8. /\ Answer(root, tuple).tuple = tuple /\ Answer(root, tuple).ids = Selected(root, tuple)
        /\ ~Answer(root, tuple).refused
    BY <1>5 DEF Answer
  <1>9. Answer(root, tuple) \in Answers
    <2>1. (~Verified(root, tuple)) \in BOOLEAN
      BY DEF Verified
    <2> QED
      BY <1>4, <2>1 DEF Answer, Answers
  <1>10. tuple = "retrieved" => Selected(root, tuple) \intersect Notes = {}
    BY <1>6, <1>7
  <1> QED
    BY <1>6, <1>8, <1>9, <1>10 DEF root

\* A lookup's step, whichever tree it asked.
LEMMA LookupKeeps ==
    ASSUME CacheInv, At("transaction", "opened"), NEW tuple \in Tuples, NEW m \in Memories,
           UNCHANGED <<version, journal, primary, progress, kept, mishaps, passes>>,
           answer' = Answer(Filed(primary), tuple),
           holder' = [holder EXCEPT !.memory = m], Remembers(m, journal, primary),
           manifest' \in Maybe(Manifests), Describes(manifest', journal, primary),
           pages' \in SUBSET Pages
    PROVE  CacheInv'
  <1>0. /\ holder # None /\ holder.job = "transaction" /\ holder.step = "opened"
        /\ journal.entry = None
    BY DEF At
  <1>h. /\ holder \in Holders /\ holder' \in Holders /\ holder'.memory = m
        /\ holder'.job = holder.job /\ holder'.step = holder.step
        /\ holder'.staged = holder.staged /\ holder'.marks = holder.marks
    BY <1>0, HolderIs DEF CacheInv, Holders
  <1>n. holder' # None
    BY <1>h, NoneIsNothing
  <1>1. CacheTyped'
    BY <1>0, <1>h, AnswersExact DEF CacheInv, CacheTyped, Maybe
  <1>2. TreesDescribe'
    BY <1>h DEF CacheInv, TreesDescribe
  <1>3. VersionsRespected'
    BY <1>0, <1>h DEF CacheInv, VersionsRespected
  <1>4. StepsReached'
    BY <1>0, <1>h DEF StepsReached
  <1>5. MarksClosed'
    BY <1>0, <1>h DEF CacheInv, MarksClosed
  <1>6. AnswerOpen'
    BY <1>0, <1>h, <1>n DEF AnswerOpen
  <1>7. LookupExact'
    <2>1. \A r : Current(r)' = Current(r)
      BY <1>h DEF Current
    <2> QED
      BY <1>0, <2>1, AnswersExact DEF LookupExact
  <1> QED
    BY <1>1, <1>2, <1>3, <1>4, <1>5, <1>6, <1>7 DEF CacheInv

\* The tree that is validated files the records as they are.
LEMMA ValidatedIs ==
    ASSUME CacheInv, At("transaction", "opened"), Validated # None
    PROVE  /\ Validated \in [gen : Nat, root : Trees, read : SUBSET Pages]
           /\ Validated.gen = journal.gen /\ Validated.root = Filed(primary)
           /\ Settled(primary) /\ journal.entry = None
  <1>0. holder # None /\ journal.entry = None
    BY DEF At
  <1>1. CASE Remembered
    <2>1. /\ Validated = holder.memory.validated /\ Validated.gen = journal.gen
          /\ Describes(Validated, journal, primary)
      BY <1>0, <1>1 DEF Validated, Remembered, CacheInv, TreesDescribe, Remembers
    <2>2. Validated \in [gen : Nat, root : Trees, read : SUBSET Pages]
      <3>1. holder.memory.validated \in Maybe([gen : Nat, root : Trees, read : SUBSET Pages])
        BY <1>0, HolderIs DEF CacheInv, Memories
      <3> QED
        BY <2>1, <3>1 DEF Maybe
    <2> QED
      BY <2>1, <2>2, DescribedBefore
  <1>2. CASE ~Remembered
    <2>1. /\ Valid(journal.gen)
          /\ Validated = [gen |-> journal.gen, root |-> manifest.root,
                          read |-> RootPages(manifest.root)]
      BY <1>2 DEF Validated
    <2>2. manifest # None /\ manifest.gen = journal.gen /\ Describes(manifest, journal, primary)
      BY <2>1 DEF Valid, CacheInv, TreesDescribe
    <2>3. manifest.root \in Trees /\ journal.gen \in Nat
      BY <1>0, <2>2, HolderIs DEF CacheInv, CacheTyped, Maybe, Manifests
    <2>4. RootPages(manifest.root) \in SUBSET Pages
      BY <2>3, PagesAre
    <2> QED
      BY <2>1, <2>2, <2>3, <2>4, DescribedBefore
  <1> QED
    BY <1>1, <1>2

\* A lookup that the cache answers.
LEMMA LookupCachedKeeps ==
    ASSUME CacheInv, NEW tuple \in Tuples, LookupCached(tuple)
    PROVE  CacheInv'
  <1>0. At("transaction", "opened") /\ Validated # None /\ holder # None
    BY DEF LookupCached, Cached, At
  <1>m. holder \in Holders /\ holder.memory \in Memories
    BY <1>0, HolderIs DEF CacheInv
  <1> DEFINE read == Validated.read \union Route(Validated.root, tuple)
             v == [Validated EXCEPT !.read = read]
             m == [holder.memory EXCEPT !.validated = v]
  <1>1. /\ Validated \in [gen : Nat, root : Trees, read : SUBSET Pages]
        /\ Validated.gen = journal.gen /\ Validated.root = Filed(primary)
        /\ Settled(primary) /\ journal.entry = None /\ journal.gen \in Nat
    BY <1>0, ValidatedIs, HolderIs DEF CacheInv
  <1>2. read \in SUBSET Pages
    BY <1>1, PagesAre
  <1> HIDE DEF read
  <1>3. /\ v \in [gen : Nat, root : Trees, read : SUBSET Pages]
        /\ v.gen = journal.gen /\ v.root = Filed(primary)
    BY <1>1, <1>2
  <1> HIDE DEF v
  <1>4. m \in Memories /\ m.validated = v /\ m.unpublished = holder.memory.unpublished
    BY <1>m, <1>3 DEF Memories, Maybe
  <1>5. Remembers(m, journal, primary)
    <2>1. Describes(v, journal, primary)
      BY <1>1, <1>3 DEF Describes
    <2> QED
      BY <1>0, <1>4, <2>1 DEF CacheInv, TreesDescribe, Remembers
  <1>6. holder' = [holder EXCEPT !.memory = m]
    BY <1>m DEF LookupCached, v, read, Holders, Memories
  <1>7. answer' = Answer(Filed(primary), tuple)
    BY <1>1 DEF LookupCached
  <1> HIDE DEF m
  <1> QED
    BY <1>0, <1>4, <1>5, <1>6, <1>7, LookupKeeps
    DEF LookupCached, cacheVars, CacheInv, CacheTyped, TreesDescribe

\* A lookup that the tree in memory answers.
LEMMA LookupUnpublishedKeeps ==
    ASSUME CacheInv, NEW tuple \in Tuples, LookupUnpublished(tuple)
    PROVE  CacheInv'
  <1>0. At("transaction", "opened") /\ InMemory /\ holder # None
    BY DEF LookupUnpublished, At
  <1>m. holder \in Holders /\ holder.memory \in Memories
    BY <1>0, HolderIs DEF CacheInv
  <1> DEFINE m == [holder.memory EXCEPT !.validated = None]
  <1>1. Describes(holder.memory.unpublished, journal, primary)
    BY <1>0 DEF CacheInv, TreesDescribe, Remembers
  <1>2. holder.memory.unpublished.root = Filed(primary)
    BY <1>0, <1>1, DescribedBefore DEF InMemory
  <1>3. m \in Memories /\ m.validated = None /\ m.unpublished = holder.memory.unpublished
    BY <1>m DEF Memories, Maybe
  <1>4. Remembers(m, journal, primary)
    BY <1>1, <1>3 DEF Remembers, Describes
  <1>5. holder' = [holder EXCEPT !.memory = m]
    BY <1>m DEF LookupUnpublished, Holders, Memories
  <1>6. answer' = Answer(Filed(primary), tuple)
    BY <1>2 DEF LookupUnpublished
  <1> HIDE DEF m
  <1> QED
    BY <1>0, <1>3, <1>4, <1>5, <1>6, LookupKeeps
    DEF LookupUnpublished, cacheVars, CacheInv, CacheTyped, TreesDescribe

\* Publishing a tree, or a part of it.
LEMMA PublishIs ==
    ASSUME CacheInv, NEW root \in Trees, NEW outcome, Publish(root, outcome),
           journal' = journal, primary' = primary, journal.gen \in Nat
    PROVE  /\ manifest' \in Maybe(Manifests) /\ pages' \in SUBSET Pages /\ progress' = progress
           /\ manifest' = manifest \/ manifest' = [gen |-> journal.gen, root |-> root]
  <1>1. manifest' = manifest \/ manifest' = [gen |-> journal.gen, root |-> root]
    BY DEF Publish
  <1>2. [gen |-> journal.gen, root |-> root] \in Manifests
    BY DEF Manifests
  <1> QED
    BY <1>1, <1>2, PagesAre DEF CacheInv, CacheTyped, Publish, Maybe

\* A lookup that reads every record.
LEMMA LookupRebuiltKeeps ==
    ASSUME CacheInv, NEW tuple \in Tuples, NEW outcome, LookupRebuilt(tuple, outcome)
    PROVE  CacheInv'
  <1>0. At("transaction", "opened") /\ holder # None /\ journal.entry = None
    BY DEF LookupRebuilt, At
  <1>m. holder \in Holders /\ journal.gen \in Nat
    BY <1>0, HolderIs DEF CacheInv
  <1>s. Settled(primary)
    BY <1>0 DEF At, CacheInv, VersionsRespected
  <1> DEFINE d == [gen |-> journal.gen, root |-> Filed(primary)]
             m == [validated |-> None, unpublished |-> IF outcome = "published" THEN None ELSE d]
  <1>1. d \in Manifests /\ Describes(d, journal, primary) /\ Describes(None, journal, primary)
    BY <1>0, <1>m, <1>s, FiledIs, DescribesNow DEF Manifests
  <1>2. /\ manifest' \in Maybe(Manifests) /\ pages' \in SUBSET Pages /\ progress' = progress
        /\ manifest' = manifest \/ manifest' = d
    BY <1>m, PublishIs, FiledIs DEF LookupRebuilt
  <1> HIDE DEF d
  <1>3. m \in Memories /\ Remembers(m, journal, primary)
    BY <1>1 DEF Memories, Maybe, Remembers
  <1>4. Describes(manifest', journal, primary)
    BY <1>1, <1>2 DEF CacheInv, TreesDescribe
  <1>5. holder' = [holder EXCEPT !.memory = m]
    BY DEF LookupRebuilt, d
  <1> HIDE DEF m
  <1> QED
    BY <1>0, <1>2, <1>3, <1>4, <1>5, LookupKeeps DEF LookupRebuilt

(***************************************************************************)
(* Transactions.                                                           *)
(***************************************************************************)
\* Staging a record.
LEMMA PutKeeps ==
    ASSUME CacheInv, NEW r \in Receipts, Put(r)
    PROVE  CacheInv'
  <1> DEFINE one == [q \in {r} |-> Advanced(primary[q])]
  <1>0. holder # None /\ holder.job \in {"transaction", "contract7"} /\ holder.step = "opened"
    BY DEF Put, At
  <1>p. primary[r] \in {"absent", "pending"}
    BY DEF Put
  <1>1. one \in Entries /\ DOMAIN one = {r}
    <2>1. Advanced(primary[r]) \in States
      BY DEF Advanced, States
    <2> QED
      BY <2>1, EntriesMade
  <1>2. holder.job # "contract7" => Settled(one)
    BY DEF Settled, Advanced
  <1> HIDE DEF one
  <1>h. /\ holder' \in Holders /\ holder'.staged = one /\ holder'.memory = holder.memory
        /\ holder'.job = holder.job /\ holder'.step = "opened" /\ holder'.marks = holder.marks
    <2>1. holder' = [holder EXCEPT !.staged = one]
      BY DEF Put, one
    <2> QED
      BY <1>0, <1>1, <2>1, HolderIs DEF CacheInv, Holders
  <1>3. CacheTyped'
    BY <1>h DEF CacheInv, CacheTyped, Put, cacheVars, Maybe
  <1>4. TreesDescribe'
    BY <1>0, <1>h, TreesKept DEF CacheInv, TreesDescribe, Put, cacheVars
  <1>5. VersionsRespected'
    BY <1>0, <1>h, <1>2 DEF CacheInv, VersionsRespected, Put
  <1>6. StepsReached'
    BY <1>h DEF StepsReached
  <1>7. MarksClosed'
    BY <1>0, <1>h DEF CacheInv, MarksClosed, Put, cacheVars
  <1> QED
    BY <1>3, <1>4, <1>5, <1>6, <1>7, NoAnswer DEF CacheInv, Put

\* Deciding.
LEMMA DecideKeeps ==
    ASSUME CacheInv, Decide
    PROVE  CacheInv'
  <1>0. /\ holder # None /\ holder.job \in {"transaction", "contract7"} /\ holder.step = "opened"
        /\ journal.entry = None
    BY DEF Decide, At
  <1>t. /\ holder \in Holders /\ holder.staged \in Entries /\ journal.gen \in Nat
        /\ primary \in [Receipts -> States]
    BY <1>0, HolderIs DEF CacheInv, CacheTyped
  <1>j. /\ journal' \in Journals /\ journal'.gen = journal.gen + 1
        /\ journal'.entry = holder.staged
    BY <1>t DEF Decide, Journals, Maybe
  <1>h. /\ holder' \in Holders /\ holder'.staged = holder.staged
        /\ holder'.memory = holder.memory /\ holder'.job = holder.job
        /\ holder'.step = "decided" /\ holder'.before = journal.gen
        /\ holder'.deltas = Deltas(holder.staged, primary) /\ holder'.marks = holder.marks
    <2>1. Deltas(holder.staged, primary)
              \in SUBSET [tuple : Tuples, id : Receipts, put : BOOLEAN]
      BY <1>t, DeltasAre
    <2> QED
      BY <1>t, <2>1 DEF Decide, Holders
  <1>1. CacheTyped'
    BY <1>j, <1>h DEF CacheInv, CacheTyped, Decide, cacheVars, Maybe
  <1>2. TreesDescribe'
    BY <1>0, <1>j, <1>h, TreesLater DEF CacheInv, Decide, cacheVars
  <1>3. VersionsRespected'
    BY <1>0, <1>h, <1>j DEF CacheInv, VersionsRespected, Decide
  <1>4. StepsReached'
    <2>1. manifest # None /\ manifest.gen = journal.gen => manifest.root = Filed(primary)
      BY DescribedBefore DEF CacheInv, TreesDescribe
    <2>2. manifest' = manifest /\ primary' = primary
      BY DEF Decide, cacheVars
    <2> QED
      BY <1>0, <1>h, <1>j, <2>1, <2>2 DEF StepsReached
  <1>5. MarksClosed'
    BY <1>0, <1>h DEF CacheInv, MarksClosed, Decide, cacheVars
  <1> QED
    BY <1>1, <1>2, <1>3, <1>4, <1>5, NoAnswer DEF CacheInv, Decide

\* Rolling forward.
LEMMA RollForwardKeeps ==
    ASSUME CacheInv, RollForward
    PROVE  CacheInv'
  <1>0. /\ holder # None /\ holder.job \in {"transaction", "contract7"}
        /\ holder.step = "decided" /\ answer = None
    BY DEF RollForward, At, CacheInv, AnswerOpen
  <1>t. /\ holder \in Holders /\ holder.staged \in Entries /\ journal.gen \in Nat
        /\ primary \in [Receipts -> States] /\ holder.before \in Nat
    BY <1>0, HolderIs DEF CacheInv, CacheTyped
  <1>s. /\ journal.entry = holder.staged /\ journal.gen = holder.before + 1
        /\ holder.deltas = Deltas(holder.staged, primary)
        /\ manifest # None /\ manifest.gen = holder.before => manifest.root = Filed(primary)
    BY <1>0 DEF CacheInv, StepsReached
  <1>j. /\ journal' \in Journals /\ journal'.gen = journal.gen + 1 /\ journal'.entry = None
    BY <1>t DEF RollForward, Journals, Maybe
  <1>p. primary' \in [Receipts -> States] /\ primary' = Over(holder.staged, primary)
    BY <1>s, <1>t, OverIs DEF RollForward
  <1>v. version = 8 => Settled(primary')
    <2>1. version = 8 => Settled(primary) /\ Settled(holder.staged)
      BY <1>0, <1>s, <1>t, NoneIsNothing DEF CacheInv, VersionsRespected
    <2> QED
      BY <1>p, <1>t, <2>1, OverSettled
  <1>1. CASE holder.job = "contract7"
    <2>1. /\ holder' = None /\ answer' = None /\ (kept' = kept \/ kept' = holder.memory)
          /\ UNCHANGED <<version, manifest, pages, progress, mishaps, passes>>
      BY <1>1 DEF RollForward, Leave, cacheVars
    <2>2. TreesDescribe'
      BY <1>0, <1>j, <2>1, TreesLater DEF CacheInv
    <2> QED
      BY <1>0, <1>j, <1>p, <1>v, <2>1, <2>2, Departs DEF CacheInv, CacheTyped, MarksClosed
  <1>2. CASE holder.job # "contract7"
    <2>1. /\ holder' = [holder EXCEPT !.step = "applied"]
          /\ UNCHANGED <<version, manifest, pages, progress, kept, answer, mishaps, passes>>
      BY <1>2 DEF RollForward, cacheVars
    <2>h. /\ holder' \in Holders /\ holder'.staged = holder.staged
          /\ holder'.memory = holder.memory /\ holder'.job = "transaction"
          /\ holder'.step = "applied" /\ holder'.before = holder.before
          /\ holder'.deltas = holder.deltas /\ holder'.marks = holder.marks
      BY <1>0, <1>2, <1>t, <2>1 DEF Holders
    <2>2. CacheTyped'
      BY <1>j, <1>p, <2>1, <2>h DEF CacheInv, CacheTyped, Maybe
    <2>3. TreesDescribe'
      BY <1>0, <1>j, <2>1, <2>h, TreesLater DEF CacheInv
    <2>4. VersionsRespected'
      BY <1>0, <1>2, <1>j, <1>v, <2>1, <2>h DEF CacheInv, VersionsRespected
    <2>5. StepsReached'
      <3>1. manifest # None /\ manifest.gen = holder.before =>
                Applied(manifest.root, holder.deltas) = Filed(primary')
        BY <1>s, <1>p, <1>t, DeltasApply
      <3>2. journal'.gen = holder.before + 2
        BY <1>j, <1>s, <1>t
      <3> QED
        BY <1>j, <2>1, <2>h, <3>1, <3>2 DEF StepsReached
    <2>6. MarksClosed'
      BY <1>0, <2>1, <2>h DEF CacheInv, MarksClosed
    <2> QED
      BY <1>0, <2>1, <2>2, <2>3, <2>4, <2>5, <2>6, NoAnswer DEF CacheInv
  <1> QED
    BY <1>1, <1>2

\* The manifest follows the journal.
LEMMA IndexCommitKeeps ==
    ASSUME CacheInv, NEW outcome, IndexCommit(outcome)
    PROVE  CacheInv'
  <1>0. holder # None /\ holder.job = "transaction" /\ holder.step = "applied"
    BY DEF IndexCommit, At
  <1>t. /\ holder \in Holders /\ journal.gen \in Nat /\ version = 8
        /\ holder.deltas \in SUBSET [tuple : Tuples, id : Receipts, put : BOOLEAN]
    BY <1>0, HolderIs DEF CacheInv, VersionsRespected, Holders
  <1>1. /\ holder' = None /\ answer' = None /\ (kept' = kept \/ kept' = holder.memory)
        /\ UNCHANGED <<version, journal, primary, mishaps, passes>>
    BY DEF IndexCommit, Leave
  <1>2. CASE UNCHANGED cacheVars
    <2>1. TreesDescribe'
      BY <1>0, <1>1, <1>2, TreesKept DEF CacheInv, TreesDescribe, cacheVars
    <2> QED
      BY <1>0, <1>1, <1>2, <2>1, Departs
      DEF CacheInv, CacheTyped, VersionsRespected, MarksClosed, cacheVars
  <1>3. CASE Valid(holder.before) /\ Publish(Applied(manifest.root, holder.deltas), outcome)
    <2>1. manifest # None /\ manifest.gen = holder.before /\ manifest.root \in Trees
      BY <1>3 DEF Valid, CacheInv, CacheTyped, Maybe, Manifests
    <2>2. Applied(manifest.root, holder.deltas) = Filed(primary) /\ journal.entry = None
      BY <1>0, <2>1 DEF CacheInv, StepsReached
    <2>3. /\ manifest' \in Maybe(Manifests) /\ pages' \in SUBSET Pages /\ progress' = progress
          /\ \/ manifest' = manifest
             \/ manifest' = [gen |-> journal.gen, root |-> Filed(primary)]
      BY <1>1, <1>3, <1>t, <2>2, FiledIs, PublishIs
    <2>4. Describes(manifest', journal, primary)
      <3>1. Settled(primary)
        BY <1>t DEF CacheInv, VersionsRespected
      <3> QED
        BY <1>t, <2>2, <2>3, <3>1, DescribesNow DEF CacheInv, TreesDescribe
    <2>5. TreesDescribe'
      BY <1>0, <1>1, <2>4, TreesKept
    <2> QED
      BY <1>0, <1>1, <2>3, <2>5, Departs DEF CacheInv, CacheTyped, VersionsRespected, MarksClosed
  <1> QED
    BY <1>2, <1>3 DEF IndexCommit

(***************************************************************************)
(* Prune and migration.                                                    *)
(***************************************************************************)
\* Opening the journal before a prune.
LEMMA FenceKeeps ==
    ASSUME CacheInv, Fence
    PROVE  CacheInv'
  <1>0. /\ holder # None /\ holder.job = "prune" /\ holder.step = "opened" /\ answer' = None
    BY DEF Fence, At, CacheInv, AnswerOpen
  <1>t. holder \in Holders /\ journal.gen \in Nat
    BY <1>0, HolderIs DEF CacheInv
  <1>j. /\ journal' \in Journals /\ journal'.gen = journal.gen + 1
        /\ journal'.entry = Nothing /\ journal'.entry # None
    BY <1>t, EntriesMade, NoneIsNothing DEF Fence, Journals, Maybe
  <1>h. /\ holder' \in Holders /\ holder'.staged = holder.staged
        /\ holder'.memory = holder.memory /\ holder'.job = "prune"
        /\ holder'.step = "fenced" /\ holder'.marks = holder.marks
    BY <1>0, <1>t DEF Fence, Holders
  <1>1. CacheTyped'
    BY <1>j, <1>h DEF CacheInv, CacheTyped, Fence, cacheVars, Maybe
  <1>2. TreesDescribe'
    BY <1>0, <1>j, <1>h, TreesLater DEF CacheInv, Fence, cacheVars
  <1>3. VersionsRespected'
    <2>1. Settled(Nothing)
      BY EntriesMade DEF Settled
    <2> QED
      BY <1>0, <1>h, <1>j, <2>1 DEF CacheInv, VersionsRespected, Fence
  <1>4. StepsReached'
    BY <1>h, <1>j DEF StepsReached
  <1>5. MarksClosed'
    BY <1>0, <1>h DEF CacheInv, MarksClosed, Fence, cacheVars
  <1> QED
    BY <1>0, <1>1, <1>2, <1>3, <1>4, <1>5, NoAnswer DEF CacheInv

\* Discarding the cache, or what can be discarded of it.
LEMMA DiscardCacheKeeps ==
    ASSUME CacheInv, DiscardCache
    PROVE  CacheInv'
  <1>0. /\ holder # None /\ holder.job = "prune" /\ holder.step = "fenced" /\ answer' = None
        /\ journal.entry # None
    BY DEF DiscardCache, At, CacheInv, AnswerOpen, StepsReached
  <1>t. holder \in Holders
    BY <1>0, HolderIs DEF CacheInv
  <1>h. /\ holder' \in Holders /\ holder'.staged = holder.staged
        /\ holder'.memory = holder.memory /\ holder'.job = "prune"
        /\ holder'.step = "pruning" /\ holder'.marks = holder.marks
    BY <1>0, <1>t DEF DiscardCache, Holders
  <1>c. /\ manifest' \in {manifest, None} /\ progress' \in {progress, None}
        /\ pages' \in SUBSET Pages
        /\ UNCHANGED <<version, journal, primary, kept, mishaps, passes>>
    BY DEF DiscardCache, cacheVars, CacheInv, CacheTyped
  <1>1. CacheTyped'
    BY <1>c, <1>h, <1>0 DEF CacheInv, CacheTyped, Maybe
  <1>2. TreesDescribe'
    <2>1. Describes(manifest', journal, primary)
      BY <1>c DEF CacheInv, TreesDescribe, Describes
    <2> QED
      BY <1>0, <1>c, <1>h, <2>1, TreesKept
  <1>3. VersionsRespected'
    BY <1>0, <1>h, <1>c DEF CacheInv, VersionsRespected
  <1>4. StepsReached'
    BY <1>0, <1>h, <1>c DEF StepsReached
  <1>5. MarksClosed'
    BY <1>0, <1>h, <1>c DEF CacheInv, MarksClosed
  <1> QED
    BY <1>0, <1>1, <1>2, <1>3, <1>4, <1>5, NoAnswer DEF CacheInv

\* While the journal is open, nothing describes the records.
LEMMA NothingDescribesOpen ==
    ASSUME NEW d, NEW j, NEW p, NEW q, j.entry # None, Describes(d, j, p)
    PROVE  Describes(d, j, q)
  BY DEF Describes

\* A note rewritten while it is unsettled is described by nothing either.
LEMMA NothingDescribesUnsettled ==
    ASSUME NEW d, NEW j, NEW p, NEW q, ~Settled(p), Describes(d, j, p)
    PROVE  Describes(d, j, q)
  BY DEF Describes

\* A record is removed by prune or rewritten by a migration.
LEMMA RecordKeeps ==
    ASSUME CacheInv, NEW r \in Receipts, NEW s \in States \ {"seen"}, holder # None,
           primary' = [primary EXCEPT ![r] = s], answer' = None,
           UNCHANGED <<version, journal, cacheVars, kept, holder, mishaps, passes>>,
           holder.step \in {"opened", "pruning"},
           journal.entry # None \/ ~Settled(primary)
    PROVE  CacheInv'
  <1>0. primary \in [Receipts -> States]
    BY DEF CacheInv, CacheTyped
  <1>1. primary' \in [Receipts -> States]
    BY <1>0
  <1>2. CacheTyped'
    BY <1>1 DEF CacheInv, CacheTyped, cacheVars, Maybe
  <1>3. TreesDescribe'
    <2>1. \A d : Describes(d, journal, primary) => Describes(d, journal, primary')
      BY NothingDescribesOpen, NothingDescribesUnsettled
    <2> QED
      BY <2>1 DEF CacheInv, TreesDescribe, Remembers, cacheVars
  <1>4. VersionsRespected'
    <2>1. Settled(primary) => Settled(primary')
      BY <1>0, <1>1 DEF Settled
    <2> QED
      BY <2>1 DEF CacheInv, VersionsRespected
  <1>5. StepsReached'
    BY DEF CacheInv, StepsReached, cacheVars
  <1>6. MarksClosed'
    BY DEF CacheInv, MarksClosed, cacheVars
  <1> QED
    BY <1>2, <1>3, <1>4, <1>5, <1>6, NoAnswer DEF CacheInv

\* Removing a record, and rewriting a note.
LEMMA RecordStepsKeep ==
    ASSUME CacheInv, NEW r \in Receipts, CondemnRecord(r) \/ RewriteNote(r)
    PROVE  CacheInv'
  <1>1. CASE CondemnRecord(r)
    <2>1. /\ holder # None /\ holder.job = "prune" /\ holder.step = "pruning"
          /\ journal.entry # None /\ answer' = None
      BY <1>1 DEF CondemnRecord, At, CacheInv, StepsReached, AnswerOpen
    <2>2. "absent" \in States \ {"seen"}
      BY DEF States
    <2> QED
      BY <1>1, <2>1, <2>2, RecordKeeps DEF CondemnRecord
  <1>2. CASE RewriteNote(r)
    <2>1. /\ holder # None /\ holder.job = "migration" /\ holder.step = "opened" /\ answer' = None
          /\ r \in Notes /\ primary[r] = "seen"
      BY <1>2 DEF RewriteNote, At, CacheInv, AnswerOpen, Unsettled
    <2>2. ~Settled(primary)
      BY <2>1, CacheAssumption DEF Settled, CacheInv, CacheTyped
    <2>3. "read" \in States \ {"seen"}
      BY DEF States
    <2> QED
      BY <1>2, <2>1, <2>2, <2>3, RecordKeeps DEF RewriteNote
  <1> QED
    BY <1>1, <1>2

\* The journal is idle again after a prune.
LEMMA EndPruneKeeps ==
    ASSUME CacheInv, EndPrune
    PROVE  CacheInv'
  <1>0. holder # None /\ journal.gen \in Nat
    BY HolderIs DEF CacheInv, EndPrune, At
  <1>j. /\ journal' \in Journals /\ journal'.gen = journal.gen + 1 /\ journal'.entry = None
    BY <1>0 DEF EndPrune, Journals, Maybe
  <1>1. /\ holder' = None /\ answer' = None /\ (kept' = kept \/ kept' = holder.memory)
        /\ UNCHANGED <<version, primary, manifest, pages, progress, mishaps, passes>>
    BY DEF EndPrune, Leave, cacheVars
  <1>2. TreesDescribe'
    BY <1>0, <1>j, <1>1, TreesLater DEF CacheInv
  <1> QED
    BY <1>0, <1>j, <1>1, <1>2, Departs DEF CacheInv, CacheTyped, VersionsRespected, MarksClosed

\* The index that a migration must have.
LEMMA RebuildRequiredKeeps ==
    ASSUME CacheInv, NEW outcome, RebuildRequired(outcome)
    PROVE  CacheInv'
  <1>0. /\ holder # None /\ holder.job = "migration" /\ holder.step = "opened" /\ answer = None
        /\ journal.entry = None
    BY DEF RebuildRequired, At, CacheInv, AnswerOpen
  <1>t. holder \in Holders /\ journal.gen \in Nat
    BY <1>0, HolderIs DEF CacheInv
  <1>s. Settled(primary)
    BY DEF RebuildRequired, Unsettled, Settled
  <1>c. /\ manifest' \in Maybe(Manifests) /\ pages' \in SUBSET Pages /\ progress' = progress
        /\ manifest' = manifest \/ manifest' = [gen |-> journal.gen, root |-> Filed(primary)]
        /\ UNCHANGED <<version, journal, primary, mishaps, passes>>
    BY <1>t, FiledIs, PublishIs DEF RebuildRequired
  <1>d. Describes(manifest', journal, primary)
    BY <1>0, <1>t, <1>s, <1>c, DescribesNow DEF CacheInv, TreesDescribe
  <1>1. CASE Leave
    <2>1. holder' = None /\ answer' = None /\ (kept' = kept \/ kept' = holder.memory)
      BY <1>1 DEF Leave
    <2>2. TreesDescribe'
      BY <1>0, <1>c, <1>d, <2>1, TreesKept
    <2> QED
      BY <1>0, <1>c, <2>1, <2>2, Departs DEF CacheInv, CacheTyped, VersionsRespected, MarksClosed
  <1>2. CASE holder' = [holder EXCEPT !.step = "indexed"] /\ UNCHANGED <<kept, answer>>
    <2>h. /\ holder' \in Holders /\ holder'.staged = holder.staged
          /\ holder'.memory = holder.memory /\ holder'.job = "migration"
          /\ holder'.step = "indexed" /\ holder'.marks = holder.marks
      BY <1>0, <1>2, <1>t DEF Holders
    <2>1. CacheTyped'
      BY <1>2, <1>c, <2>h DEF CacheInv, CacheTyped, Maybe
    <2>2. TreesDescribe'
      BY <1>0, <1>2, <1>c, <1>d, <2>h, TreesKept
    <2>3. VersionsRespected'
      BY <1>0, <1>c, <2>h DEF CacheInv, VersionsRespected
    <2>4. StepsReached'
      BY <1>0, <1>c, <1>s, <2>h DEF StepsReached
    <2>5. MarksClosed'
      BY <1>0, <1>c, <2>h DEF CacheInv, MarksClosed
    <2> QED
      BY <1>0, <1>2, <2>1, <2>2, <2>3, <2>4, <2>5, NoAnswer DEF CacheInv
  <1> QED
    BY <1>1, <1>2 DEF RebuildRequired

\* The switch of the version.
LEMMA SwitchVersionKeeps ==
    ASSUME CacheInv, SwitchVersion
    PROVE  CacheInv'
  <1>0. holder # None /\ Settled(primary) /\ journal.entry = None
    BY DEF SwitchVersion, At, CacheInv, StepsReached
  <1>1. /\ holder' = None /\ answer' = None /\ (kept' = kept \/ kept' = holder.memory)
        /\ version' = 8
        /\ UNCHANGED <<journal, primary, manifest, pages, progress, mishaps, passes>>
    BY DEF SwitchVersion, Leave, cacheVars
  <1>2. TreesDescribe'
    BY <1>0, <1>1, TreesKept DEF CacheInv, TreesDescribe
  <1>3. CacheTyped'
    BY <1>0, <1>1, HolderIs DEF CacheInv, CacheTyped, Maybe
  <1> QED
    BY <1>0, <1>1, <1>2, <1>3, NoAnswer
    DEF CacheInv, VersionsRespected, StepsReached, MarksClosed

(***************************************************************************)
(* Marking and sweeping.                                                   *)
(***************************************************************************)
\* A checkpoint ends the pass and leaves marks that are traced.
LEMMA CheckpointKeeps ==
    ASSUME CacheInv, holder # None, NEW marks \in Maybe(Marks), marks # None => Traced(marks),
           Checkpoint(marks), pages' \in SUBSET Pages,
           UNCHANGED <<version, journal, primary, manifest, mishaps, passes>>
    PROVE  CacheInv'
  <1>1. /\ holder' = None /\ answer' = None /\ (kept' = kept \/ kept' = holder.memory)
        /\ progress' \in {marks, progress}
    BY DEF Checkpoint, Leave
  <1>2. TreesDescribe'
    BY <1>1, TreesKept DEF CacheInv, TreesDescribe
  <1>3. progress' \in Maybe(Marks) /\ (progress' # None => Traced(progress'))
    BY <1>1 DEF CacheInv, CacheTyped, MarksClosed
  <1> QED
    BY <1>1, <1>2, <1>3, Departs DEF CacheInv, CacheTyped, VersionsRespected

\* A pass goes on with marks that are traced and hold the root.
LEMMA MarkingKeeps ==
    ASSUME CacheInv, holder # None, holder.job = "reclaim", holder.step \in {"opened", "mark"},
           NEW marks \in Marks, Traced(marks), manifest # None,
           RootPages(manifest.root) \subseteq marks.visited \union marks.pending,
           holder' = [holder EXCEPT !.step = "mark", !.marks = marks],
           UNCHANGED <<version, journal, primary, cacheVars, kept, answer, mishaps, passes>>
    PROVE  CacheInv'
  <1>0. answer' = None
    BY DEF CacheInv, AnswerOpen
  <1>h. /\ holder' \in Holders /\ holder'.staged = holder.staged
        /\ holder'.memory = holder.memory /\ holder'.job = "reclaim"
        /\ holder'.step = "mark" /\ holder'.marks = marks
    BY HolderIs DEF CacheInv, Holders, Maybe
  <1>c. manifest' = manifest /\ pages' = pages /\ progress' = progress
    BY DEF cacheVars
  <1>1. CacheTyped'
    BY <1>h, <1>c DEF CacheInv, CacheTyped, Maybe
  <1>2. TreesDescribe'
    BY <1>h, <1>c, TreesKept DEF CacheInv, TreesDescribe
  <1>3. VersionsRespected'
    BY <1>h DEF CacheInv, VersionsRespected
  <1>4. StepsReached'
    BY <1>h DEF StepsReached
  <1>5. MarksClosed'
    BY <1>h, <1>c DEF CacheInv, MarksClosed
  <1> QED
    BY <1>0, <1>1, <1>2, <1>3, <1>4, <1>5, NoAnswer DEF CacheInv

\* A pass begins where the last one left off.
LEMMA BeginMarkKeeps ==
    ASSUME CacheInv, BeginMark
    PROVE  CacheInv'
  <1>0. /\ holder # None /\ holder.job = "reclaim" /\ holder.step = "opened" /\ manifest # None
        /\ manifest.root \in Trees
    BY DEF BeginMark, At, CacheInv, CacheTyped, Maybe, Manifests
  <1> DEFINE last == IF progress = None THEN [pending |-> {}, visited |-> {}] ELSE progress
  <1>1. last \in Marks /\ Traced(last)
    BY DEF CacheInv, CacheTyped, MarksClosed, Maybe, Marks, Traced
  <1>2. ResumeMarks = [last EXCEPT !.pending = last.pending \union
                                       (RootPages(manifest.root) \ last.visited)]
    BY DEF ResumeMarks
  <1> HIDE DEF last
  <1>3. RootPages(manifest.root) \subseteq Pages
    BY <1>0, PagesAre
  <1>4. /\ ResumeMarks \in Marks /\ ResumeMarks.visited = last.visited
        /\ ResumeMarks.pending = last.pending \union (RootPages(manifest.root) \ last.visited)
    BY <1>1, <1>2, <1>3 DEF Marks
  <1>5. /\ Traced(ResumeMarks)
        /\ RootPages(manifest.root) \subseteq ResumeMarks.visited \union ResumeMarks.pending
    BY <1>1, <1>4 DEF Traced
  <1> QED
    BY <1>0, <1>4, <1>5, MarkingKeeps DEF BeginMark

\* What is known of a pass that has marks.
LEMMA PassIs ==
    ASSUME CacheInv, holder # None, holder.marks # None
    PROVE  /\ holder.marks \in Marks /\ Traced(holder.marks) /\ manifest # None
           /\ RootPages(manifest.root) \subseteq holder.marks.visited \union holder.marks.pending
           /\ holder.job = "reclaim" /\ holder.step = "mark"
           /\ manifest.root \in Trees
  BY HolderIs DEF CacheInv, CacheTyped, MarksClosed, Holders, Maybe, Manifests

\* A page is marked, or cannot be read.
LEMMA MarkKeeps ==
    ASSUME CacheInv, holder # None, holder.marks # None, NEW page \in holder.marks.pending,
           Mark(page)
    PROVE  CacheInv'
  <1>0. /\ holder.marks \in Marks /\ Traced(holder.marks) /\ manifest # None
        /\ RootPages(manifest.root) \subseteq holder.marks.visited \union holder.marks.pending
        /\ holder.job = "reclaim" /\ holder.step = "mark"
    BY PassIs
  <1>1. CASE page \in pages
    <2> DEFINE seen == holder.marks.visited \union {page}
               rest == (holder.marks.pending \union Children(page)) \ seen
               marks == [pending |-> rest, visited |-> seen]
    <2>1. marks \in Marks
      BY <1>0, PagesAre DEF Marks
    <2>2. marks.visited = seen /\ marks.pending = rest
      OBVIOUS
    <2>3. seen \union rest = holder.marks.visited \union holder.marks.pending \union Children(page)
      OBVIOUS
    <2>4. Traced(marks)
      <3> SUFFICES ASSUME NEW q \in seen PROVE Children(q) \subseteq seen \union rest
        BY <2>2 DEF Traced
      <3> QED
        BY <1>0, <2>3 DEF Traced
    <2>5. RootPages(manifest.root) \subseteq marks.visited \union marks.pending
      BY <1>0, <2>2, <2>3
    <2>6. holder' = [holder EXCEPT !.step = "mark", !.marks = marks]
      <3>1. holder \in Holders
        BY HolderIs DEF CacheInv
      <3>2. holder' = [holder EXCEPT !.marks = marks]
        BY <1>1 DEF Mark
      <3> HIDE DEF marks
      <3> QED
        BY <1>0, <3>1, <3>2 DEF Holders
    <2>7. UNCHANGED <<version, journal, primary, cacheVars, kept, answer, mishaps, passes>>
      BY <1>1 DEF Mark, cacheVars
    <2> HIDE DEF marks
    <2> QED
      BY <1>0, <2>1, <2>4, <2>5, <2>6, <2>7, MarkingKeeps
  <1>2. CASE page \notin pages
    <2>1. pages' \in SUBSET Pages
      BY <1>2 DEF Mark, CacheInv, CacheTyped
    <2> QED
      BY <1>2, <2>1, CheckpointKeeps DEF Mark, Maybe
  <1> QED
    BY <1>1, <1>2

\* A pass stops, or sweeps.
LEMMA SweepKeeps ==
    ASSUME CacheInv, PauseMark \/ (\E gone : Sweep(gone) /\ holder.marks # None)
    PROVE  CacheInv'
  <1>0. holder # None /\ holder.marks \in Maybe(Marks)
    BY HolderIs DEF PauseMark, Sweep, At, CacheInv, Holders
  <1>1. holder.marks # None => Traced(holder.marks)
    BY <1>0, PassIs
  <1>2. CASE PauseMark
    <2>1. pages' \in SUBSET Pages
      BY <1>2 DEF PauseMark, CacheInv, CacheTyped
    <2> QED
      BY <1>0, <1>1, <1>2, <2>1, CheckpointKeeps DEF PauseMark
  <1>3. ASSUME NEW gone, Sweep(gone) PROVE CacheInv'
    <2> DEFINE marks == IF gone = Unmarked THEN None ELSE holder.marks
    <2>1. marks \in Maybe(Marks) /\ (marks # None => Traced(marks))
      BY <1>0, <1>1 DEF Maybe
    <2>2. pages' \in SUBSET Pages
      BY <1>3 DEF Sweep, CacheInv, CacheTyped
    <2>3. Checkpoint(marks)
      BY <1>3 DEF Sweep
    <2> HIDE DEF marks
    <2> QED
      BY <1>0, <1>3, <2>1, <2>2, <2>3, CheckpointKeeps DEF Sweep
  <1> QED
    BY <1>2, <1>3

\* A part of the cache is lost.
LEMMA LoseKeeps ==
    ASSUME CacheInv, Lose
    PROVE  CacheInv'
  <1>0. holder = None /\ holder' = None /\ answer' = None
    BY DEF Lose, CacheInv, AnswerOpen
  <1>c. /\ manifest' \in {manifest, None} /\ progress' \in {progress, None}
        /\ pages' \in SUBSET Pages
        /\ UNCHANGED <<version, journal, primary, kept, passes>>
    BY DEF Lose, CacheInv, CacheTyped
  <1>1. CacheTyped'
    <2>1. mishaps' \in 0 .. MaxMishaps
      BY CacheAssumption DEF Lose, CacheInv, CacheTyped
    <2> QED
      BY <1>0, <1>c, <2>1 DEF CacheInv, CacheTyped, Maybe
  <1>2. TreesDescribe'
    <2>1. Describes(manifest', journal, primary)
      BY <1>c DEF CacheInv, TreesDescribe, Describes
    <2> QED
      BY <1>0, <1>c, <2>1, TreesKept
  <1> QED
    BY <1>0, <1>c, <1>1, <1>2, NoAnswer
    DEF CacheInv, VersionsRespected, StepsReached, MarksClosed

(***************************************************************************)
(* The theorems.                                                           *)
(***************************************************************************)
\* The initial states satisfy the invariant.
LEMMA CacheInitInv == CacheInit => CacheInv
  <1> SUFFICES ASSUME CacheInit PROVE CacheInv
    OBVIOUS
  <1>1. CacheTyped
    <2>1. NoMemory \in Memories
      BY DEF NoMemory, Memories, Maybe
    <2>2. primary \in [Receipts -> States]
      BY DEF CacheInit, States
    <2>3. journal \in Journals
      BY DEF CacheInit, Journals, Maybe
    <2> QED
      BY <2>1, <2>2, <2>3, CacheAssumption DEF CacheInit, CacheTyped, Maybe
  <1>2. TreesDescribe
    BY DEF CacheInit, TreesDescribe, Describes, Remembers, NoMemory
  <1>3. VersionsRespected
    BY DEF CacheInit, VersionsRespected, Settled
  <1> QED
    BY <1>1, <1>2, <1>3
    DEF CacheInit, CacheInv, StepsReached, MarksClosed, AnswerOpen, LookupExact

\* Every step keeps it.
LEMMA CacheNextInv == CacheInv /\ [CacheNext]_ivars => CacheInv'
  <1> SUFFICES ASSUME CacheInv, [CacheNext]_ivars PROVE CacheInv'
    OBVIOUS
  <1>1. ASSUME NEW job \in {"transaction", "contract7", "prune", "migration", "reclaim"},
               NEW keeps \in BOOLEAN, EnterMutex(job, keeps)
        PROVE  CacheInv'
    BY <1>1, EnterKeeps
  <1>2. CASE Recover \/ GiveUp \/ Kill
    BY <1>2, RecoverKeeps, EndsKeep
  <1>3. ASSUME NEW tuple \in Tuples,
               \/ LookupCached(tuple) \/ LookupUnpublished(tuple)
               \/ \E outcome \in Outcomes : LookupRebuilt(tuple, outcome)
        PROVE  CacheInv'
    BY <1>3, LookupCachedKeeps, LookupUnpublishedKeeps, LookupRebuiltKeeps
  <1>4. ASSUME NEW r \in Receipts, Put(r) \/ CondemnRecord(r) \/ RewriteNote(r) PROVE CacheInv'
    BY <1>4, PutKeeps, RecordStepsKeep
  <1>5. CASE Decide \/ RollForward \/ Fence \/ DiscardCache \/ EndPrune \/ SwitchVersion
    BY <1>5, DecideKeeps, RollForwardKeeps, FenceKeeps, DiscardCacheKeeps, EndPruneKeeps,
       SwitchVersionKeeps
  <1>6. ASSUME NEW outcome \in Outcomes, IndexCommit(outcome) \/ RebuildRequired(outcome)
        PROVE  CacheInv'
    BY <1>6, IndexCommitKeeps, RebuildRequiredKeeps
  <1>7. CASE BeginMark \/ PauseMark
    BY <1>7, BeginMarkKeeps, SweepKeeps
  <1>8. ASSUME holder # None, holder.marks # None,
               \/ \E page \in holder.marks.pending : Mark(page)
               \/ \E gone \in {Unmarked} \union {{page} : page \in Unmarked} : Sweep(gone)
        PROVE  CacheInv'
    BY <1>8, MarkKeeps, SweepKeeps
  <1>9. CASE Lose
    BY <1>9, LoseKeeps
  <1>10. CASE UNCHANGED ivars
    <2>1. /\ UNCHANGED <<version, journal, primary, kept, holder, answer, mishaps, passes>>
          /\ UNCHANGED <<manifest, pages, progress>>
      BY <1>10 DEF ivars, cacheVars
    <2>2. CacheTyped' /\ TreesDescribe' /\ VersionsRespected' /\ StepsReached' /\ MarksClosed'
      BY <2>1 DEF CacheInv, CacheTyped, TreesDescribe, VersionsRespected, StepsReached, MarksClosed
    <2>3. AnswerOpen' /\ LookupExact'
      BY <2>1 DEF CacheInv, AnswerOpen, LookupExact, Current
    <2> QED
      BY <2>2, <2>3 DEF CacheInv
  <1> QED
    BY <1>1, <1>2, <1>3, <1>4, <1>5, <1>6, <1>7, <1>8, <1>9, <1>10 DEF CacheNext

\* The invariant holds throughout.
LEMMA CacheInvariant == CacheSpec => []CacheInv
  BY CacheInitInv, CacheNextInv, PTL DEF CacheSpec

\* The files of the cache, the journal and the process under the mutex are typed.
THEOREM CacheTypeCorrect == CacheSpec => []CacheTyped
  <1>1. CacheInv => CacheTyped
    BY DEF CacheInv
  <1> QED
    BY <1>1, CacheInvariant, PTL

\* Whatever is published, lost, kept in memory or cut short, a lookup is
\* answered exactly, and a sweep takes no page the manifest reaches.
THEOREM IndexServes == CacheSpec => []IndexServesStore
  <1>1. CacheInv => LivePagesMarked
    <2> SUFFICES ASSUME CacheInv, manifest # None, holder # None, holder.marks # None,
                        holder.marks.pending = {}
                 PROVE  TreePages(manifest.root) \subseteq holder.marks.visited
      BY DEF LivePagesMarked
    <2>1. RootPages(manifest.root) \subseteq holder.marks.visited /\ Traced(holder.marks)
      BY PassIs
    <2> QED
      BY <2>1 DEF TreePages, Traced
  <1>2. CacheInv => IndexServesStore
    BY <1>1 DEF CacheInv, IndexServesStore
  <1> QED
    BY <1>2, CacheInvariant, PTL

===============================================================================
