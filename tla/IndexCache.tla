------------------------------ MODULE IndexCache ------------------------------
(***************************************************************************)
(* The index cache of the store, and the migration that makes a store of   *)
(* contract 7 one of contract 8 (packages/storage-filesystem/src:          *)
(* index-cache, index-io, index-reclaim, index-reclaim-progress, identity, *)
(* store-migration, transaction-view and the parts of store they serve).   *)
(*                                                                         *)
(* The index is the one of receipts by state: a page of the inbox asks it. *)
(* It is never authority.  A manifest names the journal generation it      *)
(* describes and the root of a tree of content-addressed pages; nothing of *)
(* it is flushed, and any part may be lost.  All writers work under the    *)
(* writer mutex, so one `holder' stands for the process inside; JournalStore*)
(* has the steps of a transaction's own publications.                      *)
(*                                                                         *)
(* IndexTree has the shape of a tree.  Here a tree is what it files, its   *)
(* root page one leaf, and the ids of each state a page of their own.      *)
(***************************************************************************)
EXTENDS Naturals, FiniteSets

CONSTANTS
    Receipts,    \* the receipts there may be
    Notes,       \* those of messages that ask for nothing: obligation "none"
    MaxGen,      \* bound: how many times the journal is published
    MaxPasses,   \* bound: how many times pages are reclaimed
    MaxMishaps,  \* bound: how many times a process is killed under the mutex
                 \* or a part of the cache is lost
    None

VARIABLES
    version,   \* storeVersion of protocol.json
    journal,   \* the active journal: [gen, entry], entry None when idle
    primary,   \* primary[r]: what the receipt's record says
    manifest,  \* indexes/v2/cache.json: [gen, root], or None
    pages,     \* the pages under indexes/v2/pages
    progress,  \* indexes/v2/reclaim.json: [pending, visited], None if done
    kept,      \* what a store left open remembers between its transactions;
               \* None in the behaviours that no store stays open in
    holder,    \* the process under the mutex, or None
    answer,    \* the last lookup of the transaction under way, or None
    mishaps,   \* so far
    passes     \* reclaims begun so far

cacheVars == <<manifest, pages, progress>>
ivars == <<version, journal, primary, cacheVars, kept, holder, answer, mishaps, passes>>

\* A receipt's record: retrieved records say whether their message asked for
\* anything ("read"), except the ones contract 7 wrote ("seen").
States == {"absent", "pending", "seen", "read"}
Tuples == {"pending", "retrieved"}

\* indexKeysFor: what can still be listed.  A note that says it is one is not.
KeysFor(r, state) ==
    CASE state = "absent" -> {}
      [] state = "pending" -> {"pending"}
      [] state = "seen" -> {"retrieved"}
      [] state = "read" -> IF r \in Notes THEN {} ELSE {"retrieved"}

\* No record staged, and records laid over others.
Nothing == [r \in {} |-> "absent"]
Over(staged, records) ==
    [r \in Receipts |-> IF r \in DOMAIN staged THEN staged[r] ELSE records[r]]

Filed(records) == [t \in Tuples |-> {r \in Receipts : t \in KeysFor(r, records[r])}]

-----------------------------------------------------------------------------
\* A page's name is the hash of its content, so its content names it here.
LeafPage(root) == <<"leaf", root>>
GroupPage(ids) == <<"group", ids>>

Children(page) ==
    IF page[1] = "leaf" THEN {GroupPage(page[2][t]) : t \in {u \in Tuples : page[2][u] # {}}}
    ELSE {}

Empty(root) == \A t \in Tuples : root[t] = {}

RootPages(root) == IF Empty(root) THEN {} ELSE {LeafPage(root)}

TreePages(root) == RootPages(root) \union UNION {Children(page) : page \in RootPages(root)}

\* The pages a lookup of one tuple reads.
Route(root, tuple) ==
    RootPages(root) \union (IF root[tuple] = {} THEN {} ELSE {GroupPage(root[tuple])})

\* What the files and a process hold.
Maybe(S) == S \union {None}
Entries == UNION {[S -> States] : S \in SUBSET Receipts}
Trees == [Tuples -> SUBSET Receipts]
Pages == {LeafPage(root) : root \in Trees} \union {GroupPage(ids) : ids \in SUBSET Receipts}
Manifests == [gen : Nat, root : Trees]
Marks == [pending : SUBSET Pages, visited : SUBSET Pages]
Memories == [validated : Maybe([gen : Nat, root : Trees, read : SUBSET Pages]),
             unpublished : Maybe(Manifests)]
Holders ==
    [job : {"transaction", "contract7", "prune", "migration", "reclaim"}, keeps : BOOLEAN,
     step : {"opened", "decided", "applied", "fenced", "pruning", "indexed", "mark"},
     staged : Entries, before : Nat, deltas : SUBSET [tuple : Tuples, id : Receipts, put : BOOLEAN],
     memory : Memories, marks : Maybe(Marks)]

ASSUME CacheAssumption ==
    /\ Notes \subseteq Receipts
    /\ MaxGen \in Nat /\ MaxPasses \in Nat /\ MaxMishaps \in Nat
    /\ None \notin Entries \union Memories \union Holders

NoMemory == [validated |-> None, unpublished |-> None]

Holding(job, keeps) ==
    [job |-> job, keeps |-> keeps, step |-> "opened", staged |-> Nothing, before |-> 0, deltas |-> {},
     memory |-> IF keeps THEN kept ELSE NoMemory, marks |-> None]

At(job, step) ==
    /\ holder # None
    /\ holder.job = job /\ holder.step = step
    /\ step = "opened" => journal.entry = None

\* The process leaves the mutex; an open store keeps what it remembers.
Leave ==
    /\ holder' = None /\ answer' = None
    /\ kept' = IF holder.keeps THEN holder.memory ELSE kept

\* Pages are written before the manifest that names them, and either may fail
\* or be cut short.
Outcomes == {"published", "pages", "nothing"}

Publish(root, outcome) ==
    /\ pages' = IF outcome = "nothing" THEN pages ELSE pages \union TreePages(root)
    /\ manifest' = IF outcome = "published" THEN [gen |-> journal'.gen, root |-> root] ELSE manifest
    /\ UNCHANGED progress

CacheInit ==
    /\ \/ version = 7 /\ primary = [r \in Receipts |-> IF r \in Notes THEN "seen" ELSE "pending"]
       \/ version = 8 /\ primary = [r \in Receipts |-> "absent"]
    /\ journal = [gen |-> 0, entry |-> None]
    /\ manifest = None /\ pages = {} /\ progress = None
    /\ kept \in {NoMemory, None}
    /\ holder = None /\ answer = None
    /\ mishaps = 0 /\ passes = 0

-----------------------------------------------------------------------------
(* Who may hold the mutex, by the identity the store has when it is opened.*)

\* A migration is run once every other user of the store has stopped.  What a
\* sweep takes from a store left open is what Lose takes from it, so pages are
\* reclaimed only in behaviours without one.
EnterMutex(job, keeps) ==
    /\ holder = None
    /\ keeps => job = "transaction" /\ kept # None
    /\ CASE job = "contract7" -> version = 7
         [] job = "migration" -> kept \in {NoMemory, None}
         [] job = "reclaim" -> version = 8 /\ kept = None
         [] OTHER -> version = 8
    /\ holder' = Holding(job, keeps)
    /\ kept' = IF keeps THEN NoMemory ELSE kept
    /\ job = "reclaim" => passes < MaxPasses
    /\ passes' = IF job = "reclaim" THEN passes + 1 ELSE passes
    /\ UNCHANGED <<version, journal, primary, cacheVars, answer, mishaps>>

\* A transaction someone died in is completed first.
Recover ==
    /\ holder # None /\ holder.step = "opened" /\ journal.entry # None
    /\ primary' = Over(journal.entry, primary)
    /\ journal' = [gen |-> journal.gen + 1, entry |-> None]
    /\ UNCHANGED <<version, cacheVars, kept, holder, answer, mishaps, passes>>

\* A job ends before it decided anything: it had nothing to write, or its
\* callback or its deadline stopped it.
GiveUp ==
    /\ holder # None /\ holder.step \in {"opened", "indexed"}
    /\ Leave
    /\ UNCHANGED <<version, journal, primary, cacheVars, mishaps, passes>>

Kill ==
    /\ holder # None /\ mishaps < MaxMishaps
    /\ mishaps' = mishaps + 1
    /\ holder' = None /\ answer' = None
    /\ UNCHANGED <<version, journal, primary, cacheVars, kept, passes>>

-----------------------------------------------------------------------------
(* Lookups.                                                                *)

Current(r) == IF r \in DOMAIN holder.staged THEN holder.staged[r] ELSE primary[r]

\* select: what the tree files, with what the transaction staged over it.
Selected(root, tuple) ==
    LET staged == DOMAIN holder.staged
        ids == (root[tuple] \ staged)
               \union {r \in staged : tuple \in KeysFor(r, holder.staged[r])}
    IN {r \in ids : Current(r) # "absent"}

\* verify: every id found is a record that has the key.
Verified(root, tuple) == \A r \in Selected(root, tuple) : tuple \in KeysFor(r, Current(r))

Answer(root, tuple) == [tuple |-> tuple, refused |-> ~Verified(root, tuple),
                        ids |-> Selected(root, tuple)]

\* Mutant: a manifest is good for whatever the journal has published since.
ValidAnyGeneration(generation) ==
    manifest # None /\ RootPages(manifest.root) \subseteq pages

\* The manifest, if it describes this generation and its root can be read.
Valid(generation) ==
    /\ manifest # None
    /\ manifest.gen = generation
    /\ RootPages(manifest.root) \subseteq pages

Remembered == holder.memory.validated # None /\ holder.memory.validated.gen = journal.gen

Validated ==
    IF Remembered THEN holder.memory.validated
    ELSE IF Valid(journal.gen)
    THEN [gen |-> journal.gen, root |-> manifest.root, read |-> RootPages(manifest.root)]
    ELSE None

\* The cache answers: a page is read from its file once.
Cached(tuple) ==
    /\ Validated # None
    /\ Route(Validated.root, tuple) \subseteq Validated.read \union pages
    /\ Verified(Validated.root, tuple)

LookupCached(tuple) ==
    /\ At("transaction", "opened") /\ Cached(tuple)
    /\ answer' = Answer(Validated.root, tuple)
    /\ holder' = [holder EXCEPT !.memory.validated =
           [Validated EXCEPT !.read = @ \union Route(Validated.root, tuple)]]
    /\ UNCHANGED <<version, journal, primary, cacheVars, kept, mishaps, passes>>

InMemory ==
    /\ holder.memory.unpublished # None
    /\ holder.memory.unpublished.gen = journal.gen

LookupUnpublished(tuple) ==
    /\ At("transaction", "opened") /\ ~Cached(tuple) /\ InMemory
    /\ answer' = Answer(holder.memory.unpublished.root, tuple)
    /\ holder' = [holder EXCEPT !.memory.validated = None]
    /\ UNCHANGED <<version, journal, primary, cacheVars, kept, mishaps, passes>>

\* Every record is read, and the tree made of them published if it can be.
LookupRebuilt(tuple, outcome) ==
    /\ At("transaction", "opened") /\ ~Cached(tuple) /\ ~InMemory
    /\ UNCHANGED <<version, journal, primary, kept, mishaps, passes>>
    /\ Publish(Filed(primary), outcome)
    /\ answer' = Answer(Filed(primary), tuple)
    /\ holder' = [holder EXCEPT !.memory =
           [validated |-> None,
            unpublished |-> IF outcome = "published" THEN None
                            ELSE [gen |-> journal.gen, root |-> Filed(primary)]]]

-----------------------------------------------------------------------------
(* Transactions.                                                           *)

\* The record after the receipt's next transition.
Advanced(state) ==
    IF state = "absent" THEN "pending"
    ELSE IF holder.job = "contract7" THEN "seen" ELSE "read"

Put(r) ==
    /\ At("transaction", "opened") \/ At("contract7", "opened")
    /\ DOMAIN holder.staged = {}
    /\ primary[r] \in {"absent", "pending"}
    /\ holder' = [holder EXCEPT !.staged = [q \in {r} |-> Advanced(primary[q])]]
    /\ answer' = None
    /\ UNCHANGED <<version, journal, primary, cacheVars, kept, mishaps, passes>>

\* prepareDeltas: the keys the staged records leave and the ones they take.
Deltas(staged, records) ==
    LET old(r) == KeysFor(r, records[r])
        new(r) == KeysFor(r, staged[r])
    IN {[tuple |-> t, id |-> r, put |-> t \in new(r)] :
           t \in UNION {(old(r) \ new(r)) \union (new(r) \ old(r)) : r \in DOMAIN staged},
           r \in DOMAIN staged}

Decide ==
    /\ At("transaction", "opened") \/ At("contract7", "opened")
    /\ DOMAIN holder.staged # {} /\ journal.gen + 1 < MaxGen
    /\ journal' = [gen |-> journal.gen + 1, entry |-> holder.staged]
    /\ holder' = [holder EXCEPT !.step = "decided", !.before = journal.gen,
                                !.deltas = Deltas(holder.staged, primary)]
    /\ answer' = None
    /\ UNCHANGED <<version, primary, cacheVars, kept, mishaps, passes>>

\* ACC of contract 7 keeps its cache elsewhere and is done here.
RollForward ==
    /\ At("transaction", "decided") \/ At("contract7", "decided")
    /\ primary' = Over(journal.entry, primary)
    /\ journal' = [gen |-> journal.gen + 1, entry |-> None]
    /\ IF holder.job = "contract7" THEN Leave
       ELSE holder' = [holder EXCEPT !.step = "applied"] /\ UNCHANGED <<kept, answer>>
    /\ UNCHANGED <<version, cacheVars, mishaps, passes>>

\* The tree with the deltas applied.
Applied(root, deltas) ==
    [t \in Tuples |-> (root[t] \ {d.id : d \in {e \in deltas : e.tuple = t /\ ~e.put}})
                      \union {d.id : d \in {e \in deltas : e.tuple = t /\ e.put}}]

\* commit: the manifest moves with the journal only if it was valid before
\* and the pages the deltas change can be read.
IndexCommit(outcome) ==
    /\ At("transaction", "applied")
    /\ UNCHANGED <<version, journal, primary, mishaps, passes>>
    /\ IF /\ Valid(holder.before)
          /\ \A d \in holder.deltas : Route(manifest.root, d.tuple) \subseteq pages
       THEN Publish(Applied(manifest.root, holder.deltas), outcome)
       ELSE outcome = "nothing" /\ UNCHANGED cacheVars
    /\ Leave

-----------------------------------------------------------------------------
(* Prune: the journal is open, with nothing to publish, while it works.    *)

Fence ==
    /\ At("prune", "opened") /\ journal.gen + 1 < MaxGen
    /\ journal' = [gen |-> journal.gen + 1, entry |-> Nothing]
    /\ holder' = [holder EXCEPT !.step = "fenced"]
    /\ UNCHANGED <<version, primary, cacheVars, kept, answer, mishaps, passes>>

\* An unsafe cache directory stays where it is.
DiscardCache ==
    /\ At("prune", "fenced")
    /\ \/ manifest' = None /\ pages' = {} /\ progress' = None
       \/ UNCHANGED cacheVars
    /\ holder' = [holder EXCEPT !.step = "pruning"]
    /\ UNCHANGED <<version, journal, primary, kept, answer, mishaps, passes>>

CondemnRecord(r) ==
    /\ At("prune", "pruning") /\ primary[r] # "absent"
    /\ primary' = [primary EXCEPT ![r] = "absent"]
    /\ UNCHANGED <<version, journal, cacheVars, kept, holder, answer, mishaps, passes>>

EndPrune ==
    /\ At("prune", "pruning")
    /\ journal' = [gen |-> journal.gen + 1, entry |-> None]
    /\ Leave
    /\ UNCHANGED <<version, primary, cacheVars, mishaps, passes>>

-----------------------------------------------------------------------------
(* Migration.                                                              *)

Unsettled == {r \in Notes : primary[r] = "seen"}

\* A retrieved note is rewritten with its message's obligation, in place and
\* without the journal.
RewriteNote(r) ==
    /\ At("migration", "opened") /\ r \in Unsettled
    /\ primary' = [primary EXCEPT ![r] = "read"]
    /\ UNCHANGED <<version, journal, cacheVars, kept, holder, answer, mishaps, passes>>

\* The whole index must be published; otherwise the migration stops here.
RebuildRequired(outcome) ==
    /\ At("migration", "opened") /\ Unsettled = {}
    /\ UNCHANGED <<version, journal, primary, mishaps, passes>>
    /\ Publish(Filed(primary), outcome)
    /\ IF outcome = "published" /\ version = 7
       THEN holder' = [holder EXCEPT !.step = "indexed"] /\ UNCHANGED <<kept, answer>>
       ELSE Leave

SwitchVersion ==
    /\ At("migration", "indexed")
    /\ version' = 8
    /\ Leave
    /\ UNCHANGED <<journal, primary, cacheVars, mishaps, passes>>

-----------------------------------------------------------------------------
(* Reclaiming pages: mark what the manifest reaches, over as many passes   *)
(* as it takes, then sweep the rest.                                       *)

\* What the last pass left off with, and the root of the manifest there is now.
ResumeMarks ==
    LET last == IF progress = None THEN [pending |-> {}, visited |-> {}] ELSE progress
    IN [last EXCEPT !.pending = @ \union (RootPages(manifest.root) \ last.visited)]

BeginMark ==
    /\ At("reclaim", "opened") /\ manifest # None /\ manifest.gen = journal.gen
    /\ holder' = [holder EXCEPT !.step = "mark", !.marks = ResumeMarks]
    /\ UNCHANGED <<version, journal, primary, cacheVars, kept, answer, mishaps, passes>>

\* A checkpoint replaces the last one or fails; either way the pass is over.
Checkpoint(marks) ==
    /\ progress' \in {marks, progress}
    /\ Leave

Mark(page) ==
    /\ At("reclaim", "mark") /\ page \in holder.marks.pending
    /\ IF page \in pages
       THEN /\ holder' = [holder EXCEPT !.marks =
                  [pending |-> (@.pending \union Children(page)) \ (@.visited \union {page}),
                   visited |-> @.visited \union {page}]]
            /\ UNCHANGED <<progress, kept, answer>>
       ELSE Checkpoint(None)
    /\ UNCHANGED <<version, journal, primary, manifest, pages, mishaps, passes>>

\* The pass has used up what it may spend.
PauseMark ==
    /\ At("reclaim", "mark")
    /\ Checkpoint(holder.marks)
    /\ UNCHANGED <<version, journal, primary, manifest, pages, mishaps, passes>>

Unmarked == pages \ holder.marks.visited

\* The order of names, the cursor and the budget decide how many of the
\* unmarked pages a pass comes to: one, or all of them.
Sweep(gone) ==
    /\ At("reclaim", "mark") /\ holder.marks.pending = {}
    /\ pages' = pages \ gone
    /\ Checkpoint(IF gone = Unmarked THEN None ELSE holder.marks)
    /\ UNCHANGED <<version, journal, primary, manifest, mishaps, passes>>

\* Nothing of the cache is flushed, and a file of it may be damaged.
Lose ==
    /\ holder = None /\ mishaps < MaxMishaps /\ mishaps' = mishaps + 1
    /\ \/ \E page \in pages : pages' = pages \ {page} /\ UNCHANGED <<manifest, progress>>
       \/ manifest # None /\ manifest' = None /\ UNCHANGED <<pages, progress>>
       \/ progress # None /\ progress' = None /\ UNCHANGED <<pages, manifest>>
    /\ UNCHANGED <<version, journal, primary, kept, holder, answer, passes>>

CacheNext ==
    \/ \E job \in {"transaction", "contract7", "prune", "migration", "reclaim"},
          keeps \in BOOLEAN : EnterMutex(job, keeps)
    \/ Recover \/ GiveUp \/ Kill
    \/ \E tuple \in Tuples :
          \/ LookupCached(tuple) \/ LookupUnpublished(tuple)
          \/ \E outcome \in Outcomes : LookupRebuilt(tuple, outcome)
    \/ \E r \in Receipts : Put(r) \/ CondemnRecord(r) \/ RewriteNote(r)
    \/ Decide \/ RollForward
    \/ \E outcome \in Outcomes : IndexCommit(outcome) \/ RebuildRequired(outcome)
    \/ Fence \/ DiscardCache \/ EndPrune \/ SwitchVersion
    \/ BeginMark \/ PauseMark
    \/ holder # None /\ holder.marks # None /\
          \/ \E page \in holder.marks.pending : Mark(page)
          \/ \E gone \in {Unmarked} \union {{page} : page \in Unmarked} : Sweep(gone)
    \/ Lose

CacheSpec == CacheInit /\ [][CacheNext]_ivars

-----------------------------------------------------------------------------
\* An index that was published for another generation, cut short, partly lost
\* or kept in memory never shows: a lookup is answered, with exactly the
\* records that have the key once the transaction's own writes are counted,
\* and once the store is of contract 8 no retrieved note is among them,
\* wherever a migration was stopped before.
LookupExact ==
    answer # None =>
        /\ ~answer.refused
        /\ answer.ids = {r \in Receipts : answer.tuple \in KeysFor(r, Current(r))}
        /\ answer.tuple = "retrieved" => answer.ids \intersect Notes = {}

\* When a pass begins to sweep, everything the manifest of this moment reaches
\* is marked, though the marks were left by passes that other writers'
\* commits came between.
LivePagesMarked ==
    (manifest # None /\ holder # None /\ holder.marks # None /\ holder.marks.pending = {}) =>
        TreePages(manifest.root) \intersect pages \subseteq holder.marks.visited

\* The cache serves the store: what it answers is so, and what is in use is kept.
IndexServesStore == LookupExact /\ LivePagesMarked
==============================================================================
