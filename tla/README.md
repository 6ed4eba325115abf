# Agents can communicate: a verification development

ACC lets several coding agents (Claude Code, Codex, Gemini CLI, Grok, Kimi,
Antigravity) that work in one directory see each other, claim resources and send
messages. There is no server. Every client runs short-lived processes (hooks and
the `acc` command), and everything they share is files in a workspace directory,
changed by atomic renames under a mutex that is itself a directory. What can go
wrong is therefore what can go wrong between processes that are killed at any
moment, read without locks, and act on what they read a while ago. That is what
the modules here model.

Contents: [components](#the-system-and-its-parts), [modules](#modules-and-code),
[runs](#runs), [fairness](#fairness), [proofs](#proofs),
[findings and observations](#findings-and-observations),
[limits](#what-is-only-model-checked-what-is-not-modelled), [plan](#plan).

To repeat the work: `tlc -workers 2 -config X.cfg MCX` for a run (the two runs
that are expected to fail use `MCJournalInspect.cfg` with `MCJournalStore` and
`MCDeliveryStop.cfg` with `MCDelivery`), `tlapm XProof.tla` for the proofs of a
module.

## The system and its parts

Paths are below `src/packages/` unless they say otherwise.

| part | state | operations | how it interacts | what is hard | what makes it correct |
|---|---|---|---|---|---|
| manager lock (`cli/src/managed-runtime/mutex.mjs`) | `manager.lock`, candidates, tombstones | acquire, reclaim from a dead owner, compact tombstones, release | serialises installers and upgrades of the managed runtime | a contender acts on an owner it read long ago; compaction removes what stops it; death at any point | one holder; a stale observer is stopped; a live owner keeps its lock; a dead one does not block |
| writer mutex (`storage-filesystem/src/writer-mutex.mjs`) | `writer.lock`, candidates, tombstones, owner records with time stamps | acquire, judge by pid and age, reclaim, release, give up | every write of a store runs under it | as above, plus recycled pids, unflushed records after a power failure, deadlines | one writer; no lock left behind; an abandoned lock is reclaimed |
| transactional store (`storage-filesystem/src/store.mjs`, `journal.mjs`, `event-floor.mjs`) | state records, event files, journal entries, floor | transaction, direct publication, roll-forward, `eventsSince` | the services of `core` run inside its transactions | a writer killed between two publications; sequence numbers found by listing files; a reader without a lock | a transaction is atomic; a sequence number is issued once; a reader learns of what it missed |
| active journal (`active-journal.mjs`) | two alternating slots | create, open, idle, read | names the transaction in flight for writers, readers and indexes | readers combine slots of different moments; two processes create it | a read settles on a pair that existed; the authority never goes back |
| reclamation and inspection (`reclaim.mjs`, `recovery.mjs`) | doomed directories, floor | trim, condemn retired entries, inspect, repair | under the writer mutex, beside readers | removing what recovery or a reader needs | an open journal stays recoverable; trimming takes a prefix |
| sessions (`core/src/sessions.mjs`, `session-opening.mjs`, `materialisation.mjs`, `intents.mjs`) | an ephemeral and a durable record and intent for each session id | open, resume, heartbeat, set and clear intent, close, promote | two clients may use one id; the second live session materialises the workspace | an operation finds the record in one area and acts after it moved; a hook killed half way through promotion | a live owner is neither replaced nor refused; nothing is lost or revived by promotion |
| resource names (`protocol/src/resources.mjs`) | none | normalise, accept, overlap | claims and the guard compare normal forms | dots, empty segments, absolute paths, globs | the normal form denotes what was typed; overlap is intersection |
| claims (`core/src/claims.mjs`) | claims with owner, mode, lease | acquire, renew, release, force-release, finish, prune | the write guard of a hook asks for them | leases lapse and come back; generations of an id change | conflicting claims are never live together |
| receipts and inbox (`core/src/receipts.mjs`, `inbox.mjs`, `next-turn-delivery.mjs`, `conversations.mjs`) | a receipt and its offer for each message, events | record, offer, repeat, read, acknowledge, reply | written by router, hooks and commands | three kinds of process commit about one message, each after an effect that cannot be undone | a receipt claims no more than happened; no message is forgotten |
| delivery router (`delivery-router/src/router.mjs`) | none of its own | offer a recorded message over a client's native transport | reads sessions and bindings, calls an adapter, commits | every look may be stale when the transport is called | as for receipts |
| hook runner (`hook-runner/src/runner.mjs`, `src/bin/entrypoints/hook-output.mjs`, `adapter-sdk/src/context-projector.mjs`) | stdout of one hook | session start, turn, Stop, guard | selects, projects into a byte budget, prints, then commits | killed between printing and committing; the budget drops bodies | as for receipts |
| sessions of a conversation (`hook-runner/src/runner.mjs`, `session-lifecycle.mjs`) | the room of a conversation, a session binding in each room, a lifecycle lock | session start, turn, heartbeat, session end, registration by a peer, detach, replace | every hook of every client; opens sessions, binds native endpoints | hooks of one conversation run beside each other, in two rooms, beside a restarted client, and are killed by their budget | one open session; the binding names it; a live client is found again |
| write guard (`adapter-sdk/src/shell-writes.mjs`, `adapter-*/src/hooks.mjs`, `beforeTool`) | none; a heartbeat | read the files a tool call would write, resolve them, allow or deny | asks for the claims | a shell line means something else than its words; links; several spellings of one file | a write to what another session claimed is denied, and nothing else is |
| delivery bindings (`core/src/delivery-bindings.mjs`) | an endpoint name and a lease for each session | publish, refresh, retire | the router reads them | a refresh beside a new publication | a retired binding is not revived |
| native endpoints (`adapter-{claude-code,kimi,codex,antigravity}/src`) | an endpoint record and wake markers for each session | bind, verify, refresh, close, send | hooks write them, senders of other processes use them | the client restarts, answers late or dies; a sender is killed after it sent | what a binding names is there; a message arrives as often as it is told |
| Antigravity relay (`adapter-antigravity/src`) | a detached process, its registration, its queue | start, bind, renew, push, close | publishes a binding like a hook | two starts, a close beside a bind, senders that give up | a message is pushed once; a closed relay is not published |
| managed runtime (`cli/src/managed-runtime`) | installed generations, `control.json`, leases, pins, holds | admit, stage, publish, activate, reclaim, install, uninstall, settings | under the manager lock; moves the stores to a new contract | a generation is removed while a process runs from it; an activation cut half way | nothing in use is removed; a contract is changed only when nobody holds the old one |
| service maintenance (`cli/src/managed-runtime/maintenance*.mjs`) | `maintenance.json` | ask, approve, stop, activate, start, recover | restarts a client's service for an update | the worker dies between stop and start; the user acts meanwhile | a stopped service comes back, and is stopped only as approved |
| installer (`installer/src`, `adapter-*/src/install.mjs`, `cli/src/install-command.mjs`) | `installs.json`, the clients' own files, the trees ACC writes | install, upgrade, uninstall, live delivery consent | shares files with the user and the client | cut between any two writes; the user edits the same files | ACC takes back what is its own and nothing of the user's; live delivery needs consent |
| index cache (`storage-filesystem/src/index-*.mjs`) | a manifest, content-addressed pages, marks of a sweep | look up, commit, rebuild, fence, reclaim | the inbox asks it inside a transaction | never flushed; any part may be lost or be of another generation | a lookup gives what the records say |
| store migration (`store-migration.mjs`, `identity.mjs`) | the store version | rewrite, build the required index, switch | opening a store waits for it | killed between its parts | the new version is only seen with a usable index |
| stage sweep, other classes of prune, decisions, attention, MCP server, schema | | | | | see the limits |

`PROJECT.json` lists every component with its files and status, and the hazards,
each at its line with the properties that would show it.

## Modules and code

`PROJECT.json` maps every definition to the lines it translates. In all modules
an action is one atomic effect (a rename, a publication, a transaction under the
writer mutex, a call of a transport), and everything a process reads without a
lock is a step of its own, so that other processes run between the read and its
use. Processes die by actions of the environment.

Locks and store:

* **ManagerLock** (`withManagerLock`). A member of `Calls` is one call, known by
  its random token. `lock` is whose directory stands under `manager.lock`,
  `tombs` the retired names, `candidates` what compaction lists. The steps follow
  the loop: prepare, look, judge (a liveness probe), reclaim by rename,
  publish by rename, compact (list, probe, sweep), operate, release.
* **WriterMutex** (`withWriterMutex` on POSIX). As above without compaction, but
  a lock is stale when its process is dead *or* its record is older than
  `STALE_MS`, and a normal release leaves no tombstone. `aged` and `torn` are the
  clock and the power failure. `lapses` is history: what happened that the design
  takes to be too rare. Its names differ from ManagerLock's (`Writers`, `stage`,
  `met`), so that one module may extend both.
* **JournalStore**, **AtomicStore**. One program counter stands for whichever
  process holds the writer mutex. A transaction prepares its entry, is decided by
  the active journal, publishes events and then records, and goes idle; any later
  writer completes an open one first. A transaction that stages one record of a
  permitted kind and no event is published directly. `TrimRaise` and the removals
  after it are `trimEventLog`, `CondemnEntry` is `condemnRetiredJournals`, the
  reader is `eventsSince` with its ceiling, its listing, its file reads and its
  floor as separate steps. AtomicStore is what callers may rely on: records and
  a log that change together, a counter that only grows, a trimmed prefix.
  JournalStore implements it when an open transaction counts as done (`Store`).
* **ActiveJournal**. The two slots, the alternating transitions of the writer,
  openers that look and then publish without overwriting, and readers that read
  slot 0, slot 1 and slot 0 again. Its names begin with J where Delivery has the
  same, so that one module may extend both.
* **IndexCache**. The index of receipts by state, of the four the one that the
  inbox uses. `holder` is the process under the mutex and what it is at: a
  transaction with its lookups, its overlay of what it put, and its index commit;
  a prune, which fences the cache before it removes a record; a pass that marks
  the pages the manifest reaches, in pieces, and sweeps the others; a migration.
  `kept` is what a store that stays open remembers. `Lose` takes any part of the
  cache at any time, since nothing of it is flushed.
* **IndexTree**. The tree itself as a value: leaves that split on the digits of
  a digest, chains where whole digests collide, ids inline or in pages that split
  on their own digests; `Apply`, `Lookup` and `Rebuild` as in `index-tree.mjs`,
  and `Sound`, what `validateIndexPage` accepts.

Sessions, claims, messages:

* **Sessions**. The operations of the session service as programs of hooks, each
  with the steps between which the record may move from the ephemeral to the
  durable area. `live` is the set of running clients. History variables record
  what was promised to whom.
* **HookLifecycle**. One conversation of one of the six clients. `room` is the
  record that routes it, `bind` the binding in each room, `sess` the sessions
  opened for it, `holder` the hook that holds the lifecycle lock of each room. Each
  event handler of the runner is an `Enter` and the steps after it; a `Cut` ends
  one between any two. `Detach` and `Replace` are the command line's, `register`
  a peer's.
* **Resources**, **ResourceNames**. Resource names as sequences of segments;
  `Normalise`, `Matchable`, `Overlaps`, and `Covers` of the hook's guard.
  ResourceNames types every string up to a length and compares the operators
  with reference definitions (walking a directory tree, intersection of the sets
  of paths).
* **Claims** extends Resources: leases over a clock `now`, sessions that change
  generation, every operation of the claim service, and `taken`, the last time a
  session acquired a resource exclusively.
* **WriteGuard** extends Resources. An agent composes one call of its client, a
  shell line word by word among them; `BeforeTool` reads it as `shell-writes.mjs`
  and the adapters do, resolves the words (`canonicalTarget`, `resourceFor`) and
  answers. Apart from the code, `Written` says what the line does in a shell and
  `Destination` where the operating system finds a path.
* **Delivery**. One recipient. `receipt` and `offer` are the receipt record,
  `successes` and `again` count its events; `router` processes go through the
  looks of `offerTo` up to the transport and the commit; `hook` processes select,
  print and commit, at a turn or at Stop. `handed` and `shown` are history: the
  bodies a transport took and the bodies a stdout carried. A binding is one state
  for each session.
* **NativeDelivery**. One session of a client with a native transport. `binding`
  is the delivery binding, `eps` the adapter's endpoint records, `hook` the bind
  under the lifecycle lock with its observations, `late` an endpoint request
  whose hook stopped waiting, `router` two senders with their looks, `marks` the
  wake markers. `arrived`, `unsure` and `left` are history.
* **AntigravityRelay**. Start commands and the relay each spawns, the session's
  binding, the bind of a hook beside it, senders that may give up, the queue.

Installation:

* **ManagedRuntime**. `control`, `disk`, `leases`, `pins`, `holds`, `bindings`
  and `store` are the files of the manager directory and of a store; hooks are
  admitted and run from a generation, commands and the update worker stage,
  publish, activate and reclaim, each with the reads it makes before it takes the
  lock. The lock is ManagerLock's promise: one owner, free when the owner is dead.
  `Apply` needs the candidate's directory, from which the launchers are copied
  (`launchers.mjs:27-28`). A removal holds the lock over several writes and may be
  killed between any two: the clients, the bindings, the pins, and the control
  record last (`install.mjs:93-113`).
* **Maintenance**. `job` is `maintenance.json`; the worker writes it before and
  after each step; a command asks, a user restarts or upgrades the client, whose
  service may also end by itself. `svc.stopped` is history: a job stopped it and
  nobody started it since. A stop is a child process with a time limit: `late` is a
  stop that its worker gave up, or that outlived its worker, and that may still take
  effect at any moment; `svc.overdue` says that it did when its job was over.
* **ClientWiring**. One client. A place on disk is a set of pieces (ACC's files of
  a version, the user's, a half copy, an entry, a marker). A command is the list
  of steps its adapter takes (`InstallSteps`, `UninstallSteps`) and may stop
  between any two; the user edits between commands. In Kimi's `config.toml` the
  user's entries may come to stand behind ACC's block (`after`) and the block may
  lose its END (`open`).
* **DeliveryConsent**. Codex and Kimi. `rec` are their records in `installs.json`,
  `grant` the sender's network grant, `svc` the service; a command reads the
  records once, asks, plans, then wires and records one client after another.
  `captured` says of a record, or of the client a command found, that the version of
  Codex is one whose profile is rewritten (`live-permissions.mjs:198-206`).

Where parts never meet, one MC module hosts several: a variable `part` says which
of them a behaviour follows, and the others stand still in one initial state.
**MCLocks** has the two locks, **MCStore** the journal, the index cache and the
tree, **MCRecords** the active journal, a receipt and a session binding,
**MCTurns** what must happen while a conversation takes turns, **MCClaims** claims
and names, **MCServices** maintenance and relay, **MCInstallation** wiring, consent
and guard. The other **MC…** modules give one module's constants values. **…Proof**
hold the theorems.

A comment `Mutant:` precedes an operator that changes a neighbouring definition
as a plausible mistake in the code would. They are used to see that each property
can fail; `PROJECT.json` names them.

## Runs

| run | configuration | checks | instance |
|---|---|---|---|
| locks | MCLocks | `MutualExclusion`, `StaleObserverFenced`, `LiveOwnerKeepsLock`, `WriterSafe`, `LocksReclaimed` | manager lock: four calls of three processes, two of them by one process; writer mutex: three calls of three processes |
| journal_store | MCStore | `NoSilentGap`, `ImplementsAtomicStore`, `OpenJournalCompleted`, `IndexServesStore`, `TreeExact` | two transactions of up to two events and two records, a crash, a trim, two pages of a reader; two receipts, four journal generations, two sweeps, a mishap; a tree of five tuples and four ids with pages of two |
| journal_inspect | MCJournalInspect | `NothingReportedCorrupt`, violated | two transactions, one trim |
| records | MCRecords | `StableReadIsAuthority`, `AuthorityNeverRollsBack`, `OfferCrossed`, `OffersMatchEvents`, `SettledStaysSettled`, `OneOwner` | two openers, two readers with two attempts, six generations; a message, two sessions (one with a wake transport), a router, two hooks; a conversation of each client, two rooms, two client processes, two mishaps |
| sessions | MCSessions | `MoveIsSeamless`, `LoneSessionLeavesNoTrace`, `LastWordStands`, `LiveOwnerNotReplaced` | two clients, two session ids, two hooks, five operations, two generations |
| claims | MCClaims | `NoConflictingClaims`, `HoldingUninterrupted`, `NamesMeanPaths` | two sessions, a directory and a file in it, leases that lapse, two generations of one of the sessions; every string of up to four segments |
| turns | MCTurns | `EventuallyShown`, `TurnsRebind` | a direct and a room message, only one of which fits a turn, one session, a router, a hook; a conversation of Kimi or Antigravity, two client processes, a mishap |
| delivery_stop | MCDeliveryStop | `NextTurnOfferShown`, violated | a message, a client that is continued at Stop with ids alone |
| managed_runtime | MCManagedRuntime | `InUseKept`, `ContractRespected`, `ControlHolds`, `PinnedKept` | a client, a hook, a user's command and the worker, three generations of which the third changes the contract |
| native_delivery | MCNativeDelivery | `RecordsAgree`, `ArrivalsAsTold`, `RetiredNeverRevived` | four clients, two senders, two endpoints, two client processes, two faults |
| services | MCServices | `InterruptedAsApproved`, `RelayHonest`, `ServiceRestored` | four service processes, two crashes of the worker, two changes of the settings; two relays, two senders, a mishap |
| installation | MCInstallation | `OwnershipKnown`, `TakesItsOwnOnly`, `ConsentHolds`, `DownloadByConsent`, `GuardHonoursClaims` | each of six clients with three commands, one cut, one edit; two clients' consent over two commands and a fault; shell lines of two commands and four words |

What they show, part by part:

* *Locks.* `MutualExclusion`: one call in the critical section.
  `StaleObserverFenced`: who observed a retired owner is stopped by its tombstone,
  through compaction. `LiveOwnerKeepsLock`: nobody takes a lock from a live
  process. `WriterSafe`: the same exclusion for the writer mutex outside its two
  named lapses, and no finished or dead call wedges it. `LocksReclaimed`: a lock
  of a dead owner is free in the end, in both designs.
* *Store.* `ImplementsAtomicStore` is the refinement, with sequence numbers issued
  once, also after a trim of everything and a crash. `NoSilentGap`: a reader that
  missed trimmed events is told. `OpenJournalCompleted`: a decided transaction is
  completed. `IndexServesStore`: a lookup gives exactly the records that have the
  key, and a sweep takes no page that the manifest reaches. `TreeExact`: the
  tree files what was put and its pages are ones its readers accept.
* *Records.* `StableReadIsAuthority`, `AuthorityNeverRollsBack`: a read without
  the mutex settles on a pair that existed, and the authority only advances.
  `OfferCrossed`, `OffersMatchEvents`, `SettledStaysSettled`: a receipt claims no
  offer whose body did not cross, agrees with the event log, and never goes back.
  `OneOwner`: a conversation has one open session and its binding names it.
* *Sessions.* `MoveIsSeamless`: the durable record covers the copies left behind,
  an owner finds its session wherever it moved, and the feed tells of each opening
  once. `LoneSessionLeavesNoTrace`: no durable record before a second session.
  `LastWordStands`: a closed session stays closed, and the intent shown is the
  last one stated.
  `LiveOwnerNotReplaced`: an id is not taken from a live client.
* *Claims.* `NoConflictingClaims`, `HoldingUninterrupted`: no two conflicting
  claims are live, and a holder's claim is never lent in between.
  `NamesMeanPaths`: normal forms denote what was typed, a directory glob covers
  its directory, and overlap is intersection.
* *Turns.* `EventuallyShown`: every message is printed or read in the end.
  `TurnsRebind`: a conversation comes to be bound to the client process that runs.
* *Managed runtime.* `InUseKept`: no generation is removed that a running process,
  a pinned session or the control record names. `ContractRespected`: no process
  works on a store of a contract it does not know. `ControlHolds`: what waits to
  be activated is allowed by the settings; integrations that were half written
  stay behind the fence, and with the fence open the ones still there are the active
  generation's; all of an enrolled installation are gone only by a removal that has
  not recorded it. `PinnedKept`: no step takes the generation that a live
  client's session is pinned to.
* *Native delivery.* `RecordsAgree`: a selectable binding names a record on disk,
  a record belongs to a binding, a hook under way or a known leftover, and a wake
  marker stands for a wake. `ArrivalsAsTold`: the message arrives once, and
  "accepted" is said only of what arrived. `RetiredNeverRevived`: no
  refresh brings a retired binding back.
* *Services.* `InterruptedAsApproved`: a job stops the service once, never when it
  is cancelled, and a service that a job stopped is recorded as work to do.
  `ServiceRestored`: it comes up again, unless another version of the client was
  installed meanwhile. Both count a stop that takes effect after it was given
  up, and except one that does so when its job is over. `RelayHonest`: one
  push, "accepted" only after it, and no binding to a closed relay.
* *Installation.* `OwnershipKnown`, `TakesItsOwnOnly`: whatever is cut, ACC knows
  its rules and the status line it replaced, and never takes the user's entries but
  those behind a block of Kimi's that has lost its END.
  `ConsentHolds`, `DownloadByConsent`: live delivery runs, grants open and
  packages are downloaded only by recorded consent, and a grant closes with what it
  was opened for unless Codex stands recorded with a version ACC does not write for.
  `GuardHonoursClaims`: a call
  is denied exactly if it writes a file another session claimed.

Why these bounds are enough for what they are meant to show:

* *Locks.* The dangerous pattern has three parts: an owner, a successor and a
  contender that observed the owner. The manager lock has a fourth call, since a
  compacting holder is a further part, and a process that locks twice. The
  safety of both is proved for any number.
* *Store.* Sequence reuse takes a transaction, a trim of everything it wrote and
  another transaction; a retry a crash. Two events tell a half-published
  transaction from a whole one. The reader needs a trim between its listing and
  its reads, and a second page; what the journal promises is proved without
  bounds. The index needs a transaction, one that is lost
  with its index, a prune and a lookup: four generations. Two sweeps let one
  resume what another marked. Pages of two entries (32 in the code), one inline id
  (8) and three digits (64) make every kind of page appear in a small tree; three
  tuples collide so that a chain is longer than a page.
* *Records.* Two hooks and a router give every race of three commits of one
  message; what is proved is proved for any number. Two client processes make a
  restart; two mishaps a kill and then another, or a detach.
* *Sessions.* Every property takes two operations that overlap; an operation that
  arrives late at its successor takes a first open, an intent, a close, a second
  open and a second intent: five. A third client or hook would repeat roles, and
  the properties are proved for any number of each.
* *Claims.* A directory and a file below it are overlapping, unequal resources.
  A lease of two ticks and a clock that stops at two let a claim be live, lapse
  and be taken over. Both invariants are proved without bounds. Four segments
  hold a start, a name, a dot segment or a name, and a glob.
* *Managed runtime.* A generation in use, its successor, and one that changes the
  contract. A user's command beside the worker is every race of two writers of the
  control record; the hook and the client hold what they must not remove. The
  properties are proved for any number of each.
* *Native delivery, services.* A second endpoint or relay is what a stale name
  could mean; the second incarnation what a late answer could come from. Of the stops
  that were given up the last one is followed; a second crash of the worker lets its
  job go on, and end, beside it. The safety of the services is proved without bounds.
* *Installation.* Three commands make install, upgrade, uninstall, or an install
  after a cut one. Two edits were checked once as well (3.0 million states). A
  guard's line needs a command before the one that writes; four words hold a
  command, a flag, its value and a file. Consent takes a command that records and one
  that changes its mind, or the receiver; the records it starts from include those
  that an earlier release left (`LegacyRecords`), and it is proved without bounds.

Deadlock checking is off where the bounds, or calls that all ended, really stop
the system.

## Fairness

* *locks*: weak fairness of the steps of each call, and of the passing of time for
  the record of a dead owner of the writer mutex, which frees a lock whose record
  cannot be read. A running process goes on; nothing makes it start, time out or
  die.
* *journal_store*: weak fairness of the writer's steps and of the beginning of
  another write. A client's every hook opens the store, so somebody does.
* *turns*: strong fairness of a turn, of its output and of its commits, and weak
  fairness of the passing of time. This says that the client goes on taking turns
  while its session is open and does not kill every one of its hooks: nothing in
  ACC can deliver to a client that never runs a hook to its end. Nothing is
  assumed of the router, the transports or the recipient. For `TurnsRebind` also: a
  hook that holds the lock goes on, and the process table, which a hook asks for
  its client, is not unreadable at every turn.
* *services*: the worker's steps (weak), that a job under way is given a worker
  again (strong: every `acc update` and every scheduled pass does so), and that a
  start that is retried for ever succeeds once (strong).

## Proofs

All theorems hold for every value of the constants that satisfies the named
assumptions of the modules: that `None` (`NoWriter`, `Nothing`) is no call, record,
message or session, that a process is given for each call, that bounds are
naturals, that special segments are not names, that the roles of a process are
apart, that a later generation does not have a smaller contract, and that the adapters
are among the six that exist.

**LocksProof**, on the manager lock: `TypeCorrect`, `Exclusion`, `Fencing`,
`LiveOwnerSafe`. Mutual exclusion is not inductive. A contender that is about to
rename carries an observation of any age, and what stops it is the tombstone of the
owner it observed (`StaleObserverFenced`); that a holder may remove tombstones again
rests on what compaction knows of contenders it has not listed: they came after
the listing, so they can only have observed the holder, whose own tombstone is
not among those removed (`CompactionKnows`). `IInv` joins these with the
bookkeeping they need: a tombstone holds the record it is named after, a call
that has not published left no trace, a contender keeps its candidate, a process
judged dead is dead.

On the writer mutex: `WriterTypeCorrect`, `WriterSafety`. The fence is again the
tombstone of the owner that a contender read (`MetAccounted`: that owner is still in
the lock, has its tombstone, or has released), but a released owner leaves none.
`WriterInv` therefore says that while nothing has lapsed nobody judges a released
owner stale (`ReleasedNotStale`), and exclusion is what is left outside the lapses.

**StoreProof**, on the journal: `StoreTypeCorrect`, `GapsTold`, `Recoverable` and
`StoreRefines`, the refinement of AtomicStore. None of them is inductive. The newest
number on disk and the newest a caller knows of differ while a transaction is open,
so the argument is about `Last`, that of the open transaction if there is one: the
floor is never beyond it, nobody else's event lies in its range (`LastKnown`), a
prepared entry is numbered after it (`PreparedAfresh`), and what a writer has rolled
forward is on disk (`RolledUpTo`). Above the floor the log has no hole (`Dense`),
because events are published in ascending order and a trim removes a prefix of what
it has raised the floor over (`TrimsPrefix`). A reader that skips a number therefore
skips a trimmed one (`ReaderKnows`), and it reads the floor last. In the refinement
the decision is `Commit`, also when a later writer rolls it forward, `TrimRaise` is
`Trim`, and every other step leaves what callers see as it was; that the active
journal may go idle rests on `RolledUpTo`. That a set of numbers has the maximum
which `newestSequence` takes follows from the library's theorem that a nonempty set
has a minimal element of a well-founded relation (`Least`, `Greatest`).

On the index cache: `CacheTypeCorrect` and `IndexServes`. A lookup is exact because
every index that could answer it describes the records, and that has to be said of
each of them: `Describes` says that a tree of the journal's generation files exactly
the records, `TreesDescribe` that the manifest does and that what every open store
remembers does, published or not. A tree of another generation is refused whatever it
files, which is why a prune moves the generation before it removes a record
(`StepsReached` says what each step of a transaction, a prune, a sweep and a migration
has behind it, `VersionsRespected` what a store of the new contract no longer has). A
sweep removes only what the manifest does not reach because the marks of a finished
pass are closed under references (`Traced`, `MarksClosed`).

**RecordsProof** is about the three records that several processes advance.

The active journal: `JournalTypeCorrect`, `StableReads`, `NoRollback`. A slot only
moves forward (`NotNewer`), so if slot 0 is the same at the second read, it was
the same when slot 1 was read between (`ReadsOrdered`); the pair existed, and
pairs that exist are well formed.

The receipt: `ReceiptTypeCorrect`, `EventsAgree`, `Settled`, `Crossed`.
`ReceiptInv` is types, that a process at work has a message and a target, that a
queued receipt has no offer, and `OffersMatchEvents`. `Crossed` adds that a router
that records has handed the body over and a hook that commits has printed it
(`CrossedFirst`). It assumes `IdStops = {}`, that no client is continued with ids
alone; without that assumption it is false, as the run delivery_stop shows.

The binding of a conversation: `OneOwnerStays`, for any rooms, processes and mishaps
within their bounds. Either nobody has chosen a room, or the conversation keeps to
the one that was chosen first (`Unrouted`, `RoutedTo`): every session that hooks have
open is then the one the binding names. That survives a hook that is cut because the
binding is written before the session is opened and removed after it is closed, and
because what the holder of the lock has read stays true while it has the lock
(`Knows`).

**ClaimsProof**: `TypeCorrect`, `NoConflict`, `Uninterrupted`. `Inv` adds that no
acquisition lies in the future (`TakenBefore`). Every action but `Acquire` grants
nothing (`GrantsNothing`: what is live afterwards was live before, in the same
mode and since the same time), which one lemma shows to preserve the rest; in
particular a renewal of a lapsed claim must not grant. `Acquire` refuses what
conflicts with a live claim, and overlap is symmetric.

**SessionsProof**: `SessionTypeCorrect`, `SeamlessMove`, `LoneSession`, `LastWord`,
`OwnerNotReplaced`. `SessionInv` has three layers. The areas: promotion happens once,
so before it the durable area is empty and after it what is ephemeral is a copy
(`AreasApart`). The generations: one stands for one id, and nothing on disk knows it
until its opener writes it, so a record that left an id never comes back
(`GenerationsUnique`). The owners: the record that answers for an id names the client
that opened or resumed it last, and a generation handed out to a live client and not
asked to close is that record's (`HolderNamed`, `IssuedOwns`). What a hook found at
its look still holds when it acts on it (`LooksHold`), or the transaction it then
enters refuses. Counting the open sessions uses the library's facts on cardinality.

**ServicesProof**: `Approved` and `HonestRelay`, about two modules. The worker's
record is ahead of its command: a stage at which the service may be stopped has
recorded the attempt, and what is not recorded has not happened (`StopsRecorded`). A
stop that was given up belongs to the job as long as that is under way, so when it takes
effect the attempt is on record; otherwise it is overdue, which the property excepts.
In the relay every message is in one place (`OnePush`), and whoever may name a
relay in a binding has seen it listen (`NamedHasListened`), so that closing it finds
what names it.

**NativeDeliveryProof**: `TypeCorrect`, `RecordsStayAgreed`, `ArrivalsStayAsTold`,
`RetirementFinal`. `EndpointInv` accounts for every endpoint record: it is written
once, under a number of its own (`EndpointsBorn`), and is published, in the hand of
one hook, or known to be left (`EndpointsHeld`); what a hook observed before it asked
the client is what it clears and cleans up (`PriorHeld`, `OldEndpointGone`), and an
answer that comes late meets a record on disk or a client that is gone (`AnswerKept`).
`MessageInv` counts the arrivals: for Claude the exclusive creation of the marker
leaves one sender at work on an endpoint and none after the arrival (`InboxOnce`), for
the others the receipt or the prompt's id does (`ReceiptOnce`, `PromptOnce`).

**InstallationProof**, on the managed runtime: `RuntimeTypeCorrect`, `NothingInUseTaken`, `ContractKept`,
`ControlTrue`, `PinsKept`. A reclaim pass removes by what it read some steps before.
`RuntimeInv` says what each stage of the pass knows (`PassKnows`: the active and the
pending generation, then every lease, then every pin, then every hold of a publisher
whose directory the pass listed) and that nobody changes that while the pass has the
lock (`LockHeld`). A removal keeps the fence open, and every state it may be killed in
is one `ControlTrue` covers: it takes the integrations of one generation away, the last
of them before the control record says so (`Removing`). An activation
writes what it prepared outside the lock, so the
invariant keeps the preparation beside the control record (`Prepared`, `Applied`).
That leases and bindings speak the active contract, and inside the fence also the
pending one (`ContractsAgree`), carries a change of contract; a hook that follows a
pin runs other code than it leases, of the same contract (`HooksLeased`).

On live delivery: `ConsentTypeCorrect`, `ConsentStands`, `DownloadConsented`. A
command decides from records it read once and then writes one client after another,
so what it will record must already be justified by the user's word and the record as
they stand (`Owed`, `PlanKept`), and a question must still be about the records it was
derived from when it is answered (`AskKept`). The sender's grant is written before the
receiver is recorded. The invariant compares it with the receivers as they were until
the sender is written and with the plan from then on (`SenderKept`), and the plan with
what is recorded, client by client (`LoopKept`); at the end of a command without a
failure the two agree. A grant that is rewritten is the one asked for only if the version
is captured (`Renewed`); otherwise it is left, and the command counts as slipped
(`LeftAsItWas`).

On one adapter's install and uninstall: `OwnershipStays`, `OwnWorkOnly`, for any subset
of the six adapters and any number of commands, cuts and edits. A command is a program
of steps, and both theorems first need what the programs of each adapter are
(`InstallProgram`, `UninstallProgram`, `InstallWrites`, `UninstallTakes`): a claim is
followed at once by its rule, a note of the status line by the line, every tree, entry,
rule and line that an install may write is taken out by the uninstall, the recorded
trees come first and the directories last. Those are lemmas about sequences put together
with `\o`, proved piece by piece and not by unfolding the whole. `WiringInv` says what
the next step may rely on because the one before announced it (`Coupled`, `Ready`): a
rule is about to be written only where it is claimed, a claim given up only where no
rule is. That is what a cut leaves behind, and `OwnershipKnown` follows. For
`TakesItsOwnOnly` the invariant must also know, in the middle of an uninstall, what is
still ahead for each place: a tree is gone, held back as changed, or still to be
compared with its record (`TreeTaken`), ACC's entries are out of a file or its removal is
still to come (`FileTaken`), likewise each rule (`RuleTaken`) and the status line. And
between commands, that a tree which no install was cut over is as recorded or bears the
user's mark (`TreeHeld`), that a file has ACC's entries only where the uninstall looks
for them (`FileHeld`), and that a rule of the user's is not claimed (`RuleHeld`). At the
end of an uninstall nothing is ahead, and what is left is what `LeavesNothingBehind`
allows. Of the user's entries each step keeps all (`EntriesStay`), but the one that strips
ACC's block from Kimi's file when the block has no END.

## Findings and observations

Two runs are expected to fail; each states what the repository says of the code.

* **delivery_stop**. Kimi's Stop continuation prints message ids and no body
  (`adapter-kimi/src/hooks.mjs:138-147`), but `turnEnd` returns the same offers
  to be committed (`hook-runner/src/runner.mjs:400`), and they are recorded with
  transport `next-turn`. `core/src/receipts.mjs:43-44` says "A next-turn offer is
  recorded only after the hook's stdout carried the body", and
  `src/CHANGELOG.md:68-69` that "the body reaches the model through ordinary
  next-turn context". After the commit the receipt is neither queued nor due for
  a repeat, so no later turn prints the body; the recipient has to follow the
  command in the notice.
* **journal_inspect**. `inspect` counts events from 1 and reports any gap as
  corrupt; the comment there says a gap means "a file was removed by hand". After
  an ordinary trim the oldest event left is reported, and `repair` refuses.

Seen while modelling, without a run of their own. A property that excludes one of
these says so where it is stated.

Store, sessions and messages:

* The comment in `takeStaleOwnership` (`writer-mutex.mjs:185-189`) says that a
  stale observation "never becomes permission to remove the writer that acquired
  the lock afterwards". The fence is the tombstone of the observed owner, and a
  normal release leaves none: if the observed owner releases and its process
  exits before the contender judges it, the contender renames the successor's
  lock away. `WritersExclude` of WriterMutex names this case (`lapses`), and
  does not hold without it. The manager lock keeps a tombstone at every release.
* The comment at `store.mjs:274-276` says the ceiling keeps a partly published
  transaction invisible to every reader. A transaction that is decided after the
  ceiling was read and half published when the directory is listed is shown in
  part. The reader gets the rest with its next page.
* `file:./**` is accepted by `assertMatchableResource` and normalised to
  `file:/**`, which covers no relative path. `NamesMeanPaths` excludes the root
  for this reason.
* A lone session whose client died, but whose record is open, counts as live for
  materialisation, so the next session writes a workspace.
* A successor with the same session id inherits an intent that was left behind,
  until it states its own; claims too pass to the next generation of an id.
* A body that fills the whole budget can be displaced by the note about other
  bodies at every turn. The model assumes that each body fits beside the note.
* Between the router's last look at the live sessions and the transport
  (`router.mjs:166`) another session of the recipient may open; the offer goes to
  the one that was seen. `readInbox` commits `retrieved` before the command prints
  (`inbox.mjs:147`); a command killed there has read for a reader who saw nothing.
* The migration rewrites receipts without moving the journal generation. A store
  left open across it that remembers an unpublished tree of that generation would
  look up stale ids and refuse them; the callers quiesce users first, which the
  store itself does not require. An id too many in a stale tree is noticed by the
  check of every answer against the records; an id too few would not be.

Hooks and native delivery:

* A conversation whose session was replaced from the command line stays without
  one until its next session start. Two live clients of one conversation keep the
  first. A registration of a conversation for another workspace still writes its
  room record.
* Claude's sender of a duplicate is told `accepted` when the marker of the first
  stands, before the first has written its frame. Removing an endpoint removes its
  markers, so an offer that had verified the endpoint may wake a second time.
* A conflicting publication, an expired lease of the handshake or a clear that
  timed out leave an endpoint record behind until the next bind. A refresh is
  scoped by the session generation and may extend the lease of a newer endpoint.
  A late bind of the Antigravity desktop removes the record published meanwhile.
* Two starts of a relay may both pass the look for a live one; a renewal past its
  look at `closed` may write the registration again after the close; a second
  relay may publish the first one's endpoint.

Write guard (what `GuardHonoursClaims` leaves out by `Sound`, `OperandsApart` and
`DestinationLast`):

* The words of a redirection stay among the operands: `tee out < in` reports `in`,
  although `shell-writes.mjs:14-16` says "A read is never reported";
  `cp a b > log` and `cp a b 2>/dev/null` miss `b`; `sed 2>/dev/null -i s/x/y/ f`
  takes the script for a file.
* Not seen as writes: `cp -t dir f`, `sudo -u x rm f`, clusters that end in `i`
  (`perl -pi`, `sed -Ei`), `git checkout f` without `--`, `git -C d restore f`, a
  redirection glued to a separator (`a;>f`). `cd d; rm f` is resolved against the
  session's directory, `..` after a link on the text alone, and a name that begins
  with two dots counts as outside the root.
* `rm link` is judged by the link's target. The claims are read before the tool
  runs, so a claim made in between is not seen.

Managed runtime and maintenance:

* A directory adopted by a publisher after a reclaim pass read the holds may be
  taken by the pass (the code documents the race; `adopted`). A delegated hook may
  write a pin again that its client's end had cleared (`lateP`). Automatic updates
  turned off between `performUpdate`'s read and `activatePending`'s own do not stop
  that activation. A lease counts by its pid alone.
* `activatePending` compares the recipe again inside the fence
  (`activation.mjs:496-498`), and not that the candidate is still there. An adopted
  candidate that the pass of another command took after the preparation passes that
  comparison; `writeLaunchers` then fails on the missing directory, and the fence
  stays shut until an install or an update recovers. Nothing in use is lost.
* `acc uninstall` rewrites the clients and then the control record
  (`install.mjs:93-113`). Killed in between, it leaves an enrolled installation
  without integrations, and the next `acc update` that activates installs them again,
  although the comment at `install.mjs:92` says an updater cannot.
* A worker killed between recording a stop and running it leaves a job in
  `recovery` until the user restarts the service; a client upgraded meanwhile makes
  that recovery refuse for good.
* A stop command is given up after 20 seconds (`adapter-codex/src/maintenance.mjs:73-75`)
  or outlives its worker. `startAfterMaintenance` accepts a service of the right
  version that still runs (`maintenance.mjs:87-90`) and the job is saved as done; if
  the stop takes effect after that, the service is down, no job says so, and only the
  user can bring it back.

Installation:

* The fingerprint of a tree is taken after the install, so a user's file in a
  shared tree is stamped as ACC's (compare `ownership.mjs:16-21`). A reinstall cut
  short leaves trees that later count as changed and are kept and forgotten;
  directories made by a cut install are never recorded; an install clears user
  edits in the trees it replaces.
* A crash between the creation of a file and its marker leaves an empty file that
  is nobody's. Unreadable Antigravity settings keep the claim of a rule when the
  record is gone. A failed `agy plugin uninstall` leaves the listed entry. Files of
  other programs are read, changed and written without a lock.
* What the user wrote behind ACC's block in Kimi's `config.toml` goes with the block
  when its END is missing (`adapter-kimi/src/install.mjs:83-101`; the comment there and
  `adapter-kimi/test/adapter.test.mjs:87-94` say so). Install and uninstall both do it.
* The comment of `refreshSenders` (`install-command.mjs:297-302`) promises that the
  `127.0.0.1` grant goes when the receiver does. If Codex was recorded with a version
  that could not be read, or one below 0.153.4, `prepareLivePermissions` changes nothing
  (`live-permissions.mjs:198-206`): the grant stays, with `changed: false` and no error,
  until an install of Codex writes it again.
* Installing Codex and Kimi together gives Codex the loopback grant before Kimi's
  part can fail, though `install-command.mjs:391-392` says otherwise; the refresh
  skips senders named in the command. An answer about a client that is then
  skipped is dropped, and an explicit `off` leaves a skipped client on. Two
  simultaneous installs work from the records each read first.

## What is only model-checked, what is not modelled

Only model-checked: liveness (`LocksReclaimed`, `OpenJournalCompleted`,
`EventuallyShown`, `TurnsRebind`, `ServiceRestored`), which the proof system does not
reach; what the recursive function behind
`Normalise` and the recursive operators of IndexTree compute, by induction over
data (`NamesMeanPaths`, `TreeExact`); the folds of WriteGuard
(`GuardHonoursClaims`). Every other safety property of the runs is a theorem.

Abstractions to know of. Processes of different modules meet through what one
promises the other: ManagedRuntime and HookLifecycle take their locks as exclusive
and free again when the holder is dead, NativeDelivery takes a session as replaced
or closed by one step, Maintenance takes an activation as its outcome. Reused pids
appear where the code is exposed to them by design (the writer mutex, bindings of
the managed runtime), not in HookLifecycle.

Not modelled: the Windows release path of the writer mutex; compare-and-swap
generations of records; participants and display fields of sessions; backslashes
and stars inside a segment of a resource; threads, listing pages and the content
comparison of a retried message; `offer_failed` events and diagnostics of the
router; decisions, attention, status and sync, which are views over one snapshot;
the stage sweep and the discarding of doomed directories; the classes of prune
other than claims; three of the four indexes, which differ in their keys alone,
and the cursor of the page sweep; the creation of the store identity; splitting a
shell line into tokens, and here-documents; a guard's hook that throws, which lets the
call pass; Antigravity's own status-line indicator (`indicator-install.mjs:17-80`), which
notes the line it replaces before it writes its own, as the modelled one does; a removal
where there is no control record; package checks, network retries and
notices of an update; the wire formats and version contracts of the native
transports; the texts of the clients' configurations and the reports of the
doctor; the MCP server and most of the command line, which map requests onto the
services; schema validation; and the file primitives, whose publications are the
atomic steps of the modules.

## Plan

The parts that carry the program's behaviour are modelled. What is left, in this
order:

1. The remaining classes of prune beside their readers, then the stage sweep and
   the doomed directories.
2. Decisions and attention, with the obligations they read from receipts.
3. A second workspace in Delivery, for messages that cross rooms.
