--------------------------- MODULE ManagedRuntime ---------------------------
(***************************************************************************)
(* The managed runtime of packages/cli/src/managed-runtime: one manager    *)
(* directory holds several installed generations of the program, a control *)
(* record that names the active and the pending one, and the files that    *)
(* say who still uses a generation: leases of running processes, pins of   *)
(* client sessions, native bindings, and holds of a generation that is     *)
(* being staged.  Hooks and other entries are admitted under the manager   *)
(* lock (module ManagerLock), commands and the background worker stage,    *)
(* publish and activate generations, and every activation is followed by   *)
(* a pass that reclaims the generations nobody names and moves the stores  *)
(* to the new contract.  A process may be killed between any two steps.    *)
(***************************************************************************)
EXTENDS Naturals, FiniteSets

CONSTANTS
    Clients,    \* client processes: agents whose hooks run the program
    Hooks,      \* short lived entries: hooks, and any admitted acc command
    Commands,   \* processes that install, update, configure or uninstall; the
                \* lease one may hold besides is skipped by its own decisions
    Background, \* those of them that are the detached update worker
    Gens,       \* generations, as version numbers
    First,      \* the generation whose package can be installed by hand
    Pinnable,   \* versions a user may pin
    Contract,   \* the store contract each generation declares
    Uncollected,\* processes whose parent may leave them as zombies
    MaxSpawns,  \* bound on the commands started after the first ones
    Removed,    \* the integrations are gone and the control record was not told
    None

Procs == Clients \cup Hooks \cup Commands
Maybe(S) == S \cup {None}
Contracts == {Contract[g] : g \in Gens}

Control == [active : Gens, pending : Maybe(Gens), phase : {"ready", "activating"},
            auto : BOOLEAN, pin : Maybe(Gens), enrolled : BOOLEAN]
Binding == [contract : Contracts, reused : BOOLEAN]
Reading == [active : Gens, pending : Maybe(Gens), pin : Maybe(Gens)]
Recipes == Gens \X Maybe(Gens) \X BOOLEAN \X BOOLEAN \X Maybe(Gens)

\* A later release speaks the same store contract or a later one.
ASSUME RuntimeAssumption ==
    /\ Gens \subseteq Nat /\ First \in Gens /\ Pinnable \subseteq Gens
    /\ Contract \in [Gens -> Nat]
    /\ None \notin Procs /\ None \notin Nat /\ Removed \notin Nat \cup {None}
    /\ Background \subseteq Commands /\ Uncollected \subseteq Procs /\ MaxSpawns \in Nat
    /\ Clients \cap Hooks = {} /\ Clients \cap Commands = {} /\ Hooks \cap Commands = {}
    /\ \A g, h \in Gens : g <= h => Contract[g] <= Contract[h]
    /\ None \notin Control /\ None \notin Binding /\ None \notin Reading /\ None \notin Recipes

VARIABLES
    control,    \* control.json, or None before the first install
    disk,       \* generations/: the published directories
    lock,       \* the manager lock's owner
    worker,     \* the owner of the update worker's lock
    leases,     \* leases/: <<process, generation>>
    pins,       \* pins/: the generation each client's session is pinned to
    holds,      \* staging/: <<process, generation>>
    bindings,   \* native bindings: the contract and whether the pid was reused
    store,      \* the contract of the workspace's store
    integration,\* the generation the clients' integrations were written by
    life,       \* "run", "zombie" (exited, not collected) or "dead"
    pc,         \* where each process is
    runs,       \* the generation whose code a hook executes
    seen,       \* what a command read of the control record as it began
    before,     \* the recipe an activation was prepared for
    target,     \* the generation a command stages
    pass,       \* the reclaim pass under way: its candidates and references
    spawned,    \* commands started so far
    adopted,    \* history: directories adopted after a pass read the holds
    lateP       \* history: clients whose pin a delegated hook wrote again

files == <<control, disk, leases, pins, holds, bindings, store, integration>>
vars == <<files, lock, worker, life, pc, runs, seen, before, target, pass, spawned, adopted, lateP>>

Installed == [active |-> First, pending |-> None, phase |-> "ready", auto |-> TRUE,
              pin |-> None, enrolled |-> TRUE]

\* Nothing is installed yet, or the first generation is.
Init ==
    /\ control \in {None, Installed}
    /\ disk = IF control = None THEN {} ELSE {First}
    /\ integration = IF control = None THEN None ELSE First
    /\ lock = None /\ worker = None
    /\ leases = {} /\ holds = {} /\ pins = [c \in Clients |-> None]
    /\ bindings = [c \in Clients |-> None] /\ store = Contract[First]
    /\ life = [p \in Procs |-> "run"] /\ pc = [p \in Procs |-> "start"] /\ spawned = 0
    /\ runs = [h \in Hooks |-> None] /\ seen = [p \in Commands |-> None]
    /\ before = [p \in Commands |-> None] /\ target = [p \in Commands |-> None]
    /\ pass = [snap |-> {}, refs |-> {}] /\ adopted = {} /\ lateP = {}

(***************************************************************************)
(* Processes.  A killed process leaves its files behind; its pid may be    *)
(* given to another program, whose start is later than what it left.       *)
(***************************************************************************)
Dead(p) == life[p] = "dead"
Gone(p) == life[p] # "run"
LockFree == lock # None => Dead(lock)

Spawn(p) ==
    /\ Dead(p) /\ lock # p /\ worker # p
    /\ p \in Commands => spawned < MaxSpawns
    /\ spawned' = IF p \in Commands THEN spawned + 1 ELSE spawned
    /\ life' = [life EXCEPT ![p] = "run"]
    /\ pc' = [pc EXCEPT ![p] = "start"]
    /\ bindings' = [c \in Clients |-> IF c = p /\ bindings[c] # None
                        THEN [bindings[c] EXCEPT !.reused = TRUE] ELSE bindings[c]]
    /\ UNCHANGED <<control, disk, lock, worker, leases, pins, holds, store, integration,
                   runs, seen, before, target, pass, adopted, lateP>>

Exit(p) ==
    /\ life[p] = "run" /\ (p \notin Clients => pc[p] # "start")
    /\ \E how \in {"dead"} \cup {"zombie" : q \in {p} \cap Uncollected} : life' = [life EXCEPT ![p] = how]
    /\ pc' = [pc EXCEPT ![p] = "off"]
    /\ runs' = [h \in Hooks |-> IF h = p THEN None ELSE runs[h]]
    /\ seen' = [q \in Commands |-> IF q = p THEN None ELSE seen[q]]
    /\ before' = [q \in Commands |-> IF q = p THEN None ELSE before[q]]
    /\ target' = [q \in Commands |-> IF q = p THEN None ELSE target[q]]
    /\ pass' = IF lock = p THEN [snap |-> {}, refs |-> {}] ELSE pass
    /\ UNCHANGED <<files, lock, worker, adopted, lateP, spawned>>

Collect(p) ==
    /\ life[p] = "zombie"
    /\ life' = [life EXCEPT ![p] = "dead"]
    /\ UNCHANGED <<files, lock, worker, pc, runs, seen, before, target, pass, adopted, lateP, spawned>>

(***************************************************************************)
(* Who uses a generation, and who stands in the way of an activation.      *)
(***************************************************************************)
LiveLeases == {l \in leases : ~Gone(l[1])}

\* One process publishes several holds: only equal contracts keep theirs.
HoldContracts(p) ==
    {Contract[l[2]] : l \in {m \in leases : m[1] = p}}
        \cup (IF p \in Clients /\ bindings[p] # None THEN {bindings[p].contract} ELSE {})

NativeHold(c) == bindings[c] # None /\ ~Gone(c) /\ ~bindings[c].reused

Holder(p) == \/ \E l \in LiveLeases : l[1] = p
             \/ p \in Clients /\ NativeHold(p)

\* Mutant: only leases stand in the way.
BlockersLeaseOnly(own, incoming) ==
    {p \in Procs \ {own} : (\E l \in LiveLeases : l[1] = p) /\ HoldContracts(p) # {incoming}}

Blockers(own, incoming) ==
    {p \in Procs \ {own} : Holder(p) /\ HoldContracts(p) # {incoming}}

Read(c) == [active |-> c.active, pending |-> c.pending, pin |-> c.pin]

Recipe(c) == <<c.active, c.pending, c.enrolled, c.auto, c.pin>>

\* Bindings an older generation would count and nobody can clear.
SweptBindings == [c \in Clients |->
    IF bindings[c] # None /\ (life[c] = "zombie" \/ (life[c] = "run" /\ bindings[c].reused))
        THEN None ELSE bindings[c]]

(***************************************************************************)
(* Admission and hooks.                                                    *)
(***************************************************************************)
Admit(h) ==
    /\ pc[h] = "start" /\ LockFree /\ control # None
    /\ control.phase = "ready"
    /\ \A l \in leases : l[1] # h
    /\ leases' = {l \in leases : ~Dead(l[1])} \cup {<<h, control.active>>}
    /\ runs' = [q \in Hooks |-> IF q = h THEN control.active ELSE runs[q]]
    /\ pc' = [pc EXCEPT ![h] = "admitted"]
    /\ UNCHANGED <<control, disk, lock, worker, pins, holds, bindings, store, integration,
                   life, seen, before, target, pass, adopted, lateP, spawned>>

\* A pin is followed to another generation of the same contract that is there.
Resolves(c, active) ==
    /\ pins[c] # None /\ pins[c] # active
    /\ Contract[pins[c]] = Contract[active]
    /\ pins[c] \in disk

Delegate(h, c) ==
    /\ pc[h] = "admitted"
    /\ runs' = [runs EXCEPT ![h] = IF Resolves(c, @) THEN pins[c] ELSE @]
    /\ pc' = [pc EXCEPT ![h] = "hook"]
    /\ UNCHANGED <<files, lock, worker, life, seen, before, target, pass, adopted, lateP, spawned>>

Leased(h) == {l[2] : l \in {m \in leases : m[1] = h}}

\* Session start: the binding and the pin name the code that runs the hook.
StartSession(h, c) ==
    /\ pc[h] = "hook" /\ life[c] = "run" /\ store = Contract[runs[h]]
    /\ bindings' = [bindings EXCEPT ![c] = [contract |-> Contract[runs[h]], reused |-> FALSE]]
    /\ pc' = [pc EXCEPT ![h] = "bound"]
    /\ UNCHANGED <<control, disk, lock, worker, leases, pins, holds, store, integration,
                   life, runs, seen, before, target, pass, adopted, lateP, spawned>>

WritePin(h, c) ==
    /\ pc[h] = "bound" /\ bindings[c] # None
    /\ pins' = [pins EXCEPT ![c] = runs[h]]
    /\ lateP' = IF runs[h] \in Leased(h) THEN lateP \ {c}
                ELSE IF pins[c] # runs[h] THEN lateP \cup {c} ELSE lateP
    /\ pc' = [pc EXCEPT ![h] = "done"] /\ runs' = [runs EXCEPT ![h] = None]
    /\ UNCHANGED <<control, disk, lock, worker, leases, holds, bindings, store, integration,
                   life, seen, before, target, pass, adopted, spawned>>

EndSession(h, c) ==
    /\ pc[h] = "hook" /\ bindings[c] # None
    /\ bindings' = [bindings EXCEPT ![c] = None]
    /\ pins' = [pins EXCEPT ![c] = None]
    /\ pc' = [pc EXCEPT ![h] = "done"] /\ runs' = [runs EXCEPT ![h] = None]
    /\ UNCHANGED <<control, disk, lock, worker, leases, holds, store, integration,
                   life, seen, before, target, pass, adopted, lateP, spawned>>

(***************************************************************************)
(* Staging: the hold is written before the directory can be seen.          *)
(***************************************************************************)
Newer(g, c) == g > (IF c.pending # None THEN c.pending ELSE c.active)

StageInstall(p) ==
    /\ pc[p] = "start"
    /\ holds' = holds \cup {<<p, First>>}
    /\ target' = [target EXCEPT ![p] = First]
    /\ pc' = [pc EXCEPT ![p] = "stage_install"]
    /\ UNCHANGED <<control, disk, lock, worker, leases, pins, bindings, store, integration,
                   life, runs, seen, before, pass, adopted, lateP, spawned>>

\* A newly installed global command supersedes an older pending release.
StageNewer(p, g) ==
    /\ pc[p] = "start" /\ control # None /\ control.phase = "ready"
    /\ control.pin \in {None, g} /\ Newer(g, control)
    /\ holds' = holds \cup {<<p, g>>}
    /\ target' = [target EXCEPT ![p] = g] /\ seen' = [seen EXCEPT ![p] = Read(control)]
    /\ pc' = [pc EXCEPT ![p] = "stage_newer"]
    /\ UNCHANGED <<control, disk, lock, worker, leases, pins, bindings, store, integration,
                   life, runs, before, pass, adopted, lateP, spawned>>

\* The download of a discovered release: newer than what blocked, or active.
Download(p, g) ==
    /\ pc[p] = "check"
    /\ seen[p].pin \in {None, g} /\ Newer(g, seen[p])
    /\ holds' = holds \cup {<<p, g>>}
    /\ target' = [target EXCEPT ![p] = g]
    /\ pc' = [pc EXCEPT ![p] = "stage_release"]
    /\ UNCHANGED <<control, disk, lock, worker, leases, pins, bindings, store, integration,
                   life, runs, seen, before, pass, adopted, lateP, spawned>>

Staging == {"stage_install", "stage_newer", "stage_release"}
Publishing == {"publish_install", "publish_newer", "publish_release"}
VerifyOf == [s \in Staging |-> CASE s = "stage_install" -> "publish_install"
                                 [] s = "stage_newer" -> "publish_newer"
                                 [] s = "stage_release" -> "publish_release"]

\* Rename the finished tree into place, or adopt the equal one that is there.
Stage(p) ==
    /\ pc[p] \in Staging
    /\ disk' = disk \cup {target[p]}
    /\ adopted' = IF target[p] \notin disk THEN adopted \ {target[p]}
                  ELSE IF \E q \in Commands : pc[q] = "move" /\ life[q] = "run"
                                              /\ target[p] \in pass.snap \ pass.refs
                  THEN adopted \cup {target[p]} ELSE adopted
    /\ pc' = [pc EXCEPT ![p] = VerifyOf[pc[p]]]
    /\ UNCHANGED <<control, lock, worker, leases, pins, holds, bindings, store, integration,
                   life, runs, seen, before, target, pass, lateP, spawned>>

Release(p) == holds \ {<<p, target[p]>>}

\* The staged generation does not start, or the attempt is given up.
Abandon(p) ==
    /\ pc[p] \in Publishing
    /\ holds' = Release(p)
    /\ pc' = [pc EXCEPT ![p] = "end"]
    /\ UNCHANGED <<control, disk, lock, worker, leases, pins, bindings, store, integration,
                   life, runs, seen, before, target, pass, adopted, lateP, spawned>>

(***************************************************************************)
(* Publishing what was staged, under the manager lock.                     *)
(***************************************************************************)
PublishNewer(p) ==
    /\ pc[p] = "publish_newer" /\ LockFree
    /\ control' = IF /\ control.phase = "ready" /\ control.pin = seen[p].pin
                     /\ control.active = seen[p].active /\ control.pending = seen[p].pending
                  THEN [control EXCEPT !.pending = target[p]] ELSE control
    /\ holds' = Release(p)
    /\ pc' = [pc EXCEPT ![p] = "update"]
    /\ target' = [target EXCEPT ![p] = None] /\ seen' = [seen EXCEPT ![p] = None]
    /\ UNCHANGED <<disk, lock, worker, leases, pins, bindings, store, integration,
                   life, runs, before, pass, adopted, lateP, spawned>>

PublishRelease(p) ==
    /\ pc[p] = "publish_release" /\ LockFree
    /\ LET unchanged == /\ control.phase = "ready" /\ control.active = seen[p].active
                        /\ control.pin = seen[p].pin
                        /\ p \in Background => control.auto
       IN /\ control' = IF unchanged THEN [control EXCEPT !.pending = target[p]] ELSE control
          /\ pc' = [pc EXCEPT ![p] = IF unchanged THEN "prepare" ELSE "end"]
    /\ holds' = Release(p)
    /\ target' = [target EXCEPT ![p] = None]
    /\ UNCHANGED <<disk, lock, worker, leases, pins, bindings, store, integration,
                   life, runs, seen, before, pass, adopted, lateP, spawned>>

\* An install enrols its own generation and stays inside the fence to apply.
PublishInstall(p) ==
    /\ pc[p] = "publish_install" /\ LockFree
    /\ control # None => control.active = First
    /\ \E preference \in BOOLEAN :
        control' = [active |-> First, pending |-> First, phase |-> "activating",
                    auto |-> IF control # None /\ control.enrolled THEN control.auto
                             ELSE preference,
                    pin |-> IF control # None THEN control.pin ELSE None,
                    enrolled |-> TRUE]
    /\ lock' = p
    /\ before' = [before EXCEPT ![p] = Recipe(control')]
    /\ pc' = [pc EXCEPT ![p] = "apply"]
    /\ UNCHANGED <<disk, worker, leases, pins, holds, bindings, store, integration,
                   life, runs, seen, target, pass, adopted, lateP, spawned>>

(***************************************************************************)
(* One update pass: recover or activate what is pending, else discover.    *)
(***************************************************************************)
BeginPass(p) ==
    /\ pc[p] \in {"start", "update"} /\ control # None
    /\ worker # None => Dead(worker)
    /\ p \in Background => control.auto
    /\ worker' = p
    /\ seen' = [seen EXCEPT ![p] = Read(control)]
    /\ pc' = [pc EXCEPT ![p] = IF control.pending # None THEN "prepare" ELSE "check"]
    /\ UNCHANGED <<files, lock, life, runs, before, target, pass, adopted, lateP, spawned>>

\* The candidate's own refresh plans every integration, outside the fence.
Prepare(p) ==
    /\ pc[p] = "prepare"
    /\ IF control.pending # None /\ control.pending \in disk
       THEN /\ before' = [before EXCEPT ![p] = Recipe(control)]
            /\ bindings' = SweptBindings
            /\ leases' = LiveLeases
            /\ pc' = [pc EXCEPT ![p] = "fence"]
       ELSE /\ pc' = [pc EXCEPT ![p] = "end"]
            /\ UNCHANGED <<before, bindings, leases>>
    /\ UNCHANGED <<control, disk, lock, worker, pins, holds, store, integration,
                   life, runs, seen, target, pass, adopted, lateP, spawned>>

Unprepared(p) == Recipe(control) # before[p]
Targets(p) == before[p][3]

FenceRefused(p) ==
    /\ pc[p] = "fence" /\ LockFree
    /\ \/ Unprepared(p) /\ pc' = [pc EXCEPT ![p] = "end"] /\ UNCHANGED leases
       \/ /\ ~Unprepared(p) /\ Blockers(p, Contract[control.pending]) # {}
          /\ leases' = LiveLeases
          /\ \E next \in {"end", "check"} : pc' = [pc EXCEPT ![p] = next]
    /\ before' = [before EXCEPT ![p] = None]
    /\ UNCHANGED <<control, disk, lock, worker, pins, holds, bindings, store, integration,
                   life, runs, seen, target, pass, adopted, lateP, spawned>>

\* Mutant: the activation is not recorded before the integrations change.
FenceUnrecorded(p) ==
    /\ pc[p] = "fence" /\ LockFree
    /\ ~Unprepared(p) /\ Blockers(p, Contract[control.pending]) = {}
    /\ lock' = p
    /\ leases' = LiveLeases
    /\ UNCHANGED control
    /\ pc' = [pc EXCEPT ![p] = "apply"]
    /\ UNCHANGED <<disk, worker, pins, holds, bindings, store, integration,
                   life, runs, seen, before, target, pass, adopted, lateP, spawned>>

Fence(p) ==
    /\ pc[p] = "fence" /\ LockFree
    /\ ~Unprepared(p) /\ Blockers(p, Contract[control.pending]) = {}
    /\ lock' = p
    /\ leases' = LiveLeases
    /\ control' = [control EXCEPT !.phase = "activating"]
    /\ pc' = [pc EXCEPT ![p] = "apply"]
    /\ UNCHANGED <<disk, worker, pins, holds, bindings, store, integration,
                   life, runs, seen, before, target, pass, adopted, lateP, spawned>>

\* The launchers are copied from the candidate's own directory.
Apply(p) ==
    /\ pc[p] = "apply" /\ control.pending \in disk
    /\ integration' = IF Targets(p) THEN control.pending ELSE integration
    /\ pc' = [pc EXCEPT ![p] = "commit"]
    /\ UNCHANGED <<control, disk, lock, worker, leases, pins, holds, bindings, store,
                   life, runs, seen, before, target, pass, adopted, lateP, spawned>>

\* Some integrations were written and some were not, or the candidate was moved
\* away since it was prepared: the fence stays shut.
ApplyFails(p) ==
    /\ pc[p] = "apply"
    /\ integration' \in {integration, IF Targets(p) THEN control.pending ELSE integration}
    /\ lock' = None
    /\ before' = [before EXCEPT ![p] = None]
    /\ pc' = [pc EXCEPT ![p] = "end"]
    /\ UNCHANGED <<control, disk, worker, leases, pins, holds, bindings, store,
                   life, runs, seen, target, pass, adopted, lateP, spawned>>

Commit(p) ==
    /\ pc[p] = "commit"
    /\ control' = [control EXCEPT !.active = control.pending, !.pending = None,
                                  !.phase = "ready"]
    /\ lock' = None
    /\ before' = [before EXCEPT ![p] = None] /\ seen' = [seen EXCEPT ![p] = None]
    /\ pc' = [pc EXCEPT ![p] = "reclaim"]
    /\ UNCHANGED <<disk, worker, leases, pins, holds, bindings, store, integration,
                   life, runs, target, pass, adopted, lateP, spawned>>

(***************************************************************************)
(* A reclaim pass.  The candidates are listed before any holder is read,   *)
(* the leases before the pins, the pins before the holds.                  *)
(***************************************************************************)
ReclaimBegin(p) ==
    /\ LockFree /\ control # None
    /\ pc[p] = "reclaim" \/ (pc[p] = "end" /\ p \in Background)
    /\ lock' = p
    /\ pass' = [snap |-> disk, refs |-> {control.active} \cup ({control.pending} \ {None})]
    /\ pc' = [pc EXCEPT ![p] = "leases"]
    /\ UNCHANGED <<files, worker, life, runs, seen, before, target, adopted, lateP, spawned>>

\* Mutant: leased generations are not counted as referenced.
ReadLeasesUncounted(p) ==
    /\ pc[p] = "leases"
    /\ leases' = LiveLeases
    /\ UNCHANGED pass
    /\ pc' = [pc EXCEPT ![p] = "pins"]
    /\ UNCHANGED <<control, disk, lock, worker, pins, holds, bindings, store, integration,
                   life, runs, seen, before, target, adopted, lateP, spawned>>

ReadLeases(p) ==
    /\ pc[p] = "leases"
    /\ leases' = LiveLeases
    /\ pass' = [pass EXCEPT !.refs = @ \cup {l[2] : l \in LiveLeases}]
    /\ pc' = [pc EXCEPT ![p] = "pins"]
    /\ UNCHANGED <<control, disk, lock, worker, pins, holds, bindings, store, integration,
                   life, runs, seen, before, target, adopted, lateP, spawned>>

\* Mutant: pinned generations are not counted as referenced.
ReadPinsUncounted(p) ==
    /\ pc[p] = "pins"
    /\ pins' = [c \in Clients |-> IF Gone(c) THEN None ELSE pins[c]]
    /\ UNCHANGED pass
    /\ pc' = [pc EXCEPT ![p] = "holds"]
    /\ UNCHANGED <<control, disk, lock, worker, leases, holds, bindings, store, integration,
                   life, runs, seen, before, target, adopted, lateP, spawned>>

ReadPins(p) ==
    /\ pc[p] = "pins"
    /\ pins' = [c \in Clients |-> IF Gone(c) THEN None ELSE pins[c]]
    /\ pass' = [pass EXCEPT !.refs = @ \cup ({pins'[c] : c \in Clients} \ {None})]
    /\ pc' = [pc EXCEPT ![p] = "holds"]
    /\ UNCHANGED <<control, disk, lock, worker, leases, holds, bindings, store, integration,
                   life, runs, seen, before, target, adopted, lateP, spawned>>

ReadHolds(p) ==
    /\ pc[p] = "holds"
    /\ holds' = {h \in holds : ~Dead(h[1])}
    /\ pass' = [pass EXCEPT !.refs = @ \cup {h[2] : h \in holds'}]
    /\ pc' = [pc EXCEPT ![p] = "move"]
    /\ UNCHANGED <<control, disk, lock, worker, leases, pins, bindings, store, integration,
                   life, runs, seen, before, target, adopted, lateP, spawned>>

Move(p) ==
    /\ pc[p] = "move"
    /\ \E busy \in SUBSET (pass.snap \ pass.refs) :
            disk' = disk \ ((pass.snap \ pass.refs) \ busy)
    /\ lock' = None
    /\ pass' = [snap |-> {}, refs |-> {}]
    /\ pc' = [pc EXCEPT ![p] = "migrate"]
    /\ UNCHANGED <<control, worker, leases, pins, holds, bindings, store, integration,
                   life, runs, seen, before, target, adopted, lateP, spawned>>

\* The active generation moves the older stores nobody of theirs still holds.
MigrateStores(p) ==
    /\ pc[p] = "migrate" /\ LockFree
    /\ store' = IF /\ control.phase = "ready" /\ store < Contract[control.active]
                   /\ Blockers(p, Contract[control.active]) = {}
                THEN Contract[control.active] ELSE store
    /\ leases' = LiveLeases
    /\ pc' = [pc EXCEPT ![p] = "end"]
    /\ UNCHANGED <<control, disk, lock, worker, pins, holds, bindings, integration,
                   life, runs, seen, before, target, pass, adopted, lateP, spawned>>

\* A command is over: its locks and its hold are released before it exits.
Finish(p) ==
    /\ pc[p] = "end"
    /\ worker' = IF worker = p THEN None ELSE worker
    /\ holds' = Release(p)
    /\ target' = [target EXCEPT ![p] = None] /\ seen' = [seen EXCEPT ![p] = None]
    /\ life' = [life EXCEPT ![p] = "dead"] /\ pc' = [pc EXCEPT ![p] = "off"]
    /\ UNCHANGED <<control, disk, lock, leases, pins, bindings, store, integration,
                   runs, before, pass, adopted, lateP, spawned>>

(***************************************************************************)
(* Settings and removal.                                                   *)
(***************************************************************************)
SetAuto(p, on) ==
    /\ pc[p] = "start" /\ LockFree /\ control # None /\ on # control.auto
    /\ control' = [control EXCEPT !.auto = on]
    /\ pc' = [pc EXCEPT ![p] = "end"]
    /\ UNCHANGED <<disk, lock, worker, leases, pins, holds, bindings, store, integration,
                   life, runs, seen, before, target, pass, adopted, lateP, spawned>>

SetPin(p, pin) ==
    /\ pc[p] = "start" /\ LockFree /\ control # None /\ control.phase = "ready"
    /\ pin # None => pin >= control.active
    /\ control' = [control EXCEPT !.pin = pin, !.pending = IF @ = pin THEN @ ELSE None]
    /\ pc' = [pc EXCEPT ![p] = "end"]
    /\ UNCHANGED <<disk, lock, worker, leases, pins, holds, bindings, store, integration,
                   life, runs, seen, before, target, pass, adopted, lateP, spawned>>

\* Removal runs under the manager lock, and only with the fence open.
Uninstall(p) ==
    /\ pc[p] = "start" /\ LockFree /\ control # None /\ control.phase = "ready"
    /\ lock' = p
    /\ pc' = [pc EXCEPT ![p] = "remove"]
    /\ UNCHANGED <<files, worker, life, runs, seen, before, target, pass, adopted, lateP, spawned>>

\* The clients are rewritten one by one.  While some integrations are left they
\* are those of one generation; Removed are all, and the control record is not
\* told yet.
RemoveClients(p) ==
    /\ pc[p] = "remove"
    /\ \E all \in {b \in BOOLEAN : b \/ control.enrolled} :
        /\ integration' = IF all /\ control.enrolled THEN Removed ELSE integration
        /\ pc' = [pc EXCEPT ![p] = IF all THEN "unbind" ELSE "record_some"]
    /\ UNCHANGED <<control, disk, lock, worker, leases, pins, holds, bindings, store,
                   life, runs, seen, before, target, pass, adopted, lateP, spawned>>

\* With no integration left the records this install made go, file by file: a
\* part of them first, or the last of them.
RetireBindings(p) ==
    /\ pc[p] = "unbind"
    /\ \E gone \in SUBSET Clients :
        /\ bindings' = [c \in Clients |-> IF c \in gone THEN None ELSE bindings[c]]
        /\ pc' = [pc EXCEPT ![p] = IF gone = Clients THEN "unpin" ELSE @]
    /\ UNCHANGED <<control, disk, lock, worker, leases, pins, holds, store, integration,
                   life, runs, seen, before, target, pass, adopted, lateP, spawned>>

RetirePins(p) ==
    /\ pc[p] = "unpin"
    /\ \E gone \in SUBSET Clients :
        /\ pins' = [c \in Clients |-> IF c \in gone THEN None ELSE pins[c]]
        /\ pc' = [pc EXCEPT ![p] = IF gone = Clients THEN "record_none" ELSE @]
    /\ UNCHANGED <<control, disk, lock, worker, leases, holds, bindings, store, integration,
                   life, runs, seen, before, target, pass, adopted, lateP, spawned>>

\* A client that could not be removed keeps the rest enrolled, and stops updates.
RecordRemoval(p) ==
    /\ pc[p] \in {"record_some", "record_none"}
    /\ LET all == pc[p] = "record_none" IN
        /\ \E failed \in BOOLEAN :
            control' = [control EXCEPT !.enrolled = @ /\ ~all, !.auto = @ /\ ~all /\ ~failed,
                                       !.pending = IF all THEN None ELSE @]
        /\ integration' = IF all THEN None ELSE integration
    /\ lock' = None
    /\ pc' = [pc EXCEPT ![p] = "end"]
    /\ UNCHANGED <<disk, worker, leases, pins, holds, bindings, store,
                   life, runs, seen, before, target, pass, adopted, lateP, spawned>>

HookStep(h) == \/ Admit(h)
               \/ \E c \in Clients : \/ Delegate(h, c) \/ StartSession(h, c)
                                     \/ WritePin(h, c) \/ EndSession(h, c)

UserStep(p) == \/ StageInstall(p) \/ Uninstall(p) \/ PublishInstall(p)
               \/ \E g \in Gens : StageNewer(p, g)
               \/ \E on \in BOOLEAN : SetAuto(p, on)
               \/ \E pin \in Maybe(Pinnable) : SetPin(p, pin)

RemoveStep(p) == \/ RemoveClients(p) \/ RetireBindings(p) \/ RetirePins(p) \/ RecordRemoval(p)

UpdateStep(p) == \/ BeginPass(p) \/ Prepare(p) \/ FenceRefused(p) \/ Fence(p)
                 \/ Apply(p) \/ ApplyFails(p) \/ Commit(p) \/ Finish(p)
                 \/ Stage(p) \/ Abandon(p) \/ PublishNewer(p) \/ PublishRelease(p)
                 \/ \E g \in Gens : Download(p, g)

ReclaimStep(p) == \/ ReclaimBegin(p) \/ ReadLeases(p) \/ ReadPins(p) \/ ReadHolds(p)
                  \/ Move(p) \/ MigrateStores(p)

Next == \/ \E p \in Procs : Spawn(p) \/ Exit(p) \/ Collect(p)
        \/ \E h \in Hooks : HookStep(h)
        \/ \E p \in Commands \ Background : UserStep(p) \/ RemoveStep(p)
        \/ \E p \in Commands : UpdateStep(p) \/ ReclaimStep(p)

Spec == Init /\ [][Next]_vars

(***************************************************************************)
(* Properties.                                                             *)
(***************************************************************************)
Removing == {"remove", "unbind", "unpin", "record_some", "record_none"}

Places ==
    {"start", "off", "admitted", "hook", "bound", "done", "update", "check", "prepare", "fence",
     "apply", "commit", "reclaim", "leases", "pins", "holds", "move", "migrate", "end"}
        \cup Staging \cup Publishing \cup Removing

\* The variables have their types.
TypeOK ==
    /\ control \in Maybe(Control) /\ disk \subseteq Gens
    /\ lock \in Maybe(Commands) /\ worker \in Maybe(Commands)
    /\ leases \subseteq Hooks \X Gens
    /\ holds \subseteq Commands \X Gens
    /\ pins \in [Clients -> Maybe(Gens)]
    /\ bindings \in [Clients -> Maybe(Binding)]
    /\ store \in Contracts /\ integration \in Gens \cup {None, Removed}
    /\ life \in [Procs -> {"run", "zombie", "dead"}] /\ pc \in [Procs -> Places]
    /\ runs \in [Hooks -> Maybe(Gens)] /\ target \in [Commands -> Maybe(Gens)]
    /\ seen \in [Commands -> Maybe(Reading)] /\ before \in [Commands -> Maybe(Recipes)]
    /\ pass \in [snap : SUBSET Gens, refs : SUBSET Gens] /\ spawned \in Nat
    /\ adopted \subseteq Gens /\ lateP \subseteq Clients

\* No reclaim pass takes the directory of a process that runs (leases.mjs:94,
\* "the lease lasts until OS process death"): however its candidates, an
\* admission, an activation and a kill interleave.
LeasedOnDisk == \A l \in LiveLeases : l[2] \in disk

\* The control record names directories that exist: a candidate is never lost
\* between the end of its staging and its publication, save one that was
\* adopted while a pass that had read the holds was about to move it, the
\* window activation.mjs documents.
PointersOnDisk ==
    control # None =>
        {control.active, control.pending} \ {None} \subseteq disk \cup adopted

\* While entries are admitted, every running hook and every client with a
\* live native binding speaks the store contract of the active generation: an
\* activation of another contract waits for all of them and lets none in.
HoldersSpeakContract ==
    (control # None /\ control.phase = "ready") =>
        \A p \in Hooks \cup Clients :
            Holder(p) => HoldContracts(p) = {Contract[control.active]}

\* The store is never moved past the contract of a running holder.
StoreNotAhead ==
    \A p \in Hooks \cup Clients : Holder(p) => \A k \in HoldContracts(p) : store <= k

\* An update goes forward and to the pinned version only, whatever a setting,
\* an install and a download that began before them do.
PendingAllowed ==
    (control # None /\ control.pending # None) =>
        \/ control.pending = control.active /\ control.phase = "activating"
        \/ /\ control.pending > control.active
           /\ control.pin \in {None, control.pending}

\* With the fence open, the integrations a client still has are those of the
\* active generation, whatever activation, installation or removal was killed
\* and wherever: a killed activation leaves the fence shut.  None are left of
\* an enrolled installation only where a removal took them all and was killed
\* before it recorded that, and none are there once it is recorded: an updater
\* that was under way cannot reinstall them then (install.mjs:92).
IntegrationsMatch ==
    (control # None /\ control.phase = "ready") =>
        integration \in IF control.enrolled THEN {control.active, Removed} ELSE {None}

\* What control.json says of an update is allowed and true: the release it is
\* to activate, and the integrations it was activated with.
ControlHolds == PendingAllowed /\ IntegrationsMatch

\* No step takes the generation a live client's session is pinned to, except
\* for a pin that a delegated hook wrote again after it had been cleared.
PinnedKept ==
    [][\A c \in Clients :
        (/\ life[c] = "run" /\ pins[c] # None /\ pins[c] \in disk /\ c \notin lateP
         /\ pins' = pins) => pins[c] \in disk']_vars

\* What somebody uses stays on disk, however admissions, stagings, publications
\* and a reclaim pass that reads them one after another interleave.
InUseKept == LeasedOnDisk /\ PointersOnDisk

\* Code of one store contract never meets a store of another.
ContractRespected == HoldersSpeakContract /\ StoreNotAhead
=============================================================================
