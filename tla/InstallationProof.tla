--------------------------- MODULE InstallationProof ---------------------------
(***************************************************************************)
(* What an installation keeps, for any clients, hooks, commands,           *)
(* generations, policies and failures.                                     *)
(*                                                                         *)
(* The managed runtime (packages/cli/src/managed-runtime): what is in use  *)
(* stays on disk, a store contract is respected and the control record     *)
(* tells the truth.  None of it is inductive by itself.  A reclaim pass    *)
(* removes by what it read some steps ago, so the invariant says what each *)
(* of its stages knows (PassKnows), and that nobody else changes that      *)
(* while the pass owns the manager lock (LockHeld).  An activation writes  *)
(* what it prepared outside the lock, so the invariant keeps that          *)
(* preparation beside the control record (Prepared, Applied).              *)
(*                                                                         *)
(* Live delivery (packages/cli/src, the installer): it runs by consent,    *)
(* and the sender's grants follow the receivers.  A command decides from   *)
(* records it read once and writes client by client, so the invariant says *)
(* that each client still to be recorded is owed what is planned for it    *)
(* (Owed, PlanKept), that nothing changed under a question (AskKept), and  *)
(* what the sender's grants are before and after it is written (LoopKept,  *)
(* SenderKept).                                                            *)
(*                                                                         *)
(* One adapter's install and uninstall (packages/adapter-antigravity and   *)
(* the others): ACC knows what is its own wherever a command is cut short, *)
(* and takes no more than that. A command is a program of steps, so the    *)
(* invariant says what the steps still to do may rely on and must still    *)
(* take back (TodoKept, TreeTaken, FileTaken, RuleTaken), and what stands  *)
(* at each place between commands (TreeHeld, FileHeld, RuleHeld).          *)
(***************************************************************************)
EXTENDS ManagedRuntime, DeliveryConsent, ClientWiring, TLAPS

(***************************************************************************)
(* The inductive invariant.                                                *)
(***************************************************************************)
Passing == {"leases", "pins", "holds", "move"}
Locked == Passing \cup Removing \cup {"apply", "commit"}

\* A process that is at a step runs.
OffIsGone == \A p \in Procs : (pc[p] = "off") <=> Gone(p)

\* Inside the fence, and during a pass, the manager lock is the process's own.
LockHeld == \A p \in Commands : pc[p] \in Locked => lock = p

\* Before the first install nobody but an installer is at work.
NothingYet ==
    control = None =>
        /\ leases = {} /\ adopted = {} /\ store = Contract[First]
        /\ \A c \in Clients : bindings[c] = None
        /\ \A h \in Hooks : pc[h] \in {"start", "off"}
        /\ \A p \in Commands : pc[p] \in {"start", "off", "stage_install", "publish_install", "end"}

\* Who stages holds what it stages; what is staged is there, or was adopted.
Staged ==
    \A p \in Commands :
        /\ pc[p] \in Staging \cup Publishing => target[p] \in Gens /\ <<p, target[p]>> \in holds
        /\ pc[p] \in Publishing => target[p] \in disk \cup adopted
        /\ pc[p] \in {"stage_install", "publish_install"} => target[p] = First

\* A command remembers a control record, and stages what that one allows.
SeenAllows ==
    \A p \in Commands :
        /\ pc[p] \in {"prepare", "fence", "check", "stage_newer", "publish_newer",
                      "stage_release", "publish_release"} => seen[p] # None
        /\ (seen[p] # None /\ seen[p].pending # None) => seen[p].pending >= seen[p].active
        /\ pc[p] \in {"stage_newer", "publish_newer", "stage_release", "publish_release"} =>
               target[p] > seen[p].active /\ seen[p].pin \in {None, target[p]}

\* An activation was prepared for a candidate; inside the fence the control
\* record still is the one it was prepared for.
Prepared ==
    \A p \in Commands :
        /\ pc[p] = "fence" => before[p] \in Recipes /\ before[p][2] # None
        /\ pc[p] \in {"apply", "commit"} =>
               control.phase = "activating" /\ before[p] = Recipe(control)

\* An activation about to commit wrote every integration, from a candidate
\* that is there.
Applied ==
    \A p \in Commands : pc[p] = "commit" =>
        /\ control.pending \in disk
        /\ integration = IF control.enrolled THEN control.pending ELSE None

Unenrolled == (control # None /\ ~control.enrolled) => integration = None

\* A removal began with the fence open, and nobody shuts it meanwhile.
RemovalOpen ==
    \A p \in Commands : pc[p] \in Removing => control # None /\ control.phase = "ready"

ActivatingPends == (control # None /\ control.phase = "activating") => control.pending # None

ActiveOnDisk == control # None => control.active \in disk

\* Every lease, of a process that runs or not.
LeasesOnDisk == \A l \in leases : l[2] \in disk

\* What a reclaim pass has read still covers what is in use.
PassKnows ==
    \A p \in Commands :
        /\ pc[p] \in Passing =>
               /\ pass.snap \subseteq disk
               /\ control.active \in pass.refs
               /\ control.pending # None => control.pending \in pass.refs
        /\ pc[p] \in {"pins", "holds", "move"} => \A l \in leases : l[2] \in pass.refs
        /\ pc[p] \in {"holds", "move"} =>
               \A c \in Clients : (pins[c] # None /\ c \notin lateP) => pins[c] \in pass.refs
        /\ pc[p] = "move" =>
               \A q \in Commands : pc[q] \in Publishing =>
                   target[q] \in pass.refs \cup adopted \/ target[q] \notin pass.snap

\* Every lease, and every client whose binding counts, speaks contract k.
Speak(k) ==
    /\ \A l \in leases : Contract[l[2]] = k
    /\ \A c \in Clients : NativeHold(c) => bindings[c].contract = k

ContractsAgree ==
    control # None =>
        /\ Speak(Contract[control.active])
        /\ control.phase = "activating" => Speak(Contract[control.pending])
        /\ store <= Contract[control.active]

\* A hook at work holds a lease of the contract of the code it runs.
HooksLeased ==
    \A h \in Hooks : pc[h] \in {"admitted", "hook"} =>
        /\ runs[h] \in Gens
        /\ \E l \in leases : l[1] = h /\ Contract[l[2]] = Contract[runs[h]]

\* The invariant: the inductive strengthening of what the runs check.
RuntimeInv ==
    /\ TypeOK /\ OffIsGone /\ LockHeld /\ NothingYet /\ Staged /\ SeenAllows
    /\ Prepared /\ Applied /\ Unenrolled /\ ActivatingPends /\ PendingAllowed
    /\ IntegrationsMatch /\ ActiveOnDisk /\ PointersOnDisk /\ LeasesOnDisk
    /\ PassKnows /\ ContractsAgree /\ HooksLeased /\ RemovalOpen

\* These three only abbreviate sets.
USE DEF Procs, Maybe, Removing

\* While a command may take the lock no command is inside it.
LEMMA Free ==
    ASSUME RuntimeInv, LockFree
    PROVE  \A q \in Commands : pc[q] \notin Locked
BY RuntimeAssumption
DEF RuntimeInv, TypeOK, LockHeld, OffIsGone, LockFree, Dead, Gone, Locked, Passing

\* A hook at work keeps its lease when the leases of ended processes go.
LEMMA HooksLive ==
    ASSUME RuntimeInv
    PROVE  \A h \in Hooks : pc[h] \in {"admitted", "hook"} =>
               /\ runs[h] \in Gens
               /\ \E l \in LiveLeases : l[1] = h /\ Contract[l[2]] = Contract[runs[h]]
BY DEF RuntimeInv, HooksLeased, OffIsGone, LiveLeases

\* What a command reads of the control record.
LEMMA Reads ==
    ASSUME RuntimeInv, control # None
    PROVE  /\ Read(control) \in Reading /\ Read(control) # None
           /\ Read(control).active = control.active /\ Read(control).pin = control.pin
           /\ Read(control).pending = control.pending
           /\ control.active \in Gens /\ control.pending \in Maybe(Gens)
           /\ control.pending # None => control.pending >= control.active
<1>1. control \in Control
  BY DEF RuntimeInv, TypeOK
<1>2. /\ Read(control) \in Reading
      /\ control.active \in Gens /\ control.pending \in Maybe(Gens)
  BY <1>1 DEF Read, Reading, Control
<1>3. control.pending # None => control.pending >= control.active
  <2>1. control.active \in Nat /\ (control.pending # None => control.pending \in Nat)
    BY <1>2, RuntimeAssumption
  <2> QED
    BY <2>1 DEF RuntimeInv, PendingAllowed
<1> QED
  BY <1>2, <1>3, RuntimeAssumption DEF Read

\* A process starts: it holds nothing, and a dead client's pid may be used again.
LEMMA SpawnKeeps ==
    ASSUME RuntimeInv, NEW p \in Procs, Spawn(p)
    PROVE  RuntimeInv'
<1>1. TypeOK'
  <2>1. bindings' \in [Clients -> Maybe(Binding)]
    <3>1. \A c \in Clients : bindings[c] \in Maybe(Binding)
      BY DEF RuntimeInv, TypeOK
    <3>2. \A b \in Binding : [b EXCEPT !.reused = TRUE] \in Binding
      BY DEF Binding
    <3> QED
      BY <3>1, <3>2 DEF Spawn
  <2>2. spawned' \in Nat
    BY DEF RuntimeInv, TypeOK, Spawn
  <2> QED
    BY <2>1, <2>2 DEF RuntimeInv, TypeOK, Spawn, Places
<1>2. OffIsGone' /\ LockHeld'
  BY DEF RuntimeInv, TypeOK, Spawn, OffIsGone, LockHeld, Gone, Locked, Passing
<1>3. NothingYet'
  BY DEF RuntimeInv, TypeOK, Spawn, NothingYet
<1>4. Staged'
  BY RuntimeAssumption DEF RuntimeInv, TypeOK, Spawn, Staged, Staging, Publishing
<1>5. SeenAllows'
  BY DEF RuntimeInv, TypeOK, Spawn, SeenAllows
<1>6. Prepared' /\ Applied'
  BY DEF RuntimeInv, TypeOK, Spawn, Prepared, Applied, Recipe
<1>7. Unenrolled' /\ ActivatingPends' /\ PendingAllowed' /\ IntegrationsMatch'
  BY DEF RuntimeInv, TypeOK, Spawn, Unenrolled, ActivatingPends, PendingAllowed, IntegrationsMatch
<1>8. ActiveOnDisk' /\ PointersOnDisk' /\ LeasesOnDisk'
  BY DEF RuntimeInv, TypeOK, Spawn, ActiveOnDisk, PointersOnDisk, LeasesOnDisk
<1>9. PassKnows'
  BY RuntimeAssumption
  DEF RuntimeInv, TypeOK, Spawn, PassKnows, Dead, Locked, Passing, LockHeld, Staging,
     Publishing
<1>10. ContractsAgree'
  BY DEF RuntimeInv, TypeOK, Spawn, ContractsAgree, Speak, NativeHold, Gone
<1>11. HooksLeased'
  BY DEF RuntimeInv, TypeOK, Spawn, HooksLeased
<1>12. RemovalOpen'
  BY DEF RuntimeInv, TypeOK, Spawn, RemovalOpen
<1> QED
  BY <1>1, <1>2, <1>3, <1>4, <1>5, <1>6, <1>7, <1>8, <1>9, <1>10, <1>11, <1>12
  DEF RuntimeInv

\* A process ends and keeps its lock, its lease and its binding on disk.
LEMMA ExitKeeps ==
    ASSUME RuntimeInv, NEW p \in Procs, Exit(p)
    PROVE  RuntimeInv'
<1>1. TypeOK'
  BY RuntimeAssumption DEF RuntimeInv, TypeOK, Exit, files, Places, Staging, Publishing, Control
<1>2. OffIsGone' /\ LockHeld'
  BY DEF RuntimeInv, TypeOK, Exit, files, OffIsGone, LockHeld, Gone, Locked, Passing
<1>3. NothingYet'
  BY DEF RuntimeInv, TypeOK, Exit, files, NothingYet
<1>4. Staged'
  BY RuntimeAssumption DEF RuntimeInv, TypeOK, Exit, files, Staged, Staging, Publishing
<1>5. SeenAllows'
  BY DEF RuntimeInv, TypeOK, Exit, files, SeenAllows
<1>6. Prepared' /\ Applied'
  BY DEF RuntimeInv, TypeOK, Exit, files, Prepared, Applied, Recipe
<1>7. Unenrolled' /\ ActivatingPends' /\ PendingAllowed' /\ IntegrationsMatch'
  BY
  DEF RuntimeInv, TypeOK, Exit, files, Unenrolled, ActivatingPends, PendingAllowed,
     IntegrationsMatch
<1>8. ActiveOnDisk' /\ PointersOnDisk' /\ LeasesOnDisk'
  BY DEF RuntimeInv, TypeOK, Exit, files, ActiveOnDisk, PointersOnDisk, LeasesOnDisk
<1>9. PassKnows'
  BY RuntimeAssumption
  DEF RuntimeInv, TypeOK, Exit, files, PassKnows, Locked, Passing, LockHeld, Staging,
     Publishing
<1>10. ContractsAgree'
  BY DEF RuntimeInv, TypeOK, Exit, files, ContractsAgree, Speak, NativeHold, Gone
<1>11. HooksLeased'
  BY DEF RuntimeInv, TypeOK, Exit, files, HooksLeased
<1>12. RemovalOpen'
  BY DEF RuntimeInv, TypeOK, Exit, files, RemovalOpen
<1> QED
  BY <1>1, <1>2, <1>3, <1>4, <1>5, <1>6, <1>7, <1>8, <1>9, <1>10, <1>11, <1>12
  DEF RuntimeInv

\* A zombie is collected: who was gone stays gone.
LEMMA CollectKeeps ==
    ASSUME RuntimeInv, NEW p \in Procs, Collect(p)
    PROVE  RuntimeInv'
<1>1. TypeOK'
  BY DEF RuntimeInv, TypeOK, Collect, files
<1>2. OffIsGone' /\ LockHeld'
  BY DEF RuntimeInv, TypeOK, Collect, files, OffIsGone, LockHeld, Gone
<1>3. NothingYet'
  BY DEF RuntimeInv, TypeOK, Collect, files, NothingYet
<1>4. Staged'
  BY DEF RuntimeInv, TypeOK, Collect, files, Staged
<1>5. SeenAllows'
  BY DEF RuntimeInv, TypeOK, Collect, files, SeenAllows
<1>6. Prepared' /\ Applied'
  BY DEF RuntimeInv, TypeOK, Collect, files, Prepared, Applied, Recipe
<1>7. Unenrolled' /\ ActivatingPends' /\ PendingAllowed' /\ IntegrationsMatch'
  BY
  DEF RuntimeInv, TypeOK, Collect, files, Unenrolled, ActivatingPends, PendingAllowed,
     IntegrationsMatch
<1>8. ActiveOnDisk' /\ PointersOnDisk' /\ LeasesOnDisk'
  BY DEF RuntimeInv, TypeOK, Collect, files, ActiveOnDisk, PointersOnDisk, LeasesOnDisk
<1>9. PassKnows'
  BY DEF RuntimeInv, TypeOK, Collect, files, PassKnows
<1>10. ContractsAgree'
  BY DEF RuntimeInv, TypeOK, Collect, files, ContractsAgree, Speak, NativeHold, Gone
<1>11. HooksLeased'
  BY DEF RuntimeInv, TypeOK, Collect, files, HooksLeased
<1>12. RemovalOpen'
  BY DEF RuntimeInv, TypeOK, Collect, files, RemovalOpen
<1> QED
  BY <1>1, <1>2, <1>3, <1>4, <1>5, <1>6, <1>7, <1>8, <1>9, <1>10, <1>11, <1>12
  DEF RuntimeInv

\* A hook is admitted under the lock: what it leases speaks the active contract.
LEMMA AdmitKeeps ==
    ASSUME RuntimeInv, NEW h \in Hooks, Admit(h)
    PROVE  RuntimeInv'
<1>1. TypeOK'
  BY RuntimeAssumption
  DEF RuntimeInv, TypeOK, Admit, LockFree, Dead, Places, Staging, Publishing, Control
<1>2. OffIsGone' /\ LockHeld'
  BY RuntimeAssumption DEF RuntimeInv, TypeOK, Admit, OffIsGone, LockHeld, Gone
<1>3. NothingYet'
  BY DEF RuntimeInv, TypeOK, Admit, NothingYet
<1>4. Staged'
  BY RuntimeAssumption DEF RuntimeInv, TypeOK, Admit, Staged
<1>5. SeenAllows'
  BY DEF RuntimeInv, TypeOK, Admit, SeenAllows
<1>6. Prepared' /\ Applied'
  BY DEF RuntimeInv, TypeOK, Admit, Prepared, Applied, Recipe
<1>7. Unenrolled' /\ ActivatingPends' /\ PendingAllowed' /\ IntegrationsMatch'
  BY DEF RuntimeInv, TypeOK, Admit, Unenrolled, ActivatingPends, PendingAllowed, IntegrationsMatch
<1>8. ActiveOnDisk' /\ PointersOnDisk' /\ LeasesOnDisk'
  BY DEF RuntimeInv, TypeOK, Admit, ActiveOnDisk, PointersOnDisk, LeasesOnDisk
<1>9. PassKnows'
  BY Free DEF RuntimeInv, TypeOK, Admit, PassKnows, Locked, Passing
<1>10. ContractsAgree'
  BY DEF RuntimeInv, TypeOK, Admit, ContractsAgree, Speak, NativeHold, Gone
<1>11. HooksLeased'
  <2>1. control.active \in Gens
    BY DEF RuntimeInv, TypeOK, Admit, Control
  <2>2. ASSUME NEW q \in Hooks, q # h, pc'[q] \in {"admitted", "hook"}
        PROVE  /\ runs'[q] \in Gens
               /\ \E l \in leases' : l[1] = q /\ Contract[l[2]] = Contract[runs'[q]]
    <3>1. pc[q] \in {"admitted", "hook"} /\ runs'[q] = runs[q]
      BY <2>2 DEF RuntimeInv, TypeOK, Admit
    <3>2. LiveLeases \subseteq leases'
      BY DEF Admit, LiveLeases, Gone, Dead
    <3> QED
      BY <3>1, <3>2, HooksLive
  <2>3. runs'[h] = control.active /\ <<h, control.active>> \in leases'
    BY DEF RuntimeInv, TypeOK, Admit
  <2> QED
    BY <2>1, <2>2, <2>3 DEF HooksLeased
<1>12. RemovalOpen'
  BY RuntimeAssumption DEF RuntimeInv, TypeOK, Admit, RemovalOpen
<1> QED
  BY <1>1, <1>2, <1>3, <1>4, <1>5, <1>6, <1>7, <1>8, <1>9, <1>10, <1>11, <1>12
  DEF RuntimeInv

\* An admitted hook goes on in the code of another generation of its contract.
LEMMA DelegateKeeps ==
    ASSUME RuntimeInv, NEW h \in Hooks, NEW c \in Clients, Delegate(h, c)
    PROVE  RuntimeInv'
<1>1. TypeOK'
  BY RuntimeAssumption
  DEF RuntimeInv, TypeOK, Delegate, files, Resolves, Places, Staging, Publishing, Control
<1>2. OffIsGone' /\ LockHeld'
  BY RuntimeAssumption DEF RuntimeInv, TypeOK, Delegate, files, OffIsGone, LockHeld, Gone
<1>3. NothingYet'
  BY DEF RuntimeInv, TypeOK, Delegate, files, NothingYet
<1>4. Staged'
  BY RuntimeAssumption DEF RuntimeInv, TypeOK, Delegate, files, Staged
<1>5. SeenAllows'
  BY DEF RuntimeInv, TypeOK, Delegate, files, SeenAllows
<1>6. Prepared' /\ Applied'
  BY DEF RuntimeInv, TypeOK, Delegate, files, Prepared, Applied, Recipe
<1>7. Unenrolled' /\ ActivatingPends' /\ PendingAllowed' /\ IntegrationsMatch'
  BY
  DEF RuntimeInv, TypeOK, Delegate, files, Unenrolled, ActivatingPends, PendingAllowed,
     IntegrationsMatch
<1>8. ActiveOnDisk' /\ PointersOnDisk' /\ LeasesOnDisk'
  BY DEF RuntimeInv, TypeOK, Delegate, files, ActiveOnDisk, PointersOnDisk, LeasesOnDisk
<1>9. PassKnows'
  BY RuntimeAssumption DEF RuntimeInv, TypeOK, Delegate, files, PassKnows
<1>10. ContractsAgree'
  BY DEF RuntimeInv, TypeOK, Delegate, files, ContractsAgree, Speak, NativeHold, Gone
<1>11. HooksLeased'
  BY RuntimeAssumption DEF RuntimeInv, TypeOK, Delegate, files, HooksLeased, Resolves, Control
<1>12. RemovalOpen'
  BY RuntimeAssumption DEF RuntimeInv, TypeOK, Delegate, files, RemovalOpen
<1> QED
  BY <1>1, <1>2, <1>3, <1>4, <1>5, <1>6, <1>7, <1>8, <1>9, <1>10, <1>11, <1>12
  DEF RuntimeInv

\* A session start binds the client to code of the contract its hook leases.
LEMMA StartSessionKeeps ==
    ASSUME RuntimeInv, NEW h \in Hooks, NEW c \in Clients, StartSession(h, c)
    PROVE  RuntimeInv'
<1>1. TypeOK'
  <2>1. Contract[runs[h]] \in Contracts
    BY DEF RuntimeInv, HooksLeased, StartSession, Contracts
  <2>2. bindings' \in [Clients -> Maybe(Binding)]
    BY <2>1 DEF RuntimeInv, TypeOK, StartSession, Binding
  <2> QED
    BY <2>2 DEF RuntimeInv, TypeOK, StartSession, Places
<1>2. OffIsGone' /\ LockHeld'
  BY RuntimeAssumption DEF RuntimeInv, TypeOK, StartSession, OffIsGone, LockHeld, Gone
<1>3. NothingYet'
  BY DEF RuntimeInv, TypeOK, StartSession, NothingYet
<1>4. Staged'
  BY RuntimeAssumption DEF RuntimeInv, TypeOK, StartSession, Staged
<1>5. SeenAllows'
  BY DEF RuntimeInv, TypeOK, StartSession, SeenAllows
<1>6. Prepared' /\ Applied'
  BY DEF RuntimeInv, TypeOK, StartSession, Prepared, Applied, Recipe
<1>7. Unenrolled' /\ ActivatingPends' /\ PendingAllowed' /\ IntegrationsMatch'
  BY
  DEF RuntimeInv, TypeOK, StartSession, Unenrolled, ActivatingPends, PendingAllowed,
     IntegrationsMatch
<1>8. ActiveOnDisk' /\ PointersOnDisk' /\ LeasesOnDisk'
  BY DEF RuntimeInv, TypeOK, StartSession, ActiveOnDisk, PointersOnDisk, LeasesOnDisk
<1>9. PassKnows'
  BY RuntimeAssumption DEF RuntimeInv, TypeOK, StartSession, PassKnows
<1>10. ContractsAgree'
  <2>1. ASSUME NEW k, Speak(k)  PROVE Speak(k)'
    <3>1. Contract[runs[h]] = k
      BY <2>1 DEF RuntimeInv, HooksLeased, StartSession, Speak
    <3>2. \A d \in Clients : NativeHold(d)' => bindings'[d].contract = k
      BY <2>1, <3>1 DEF RuntimeInv, TypeOK, StartSession, Speak, NativeHold, Gone
    <3> QED
      BY <2>1, <3>2 DEF StartSession, Speak
  <2> QED
    BY <2>1 DEF RuntimeInv, ContractsAgree, StartSession
<1>11. HooksLeased'
  BY DEF RuntimeInv, TypeOK, StartSession, HooksLeased
<1>12. RemovalOpen'
  BY RuntimeAssumption DEF RuntimeInv, TypeOK, StartSession, RemovalOpen
<1> QED
  BY <1>1, <1>2, <1>3, <1>4, <1>5, <1>6, <1>7, <1>8, <1>9, <1>10, <1>11, <1>12
  DEF RuntimeInv

\* A pin is written after the binding; a pass that read the pins may miss it.
LEMMA WritePinKeeps ==
    ASSUME RuntimeInv, NEW h \in Hooks, NEW c \in Clients, WritePin(h, c)
    PROVE  RuntimeInv'
<1>1. TypeOK'
  BY RuntimeAssumption
  DEF RuntimeInv, TypeOK, WritePin, Leased, Places, Staging, Publishing, Control
<1>2. OffIsGone' /\ LockHeld'
  BY RuntimeAssumption DEF RuntimeInv, TypeOK, WritePin, OffIsGone, LockHeld, Gone
<1>3. NothingYet'
  BY DEF RuntimeInv, TypeOK, WritePin, NothingYet
<1>4. Staged'
  BY RuntimeAssumption DEF RuntimeInv, TypeOK, WritePin, Staged
<1>5. SeenAllows'
  BY DEF RuntimeInv, TypeOK, WritePin, SeenAllows
<1>6. Prepared' /\ Applied'
  BY DEF RuntimeInv, TypeOK, WritePin, Prepared, Applied, Recipe
<1>7. Unenrolled' /\ ActivatingPends' /\ PendingAllowed' /\ IntegrationsMatch'
  BY
  DEF RuntimeInv, TypeOK, WritePin, Unenrolled, ActivatingPends, PendingAllowed,
     IntegrationsMatch
<1>8. ActiveOnDisk' /\ PointersOnDisk' /\ LeasesOnDisk'
  BY DEF RuntimeInv, TypeOK, WritePin, ActiveOnDisk, PointersOnDisk, LeasesOnDisk
<1>9. PassKnows'
  BY RuntimeAssumption
  DEF RuntimeInv, TypeOK, WritePin, PassKnows, Leased, Locked, Passing, LockHeld, Staging,
     Publishing
<1>10. ContractsAgree'
  BY DEF RuntimeInv, TypeOK, WritePin, ContractsAgree, Speak, NativeHold, Gone
<1>11. HooksLeased'
  BY DEF RuntimeInv, TypeOK, WritePin, HooksLeased
<1>12. RemovalOpen'
  BY RuntimeAssumption DEF RuntimeInv, TypeOK, WritePin, RemovalOpen
<1> QED
  BY <1>1, <1>2, <1>3, <1>4, <1>5, <1>6, <1>7, <1>8, <1>9, <1>10, <1>11, <1>12
  DEF RuntimeInv

\* A session end drops the binding and the pin, which only frees generations.
LEMMA EndSessionKeeps ==
    ASSUME RuntimeInv, NEW h \in Hooks, NEW c \in Clients, EndSession(h, c)
    PROVE  RuntimeInv'
<1>1. TypeOK'
  BY RuntimeAssumption DEF RuntimeInv, TypeOK, EndSession, Places, Staging, Publishing, Control
<1>2. OffIsGone' /\ LockHeld'
  BY RuntimeAssumption DEF RuntimeInv, TypeOK, EndSession, OffIsGone, LockHeld, Gone
<1>3. NothingYet'
  BY DEF RuntimeInv, TypeOK, EndSession, NothingYet
<1>4. Staged'
  BY RuntimeAssumption DEF RuntimeInv, TypeOK, EndSession, Staged
<1>5. SeenAllows'
  BY DEF RuntimeInv, TypeOK, EndSession, SeenAllows
<1>6. Prepared' /\ Applied'
  BY DEF RuntimeInv, TypeOK, EndSession, Prepared, Applied, Recipe
<1>7. Unenrolled' /\ ActivatingPends' /\ PendingAllowed' /\ IntegrationsMatch'
  BY
  DEF RuntimeInv, TypeOK, EndSession, Unenrolled, ActivatingPends, PendingAllowed,
     IntegrationsMatch
<1>8. ActiveOnDisk' /\ PointersOnDisk' /\ LeasesOnDisk'
  BY DEF RuntimeInv, TypeOK, EndSession, ActiveOnDisk, PointersOnDisk, LeasesOnDisk
<1>9. PassKnows'
  BY RuntimeAssumption DEF RuntimeInv, TypeOK, EndSession, PassKnows
<1>10. ContractsAgree'
  BY DEF RuntimeInv, TypeOK, EndSession, ContractsAgree, Speak, NativeHold, Gone
<1>11. HooksLeased'
  BY DEF RuntimeInv, TypeOK, EndSession, HooksLeased
<1>12. RemovalOpen'
  BY RuntimeAssumption DEF RuntimeInv, TypeOK, EndSession, RemovalOpen
<1> QED
  BY <1>1, <1>2, <1>3, <1>4, <1>5, <1>6, <1>7, <1>8, <1>9, <1>10, <1>11, <1>12
  DEF RuntimeInv

\* An install stages its own generation and takes nothing yet.
LEMMA StageInstallKeeps ==
    ASSUME RuntimeInv, NEW p \in Commands, StageInstall(p)
    PROVE  RuntimeInv'
<1>1. TypeOK'
  BY RuntimeAssumption DEF RuntimeInv, TypeOK, StageInstall, Places, Staging, Publishing, Control
<1>2. OffIsGone' /\ LockHeld'
  BY DEF RuntimeInv, TypeOK, StageInstall, OffIsGone, LockHeld, Gone, Locked, Passing
<1>3. NothingYet'
  BY RuntimeAssumption DEF RuntimeInv, TypeOK, StageInstall, NothingYet
<1>4. Staged'
  BY RuntimeAssumption DEF RuntimeInv, TypeOK, StageInstall, Staged, Staging, Publishing
<1>5. SeenAllows'
  BY DEF RuntimeInv, TypeOK, StageInstall, SeenAllows
<1>6. Prepared' /\ Applied'
  BY DEF RuntimeInv, TypeOK, StageInstall, Prepared, Applied, Recipe
<1>7. Unenrolled' /\ ActivatingPends' /\ PendingAllowed' /\ IntegrationsMatch'
  BY
  DEF RuntimeInv, TypeOK, StageInstall, Unenrolled, ActivatingPends, PendingAllowed,
     IntegrationsMatch
<1>8. ActiveOnDisk' /\ PointersOnDisk' /\ LeasesOnDisk'
  BY DEF RuntimeInv, TypeOK, StageInstall, ActiveOnDisk, PointersOnDisk, LeasesOnDisk
<1>9. PassKnows'
  BY RuntimeAssumption
  DEF RuntimeInv, TypeOK, StageInstall, PassKnows, Locked, Passing, LockHeld, Staging,
     Publishing
<1>10. ContractsAgree'
  BY DEF RuntimeInv, TypeOK, StageInstall, ContractsAgree, Speak, NativeHold, Gone
<1>11. HooksLeased'
  BY DEF RuntimeInv, TypeOK, StageInstall, HooksLeased
<1>12. RemovalOpen'
  BY DEF RuntimeInv, TypeOK, StageInstall, RemovalOpen
<1> QED
  BY <1>1, <1>2, <1>3, <1>4, <1>5, <1>6, <1>7, <1>8, <1>9, <1>10, <1>11, <1>12
  DEF RuntimeInv

\* A newer global command stages itself against the control record it read.
LEMMA StageNewerKeeps ==
    ASSUME RuntimeInv, NEW p \in Commands, NEW g \in Gens, StageNewer(p, g)
    PROVE  RuntimeInv'
<1>1. TypeOK'
  <2>1. seen' \in [Commands -> Maybe(Reading)]
    BY Reads DEF RuntimeInv, TypeOK, StageNewer
  <2> QED
    BY <2>1 DEF RuntimeInv, TypeOK, StageNewer, Places, Staging
<1>2. OffIsGone' /\ LockHeld'
  BY DEF RuntimeInv, TypeOK, StageNewer, OffIsGone, LockHeld, Gone, Locked, Passing
<1>3. NothingYet'
  BY DEF RuntimeInv, TypeOK, StageNewer, NothingYet
<1>4. Staged'
  BY RuntimeAssumption DEF RuntimeInv, TypeOK, StageNewer, Staged, Staging, Publishing
<1>5. SeenAllows'
  <2>1. g > control.active /\ control.pin \in {None, g}
    <3>1. /\ control # None /\ control.pin \in {None, g}
          /\ g > (IF control.pending # None THEN control.pending ELSE control.active)
      BY DEF StageNewer, Newer
    <3>2. /\ g \in Nat /\ control.active \in Nat
          /\ control.pending # None => control.pending \in Nat /\ control.pending >= control.active
      BY <3>1, Reads, RuntimeAssumption
    <3> QED
      BY <3>1, <3>2
  <2>2. seen'[p] = Read(control) /\ target'[p] = g
    BY DEF RuntimeInv, TypeOK, StageNewer
  <2>3. \A q \in Commands \ {p} : pc'[q] = pc[q] /\ seen'[q] = seen[q] /\ target'[q] = target[q]
    BY DEF RuntimeInv, TypeOK, StageNewer
  <2> QED
    BY <2>1, <2>2, <2>3, Reads DEF RuntimeInv, SeenAllows, StageNewer
<1>6. Prepared' /\ Applied'
  BY DEF RuntimeInv, TypeOK, StageNewer, Prepared, Applied, Recipe
<1>7. Unenrolled' /\ ActivatingPends' /\ PendingAllowed' /\ IntegrationsMatch'
  BY
  DEF RuntimeInv, TypeOK, StageNewer, Unenrolled, ActivatingPends, PendingAllowed,
     IntegrationsMatch
<1>8. ActiveOnDisk' /\ PointersOnDisk' /\ LeasesOnDisk'
  BY DEF RuntimeInv, TypeOK, StageNewer, ActiveOnDisk, PointersOnDisk, LeasesOnDisk
<1>9. PassKnows'
  BY RuntimeAssumption
  DEF RuntimeInv, TypeOK, StageNewer, PassKnows, Read, Newer, Locked, Passing, LockHeld,
     Staging, Publishing
<1>10. ContractsAgree'
  BY DEF RuntimeInv, TypeOK, StageNewer, ContractsAgree, Speak, NativeHold, Gone
<1>11. HooksLeased'
  BY DEF RuntimeInv, TypeOK, StageNewer, HooksLeased
<1>12. RemovalOpen'
  BY DEF RuntimeInv, TypeOK, StageNewer, RemovalOpen
<1> QED
  BY <1>1, <1>2, <1>3, <1>4, <1>5, <1>6, <1>7, <1>8, <1>9, <1>10, <1>11, <1>12
  DEF RuntimeInv

\* A download stages a release newer than what the record it read names.
LEMMA DownloadKeeps ==
    ASSUME RuntimeInv, NEW p \in Commands, NEW g \in Gens, Download(p, g)
    PROVE  RuntimeInv'
<1>1. TypeOK'
  BY RuntimeAssumption DEF RuntimeInv, TypeOK, Download, Newer, Places, Staging, Publishing, Control
<1>2. OffIsGone' /\ LockHeld'
  BY DEF RuntimeInv, TypeOK, Download, OffIsGone, LockHeld, Gone, Locked, Passing
<1>3. NothingYet'
  BY DEF RuntimeInv, TypeOK, Download, NothingYet
<1>4. Staged'
  BY RuntimeAssumption DEF RuntimeInv, TypeOK, Download, Staged, Staging, Publishing
<1>5. SeenAllows'
  <2>1. /\ seen[p] # None /\ seen[p] \in Reading
        /\ seen[p].pending # None => seen[p].pending >= seen[p].active
    BY DEF RuntimeInv, TypeOK, SeenAllows, Download
  <2>2. g > seen[p].active /\ seen[p].pin \in {None, g}
    BY <2>1, RuntimeAssumption DEF Download, Newer, Reading
  <2>3. target'[p] = g /\ seen' = seen /\ pc'[p] = "stage_release"
    BY DEF RuntimeInv, TypeOK, Download
  <2>4. \A q \in Commands \ {p} : pc'[q] = pc[q] /\ target'[q] = target[q]
    BY DEF RuntimeInv, TypeOK, Download
  <2> QED
    BY <2>1, <2>2, <2>3, <2>4 DEF RuntimeInv, SeenAllows
<1>6. Prepared' /\ Applied'
  BY DEF RuntimeInv, TypeOK, Download, Prepared, Applied, Recipe
<1>7. Unenrolled' /\ ActivatingPends' /\ PendingAllowed' /\ IntegrationsMatch'
  BY
  DEF RuntimeInv, TypeOK, Download, Unenrolled, ActivatingPends, PendingAllowed,
     IntegrationsMatch
<1>8. ActiveOnDisk' /\ PointersOnDisk' /\ LeasesOnDisk'
  BY DEF RuntimeInv, TypeOK, Download, ActiveOnDisk, PointersOnDisk, LeasesOnDisk
<1>9. PassKnows'
  BY RuntimeAssumption
  DEF RuntimeInv, TypeOK, Download, PassKnows, Newer, Locked, Passing, LockHeld, Staging,
     Publishing
<1>10. ContractsAgree'
  BY DEF RuntimeInv, TypeOK, Download, ContractsAgree, Speak, NativeHold, Gone
<1>11. HooksLeased'
  BY DEF RuntimeInv, TypeOK, Download, HooksLeased
<1>12. RemovalOpen'
  BY DEF RuntimeInv, TypeOK, Download, RemovalOpen
<1> QED
  BY <1>1, <1>2, <1>3, <1>4, <1>5, <1>6, <1>7, <1>8, <1>9, <1>10, <1>11, <1>12
  DEF RuntimeInv

\* A staged tree appears on disk, or the equal one there is adopted.
LEMMA StageKeeps ==
    ASSUME RuntimeInv, NEW p \in Commands, Stage(p)
    PROVE  RuntimeInv'
<1>1. TypeOK'
  <2>1. VerifyOf[pc[p]] \in Publishing
    BY DEF Stage, VerifyOf, Staging, Publishing
  <2>2. target[p] \in Gens
    BY DEF RuntimeInv, Staged, Stage
  <2>3. pc' \in [Procs -> Places]
    BY <2>1 DEF RuntimeInv, TypeOK, Stage, Places
  <2>4. disk' \subseteq Gens /\ adopted' \subseteq Gens
    BY <2>2 DEF RuntimeInv, TypeOK, Stage
  <2> QED
    BY <2>3, <2>4 DEF RuntimeInv, TypeOK, Stage
<1>2. OffIsGone' /\ LockHeld'
  BY RuntimeAssumption
  DEF RuntimeInv, TypeOK, Stage, OffIsGone, LockHeld, Gone, VerifyOf, Locked, Passing, Staging,
     Publishing
<1>3. NothingYet'
  BY RuntimeAssumption DEF RuntimeInv, TypeOK, Stage, NothingYet, VerifyOf, Staging, Publishing
<1>4. Staged'
  BY RuntimeAssumption DEF RuntimeInv, TypeOK, Stage, Staged, VerifyOf, Staging, Publishing
<1>5. SeenAllows'
  BY RuntimeAssumption
  DEF RuntimeInv, TypeOK, Stage, SeenAllows, VerifyOf, Locked, Passing, Staging, Publishing
<1>6. Prepared' /\ Applied'
  BY RuntimeAssumption
  DEF RuntimeInv, TypeOK, Stage, Prepared, Applied, Recipe, VerifyOf, Locked, Passing, Control,
     LockHeld, NothingYet, Staging, Publishing
<1>7. Unenrolled' /\ ActivatingPends' /\ PendingAllowed' /\ IntegrationsMatch'
  BY DEF RuntimeInv, TypeOK, Stage, Unenrolled, ActivatingPends, PendingAllowed, IntegrationsMatch
<1>8. ActiveOnDisk' /\ PointersOnDisk' /\ LeasesOnDisk'
  BY DEF RuntimeInv, TypeOK, Stage, ActiveOnDisk, PointersOnDisk, LeasesOnDisk
<1>9. PassKnows'
  <2>1. VerifyOf[pc[p]] \in Publishing
    BY DEF Stage, VerifyOf, Staging, Publishing
  <2>2. pc'[p] \in Publishing /\ \A q \in Commands \ {p} : pc'[q] = pc[q]
    BY <2>1 DEF RuntimeInv, TypeOK, Stage
  <2>3. disk \subseteq disk' /\ UNCHANGED <<pass, control, leases, pins, lateP, target>>
    BY DEF Stage
  <2>4. ASSUME NEW r \in Commands, pc'[r] = "move", NEW q \in Commands, pc'[q] \in Publishing
        PROVE  target[q] \in pass.refs \cup adopted' \/ target[q] \notin pass.snap
    <3>1. r # p /\ pc[r] = "move" /\ life[r] = "run" /\ pass.snap \subseteq disk
      BY <2>2, <2>4, RuntimeAssumption
      DEF RuntimeInv, TypeOK, OffIsGone, Gone, PassKnows, Passing, Publishing
    <3>2. CASE q = p
      BY <3>1, <3>2 DEF Stage
    <3>3. CASE q # p
      <4>1. target[q] \in pass.refs \cup adopted \/ target[q] \notin pass.snap
        BY <2>2, <2>4, <3>1, <3>3 DEF RuntimeInv, PassKnows
      <4>2. adopted \subseteq adopted' \cup {g \in Gens : g \notin disk}
        BY DEF RuntimeInv, TypeOK, Stage
      <4> QED
        BY <3>1, <4>1, <4>2
    <3> QED
      BY <3>2, <3>3
  <2>5. ASSUME NEW r \in Commands, pc'[r] \in Passing
        PROVE  pc[r] = pc'[r]
    BY <2>2, <2>5 DEF Passing, Publishing
  <2> QED
    BY <2>3, <2>4, <2>5 DEF RuntimeInv, PassKnows, Passing
<1>10. ContractsAgree'
  BY DEF RuntimeInv, TypeOK, Stage, ContractsAgree, Speak, NativeHold, Gone
<1>11. HooksLeased'
  BY RuntimeAssumption DEF RuntimeInv, TypeOK, Stage, HooksLeased
<1>12. RemovalOpen'
  <2>1. VerifyOf[pc[p]] \notin Removing
    BY DEF Stage, VerifyOf, Staging, Removing
  <2> QED
    BY <2>1 DEF RuntimeInv, TypeOK, Stage, RemovalOpen
<1> QED
  BY <1>1, <1>2, <1>3, <1>4, <1>5, <1>6, <1>7, <1>8, <1>9, <1>10, <1>11, <1>12
  DEF RuntimeInv

\* An attempt given up leaves its tree, which nothing names.
LEMMA AbandonKeeps ==
    ASSUME RuntimeInv, NEW p \in Commands, Abandon(p)
    PROVE  RuntimeInv'
<1>1. TypeOK'
  BY RuntimeAssumption
  DEF RuntimeInv, TypeOK, Abandon, Release, Places, Staging, Publishing, Control
<1>2. OffIsGone' /\ LockHeld'
  BY RuntimeAssumption
  DEF RuntimeInv, TypeOK, Abandon, OffIsGone, LockHeld, Gone, Release, Locked, Passing,
     Staging, Publishing
<1>3. NothingYet'
  BY RuntimeAssumption DEF RuntimeInv, TypeOK, Abandon, NothingYet
<1>4. Staged'
  BY RuntimeAssumption DEF RuntimeInv, TypeOK, Abandon, Staged, Release, Staging, Publishing
<1>5. SeenAllows'
  BY DEF RuntimeInv, TypeOK, Abandon, SeenAllows
<1>6. Prepared' /\ Applied'
  BY DEF RuntimeInv, TypeOK, Abandon, Prepared, Applied, Recipe
<1>7. Unenrolled' /\ ActivatingPends' /\ PendingAllowed' /\ IntegrationsMatch'
  BY DEF RuntimeInv, TypeOK, Abandon, Unenrolled, ActivatingPends, PendingAllowed, IntegrationsMatch
<1>8. ActiveOnDisk' /\ PointersOnDisk' /\ LeasesOnDisk'
  BY DEF RuntimeInv, TypeOK, Abandon, ActiveOnDisk, PointersOnDisk, LeasesOnDisk
<1>9. PassKnows'
  BY DEF RuntimeInv, TypeOK, Abandon, PassKnows, Locked, Passing
<1>10. ContractsAgree'
  BY DEF RuntimeInv, TypeOK, Abandon, ContractsAgree, Speak, NativeHold, Gone
<1>11. HooksLeased'
  BY DEF RuntimeInv, TypeOK, Abandon, HooksLeased
<1>12. RemovalOpen'
  BY DEF RuntimeInv, TypeOK, Abandon, RemovalOpen
<1> QED
  BY <1>1, <1>2, <1>3, <1>4, <1>5, <1>6, <1>7, <1>8, <1>9, <1>10, <1>11, <1>12
  DEF RuntimeInv

\* A pending release is published only over the record that was read.
LEMMA PublishNewerKeeps ==
    ASSUME RuntimeInv, NEW p \in Commands, PublishNewer(p)
    PROVE  RuntimeInv'
<1>a. control # None /\ control \in Control
  BY DEF RuntimeInv, TypeOK, NothingYet, PublishNewer
<1>b. target[p] \in Gens /\ target[p] \in disk \cup adopted
  BY DEF RuntimeInv, Staged, PublishNewer, Publishing
<1>c. \/ control' = control
      \/ /\ control' = [control EXCEPT !.pending = target[p]]
         /\ control.phase = "ready" /\ target[p] > control.active
         /\ control.pin \in {None, target[p]}
  BY DEF RuntimeInv, SeenAllows, PublishNewer
<1>d. /\ control' \in Control /\ control' # None
      /\ control'.active = control.active /\ control'.phase = control.phase
      /\ control'.pin = control.pin /\ control'.enrolled = control.enrolled
  BY <1>a, <1>b, <1>c, RuntimeAssumption DEF Control
<1>e. \/ control' = control
      \/ /\ control'.pending = target[p] /\ control'.phase = "ready"
         /\ target[p] > control'.active /\ control'.pin \in {None, target[p]}
  BY <1>a, <1>b, <1>c DEF Control
<1>1. TypeOK'
  <2>1. pc' \in [Procs -> Places] /\ seen' \in [Commands -> Maybe(Reading)]
    BY DEF RuntimeInv, TypeOK, PublishNewer, Places
  <2> QED
    BY <1>d, <2>1 DEF RuntimeInv, TypeOK, PublishNewer, Release
<1>2. OffIsGone' /\ LockHeld'
  BY DEF RuntimeInv, TypeOK, PublishNewer, OffIsGone, LockHeld, Gone, Locked, Passing
<1>3. NothingYet'
  BY <1>d DEF NothingYet
<1>4. Staged'
  BY RuntimeAssumption
  DEF RuntimeInv, TypeOK, PublishNewer, Staged, LockFree, Dead, Release, Staging, Publishing
<1>5. SeenAllows'
  BY DEF RuntimeInv, TypeOK, PublishNewer, SeenAllows
<1>6. Prepared' /\ Applied'
  BY DEF RuntimeInv, TypeOK, PublishNewer, Prepared, Applied, Recipe
<1>7. Unenrolled' /\ ActivatingPends' /\ PendingAllowed' /\ IntegrationsMatch'
  <2>1. Unenrolled' /\ IntegrationsMatch'
    BY <1>a, <1>d DEF RuntimeInv, PublishNewer, Unenrolled, IntegrationsMatch
  <2>2. ActivatingPends'
    BY <1>a, <1>d, <1>e DEF RuntimeInv, ActivatingPends
  <2>3. PendingAllowed'
    BY <1>a, <1>d, <1>e DEF RuntimeInv, PendingAllowed
  <2> QED
    BY <2>1, <2>2, <2>3
<1>8. ActiveOnDisk' /\ PointersOnDisk' /\ LeasesOnDisk'
  BY <1>a, <1>b, <1>d, <1>e DEF RuntimeInv, PublishNewer, ActiveOnDisk, PointersOnDisk, LeasesOnDisk
<1>9. PassKnows'
  BY Free DEF RuntimeInv, TypeOK, PublishNewer, PassKnows, Locked, Passing
<1>10. ContractsAgree'
  BY <1>a, <1>d, <1>e DEF RuntimeInv, PublishNewer, ContractsAgree, Speak, NativeHold, Gone
<1>11. HooksLeased'
  BY DEF RuntimeInv, TypeOK, PublishNewer, HooksLeased
<1>12. RemovalOpen'
  BY <1>a, <1>d, Free DEF RuntimeInv, TypeOK, PublishNewer, RemovalOpen, Locked
<1> QED
  BY <1>1, <1>2, <1>3, <1>4, <1>5, <1>6, <1>7, <1>8, <1>9, <1>10, <1>11, <1>12
  DEF RuntimeInv

\* A downloaded release is published only for the generation and the pin that were read.
LEMMA PublishReleaseKeeps ==
    ASSUME RuntimeInv, NEW p \in Commands, PublishRelease(p)
    PROVE  RuntimeInv'
<1>a. control # None /\ control \in Control
  BY DEF RuntimeInv, TypeOK, NothingYet, PublishRelease
<1>b. target[p] \in Gens /\ target[p] \in disk \cup adopted
  BY DEF RuntimeInv, Staged, PublishRelease, Publishing
<1>c. \/ control' = control
      \/ /\ control' = [control EXCEPT !.pending = target[p]]
         /\ control.phase = "ready" /\ target[p] > control.active
         /\ control.pin \in {None, target[p]}
  BY DEF RuntimeInv, SeenAllows, PublishRelease
<1>d. /\ control' \in Control /\ control' # None
      /\ control'.active = control.active /\ control'.phase = control.phase
      /\ control'.pin = control.pin /\ control'.enrolled = control.enrolled
  BY <1>a, <1>b, <1>c, RuntimeAssumption DEF Control
<1>e. \/ control' = control
      \/ /\ control'.pending = target[p] /\ control'.phase = "ready"
         /\ target[p] > control'.active /\ control'.pin \in {None, target[p]}
  BY <1>a, <1>b, <1>c DEF Control
<1>1. TypeOK'
  <2>1. pc' \in [Procs -> Places] /\ seen' \in [Commands -> Maybe(Reading)]
    BY DEF RuntimeInv, TypeOK, PublishRelease, Places
  <2> QED
    BY <1>d, <2>1 DEF RuntimeInv, TypeOK, PublishRelease, Release
<1>2. OffIsGone' /\ LockHeld'
  BY DEF RuntimeInv, TypeOK, PublishRelease, OffIsGone, LockHeld, Gone, Locked, Passing
<1>3. NothingYet'
  BY <1>d DEF NothingYet
<1>4. Staged'
  BY RuntimeAssumption
  DEF RuntimeInv, TypeOK, PublishRelease, Staged, LockFree, Dead, Release, Staging, Publishing
<1>5. SeenAllows'
  BY DEF RuntimeInv, TypeOK, PublishRelease, SeenAllows
<1>6. Prepared' /\ Applied'
  BY DEF RuntimeInv, TypeOK, PublishRelease, Prepared, Applied, Recipe
<1>7. Unenrolled' /\ ActivatingPends' /\ PendingAllowed' /\ IntegrationsMatch'
  <2>1. Unenrolled' /\ IntegrationsMatch'
    BY <1>a, <1>d DEF RuntimeInv, PublishRelease, Unenrolled, IntegrationsMatch
  <2>2. ActivatingPends'
    BY <1>a, <1>d, <1>e DEF RuntimeInv, ActivatingPends
  <2>3. PendingAllowed'
    BY <1>a, <1>d, <1>e DEF RuntimeInv, PendingAllowed
  <2> QED
    BY <2>1, <2>2, <2>3
<1>8. ActiveOnDisk' /\ PointersOnDisk' /\ LeasesOnDisk'
  BY <1>a, <1>b, <1>d, <1>e
  DEF RuntimeInv, PublishRelease, ActiveOnDisk, PointersOnDisk, LeasesOnDisk
<1>9. PassKnows'
  BY Free DEF RuntimeInv, TypeOK, PublishRelease, PassKnows, Locked, Passing
<1>10. ContractsAgree'
  BY <1>a, <1>d, <1>e DEF RuntimeInv, PublishRelease, ContractsAgree, Speak, NativeHold, Gone
<1>11. HooksLeased'
  BY DEF RuntimeInv, TypeOK, PublishRelease, HooksLeased
<1>12. RemovalOpen'
  BY <1>a, <1>d, Free DEF RuntimeInv, TypeOK, PublishRelease, RemovalOpen, Locked
<1> QED
  BY <1>1, <1>2, <1>3, <1>4, <1>5, <1>6, <1>7, <1>8, <1>9, <1>10, <1>11, <1>12
  DEF RuntimeInv

\* An install enrols its generation and holds the fence to apply it.
LEMMA PublishInstallKeeps ==
    ASSUME RuntimeInv, NEW p \in Commands, PublishInstall(p)
    PROVE  RuntimeInv'
<1>a. target[p] = First /\ First \in Gens /\ First \in disk
  <2>1. target[p] = First /\ First \in disk \cup adopted
    BY DEF RuntimeInv, Staged, PublishInstall, Publishing
  <2>2. CASE control = None
    BY <2>1, <2>2, RuntimeAssumption DEF RuntimeInv, NothingYet
  <2>3. CASE control # None
    BY <2>1, <2>3, RuntimeAssumption DEF RuntimeInv, ActiveOnDisk, PublishInstall
  <2> QED
    BY <2>2, <2>3
<1>b. /\ control' \in Control /\ control' # None
      /\ control'.active = First /\ control'.pending = First
      /\ control'.phase = "activating" /\ control'.enrolled
  <2>1. control # None => control \in Control
    BY DEF RuntimeInv, TypeOK
  <2> QED
    <3>1. PICK preference \in BOOLEAN :
              control' = [active |-> First, pending |-> First, phase |-> "activating",
                          auto |-> IF control # None /\ control.enrolled THEN control.auto
                                   ELSE preference,
                          pin |-> IF control # None THEN control.pin ELSE None,
                          enrolled |-> TRUE]
      BY DEF PublishInstall
    <3>2. (IF control # None THEN control.pin ELSE None) \in Maybe(Gens)
      BY <2>1 DEF Control
    <3>3. (IF control # None /\ control.enrolled THEN control.auto ELSE preference) \in BOOLEAN
      BY <2>1 DEF Control
    <3>4. control' \in Control
      BY <1>a, <3>1, <3>2, <3>3 DEF Control
    <3> QED
      BY <3>1, <3>4, RuntimeAssumption
<1>c. Recipe(control') \in Recipes
  BY <1>b DEF Recipe, Recipes, Control
<1>1. TypeOK'
  <2>1. before' \in [Commands -> Maybe(Recipes)]
    BY <1>c DEF RuntimeInv, TypeOK, PublishInstall
  <2>2. pc' \in [Procs -> Places]
    BY DEF RuntimeInv, TypeOK, PublishInstall, Places
  <2> QED
    BY <1>b, <2>1, <2>2 DEF RuntimeInv, TypeOK, PublishInstall
<1>2. OffIsGone' /\ LockHeld'
  BY RuntimeAssumption
  DEF RuntimeInv, TypeOK, PublishInstall, OffIsGone, LockHeld, Gone, LockFree, Dead, Recipe,
     Locked, Passing, Staging, Publishing
<1>3. NothingYet'
  BY <1>b DEF NothingYet
<1>4. Staged'
  BY RuntimeAssumption DEF RuntimeInv, TypeOK, PublishInstall, Staged, Staging, Publishing
<1>5. SeenAllows'
  BY DEF RuntimeInv, TypeOK, PublishInstall, SeenAllows
<1>6. Prepared' /\ Applied'
  <2>1. before'[p] = Recipe(control') /\ pc'[p] = "apply"
    BY DEF RuntimeInv, TypeOK, PublishInstall
  <2>2. ASSUME NEW q \in Commands, q # p
        PROVE  pc'[q] = pc[q] /\ pc[q] \notin Locked /\ before'[q] = before[q]
    BY <2>2, Free DEF RuntimeInv, TypeOK, PublishInstall
  <2> QED
    BY <1>b, <2>1, <2>2 DEF RuntimeInv, Prepared, Applied, Recipe, Locked
<1>7. Unenrolled' /\ ActivatingPends' /\ PendingAllowed' /\ IntegrationsMatch'
  BY RuntimeAssumption
  DEF RuntimeInv, TypeOK, PublishInstall, Unenrolled, ActivatingPends, PendingAllowed,
     IntegrationsMatch
<1>8. ActiveOnDisk' /\ PointersOnDisk' /\ LeasesOnDisk'
  BY <1>a, <1>b DEF RuntimeInv, PublishInstall, ActiveOnDisk, PointersOnDisk, LeasesOnDisk
<1>9. PassKnows'
  BY Free DEF RuntimeInv, TypeOK, PublishInstall, PassKnows, Locked, Passing
<1>10. ContractsAgree'
  <2>1. Speak(Contract[First]) /\ store <= Contract[First]
    <3>1. CASE control = None
      <4>1. leases = {} /\ store = Contract[First] /\ \A c \in Clients : bindings[c] = None
        BY <3>1 DEF RuntimeInv, NothingYet
      <4>2. Contract[First] \in Nat
        BY RuntimeAssumption
      <4> QED
        BY <4>1, <4>2 DEF Speak, NativeHold
    <3>2. CASE control # None
      BY <3>2 DEF RuntimeInv, ContractsAgree, PublishInstall
    <3> QED
      BY <3>1, <3>2
  <2> QED
    BY <1>b, <2>1 DEF PublishInstall, ContractsAgree, Speak, NativeHold, Gone
<1>11. HooksLeased'
  BY DEF RuntimeInv, TypeOK, PublishInstall, HooksLeased
<1>12. RemovalOpen'
  BY Free DEF RuntimeInv, TypeOK, PublishInstall, RemovalOpen, Locked
<1> QED
  BY <1>1, <1>2, <1>3, <1>4, <1>5, <1>6, <1>7, <1>8, <1>9, <1>10, <1>11, <1>12
  DEF RuntimeInv

\* An update pass begins with what it reads of the control record.
LEMMA BeginPassKeeps ==
    ASSUME RuntimeInv, NEW p \in Commands, BeginPass(p)
    PROVE  RuntimeInv'
<1>1. TypeOK'
  <2>1. seen' \in [Commands -> Maybe(Reading)]
    BY Reads DEF RuntimeInv, TypeOK, BeginPass
  <2> QED
    BY <2>1 DEF RuntimeInv, TypeOK, BeginPass, files, Places
<1>2. OffIsGone' /\ LockHeld'
  BY DEF RuntimeInv, TypeOK, BeginPass, files, OffIsGone, LockHeld, Gone, Locked, Passing
<1>3. NothingYet'
  BY DEF RuntimeInv, TypeOK, BeginPass, files, NothingYet
<1>4. Staged'
  BY RuntimeAssumption DEF RuntimeInv, TypeOK, BeginPass, files, Staged, Staging, Publishing
<1>5. SeenAllows'
  <2>1. seen'[p] = Read(control) /\ pc'[p] \in {"prepare", "check"}
    BY DEF RuntimeInv, TypeOK, BeginPass
  <2>2. \A q \in Commands \ {p} : pc'[q] = pc[q] /\ seen'[q] = seen[q]
    BY DEF RuntimeInv, TypeOK, BeginPass
  <2> QED
    BY <2>1, <2>2, Reads DEF RuntimeInv, SeenAllows, BeginPass
<1>6. Prepared' /\ Applied'
  BY DEF RuntimeInv, TypeOK, BeginPass, files, Prepared, Applied, Recipe
<1>7. Unenrolled' /\ ActivatingPends' /\ PendingAllowed' /\ IntegrationsMatch'
  BY
  DEF RuntimeInv, TypeOK, BeginPass, files, Unenrolled, ActivatingPends, PendingAllowed,
     IntegrationsMatch
<1>8. ActiveOnDisk' /\ PointersOnDisk' /\ LeasesOnDisk'
  BY DEF RuntimeInv, TypeOK, BeginPass, files, ActiveOnDisk, PointersOnDisk, LeasesOnDisk
<1>9. PassKnows'
  BY RuntimeAssumption
  DEF RuntimeInv, TypeOK, BeginPass, files, PassKnows, Read, Dead, Locked, Passing, LockHeld,
     Staging, Publishing
<1>10. ContractsAgree'
  BY DEF RuntimeInv, TypeOK, BeginPass, files, ContractsAgree, Speak, NativeHold, Gone
<1>11. HooksLeased'
  BY DEF RuntimeInv, TypeOK, BeginPass, files, HooksLeased
<1>12. RemovalOpen'
  BY DEF RuntimeInv, TypeOK, BeginPass, files, RemovalOpen
<1> QED
  BY <1>1, <1>2, <1>3, <1>4, <1>5, <1>6, <1>7, <1>8, <1>9, <1>10, <1>11, <1>12
  DEF RuntimeInv

\* The candidate is prepared outside the lock; the recipe is remembered for the fence.
LEMMA PrepareKeeps ==
    ASSUME RuntimeInv, NEW p \in Commands, Prepare(p)
    PROVE  RuntimeInv'
<1>a. control # None /\ control \in Control /\ Recipe(control) \in Recipes
  BY DEF RuntimeInv, TypeOK, NothingYet, Prepare, Recipe, Recipes, Control
<1>b. Recipe(control)[2] = control.pending
  BY DEF Recipe
<1>1. TypeOK'
  <2>1. before' \in [Commands -> Maybe(Recipes)]
    BY <1>a DEF RuntimeInv, TypeOK, Prepare
  <2>2. bindings' \in [Clients -> Maybe(Binding)]
    BY DEF RuntimeInv, TypeOK, Prepare, SweptBindings
  <2>3. pc' \in [Procs -> Places] /\ leases' \subseteq leases
    BY DEF RuntimeInv, TypeOK, Prepare, Places, LiveLeases
  <2> QED
    BY <2>1, <2>2, <2>3 DEF RuntimeInv, TypeOK, Prepare
<1>2. OffIsGone' /\ LockHeld'
  BY DEF RuntimeInv, TypeOK, Prepare, OffIsGone, LockHeld, Gone, Locked, Passing
<1>3. NothingYet'
  BY DEF RuntimeInv, TypeOK, Prepare, NothingYet
<1>4. Staged'
  BY RuntimeAssumption DEF RuntimeInv, TypeOK, Prepare, Staged, Staging, Publishing
<1>5. SeenAllows'
  BY DEF RuntimeInv, TypeOK, Prepare, SeenAllows
<1>6. Prepared' /\ Applied'
  <2>1. \A q \in Commands \ {p} : pc'[q] = pc[q] /\ before'[q] = before[q]
    BY DEF RuntimeInv, TypeOK, Prepare
  <2>2. /\ pc'[p] \in {"fence", "end"}
        /\ pc'[p] = "fence" => before'[p] = Recipe(control) /\ control.pending # None
    BY DEF RuntimeInv, TypeOK, Prepare
  <2> QED
    BY <1>a, <1>b, <2>1, <2>2 DEF RuntimeInv, Prepare, Prepared, Applied, Recipe
<1>7. Unenrolled' /\ ActivatingPends' /\ PendingAllowed' /\ IntegrationsMatch'
  BY DEF RuntimeInv, TypeOK, Prepare, Unenrolled, ActivatingPends, PendingAllowed, IntegrationsMatch
<1>8. ActiveOnDisk' /\ PointersOnDisk' /\ LeasesOnDisk'
  BY
  DEF RuntimeInv, TypeOK, Prepare, ActiveOnDisk, PointersOnDisk, LeasesOnDisk, SweptBindings,
     LiveLeases, Gone
<1>9. PassKnows'
  BY RuntimeAssumption
  DEF RuntimeInv, TypeOK, Prepare, PassKnows, SweptBindings, LiveLeases, Gone, Locked, Passing,
     LockHeld, Staging, Publishing
<1>10. ContractsAgree'
  BY
  DEF RuntimeInv, TypeOK, Prepare, ContractsAgree, Speak, NativeHold, Gone, SweptBindings,
     LiveLeases
<1>11. HooksLeased'
  <2>1. \A h \in Hooks : pc'[h] = pc[h]
    BY RuntimeAssumption DEF RuntimeInv, TypeOK, Prepare
  <2>2. LiveLeases \subseteq leases' /\ runs' = runs
    BY DEF Prepare, LiveLeases
  <2> QED
    BY <2>1, <2>2, HooksLive DEF HooksLeased
<1>12. RemovalOpen'
  BY DEF RuntimeInv, TypeOK, Prepare, RemovalOpen
<1> QED
  BY <1>1, <1>2, <1>3, <1>4, <1>5, <1>6, <1>7, <1>8, <1>9, <1>10, <1>11, <1>12
  DEF RuntimeInv

\* The fence is refused: only the leases of ended processes go.
LEMMA FenceRefusedKeeps ==
    ASSUME RuntimeInv, NEW p \in Commands, FenceRefused(p)
    PROVE  RuntimeInv'
<1>1. TypeOK'
  BY RuntimeAssumption
  DEF RuntimeInv, TypeOK, FenceRefused, LockFree, Dead, LiveLeases, Gone, Places, Staging,
     Publishing, Control
<1>2. OffIsGone' /\ LockHeld'
  BY DEF RuntimeInv, TypeOK, FenceRefused, OffIsGone, LockHeld, Gone, Locked, Passing
<1>3. NothingYet'
  BY DEF RuntimeInv, TypeOK, FenceRefused, NothingYet
<1>4. Staged'
  BY RuntimeAssumption DEF RuntimeInv, TypeOK, FenceRefused, Staged, Staging, Publishing
<1>5. SeenAllows'
  BY DEF RuntimeInv, TypeOK, FenceRefused, SeenAllows
<1>6. Prepared' /\ Applied'
  BY DEF RuntimeInv, TypeOK, FenceRefused, Prepared, Applied, Recipe
<1>7. Unenrolled' /\ ActivatingPends' /\ PendingAllowed' /\ IntegrationsMatch'
  BY
  DEF RuntimeInv, TypeOK, FenceRefused, Unenrolled, ActivatingPends, PendingAllowed,
     IntegrationsMatch
<1>8. ActiveOnDisk' /\ PointersOnDisk' /\ LeasesOnDisk'
  BY
  DEF RuntimeInv, TypeOK, FenceRefused, ActiveOnDisk, PointersOnDisk, LeasesOnDisk, LockFree,
     Dead, LiveLeases, Gone
<1>9. PassKnows'
  BY Free DEF RuntimeInv, TypeOK, FenceRefused, PassKnows, Locked, Passing
<1>10. ContractsAgree'
  BY
  DEF RuntimeInv, TypeOK, FenceRefused, ContractsAgree, Speak, NativeHold, Gone, LockFree,
     Dead, LiveLeases
<1>11. HooksLeased'
  <2>1. \A h \in Hooks : pc'[h] = pc[h]
    BY RuntimeAssumption DEF RuntimeInv, TypeOK, FenceRefused
  <2>2. LiveLeases \subseteq leases' /\ runs' = runs
    BY DEF FenceRefused, LiveLeases
  <2> QED
    BY <2>1, <2>2, HooksLive DEF HooksLeased
<1>12. RemovalOpen'
  BY DEF RuntimeInv, TypeOK, FenceRefused, RemovalOpen
<1> QED
  BY <1>1, <1>2, <1>3, <1>4, <1>5, <1>6, <1>7, <1>8, <1>9, <1>10, <1>11, <1>12
  DEF RuntimeInv

\* The fence shuts when every holder speaks the contract of the candidate.
LEMMA FenceKeeps ==
    ASSUME RuntimeInv, NEW p \in Commands, Fence(p)
    PROVE  RuntimeInv'
<1>a. control # None /\ control \in Control
  BY DEF RuntimeInv, TypeOK, NothingYet, Fence
<1>b. before[p] = Recipe(control) /\ control.pending \in Gens
  <2>1. before[p] = Recipe(control) /\ before[p][2] # None
    BY DEF RuntimeInv, Prepared, Fence, Unprepared
  <2> QED
    BY <1>a, <2>1 DEF Recipe, Control
<1>c. control' = [control EXCEPT !.phase = "activating"]
  BY DEF Fence
<1>d. /\ control' \in Control /\ control' # None /\ control'.phase = "activating"
      /\ control'.active = control.active /\ control'.pending = control.pending
      /\ control'.pin = control.pin /\ control'.enrolled = control.enrolled
      /\ control'.auto = control.auto
  BY <1>a, <1>c, RuntimeAssumption DEF Control
<1>1. TypeOK'
  <2>1. pc' \in [Procs -> Places] /\ leases' \subseteq leases
    BY DEF RuntimeInv, TypeOK, Fence, Places, LiveLeases
  <2> QED
    BY <1>d, <2>1 DEF RuntimeInv, TypeOK, Fence
<1>2. OffIsGone' /\ LockHeld'
  BY RuntimeAssumption
  DEF RuntimeInv, TypeOK, Fence, OffIsGone, LockHeld, Gone, LockFree, Dead, LiveLeases,
     Unprepared, Locked, Passing, Staging, Publishing
<1>3. NothingYet'
  BY <1>d DEF NothingYet
<1>4. Staged'
  BY RuntimeAssumption DEF RuntimeInv, TypeOK, Fence, Staged, Staging, Publishing
<1>5. SeenAllows'
  BY DEF RuntimeInv, TypeOK, Fence, SeenAllows
<1>6. Prepared' /\ Applied'
  <2>1. pc'[p] = "apply" /\ before'[p] = Recipe(control')
    BY <1>b, <1>d DEF RuntimeInv, TypeOK, Fence, Recipe
  <2>2. ASSUME NEW q \in Commands, q # p
        PROVE  pc'[q] = pc[q] /\ pc[q] \notin Locked /\ before'[q] = before[q]
    BY <2>2, Free DEF RuntimeInv, TypeOK, Fence
  <2> QED
    BY <1>d, <2>1, <2>2 DEF RuntimeInv, Prepared, Applied, Recipe, Locked
<1>7. Unenrolled' /\ ActivatingPends' /\ PendingAllowed' /\ IntegrationsMatch'
  BY <1>a, <1>b, <1>d, RuntimeAssumption
  DEF RuntimeInv, Fence, Unenrolled, ActivatingPends, PendingAllowed, IntegrationsMatch
<1>8. ActiveOnDisk' /\ PointersOnDisk' /\ LeasesOnDisk'
  BY <1>a, <1>d DEF RuntimeInv, Fence, LiveLeases, ActiveOnDisk, PointersOnDisk, LeasesOnDisk
<1>9. PassKnows'
  BY Free DEF RuntimeInv, TypeOK, Fence, PassKnows, Locked, Passing
<1>10. ContractsAgree'
  <2>1. Speak(Contract[control.active])' /\ store' <= Contract[control'.active]
    BY <1>a, <1>d DEF RuntimeInv, Fence, LiveLeases, ContractsAgree, Speak, NativeHold, Gone
  <2>2. ASSUME NEW q \in Hooks \cup Clients, Holder(q)
        PROVE  HoldContracts(q) = {Contract[control.pending]}
    BY <2>2, RuntimeAssumption DEF Fence, Blockers
  <2>3. \A l \in LiveLeases : Contract[l[2]] = Contract[control.pending]
    <3> SUFFICES ASSUME NEW l \in LiveLeases  PROVE Contract[l[2]] = Contract[control.pending]
      OBVIOUS
    <3>1. l \in leases /\ l[1] \in Hooks
      BY DEF RuntimeInv, TypeOK, LiveLeases
    <3>2. Contract[l[2]] \in HoldContracts(l[1])
      BY <3>1 DEF HoldContracts
    <3>3. Holder(l[1])
      BY DEF Holder
    <3> QED
      BY <2>2, <3>1, <3>2, <3>3
  <2>4. ASSUME NEW c \in Clients, NativeHold(c)
        PROVE  bindings[c].contract = Contract[control.pending]
    <3>1. Holder(c)
      BY <2>4 DEF Holder
    <3>2. bindings[c].contract \in HoldContracts(c)
      BY <2>4 DEF HoldContracts, NativeHold
    <3> QED
      BY <2>2, <3>1, <3>2
  <2>5. Speak(Contract[control.pending])'
    BY <1>d, <2>3, <2>4 DEF Fence, Speak, NativeHold, Gone
  <2> QED
    BY <2>1, <2>5 DEF ContractsAgree
<1>11. HooksLeased'
  <2>1. \A h \in Hooks : pc'[h] = pc[h]
    BY RuntimeAssumption DEF RuntimeInv, TypeOK, Fence
  <2>2. LiveLeases \subseteq leases' /\ runs' = runs
    BY DEF Fence, LiveLeases
  <2> QED
    BY <2>1, <2>2, HooksLive DEF HooksLeased
<1>12. RemovalOpen'
  BY Free DEF RuntimeInv, TypeOK, Fence, RemovalOpen, Locked
<1> QED
  BY <1>1, <1>2, <1>3, <1>4, <1>5, <1>6, <1>7, <1>8, <1>9, <1>10, <1>11, <1>12
  DEF RuntimeInv

\* The integrations are written for the pending generation, which is on disk.
LEMMA ApplyKeeps ==
    ASSUME RuntimeInv, NEW p \in Commands, Apply(p)
    PROVE  RuntimeInv'
<1>1. TypeOK'
  BY RuntimeAssumption DEF RuntimeInv, TypeOK, Apply, Targets, Places, Staging, Publishing, Control
<1>2. OffIsGone' /\ LockHeld'
  BY DEF RuntimeInv, TypeOK, Apply, OffIsGone, LockHeld, Gone, Locked, Passing
<1>3. NothingYet'
  BY DEF RuntimeInv, TypeOK, Apply, NothingYet
<1>4. Staged'
  BY RuntimeAssumption DEF RuntimeInv, TypeOK, Apply, Staged, Staging, Publishing
<1>5. SeenAllows'
  BY DEF RuntimeInv, TypeOK, Apply, SeenAllows
<1>6. Prepared' /\ Applied'
  <2>1. /\ control.phase = "activating" /\ before[p] = Recipe(control)
        /\ Targets(p) = control.enrolled /\ control # None
    BY DEF RuntimeInv, Prepared, NothingYet, Apply, Targets, Recipe
  <2>2. /\ pc'[p] = "commit"
        /\ \A q \in Commands \ {p} : pc'[q] = pc[q] /\ pc[q] \notin {"apply", "commit"}
    BY DEF RuntimeInv, TypeOK, LockHeld, Locked, Apply
  <2>3. control.enrolled \in BOOLEAN
    BY <2>1 DEF RuntimeInv, TypeOK, Control
  <2>4. integration' = IF control.enrolled THEN control.pending ELSE None
    BY <2>1, <2>3 DEF RuntimeInv, Unenrolled, Apply
  <2> QED
    BY <2>1, <2>2, <2>4 DEF RuntimeInv, Prepared, Applied, Recipe, Apply
<1>7. Unenrolled' /\ ActivatingPends' /\ PendingAllowed' /\ IntegrationsMatch'
  <2>1. /\ control.phase = "activating" /\ before[p] = Recipe(control)
        /\ Targets(p) = control.enrolled /\ control # None
    BY DEF RuntimeInv, Prepared, NothingYet, Apply, Targets, Recipe
  <2> QED
    BY <2>1 DEF RuntimeInv, Apply, Unenrolled, ActivatingPends, PendingAllowed, IntegrationsMatch
<1>8. ActiveOnDisk' /\ PointersOnDisk' /\ LeasesOnDisk'
  BY DEF RuntimeInv, TypeOK, Apply, ActiveOnDisk, PointersOnDisk, LeasesOnDisk
<1>9. PassKnows'
  BY RuntimeAssumption
  DEF RuntimeInv, TypeOK, Apply, PassKnows, Targets, Locked, Passing, LockHeld, Staging,
     Publishing
<1>10. ContractsAgree'
  BY DEF RuntimeInv, TypeOK, Apply, ContractsAgree, Speak, NativeHold, Gone
<1>11. HooksLeased'
  BY DEF RuntimeInv, TypeOK, Apply, HooksLeased
<1>12. RemovalOpen'
  BY DEF RuntimeInv, TypeOK, Apply, RemovalOpen
<1> QED
  BY <1>1, <1>2, <1>3, <1>4, <1>5, <1>6, <1>7, <1>8, <1>9, <1>10, <1>11, <1>12
  DEF RuntimeInv

\* A failed application leaves the fence shut.
LEMMA ApplyFailsKeeps ==
    ASSUME RuntimeInv, NEW p \in Commands, ApplyFails(p)
    PROVE  RuntimeInv'
<1>1. TypeOK'
  <2>1. integration' \in Gens \cup {None, Removed}
    BY DEF RuntimeInv, TypeOK, ApplyFails, NothingYet, Control
  <2> QED
    BY <2>1 DEF RuntimeInv, TypeOK, ApplyFails, Places
<1>2. OffIsGone' /\ LockHeld'
  BY DEF RuntimeInv, TypeOK, ApplyFails, OffIsGone, LockHeld, Gone, Locked, Passing
<1>3. NothingYet'
  BY DEF RuntimeInv, TypeOK, ApplyFails, NothingYet
<1>4. Staged'
  BY RuntimeAssumption DEF RuntimeInv, TypeOK, ApplyFails, Staged, Staging, Publishing
<1>5. SeenAllows'
  BY DEF RuntimeInv, TypeOK, ApplyFails, SeenAllows
<1>6. Prepared' /\ Applied'
  BY DEF RuntimeInv, TypeOK, ApplyFails, Prepared, Applied, Recipe, Targets
<1>7. Unenrolled' /\ ActivatingPends' /\ PendingAllowed' /\ IntegrationsMatch'
  <2>1. /\ control.phase = "activating" /\ before[p] = Recipe(control)
        /\ Targets(p) = control.enrolled /\ control # None
    BY DEF RuntimeInv, Prepared, NothingYet, ApplyFails, Targets, Recipe
  <2> QED
    BY <2>1
    DEF RuntimeInv, ApplyFails, Unenrolled, ActivatingPends, PendingAllowed, IntegrationsMatch
<1>8. ActiveOnDisk' /\ PointersOnDisk' /\ LeasesOnDisk'
  BY DEF RuntimeInv, TypeOK, ApplyFails, ActiveOnDisk, PointersOnDisk, LeasesOnDisk
<1>9. PassKnows'
  BY RuntimeAssumption
  DEF RuntimeInv, TypeOK, ApplyFails, PassKnows, Targets, Locked, Passing, LockHeld, Staging,
     Publishing
<1>10. ContractsAgree'
  BY DEF RuntimeInv, TypeOK, ApplyFails, ContractsAgree, Speak, NativeHold, Gone
<1>11. HooksLeased'
  BY DEF RuntimeInv, TypeOK, ApplyFails, HooksLeased
<1>12. RemovalOpen'
  BY DEF RuntimeInv, TypeOK, ApplyFails, RemovalOpen
<1> QED
  BY <1>1, <1>2, <1>3, <1>4, <1>5, <1>6, <1>7, <1>8, <1>9, <1>10, <1>11, <1>12
  DEF RuntimeInv

\* The pending generation becomes the active one, whose contract all holders speak.
LEMMA CommitKeeps ==
    ASSUME RuntimeInv, NEW p \in Commands, Commit(p)
    PROVE  RuntimeInv'
<1>a. /\ control # None /\ control \in Control /\ control.phase = "activating"
      /\ control.pending \in Gens /\ control.pending \in disk
      /\ integration = IF control.enrolled THEN control.pending ELSE None
  BY DEF RuntimeInv, TypeOK, NothingYet, Prepared, Applied, ActivatingPends, Commit, Control
<1>b. /\ control' \in Control /\ control' # None /\ control'.phase = "ready"
      /\ control'.active = control.pending /\ control'.pending = None
      /\ control'.enrolled = control.enrolled
  BY <1>a, RuntimeAssumption DEF Control, Commit
<1>c. control.active \in Gens /\ control.active <= control.pending
  <2>1. control.active \in Nat /\ control.pending \in Nat /\ control.active \in Gens
    BY <1>a, RuntimeAssumption DEF Control
  <2>2. control.pending # None
    BY <1>a, RuntimeAssumption
  <2>3. control.pending = control.active \/ control.pending > control.active
    BY <1>a, <2>2 DEF RuntimeInv, PendingAllowed
  <2> QED
    BY <2>1, <2>3
<1>1. TypeOK'
  BY <1>b DEF RuntimeInv, TypeOK, Commit, Places
<1>2. OffIsGone' /\ LockHeld'
  BY DEF RuntimeInv, TypeOK, Commit, OffIsGone, LockHeld, Gone, Locked, Passing
<1>3. NothingYet'
  BY <1>b DEF NothingYet
<1>4. Staged'
  BY RuntimeAssumption DEF RuntimeInv, TypeOK, Commit, Staged, Staging, Publishing
<1>5. SeenAllows'
  BY DEF RuntimeInv, TypeOK, Commit, SeenAllows
<1>6. Prepared' /\ Applied'
  BY RuntimeAssumption
  DEF RuntimeInv, TypeOK, Commit, Prepared, Applied, Recipe, Locked, Passing, Control,
     LockHeld, NothingYet, Staging, Publishing
<1>7. Unenrolled' /\ ActivatingPends' /\ PendingAllowed' /\ IntegrationsMatch'
  BY <1>a, <1>b
  DEF RuntimeInv, Commit, Unenrolled, ActivatingPends, PendingAllowed, IntegrationsMatch
<1>8. ActiveOnDisk' /\ PointersOnDisk' /\ LeasesOnDisk'
  BY <1>a, <1>b DEF RuntimeInv, Commit, ActiveOnDisk, PointersOnDisk, LeasesOnDisk
<1>9. PassKnows'
  BY RuntimeAssumption
  DEF RuntimeInv, TypeOK, Commit, PassKnows, Locked, Passing, LockHeld, Staging, Publishing
<1>10. ContractsAgree'
  <2>1. Contract[control.active] <= Contract[control.pending] /\ store <= Contract[control.active]
    BY <1>a, <1>c, RuntimeAssumption DEF RuntimeInv, ContractsAgree
  <2>2. store <= Contract[control.pending]
    <3>1. store \in Nat
      BY RuntimeAssumption DEF RuntimeInv, TypeOK, Contracts
    <3>2. Contract[control.active] \in Nat /\ Contract[control.pending] \in Nat
      BY <1>a, <1>c, RuntimeAssumption
    <3> QED
      BY <2>1, <3>1, <3>2
  <2>3. Speak(Contract[control.pending])
    BY <1>a DEF RuntimeInv, ContractsAgree
  <2> QED
    BY <1>b, <2>2, <2>3 DEF Commit, ContractsAgree, Speak, NativeHold, Gone
<1>11. HooksLeased'
  BY DEF RuntimeInv, TypeOK, Commit, HooksLeased
<1>12. RemovalOpen'
  BY DEF RuntimeInv, TypeOK, Commit, RemovalOpen, LockHeld, Locked
<1> QED
  BY <1>1, <1>2, <1>3, <1>4, <1>5, <1>6, <1>7, <1>8, <1>9, <1>10, <1>11, <1>12
  DEF RuntimeInv

\* The reclaim pass lists the trees and starts from what the control record names.
LEMMA ReclaimBeginKeeps ==
    ASSUME RuntimeInv, NEW p \in Commands, ReclaimBegin(p)
    PROVE  RuntimeInv'
<1>1. TypeOK'
  BY RuntimeAssumption
  DEF RuntimeInv, TypeOK, ReclaimBegin, files, LockFree, Dead, Places, Staging, Publishing,
     Control
<1>2. OffIsGone' /\ LockHeld'
  BY RuntimeAssumption
  DEF RuntimeInv, TypeOK, ReclaimBegin, files, OffIsGone, LockHeld, Gone, LockFree, Dead,
     Locked, Passing, Staging, Publishing
<1>3. NothingYet'
  BY DEF RuntimeInv, TypeOK, ReclaimBegin, files, NothingYet
<1>4. Staged'
  BY RuntimeAssumption DEF RuntimeInv, TypeOK, ReclaimBegin, files, Staged, Staging, Publishing
<1>5. SeenAllows'
  BY DEF RuntimeInv, TypeOK, ReclaimBegin, files, SeenAllows
<1>6. Prepared' /\ Applied'
  BY DEF RuntimeInv, TypeOK, ReclaimBegin, files, Prepared, Applied, Recipe
<1>7. Unenrolled' /\ ActivatingPends' /\ PendingAllowed' /\ IntegrationsMatch'
  BY
  DEF RuntimeInv, TypeOK, ReclaimBegin, files, Unenrolled, ActivatingPends, PendingAllowed,
     IntegrationsMatch
<1>8. ActiveOnDisk' /\ PointersOnDisk' /\ LeasesOnDisk'
  BY DEF RuntimeInv, TypeOK, ReclaimBegin, files, ActiveOnDisk, PointersOnDisk, LeasesOnDisk
<1>9. PassKnows'
  BY Free DEF RuntimeInv, TypeOK, ReclaimBegin, files, PassKnows, Locked, Passing
<1>10. ContractsAgree'
  BY DEF RuntimeInv, TypeOK, ReclaimBegin, files, ContractsAgree, Speak, NativeHold, Gone
<1>11. HooksLeased'
  BY DEF RuntimeInv, TypeOK, ReclaimBegin, files, HooksLeased
<1>12. RemovalOpen'
  BY DEF RuntimeInv, TypeOK, ReclaimBegin, files, RemovalOpen
<1> QED
  BY <1>1, <1>2, <1>3, <1>4, <1>5, <1>6, <1>7, <1>8, <1>9, <1>10, <1>11, <1>12
  DEF RuntimeInv

\* The pass reads the leases; the lock keeps hooks from adding to them.
LEMMA ReadLeasesKeeps ==
    ASSUME RuntimeInv, NEW p \in Commands, ReadLeases(p)
    PROVE  RuntimeInv'
<1>1. TypeOK'
  BY RuntimeAssumption
  DEF RuntimeInv, TypeOK, ReadLeases, LiveLeases, Gone, Places, Staging, Publishing, Control
<1>2. OffIsGone' /\ LockHeld'
  BY DEF RuntimeInv, TypeOK, ReadLeases, OffIsGone, LockHeld, Gone, Locked, Passing
<1>3. NothingYet'
  BY DEF RuntimeInv, TypeOK, ReadLeases, NothingYet
<1>4. Staged'
  BY RuntimeAssumption DEF RuntimeInv, TypeOK, ReadLeases, Staged, Staging, Publishing
<1>5. SeenAllows'
  BY DEF RuntimeInv, TypeOK, ReadLeases, SeenAllows
<1>6. Prepared' /\ Applied'
  BY DEF RuntimeInv, TypeOK, ReadLeases, Prepared, Applied, Recipe
<1>7. Unenrolled' /\ ActivatingPends' /\ PendingAllowed' /\ IntegrationsMatch'
  BY
  DEF RuntimeInv, TypeOK, ReadLeases, Unenrolled, ActivatingPends, PendingAllowed,
     IntegrationsMatch
<1>8. ActiveOnDisk' /\ PointersOnDisk' /\ LeasesOnDisk'
  BY
  DEF RuntimeInv, TypeOK, ReadLeases, ActiveOnDisk, PointersOnDisk, LeasesOnDisk, LiveLeases,
     Gone
<1>9. PassKnows'
  BY RuntimeAssumption
  DEF RuntimeInv, TypeOK, ReadLeases, PassKnows, LiveLeases, Gone, Locked, Passing, LockHeld,
     Staging, Publishing
<1>10. ContractsAgree'
  BY DEF RuntimeInv, TypeOK, ReadLeases, ContractsAgree, Speak, NativeHold, Gone, LiveLeases
<1>11. HooksLeased'
  <2>1. \A h \in Hooks : pc'[h] = pc[h]
    BY RuntimeAssumption DEF RuntimeInv, TypeOK, ReadLeases
  <2>2. LiveLeases \subseteq leases' /\ runs' = runs
    BY DEF ReadLeases, LiveLeases
  <2> QED
    BY <2>1, <2>2, HooksLive DEF HooksLeased
<1>12. RemovalOpen'
  BY DEF RuntimeInv, TypeOK, ReadLeases, RemovalOpen
<1> QED
  BY <1>1, <1>2, <1>3, <1>4, <1>5, <1>6, <1>7, <1>8, <1>9, <1>10, <1>11, <1>12
  DEF RuntimeInv

\* The pass reads the pins; a pin written later counts as late.
LEMMA ReadPinsKeeps ==
    ASSUME RuntimeInv, NEW p \in Commands, ReadPins(p)
    PROVE  RuntimeInv'
<1>1. TypeOK'
  <2>1. pins' \in [Clients -> Maybe(Gens)]
    BY DEF RuntimeInv, TypeOK, ReadPins
  <2>2. pass' \in [snap : SUBSET Gens, refs : SUBSET Gens]
    <3>1. {pins'[c] : c \in Clients} \ {None} \subseteq Gens
      BY <2>1
    <3> QED
      BY <3>1 DEF RuntimeInv, TypeOK, ReadPins
  <2> QED
    BY <2>1, <2>2 DEF RuntimeInv, TypeOK, ReadPins, Places
<1>2. OffIsGone' /\ LockHeld'
  BY DEF RuntimeInv, TypeOK, ReadPins, OffIsGone, LockHeld, Gone, Locked, Passing
<1>3. NothingYet'
  BY DEF RuntimeInv, TypeOK, ReadPins, NothingYet
<1>4. Staged'
  BY RuntimeAssumption DEF RuntimeInv, TypeOK, ReadPins, Staged, Staging, Publishing
<1>5. SeenAllows'
  BY DEF RuntimeInv, TypeOK, ReadPins, SeenAllows
<1>6. Prepared' /\ Applied'
  BY DEF RuntimeInv, TypeOK, ReadPins, Prepared, Applied, Recipe
<1>7. Unenrolled' /\ ActivatingPends' /\ PendingAllowed' /\ IntegrationsMatch'
  BY
  DEF RuntimeInv, TypeOK, ReadPins, Unenrolled, ActivatingPends, PendingAllowed,
     IntegrationsMatch
<1>8. ActiveOnDisk' /\ PointersOnDisk' /\ LeasesOnDisk'
  BY DEF RuntimeInv, TypeOK, ReadPins, ActiveOnDisk, PointersOnDisk, LeasesOnDisk
<1>9. PassKnows'
  BY RuntimeAssumption
  DEF RuntimeInv, TypeOK, ReadPins, PassKnows, Gone, Locked, Passing, LockHeld, Staging,
     Publishing
<1>10. ContractsAgree'
  BY DEF RuntimeInv, TypeOK, ReadPins, ContractsAgree, Speak, NativeHold, Gone
<1>11. HooksLeased'
  BY DEF RuntimeInv, TypeOK, ReadPins, HooksLeased
<1>12. RemovalOpen'
  BY DEF RuntimeInv, TypeOK, ReadPins, RemovalOpen
<1> QED
  BY <1>1, <1>2, <1>3, <1>4, <1>5, <1>6, <1>7, <1>8, <1>9, <1>10, <1>11, <1>12
  DEF RuntimeInv

\* The pass reads the holds; a tree staged later is not in its listing, or is adopted.
LEMMA ReadHoldsKeeps ==
    ASSUME RuntimeInv, NEW p \in Commands, ReadHolds(p)
    PROVE  RuntimeInv'
<1>1. TypeOK'
  BY RuntimeAssumption DEF RuntimeInv, TypeOK, ReadHolds, Dead, Places, Staging, Publishing, Control
<1>2. OffIsGone' /\ LockHeld'
  BY DEF RuntimeInv, TypeOK, ReadHolds, OffIsGone, LockHeld, Gone, Locked, Passing
<1>3. NothingYet'
  BY DEF RuntimeInv, TypeOK, ReadHolds, NothingYet
<1>4. Staged'
  <2>1. \A q \in Commands : pc[q] # "off" => ~Dead(q)
    BY DEF RuntimeInv, OffIsGone, Gone, Dead
  <2>2. \A q \in Commands : pc'[q] \in Staging \cup Publishing => pc[q] = pc'[q]
    BY DEF RuntimeInv, TypeOK, ReadHolds, Staging, Publishing
  <2>3. \A q \in Commands : (pc[q] \in Staging \cup Publishing /\ <<q, target[q]>> \in holds)
            => <<q, target[q]>> \in holds'
    BY <2>1 DEF ReadHolds, Staging, Publishing
  <2>4. UNCHANGED <<target, disk, adopted>>
    BY DEF ReadHolds
  <2> QED
    BY <2>2, <2>3, <2>4 DEF RuntimeInv, Staged, Staging, Publishing
<1>5. SeenAllows'
  BY DEF RuntimeInv, TypeOK, ReadHolds, SeenAllows
<1>6. Prepared' /\ Applied'
  BY DEF RuntimeInv, TypeOK, ReadHolds, Prepared, Applied, Recipe
<1>7. Unenrolled' /\ ActivatingPends' /\ PendingAllowed' /\ IntegrationsMatch'
  BY
  DEF RuntimeInv, TypeOK, ReadHolds, Unenrolled, ActivatingPends, PendingAllowed,
     IntegrationsMatch
<1>8. ActiveOnDisk' /\ PointersOnDisk' /\ LeasesOnDisk'
  BY DEF RuntimeInv, TypeOK, ReadHolds, ActiveOnDisk, PointersOnDisk, LeasesOnDisk
<1>9. PassKnows'
  <2>1. pc'[p] = "move" /\ \A q \in Commands \ {p} : pc'[q] = pc[q] /\ pc[q] \notin Passing
    BY DEF RuntimeInv, TypeOK, LockHeld, Locked, Passing, ReadHolds
  <2>2. /\ pass'.snap = pass.snap /\ pass.refs \subseteq pass'.refs
        /\ \A h \in holds' : h[2] \in pass'.refs
    BY DEF RuntimeInv, TypeOK, ReadHolds
  <2>3. ASSUME NEW q \in Commands, pc'[q] \in Publishing
        PROVE  target[q] \in pass'.refs
    <3>1. pc[q] \in Publishing /\ ~Dead(q)
      BY <2>1, <2>3 DEF RuntimeInv, OffIsGone, Gone, Dead, Publishing
    <3>2. <<q, target[q]>> \in holds'
      BY <3>1 DEF RuntimeInv, Staged, ReadHolds
    <3> QED
      BY <2>2, <3>2
  <2> QED
    BY <2>1, <2>2, <2>3 DEF RuntimeInv, PassKnows, Passing, ReadHolds
<1>10. ContractsAgree'
  BY DEF RuntimeInv, TypeOK, ReadHolds, ContractsAgree, Speak, NativeHold, Gone
<1>11. HooksLeased'
  BY DEF RuntimeInv, TypeOK, ReadHolds, HooksLeased
<1>12. RemovalOpen'
  BY DEF RuntimeInv, TypeOK, ReadHolds, RemovalOpen
<1> QED
  BY <1>1, <1>2, <1>3, <1>4, <1>5, <1>6, <1>7, <1>8, <1>9, <1>10, <1>11, <1>12
  DEF RuntimeInv

\* The pass moves away only what nothing it has read names.
LEMMA MoveKeeps ==
    ASSUME RuntimeInv, NEW p \in Commands, Move(p)
    PROVE  RuntimeInv'
<1>a. /\ lock = p /\ pass.snap \subseteq disk /\ control.active \in pass.refs
      /\ control.pending # None => control.pending \in pass.refs
      /\ \A l \in leases : l[2] \in pass.refs
      /\ \A q \in Commands : pc[q] \in Publishing =>
             target[q] \in pass.refs \cup adopted \/ target[q] \notin pass.snap
  BY DEF RuntimeInv, LockHeld, Locked, Passing, PassKnows, Move
<1>b. \A g \in disk : (g \in pass.refs \/ g \notin pass.snap) => g \in disk'
  BY DEF Move
<1>1. TypeOK'
  BY RuntimeAssumption DEF RuntimeInv, TypeOK, Move, Places, Staging, Publishing, Control
<1>2. OffIsGone' /\ LockHeld'
  BY DEF RuntimeInv, TypeOK, Move, OffIsGone, LockHeld, Gone, Locked, Passing
<1>3. NothingYet'
  BY DEF RuntimeInv, TypeOK, Move, NothingYet
<1>4. Staged'
  <2>1. \A q \in Commands : pc'[q] \in Staging \cup Publishing => pc[q] = pc'[q]
    BY DEF RuntimeInv, TypeOK, Move, Staging, Publishing
  <2>2. UNCHANGED <<target, holds, adopted>>
    BY DEF Move
  <2> QED
    BY <1>a, <1>b, <2>1, <2>2 DEF RuntimeInv, Staged, Staging, Publishing
<1>5. SeenAllows'
  BY DEF RuntimeInv, TypeOK, Move, SeenAllows
<1>6. Prepared' /\ Applied'
  BY RuntimeAssumption
  DEF RuntimeInv, TypeOK, Move, Prepared, Applied, Recipe, Locked, Passing, Control, LockHeld,
     NothingYet, Staging, Publishing
<1>7. Unenrolled' /\ ActivatingPends' /\ PendingAllowed' /\ IntegrationsMatch'
  BY DEF RuntimeInv, TypeOK, Move, Unenrolled, ActivatingPends, PendingAllowed, IntegrationsMatch
<1>8. ActiveOnDisk' /\ PointersOnDisk' /\ LeasesOnDisk'
  BY <1>a, <1>b DEF RuntimeInv, Move, ActiveOnDisk, PointersOnDisk, LeasesOnDisk
<1>9. PassKnows'
  BY RuntimeAssumption
  DEF RuntimeInv, TypeOK, Move, PassKnows, Locked, Passing, LockHeld, Staging, Publishing
<1>10. ContractsAgree'
  BY DEF RuntimeInv, TypeOK, Move, ContractsAgree, Speak, NativeHold, Gone
<1>11. HooksLeased'
  BY DEF RuntimeInv, TypeOK, Move, HooksLeased
<1>12. RemovalOpen'
  BY DEF RuntimeInv, TypeOK, Move, RemovalOpen
<1> QED
  BY <1>1, <1>2, <1>3, <1>4, <1>5, <1>6, <1>7, <1>8, <1>9, <1>10, <1>11, <1>12
  DEF RuntimeInv

\* The stores move to the contract of the active generation, which all holders speak.
LEMMA MigrateStoresKeeps ==
    ASSUME RuntimeInv, NEW p \in Commands, MigrateStores(p)
    PROVE  RuntimeInv'
<1>1. TypeOK'
  <2>1. store' \in Contracts
    BY DEF RuntimeInv, TypeOK, NothingYet, MigrateStores, Contracts, Control
  <2>2. pc' \in [Procs -> Places] /\ leases' \subseteq leases
    BY DEF RuntimeInv, TypeOK, MigrateStores, Places, LiveLeases
  <2> QED
    BY <2>1, <2>2 DEF RuntimeInv, TypeOK, MigrateStores
<1>2. OffIsGone' /\ LockHeld'
  BY DEF RuntimeInv, TypeOK, MigrateStores, OffIsGone, LockHeld, Gone, Locked, Passing
<1>3. NothingYet'
  BY DEF RuntimeInv, TypeOK, MigrateStores, NothingYet
<1>4. Staged'
  BY RuntimeAssumption DEF RuntimeInv, TypeOK, MigrateStores, Staged, Staging, Publishing
<1>5. SeenAllows'
  BY DEF RuntimeInv, TypeOK, MigrateStores, SeenAllows
<1>6. Prepared' /\ Applied'
  BY DEF RuntimeInv, TypeOK, MigrateStores, Prepared, Applied, Recipe
<1>7. Unenrolled' /\ ActivatingPends' /\ PendingAllowed' /\ IntegrationsMatch'
  BY
  DEF RuntimeInv, TypeOK, MigrateStores, Unenrolled, ActivatingPends, PendingAllowed,
     IntegrationsMatch
<1>8. ActiveOnDisk' /\ PointersOnDisk' /\ LeasesOnDisk'
  BY
  DEF RuntimeInv, TypeOK, MigrateStores, ActiveOnDisk, PointersOnDisk, LeasesOnDisk, LockFree,
     Dead, LiveLeases, Gone
<1>9. PassKnows'
  BY Free DEF RuntimeInv, TypeOK, MigrateStores, PassKnows, Locked, Passing
<1>10. ContractsAgree'
  BY RuntimeAssumption, Free
  DEF RuntimeInv, TypeOK, MigrateStores, ContractsAgree, Speak, NativeHold, Gone, LockFree,
     Dead, LiveLeases, Control, Locked, Passing
<1>11. HooksLeased'
  <2>1. \A h \in Hooks : pc'[h] = pc[h]
    BY RuntimeAssumption DEF RuntimeInv, TypeOK, MigrateStores
  <2>2. LiveLeases \subseteq leases' /\ runs' = runs
    BY DEF MigrateStores, LiveLeases
  <2> QED
    BY <2>1, <2>2, HooksLive DEF HooksLeased
<1>12. RemovalOpen'
  BY DEF RuntimeInv, TypeOK, MigrateStores, RemovalOpen
<1> QED
  BY <1>1, <1>2, <1>3, <1>4, <1>5, <1>6, <1>7, <1>8, <1>9, <1>10, <1>11, <1>12
  DEF RuntimeInv

\* A command ends outside the lock and gives up its hold.
LEMMA FinishKeeps ==
    ASSUME RuntimeInv, NEW p \in Commands, Finish(p)
    PROVE  RuntimeInv'
<1>1. TypeOK'
  BY RuntimeAssumption DEF RuntimeInv, TypeOK, Finish, Release, Places, Staging, Publishing, Control
<1>2. OffIsGone' /\ LockHeld'
  BY DEF RuntimeInv, TypeOK, Finish, OffIsGone, LockHeld, Gone, Locked, Passing
<1>3. NothingYet'
  BY DEF RuntimeInv, TypeOK, Finish, NothingYet
<1>4. Staged'
  BY RuntimeAssumption DEF RuntimeInv, TypeOK, Finish, Staged, Release, Staging, Publishing
<1>5. SeenAllows'
  BY DEF RuntimeInv, TypeOK, Finish, SeenAllows
<1>6. Prepared' /\ Applied'
  BY DEF RuntimeInv, TypeOK, Finish, Prepared, Applied, Recipe
<1>7. Unenrolled' /\ ActivatingPends' /\ PendingAllowed' /\ IntegrationsMatch'
  BY DEF RuntimeInv, TypeOK, Finish, Unenrolled, ActivatingPends, PendingAllowed, IntegrationsMatch
<1>8. ActiveOnDisk' /\ PointersOnDisk' /\ LeasesOnDisk'
  BY DEF RuntimeInv, TypeOK, Finish, ActiveOnDisk, PointersOnDisk, LeasesOnDisk
<1>9. PassKnows'
  BY RuntimeAssumption
  DEF RuntimeInv, TypeOK, Finish, PassKnows, Release, Locked, Passing, LockHeld, Staging,
     Publishing
<1>10. ContractsAgree'
  BY DEF RuntimeInv, TypeOK, Finish, ContractsAgree, Speak, NativeHold, Gone
<1>11. HooksLeased'
  BY DEF RuntimeInv, TypeOK, Finish, HooksLeased
<1>12. RemovalOpen'
  BY DEF RuntimeInv, TypeOK, Finish, RemovalOpen
<1> QED
  BY <1>1, <1>2, <1>3, <1>4, <1>5, <1>6, <1>7, <1>8, <1>9, <1>10, <1>11, <1>12
  DEF RuntimeInv

\* The update policy changes, and nothing a pass relies on.
LEMMA SetAutoKeeps ==
    ASSUME RuntimeInv, NEW p \in Commands, NEW on \in BOOLEAN, SetAuto(p, on)
    PROVE  RuntimeInv'
<1>1. TypeOK'
  BY RuntimeAssumption
  DEF RuntimeInv, TypeOK, SetAuto, LockFree, Dead, Places, Staging, Publishing, Control
<1>2. OffIsGone' /\ LockHeld'
  BY DEF RuntimeInv, TypeOK, SetAuto, OffIsGone, LockHeld, Gone, Locked, Passing
<1>3. NothingYet'
  <2>1. control # None /\ control \in Control
    BY DEF RuntimeInv, TypeOK, SetAuto
  <2>2. control' \in Control
    BY <2>1, RuntimeAssumption DEF SetAuto, Control
  <2> QED
    BY <2>2, RuntimeAssumption DEF NothingYet
<1>4. Staged'
  BY RuntimeAssumption DEF RuntimeInv, TypeOK, SetAuto, Staged, Staging, Publishing
<1>5. SeenAllows'
  BY DEF RuntimeInv, TypeOK, SetAuto, SeenAllows
<1>6. Prepared' /\ Applied'
  BY Free DEF RuntimeInv, TypeOK, SetAuto, Prepared, Applied, Recipe, Locked, Passing
<1>7. Unenrolled' /\ ActivatingPends' /\ PendingAllowed' /\ IntegrationsMatch'
  BY DEF RuntimeInv, TypeOK, SetAuto, Unenrolled, ActivatingPends, PendingAllowed, IntegrationsMatch
<1>8. ActiveOnDisk' /\ PointersOnDisk' /\ LeasesOnDisk'
  BY DEF RuntimeInv, TypeOK, SetAuto, ActiveOnDisk, PointersOnDisk, LeasesOnDisk
<1>9. PassKnows'
  BY Free DEF RuntimeInv, TypeOK, SetAuto, PassKnows, Locked, Passing
<1>10. ContractsAgree'
  BY DEF RuntimeInv, TypeOK, SetAuto, ContractsAgree, Speak, NativeHold, Gone
<1>11. HooksLeased'
  BY DEF RuntimeInv, TypeOK, SetAuto, HooksLeased
<1>12. RemovalOpen'
  BY Free DEF RuntimeInv, TypeOK, SetAuto, RemovalOpen, Locked
<1> QED
  BY <1>1, <1>2, <1>3, <1>4, <1>5, <1>6, <1>7, <1>8, <1>9, <1>10, <1>11, <1>12
  DEF RuntimeInv

\* The pinned release changes, and a pending one it does not allow is dropped.
LEMMA SetPinKeeps ==
    ASSUME RuntimeInv, NEW p \in Commands, NEW pin \in Maybe(Pinnable), SetPin(p, pin)
    PROVE  RuntimeInv'
<1>1. TypeOK'
  BY RuntimeAssumption
  DEF RuntimeInv, TypeOK, SetPin, LockFree, Dead, Places, Staging, Publishing, Control
<1>2. OffIsGone' /\ LockHeld'
  BY DEF RuntimeInv, TypeOK, SetPin, OffIsGone, LockHeld, Gone, Locked, Passing
<1>3. NothingYet'
  <2>1. control # None /\ control \in Control
    BY DEF RuntimeInv, TypeOK, SetPin
  <2>2. control' \in Control
    BY <2>1, RuntimeAssumption DEF SetPin, Control
  <2> QED
    BY <2>2, RuntimeAssumption DEF NothingYet
<1>4. Staged'
  BY RuntimeAssumption DEF RuntimeInv, TypeOK, SetPin, Staged, Staging, Publishing
<1>5. SeenAllows'
  BY DEF RuntimeInv, TypeOK, SetPin, SeenAllows
<1>6. Prepared' /\ Applied'
  BY DEF RuntimeInv, TypeOK, SetPin, Prepared, Applied, Recipe
<1>7. Unenrolled' /\ ActivatingPends' /\ PendingAllowed' /\ IntegrationsMatch'
  BY DEF RuntimeInv, TypeOK, SetPin, Unenrolled, ActivatingPends, PendingAllowed, IntegrationsMatch
<1>8. ActiveOnDisk' /\ PointersOnDisk' /\ LeasesOnDisk'
  BY DEF RuntimeInv, TypeOK, SetPin, ActiveOnDisk, PointersOnDisk, LeasesOnDisk
<1>9. PassKnows'
  BY Free DEF RuntimeInv, TypeOK, SetPin, PassKnows, Locked, Passing
<1>10. ContractsAgree'
  BY DEF RuntimeInv, TypeOK, SetPin, ContractsAgree, Speak, NativeHold, Gone
<1>11. HooksLeased'
  BY DEF RuntimeInv, TypeOK, SetPin, HooksLeased
<1>12. RemovalOpen'
  BY Free DEF RuntimeInv, TypeOK, SetPin, RemovalOpen, Locked
<1> QED
  BY <1>1, <1>2, <1>3, <1>4, <1>5, <1>6, <1>7, <1>8, <1>9, <1>10, <1>11, <1>12
  DEF RuntimeInv

\* A removal begins: it takes the lock while the fence is open.
LEMMA UninstallKeeps ==
    ASSUME RuntimeInv, NEW p \in Commands, Uninstall(p)
    PROVE  RuntimeInv'
<1>1. TypeOK'
  BY DEF RuntimeInv, TypeOK, Uninstall, files, Places
<1>2. OffIsGone' /\ LockHeld'
  BY RuntimeAssumption DEF RuntimeInv, TypeOK, Uninstall, files, OffIsGone, LockHeld, LockFree, Gone, Dead, Locked, Passing
<1>3. NothingYet'
  BY DEF RuntimeInv, TypeOK, Uninstall, files, NothingYet, RemovalOpen
<1>4. Staged'
  BY RuntimeAssumption DEF RuntimeInv, TypeOK, Uninstall, files, Staged, Staging, Publishing
<1>5. SeenAllows'
  BY DEF RuntimeInv, TypeOK, Uninstall, files, SeenAllows
<1>6. Prepared' /\ Applied'
  BY RuntimeAssumption DEF RuntimeInv, TypeOK, Uninstall, files, Prepared, Applied, Recipe, LockHeld, Locked
<1>7. Unenrolled' /\ ActivatingPends' /\ PendingAllowed' /\ IntegrationsMatch'
  BY DEF RuntimeInv, TypeOK, Uninstall, files, Unenrolled, ActivatingPends, PendingAllowed,
     IntegrationsMatch
<1>8. ActiveOnDisk' /\ PointersOnDisk' /\ LeasesOnDisk'
  BY DEF RuntimeInv, TypeOK, Uninstall, files, ActiveOnDisk, PointersOnDisk, LeasesOnDisk
<1>9. PassKnows'
  BY RuntimeAssumption
  DEF RuntimeInv, TypeOK, Uninstall, files, PassKnows, LockHeld, LockFree, OffIsGone, Gone, Dead, Locked, Passing, Staging,
      Publishing
<1>10. ContractsAgree'
  BY DEF RuntimeInv, TypeOK, Uninstall, files, ContractsAgree, Speak, NativeHold, Gone
<1>11. HooksLeased'
  BY RuntimeAssumption DEF RuntimeInv, TypeOK, Uninstall, files, HooksLeased
<1>12. RemovalOpen'
  BY DEF RuntimeInv, TypeOK, Uninstall, files, RemovalOpen
<1> QED
  BY <1>1, <1>2, <1>3, <1>4, <1>5, <1>6, <1>7, <1>8, <1>9, <1>10, <1>11, <1>12
  DEF RuntimeInv

\* The clients are rewritten: the integrations are gone, or some are left as they were.
LEMMA RemoveClientsKeeps ==
    ASSUME RuntimeInv, NEW p \in Commands, RemoveClients(p)
    PROVE  RuntimeInv'
<1>1. TypeOK'
  <2>1. integration' \in Gens \cup {None, Removed} /\ pc' \in [Procs -> Places]
    BY DEF RuntimeInv, TypeOK, RemoveClients, Places
  <2> QED
    BY <2>1 DEF RuntimeInv, TypeOK, RemoveClients
<1>2. OffIsGone' /\ LockHeld'
  BY RuntimeAssumption DEF RuntimeInv, TypeOK, RemoveClients, OffIsGone, LockHeld, LockFree, Gone, Dead, Locked, Passing
<1>3. NothingYet'
  BY DEF RuntimeInv, TypeOK, RemoveClients, NothingYet, RemovalOpen
<1>4. Staged'
  BY RuntimeAssumption DEF RuntimeInv, TypeOK, RemoveClients, Staged, Staging, Publishing
<1>5. SeenAllows'
  BY DEF RuntimeInv, TypeOK, RemoveClients, SeenAllows
<1>6. Prepared' /\ Applied'
  BY RuntimeAssumption DEF RuntimeInv, TypeOK, RemoveClients, Prepared, Applied, Recipe, LockHeld, Locked
<1>7. Unenrolled' /\ ActivatingPends' /\ PendingAllowed' /\ IntegrationsMatch'
  BY DEF RuntimeInv, TypeOK, RemoveClients, Unenrolled, ActivatingPends, PendingAllowed,
     IntegrationsMatch, RemovalOpen
<1>8. ActiveOnDisk' /\ PointersOnDisk' /\ LeasesOnDisk'
  BY DEF RuntimeInv, TypeOK, RemoveClients, ActiveOnDisk, PointersOnDisk, LeasesOnDisk
<1>9. PassKnows'
  BY RuntimeAssumption
  DEF RuntimeInv, TypeOK, RemoveClients, PassKnows, LockHeld, LockFree, OffIsGone, Gone, Dead, Locked, Passing, Staging,
      Publishing
<1>10. ContractsAgree'
  BY DEF RuntimeInv, TypeOK, RemoveClients, ContractsAgree, Speak, NativeHold, Gone
<1>11. HooksLeased'
  BY RuntimeAssumption DEF RuntimeInv, TypeOK, RemoveClients, HooksLeased
<1>12. RemovalOpen'
  BY DEF RuntimeInv, TypeOK, RemoveClients, RemovalOpen
<1> QED
  BY <1>1, <1>2, <1>3, <1>4, <1>5, <1>6, <1>7, <1>8, <1>9, <1>10, <1>11, <1>12
  DEF RuntimeInv

\* Bindings go: nobody holds a contract for them any more.
LEMMA RetireBindingsKeeps ==
    ASSUME RuntimeInv, NEW p \in Commands, RetireBindings(p)
    PROVE  RuntimeInv'
<1>1. TypeOK'
  <2>1. bindings' \in [Clients -> Maybe(Binding)] /\ pc' \in [Procs -> Places]
    BY DEF RuntimeInv, TypeOK, RetireBindings, Places
  <2> QED
    BY <2>1 DEF RuntimeInv, TypeOK, RetireBindings
<1>2. OffIsGone' /\ LockHeld'
  BY RuntimeAssumption DEF RuntimeInv, TypeOK, RetireBindings, OffIsGone, LockHeld, LockFree, Gone, Dead, Locked, Passing
<1>3. NothingYet'
  BY DEF RuntimeInv, TypeOK, RetireBindings, NothingYet, RemovalOpen
<1>4. Staged'
  BY RuntimeAssumption DEF RuntimeInv, TypeOK, RetireBindings, Staged, Staging, Publishing
<1>5. SeenAllows'
  BY DEF RuntimeInv, TypeOK, RetireBindings, SeenAllows
<1>6. Prepared' /\ Applied'
  BY RuntimeAssumption DEF RuntimeInv, TypeOK, RetireBindings, Prepared, Applied, Recipe, LockHeld, Locked
<1>7. Unenrolled' /\ ActivatingPends' /\ PendingAllowed' /\ IntegrationsMatch'
  BY DEF RuntimeInv, TypeOK, RetireBindings, Unenrolled, ActivatingPends, PendingAllowed,
     IntegrationsMatch, RemovalOpen
<1>8. ActiveOnDisk' /\ PointersOnDisk' /\ LeasesOnDisk'
  BY DEF RuntimeInv, TypeOK, RetireBindings, ActiveOnDisk, PointersOnDisk, LeasesOnDisk
<1>9. PassKnows'
  BY RuntimeAssumption
  DEF RuntimeInv, TypeOK, RetireBindings, PassKnows, LockHeld, LockFree, OffIsGone, Gone, Dead, Locked, Passing, Staging,
      Publishing
<1>10. ContractsAgree'
  BY DEF RuntimeInv, TypeOK, RetireBindings, ContractsAgree, Speak, NativeHold, Gone
<1>11. HooksLeased'
  BY RuntimeAssumption DEF RuntimeInv, TypeOK, RetireBindings, HooksLeased
<1>12. RemovalOpen'
  BY DEF RuntimeInv, TypeOK, RetireBindings, RemovalOpen
<1> QED
  BY <1>1, <1>2, <1>3, <1>4, <1>5, <1>6, <1>7, <1>8, <1>9, <1>10, <1>11, <1>12
  DEF RuntimeInv

\* Pins go, and no reclaim pass is under way that read them.
LEMMA RetirePinsKeeps ==
    ASSUME RuntimeInv, NEW p \in Commands, RetirePins(p)
    PROVE  RuntimeInv'
<1>1. TypeOK'
  <2>1. pins' \in [Clients -> Maybe(Gens)] /\ pc' \in [Procs -> Places]
    BY DEF RuntimeInv, TypeOK, RetirePins, Places
  <2> QED
    BY <2>1 DEF RuntimeInv, TypeOK, RetirePins
<1>2. OffIsGone' /\ LockHeld'
  BY RuntimeAssumption DEF RuntimeInv, TypeOK, RetirePins, OffIsGone, LockHeld, LockFree, Gone, Dead, Locked, Passing
<1>3. NothingYet'
  BY DEF RuntimeInv, TypeOK, RetirePins, NothingYet, RemovalOpen
<1>4. Staged'
  BY RuntimeAssumption DEF RuntimeInv, TypeOK, RetirePins, Staged, Staging, Publishing
<1>5. SeenAllows'
  BY DEF RuntimeInv, TypeOK, RetirePins, SeenAllows
<1>6. Prepared' /\ Applied'
  BY RuntimeAssumption DEF RuntimeInv, TypeOK, RetirePins, Prepared, Applied, Recipe, LockHeld, Locked
<1>7. Unenrolled' /\ ActivatingPends' /\ PendingAllowed' /\ IntegrationsMatch'
  BY DEF RuntimeInv, TypeOK, RetirePins, Unenrolled, ActivatingPends, PendingAllowed,
     IntegrationsMatch, RemovalOpen
<1>8. ActiveOnDisk' /\ PointersOnDisk' /\ LeasesOnDisk'
  BY DEF RuntimeInv, TypeOK, RetirePins, ActiveOnDisk, PointersOnDisk, LeasesOnDisk
<1>9. PassKnows'
  BY RuntimeAssumption
  DEF RuntimeInv, TypeOK, RetirePins, PassKnows, LockHeld, LockFree, OffIsGone, Gone, Dead, Locked, Passing, Staging,
      Publishing
<1>10. ContractsAgree'
  BY DEF RuntimeInv, TypeOK, RetirePins, ContractsAgree, Speak, NativeHold, Gone
<1>11. HooksLeased'
  BY RuntimeAssumption DEF RuntimeInv, TypeOK, RetirePins, HooksLeased
<1>12. RemovalOpen'
  BY DEF RuntimeInv, TypeOK, RetirePins, RemovalOpen
<1> QED
  BY <1>1, <1>2, <1>3, <1>4, <1>5, <1>6, <1>7, <1>8, <1>9, <1>10, <1>11, <1>12
  DEF RuntimeInv

\* The removal is recorded, with the fence open as it was.
LEMMA RecordRemovalKeeps ==
    ASSUME RuntimeInv, NEW p \in Commands, RecordRemoval(p)
    PROVE  RuntimeInv'
<1>a. control # None /\ control \in Control /\ control.phase = "ready"
  BY DEF RuntimeInv, TypeOK, RecordRemoval, RemovalOpen
<1>b. /\ control' \in Control /\ control' # None
      /\ control'.phase = "ready" /\ control'.active = control.active
      /\ control'.pin = control.pin
      /\ control'.enrolled = (control.enrolled /\ pc[p] # "record_none")
      /\ control'.pending = IF pc[p] = "record_none" THEN None ELSE control.pending
  <2>1. PICK failed \in BOOLEAN :
          control' = [control EXCEPT !.enrolled = @ /\ ~(pc[p] = "record_none"),
                                     !.auto = @ /\ ~(pc[p] = "record_none") /\ ~failed,
                                     !.pending = IF pc[p] = "record_none" THEN None ELSE @]
    BY DEF RecordRemoval
  <2>2. /\ control.enrolled \in BOOLEAN /\ control.auto \in BOOLEAN
        /\ control.pending \in Maybe(Gens)
    BY <1>a DEF Control
  <2>3. control' \in Control
    BY <1>a, <2>1, <2>2 DEF Control
  <2> QED
    BY <1>a, <2>1, <2>3, RuntimeAssumption DEF Control
<1>c. pc[p] \in {"record_some", "record_none"} /\ pc' = [pc EXCEPT ![p] = "end"]
  BY Zenon DEF RecordRemoval
<1>d. integration' = IF pc[p] = "record_none" THEN None ELSE integration
  BY Zenon DEF RecordRemoval
<1>e. UNCHANGED <<disk, worker, leases, pins, holds, bindings, store,
                  life, runs, seen, before, target, pass, adopted, lateP, spawned>>
  BY Zenon DEF RecordRemoval
<1>1. TypeOK'
  <2>1. integration' \in Gens \cup {None, Removed} /\ pc' \in [Procs -> Places]
    BY DEF RuntimeInv, TypeOK, RecordRemoval, Places
  <2> QED
    BY <1>b, <2>1 DEF RuntimeInv, TypeOK, RecordRemoval
<1>2. OffIsGone' /\ LockHeld'
  BY RuntimeAssumption DEF RuntimeInv, TypeOK, RecordRemoval, OffIsGone, LockHeld, LockFree, Gone, Dead, Locked, Passing
<1>3. NothingYet'
  BY <1>b DEF NothingYet
<1>4. Staged'
  BY RuntimeAssumption DEF RuntimeInv, TypeOK, RecordRemoval, Staged, Staging, Publishing
<1>5. SeenAllows'
  <2>1. \A q \in Commands : pc'[q] = pc[q] \/ pc'[q] = "end"
    BY <1>c, RuntimeAssumption DEF RuntimeInv, TypeOK
  <2> QED
    BY <1>e, <2>1 DEF RuntimeInv, SeenAllows
<1>6. Prepared' /\ Applied'
  BY RuntimeAssumption DEF RuntimeInv, TypeOK, RecordRemoval, Prepared, Applied, Recipe, LockHeld, Locked
<1>7. Unenrolled' /\ ActivatingPends' /\ PendingAllowed' /\ IntegrationsMatch'
  BY <1>a, <1>b, RuntimeAssumption
  DEF RuntimeInv, RecordRemoval, Unenrolled, ActivatingPends, PendingAllowed, IntegrationsMatch
<1>8. ActiveOnDisk' /\ PointersOnDisk' /\ LeasesOnDisk'
  <2>1. ActiveOnDisk'
    BY <1>a, <1>b, <1>e DEF RuntimeInv, ActiveOnDisk
  <2>2. PointersOnDisk'
    BY <1>a, <1>b, <1>e DEF RuntimeInv, PointersOnDisk
  <2>3. LeasesOnDisk'
    BY <1>e DEF RuntimeInv, LeasesOnDisk
  <2> QED
    BY <2>1, <2>2, <2>3
<1>9. PassKnows'
  BY RuntimeAssumption
  DEF RuntimeInv, TypeOK, RecordRemoval, PassKnows, LockHeld, LockFree, OffIsGone, Gone, Dead, Locked, Passing, Staging,
      Publishing
<1>10. ContractsAgree'
  BY <1>a, <1>b, <1>c, <1>e DEF RuntimeInv, TypeOK, ContractsAgree, Speak, NativeHold, Gone
<1>11. HooksLeased'
  BY RuntimeAssumption DEF RuntimeInv, TypeOK, RecordRemoval, HooksLeased
<1>12. RemovalOpen'
  BY <1>b DEF RuntimeInv, TypeOK, RecordRemoval, RemovalOpen
<1> QED
  BY <1>1, <1>2, <1>3, <1>4, <1>5, <1>6, <1>7, <1>8, <1>9, <1>10, <1>11, <1>12
  DEF RuntimeInv

(***************************************************************************)
(* The theorems.                                                           *)
(***************************************************************************)
\* Nothing is installed, or the first generation is: the invariant holds.
LEMMA InitHolds == Init => RuntimeInv
<1> SUFFICES ASSUME Init PROVE RuntimeInv
  OBVIOUS
<1>1. First \in Gens /\ Contract[First] \in Nat /\ None \notin Gens
  BY RuntimeAssumption
<1>2. Installed \in Control
  BY <1>1 DEF Installed, Control
<1>3. control \in Maybe(Control)
  BY <1>2 DEF Init
<1>4. pass \in [snap : SUBSET Gens, refs : SUBSET Gens]
  BY DEF Init
<1>5. disk \subseteq Gens /\ integration \in Gens \cup {None, Removed} /\ store \in Contracts
  BY <1>1 DEF Init, Contracts
<1>6. /\ life \in [Procs -> {"run", "zombie", "dead"}] /\ pc \in [Procs -> Places]
      /\ spawned \in Nat
  BY DEF Init, Places
<1>7. TypeOK
  BY <1>3, <1>4, <1>5, <1>6 DEF Init, TypeOK
<1>8. \A p \in Procs : pc[p] = "start" /\ ~Gone(p)
  BY DEF Init, Gone
<1>9. /\ OffIsGone /\ LockHeld /\ NothingYet /\ Staged /\ Prepared /\ Applied
      /\ PassKnows /\ HooksLeased /\ RemovalOpen
  BY <1>8 DEF Init, OffIsGone, LockHeld, NothingYet, Staged, Prepared, Applied, PassKnows,
     HooksLeased, RemovalOpen, Locked, Passing, Staging, Publishing
<1>10. SeenAllows
  BY <1>8 DEF Init, SeenAllows
<1>11. control # None => control = Installed /\ disk = {First} /\ integration = First
  BY DEF Init
<1>12. /\ Unenrolled /\ ActivatingPends /\ PendingAllowed /\ IntegrationsMatch
       /\ ActiveOnDisk /\ PointersOnDisk /\ LeasesOnDisk
  BY <1>11 DEF Init, Installed, Unenrolled, ActivatingPends, PendingAllowed, IntegrationsMatch,
     ActiveOnDisk, PointersOnDisk, LeasesOnDisk
<1>13. ContractsAgree
  BY <1>1, <1>11 DEF Init, Installed, ContractsAgree, Speak, NativeHold
<1> QED
  BY <1>7, <1>9, <1>10, <1>12, <1>13 DEF RuntimeInv

\* Every step of every process keeps the invariant.
LEMMA NextKeeps == RuntimeInv /\ [Next]_vars => RuntimeInv'
<1> SUFFICES ASSUME RuntimeInv, [Next]_vars PROVE RuntimeInv'
  OBVIOUS
<1>1. CASE \E p \in Procs : Spawn(p) \/ Exit(p) \/ Collect(p)
  BY <1>1, SpawnKeeps, ExitKeeps, CollectKeeps
<1>2. CASE \E h \in Hooks : HookStep(h)
  BY <1>2, AdmitKeeps, DelegateKeeps, StartSessionKeeps, WritePinKeeps, EndSessionKeeps
  DEF HookStep
<1>3. CASE \E p \in Commands \ Background : UserStep(p)
  BY <1>3, StageInstallKeeps, UninstallKeeps, PublishInstallKeeps, StageNewerKeeps,
     SetAutoKeeps, SetPinKeeps
  DEF UserStep
<1>4. CASE \E p \in Commands \ Background : RemoveStep(p)
  BY <1>4, RemoveClientsKeeps, RetireBindingsKeeps, RetirePinsKeeps, RecordRemovalKeeps
  DEF RemoveStep
<1>5. CASE \E p \in Commands : UpdateStep(p)
  BY <1>5, BeginPassKeeps, PrepareKeeps, FenceRefusedKeeps, FenceKeeps, ApplyKeeps,
     ApplyFailsKeeps, CommitKeeps, FinishKeeps, StageKeeps, AbandonKeeps, PublishNewerKeeps,
     PublishReleaseKeeps, DownloadKeeps
  DEF UpdateStep
<1>6. CASE \E p \in Commands : ReclaimStep(p)
  BY <1>6, ReclaimBeginKeeps, ReadLeasesKeeps, ReadPinsKeeps, ReadHoldsKeeps, MoveKeeps,
     MigrateStoresKeeps
  DEF ReclaimStep
<1>7. CASE UNCHANGED vars
  BY <1>7 DEF vars, files, RuntimeInv, TypeOK, OffIsGone, LockHeld, NothingYet, Staged, SeenAllows,
     Prepared, Applied, Unenrolled, ActivatingPends, PendingAllowed, IntegrationsMatch,
     ActiveOnDisk, PointersOnDisk, LeasesOnDisk, PassKnows, ContractsAgree, Speak, NativeHold,
     HooksLeased, RemovalOpen, Gone, Recipe
<1> QED
  BY <1>1, <1>2, <1>3, <1>4, <1>5, <1>6, <1>7 DEF Next

\* The inductive invariant holds in every reachable state.
THEOREM RuntimeInvariant == Spec => []RuntimeInv
  BY InitHolds, NextKeeps, PTL DEF Spec

\* The records of the manager directory and the processes are typed.
THEOREM RuntimeTypeCorrect == Spec => []TypeOK
<1>1. RuntimeInv => TypeOK
  BY DEF RuntimeInv
<1> QED
  BY <1>1, RuntimeInvariant, PTL

\* No reclaim pass takes a generation that a running process leases, or that
\* the control record names, but for one adopted in the window that
\* activation.mjs documents.
THEOREM NothingInUseTaken == Spec => []InUseKept
<1>1. RuntimeInv => InUseKept
  BY DEF RuntimeInv, InUseKept, LeasedOnDisk, LeasesOnDisk, LiveLeases
<1> QED
  BY <1>1, RuntimeInvariant, PTL

\* While entries are admitted every holder speaks the active contract, and the
\* store is not ahead of any holder.
THEOREM ContractKept == Spec => []ContractRespected
<1>1. RuntimeInv => ContractRespected
  <2> SUFFICES ASSUME RuntimeInv PROVE HoldersSpeakContract /\ StoreNotAhead
    BY DEF ContractRespected
  <2>1. ASSUME NEW p \in Hooks \cup Clients, Holder(p)
        PROVE  control # None /\ HoldContracts(p) = {Contract[control.active]}
    <3>1. control # None
      BY <2>1 DEF RuntimeInv, NothingYet, Holder, LiveLeases, NativeHold
    <3>2. Speak(Contract[control.active])
      BY <3>1 DEF RuntimeInv, ContractsAgree
    <3>3. CASE p \in Hooks
      <4>1. \E l \in leases : l[1] = p
        BY <2>1, <3>3, RuntimeAssumption DEF Holder, LiveLeases
      <4>2. HoldContracts(p) = {Contract[l[2]] : l \in {m \in leases : m[1] = p}}
        BY <3>3, RuntimeAssumption DEF HoldContracts
      <4> QED
        BY <3>1, <3>2, <4>1, <4>2 DEF Speak
    <3>4. CASE p \in Clients
      <4>1. \A l \in leases : l[1] # p
        BY <3>4, RuntimeAssumption DEF RuntimeInv, TypeOK
      <4>2. NativeHold(p)
        BY <2>1, <4>1 DEF Holder, LiveLeases
      <4>3. HoldContracts(p) = {bindings[p].contract}
        BY <3>4, <4>1, <4>2 DEF HoldContracts, NativeHold
      <4> QED
        BY <3>1, <3>2, <3>4, <4>2, <4>3 DEF Speak
    <3> QED
      BY <2>1, <3>3, <3>4
  <2>2. control # None => store <= Contract[control.active]
    BY DEF RuntimeInv, ContractsAgree
  <2> QED
    BY <2>1, <2>2 DEF HoldersSpeakContract, StoreNotAhead
<1> QED
  BY <1>1, RuntimeInvariant, PTL

\* The control record never names an update that goes back or leaves the pin,
\* and with the fence open the integrations that are left are those of the active
\* generation, wherever an activation, an installation or a removal is killed.
THEOREM ControlTrue == Spec => []ControlHolds
<1>1. RuntimeInv => ControlHolds
  BY DEF RuntimeInv, ControlHolds
<1> QED
  BY <1>1, RuntimeInvariant, PTL

\* No step takes the generation a live client is pinned to, but for a pin that
\* a delegated hook wrote again.
THEOREM PinsKept == Spec => PinnedKept
<1> DEFINE Keeps ==
      \A c \in Clients :
          (/\ life[c] = "run" /\ pins[c] # None /\ pins[c] \in disk /\ c \notin lateP
           /\ pins' = pins) => pins[c] \in disk'
<1>1. ASSUME RuntimeInv, [Next]_vars PROVE [Keeps]_vars
  <2>1. CASE \E p \in Commands : Move(p)
    <3>1. PICK p \in Commands : Move(p)
      BY <2>1
    <3>2. \A c \in Clients : (pins[c] # None /\ c \notin lateP) => pins[c] \in pass.refs
      BY <1>1, <3>1 DEF RuntimeInv, PassKnows, Move
    <3>3. \A g \in disk : g \in pass.refs => g \in disk'
      BY <3>1 DEF Move
    <3> QED
      BY <3>2, <3>3
  <2>2. CASE ~\E p \in Commands : Move(p)
    <3>1. disk \subseteq disk'
      <4>1. CASE \E p \in Procs : Spawn(p) \/ Exit(p) \/ Collect(p)
        BY <4>1 DEF Spawn, Exit, Collect, files
      <4>2. CASE \E h \in Hooks : HookStep(h)
        BY <4>2 DEF HookStep, Admit, Delegate, StartSession, WritePin, EndSession, files
      <4>3. CASE \E p \in Commands \ Background : UserStep(p)
        <5>1. PICK p \in Commands : UserStep(p)
          BY <4>3
        <5>2. CASE StageInstall(p) \/ \E g \in Gens : StageNewer(p, g)
          BY <5>2 DEF StageInstall, StageNewer
        <5>3. CASE PublishInstall(p)
          BY <5>3 DEF PublishInstall
        <5>4. CASE Uninstall(p)
          BY <5>4 DEF Uninstall, files
        <5>5. CASE \E on \in BOOLEAN : SetAuto(p, on)
          BY <5>5 DEF SetAuto
        <5>6. CASE \E pin \in Maybe(Pinnable) : SetPin(p, pin)
          BY <5>6 DEF SetPin
        <5> QED
          BY <5>1, <5>2, <5>3, <5>4, <5>5, <5>6 DEF UserStep
      <4>4. CASE \E p \in Commands : UpdateStep(p)
        BY <4>4 DEF UpdateStep, BeginPass, Prepare, FenceRefused, Fence, Apply, ApplyFails, Commit,
           Finish, Stage, Abandon, PublishNewer, PublishRelease, Download, files
      <4>5. CASE \E p \in Commands : ReclaimStep(p)
        BY <2>2, <4>5 DEF ReclaimStep, ReclaimBegin, ReadLeases, ReadPins, ReadHolds, MigrateStores,
           files
      <4>6. CASE \E p \in Commands \ Background : RemoveStep(p)
        BY <4>6 DEF RemoveStep, RemoveClients, RetireBindings, RetirePins, RecordRemoval
      <4>7. CASE UNCHANGED vars
        BY <4>7 DEF vars, files
      <4> QED
        BY <1>1, <4>1, <4>2, <4>3, <4>4, <4>5, <4>6, <4>7 DEF Next
    <3> QED
      BY <3>1
  <2> QED
    BY <2>1, <2>2
<1> QED
  BY <1>1, RuntimeInvariant, PTL DEF Spec, PinnedKept
-------------------------------------------------------------------------------
(***************************************************************************)
(* Live delivery and consent: types.                                       *)
(***************************************************************************)
Answers == {"unset", "yes", "no"}
Sources == DELIBERATE_SOURCES \cup
           {"legacy-unknown", "noninteractive-default", "unsupported-default"}
Decisions == [source : Sources, completeSetup : BOOLEAN, pre : Answers]
Written == [policy : LIVE_POLICIES, dec : Decisions, act : LIVE_POLICIES, captured : BOOLEAN]
FactNames == {"eligible", "waiting", "no", "absent", "guarded"}
Services == {"bare", "self", "stopped", "blocked", "running"}
Working == {"wire", "record", "service"}

\* What a command planned: an entry and the user's word for each of its clients.
EntryMaps == UNION {[S -> Written] : S \in SUBSET LiveClients}
ToldWords == UNION {[S -> {"nothing", "yes", "no"}] : S \in SUBSET LiveClients}
Plans == [pc : Working, act : {"install", "uninstall"}, names : BOOLEAN,
          ops : SUBSET LiveClients, entry : EntryMaps, told : ToldWords,
          plan : Services \cup {"unseen"}, loop : BOOLEAN, before : BOOLEAN, wrote : BOOLEAN,
          trouble : BOOLEAN]
Questions == [selected : SUBSET LiveClients, named : BOOLEAN,
              facts : [LiveClients -> FactNames], captured : BOOLEAN,
              policy : [LiveClients -> LIVE_POLICIES], dec : [LiveClients -> Decisions]]
Asking == [pc : {"ask"}, asked : SUBSET LiveClients, then : Questions]

\* The installer's state is well typed.
ConsentTypeOK ==
  /\ rec \in [LiveClients -> {Unrecorded} \cup Written]
  /\ grant \in {"none", "own", "ownLoop", "custom"}
  /\ svc \in Services
  /\ cmd \in {NoCommand} \cup Asking \cup Plans
  /\ word \in [LiveClients -> {"none", "yes", "no"}]
  /\ slip \in BOOLEAN
  /\ installs \in Nat /\ faults \in Nat

(***************************************************************************)
(* Live delivery and consent: the inductive invariant.  Its parts take the *)
(* state they speak of as parameters.                                      *)
(***************************************************************************)
\* A record that is on has the user's yes; a no is recorded as deliberate.
Agreed(r, w) ==
  /\ livePolicyOf(r) # "off" => w = "yes"
  /\ w = "no" => r # Unrecorded /\ decisionOf(r).source \in DELIBERATE_SOURCES

\* A policy and a decision about to be recorded, with the user's word t on it,
\* for a client with record r and word w: recording them keeps that so.
Owed(policy, source, t, r, w) ==
  /\ policy # "off" => \/ t = "yes"
                       \/ t = "nothing" /\ livePolicyOf(r) # "off"
  /\ t = "no" => source \in DELIBERATE_SOURCES
  /\ (t = "nothing" /\ w = "no") => source \in DELIBERATE_SOURCES

\* Before the answer: nothing recorded has changed since it was read, and
\* nobody who said no is asked.
AskKept(d, rs, ws) ==
  d.pc = "ask" => \A c \in LiveClients :
      /\ d.then.policy[c] = livePolicyOf(rs[c])
      /\ rs[c] # Unrecorded => d.then.dec[c] = decisionOf(rs[c])
      /\ c \in d.asked => ws[c] # "no"

\* The clients a command has not done yet, and the one whose service it prepares.
PlanKept(d, rs, ws) ==
  d.pc \in Working =>
      /\ d.ops \subseteq DOMAIN d.entry /\ d.ops \subseteq DOMAIN d.told
      /\ d.act = "install" =>
             \A c \in d.ops : ~(d.pc = "service" /\ c = "codex") =>
                 Owed(d.entry[c].policy, d.entry[c].dec.source, d.told[c], rs[c], ws[c])
      /\ d.act = "uninstall" => \A c \in d.ops : d.entry[c].policy = "off"
      /\ d.pc = "service" => /\ "codex" \in d.ops /\ d.act = "install"
                             /\ rs["codex"] = d.entry["codex"]

\* A grant ACC owns is the one for receivers that listen on loopback, or not.
OwnGrant(g) == g \in {"own", "ownLoop"}
Matches(g, loop) == (g = "ownLoop" => loop) /\ (g = "own" => ~loop)
Listening(rs) == Activated(rs["kimi"]) # "off"

\* A grant that is up to date: with the receivers, and none without a record.
UpToDate(g, loop, rs) == Matches(g, loop) /\ (rs["codex"] = Unrecorded => ~OwnGrant(g))

\* How a command's plan for the receiver follows what it has recorded.
LoopKept(d, rs) ==
  /\ "codex" \in d.ops => d.names
  /\ "kimi" \in d.ops => (d.loop <=> Activated(d.entry["kimi"]) # "off")
  /\ ("kimi" \notin d.ops /\ ~d.trouble) => (d.loop <=> Listening(rs))

\* The sender's profile was brought up to date: it was written, and not for a
\* version that leaves it as it is.
Renewed(d) == d.wrote /\ (d.act = "uninstall" \/ d.entry["codex"].captured)

\* Before the sender is written the grants are as they were, and then as planned.
SenderKept(d, rs, g, s) ==
  /\ (~Renewed(d) /\ ~s) => UpToDate(g, d.before, rs)
  /\ Renewed(d) => Matches(g, d.loop)
  /\ "codex" \in d.ops => (d.wrote <=> d.pc # "wire")
  /\ d.wrote => /\ d.names
                /\ d.act = "uninstall" => ~OwnGrant(g)
                /\ (d.act = "install" /\ ~(d.pc = "record" /\ "codex" \in d.ops)) =>
                       rs["codex"] # Unrecorded /\ rs["codex"] = d.entry["codex"]

GrantKept(d, rs, g, s) ==
  /\ (d.pc \notin Working /\ ~s) => UpToDate(g, Listening(rs), rs)
  /\ d.pc \in Working => LoopKept(d, rs) /\ SenderKept(d, rs, g, s)

\* The inductive invariant.
ConsentInv ==
  /\ ConsentTypeOK
  /\ \A c \in LiveClients : Agreed(rec[c], word[c])
  /\ AskKept(cmd, rec, word)
  /\ PlanKept(cmd, rec, word)
  /\ GrantKept(cmd, rec, grant, slip)

(***************************************************************************)
(* Records and commands.                                                   *)
(***************************************************************************)
\* A client without a record is told from one with a record.
LEMMA UnrecordedApart == Unrecorded \notin Written
  BY DEF Unrecorded, Written

\* The three kinds of command are told apart by their step.
LEMMA CommandKinds ==
    ASSUME ConsentTypeOK
    PROVE  /\ (cmd = NoCommand) <=> (cmd.pc = "idle")
           /\ (cmd \in Asking) <=> (cmd.pc = "ask")
           /\ (cmd \in Plans) <=> (cmd.pc \in Working)
<1>1. NoCommand.pc = "idle"
  BY DEF NoCommand
<1>2. cmd \in Asking => cmd.pc = "ask"
  BY DEF Asking
<1>3. cmd \in Plans => cmd.pc \in Working
  BY DEF Plans
<1> QED
  BY <1>1, <1>2, <1>3 DEF ConsentTypeOK, Working

\* What a record says of a client is well typed.
LEMMA RecordTypes ==
    ASSUME ConsentTypeOK, NEW c \in LiveClients
    PROVE  /\ rec[c] \in {Unrecorded} \cup Written
           /\ rec[c].policy \in LIVE_POLICIES /\ rec[c].act \in LIVE_POLICIES
           /\ rec[c] # Unrecorded => rec[c] \in Written /\ rec[c].dec \in Decisions
           /\ rec[c].policy # "off" => rec[c] # Unrecorded
           /\ word[c] \in {"none", "yes", "no"}
<1>1. rec[c] \in {Unrecorded} \cup Written /\ word[c] \in {"none", "yes", "no"}
  BY DEF ConsentTypeOK
<1>2. Unrecorded.policy = "off" /\ Unrecorded.act = "off" /\ "off" \in LIVE_POLICIES
  BY ConsentAssumption DEF Unrecorded
<1>3. \A r \in Written : /\ r.policy \in LIVE_POLICIES /\ r.act \in LIVE_POLICIES
                         /\ r.dec \in Decisions
  BY DEF Written
<1> QED
  BY <1>1, <1>2, <1>3

\* receiverLoopback looks at the one receiver.
LEMMA LoopbackIs ==
    /\ LoopbackLeft <=> Listening(rec)
    /\ Loopback(RecordedPolicies(rec)) <=> Listening(rec)
  BY DEF LoopbackLeft, Loopback, RecordedPolicies, Listening, LiveClients

(***************************************************************************)
(* Deciding.                                                               *)
(***************************************************************************)
\* The activation a plan leaves is a policy, and off where the policy is off.
LEMMA ActivationIs ==
    ASSUME ConsentTypeOK, NEW c \in LiveClients, NEW policy \in LIVE_POLICIES, NEW fact
    PROVE  /\ Activation(c, policy, fact) \in LIVE_POLICIES
           /\ policy = "off" => Activation(c, policy, fact) = "off"
  BY ConsentAssumption DEF Activation

\* A plan is a command that keeps the invariant, whatever it was decided from,
\* as long as each client is owed what is planned for it.
LEMMA PlanHolds ==
    ASSUME ConsentTypeOK, GrantKept(cmd, rec, grant, slip), cmd.pc \notin Working,
           NEW act \in {"install", "uninstall"}, NEW selected \in SUBSET LiveClients, NEW named,
           NEW facts, NEW captured \in BOOLEAN, NEW policy \in [LiveClients -> LIVE_POLICIES],
           NEW dec \in [LiveClients -> Decisions],
           NEW told \in [LiveClients -> {"nothing", "yes", "no"}],
           act = "install" => \A c \in LiveClients :
               Owed(policy[c], dec[c].source, told[c], rec[c], word[c]),
           act = "uninstall" => \A c \in LiveClients : policy[c] = "off"
    PROVE  LET d == Plan(act, selected, named, facts, captured, policy, dec, told)
           IN /\ d \in Plans /\ d.pc = "wire" /\ AskKept(d, rec, word)
              /\ PlanKept(d, rec, word) /\ GrantKept(d, rec, grant, slip)
<1> DEFINE d == Plan(act, selected, named, facts, captured, policy, dec, told)
           ops == {c \in selected : ~Skipped(act, c, facts[c], named)}
           leaves == PlannedPolicies(act, ops, policy, facts)
           entry == [c \in ops |-> [policy |-> policy[c], dec |-> dec[c], act |-> leaves[c],
                                    captured |-> c = "codex" => captured]]
           service == IF facts["codex"] = "absent" THEN "unseen" ELSE svc
           words == [c \in ops |-> told[c]]
           names == "codex" \in selected
           loop == Loopback(leaves)
           known == Loopback(RecordedPolicies(rec))
<1>1. d = [pc |-> "wire", act |-> act, names |-> names, ops |-> ops, entry |-> entry,
           told |-> words, plan |-> service, loop |-> loop, before |-> known,
           wrote |-> FALSE, trouble |-> FALSE]
  BY DEF Plan
<1>2. ops \in SUBSET LiveClients /\ "codex" \in LiveClients /\ "kimi" \in LiveClients
  BY DEF LiveClients
<1>3. \A c \in ops : /\ leaves[c] \in LIVE_POLICIES
                     /\ leaves[c] = IF act = "uninstall" THEN "off"
                                    ELSE Activation(c, policy[c], facts[c])
                     /\ policy[c] = "off" => leaves[c] = "off"
  BY <1>2, ActivationIs, ConsentAssumption DEF PlannedPolicies
<1>4. entry \in EntryMaps /\ words \in ToldWords
  <2>1. entry \in [ops -> Written]
    BY <1>2, <1>3 DEF Written
  <2>2. words \in [ops -> {"nothing", "yes", "no"}]
    BY <1>2
  <2> HIDE DEF ops, entry, words
  <2> QED
    BY <1>2, <2>1, <2>2 DEF EntryMaps, ToldWords
<1>5. /\ names \in BOOLEAN /\ loop \in BOOLEAN /\ known \in BOOLEAN
      /\ service \in Services \cup {"unseen"}
  BY DEF Loopback, ConsentTypeOK
<1>6. ("codex" \in ops) => names
  OBVIOUS
<1>7. "kimi" \in ops => (loop <=> Activated(entry["kimi"]) # "off")
  <2> SUFFICES ASSUME "kimi" \in ops
               PROVE  loop <=> Activated(entry["kimi"]) # "off"
    OBVIOUS
  <2>1. entry["kimi"].policy = policy["kimi"] /\ entry["kimi"].act = leaves["kimi"]
    OBVIOUS
  <2>2. Activated(entry["kimi"]) = leaves["kimi"]
    BY <1>3, <2>1 DEF Activated, livePolicyOf
  <2> QED
    BY <2>2 DEF Loopback
<1>8. "kimi" \notin ops => (loop <=> Listening(rec))
  BY <1>2 DEF Loopback, Listening, PlannedPolicies
<1>9. known <=> Listening(rec)
  BY LoopbackIs
<1>10. /\ \A c \in ops : entry[c].policy = policy[c] /\ entry[c].dec = dec[c] /\ words[c] = told[c]
       /\ DOMAIN entry = ops /\ DOMAIN words = ops
  OBVIOUS
<1> HIDE DEF d, ops, leaves, entry, service, words, names, loop, known
<1>11. d \in Plans
  BY <1>1, <1>2, <1>4, <1>5 DEF Plans, Working
<1>12. /\ d.pc = "wire" /\ d.act = act /\ d.names = names /\ d.ops = ops /\ d.entry = entry
       /\ d.told = words /\ d.loop = loop /\ d.before = known /\ d.wrote = FALSE
       /\ d.trouble = FALSE
  BY <1>1
<1>13. PlanKept(d, rec, word)
  BY <1>2, <1>10, <1>12 DEF PlanKept
<1>14. LoopKept(d, rec)
  BY <1>6, <1>7, <1>8, <1>12 DEF LoopKept
<1>15. SenderKept(d, rec, grant, slip)
  BY <1>9, <1>12 DEF SenderKept, Renewed, GrantKept, UpToDate, Matches
<1>16. GrantKept(d, rec, grant, slip)
  BY <1>12, <1>14, <1>15 DEF GrantKept, Working
<1>17. AskKept(d, rec, word)
  BY <1>12 DEF AskKept
<1>18. /\ d \in Plans /\ d.pc = "wire" /\ AskKept(d, rec, word)
       /\ PlanKept(d, rec, word) /\ GrantKept(d, rec, grant, slip)
  BY <1>11, <1>12, <1>13, <1>16, <1>17
<1> QED
  BY <1>18 DEF d

\* Everything of the invariant that speaks of the command.
CommandKept ==
  /\ cmd \in {NoCommand} \cup Asking \cup Plans
  /\ AskKept(cmd, rec, word)
  /\ PlanKept(cmd, rec, word)
  /\ GrantKept(cmd, rec, grant, slip)

\* A command that only moves on keeps the invariant when it is kept for the
\* command.
LEMMA OnlyCommand ==
    ASSUME ConsentInv, UNCHANGED <<rec, grant, svc, word, slip>>,
           installs' \in Nat, faults' \in Nat, CommandKept'
    PROVE  ConsentInv'
<1>1. ConsentTypeOK'
  BY DEF ConsentInv, ConsentTypeOK, CommandKept
<1>2. \A c \in LiveClients : Agreed(rec[c], word[c])'
  BY DEF ConsentInv
<1> QED
  BY <1>1, <1>2 DEF ConsentInv, CommandKept

\* A plan made from the records as they stand keeps the invariant.
LEMMA PlanKeeps ==
    ASSUME ConsentInv, UNCHANGED <<rec, grant, svc, word, slip>>,
           installs' \in Nat, faults' \in Nat, cmd.pc \notin Working,
           NEW act \in {"install", "uninstall"}, NEW selected \in SUBSET LiveClients, NEW named,
           NEW facts, NEW captured \in BOOLEAN, NEW policy \in [LiveClients -> LIVE_POLICIES],
           NEW dec \in [LiveClients -> Decisions],
           NEW told \in [LiveClients -> {"nothing", "yes", "no"}],
           act = "install" => \A c \in LiveClients :
               Owed(policy[c], dec[c].source, told[c], rec[c], word[c]),
           act = "uninstall" => \A c \in LiveClients : policy[c] = "off",
           cmd' = Plan(act, selected, named, facts, captured, policy, dec, told)
    PROVE  ConsentInv'
<1>1. /\ cmd' \in Plans /\ AskKept(cmd', rec, word) /\ PlanKept(cmd', rec, word)
      /\ GrantKept(cmd', rec, grant, slip)
  BY PlanHolds DEF ConsentInv
<1>2. CommandKept'
  BY <1>1 DEF CommandKept
<1> QED
  BY <1>2, OnlyCommand

\* Nobody is asked who said no: that no is on record, and is deliberate.
LEMMA NoNotAsked ==
    ASSUME ConsentInv, NEW c \in LiveClients, Asks(c, rec[c])
    PROVE  word[c] # "no"
<1> SUFFICES ASSUME word[c] = "no" PROVE FALSE
  OBVIOUS
<1>1. /\ livePolicyOf(rec[c]) = "off" /\ rec[c] # Unrecorded
      /\ decisionOf(rec[c]).source \in DELIBERATE_SOURCES
  BY DEF ConsentInv, Agreed
<1> QED
  BY <1>1 DEF Asks, Fresh, ExpandsLegacyOptIn, ExpandsPrerequisite

\* The facts a command finds are of the known kinds.
LEMMA FactsKnown ==
    ASSUME NEW facts, facts \in [LiveClients -> Facts("codex") \cup Facts("kimi")]
    PROVE  facts \in [LiveClients -> FactNames]
  BY DEF Facts, FactNames

\* The decisions a command can make are decisions.
LEMMA DecisionTypes ==
    /\ \A source \in Sources, complete \in BOOLEAN, pre \in Answers :
           /\ Decision(source, complete, pre) \in Decisions
           /\ Decision(source, complete, pre).source = source
    /\ legacyDecision \in Decisions
<1>1. \A source \in Sources, complete \in BOOLEAN, pre \in Answers :
           /\ Decision(source, complete, pre) \in Decisions
           /\ Decision(source, complete, pre).source = source
  BY DEF Decision, Decisions
<1>2. "legacy-unknown" \in Sources /\ "unset" \in Answers
  BY DEF Sources, Answers
<1> QED
  BY <1>1, <1>2 DEF legacyDecision

\* Without a word from the user, a client is owed what it had.
LEMMA DefaultOwed ==
    ASSUME ConsentInv, NEW c \in LiveClients, NEW fact
    PROVE  /\ DefaultPolicy(rec[c], fact) \in LIVE_POLICIES
           /\ DefaultDecision(rec[c], fact) \in Decisions
           /\ Owed(DefaultPolicy(rec[c], fact), DefaultDecision(rec[c], fact).source, "nothing",
                   rec[c], word[c])
           /\ rec[c] # Unrecorded => DefaultDecision(rec[c], fact) = decisionOf(rec[c])
<1>1. ConsentTypeOK /\ Agreed(rec[c], word[c])
  BY DEF ConsentInv
<1>2. rec[c].policy \in LIVE_POLICIES /\ (rec[c] # Unrecorded => rec[c].dec \in Decisions)
  BY <1>1, RecordTypes
<1>3. DefaultPolicy(rec[c], fact) = rec[c].policy
  BY DEF DefaultPolicy, livePolicyOf
<1>4. CASE rec[c] # Unrecorded
  BY <1>1, <1>2, <1>3, <1>4 DEF DefaultDecision, decisionOf, Owed, Agreed, livePolicyOf
<1>5. CASE rec[c] = Unrecorded
  <2>1. {"noninteractive-default", "unsupported-default"} \subseteq Sources /\ "unset" \in Answers
    BY DEF Sources, Answers
  <2>2. DefaultDecision(rec[c], fact) \in Decisions
    BY <1>5, <2>1, DecisionTypes DEF DefaultDecision
  <2>3. word[c] # "no"
    BY <1>1, <1>5 DEF Agreed
  <2> QED
    BY <1>2, <1>3, <1>5, <2>2, <2>3 DEF Owed, livePolicyOf
<1> QED
  BY <1>4, <1>5

\* acc install keeps the invariant.
LEMMA InstallKeeps ==
    ASSUME ConsentInv, NEW selected \in SUBSET LiveClients, NEW named \in BOOLEAN,
           NEW facts \in [LiveClients -> FactNames], NEW captured \in BOOLEAN,
           NEW explicit \in {"none"} \cup LIVE_POLICIES, NEW interactive \in BOOLEAN,
           InstallClients(selected, named, facts, captured, explicit, interactive)
    PROVE  ConsentInv'
<1> DEFINE plainPolicy == [c \in LiveClients |-> DefaultPolicy(rec[c], facts[c])]
           plainDecision == [c \in LiveClients |-> DefaultDecision(rec[c], facts[c])]
           asked == {c \in selected : isEligible(facts[c]) /\ Asks(c, rec[c])}
<1>1. /\ UNCHANGED <<rec, grant, svc, word, slip>> /\ installs' \in Nat /\ faults' \in Nat
      /\ cmd = NoCommand
  BY DEF InstallClients, BeginCommand, ConsentInv, ConsentTypeOK
<1>2. cmd.pc \notin Working
  BY <1>1 DEF NoCommand, Working
<1>3. /\ plainPolicy \in [LiveClients -> LIVE_POLICIES]
      /\ plainDecision \in [LiveClients -> Decisions]
      /\ \A c \in LiveClients :
             Owed(plainPolicy[c], plainDecision[c].source, "nothing", rec[c], word[c])
  BY DefaultOwed
<1>4. CASE explicit # "none"
  <2> DEFINE policy == [c \in LiveClients |-> explicit]
             dec == [c \in LiveClients |-> ExplicitDecision(c, explicit, facts[c])]
             told == [c \in LiveClients |-> IF explicit = "off" THEN "no" ELSE "yes"]
  <2>1. cmd' = Plan("install", selected, named, facts, captured, policy, dec, told)
    BY <1>4 DEF InstallClients
  <2>2. /\ policy \in [LiveClients -> LIVE_POLICIES]
        /\ told \in [LiveClients -> {"nothing", "yes", "no"}]
    BY <1>4
  <2>3. \A c \in LiveClients :
            /\ ExplicitDecision(c, explicit, facts[c]) \in Decisions
            /\ ExplicitDecision(c, explicit, facts[c]).source = "explicit-option"
    <3>1. "explicit-option" \in Sources /\ Answers = {"unset", "yes", "no"}
      BY DEF Sources, DELIBERATE_SOURCES, Answers
    <3>2. (explicit # "off") \in BOOLEAN
      OBVIOUS
    <3> QED
      BY <3>1, <3>2, DecisionTypes DEF ExplicitDecision
  <2>4. dec \in [LiveClients -> Decisions]
    BY <2>3
  <2>5. \A c \in LiveClients : Owed(policy[c], dec[c].source, told[c], rec[c], word[c])
    BY <2>3 DEF Owed, DELIBERATE_SOURCES
  <2> HIDE DEF policy, dec, told
  <2> QED
    BY <1>1, <1>2, <2>1, <2>2, <2>4, <2>5, PlanKeeps
<1>5. CASE explicit = "none" /\ asked # {} /\ interactive
  <2> DEFINE then == [selected |-> selected, named |-> named, facts |-> facts,
                      captured |-> captured, policy |-> plainPolicy, dec |-> plainDecision]
  <2>1. cmd' = [pc |-> "ask", asked |-> asked, then |-> then]
    BY <1>5 DEF InstallClients
  <2>2. asked \in SUBSET LiveClients /\ \A c \in asked : word[c] # "no"
    BY NoNotAsked
  <2>3. \A c \in LiveClients : /\ plainPolicy[c] = livePolicyOf(rec[c])
                               /\ rec[c] # Unrecorded => plainDecision[c] = decisionOf(rec[c])
    BY DefaultOwed DEF DefaultPolicy
  <2> HIDE DEF plainPolicy, plainDecision, asked
  <2>4. then \in Questions /\ then.policy = plainPolicy /\ then.dec = plainDecision
    BY <1>3 DEF Questions
  <2> HIDE DEF then
  <2>5. /\ cmd' \in Asking /\ cmd'.pc = "ask" /\ cmd'.asked = asked /\ cmd'.then = then
    BY <2>1, <2>2, <2>4 DEF Asking
  <2>6. AskKept(cmd', rec', word')
    BY <1>1, <2>2, <2>3, <2>4, <2>5 DEF AskKept
  <2>7. PlanKept(cmd', rec', word')
    BY <2>5 DEF PlanKept, Working
  <2>8. GrantKept(cmd', rec', grant', slip')
    BY <1>1, <1>2, <2>5 DEF GrantKept, Working, ConsentInv
  <2> QED
    BY <1>1, <2>5, <2>6, <2>7, <2>8, OnlyCommand DEF CommandKept
<1>6. CASE explicit = "none" /\ ~(asked # {} /\ interactive)
  <2>1. cmd' = Plan("install", selected, named, facts, captured, plainPolicy, plainDecision,
                    Untold)
    BY <1>6 DEF InstallClients
  <2>2. /\ Untold \in [LiveClients -> {"nothing", "yes", "no"}]
        /\ \A c \in LiveClients : Untold[c] = "nothing"
    BY DEF Untold
  <2> HIDE DEF plainPolicy, plainDecision, asked
  <2> QED
    BY <1>1, <1>2, <1>3, <2>1, <2>2, PlanKeeps
<1> QED
  BY <1>4, <1>5, <1>6

\* acc uninstall keeps the invariant.
LEMMA UninstallClientsKeeps ==
    ASSUME ConsentInv, NEW selected \in SUBSET LiveClients, NEW named, NEW facts,
           UninstallClients(selected, named, facts)
    PROVE  ConsentInv'
<1> DEFINE policy == [c \in LiveClients |-> "off"]
           dec == [c \in LiveClients |-> legacyDecision]
<1>1. /\ UNCHANGED <<rec, grant, svc, word, slip>> /\ installs' \in Nat /\ faults' \in Nat
      /\ cmd = NoCommand
      /\ cmd' = Plan("uninstall", selected, named, facts, TRUE, policy, dec, Untold)
  BY DEF UninstallClients, BeginCommand, ConsentInv, ConsentTypeOK
<1>2. cmd.pc \notin Working
  BY <1>1 DEF NoCommand, Working
<1>3. /\ policy \in [LiveClients -> LIVE_POLICIES] /\ dec \in [LiveClients -> Decisions]
      /\ Untold \in [LiveClients -> {"nothing", "yes", "no"}]
      /\ \A c \in LiveClients : policy[c] = "off"
  BY ConsentAssumption, DecisionTypes DEF Untold
<1> HIDE DEF policy, dec
<1> QED
  BY <1>1, <1>2, <1>3, PlanKeeps

\* The user's answer: a client is owed what was answered for it.
LEMMA AnswerOwed ==
    ASSUME ConsentInv, NEW c \in LiveClients, NEW yes \in BOOLEAN, word[c] # "no"
    PROVE  LET a == Answered(c, rec[c], yes)
               t == IF yes THEN "yes" ELSE IF rec[c].policy = "off" THEN "no" ELSE "nothing"
           IN /\ a.policy \in LIVE_POLICIES /\ a.dec \in Decisions
              /\ Owed(a.policy, a.dec.source, t, rec[c], word[c])
<1> DEFINE pre == IF needsPrerequisite(c) THEN IF yes THEN "yes" ELSE "no" ELSE "unset"
           a == Answered(c, rec[c], yes)
<1>1. pre \in Answers
  BY DEF Answers
<1>2. /\ rec[c].policy \in LIVE_POLICIES
      /\ rec[c].policy # "off" => rec[c] # Unrecorded /\ rec[c].dec \in Decisions
  BY RecordTypes DEF ConsentInv
<1>3. {"interactive-accepted", "interactive-declined"} \subseteq Sources \cap DELIBERATE_SOURCES
  BY DEF Sources, DELIBERATE_SOURCES
<1>4. CASE yes
  <2>1. a.dec = Decision("interactive-accepted", TRUE, pre)
    BY <1>4 DEF Answered
  <2>2. a.policy = IF rec[c].policy = "off" THEN "actionable" ELSE rec[c].policy
    BY <1>4 DEF Answered, livePolicyOf
  <2> HIDE DEF pre, a
  <2>3. a.policy \in LIVE_POLICIES /\ a.dec \in Decisions
    <3>1. a.dec \in Decisions
      BY <1>1, <1>3, <2>1 DEF Decision, Decisions
    <3> QED
      BY <1>2, <2>2, <3>1, ConsentAssumption
  <2> QED
    BY <1>4, <2>3 DEF Owed, a
<1>5. CASE ~yes /\ rec[c].policy = "off"
  <2>1. a.dec = Decision("interactive-declined", FALSE, pre)
    BY <1>5 DEF Answered, livePolicyOf
  <2>2. a.policy = "off"
    BY <1>5 DEF Answered, livePolicyOf
  <2> HIDE DEF pre, a
  <2>3. a.policy \in LIVE_POLICIES /\ a.dec \in Decisions /\ a.dec.source \in DELIBERATE_SOURCES
    <3>1. a.dec \in Decisions /\ a.dec.source = "interactive-declined"
      BY <1>1, <1>3, <2>1 DEF Decision, Decisions
    <3> QED
      BY <1>3, <2>2, <3>1, ConsentAssumption
  <2> QED
    BY <1>5, <2>2, <2>3 DEF Owed, a
<1>6. CASE ~yes /\ rec[c].policy # "off"
  <2>1. a.dec = [decisionOf(rec[c]) EXCEPT !.pre = IF needsPrerequisite(c) THEN "no" ELSE @]
    BY <1>6 DEF Answered, livePolicyOf
  <2>2. a.policy = rec[c].policy
    BY <1>6 DEF Answered, livePolicyOf
  <2> HIDE DEF pre, a
  <2>3. a.dec \in Decisions
    BY <1>2, <1>6, <2>1 DEF Decisions, decisionOf, Answers
  <2> QED
    BY <1>2, <1>6, <2>2, <2>3 DEF Owed, livePolicyOf, a
<1> QED
  BY <1>4, <1>5, <1>6

\* The answer keeps the invariant.
LEMMA AnswerKeeps ==
    ASSUME ConsentInv, NEW yes \in BOOLEAN, Answer(yes)
    PROVE  ConsentInv'
<1> DEFINE then == cmd.then
           asked == cmd.asked
           policy == [c \in LiveClients |-> IF c \in asked THEN Answered(c, rec[c], yes).policy
                                            ELSE then.policy[c]]
           dec == [c \in LiveClients |-> IF c \in asked THEN Answered(c, rec[c], yes).dec
                                         ELSE then.dec[c]]
           told == [c \in LiveClients |-> IF c \notin asked THEN "nothing"
                                          ELSE IF yes THEN "yes"
                                          ELSE IF rec[c].policy = "off" THEN "no" ELSE "nothing"]
<1>1. /\ UNCHANGED <<rec, grant, svc, word, slip>> /\ installs' \in Nat /\ faults' \in Nat
      /\ cmd.pc = "ask"
      /\ cmd' = Plan("install", then.selected, then.named, then.facts, then.captured, policy,
                     dec, told)
  BY DEF Answer, ConsentInv, ConsentTypeOK
<1>2. cmd.pc \notin Working /\ cmd \in Asking
  BY <1>1, CommandKinds DEF Working, ConsentInv
<1>3. then \in Questions
  BY <1>2 DEF Asking
<1>4. /\ then.selected \in SUBSET LiveClients /\ then.policy \in [LiveClients -> LIVE_POLICIES]
      /\ then.captured \in BOOLEAN /\ then.dec \in [LiveClients -> Decisions]
  BY <1>3 DEF Questions
<1>5. \A c \in LiveClients :
          /\ then.policy[c] = livePolicyOf(rec[c])
          /\ rec[c] # Unrecorded => then.dec[c] = decisionOf(rec[c])
          /\ c \in asked => word[c] # "no"
  BY <1>1 DEF ConsentInv, AskKept
<1> HIDE DEF then, asked
<1>6. /\ policy \in [LiveClients -> LIVE_POLICIES] /\ dec \in [LiveClients -> Decisions]
      /\ told \in [LiveClients -> {"nothing", "yes", "no"}]
  BY <1>4, <1>5, AnswerOwed
<1>7. ASSUME NEW c \in LiveClients
      PROVE  Owed(policy[c], dec[c].source, told[c], rec[c], word[c])
  <2>1. CASE c \in asked
    BY <1>5, <2>1, AnswerOwed
  <2>2. CASE c \notin asked
    <3>1. policy[c] = livePolicyOf(rec[c]) /\ told[c] = "nothing" /\ dec[c] = then.dec[c]
      BY <1>5, <2>2
    <3>2. Agreed(rec[c], word[c])
      BY DEF ConsentInv
    <3> QED
      BY <1>5, <3>1, <3>2 DEF Owed, Agreed
  <2> QED
    BY <2>1, <2>2
<1> HIDE DEF policy, dec, told
<1> QED
  BY <1>1, <1>2, <1>4, <1>6, <1>7, PlanKeeps

(***************************************************************************)
(* Applying.                                                               *)
(***************************************************************************)
\* The clients an open command still has to do, and the one it is at.
LEMMA AtClient ==
    ASSUME ConsentInv, cmd.pc \in Working
    PROVE  /\ cmd \in Plans /\ cmd.ops \in SUBSET LiveClients
           /\ cmd.ops # {} => Client \in cmd.ops
           /\ Client \in LiveClients /\ ((Client = "codex") <=> ("codex" \in cmd.ops))
           /\ Client = "kimi" => "codex" \notin cmd.ops
           /\ \A c \in cmd.ops : /\ cmd.entry[c] \in Written
                                 /\ cmd.told[c] \in {"nothing", "yes", "no"}
           /\ cmd.wrote \in BOOLEAN /\ cmd.loop \in BOOLEAN /\ cmd.act \in {"install", "uninstall"}
<1>1. cmd \in Plans /\ PlanKept(cmd, rec, word)
  BY CommandKinds DEF ConsentInv
<1>2. /\ cmd.ops \in SUBSET LiveClients /\ cmd.wrote \in BOOLEAN /\ cmd.loop \in BOOLEAN
      /\ cmd.act \in {"install", "uninstall"} /\ cmd.entry \in EntryMaps /\ cmd.told \in ToldWords
  BY <1>1 DEF Plans
<1>3. \A c \in DOMAIN cmd.entry : cmd.entry[c] \in Written
  BY <1>2 DEF EntryMaps
<1>4. \A c \in DOMAIN cmd.told : cmd.told[c] \in {"nothing", "yes", "no"}
  BY <1>2 DEF ToldWords
<1>5. cmd.ops \subseteq DOMAIN cmd.entry /\ cmd.ops \subseteq DOMAIN cmd.told
  BY <1>1 DEF PlanKept
<1> QED
  BY <1>1, <1>2, <1>3, <1>4, <1>5 DEF Client, LiveClients

\* A command that goes on to its next client: what it then is.
LEMMA NextClientIs ==
    ASSUME cmd \in Plans, NEW member, NEW d \in Plans,
           /\ d.ops = cmd.ops \ {member} /\ d.pc = "wire"
           /\ d.act = cmd.act /\ d.names = cmd.names /\ d.entry = cmd.entry /\ d.told = cmd.told
           /\ d.loop = cmd.loop /\ d.before = cmd.before /\ d.wrote = cmd.wrote,
           PlanKept(cmd, rec, word), cmd.pc \in Working, cmd.pc = "service" => member = "codex"
    PROVE  AskKept(d, rec, word) /\ PlanKept(d, rec, word)
  BY DEF AskKept, PlanKept, Working

\* The fields of a command after it went on.
LEMMA NextClientFields ==
    ASSUME cmd \in Plans
    PROVE  /\ NextClient \in Plans /\ NextClient.pc = "wire" /\ NextClient.ops = cmd.ops \ {Client}
           /\ NextClient.act = cmd.act /\ NextClient.names = cmd.names
           /\ NextClient.entry = cmd.entry /\ NextClient.told = cmd.told
           /\ NextClient.loop = cmd.loop /\ NextClient.before = cmd.before
           /\ NextClient.wrote = cmd.wrote /\ NextClient.trouble = cmd.trouble
<1> DEFINE member == Client
<1> HIDE DEF member
<1>1. NextClient = [cmd EXCEPT !.pc = "wire", !.ops = cmd.ops \ {member}]
  BY DEF NextClient, Plans, member
<1>2. cmd.ops \ {member} \in SUBSET LiveClients
  BY DEF Plans
<1> QED
  BY <1>1, <1>2 DEF Plans, Working, member

\* The adapter's writes keep the invariant.
LEMMA WireKeeps ==
    ASSUME ConsentInv, Wire
    PROVE  ConsentInv'
<1> DEFINE wrote == cmd.wrote \/ Client = "codex"
<1>1. /\ UNCHANGED <<rec, svc, word, slip, installs, faults>> /\ cmd.pc = "wire" /\ cmd.ops # {}
      /\ cmd' = [cmd EXCEPT !.pc = "record", !.wrote = @ \/ Client = "codex"]
      /\ grant' = IF Client # "codex" THEN grant
                  ELSE IF cmd.act = "install"
                  THEN Granted(cmd.entry["codex"].policy # "off",
                               cmd.entry["codex"].captured, cmd.loop)
                  ELSE IF grant = "custom" THEN grant ELSE "none"
  BY DEF Wire, CommandAt
<1>2. cmd.pc \in Working
  BY <1>1 DEF Working
<1>3. /\ cmd \in Plans /\ Client \in cmd.ops /\ ((Client = "codex") <=> ("codex" \in cmd.ops))
      /\ cmd.wrote \in BOOLEAN /\ cmd.loop \in BOOLEAN /\ cmd.act \in {"install", "uninstall"}
  BY <1>1, <1>2, AtClient
<1>4. /\ PlanKept(cmd, rec, word) /\ LoopKept(cmd, rec) /\ SenderKept(cmd, rec, grant, slip)
      /\ ConsentTypeOK
  BY <1>2 DEF ConsentInv, GrantKept
<1>5. wrote \in BOOLEAN /\ (wrote <=> (cmd.wrote \/ "codex" \in cmd.ops))
  BY <1>3
<1> HIDE DEF wrote
<1>6. cmd' = [cmd EXCEPT !.pc = "record", !.wrote = wrote]
  BY <1>1, <1>3 DEF wrote, Plans
<1>7. /\ cmd' \in Plans /\ cmd'.pc = "record" /\ cmd'.wrote = wrote /\ cmd'.ops = cmd.ops
      /\ cmd'.act = cmd.act /\ cmd'.names = cmd.names /\ cmd'.entry = cmd.entry
      /\ cmd'.told = cmd.told /\ cmd'.loop = cmd.loop /\ cmd'.before = cmd.before
      /\ cmd'.trouble = cmd.trouble
  BY <1>3, <1>5, <1>6 DEF Plans, Working
<1>8. /\ grant' \in {"none", "own", "ownLoop", "custom"}
      /\ Client # "codex" => grant' = grant
      /\ (Client = "codex" /\ cmd.act = "uninstall") =>
             Matches(grant', cmd.loop) /\ ~OwnGrant(grant')
      /\ (Client = "codex" /\ cmd.act = "install") =>
             IF cmd.entry["codex"].captured THEN Matches(grant', cmd.loop) ELSE grant' = grant
  <2>1. grant \in {"none", "own", "ownLoop", "custom"}
    BY <1>4 DEF ConsentTypeOK
  <2> QED
    BY <1>1, <1>3, <2>1 DEF Granted, Matches, OwnGrant
<1>9. AskKept(cmd', rec', word') /\ PlanKept(cmd', rec', word')
  BY <1>1, <1>2, <1>4, <1>7 DEF AskKept, PlanKept, Working
<1>10. LoopKept(cmd', rec')
  BY <1>1, <1>4, <1>7 DEF LoopKept
<1>11. SenderKept(cmd', rec', grant', slip')
  <2>1. CASE "codex" \in cmd.ops
    <3>1. ~cmd.wrote /\ cmd'.wrote /\ cmd.names /\ Client = "codex"
      BY <1>1, <1>3, <1>4, <1>5, <1>7, <2>1 DEF SenderKept, LoopKept
    <3>2. ~slip => UpToDate(grant, cmd.before, rec)
      BY <1>4, <3>1 DEF SenderKept, Renewed
    <3>3. Renewed(cmd') <=> (cmd.act = "uninstall" \/ cmd.entry["codex"].captured)
      BY <1>7, <3>1 DEF Renewed
    <3>4. (~Renewed(cmd') /\ ~slip') => UpToDate(grant', cmd'.before, rec')
      <4>1. ~Renewed(cmd') => grant' = grant
        BY <1>3, <1>8, <3>1, <3>3
      <4> QED
        BY <1>1, <1>7, <3>2, <4>1
    <3>5. Renewed(cmd') => Matches(grant', cmd'.loop)
      BY <1>3, <1>7, <1>8, <3>1, <3>3
    <3>6. cmd'.act = "uninstall" => ~OwnGrant(grant')
      BY <1>7, <1>8, <3>1
    <3> QED
      BY <1>7, <2>1, <3>1, <3>4, <3>5, <3>6 DEF SenderKept
  <2>2. CASE "codex" \notin cmd.ops
    BY <1>1, <1>3, <1>4, <1>5, <1>7, <1>8, <2>2 DEF SenderKept, Renewed
  <2> QED
    BY <2>1, <2>2
<1>12. GrantKept(cmd', rec', grant', slip')
  BY <1>7, <1>10, <1>11 DEF GrantKept, Working
<1>13. ConsentTypeOK'
  BY <1>1, <1>4, <1>7, <1>8 DEF ConsentTypeOK
<1> QED
  BY <1>1, <1>9, <1>12, <1>13 DEF ConsentInv

\* Recording a client keeps the invariant.
LEMMA RecordKeeps ==
    ASSUME ConsentInv, Record
    PROVE  ConsentInv'
<1> DEFINE c == Client
           new == IF cmd.act = "uninstall" THEN Unrecorded ELSE cmd.entry[c]
           said == IF cmd.act = "uninstall" THEN "none"
                   ELSE IF cmd.told[c] # "nothing" THEN cmd.told[c] ELSE word[c]
           stays == c = "codex" /\ cmd.act = "install"
<1>1. /\ UNCHANGED <<grant, svc, slip, installs, faults>> /\ cmd.pc = "record" /\ cmd.ops # {}
      /\ rec' = [rec EXCEPT ![c] = new]
      /\ word' = [word EXCEPT ![c] = IF cmd.act = "uninstall" THEN "none"
                                     ELSE IF cmd.told[c] # "nothing" THEN cmd.told[c] ELSE @]
      /\ cmd' = IF stays THEN [cmd EXCEPT !.pc = "service"] ELSE NextClient
  BY DEF Record, CommandAt
<1>2. cmd.pc \in Working /\ ConsentTypeOK
  BY <1>1 DEF Working, ConsentInv
<1>3. /\ cmd \in Plans /\ c \in cmd.ops /\ c \in LiveClients /\ cmd.ops \in SUBSET LiveClients
      /\ ((c = "codex") <=> ("codex" \in cmd.ops)) /\ c \in {"codex", "kimi"}
      /\ cmd.entry[c] \in Written /\ cmd.told[c] \in {"nothing", "yes", "no"}
      /\ cmd.act \in {"install", "uninstall"}
  BY <1>1, <1>2, AtClient DEF LiveClients
<1>4. /\ PlanKept(cmd, rec, word) /\ LoopKept(cmd, rec) /\ SenderKept(cmd, rec, grant, slip)
      /\ Agreed(rec[c], word[c])
  BY <1>2, <1>3 DEF ConsentInv, GrantKept
<1>5. /\ rec' \in [LiveClients -> {Unrecorded} \cup Written] /\ rec'[c] = new
      /\ \A x \in LiveClients : x # c => rec'[x] = rec[x]
  BY <1>1, <1>2, <1>3 DEF ConsentTypeOK
<1>6. /\ word' \in [LiveClients -> {"none", "yes", "no"}] /\ word'[c] = said
      /\ \A x \in LiveClients : x # c => word'[x] = word[x]
  BY <1>1, <1>2, <1>3 DEF ConsentTypeOK
<1>7. Agreed(new, said)
  <2>1. CASE cmd.act = "uninstall"
    BY <2>1 DEF Agreed, Unrecorded, livePolicyOf
  <2>2. CASE cmd.act = "install"
    <3>1. Owed(cmd.entry[c].policy, cmd.entry[c].dec.source, cmd.told[c], rec[c], word[c])
      BY <1>1, <1>2, <1>3, <1>4, <2>2 DEF PlanKept
    <3>2. new = cmd.entry[c] /\ new # Unrecorded
      BY <1>3, <2>2, UnrecordedApart
    <3> QED
      BY <1>3, <1>4, <2>2, <3>1, <3>2 DEF Agreed, Owed, livePolicyOf, decisionOf
  <2> QED
    BY <1>3, <2>1, <2>2
<1>8. \A x \in LiveClients : Agreed(rec'[x], word'[x])
  BY <1>5, <1>6, <1>7 DEF ConsentInv
<1>9. /\ cmd' \in Plans /\ cmd'.pc = (IF stays THEN "service" ELSE "wire")
      /\ cmd'.ops = (IF stays THEN cmd.ops ELSE cmd.ops \ {c})
      /\ cmd'.act = cmd.act /\ cmd'.names = cmd.names /\ cmd'.entry = cmd.entry
      /\ cmd'.told = cmd.told /\ cmd'.loop = cmd.loop /\ cmd'.before = cmd.before
      /\ cmd'.wrote = cmd.wrote /\ cmd'.trouble = cmd.trouble
  <2>1. CASE stays
    BY <1>1, <1>3, <2>1 DEF Plans, Working
  <2>2. CASE ~stays
    BY <1>1, <1>3, <2>2, NextClientFields
  <2> QED
    BY <2>1, <2>2
<1>10. /\ new \in {Unrecorded, cmd.entry[c]} /\ (cmd.act = "install" => new = cmd.entry[c])
       /\ cmd.act = "install" => new # Unrecorded
       /\ (stays <=> (c = "codex" /\ cmd.act = "install")) /\ stays \in BOOLEAN
  BY <1>3, UnrecordedApart
<1>11. c = "kimi" => (Activated(new) # "off" <=> cmd.loop)
  <2>1. cmd.act = "uninstall" => cmd.entry[c].policy = "off"
    BY <1>2, <1>3, <1>4 DEF PlanKept
  <2>2. c = "kimi" => (cmd.loop <=> Activated(cmd.entry[c]) # "off")
    BY <1>3, <1>4 DEF LoopKept
  <2>3. Activated(Unrecorded) = "off"
    BY DEF Activated, livePolicyOf, Unrecorded
  <2>4. cmd.act = "uninstall" => Activated(cmd.entry[c]) = "off"
    BY <2>1 DEF Activated, livePolicyOf
  <2>5. Activated(new) = Activated(cmd.entry[c])
    BY <1>3, <2>3, <2>4
  <2> HIDE DEF c, new
  <2> QED
    BY <2>2, <2>5
<1> HIDE DEF c, new, said, stays
<1>12. AskKept(cmd', rec', word')
  BY <1>9 DEF AskKept
<1>13. PlanKept(cmd', rec', word')
  <2>1. cmd'.ops \subseteq cmd.ops /\ cmd.ops \subseteq LiveClients
    BY <1>3, <1>9
  <2>2. cmd'.ops \subseteq DOMAIN cmd'.entry /\ cmd'.ops \subseteq DOMAIN cmd'.told
    BY <1>2, <1>4, <1>9, <2>1 DEF PlanKept
  <2>3. ASSUME cmd.act = "install", NEW x \in cmd'.ops, ~(cmd'.pc = "service" /\ x = "codex")
        PROVE  Owed(cmd'.entry[x].policy, cmd'.entry[x].dec.source, cmd'.told[x],
                    rec'[x], word'[x])
    <3>1. x # c /\ x \in cmd.ops /\ x \in LiveClients
      BY <1>3, <1>9, <1>10, <2>1, <2>3
    <3>2. rec'[x] = rec[x] /\ word'[x] = word[x]
      BY <1>5, <1>6, <3>1
    <3>3. Owed(cmd.entry[x].policy, cmd.entry[x].dec.source, cmd.told[x], rec[x], word[x])
      BY <1>1, <1>2, <1>4, <2>3, <3>1 DEF PlanKept
    <3> QED
      BY <1>9, <3>2, <3>3
  <2>4. cmd.act = "uninstall" => \A x \in cmd'.ops : cmd'.entry[x].policy = "off"
    BY <1>2, <1>4, <1>9, <2>1 DEF PlanKept
  <2>5. cmd'.pc = "service" => /\ "codex" \in cmd'.ops /\ cmd'.act = "install"
                               /\ rec'["codex"] = cmd'.entry["codex"]
    BY <1>3, <1>5, <1>9, <1>10
  <2> QED
    BY <1>9, <2>2, <2>3, <2>4, <2>5 DEF PlanKept
<1>14. LoopKept(cmd', rec')
  <2>1. CASE c = "kimi"
    BY <1>3, <1>4, <1>5, <1>9, <1>10, <1>11, <2>1 DEF LoopKept, Listening
  <2>2. CASE c = "codex"
    BY <1>3, <1>4, <1>5, <1>9, <1>10, <2>2 DEF LoopKept, Listening, LiveClients
  <2> QED
    BY <1>3, <2>1, <2>2
<1>15. SenderKept(cmd', rec', grant', slip')
  <2>1. CASE c = "kimi"
    <3>1. rec'["codex"] = rec["codex"] /\ "codex" \notin cmd.ops /\ ~stays
      BY <1>3, <1>5, <1>10, <2>1 DEF LiveClients
    <3> QED
      BY <1>1, <1>4, <1>9, <3>1 DEF SenderKept, Renewed, UpToDate
  <2>2. CASE c = "codex"
    <3>1. cmd.wrote /\ "codex" \in cmd.ops
      BY <1>1, <1>3, <1>4, <2>2 DEF SenderKept
    <3> QED
      <4>1. CASE cmd.act = "install"
        <5>1. /\ stays /\ cmd'.pc = "service" /\ cmd'.ops = cmd.ops
              /\ rec'["codex"] # Unrecorded /\ rec'["codex"] = cmd'.entry["codex"]
          BY <1>5, <1>9, <1>10, <2>2, <4>1
        <5> QED
          BY <1>1, <1>4, <1>9, <3>1, <4>1, <5>1 DEF SenderKept, Renewed, UpToDate
      <4>2. CASE cmd.act = "uninstall"
        <5>1. cmd'.pc = "wire" /\ "codex" \notin cmd'.ops
          BY <1>9, <1>10, <2>2, <4>2
        <5> QED
          BY <1>1, <1>4, <1>9, <3>1, <4>2, <5>1 DEF SenderKept, Renewed
      <4> QED
        BY <1>3, <4>1, <4>2
  <2> QED
    BY <1>3, <2>1, <2>2
<1>16. GrantKept(cmd', rec', grant', slip')
  BY <1>9, <1>14, <1>15 DEF GrantKept, Working
<1>17. ConsentTypeOK'
  BY <1>1, <1>2, <1>5, <1>6, <1>9 DEF ConsentTypeOK
<1> QED
  BY <1>8, <1>12, <1>13, <1>16, <1>17 DEF ConsentInv

\* Preparing the service keeps the invariant, whether it starts or not.
LEMMA ServiceKeeps ==
    ASSUME ConsentInv, Service
    PROVE  ConsentInv'
<1>1. /\ UNCHANGED <<rec, grant, word, slip, installs, faults>> /\ cmd.pc = "service"
      /\ cmd' = NextClient /\ svc' \in {svc, "bare", "stopped", "running"}
  BY DEF Service, CommandAt
<1>2. cmd.pc \in Working
  BY <1>1 DEF Working
<1>3. /\ PlanKept(cmd, rec, word) /\ LoopKept(cmd, rec) /\ SenderKept(cmd, rec, grant, slip)
      /\ ConsentTypeOK /\ cmd \in Plans
  BY <1>2, CommandKinds DEF ConsentInv, GrantKept
<1>4. /\ "codex" \in cmd.ops /\ cmd.act = "install" /\ rec["codex"] = cmd.entry["codex"]
      /\ Client = "codex"
  BY <1>1, <1>2, <1>3 DEF PlanKept, Client
<1>5. /\ cmd' \in Plans /\ cmd'.pc = "wire" /\ cmd'.ops = cmd.ops \ {"codex"}
      /\ cmd'.act = cmd.act /\ cmd'.names = cmd.names
      /\ cmd'.entry = cmd.entry /\ cmd'.told = cmd.told
      /\ cmd'.loop = cmd.loop /\ cmd'.before = cmd.before
      /\ cmd'.wrote = cmd.wrote /\ cmd'.trouble = cmd.trouble
  BY <1>1, <1>3, <1>4, NextClientFields
<1>6. AskKept(cmd', rec, word) /\ PlanKept(cmd', rec, word)
  BY <1>2, <1>3, <1>5, NextClientIs
<1>7. LoopKept(cmd', rec)
  BY <1>3, <1>5 DEF LoopKept
<1>8. SenderKept(cmd', rec, grant, slip)
  BY <1>1, <1>3, <1>4, <1>5 DEF SenderKept, Renewed
<1>9. GrantKept(cmd', rec', grant', slip')
  BY <1>1, <1>5, <1>7, <1>8 DEF GrantKept, Working
<1>10. ConsentTypeOK'
  BY <1>1, <1>3, <1>5 DEF ConsentTypeOK, Services
<1> QED
  BY <1>1, <1>6, <1>9, <1>10 DEF ConsentInv

\* A client that cannot be written keeps the invariant.
LEMMA ClientFailsKeeps ==
    ASSUME ConsentInv, ClientFails
    PROVE  ConsentInv'
<1>1. /\ UNCHANGED <<rec, grant, svc, word, slip, installs>> /\ cmd.pc = "wire" /\ cmd.ops # {}
      /\ cmd' = [NextClient EXCEPT !.trouble = TRUE] /\ faults' = faults + 1
  BY DEF ClientFails, CommandAt, Fault
<1>2. cmd.pc \in Working
  BY <1>1 DEF Working
<1>3. /\ PlanKept(cmd, rec, word) /\ LoopKept(cmd, rec) /\ SenderKept(cmd, rec, grant, slip)
      /\ ConsentTypeOK /\ cmd \in Plans
  BY <1>2, CommandKinds DEF ConsentInv, GrantKept
<1>4. /\ NextClient \in Plans /\ NextClient.pc = "wire" /\ NextClient.ops = cmd.ops \ {Client}
      /\ NextClient.act = cmd.act /\ NextClient.names = cmd.names
      /\ NextClient.entry = cmd.entry /\ NextClient.told = cmd.told
      /\ NextClient.loop = cmd.loop /\ NextClient.before = cmd.before
      /\ NextClient.wrote = cmd.wrote
  BY <1>3, NextClientFields
<1>5. /\ cmd' \in Plans /\ cmd'.pc = "wire" /\ cmd'.ops = cmd.ops \ {Client}
      /\ cmd'.act = cmd.act /\ cmd'.names = cmd.names
      /\ cmd'.entry = cmd.entry /\ cmd'.told = cmd.told
      /\ cmd'.loop = cmd.loop /\ cmd'.before = cmd.before
      /\ cmd'.wrote = cmd.wrote /\ cmd'.trouble = TRUE
  BY <1>1, <1>4 DEF Plans
<1>6. AskKept(cmd', rec, word) /\ PlanKept(cmd', rec, word)
  BY <1>1, <1>2, <1>3, <1>5, NextClientIs
<1>7. LoopKept(cmd', rec)
  BY <1>3, <1>5 DEF LoopKept
<1>8. SenderKept(cmd', rec, grant, slip)
  BY <1>1, <1>3, <1>5 DEF SenderKept, Renewed
<1>9. GrantKept(cmd', rec', grant', slip')
  BY <1>1, <1>5, <1>7, <1>8 DEF GrantKept, Working
<1>10. CommandKept'
  BY <1>1, <1>5, <1>6, <1>9 DEF CommandKept
<1>11. installs' \in Nat /\ faults' \in Nat
  BY <1>1, <1>3 DEF ConsentTypeOK
<1> QED
  BY <1>1, <1>10, <1>11, OnlyCommand

\* A command that is over keeps the invariant when it leaves its grants so, or
\* the slip is known.
LEMMA OverKeeps ==
    ASSUME ConsentInv, UNCHANGED <<rec, svc, word>>, installs' \in Nat, faults' \in Nat,
           cmd' = NoCommand, grant' \in {"none", "own", "ownLoop", "custom"}, slip' \in BOOLEAN,
           ~slip' => UpToDate(grant', Listening(rec), rec)
    PROVE  ConsentInv'
<1>1. cmd'.pc = "idle"
  BY DEF NoCommand
<1>2. AskKept(cmd', rec', word') /\ PlanKept(cmd', rec', word')
  BY <1>1 DEF AskKept, PlanKept, Working
<1>3. GrantKept(cmd', rec', grant', slip')
  BY <1>1 DEF GrantKept, Working
<1>4. ConsentTypeOK'
  BY DEF ConsentInv, ConsentTypeOK
<1> QED
  BY <1>2, <1>3, <1>4 DEF ConsentInv

\* The end of a command keeps the invariant: a sender outside the run follows
\* the receivers, and one that was named follows them as planned.
LEMMA FinishCommandKeeps ==
    ASSUME ConsentInv, FinishCommand
    PROVE  ConsentInv'
<1>1. /\ UNCHANGED <<rec, svc, word, installs, faults>> /\ cmd.pc = "wire" /\ cmd.ops = {}
      /\ grant' = Refreshed /\ cmd' = NoCommand
      /\ slip' = IF cmd.trouble \/ Overlooked \/ LeftAsItWas THEN TRUE
                 ELSE IF cmd.wrote /\ ~Uncaptured THEN FALSE ELSE slip
  BY DEF FinishCommand, Finished
<1>2. cmd.pc \in Working
  BY <1>1 DEF Working
<1>3. /\ LoopKept(cmd, rec) /\ SenderKept(cmd, rec, grant, slip) /\ ConsentTypeOK /\ cmd \in Plans
  BY <1>2, CommandKinds DEF ConsentInv, GrantKept
<1>4. /\ cmd.wrote \in BOOLEAN /\ cmd.trouble \in BOOLEAN /\ cmd.names \in BOOLEAN
      /\ cmd.before \in BOOLEAN /\ cmd.loop \in BOOLEAN /\ cmd.act \in {"install", "uninstall"}
  BY <1>3 DEF Plans
<1>5. /\ grant \in {"none", "own", "ownLoop", "custom"} /\ slip \in BOOLEAN
      /\ installs \in Nat /\ faults \in Nat
  BY <1>3 DEF ConsentTypeOK
<1>6. LoopbackLeft \in BOOLEAN /\ (LoopbackLeft <=> Listening(rec))
  BY LoopbackIs DEF LoopbackLeft, Loopback
<1>7. /\ grant' = grant \/ (OwnGrant(grant) /\ grant' = IF Listening(rec) THEN "ownLoop" ELSE "own")
      /\ (LoopbackLeft = cmd.before \/ cmd.names) => grant' = grant
      /\ rec["codex"] = Unrecorded => grant' = grant
      /\ (LoopbackLeft # cmd.before /\ rec["codex"] # Unrecorded /\ ~Uncaptured
          /\ ~cmd.names /\ OwnGrant(grant)) =>
             Matches(grant', Listening(rec)) /\ OwnGrant(grant')
  BY <1>1, <1>5, <1>6 DEF Refreshed, Granted, OwnGrant, Matches, Uncaptured
<1>8. grant' \in {"none", "own", "ownLoop", "custom"} /\ slip' \in BOOLEAN
  BY <1>1, <1>5, <1>7
<1>9. ~slip' => UpToDate(grant', Listening(rec), rec)
  <2> SUFFICES ASSUME ~slip' PROVE UpToDate(grant', Listening(rec), rec)
    OBVIOUS
  <2>1. ~cmd.trouble /\ ~Overlooked /\ ~LeftAsItWas /\ ((cmd.wrote /\ ~Uncaptured) \/ ~slip)
    BY <1>1, <1>4, <1>5
  <2>2. cmd.loop <=> Listening(rec)
    BY <1>1, <1>3, <2>1 DEF LoopKept
  <2>3. CASE cmd.wrote
    <3>1. /\ cmd.names /\ (cmd.act = "uninstall" => ~OwnGrant(grant))
          /\ cmd.act = "install" => rec["codex"] # Unrecorded /\ rec["codex"] = cmd.entry["codex"]
      BY <1>1, <1>3, <2>3 DEF SenderKept
    <3>2. grant' = grant
      BY <1>7, <3>1
    <3>3. CASE Renewed(cmd)
      <4>1. Matches(grant, cmd.loop)
        BY <1>3, <3>3 DEF SenderKept
      <4> QED
        BY <1>4, <2>2, <3>1, <3>2, <4>1 DEF UpToDate, Matches
    <3>4. CASE ~Renewed(cmd)
      <4>1. cmd.act = "install" /\ ~rec["codex"].captured
        BY <1>4, <2>3, <3>1, <3>4 DEF Renewed
      <4>2. Uncaptured
        BY <3>1, <4>1 DEF Uncaptured
      <4>3. UpToDate(grant, cmd.before, rec)
        BY <1>3, <2>1, <3>4, <4>2 DEF SenderKept
      <4>4. LoopbackLeft = cmd.before \/ ~OwnGrant(grant)
        BY <2>1, <4>2 DEF LeftAsItWas, OwnGrant
      <4> QED
        BY <1>4, <1>6, <3>2, <4>3, <4>4 DEF UpToDate, Matches, OwnGrant
    <3> QED
      BY <3>3, <3>4
  <2>4. CASE ~cmd.wrote
    <3>1. UpToDate(grant, cmd.before, rec)
      BY <1>3, <2>1, <2>4 DEF SenderKept, Renewed
    <3>2. CASE LoopbackLeft = cmd.before
      BY <1>6, <1>7, <3>1, <3>2 DEF UpToDate, Matches
    <3>3. CASE LoopbackLeft # cmd.before
      <4>1. ~cmd.names
        BY <2>1, <2>4, <3>3 DEF Overlooked
      <4>2. CASE OwnGrant(grant)
        <5>1. ~Uncaptured
          BY <2>1, <3>3, <4>2 DEF LeftAsItWas, OwnGrant
        <5> QED
          BY <1>7, <3>1, <3>3, <4>1, <4>2, <5>1 DEF UpToDate
      <4>3. CASE ~OwnGrant(grant)
        BY <1>7, <4>3 DEF UpToDate, Matches, OwnGrant
      <4> QED
        BY <4>2, <4>3
    <3> QED
      BY <3>2, <3>3
  <2> QED
    BY <1>4, <2>3, <2>4
<1> QED
  BY <1>1, <1>5, <1>8, <1>9, OverKeeps

\* A sender that cannot be refreshed, and a command that is killed, keep it.
LEMMA CutKeeps ==
    ASSUME ConsentInv, RefreshFails \/ Kill
    PROVE  ConsentInv'
<1>1. /\ UNCHANGED <<rec, grant, svc, word, installs>> /\ faults' = faults + 1
      /\ cmd' = NoCommand
  BY DEF RefreshFails, Kill, Fault
<1>2. /\ ConsentTypeOK /\ slip \in BOOLEAN /\ grant \in {"none", "own", "ownLoop", "custom"}
      /\ installs' \in Nat /\ faults' \in Nat
  BY <1>1 DEF ConsentInv, ConsentTypeOK
<1>3. slip' \in BOOLEAN
  BY <1>2 DEF RefreshFails, Kill
<1>4. ~slip' => ~slip /\ cmd.pc = "ask"
  BY <1>2 DEF RefreshFails, Kill
<1>5. ~slip' => UpToDate(grant', Listening(rec), rec)
  BY <1>1, <1>4 DEF ConsentInv, GrantKept, Working
<1> QED
  BY <1>1, <1>2, <1>3, <1>5, OverKeeps

\* The user's edits of the profile keep it.
LEMMA EditProfileKeeps ==
    ASSUME ConsentInv, EditProfile
    PROVE  ConsentInv'
<1>1. /\ UNCHANGED <<rec, svc, cmd, word, slip, installs, faults>> /\ cmd = NoCommand
      /\ grant' \in {"none", "custom"}
  BY DEF EditProfile
<1>2. slip \in BOOLEAN /\ installs \in Nat /\ faults \in Nat
  BY DEF ConsentInv, ConsentTypeOK
<1>3. UpToDate(grant', Listening(rec), rec)
  BY <1>1 DEF UpToDate, Matches, OwnGrant
<1> QED
  BY <1>1, <1>2, <1>3, OverKeeps

\* The service's own changes keep it.
LEMMA ServiceChangesKeeps ==
    ASSUME ConsentInv, ServiceChanges
    PROVE  ConsentInv'
<1>1. /\ UNCHANGED <<rec, grant, cmd, word, slip, installs, faults>>
  BY DEF ServiceChanges
<1>2. svc' \in Services
  BY DEF ConsentInv, ConsentTypeOK, Services, ServiceChanges
<1>3. ConsentTypeOK'
  BY <1>1, <1>2 DEF ConsentInv, ConsentTypeOK
<1> QED
  BY <1>1, <1>3 DEF ConsentInv

(***************************************************************************)
(* The theorems.                                                           *)
(***************************************************************************)
\* The invariant holds when the installer is first run.
LEMMA ConsentInitHolds == ConsentInit => ConsentInv
<1> SUFFICES ASSUME ConsentInit PROVE ConsentInv
  OBVIOUS
<1>1. /\ cmd.pc = "idle" /\ cmd = NoCommand
      /\ slip = FALSE /\ svc \in Services /\ installs = 0 /\ faults = 0
  BY DEF ConsentInit, NoCommand, Services
<1>2. LegacyRecords \subseteq Written
  BY DecisionTypes DEF LegacyRecords, Written
<1>3. rec \in [LiveClients -> {Unrecorded} \cup Written]
  BY <1>2 DEF ConsentInit
<1>4. /\ \A c \in LiveClients : rec[c] \in {Unrecorded} \cup LegacyRecords
      /\ \A c \in LiveClients : word[c] = IF rec[c].policy = "off" THEN "none" ELSE "yes"
      /\ word \in [LiveClients -> {"none", "yes", "no"}]
  BY DEF ConsentInit
<1>5. \A c \in LiveClients : Activated(rec[c]) = rec[c].act /\ rec[c].act = rec[c].policy
  BY <1>4 DEF Activated, livePolicyOf, Unrecorded, LegacyRecords
<1>6. \A c \in LiveClients : Agreed(rec[c], word[c])
  BY <1>4 DEF Agreed, livePolicyOf
<1>7. grant = IF rec["codex"].policy = "off" \/ ~rec["codex"].captured THEN "none"
              ELSE IF rec["kimi"].act # "off" THEN "ownLoop" ELSE "own"
  BY DEF ConsentInit
<1>8. UpToDate(grant, Listening(rec), rec)
  <2>1. Listening(rec) <=> rec["kimi"].act # "off"
    BY <1>5 DEF Listening, LiveClients
  <2>2. Unrecorded.policy = "off"
    BY DEF Unrecorded
  <2> QED
    BY <1>7, <2>1, <2>2 DEF UpToDate, Matches, OwnGrant
<1>9. ConsentTypeOK
  BY <1>1, <1>3, <1>4, <1>7 DEF ConsentTypeOK
<1>10. /\ AskKept(cmd, rec, word) /\ PlanKept(cmd, rec, word) /\ GrantKept(cmd, rec, grant, slip)
  BY <1>1, <1>8 DEF AskKept, PlanKept, GrantKept, Working
<1> QED
  BY <1>6, <1>9, <1>10 DEF ConsentInv

\* Every step of the installer keeps it.
LEMMA ConsentNextKeeps == ConsentInv /\ [ConsentNext]_dvars => ConsentInv'
<1> SUFFICES ASSUME ConsentInv, [ConsentNext]_dvars PROVE ConsentInv'
  OBVIOUS
<1>1. CASE UNCHANGED dvars
  BY <1>1 DEF dvars, ConsentInv, ConsentTypeOK
<1>2. ASSUME NEW selected \in {{"codex"}, {"kimi"}, LiveClients},
             NEW facts \in [LiveClients -> Facts("codex") \cup Facts("kimi")],
             NEW explicit \in {"none"} \cup LIVE_POLICIES, NEW interactive \in BOOLEAN,
             NEW captured \in BOOLEAN,
             InstallClients(selected, selected # LiveClients, facts, captured, explicit,
                            interactive)
      PROVE  ConsentInv'
  <2>1. selected \in SUBSET LiveClients
    BY DEF LiveClients
  <2>2. (selected # LiveClients) \in BOOLEAN
    OBVIOUS
  <2>3. facts \in [LiveClients -> FactNames]
    BY FactsKnown
  <2> QED
    BY <1>2, <2>1, <2>2, <2>3, InstallKeeps
<1>3. ASSUME NEW selected \in {{"codex"}, {"kimi"}, LiveClients},
             NEW facts \in [LiveClients -> Facts("codex") \cup Facts("kimi")],
             UninstallClients(selected, selected # LiveClients, facts)
      PROVE  ConsentInv'
  <2>1. selected \in SUBSET LiveClients
    BY DEF LiveClients
  <2> QED
    BY <1>3, <2>1, UninstallClientsKeeps
<1>4. CASE \E yes \in BOOLEAN : Answer(yes)
  BY <1>4, AnswerKeeps
<1>5. CASE Wire \/ Record \/ Service
  BY <1>5, WireKeeps, RecordKeeps, ServiceKeeps
<1>6. CASE ClientFails \/ FinishCommand \/ RefreshFails \/ Kill
  BY <1>6, ClientFailsKeeps, FinishCommandKeeps, CutKeeps
<1>7. CASE EditProfile \/ ServiceChanges
  BY <1>7, EditProfileKeeps, ServiceChangesKeeps
<1> QED
  BY <1>1, <1>2, <1>3, <1>4, <1>5, <1>6, <1>7 DEF ConsentNext

\* The inductive invariant of acc install and acc uninstall.
THEOREM ConsentInvariant == ConsentSpec => []ConsentInv
  BY ConsentInitHolds, ConsentNextKeeps, PTL DEF ConsentSpec

\* The installer's state stays well typed.
THEOREM ConsentTypeCorrect == ConsentSpec => []ConsentTypeOK
<1>1. ConsentInv => ConsentTypeOK
  BY DEF ConsentInv
<1> QED
  BY <1>1, ConsentInvariant, PTL

\* For any set of live policies and any number of commands and failures: live
\* delivery runs for a client only after the user's yes, a recorded no is not
\* asked about again, and the sender's loopback grant follows the receiver, but
\* for what GrantsFollow names: a client that failed or was passed over, a command
\* cut short, and a Codex recorded with a version whose profile is not rewritten.
THEOREM ConsentStands == ConsentSpec => []ConsentHolds
<1>1. ConsentInv => ConsentHolds
  <2> SUFFICES ASSUME ConsentInv PROVE ConsentHolds
    OBVIOUS
  <2>1. \A c \in LiveClients : Activated(rec[c]) # "off" => word[c] = "yes"
    BY DEF ConsentInv, Agreed, Activated, livePolicyOf
  <2>2. cmd.pc = "ask" => \A c \in cmd.asked : word[c] # "no"
    <3> SUFFICES ASSUME cmd.pc = "ask", NEW c \in cmd.asked PROVE word[c] # "no"
      OBVIOUS
    <3>1. cmd \in Asking
      BY CommandKinds DEF ConsentInv
    <3>2. c \in LiveClients
      BY <3>1 DEF Asking
    <3> QED
      BY <3>2 DEF ConsentInv, AskKept
  <2>3. GrantsFollow
    <3> SUFFICES ASSUME cmd = NoCommand, ~slip PROVE Matches(grant, Listening(rec))
      BY LoopbackIs DEF GrantsFollow, Matches
    <3> QED
      BY DEF ConsentInv, GrantKept, NoCommand, Working, UpToDate
  <2> QED
    BY <2>1, <2>2, <2>3 DEF ConsentHolds, LiveByConsent
<1> QED
  BY <1>1, ConsentInvariant, PTL

\* A vendor's package is downloaded only once the user's yes to live delivery
\* and to the download are on record: applyServiceSetup runs on an entry that
\* was recorded just before.
THEOREM DownloadConsented == ConsentSpec => DownloadByConsent
<1>1. ConsentInv /\ [ConsentNext]_dvars =>
        [(svc = "bare" /\ svc' # "bare" /\ cmd # cmd') =>
           /\ word["codex"] = "yes"
           /\ rec["codex"].dec.pre = "yes"]_dvars
  <2> SUFFICES ASSUME ConsentInv, ConsentNext, svc = "bare", svc' # "bare", cmd # cmd'
               PROVE  word["codex"] = "yes" /\ rec["codex"].dec.pre = "yes"
    OBVIOUS
  <2>1. Service
    <3>1. ASSUME NEW selected, NEW named, NEW facts, NEW captured, NEW explicit,
                 NEW interactive,
                 \/ InstallClients(selected, named, facts, captured, explicit, interactive)
                 \/ UninstallClients(selected, named, facts)
          PROVE  svc' = svc
      BY <3>1 DEF InstallClients, UninstallClients, BeginCommand
    <3>2. Wire \/ Record \/ ClientFails \/ FinishCommand \/ RefreshFails => svc' = svc
      BY DEF Wire, Record, ClientFails, FinishCommand, RefreshFails
    <3>3. Kill \/ EditProfile \/ (\E yes \in BOOLEAN : Answer(yes)) => svc' = svc
      BY DEF Kill, EditProfile, Answer
    <3>4. ServiceChanges => cmd' = cmd
      BY DEF ServiceChanges
    <3> QED
      BY <3>1, <3>2, <3>3, <3>4 DEF ConsentNext
  <2>2. ServiceWanted /\ PrerequisiteAgreed /\ cmd.pc = "service"
    BY <2>1 DEF Service, CommandAt
  <2>3. rec["codex"] = cmd.entry["codex"] /\ "codex" \in LiveClients
    BY <2>2 DEF ConsentInv, PlanKept, Working, LiveClients
  <2> QED
    BY <2>2, <2>3 DEF ConsentInv, Agreed, ServiceWanted, PrerequisiteAgreed, livePolicyOf
<1> QED
  BY <1>1, ConsentInvariant, PTL DEF ConsentSpec, DownloadByConsent
-------------------------------------------------------------------------------
(***************************************************************************)
(* What one adapter writes and takes back: programs of steps.              *)
(***************************************************************************)
Rules == {"settings", "desktop"}
StepNames == {"clear", "fill", "enter", "mark", "claim", "rule", "save", "set", "restore",
              "forget", "own", "leave", "reap", "empty", "withdraw", "unclaim", "drop",
              "rmdir"}
StepPlaces == {"shim", "market", "cache", "plugin", "rules", "hooks", "skill", "manifest",
               "settings", "desktop", "known", "installed", "config", "registry", "status",
               "all"}
WiringSteps == StepNames \X StepPlaces

\* The steps that announce another one, and what they announce.
Opens(x) == \/ x[1] \in {"claim", "withdraw", "save", "restore"}
            \/ x[1] = "leave" /\ x[2] = "hooks"
Follows(y, x) == /\ y[2] = x[2]
                 /\ x[1] = "claim" => y[1] = "rule"
                 /\ x[1] = "withdraw" => y[1] = "unclaim"
                 /\ x[1] = "save" => y[1] = "set"
                 /\ x[1] = "restore" => y[1] = "forget"
                 /\ x[1] = "leave" => y[1] = "reap"
Closes(x) == \/ x[1] \in {"rule", "unclaim", "set", "forget"}
             \/ x[1] = "reap" /\ x[2] = "hooks"

\* What is announced follows at once, and nothing else is of its kind.
Coupled(t) ==
  /\ t \in Seq(WiringSteps)
  /\ \A i \in 1 .. Len(t) : Opens(t[i]) => i < Len(t) /\ Follows(t[i + 1], t[i])
  /\ \A i \in 2 .. Len(t) : Closes(t[i]) => Opens(t[i - 1])

\* No file with a rule for Antigravity is reaped.
Unreaped(c, t) ==
  c = "antigravity" => \A i \in 1 .. Len(t) : t[i][1] = "reap" => t[i][2] \notin Rules

\* A program from its beginning.
Program(c, t) == Coupled(t) /\ Unreaped(c, t) /\ (1 <= Len(t) => ~Closes(t[1]))

(***************************************************************************)
(* The inductive invariant of an adapter's commands.                       *)
(***************************************************************************)
Jobs == [act : {"install", "uninstall"}, todo : Seq(WiringSteps), ver : 1 .. 2,
         makes : BOOLEAN, fresh : SUBSET StepPlaces, made : SUBSET StepPlaces,
         keep : SUBSET StepPlaces]

\* What an adapter's state is made of.
WiringTyped ==
  /\ client \in Adapters
  /\ content = [p \in WiredPlaces |-> content[p]]
  /\ status \in {"none", "user", "acc"} /\ last \in {"none", "user"}
  /\ saved \in {"absent", "none", "user"}
  /\ job \in {Idle} \cup Jobs

\* A rule ACC added is claimed; another is the user's.
RulesKnown(c, f, m, u) ==
  c = "antigravity" => \A p \in Rules : "rule" \in f[p] => p \in m \cup u

\* The status line: the user's own, or ACC's with the user's own beside it.
LineKnown(shown, kept, own) ==
  /\ shown = "acc" => kept = own
  /\ shown # "acc" => shown = own

\* What the step that was announced relies on.
Ready(x, c, f, m, shown, kept, own) ==
  /\ x[1] = "rule" => x[2] \in m
  /\ (x[1] = "unclaim" /\ c = "antigravity" /\ x[2] \in Rules) => "rule" \notin f[x[2]]
  /\ x[1] = "set" => kept = own
  /\ x[1] = "forget" => shown # "acc"

\* The steps still to do, and the next one of them.
TodoKept(t, c, f, m, shown, kept, own) ==
  /\ Coupled(t) /\ Unreaped(c, t)
  /\ t # <<>> => Ready(t[1], c, f, m, shown, kept, own)

\* The inductive invariant.
WiringInv ==
  /\ WiringTyped
  /\ RulesKnown(client, content, marks, mine)
  /\ LineKnown(status, saved, last)
  /\ job # Idle => TodoKept(job.todo, client, content, marks, status, saved, last)

(***************************************************************************)
(* Programs.                                                               *)
(***************************************************************************)
\* Two programs one after the other are a program.
LEMMA ProgramsChain ==
    ASSUME NEW c, NEW s, NEW t, Program(c, s), Program(c, t)
    PROVE  Program(c, s \o t)
<1> DEFINE u == s \o t
           m == Len(s)
           n == Len(t)
<1>1. s \in Seq(WiringSteps) /\ t \in Seq(WiringSteps) /\ m \in Nat /\ n \in Nat
  BY DEF Program, Coupled
<1>2. /\ u \in Seq(WiringSteps) /\ Len(u) = m + n
      /\ \A i \in 1 .. m : u[i] = s[i]
      /\ \A i \in m + 1 .. m + n : u[i] = t[i - m]
  BY <1>1
<1> HIDE DEF u, m, n
<1>3. ASSUME NEW i \in 1 .. m + n, Opens(u[i])
      PROVE  i < m + n /\ Follows(u[i + 1], u[i])
  <2>1. CASE i \in 1 .. m
    <3>1. u[i] = s[i] /\ i < m /\ Follows(s[i + 1], s[i])
      BY <1>1, <1>2, <1>3, <2>1 DEF Program, Coupled, m
    <3>2. i + 1 \in 1 .. m
      BY <1>1, <2>1, <3>1
    <3> QED
      BY <1>1, <1>2, <3>1, <3>2
  <2>2. CASE i \in m + 1 .. m + n
    <3>1. i - m \in 1 .. n /\ u[i] = t[i - m]
      BY <1>1, <1>2, <2>2
    <3>2. i - m < n /\ Follows(t[i - m + 1], t[i - m])
      BY <1>3, <3>1 DEF Program, Coupled, n
    <3>3. i + 1 \in m + 1 .. m + n /\ (i + 1) - m = i - m + 1 /\ i < m + n
      BY <1>1, <2>2, <3>2
    <3>4. u[i + 1] = t[i - m + 1]
      BY <1>2, <3>3
    <3> QED
      BY <3>1, <3>2, <3>3, <3>4
  <2> QED
    BY <1>1, <2>1, <2>2
<1>4. ASSUME NEW i \in 2 .. m + n, Closes(u[i])
      PROVE  Opens(u[i - 1])
  <2>1. CASE i \in 1 .. m
    <3>1. i \in 2 .. m /\ i - 1 \in 1 .. m /\ u[i] = s[i] /\ u[i - 1] = s[i - 1]
      BY <1>1, <1>2, <2>1
    <3> QED
      BY <1>4, <3>1 DEF Program, Coupled, m
  <2>2. CASE i \in m + 2 .. m + n
    <3>1. /\ i - m \in 2 .. n /\ i - 1 \in m + 1 .. m + n /\ i \in m + 1 .. m + n
          /\ (i - 1) - m = (i - m) - 1
      BY <1>1, <2>2
    <3>2. u[i] = t[i - m] /\ u[i - 1] = t[(i - m) - 1]
      BY <1>2, <3>1
    <3> QED
      BY <1>4, <3>1, <3>2 DEF Program, Coupled, n
  <2>3. CASE i = m + 1
    <3>1. u[i] = t[1] /\ 1 <= n
      BY <1>1, <1>2, <2>3
    <3> QED
      BY <1>4, <3>1 DEF Program, n
  <2> QED
    BY <1>1, <2>1, <2>2, <2>3
<1>5. Unreaped(c, u)
  <2> SUFFICES ASSUME c = "antigravity", NEW i \in 1 .. m + n, u[i][1] = "reap"
               PROVE  u[i][2] \notin Rules
    BY <1>2 DEF Unreaped
  <2>1. CASE i \in 1 .. m
    BY <1>1, <1>2, <2>1 DEF Program, Unreaped, m
  <2>2. CASE i \in m + 1 .. m + n
    <3>1. i - m \in 1 .. n /\ u[i] = t[i - m]
      BY <1>1, <1>2, <2>2
    <3> QED
      BY <3>1 DEF Program, Unreaped, n
  <2> QED
    BY <1>1, <2>1, <2>2
<1>6. 1 <= Len(u) => ~Closes(u[1])
  <2>1. CASE m >= 1
    BY <1>1, <1>2, <2>1 DEF Program, m
  <2>2. CASE m = 0
    BY <1>1, <1>2, <2>2 DEF Program, n
  <2> QED
    BY <1>1, <2>1, <2>2
<1>7. Program(c, u)
  BY <1>2, <1>3, <1>4, <1>5, <1>6 DEF Program, Coupled
<1> QED
  BY <1>7 DEF u

\* A step that announces none and is not announced is a program.
LEMMA PlainProgram ==
    ASSUME NEW c, NEW x \in WiringSteps, ~Opens(x), ~Closes(x), x[1] # "reap"
    PROVE  Program(c, <<x>>)
<1> DEFINE t == <<x>>
<1>1. t \in Seq(WiringSteps) /\ Len(t) = 1 /\ t[1] = x
  OBVIOUS
<1> HIDE DEF t
<1>2. Coupled(t)
  BY <1>1 DEF Coupled
<1>3. Unreaped(c, t)
  BY <1>1 DEF Unreaped
<1>4. Program(c, t)
  BY <1>1, <1>2, <1>3 DEF Program
<1> QED
  BY <1>4 DEF t

\* A step by its name and its place.
LEMMA NamedStep ==
    ASSUME NEW op \in StepNames, NEW p \in StepPlaces
    PROVE  <<op, p>> \in WiringSteps /\ <<op, p>>[1] = op /\ <<op, p>>[2] = p
  BY DEF WiringSteps

\* A step and the one it announces are a program.
LEMMA PairProgram ==
    ASSUME NEW c, NEW x \in WiringSteps, NEW y \in WiringSteps, Opens(x), Follows(y, x)
    PROVE  Program(c, <<x, y>>)
<1> DEFINE t == <<x, y>>
<1>1. t \in Seq(WiringSteps) /\ Len(t) = 2 /\ t[1] = x /\ t[2] = y
  OBVIOUS
<1>2. ~Closes(x) /\ ~Opens(y)
  BY DEF Opens, Closes, Follows
<1>3. /\ x[1] # "reap"
      /\ y[1] = "reap" => y[2] = "hooks"
  BY DEF Opens, Follows
<1> HIDE DEF t
<1>4. Coupled(t)
  BY <1>1, <1>2 DEF Coupled
<1>5. Unreaped(c, t)
  <2> SUFFICES ASSUME NEW i \in 1 .. Len(t), t[i][1] = "reap"
               PROVE  t[i][2] \notin Rules
    BY DEF Unreaped
  <2>1. i = 1 \/ i = 2
    BY <1>1
  <2>2. t[i][2] = "hooks"
    BY <1>1, <1>3, <2>1
  <2> QED
    BY <2>2 DEF Rules
<1>6. Program(c, t)
  BY <1>1, <1>2, <1>4, <1>5 DEF Program
<1> QED
  BY <1>6 DEF t

\* Nothing to do is a program.
LEMMA NoProgram == \A c : Program(c, <<>>)
<1> DEFINE t == <<>>
<1>1. t \in Seq(WiringSteps) /\ Len(t) = 0
  OBVIOUS
<1> HIDE DEF t
<1>2. \A c : Program(c, t)
  BY <1>1 DEF Program, Coupled, Unreaped
<1> QED
  BY <1>2 DEF t

\* A step with its answer, by their names.
LEMMA NamedPair ==
    ASSUME NEW c, NEW a \in StepNames, NEW b \in StepNames, NEW p \in StepPlaces,
           <<a, b>> \in {<<"claim", "rule">>, <<"withdraw", "unclaim">>, <<"save", "set">>,
                         <<"restore", "forget">>, <<"leave", "reap">>},
           a = "leave" => p = "hooks"
    PROVE  Program(c, <<<<a, p>>, <<b, p>>>>)
<1> DEFINE x == <<a, p>>
           y == <<b, p>>
<1>1. /\ x \in WiringSteps /\ y \in WiringSteps
      /\ x[1] = a /\ x[2] = p /\ y[1] = b /\ y[2] = p
  BY NamedStep
<1>2. /\ a \in {"claim", "withdraw", "save", "restore", "leave"}
      /\ a = "claim" => b = "rule"
      /\ a = "withdraw" => b = "unclaim"
      /\ a = "save" => b = "set"
      /\ a = "restore" => b = "forget"
      /\ a = "leave" => b = "reap"
  OBVIOUS
<1> HIDE DEF x, y
<1>3. Opens(x) /\ Follows(y, x)
  BY <1>1, <1>2 DEF Opens, Follows
<1>4. Program(c, <<x, y>>)
  BY <1>1, <1>3, PairProgram
<1> QED
  BY <1>4 DEF x, y

\* The steps that stand alone.
LooseSteps(c) == {x \in WiringSteps : /\ ~Opens(x) /\ ~Closes(x)
                                      /\ c = "antigravity" =>
                                           ~(x[1] = "reap" /\ x[2] \in Rules)}

\* They are a program in any order.
LEMMA LooseProgram ==
    ASSUME NEW c, NEW t \in Seq(LooseSteps(c))
    PROVE  Program(c, t)
<1>1. \A i \in 1 .. Len(t) : t[i] \in LooseSteps(c)
  OBVIOUS
<1>2. t \in Seq(WiringSteps)
  <2>1. LooseSteps(c) \subseteq WiringSteps
    BY DEF LooseSteps
  <2> QED
    BY <2>1
<1>3. Coupled(t)
  BY <1>1, <1>2 DEF Coupled, LooseSteps
<1>4. Unreaped(c, t)
  BY <1>1 DEF Unreaped, LooseSteps
<1> QED
  BY <1>1, <1>2, <1>3, <1>4 DEF Program, LooseSteps

\* The steps that stand alone, by their names.
PlainOps == {"clear", "fill", "enter", "mark", "own", "empty", "drop", "rmdir"}
LEMMA LooseNames ==
    ASSUME NEW c, NEW p \in StepPlaces
    PROVE  /\ \A op \in PlainOps : <<op, p>> \in LooseSteps(c)
           /\ p # "hooks" => <<"leave", p>> \in LooseSteps(c)
           /\ (p # "hooks" /\ (c = "antigravity" => p \notin Rules))
                => <<"reap", p>> \in LooseSteps(c)
<1>1. ASSUME NEW op \in StepNames,
             \/ op \in PlainOps
             \/ op = "leave" /\ p # "hooks"
             \/ op = "reap" /\ p # "hooks" /\ (c = "antigravity" => p \notin Rules)
      PROVE  <<op, p>> \in LooseSteps(c)
  <2> DEFINE x == <<op, p>>
  <2>1. x \in WiringSteps /\ x[1] = op /\ x[2] = p
    BY NamedStep
  <2> HIDE DEF x
  <2>2. x \in LooseSteps(c)
    BY <1>1, <2>1 DEF PlainOps, LooseSteps, Opens, Closes
  <2> QED
    BY <2>2 DEF x
<1>2. PlainOps \subseteq StepNames /\ "leave" \in StepNames /\ "reap" \in StepNames
  BY DEF PlainOps, StepNames
<1> QED
  BY <1>1, <1>2

(***************************************************************************)
(* The programs of the adapters.                                           *)
(***************************************************************************)
\* What announces what.
LEMMA PairsAre ==
    ASSUME NEW c
    PROVE  /\ \A p \in StepPlaces :
                /\ Program(c, <<<<"claim", p>>, <<"rule", p>>>>)
                /\ Program(c, <<<<"withdraw", p>>, <<"unclaim", p>>>>)
                /\ Program(c, <<<<"save", p>>, <<"set", p>>>>)
                /\ Program(c, <<<<"restore", p>>, <<"forget", p>>>>)
           /\ Program(c, <<<<"leave", "hooks">>, <<"reap", "hooks">>>>)
<1>1. ASSUME NEW p \in StepPlaces
      PROVE  /\ Program(c, <<<<"claim", p>>, <<"rule", p>>>>)
             /\ Program(c, <<<<"withdraw", p>>, <<"unclaim", p>>>>)
             /\ Program(c, <<<<"save", p>>, <<"set", p>>>>)
             /\ Program(c, <<<<"restore", p>>, <<"forget", p>>>>)
  BY NamedPair DEF StepNames
<1>2. Program(c, <<<<"leave", "hooks">>, <<"reap", "hooks">>>>)
  BY NamedPair DEF StepNames, StepPlaces
<1> QED
  BY <1>1, <1>2

\* The status line's part of a command.
LEMMA IndicatorProgram ==
    ASSUME NEW c, NEW on \in BOOLEAN
    PROVE  Program(c, Indicator(c, on))
<1>1. "status" \in StepPlaces
  BY DEF StepPlaces
<1> QED
  BY <1>1, PairsAre, NoProgram DEF Indicator

\* A tree is cleared and filled.
LEMMA TreeSteps ==
    ASSUME NEW c, NEW p \in StepPlaces
    PROVE  Tree(p) \in Seq(LooseSteps(c))
<1>1. <<"clear", p>> \in LooseSteps(c) /\ <<"fill", p>> \in LooseSteps(c)
  BY LooseNames DEF PlainOps
<1> HIDE DEF LooseSteps
<1> QED
  BY <1>1 DEF Tree

\* What an install writes is a program.
LEMMA InstallProgram ==
    ASSUME NEW c \in Adapters, NEW on \in BOOLEAN
    PROVE  Program(c, InstallSteps(c, on))
<1> DEFINE L == LooseSteps(c)
<1>1. /\ \A p \in StepPlaces : /\ <<"fill", p>> \in L /\ <<"enter", p>> \in L
                               /\ <<"mark", p>> \in L
      /\ \A p \in StepPlaces : Tree(p) \in Seq(L)
      /\ \A t \in Seq(L) : Program(c, t)
  BY LooseNames, TreeSteps, LooseProgram DEF PlainOps
<1>2. /\ "shim" \in StepPlaces /\ "market" \in StepPlaces /\ "cache" \in StepPlaces
      /\ "plugin" \in StepPlaces /\ "rules" \in StepPlaces /\ "hooks" \in StepPlaces
      /\ "skill" \in StepPlaces /\ "manifest" \in StepPlaces /\ "settings" \in StepPlaces
      /\ "desktop" \in StepPlaces /\ "known" \in StepPlaces /\ "installed" \in StepPlaces
      /\ "config" \in StepPlaces /\ "registry" \in StepPlaces
  BY DEF StepPlaces
<1> HIDE DEF L
<1>3. /\ <<"fill", "shim">> \in L
      /\ <<"enter", "hooks">> \in L
      /\ <<"mark", "hooks">> \in L
      /\ <<"enter", "manifest">> \in L
      /\ <<"mark", "manifest">> \in L
      /\ <<"enter", "known">> \in L
      /\ <<"enter", "installed">> \in L
      /\ <<"enter", "settings">> \in L
      /\ <<"fill", "rules">> \in L
      /\ <<"enter", "config">> \in L
      /\ <<"fill", "hooks">> \in L
      /\ <<"enter", "registry">> \in L
  BY <1>1, <1>2, Zenon
<1>4. CASE c = "antigravity"
  <2>1. /\ AntigravityInstall \in Seq(L)
        /\ SkillPlugin \in Seq(L)
    BY <1>3 DEF AntigravityInstall, SkillPlugin
  <2>2. Program(c, AntigravityInstall) /\ Program(c, SkillPlugin)
    BY <1>1, <2>1
  <2>3. Program(c, AllowRule) /\ Program(c, DesktopRule)
    BY <1>2, PairsAre DEF AllowRule, DesktopRule
  <2>4. Program(c, AntigravityInstall \o SkillPlugin)
    BY <2>2, ProgramsChain
  <2>5. Program(c, AntigravityInstall \o SkillPlugin \o AllowRule)
    BY <2>3, <2>4, ProgramsChain
  <2>6. Program(c, AntigravityInstall \o SkillPlugin \o AllowRule \o DesktopRule)
    BY <2>3, <2>5, ProgramsChain
  <2> QED
    BY <1>4, <2>6 DEF InstallSteps
<1>5. CASE c = "claude"
  <2>1. <<<<"enter", "known">>, <<"enter", "installed">>, <<"enter", "settings">>>> \in Seq(L)
    BY <1>1, <1>2, <1>3
  <2>2. Tree("market") \in Seq(L) /\ Tree("cache") \in Seq(L)
    BY <1>1, <1>2, <1>3
  <2>3. ClaudeInstall \in Seq(L)
    BY <2>1, <2>2 DEF ClaudeInstall
  <2> QED
    BY <1>1, <1>5, <2>3 DEF InstallSteps
<1>6. CASE c = "codex"
  <2>1. <<<<"fill", "rules">>, <<"enter", "manifest">>, <<"enter", "config">>>> \in Seq(L)
    BY <1>1, <1>2, <1>3
  <2>2. Tree("plugin") \in Seq(L) /\ Tree("cache") \in Seq(L)
    BY <1>1, <1>2, <1>3
  <2>3. CodexInstall \in Seq(L)
    BY <2>1, <2>2 DEF CodexInstall
  <2> QED
    BY <1>1, <1>6, <2>3 DEF InstallSteps
<1>7. CASE c = "gemini"
  <2>1. <<<<"enter", "settings">>>> \in Seq(L) /\ Tree("plugin") \in Seq(L)
    BY <1>1, <1>2, <1>3
  <2>2. GeminiInstall \in Seq(L)
    BY <2>1 DEF GeminiInstall
  <2> QED
    BY <1>1, <1>7, <2>2 DEF InstallSteps
<1>8. CASE c = "grok"
  <2>1. /\ <<<<"fill", "shim">>>> \in Seq(L) /\ <<<<"fill", "hooks">>>> \in Seq(L)
        /\ Tree("skill") \in Seq(L)
    BY <1>1, <1>2, <1>3
  <2>2. GrokInstall \in Seq(L)
    BY <2>1 DEF GrokInstall
  <2>3. Program(c, Indicator(c, on) \o GrokInstall)
    BY <1>1, <2>2, IndicatorProgram, ProgramsChain
  <2> QED
    BY <1>8, <2>3 DEF InstallSteps
<1>9. CASE c = "kimi"
  <2>1. /\ <<<<"enter", "config">>, <<"enter", "registry">>>> \in Seq(L)
        /\ Tree("plugin") \in Seq(L)
    BY <1>1, <1>2, <1>3
  <2>2. KimiInstall \in Seq(L)
    BY <2>1 DEF KimiInstall
  <2>3. Program(c, Indicator(c, on) \o KimiInstall)
    BY <1>1, <2>2, IndicatorProgram, ProgramsChain
  <2> QED
    BY <1>9, <2>3 DEF InstallSteps
<1> QED
  BY <1>4, <1>5, <1>6, <1>7, <1>8, <1>9, AdaptersAssumption

\* What an install recorded is given back tree by tree.
LEMMA OwnedSteps ==
    ASSUME NEW c \in Adapters
    PROVE  Owned(c) \in Seq(LooseSteps(c))
<1> DEFINE a == Artifacts(c)
           L == LooseSteps(c)
<1>1. a \in Seq(StepPlaces)
  <2>1. /\ "shim" \in StepPlaces /\ "market" \in StepPlaces /\ "cache" \in StepPlaces
        /\ "plugin" \in StepPlaces /\ "rules" \in StepPlaces /\ "hooks" \in StepPlaces
        /\ "skill" \in StepPlaces
    BY DEF StepPlaces
  <2>2. c = "antigravity" => a = <<"shim">>
    BY DEF Artifacts
  <2>3. c = "claude" => a = <<"market", "cache">>
    BY DEF Artifacts
  <2>4. c = "codex" => a = <<"plugin", "cache", "rules">>
    BY DEF Artifacts
  <2>5. c = "gemini" => a = <<"plugin">>
    BY DEF Artifacts
  <2>6. c = "grok" => a = <<"hooks", "shim", "skill">>
    BY DEF Artifacts
  <2>7. c = "kimi" => a = <<"plugin">>
    BY DEF Artifacts
  <2> HIDE DEF a
  <2>8. /\ <<"shim">> \in Seq(StepPlaces) /\ <<"plugin">> \in Seq(StepPlaces)
        /\ <<"market", "cache">> \in Seq(StepPlaces)
        /\ <<"plugin", "cache", "rules">> \in Seq(StepPlaces)
        /\ <<"hooks", "shim", "skill">> \in Seq(StepPlaces)
    BY <2>1
  <2> QED
    BY <2>2, <2>3, <2>4, <2>5, <2>6, <2>7, <2>8, AdaptersAssumption
<1>2. \A p \in StepPlaces : <<"own", p>> \in L
  BY LooseNames DEF PlainOps
<1> HIDE DEF L, a
<1>3. Len(a) \in Nat /\ \A i \in 1 .. Len(a) : a[i] \in StepPlaces
  BY <1>1
<1>4. \A i \in 1 .. Len(a) : <<"own", a[i]>> \in L
  BY <1>2, <1>3
<1>5. [i \in 1 .. Len(a) |-> <<"own", a[i]>>] \in Seq(L)
  BY <1>3, <1>4
<1> QED
  BY <1>5 DEF Owned, a, L

\* What an uninstall removes is a program.
LEMMA UninstallProgram ==
    ASSUME NEW c \in Adapters
    PROVE  Program(c, UninstallSteps(c))
<1> DEFINE L == LooseSteps(c)
           own == CASE c = "antigravity" -> AntigravityUninstall
                    [] c = "claude"      -> ClaudeUninstall
                    [] c = "codex"       -> CodexUninstall
                    [] c = "gemini"      -> GeminiUninstall
                    [] c = "grok"        -> GrokUninstall
                    [] c = "kimi"        -> KimiUninstall
<1>1. /\ \A p \in StepPlaces : /\ <<"empty", p>> \in L /\ <<"drop", p>> \in L
                               /\ <<"rmdir", p>> \in L
                               /\ p # "hooks" => <<"leave", p>> \in L
                               /\ (p # "hooks" /\ (c = "antigravity" => p \notin Rules))
                                    => <<"reap", p>> \in L
      /\ \A t \in Seq(L) : Program(c, t)
  BY LooseNames, LooseProgram DEF PlainOps
<1>2. /\ "shim" \in StepPlaces /\ "market" \in StepPlaces /\ "cache" \in StepPlaces
      /\ "plugin" \in StepPlaces /\ "rules" \in StepPlaces /\ "hooks" \in StepPlaces
      /\ "skill" \in StepPlaces /\ "manifest" \in StepPlaces /\ "settings" \in StepPlaces
      /\ "desktop" \in StepPlaces /\ "known" \in StepPlaces /\ "installed" \in StepPlaces
      /\ "config" \in StepPlaces /\ "registry" \in StepPlaces /\ "all" \in StepPlaces
      /\ "manifest" # "hooks" /\ "settings" # "hooks" /\ "config" # "hooks"
      /\ "manifest" \notin Rules /\ "config" \notin Rules
  BY DEF StepPlaces, Rules
<1> HIDE DEF L
<1>3. /\ <<"leave", "manifest">> \in L
      /\ <<"leave", "settings">> \in L
      /\ <<"leave", "config">> \in L
      /\ <<"reap", "manifest">> \in L
      /\ <<"reap", "config">> \in L
      /\ c # "antigravity" => <<"reap", "settings">> \in L
      /\ <<"empty", "known">> \in L
      /\ <<"empty", "installed">> \in L
      /\ <<"empty", "registry">> \in L
      /\ <<"drop", "shim">> \in L
      /\ <<"drop", "cache">> \in L
      /\ <<"drop", "market">> \in L
      /\ <<"drop", "rules">> \in L
      /\ <<"drop", "plugin">> \in L
      /\ <<"drop", "hooks">> \in L
      /\ <<"drop", "skill">> \in L
      /\ <<"rmdir", "all">> \in L
  BY <1>1, <1>2, Zenon
<1>4. Program(c, own)
  <2>1. CASE c = "antigravity"
    <3> DEFINE w == <<<<"withdraw", "settings">>, <<"unclaim", "settings">>>>
               d == <<<<"withdraw", "desktop">>, <<"unclaim", "desktop">>>>
               s == <<<<"drop", "shim">>>>
    <3>1. Program(c, Taken("hooks"))
      BY PairsAre DEF Taken
    <3>2. Program(c, Taken("manifest"))
      <4>1. Taken("manifest") \in Seq(L)
        BY <1>3 DEF Taken
      <4> QED
        BY <1>1, <4>1
    <3>3. Program(c, w) /\ Program(c, d)
      BY <1>2, PairsAre
    <3>4. Program(c, s)
      <4>1. s \in Seq(L)
        BY <1>3
      <4> QED
        BY <1>1, <4>1
    <3>5. <<<<"withdraw", "settings">>, <<"unclaim", "settings">>, <<"withdraw", "desktop">>,
            <<"unclaim", "desktop">>, <<"drop", "shim">>>> = w \o d \o s
      OBVIOUS
    <3> HIDE DEF w, d, s
    <3>6. Program(c, w \o d)
      BY <3>3, ProgramsChain
    <3>7. Program(c, w \o d \o s)
      BY <3>4, <3>6, ProgramsChain
    <3>8. Program(c, Taken("hooks") \o Taken("manifest"))
      BY <3>1, <3>2, ProgramsChain
    <3>9. Program(c, Taken("hooks") \o Taken("manifest") \o (w \o d \o s))
      BY <3>7, <3>8, ProgramsChain
    <3> QED
      BY <2>1, <3>5, <3>9 DEF AntigravityUninstall
  <2>2. CASE c = "claude"
    <3>1. ClaudeUninstall \in Seq(L)
      BY <1>3, <2>2 DEF ClaudeUninstall
    <3> QED
      BY <1>1, <2>2, <3>1
  <2>3. CASE c = "codex"
    <3>1. CodexUninstall \in Seq(L)
      BY <1>3 DEF CodexUninstall
    <3> QED
      BY <1>1, <2>3, <3>1
  <2>4. CASE c = "gemini"
    <3>1. Taken("settings") \in Seq(L) /\ <<<<"drop", "plugin">>>> \in Seq(L)
      BY <1>3, <2>4 DEF Taken
    <3>2. GeminiUninstall \in Seq(L)
      BY <3>1 DEF GeminiUninstall
    <3> QED
      BY <1>1, <2>4, <3>2
  <2>5. CASE c = "grok"
    <3>1. GrokUninstall \in Seq(L)
      BY <1>3 DEF GrokUninstall
    <3> QED
      BY <1>1, <2>5, <3>1
  <2>6. CASE c = "kimi"
    <3>1. KimiUninstall \in Seq(L)
      BY <1>3 DEF KimiUninstall
    <3> QED
      BY <1>1, <2>6, <3>1
  <2> QED
    BY <2>1, <2>2, <2>3, <2>4, <2>5, <2>6, AdaptersAssumption
<1>5. Program(c, Owned(c))
  BY <1>1, OwnedSteps DEF L
<1>6. Program(c, Indicator(c, FALSE))
  BY IndicatorProgram
<1>7. Program(c, <<<<"rmdir", "all">>>>)
  <2>1. <<<<"rmdir", "all">>>> \in Seq(L)
    BY <1>3
  <2> QED
    BY <1>1, <2>1
<1>8. UninstallSteps(c) = Owned(c) \o Indicator(c, FALSE) \o own \o <<<<"rmdir", "all">>>>
  BY DEF UninstallSteps
<1> HIDE DEF own
<1>9. Program(c, Owned(c) \o Indicator(c, FALSE))
  BY <1>5, <1>6, ProgramsChain
<1>10. Program(c, Owned(c) \o Indicator(c, FALSE) \o own)
  BY <1>4, <1>9, ProgramsChain
<1>11. Program(c, Owned(c) \o Indicator(c, FALSE) \o own \o <<<<"rmdir", "all">>>>)
  BY <1>7, <1>10, ProgramsChain
<1> QED
  BY <1>8, <1>11

(***************************************************************************)
(* One step further.                                                       *)
(***************************************************************************)
\* What a list of steps says of the rest of it.
LEMMA TailCoupled ==
    ASSUME NEW c, NEW t, Coupled(t), Unreaped(c, t), t # <<>>
    PROVE  /\ Head(t) \in WiringSteps /\ Head(t) = t[1]
           /\ Coupled(Tail(t)) /\ Unreaped(c, Tail(t))
           /\ Opens(Head(t)) => Tail(t) # <<>> /\ Follows(Tail(t)[1], Head(t))
           /\ ~Opens(Head(t)) => (Tail(t) # <<>> => ~Closes(Tail(t)[1]))
<1> DEFINE u == Tail(t)
           n == Len(t)
<1>1. t \in Seq(WiringSteps) /\ n \in Nat /\ n >= 1
  BY DEF Coupled
<1>2. /\ u \in Seq(WiringSteps) /\ Len(u) = n - 1
      /\ \A i \in 1 .. n - 1 : u[i] = t[i + 1]
      /\ Head(t) = t[1] /\ t[1] \in WiringSteps
  BY <1>1
<1>3. u = <<>> <=> n = 1
  BY <1>1, <1>2
<1>4. /\ \A i \in 1 .. n : Opens(t[i]) => i < n /\ Follows(t[i + 1], t[i])
      /\ \A i \in 2 .. n : Closes(t[i]) => Opens(t[i - 1])
  BY DEF Coupled
<1> HIDE DEF u, n
<1>5. ASSUME NEW i \in 1 .. n - 1, Opens(u[i])
      PROVE  i < n - 1 /\ Follows(u[i + 1], u[i])
  <2>1. i + 1 \in 1 .. n /\ u[i] = t[i + 1]
    BY <1>1, <1>2
  <2>2. i + 1 < n /\ Follows(t[(i + 1) + 1], t[i + 1])
    BY <1>4, <1>5, <2>1
  <2>3. i + 1 \in 1 .. n - 1
    BY <1>1, <2>2
  <2> QED
    BY <1>1, <1>2, <2>1, <2>2, <2>3
<1>6. ASSUME NEW i \in 2 .. n - 1, Closes(u[i])
      PROVE  Opens(u[i - 1])
  <2>1. /\ i + 1 \in 2 .. n /\ i \in 1 .. n - 1 /\ i - 1 \in 1 .. n - 1
        /\ (i - 1) + 1 = i /\ (i + 1) - 1 = i
    BY <1>1
  <2>2. u[i] = t[i + 1] /\ u[i - 1] = t[i]
    BY <1>2, <2>1
  <2> QED
    BY <1>4, <1>6, <2>1, <2>2
<1>7. Coupled(u)
  BY <1>2, <1>5, <1>6 DEF Coupled
<1>8. Unreaped(c, u)
  <2> SUFFICES ASSUME c = "antigravity", NEW i \in 1 .. n - 1, u[i][1] = "reap"
               PROVE  u[i][2] \notin Rules
    BY <1>2 DEF Unreaped
  <2>1. i + 1 \in 1 .. n /\ u[i] = t[i + 1]
    BY <1>1, <1>2
  <2> QED
    BY <2>1 DEF Unreaped, n
<1>9. Opens(t[1]) => u # <<>> /\ Follows(u[1], t[1])
  <2> SUFFICES ASSUME Opens(t[1])
               PROVE  u # <<>> /\ Follows(u[1], t[1])
    OBVIOUS
  <2>1. 1 < n /\ Follows(t[1 + 1], t[1])
    BY <1>1, <1>4
  <2>2. u[1] = t[1 + 1]
    BY <1>1, <1>2, <2>1
  <2> QED
    BY <1>3, <2>1, <2>2
<1>10. (~Opens(t[1]) /\ u # <<>>) => ~Closes(u[1])
  <2> SUFFICES ASSUME ~Opens(t[1]), u # <<>>, Closes(u[1])
               PROVE  FALSE
    OBVIOUS
  <2>1. 2 \in 2 .. n /\ u[1] = t[2] /\ 2 - 1 = 1
    <3>1. 1 \in 1 .. n - 1
      BY <1>1, <1>3
    <3>2. u[1] = t[1 + 1]
      BY <1>2, <3>1
    <3> QED
      BY <1>1, <3>1, <3>2
  <2> QED
    BY <1>4, <2>1
<1> QED
  BY <1>2, <1>7, <1>8, <1>9, <1>10 DEF u

\* Only a step that was announced relies on anything.
LEMMA UnannouncedReady ==
    ASSUME NEW x, ~Closes(x)
    PROVE  \A c, f, m, shown, kept, own : Ready(x, c, f, m, shown, kept, own)
  BY DEF Closes, Ready

\* After a step that announces none.
LEMMA QuietTail ==
    ASSUME NEW c, NEW t, Coupled(t), Unreaped(c, t), t # <<>>, ~Opens(Head(t))
    PROVE  \A f, m, shown, kept, own : TodoKept(Tail(t), c, f, m, shown, kept, own)
<1>1. /\ Coupled(Tail(t)) /\ Unreaped(c, Tail(t))
      /\ Tail(t) # <<>> => ~Closes(Tail(t)[1])
  BY TailCoupled
<1> QED
  BY <1>1, UnannouncedReady DEF TodoKept

\* After a step that announces one which is then not taken.
LEMMA SkippedTail ==
    ASSUME NEW c, NEW t, Coupled(t), Unreaped(c, t), t # <<>>, Opens(Head(t))
    PROVE  \A f, m, shown, kept, own : TodoKept(Tail(Tail(t)), c, f, m, shown, kept, own)
<1> DEFINE u == Tail(t)
<1>1. /\ Coupled(u) /\ Unreaped(c, u) /\ u # <<>>
      /\ Follows(u[1], Head(t))
  BY TailCoupled
<1> HIDE DEF u
<1>2. Head(u) = u[1]
  BY <1>1, TailCoupled
<1>3. ~Opens(Head(u))
  BY <1>1, <1>2 DEF Opens, Follows
<1>4. \A f, m, shown, kept, own : TodoKept(Tail(u), c, f, m, shown, kept, own)
  BY <1>1, <1>3, QuietTail
<1> QED
  BY <1>4 DEF u

\* The beginning of a program.
LEMMA ProgramKept ==
    ASSUME NEW c, NEW t, Program(c, t)
    PROVE  \A f, m, shown, kept, own : TodoKept(t, c, f, m, shown, kept, own)
<1>1. Coupled(t) /\ Unreaped(c, t)
  BY DEF Program
<1>2. t # <<>> => ~Closes(t[1])
  <2>1. t # <<>> => 1 <= Len(t)
    BY <1>1 DEF Coupled
  <2> QED
    BY <2>1 DEF Program
<1> QED
  BY <1>1, <1>2, UnannouncedReady DEF TodoKept

(***************************************************************************)
(* The steps of a command.                                                 *)
(***************************************************************************)
\* What the next step is about.
LEMMA StepAt ==
    ASSUME WiringInv, NEW op \in StepNames, NEW p, At(op, p)
    PROVE  /\ job \in Jobs /\ job # Idle /\ job.todo # <<>>
           /\ Coupled(job.todo) /\ Unreaped(client, job.todo)
           /\ Head(job.todo)[1] = op /\ Head(job.todo)[2] = p /\ p \in StepPlaces
           /\ Ready(Head(job.todo), client, content, marks, status, saved, last)
<1>1. job \in Jobs /\ job # Idle /\ job.todo # <<>> /\ Head(job.todo) = <<op, p>>
  BY DEF At, WiringInv, WiringTyped
<1>2. /\ Coupled(job.todo) /\ Unreaped(client, job.todo)
      /\ Ready(job.todo[1], client, content, marks, status, saved, last)
  BY <1>1 DEF WiringInv, TodoKept
<1>3. Head(job.todo) = job.todo[1] /\ Head(job.todo) \in WiringSteps
  BY <1>1, <1>2, TailCoupled
<1>4. p \in StepPlaces
  BY <1>1, <1>3 DEF WiringSteps
<1> QED
  BY <1>1, <1>2, <1>3, <1>4

\* A command goes on with the rest of its steps.
LEMMA JobMoves ==
    ASSUME NEW u, job \in Jobs, Coupled(job.todo), job.todo # <<>>,
           \/ Advance /\ u = Tail(job.todo)
           \/ Skip /\ u = Tail(Tail(job.todo)) /\ Coupled(u)
    PROVE  job' \in Jobs /\ job'.todo = u
<1>1. Coupled(u)
  BY TailCoupled DEF Unreaped
<1>2. u \in Seq(WiringSteps)
  BY <1>1 DEF Coupled
<1>3. job' = [job EXCEPT !.todo = u]
  BY DEF Advance, Skip
<1> QED
  BY <1>2, <1>3 DEF Jobs

\* A place holds what was written there, and the others what they held.
LEMMA PlaceWritten ==
    ASSUME content = [q \in WiredPlaces |-> content[q]], NEW p, NEW pieces, Write(p, pieces)
    PROVE  /\ content' = [q \in WiredPlaces |-> content'[q]]
           /\ \A q \in WiredPlaces : content'[q] = IF q = p THEN pieces ELSE content[q]
  BY DEF Write

\* The files with a rule for Antigravity are places.
LEMMA RulePlaces ==
    ASSUME client \in Adapters, client = "antigravity"
    PROVE  Rules \subseteq WiredPlaces
<1>1. Rules \subseteq Merged(client)
  BY DEF Rules, Merged
<1> QED
  BY <1>1 DEF WiredPlaces

\* A write that adds no rule leaves every rule known.
LEMMA NoNewRule ==
    ASSUME WiringInv, NEW p, NEW pieces, Write(p, pieces),
           "rule" \in pieces => "rule" \in content[p],
           client' = client, marks' = marks, mine' = mine
    PROVE  /\ content' = [q \in WiredPlaces |-> content'[q]]
           /\ RulesKnown(client, content, marks, mine)'
<1>1. /\ content' = [q \in WiredPlaces |-> content'[q]]
      /\ \A q \in WiredPlaces : content'[q] = IF q = p THEN pieces ELSE content[q]
  BY PlaceWritten DEF WiringInv, WiringTyped
<1>2. ASSUME client = "antigravity", NEW q \in Rules, "rule" \in content'[q]
      PROVE  q \in marks \cup mine
  <2>1. q \in WiredPlaces
    BY <1>2, RulePlaces DEF WiringInv, WiringTyped
  <2>2. "rule" \in content[q]
    BY <1>1, <1>2, <2>1
  <2> QED
    BY <1>2, <2>2 DEF WiringInv, RulesKnown
<1> QED
  BY <1>1, <1>2 DEF RulesKnown

\* The steps that only write a tree or a file.
LEMMA QuietStep ==
    ASSUME WiringInv, NEW op \in StepNames, NEW p, NEW pieces, At(op, p),
           op \notin {"claim", "withdraw", "save", "restore", "leave"},
           Write(p, pieces), "rule" \in pieces => "rule" \in content[p],
           Advance, marks' = marks, status' = status, saved' = saved, Kept
    PROVE  WiringInv'
<1>1. /\ job \in Jobs /\ job.todo # <<>>
      /\ Coupled(job.todo) /\ Unreaped(client, job.todo)
      /\ Head(job.todo)[1] = op
  BY StepAt
<1>2. ~Opens(Head(job.todo))
  BY <1>1 DEF Opens
<1>3. \A f, m, shown, kept, own : TodoKept(Tail(job.todo), client, f, m, shown, kept, own)
  BY <1>1, <1>2, QuietTail
<1>4. job' \in Jobs /\ job'.todo = Tail(job.todo)
  BY <1>1, JobMoves
<1>5. client' = client /\ last' = last /\ mine' = mine
  BY DEF Kept, ghosts
<1>6. /\ content' = [q \in WiredPlaces |-> content'[q]]
      /\ RulesKnown(client, content, marks, mine)'
  BY <1>5, NoNewRule
<1>7. WiringTyped'
  BY <1>4, <1>5, <1>6 DEF WiringInv, WiringTyped
<1>8. LineKnown(status, saved, last)'
  BY <1>5 DEF WiringInv, LineKnown
<1>9. TodoKept(job.todo, client, content, marks, status, saved, last)'
  BY <1>3, <1>4, <1>5
<1> QED
  BY <1>6, <1>7, <1>8, <1>9 DEF WiringInv

\* The trees and the entries, on and off.
LEMMA PlainSteps ==
    ASSUME WiringInv, NEW p,
           Clear(p) \/ Fill(p) \/ Enter(p) \/ Empty(p) \/ Drop(p)
    PROVE  WiringInv'
<1>1. CASE Clear(p)
  <2> DEFINE pieces == IF p \in Shared(client) THEN content[p] \ {"v1", "v2", "part", "edit"}
                       ELSE {}
  <2>1. /\ At("clear", p) /\ Write(p, pieces) /\ Advance /\ Kept
        /\ marks' = marks /\ status' = status /\ saved' = saved
    BY <1>1 DEF Clear
  <2>2. "rule" \in pieces => "rule" \in content[p]
    OBVIOUS
  <2> HIDE DEF pieces
  <2> QED
    BY <2>1, <2>2, QuietStep DEF StepNames
<1>2. CASE Fill(p)
  <2>1. /\ At("fill", p) /\ Write(p, Filled(p)) /\ Advance /\ Kept
        /\ marks' = marks /\ status' = status /\ saved' = saved
    BY <1>2 DEF Fill
  <2>2. "rule" \in Filled(p) => "rule" \in content[p]
    BY DEF Filled, Bundle
  <2> QED
    BY <2>1, <2>2, QuietStep DEF StepNames
<1>3. CASE Enter(p)
  <2>1. /\ At("enter", p) /\ Write(p, Entered(p)) /\ Advance /\ Kept
        /\ marks' = marks /\ status' = status /\ saved' = saved
    BY <1>3 DEF Enter
  <2>2. "rule" \in Entered(p) => "rule" \in content[p]
    BY DEF Entered, Stripped
  <2> QED
    BY <2>1, <2>2, QuietStep DEF StepNames
<1>4. CASE Empty(p)
  <2> DEFINE pieces == IF client = "claude" /\ "acc" \notin content[p] THEN content[p]
                       ELSE IF "user" \in content[p] THEN content[p] \ {"acc"} ELSE {}
  <2>1. /\ At("empty", p) /\ Write(p, pieces) /\ Advance /\ Kept
        /\ marks' = marks /\ status' = status /\ saved' = saved
    BY <1>4 DEF Empty
  <2>2. "rule" \in pieces => "rule" \in content[p]
    OBVIOUS
  <2> HIDE DEF pieces
  <2> QED
    BY <2>1, <2>2, QuietStep DEF StepNames
<1>5. CASE Drop(p)
  <2> DEFINE pieces == IF p \in job.keep \/ (p = "rules" /\ "edit" \in content[p])
                       THEN content[p] ELSE {}
  <2>1. /\ At("drop", p) /\ Write(p, pieces) /\ Advance /\ Kept
        /\ marks' = marks /\ status' = status /\ saved' = saved
    BY <1>5 DEF Drop
  <2>2. "rule" \in pieces => "rule" \in content[p]
    OBVIOUS
  <2> HIDE DEF pieces
  <2> QED
    BY <2>1, <2>2, QuietStep DEF StepNames
<1> QED
  BY <1>1, <1>2, <1>3, <1>4, <1>5

\* What changes no file and no rule's claim, and what comes after it.
LEMMA CommandMoves ==
    ASSUME WiringInv, NEW op \in StepNames, NEW p, At(op, p), Kept,
           \/ Advance /\ ~Opens(Head(job.todo))
           \/ Skip /\ Opens(Head(job.todo))
    PROVE  /\ job' \in Jobs
           /\ TodoKept(job.todo, client, content, marks, status, saved, last)'
           /\ client' = client /\ last' = last /\ mine' = mine
<1>1. /\ job \in Jobs /\ job.todo # <<>>
      /\ Coupled(job.todo) /\ Unreaped(client, job.todo)
  BY StepAt
<1>2. client' = client /\ last' = last /\ mine' = mine
  BY DEF Kept, ghosts
<1>3. CASE Advance /\ ~Opens(Head(job.todo))
  <2>1. \A f, m, shown, kept, own : TodoKept(Tail(job.todo), client, f, m, shown, kept, own)
    BY <1>1, <1>3, QuietTail
  <2>2. job' \in Jobs /\ job'.todo = Tail(job.todo)
    BY <1>1, <1>3, JobMoves
  <2> QED
    BY <1>2, <2>1, <2>2
<1>4. CASE Skip /\ Opens(Head(job.todo))
  <2> DEFINE u == Tail(Tail(job.todo))
  <2>1. \A f, m, shown, kept, own : TodoKept(u, client, f, m, shown, kept, own)
    BY <1>1, <1>4, SkippedTail
  <2>2. Coupled(u)
    BY <2>1 DEF TodoKept
  <2>3. job' \in Jobs /\ job'.todo = u
    BY <1>1, <1>4, <2>2, JobMoves
  <2> HIDE DEF u
  <2> QED
    BY <1>2, <2>1, <2>3
<1> QED
  BY <1>3, <1>4

\* A step that announces one, and what the announced one relies on.
LEMMA CommandAnnounces ==
    ASSUME WiringInv, NEW op \in StepNames, NEW p, At(op, p), Kept, Advance, Opens(Head(job.todo)),
           \A x : Follows(x, Head(job.todo))
                    => Ready(x, client, content', marks', status', saved', last)
    PROVE  /\ job' \in Jobs
           /\ TodoKept(job.todo, client, content, marks, status, saved, last)'
           /\ client' = client /\ last' = last /\ mine' = mine
<1> DEFINE u == Tail(job.todo)
<1>1. /\ job \in Jobs /\ job.todo # <<>>
      /\ Coupled(job.todo) /\ Unreaped(client, job.todo)
  BY StepAt
<1>2. /\ Coupled(u) /\ Unreaped(client, u) /\ Follows(u[1], Head(job.todo))
  BY <1>1, TailCoupled
<1>3. job' \in Jobs /\ job'.todo = u
  BY <1>1, JobMoves
<1> HIDE DEF u
<1>4. Ready(u[1], client, content', marks', status', saved', last)
  BY <1>2
<1>5. client' = client /\ last' = last /\ mine' = mine
  BY DEF Kept, ghosts
<1> QED
  BY <1>2, <1>3, <1>4, <1>5 DEF TodoKept

\* The recorded trees are taken back, or held back.
LEMMA OwnStep ==
    ASSUME WiringInv, NEW p, Own(p)
    PROVE  WiringInv'
<1> DEFINE stamped == IF record = NoRecord THEN {} ELSE record.trees[p]
           held == content[p] # {} /\ record # NoRecord /\ content[p] # stamped
           pieces == IF content[p] = stamped THEN {} ELSE content[p]
           kept == IF held THEN job.keep \cup {p} ELSE job.keep
           t == job.todo
<1>1. /\ job \in Jobs /\ t # <<>> /\ p \in StepPlaces
      /\ Coupled(t) /\ Unreaped(client, t)
      /\ Head(t)[1] = "own"
  BY StepAt DEF Own, StepNames
<1>2. /\ Write(p, pieces) /\ job' = [job EXCEPT !.todo = Tail(t), !.keep = kept] /\ Kept
      /\ marks' = marks /\ status' = status /\ saved' = saved
  BY DEF Own
<1>3. "rule" \in pieces => "rule" \in content[p]
  OBVIOUS
<1>4. kept \in SUBSET StepPlaces
  BY <1>1 DEF Jobs
<1> HIDE DEF held, stamped, pieces, kept
<1>5. Coupled(Tail(t))
  BY <1>1, TailCoupled
<1>6. Tail(t) \in Seq(WiringSteps)
  BY <1>5 DEF Coupled
<1>7. job' \in Jobs /\ job'.todo = Tail(t)
  BY <1>1, <1>2, <1>4, <1>6 DEF Jobs
<1>8. ~Opens(Head(t))
  BY <1>1 DEF Opens
<1>9. \A f, m, shown, k, own : TodoKept(Tail(t), client, f, m, shown, k, own)
  BY <1>1, <1>8, QuietTail
<1>10. client' = client /\ last' = last /\ mine' = mine
  BY <1>2 DEF Kept, ghosts
<1>11. /\ content' = [q \in WiredPlaces |-> content'[q]]
       /\ RulesKnown(client, content, marks, mine)'
  BY <1>2, <1>3, <1>10, NoNewRule
<1>12. TodoKept(job.todo, client, content, marks, status, saved, last)'
  BY <1>7, <1>9, <1>10
<1> QED
  BY <1>2, <1>7, <1>10, <1>11, <1>12 DEF WiringInv, WiringTyped, LineKnown

\* The entries are taken out of a file, with what follows or without it.
LEMMA LeaveStep ==
    ASSUME WiringInv, NEW p, Leave(p)
    PROVE  WiringInv'
<1>1. /\ job \in Jobs /\ job.todo # <<>>
      /\ Head(job.todo)[1] = "leave" /\ Head(job.todo)[2] = p
      /\ At("leave", p) /\ "leave" \in StepNames
  BY StepAt DEF Leave, StepNames
<1>2. PICK pieces : /\ Write(p, pieces)
                    /\ "rule" \in pieces => "rule" \in content[p]
                    /\ Advance \/ (Skip /\ p = "hooks")
  BY DEF Leave, Left, Stripped
<1>3. marks' = marks /\ status' = status /\ saved' = saved /\ Kept
  BY DEF Leave
<1>4. /\ job' \in Jobs
      /\ TodoKept(job.todo, client, content, marks, status, saved, last)'
      /\ client' = client /\ last' = last /\ mine' = mine
  <2>1. CASE p = "hooks"
    <3>1. Opens(Head(job.todo))
      BY <1>1, <2>1 DEF Opens
    <3>2. CASE Skip
      BY <1>1, <1>3, <3>1, <3>2, CommandMoves
    <3>3. CASE Advance
      <4>1. \A x : Follows(x, Head(job.todo))
                     => Ready(x, client, content', marks', status', saved', last)
        BY <1>1 DEF Follows, Ready
      <4> QED
        BY <1>1, <1>3, <3>1, <3>3, <4>1, CommandAnnounces
    <3> QED
      BY <1>2, <3>2, <3>3
  <2>2. CASE p # "hooks"
    <3>1. ~Opens(Head(job.todo))
      BY <1>1, <2>2 DEF Opens
    <3> QED
      BY <1>1, <1>2, <1>3, <2>2, <3>1, CommandMoves
  <2> QED
    BY <2>1, <2>2
<1>5. /\ content' = [q \in WiredPlaces |-> content'[q]]
      /\ RulesKnown(client, content, marks, mine)'
  BY <1>2, <1>3, <1>4, NoNewRule
<1> QED
  BY <1>3, <1>4, <1>5 DEF WiringInv, WiringTyped, LineKnown

\* A file ACC created goes when nothing is left in it; none with a rule is one.
LEMMA ReapStep ==
    ASSUME WiringInv, NEW p, Reap(p)
    PROVE  WiringInv'
<1> DEFINE pieces == IF Reapable(p) /\ Blank(p) THEN {} ELSE content[p]
<1>1. /\ job \in Jobs /\ job.todo # <<>>
      /\ Coupled(job.todo) /\ Unreaped(client, job.todo)
      /\ Head(job.todo)[1] = "reap" /\ Head(job.todo)[2] = p
      /\ At("reap", p) /\ "reap" \in StepNames
  BY StepAt DEF Reap, StepNames
<1>2. /\ Write(p, pieces) /\ marks' = marks \ {p} /\ Advance
      /\ status' = status /\ saved' = saved /\ Kept
  BY DEF Reap
<1>3. "rule" \in pieces => "rule" \in content[p]
  OBVIOUS
<1> HIDE DEF pieces
<1>4. client = "antigravity" => p \notin Rules
  <2>1. Len(job.todo) >= 1 /\ Head(job.todo) = job.todo[1]
    BY <1>1 DEF Coupled
  <2> QED
    BY <1>1, <2>1 DEF Unreaped
<1>5. ~Opens(Head(job.todo))
  BY <1>1 DEF Opens
<1>6. /\ job' \in Jobs
      /\ TodoKept(job.todo, client, content, marks, status, saved, last)'
      /\ client' = client /\ last' = last /\ mine' = mine
  BY <1>1, <1>2, <1>5, CommandMoves
<1>7. /\ content' = [q \in WiredPlaces |-> content'[q]]
      /\ \A q \in WiredPlaces : content'[q] = IF q = p THEN pieces ELSE content[q]
  BY <1>2, PlaceWritten DEF WiringInv, WiringTyped
<1>8. ASSUME client = "antigravity", NEW q \in Rules, "rule" \in content'[q]
      PROVE  q \in marks' \cup mine
  <2>1. q \in WiredPlaces /\ q # p
    BY <1>4, <1>8, RulePlaces DEF WiringInv, WiringTyped
  <2>2. "rule" \in content[q]
    BY <1>7, <1>8, <2>1
  <2> QED
    BY <1>2, <1>8, <2>1, <2>2 DEF WiringInv, RulesKnown
<1>9. RulesKnown(client, content, marks, mine)'
  BY <1>6, <1>8 DEF RulesKnown
<1> QED
  BY <1>2, <1>6, <1>7, <1>9 DEF WiringInv, WiringTyped, LineKnown

\* The claim on a rule comes before the rule.
LEMMA ClaimStep ==
    ASSUME WiringInv, NEW p, Claim(p)
    PROVE  WiringInv'
<1>1. /\ job \in Jobs /\ job.todo # <<>>
      /\ Head(job.todo)[1] = "claim" /\ Head(job.todo)[2] = p
      /\ At("claim", p) /\ "claim" \in StepNames
  BY StepAt DEF Claim, StepNames
<1>2. Opens(Head(job.todo))
  BY <1>1 DEF Opens
<1>3. /\ content' = content /\ status' = status /\ saved' = saved /\ Kept
      /\ \/ /\ marks \ {"settingsMade"} \subseteq marks' /\ p \in marks'
            /\ Advance
         \/ Skip /\ marks' = marks
  BY DEF Claim
<1>4. /\ job' \in Jobs
      /\ TodoKept(job.todo, client, content, marks, status, saved, last)'
      /\ client' = client /\ last' = last /\ mine' = mine
  <2>1. CASE Skip
    BY <1>1, <1>2, <1>3, <2>1, CommandMoves
  <2>2. CASE p \in marks' /\ Advance
    <3>1. \A x : Follows(x, Head(job.todo))
                   => Ready(x, client, content', marks', status', saved', last)
      BY <1>1, <2>2 DEF Follows, Ready
    <3> QED
      BY <1>1, <1>2, <1>3, <2>2, <3>1, CommandAnnounces
  <2> QED
    BY <1>3, <2>1, <2>2
<1>5. \A q \in Rules : q \in marks => q \in marks'
  BY <1>3 DEF Rules
<1>6. RulesKnown(client, content, marks, mine)'
  BY <1>3, <1>4, <1>5 DEF WiringInv, RulesKnown
<1> QED
  BY <1>3, <1>4, <1>6 DEF WiringInv, WiringTyped, LineKnown

\* The rule that was claimed.
LEMMA RuleStep ==
    ASSUME WiringInv, NEW p, Rule(p)
    PROVE  WiringInv'
<1>1. /\ job \in Jobs /\ job.todo # <<>>
      /\ Head(job.todo)[1] = "rule" /\ Head(job.todo)[2] = p
      /\ Ready(Head(job.todo), client, content, marks, status, saved, last)
      /\ At("rule", p) /\ "rule" \in StepNames
  BY StepAt DEF Rule, StepNames
<1>2. p \in marks
  BY <1>1 DEF Ready
<1>3. ~Opens(Head(job.todo))
  BY <1>1 DEF Opens
<1>4. /\ Write(p, content[p] \cup {"file", "rule"}) /\ Advance /\ Kept
      /\ marks' = marks /\ status' = status /\ saved' = saved
  BY DEF Rule
<1>5. /\ job' \in Jobs
      /\ TodoKept(job.todo, client, content, marks, status, saved, last)'
      /\ client' = client /\ last' = last /\ mine' = mine
  BY <1>1, <1>3, <1>4, CommandMoves
<1>6. /\ content' = [q \in WiredPlaces |-> content'[q]]
      /\ \A q \in WiredPlaces :
           content'[q] = IF q = p THEN content[p] \cup {"file", "rule"} ELSE content[q]
  BY <1>4, PlaceWritten DEF WiringInv, WiringTyped
<1>7. ASSUME client = "antigravity", NEW q \in Rules, "rule" \in content'[q]
      PROVE  q \in marks \cup mine
  <2>1. q \in WiredPlaces
    BY <1>7, RulePlaces DEF WiringInv, WiringTyped
  <2>2. q = p \/ "rule" \in content[q]
    BY <1>6, <1>7, <2>1
  <2> QED
    BY <1>2, <1>7, <2>2 DEF WiringInv, RulesKnown
<1>8. RulesKnown(client, content, marks, mine)'
  BY <1>4, <1>5, <1>7 DEF RulesKnown
<1> QED
  BY <1>4, <1>5, <1>6, <1>8 DEF WiringInv, WiringTyped, LineKnown

\* The claimed rule goes before its claim.
LEMMA WithdrawStep ==
    ASSUME WiringInv, NEW p, Withdraw(p)
    PROVE  WiringInv'
<1>1. /\ job \in Jobs /\ job.todo # <<>>
      /\ Head(job.todo)[1] = "withdraw" /\ Head(job.todo)[2] = p
      /\ At("withdraw", p) /\ "withdraw" \in StepNames
  BY StepAt DEF Withdraw, StepNames
<1>2. Opens(Head(job.todo))
  BY <1>1 DEF Opens
<1>3. marks' = marks /\ status' = status /\ saved' = saved /\ Kept
  BY DEF Withdraw
<1>4. CASE Skip /\ content' = content
  <2>1. /\ job' \in Jobs
        /\ TodoKept(job.todo, client, content, marks, status, saved, last)'
        /\ client' = client /\ last' = last /\ mine' = mine
    BY <1>1, <1>2, <1>3, <1>4, CommandMoves
  <2> QED
    BY <1>3, <1>4, <2>1 DEF WiringInv, WiringTyped, LineKnown, RulesKnown
<1>5. ASSUME Advance, NEW pieces, Write(p, pieces), "rule" \notin pieces
      PROVE  WiringInv'
  <2>1. /\ content' = [q \in WiredPlaces |-> content'[q]]
        /\ \A q \in WiredPlaces : content'[q] = IF q = p THEN pieces ELSE content[q]
    BY <1>5, PlaceWritten DEF WiringInv, WiringTyped
  <2>2. ASSUME NEW x, Follows(x, Head(job.todo))
        PROVE  Ready(x, client, content', marks', status', saved', last)
    <3>1. x[1] = "unclaim" /\ x[2] = p
      BY <1>1, <2>2 DEF Follows
    <3>2. (client = "antigravity" /\ p \in Rules) => "rule" \notin content'[p]
      BY <1>5, <2>1, RulePlaces DEF WiringInv, WiringTyped
    <3> QED
      BY <3>1, <3>2 DEF Ready
  <2>3. /\ job' \in Jobs
        /\ TodoKept(job.todo, client, content, marks, status, saved, last)'
        /\ client' = client /\ last' = last /\ mine' = mine
    BY <1>1, <1>2, <1>3, <1>5, <2>2, CommandAnnounces
  <2>4. RulesKnown(client, content, marks, mine)'
    BY <1>3, <1>5, <2>3, NoNewRule
  <2> QED
    BY <1>3, <2>1, <2>3, <2>4 DEF WiringInv, WiringTyped, LineKnown
<1>6. \/ Skip /\ content' = content
      \/ Advance /\ \E pieces : Write(p, pieces) /\ "rule" \notin pieces
  BY DEF Withdraw
<1> QED
  BY <1>4, <1>5, <1>6

\* The claim on a rule that is gone.
LEMMA UnclaimStep ==
    ASSUME WiringInv, NEW p, Unclaim(p)
    PROVE  WiringInv'
<1>1. /\ job \in Jobs /\ job.todo # <<>>
      /\ Head(job.todo)[1] = "unclaim" /\ Head(job.todo)[2] = p
      /\ Ready(Head(job.todo), client, content, marks, status, saved, last)
      /\ At("unclaim", p) /\ "unclaim" \in StepNames
  BY StepAt DEF Unclaim, StepNames
<1>2. (client = "antigravity" /\ p \in Rules) => "rule" \notin content[p]
  BY <1>1 DEF Ready
<1>3. ~Opens(Head(job.todo))
  BY <1>1 DEF Opens
<1>4. /\ content' = content /\ status' = status /\ saved' = saved /\ Kept /\ Advance
      /\ marks \ {p, "settingsMade"} \subseteq marks'
  BY DEF Unclaim
<1>5. /\ job' \in Jobs
      /\ TodoKept(job.todo, client, content, marks, status, saved, last)'
      /\ client' = client /\ last' = last /\ mine' = mine
  BY <1>1, <1>3, <1>4, CommandMoves
<1>6. \A q \in Rules : (q \in marks /\ q # p) => q \in marks'
  BY <1>4 DEF Rules
<1>7. RulesKnown(client, content, marks, mine)'
  BY <1>2, <1>4, <1>5, <1>6 DEF WiringInv, RulesKnown
<1> QED
  BY <1>4, <1>5, <1>7 DEF WiringInv, WiringTyped, LineKnown

\* A note of a file ACC created.
LEMMA MarkStep ==
    ASSUME WiringInv, NEW p, Mark(p)
    PROVE  WiringInv'
<1>1. /\ Head(job.todo)[1] = "mark" /\ At("mark", p) /\ "mark" \in StepNames
  BY StepAt DEF Mark, StepNames
<1>2. ~Opens(Head(job.todo))
  BY <1>1 DEF Opens
<1>3. /\ content' = content /\ status' = status /\ saved' = saved /\ Kept /\ Advance
      /\ marks \subseteq marks'
  BY DEF Mark
<1>4. /\ job' \in Jobs
      /\ TodoKept(job.todo, client, content, marks, status, saved, last)'
      /\ client' = client /\ last' = last /\ mine' = mine
  BY <1>1, <1>2, <1>3, CommandMoves
<1>5. RulesKnown(client, content, marks, mine)'
  BY <1>3, <1>4 DEF WiringInv, RulesKnown
<1> QED
  BY <1>3, <1>4, <1>5 DEF WiringInv, WiringTyped, LineKnown

\* The directory goes, the files stay.
LEMMA RemoveDirectoryStep ==
    ASSUME WiringInv, RemoveDirectory
    PROVE  WiringInv'
<1>1. /\ Head(job.todo)[1] = "rmdir" /\ At("rmdir", "all") /\ "rmdir" \in StepNames
  BY StepAt DEF RemoveDirectory, StepNames
<1>2. ~Opens(Head(job.todo))
  BY <1>1 DEF Opens
<1>3. /\ content' = content /\ marks' = marks /\ status' = status /\ saved' = saved
      /\ Kept /\ Advance
  BY DEF RemoveDirectory
<1>4. /\ job' \in Jobs
      /\ TodoKept(job.todo, client, content, marks, status, saved, last)'
      /\ client' = client /\ last' = last /\ mine' = mine
  BY <1>1, <1>2, <1>3, CommandMoves
<1> QED
  BY <1>3, <1>4 DEF WiringInv, WiringTyped, LineKnown, RulesKnown

\* The status line is noted before it is replaced, and replaced back before
\* the note goes.
LEMMA StatusSteps ==
    ASSUME WiringInv, Save \/ SetStatus \/ Restore \/ Forget
    PROVE  WiringInv'
<1>1. /\ content' = content /\ marks' = marks /\ Kept
  BY DEF Save, SetStatus, Restore, Forget
<1>2. /\ status \in {"none", "user", "acc"} /\ last \in {"none", "user"}
      /\ saved \in {"absent", "none", "user"}
      /\ status = "acc" => saved = last
      /\ status # "acc" => status = last
  BY DEF WiringInv, WiringTyped, LineKnown
<1>3. SUFFICES /\ job' \in Jobs
               /\ TodoKept(job.todo, client, content, marks, status, saved, last)'
               /\ client' = client /\ last' = last /\ mine' = mine
               /\ status' \in {"none", "user", "acc"} /\ saved' \in {"absent", "none", "user"}
               /\ LineKnown(status', saved', last)
  BY <1>1 DEF WiringInv, WiringTyped, RulesKnown
<1>4. CASE Save
  <2>1. /\ Head(job.todo)[1] = "save" /\ At("save", "status") /\ "save" \in StepNames
    BY <1>4, StepAt DEF Save, StepNames
  <2>2. Opens(Head(job.todo))
    BY <2>1 DEF Opens
  <2>3. CASE Skip /\ saved' = saved
    <3>1. status' = status
      BY <1>4 DEF Save
    <3> QED
      BY <1>1, <1>2, <2>1, <2>2, <2>3, <3>1, CommandMoves DEF LineKnown
  <2>4. CASE Advance /\ ~(saved # "absent" /\ status # "acc")
                     /\ saved' = IF saved = "absent" THEN status ELSE saved
    <3>1. status' = status /\ saved' = last
      BY <1>2, <1>4, <2>4 DEF Save
    <3>2. \A x : Follows(x, Head(job.todo))
                   => Ready(x, client, content', marks', status', saved', last)
      BY <2>1, <3>1 DEF Follows, Ready
    <3>3. /\ job' \in Jobs
          /\ TodoKept(job.todo, client, content, marks, status, saved, last)'
          /\ client' = client /\ last' = last /\ mine' = mine
      BY <1>1, <2>1, <2>2, <2>4, <3>2, CommandAnnounces
    <3> QED
      BY <1>2, <3>1, <3>3 DEF LineKnown
  <2> QED
    BY <1>4, <2>3, <2>4 DEF Save
<1>5. CASE SetStatus
  <2>1. /\ Head(job.todo)[1] = "set" /\ At("set", "status") /\ "set" \in StepNames
        /\ Ready(Head(job.todo), client, content, marks, status, saved, last)
    BY <1>5, StepAt DEF SetStatus, StepNames
  <2>2. ~Opens(Head(job.todo)) /\ saved = last
    BY <2>1 DEF Opens, Ready
  <2>3. Advance /\ status' = "acc" /\ saved' = saved
    BY <1>5 DEF SetStatus
  <2>4. /\ job' \in Jobs
        /\ TodoKept(job.todo, client, content, marks, status, saved, last)'
        /\ client' = client /\ last' = last /\ mine' = mine
    BY <1>1, <2>1, <2>2, <2>3, CommandMoves
  <2> QED
    BY <1>2, <2>2, <2>3, <2>4 DEF LineKnown
<1>6. CASE Restore
  <2>1. /\ Head(job.todo)[1] = "restore" /\ At("restore", "status") /\ "restore" \in StepNames
    BY <1>6, StepAt DEF Restore, StepNames
  <2>2. Opens(Head(job.todo))
    BY <2>1 DEF Opens
  <2>3. /\ IF saved = "absent" THEN Skip ELSE Advance
        /\ status' = IF saved # "absent" /\ status = "acc" THEN saved ELSE status
        /\ saved' = saved
    BY <1>6 DEF Restore
  <2>4. CASE saved = "absent"
    BY <1>1, <1>2, <2>1, <2>2, <2>3, <2>4, CommandMoves DEF LineKnown
  <2>5. CASE saved # "absent"
    <3>1. status' # "acc" /\ status' = last
      BY <1>2, <2>3, <2>5
    <3>2. \A x : Follows(x, Head(job.todo))
                   => Ready(x, client, content', marks', status', saved', last)
      BY <2>1, <3>1 DEF Follows, Ready
    <3>3. /\ job' \in Jobs
          /\ TodoKept(job.todo, client, content, marks, status, saved, last)'
          /\ client' = client /\ last' = last /\ mine' = mine
      BY <1>1, <2>1, <2>2, <2>3, <2>5, <3>2, CommandAnnounces
    <3> QED
      BY <1>2, <2>3, <3>1, <3>3 DEF LineKnown
  <2> QED
    BY <2>4, <2>5
<1>7. CASE Forget
  <2>1. /\ Head(job.todo)[1] = "forget" /\ At("forget", "status") /\ "forget" \in StepNames
        /\ Ready(Head(job.todo), client, content, marks, status, saved, last)
    BY <1>7, StepAt DEF Forget, StepNames
  <2>2. ~Opens(Head(job.todo)) /\ status # "acc"
    BY <2>1 DEF Opens, Ready
  <2>3. Advance /\ status' = status /\ saved' = "absent"
    BY <1>7 DEF Forget
  <2>4. /\ job' \in Jobs
        /\ TodoKept(job.todo, client, content, marks, status, saved, last)'
        /\ client' = client /\ last' = last /\ mine' = mine
    BY <1>1, <2>1, <2>2, <2>3, CommandMoves
  <2> QED
    BY <1>2, <2>2, <2>3, <2>4 DEF LineKnown
<1> QED
  BY <1>4, <1>5, <1>6, <1>7

\* A command begins with the first of its steps.
LEMMA BeginStep ==
    ASSUME WiringInv, NEW act \in {"install", "uninstall"}, NEW v \in 1 .. 2,
           NEW on \in BOOLEAN, Begin(act, v, on)
    PROVE  WiringInv'
<1> DEFINE t == IF act = "install" THEN InstallSteps(client, on) ELSE UninstallSteps(client)
           b == dir = "none"
           fresh == {p \in Merged(client) : content[p] = {}}
           made == {p \in Merged(client) : "made" \in content[p]}
<1>1. job' = [act |-> act, todo |-> t, ver |-> v, makes |-> b, fresh |-> fresh,
              made |-> made, keep |-> {}]
  BY DEF Begin
<1>2. /\ content' = content /\ marks' = marks /\ status' = status /\ saved' = saved
      /\ client' = client /\ last' = last /\ mine' = mine
  BY DEF Begin, ghosts
<1>3. client \in Adapters
  BY DEF WiringInv, WiringTyped
<1>4. Program(client, t)
  BY <1>3, InstallProgram, UninstallProgram
<1>5. b \in BOOLEAN
  OBVIOUS
<1>6. fresh \in SUBSET StepPlaces /\ made \in SUBSET StepPlaces
  <2>1. Merged(client) \subseteq StepPlaces
    BY <1>3, AdaptersAssumption DEF Merged, StepPlaces
  <2> QED
    BY <2>1
<1> HIDE DEF t, b, fresh, made
<1>7. t \in Seq(WiringSteps)
  BY <1>4 DEF Program, Coupled
<1>8. job' \in Jobs /\ job'.todo = t
  BY <1>1, <1>5, <1>6, <1>7 DEF Jobs
<1>9. TodoKept(t, client, content, marks, status, saved, last)
  BY <1>4, ProgramKept
<1>10. TodoKept(job.todo, client, content, marks, status, saved, last)'
  BY <1>2, <1>8, <1>9
<1> QED
  BY <1>2, <1>8, <1>10 DEF WiringInv, WiringTyped, LineKnown, RulesKnown

\* A command ends, refused, cut short or done.
LEMMA EndStep ==
    ASSUME WiringInv, FinishInstall \/ FinishUninstall \/ Refused \/ Stop
    PROVE  WiringInv'
<1>1. /\ job' = Idle /\ client' = client /\ marks' = marks /\ status' = status
      /\ saved' = saved /\ last' = last /\ mine' = mine
  BY DEF FinishInstall, FinishUninstall, Refused, Stop, ghosts
<1>2. \/ content' = content
      \/ \E p : Write(p, content[p] \cup {"part"})
  BY DEF FinishInstall, FinishUninstall, Refused, Stop
<1>3. /\ content' = [q \in WiredPlaces |-> content'[q]]
      /\ RulesKnown(client, content, marks, mine)'
  <2>1. CASE content' = content
    BY <1>1, <2>1 DEF WiringInv, WiringTyped, RulesKnown
  <2>2. ASSUME NEW p, Write(p, content[p] \cup {"part"})
        PROVE  /\ content' = [q \in WiredPlaces |-> content'[q]]
               /\ RulesKnown(client, content, marks, mine)'
    BY <1>1, <2>2, NoNewRule
  <2> QED
    BY <1>2, <2>1, <2>2
<1> QED
  BY <1>1, <1>3 DEF WiringInv, WiringTyped, LineKnown

\* The user edits a file; a rule of theirs is theirs while the file is there.
LEMMA EditFileStep ==
    ASSUME WiringInv, NEW p, EditFile(p)
    PROVE  WiringInv'
<1>1. /\ job = Idle /\ job' = Idle /\ client' = client /\ marks' = marks /\ saved' = saved
      /\ status' = status /\ last' = last
  BY DEF EditFile, Edits
<1>2. PICK pieces : /\ Write(p, pieces)
                    /\ "rule" \in pieces => "rule" \in content[p]
  BY DEF EditFile
<1>3. mine' = IF content'[p] = {} THEN mine \ {p} ELSE mine
  BY DEF EditFile
<1>4. /\ content' = [q \in WiredPlaces |-> content'[q]]
      /\ \A q \in WiredPlaces : content'[q] = IF q = p THEN pieces ELSE content[q]
  BY <1>2, PlaceWritten DEF WiringInv, WiringTyped
<1>5. ASSUME client = "antigravity", NEW q \in Rules, "rule" \in content'[q]
      PROVE  q \in marks \cup mine'
  <2>1. q \in WiredPlaces
    BY <1>5, RulePlaces DEF WiringInv, WiringTyped
  <2>2. "rule" \in content[q]
    BY <1>2, <1>4, <1>5, <2>1
  <2>3. q \in marks \cup mine
    BY <1>5, <2>2 DEF WiringInv, RulesKnown
  <2> QED
    BY <1>3, <1>5, <2>3
<1>6. RulesKnown(client, content, marks, mine)'
  BY <1>1, <1>5 DEF RulesKnown
<1> QED
  BY <1>1, <1>4, <1>6 DEF WiringInv, WiringTyped, LineKnown

\* The user writes the rule, or takes it out.
LEMMA EditRuleStep ==
    ASSUME WiringInv, NEW p, EditRule(p)
    PROVE  WiringInv'
<1>1. /\ job = Idle /\ job' = Idle /\ client' = client /\ marks' = marks /\ saved' = saved
      /\ status' = status /\ last' = last
  BY DEF EditRule, Edits
<1>2. PICK pieces : /\ Write(p, pieces)
                    /\ \/ mine' = IF p \in marks THEN mine ELSE mine \cup {p}
                       \/ mine' = mine \ {p} /\ "rule" \notin pieces
  BY DEF EditRule
<1>3. /\ content' = [q \in WiredPlaces |-> content'[q]]
      /\ \A q \in WiredPlaces : content'[q] = IF q = p THEN pieces ELSE content[q]
  BY <1>2, PlaceWritten DEF WiringInv, WiringTyped
<1>4. ASSUME client = "antigravity", NEW q \in Rules, "rule" \in content'[q]
      PROVE  q \in marks \cup mine'
  <2>1. q \in WiredPlaces
    BY <1>4, RulePlaces DEF WiringInv, WiringTyped
  <2>2. CASE q = p
    BY <1>2, <1>3, <1>4, <2>1, <2>2
  <2>3. CASE q # p
    <3>1. q \in marks \cup mine
      BY <1>3, <1>4, <2>1, <2>3 DEF WiringInv, RulesKnown
    <3> QED
      BY <1>2, <2>3, <3>1
  <2> QED
    BY <2>2, <2>3
<1>5. RulesKnown(client, content, marks, mine)'
  BY <1>1, <1>4 DEF RulesKnown
<1> QED
  BY <1>1, <1>3, <1>5 DEF WiringInv, WiringTyped, LineKnown

\* The user's other edits.
LEMMA OtherEdits ==
    ASSUME WiringInv,
           \/ \E p \in Trees(client) : EditTree(p)
           \/ StripMarkers \/ EditBlock \/ EditStatus \/ EditDirectory
    PROVE  WiringInv'
<1>1. /\ job = Idle /\ job' = Idle /\ client' = client /\ marks' = marks /\ saved' = saved
      /\ mine' = mine
  BY DEF EditTree, StripMarkers, EditBlock, EditStatus, EditDirectory, Edits
<1>2. CASE EditStatus \/ EditDirectory
  <2>1. content' = content
    BY <1>2 DEF EditStatus, EditDirectory
  <2>2. \/ status' = status /\ last' = last
        \/ status' \in {"none", "user"} /\ last' = status'
    BY <1>2 DEF EditStatus, EditDirectory
  <2> QED
    BY <1>1, <2>1, <2>2 DEF WiringInv, WiringTyped, LineKnown, RulesKnown
<1>3. CASE (\E p \in Trees(client) : EditTree(p)) \/ StripMarkers \/ EditBlock
  <2>1. status' = status /\ last' = last
    BY <1>3 DEF EditTree, StripMarkers, EditBlock
  <2>2. PICK p, pieces : /\ Write(p, pieces)
                         /\ "rule" \in pieces => "rule" \in content[p]
    <3>1. CASE StripMarkers
      BY <3>1 DEF StripMarkers
    <3>2. CASE EditBlock
      <4>1. PICK found \in SUBSET {"after", "open"} :
              Write("config", (content["config"] \ {"after", "open"}) \cup found)
        BY <3>2 DEF EditBlock
      <4>2. "rule" \in (content["config"] \ {"after", "open"}) \cup found
              => "rule" \in content["config"]
        BY <4>1
      <4> QED
        BY <4>1, <4>2
    <3>3. ASSUME NEW p, EditTree(p)
          PROVE  \E pieces : /\ Write(p, pieces)
                             /\ "rule" \in pieces => "rule" \in content[p]
      BY <3>3 DEF EditTree
    <3> QED
      BY <1>3, <3>1, <3>2, <3>3
  <2>3. /\ content' = [q \in WiredPlaces |-> content'[q]]
        /\ RulesKnown(client, content, marks, mine)'
    BY <1>1, <2>2, NoNewRule
  <2> QED
    BY <1>1, <2>1, <2>3 DEF WiringInv, WiringTyped, LineKnown
<1> QED
  BY <1>2, <1>3

\* The invariant holds at first.
LEMMA WiringBegins == WInit => WiringInv
<1> SUFFICES ASSUME WInit
             PROVE  WiringInv
  OBVIOUS
<1>1. client \in Adapters /\ job = Idle
  BY DEF WInit
<1>2. PICK f \in {{}, {"file"}, {"file", "user"}} :
        content = [p \in WiredPlaces |-> IF p \in Merged(client) THEN f ELSE {}]
  BY DEF WInit
<1>3. \A p \in WiredPlaces : "rule" \notin content[p]
  BY <1>2
<1>4. RulesKnown(client, content, marks, mine)
  BY <1>1, <1>3, RulePlaces DEF RulesKnown
<1>5. status \in {"none", "user"} /\ last = status /\ saved = "absent"
  BY DEF WInit
<1>6. content = [p \in WiredPlaces |-> content[p]]
  BY <1>2
<1> QED
  BY <1>1, <1>4, <1>5, <1>6 DEF WiringInv, WiringTyped, LineKnown

\* And every step keeps it.
LEMMA WiringKept == WiringInv /\ [WNext]_wvars => WiringInv'
<1> SUFFICES ASSUME WiringInv, [WNext]_wvars
             PROVE  WiringInv'
  OBVIOUS
<1>1. CASE UNCHANGED wvars
  BY <1>1 DEF wvars, WiringInv, WiringTyped, LineKnown, RulesKnown
<1>2. ASSUME NEW v \in 1 .. 2, NEW on \in BOOLEAN, Begin("install", v, on)
      PROVE  WiringInv'
  BY <1>2, BeginStep
<1>3. CASE Begin("uninstall", 1, FALSE)
  <2>1. "uninstall" \in {"install", "uninstall"} /\ 1 \in 1 .. 2 /\ FALSE \in BOOLEAN
    OBVIOUS
  <2> QED
    BY <1>3, <2>1, BeginStep, Zenon
<1>4. CASE AccStep
  <2>1. ASSUME NEW p, Clear(p) \/ Fill(p) \/ Enter(p) \/ Empty(p) \/ Drop(p)
        PROVE  WiringInv'
    BY <2>1, PlainSteps
  <2>2. ASSUME NEW p, Mark(p) \/ Claim(p) \/ Rule(p)
        PROVE  WiringInv'
    BY <2>2, MarkStep, ClaimStep, RuleStep
  <2>3. ASSUME NEW p, Own(p) \/ Leave(p) \/ Reap(p) \/ Withdraw(p) \/ Unclaim(p)
        PROVE  WiringInv'
    BY <2>3, OwnStep, LeaveStep, ReapStep, WithdrawStep, UnclaimStep
  <2>4. CASE Save \/ SetStatus \/ Restore \/ Forget
    BY <2>4, StatusSteps
  <2>5. CASE RemoveDirectory
    BY <2>5, RemoveDirectoryStep
  <2>6. CASE FinishInstall \/ FinishUninstall \/ Refused \/ Stop
    BY <2>6, EndStep
  <2> QED
    BY <1>4, <2>1, <2>2, <2>3, <2>4, <2>5, <2>6 DEF AccStep
<1>5. CASE UserEdit
  <2>1. ASSUME NEW p, EditFile(p)
        PROVE  WiringInv'
    BY <2>1, EditFileStep
  <2>2. ASSUME NEW p, EditRule(p)
        PROVE  WiringInv'
    BY <2>2, EditRuleStep
  <2> QED
    BY <1>5, <2>1, <2>2, OtherEdits DEF UserEdit
<1> QED
  BY <1>1, <1>2, <1>3, <1>4, <1>5 DEF WNext

\* What the invariant says of ACC's own: the claims and the status line.
LEMMA WiringSays == WiringInv => OwnershipKnown
  BY DEF WiringInv, RulesKnown, LineKnown, Rules, OwnershipKnown

\* Whatever install or uninstall is cut short between two of an adapter's
\* writes, ACC still knows what is its own: a rule it added for Antigravity is
\* claimed, and the status line it shows has the user's own noted beside it.
THEOREM OwnershipStays == WSpec => []OwnershipKnown
<1>1. WInit => WiringInv
  BY WiringBegins
<1>2. WiringInv /\ [WNext]_wvars => WiringInv'
  BY WiringKept
<1>3. WiringInv => OwnershipKnown
  BY WiringSays
<1> QED
  BY <1>1, <1>2, <1>3, PTL DEF WSpec

(***************************************************************************)
(* Nothing but its own: what install writes and uninstall takes back.      *)
(***************************************************************************)
\* The files an adapter's entries are taken out of.
TakesFrom(c) == CASE c = "antigravity" -> {"hooks", "manifest"}
                  [] c = "claude"      -> {"known", "installed", "settings"}
                  [] c = "codex"       -> {"manifest", "config"}
                  [] c = "gemini"      -> {"settings"}
                  [] c = "grok"        -> {}
                  [] c = "kimi"        -> {"config", "registry"}

\* The steps of an install, and those of an uninstall.
InstallOps(c, op, p) ==
  \/ op \in {"clear", "fill"} /\ p \in Trees(c)
  \/ op = "enter" /\ p \in TakesFrom(c)
  \/ op = "mark" /\ p \in {"hooks", "manifest"}
  \/ op \in {"claim", "rule"} /\ p \in Rules /\ c = "antigravity"
  \/ op \in {"save", "set", "restore", "forget"} /\ p = "status" /\ HasIndicator(c)
UninstallOps(c, op, p) ==
  \/ op \in {"own", "drop"} /\ p \in Trees(c)
  \/ op \in {"leave", "reap"} /\ p \in TakesFrom(c)
  \/ op = "empty" /\ p \in TakesFrom(c) /\ p \in {"known", "installed", "registry"}
  \/ op \in {"withdraw", "unclaim"} /\ p \in Rules /\ c = "antigravity"
  \/ op \in {"restore", "forget"} /\ p = "status"
  \/ op = "rmdir" /\ p = "all"
Installs(c, t) == t \in Seq({x \in WiringSteps : InstallOps(c, x[1], x[2])})
Uninstalls(c, t) == t \in Seq({x \in WiringSteps : UninstallOps(c, x[1], x[2])})

\* A step that is still to come.
Ahead(t, op, p) == \E i \in 1 .. Len(t) : t[i] = <<op, p>>

\* The recorded trees first, the directories last.
Ordered(t) ==
  /\ \A i, j \in 1 .. Len(t) : (i < j /\ t[j][1] = "own") => t[i][1] = "own"
  /\ t # <<>> => t[Len(t)] = <<"rmdir", "all">>

Installing == job # Idle /\ job.act = "install"
Uninstalling == job # Idle /\ job.act = "uninstall"

\* A file of the client's holds ACC's entries only where they are taken out.
FileHeld(q) ==
  /\ {"v1", "v2", "part"} \cap content[q] = {}
  /\ "acc" \in content[q] => q \in TakesFrom(client)
  /\ "bare" \in content[q] => client = "codex" /\ q = "config"
  /\ {"after", "open"} \cap content[q] # {} => client = "kimi" /\ q = "config"

\* A rule of the user's stands, unclaimed.
RuleHeld(q) == client = "antigravity" /\ q \in Rules /\ "rule" \in content[q] /\ q \notin marks

\* A tree is as it was recorded, or the user's, or gone, unless an install was
\* cut short over it.
TreeHeld(q) ==
  (record # NoRecord /\ ~cut /\ ~Installing) =>
    content[q] = record.trees[q] \/ Yours(content[q]) # {} \/ content[q] \cap Acc = {}

\* What an uninstall has done to a tree, or is still to do.
TreeTaken(q) ==
  /\ record # NoRecord => content[q] = {} \/ q \in job.keep \/ Ahead(job.todo, "own", q)
  /\ (record # NoRecord /\ q \in job.keep) => content[q] # record.trees[q]
  /\ \/ Ahead(job.todo, "drop", q) \/ content[q] = {} \/ "edit" \in content[q]
     \/ q \in job.keep

\* And to a file.
FileTaken(q) ==
  content[q] \cap Acc = {} \/ Ahead(job.todo, "leave", q) \/ Ahead(job.todo, "empty", q)

\* And to a rule.
RuleTaken(q) ==
  "rule" \in content[q] => \/ q \in mine \/ (q \in marks /\ "bad" \in content[q])
                           \/ Ahead(job.todo, "withdraw", q)

\* One place.
PlaceHeld(q) ==
  /\ q \in Merged(client) => FileHeld(q)
  /\ q \in mine => RuleHeld(q)
  /\ q \in Trees(client) => TreeHeld(q)
  /\ Uninstalling => /\ q \in Trees(client) => TreeTaken(q)
                     /\ q \in Merged(client) => FileTaken(q)
                     /\ (client = "antigravity" /\ q \in Rules) => RuleTaken(q)

\* The command as a whole.
CommandHeld ==
  /\ saved # "absent" => HasIndicator(client)
  /\ Installing => Installs(client, job.todo)
  /\ Uninstalling =>
       /\ Uninstalls(client, job.todo) /\ Ordered(job.todo)
       /\ \/ saved = "absent"
          \/ Ahead(job.todo, "restore", "status") \/ Ahead(job.todo, "forget", "status")
       /\ (job.todo = <<>> /\ record # NoRecord /\ record.dirs /\ dir = "empty")
            => \E p \in Trees(client) : content[p] # {}

\* With the invariant of the claims, it is inductive.
TakingInv == WiringInv /\ (\A q : PlaceHeld(q)) /\ CommandHeld

(***************************************************************************)
(* The places of an adapter, and what its programs do to them.             *)
(***************************************************************************)
\* The trees of each adapter.
LEMMA TreesAre ==
    /\ Trees("antigravity") = {"shim"}
    /\ Trees("claude") = {"market", "cache"}
    /\ Trees("codex") = {"plugin", "cache", "rules"}
    /\ Trees("gemini") = {"plugin"}
    /\ Trees("grok") = {"hooks", "shim", "skill"}
    /\ Trees("kimi") = {"plugin"}
<1>1. /\ Artifacts("antigravity") = <<"shim">>
      /\ Artifacts("claude") = <<"market", "cache">>
      /\ Artifacts("codex") = <<"plugin", "cache", "rules">>
      /\ Artifacts("gemini") = <<"plugin">>
      /\ Artifacts("grok") = <<"hooks", "shim", "skill">>
      /\ Artifacts("kimi") = <<"plugin">>
  BY DEF Artifacts
<1>2. \A c, x : Artifacts(c) = <<x>> => Trees(c) = {x}
  <2>1. ASSUME NEW c, NEW x, Artifacts(c) = <<x>>
        PROVE  Trees(c) = {x}
    <3> DEFINE a == <<x>>
    <3>1. DOMAIN a = {1} /\ a[1] = x
      OBVIOUS
    <3> HIDE DEF a
    <3> QED
      BY <2>1, <3>1 DEF Trees, a
  <2> QED
    BY <2>1
<1>3. \A c, x, y : Artifacts(c) = <<x, y>> => Trees(c) = {x, y}
  <2>1. ASSUME NEW c, NEW x, NEW y, Artifacts(c) = <<x, y>>
        PROVE  Trees(c) = {x, y}
    <3> DEFINE a == <<x, y>>
    <3>1. DOMAIN a = {1, 2} /\ a[1] = x /\ a[2] = y
      OBVIOUS
    <3> HIDE DEF a
    <3> QED
      BY <2>1, <3>1 DEF Trees, a
  <2> QED
    BY <2>1
<1>4. \A c, x, y, z : Artifacts(c) = <<x, y, z>> => Trees(c) = {x, y, z}
  <2>1. ASSUME NEW c, NEW x, NEW y, NEW z, Artifacts(c) = <<x, y, z>>
        PROVE  Trees(c) = {x, y, z}
    <3> DEFINE a == <<x, y, z>>
    <3>1. DOMAIN a = {1, 2, 3} /\ a[1] = x /\ a[2] = y /\ a[3] = z
      OBVIOUS
    <3> HIDE DEF a
    <3> QED
      BY <2>1, <3>1 DEF Trees, a
  <2> QED
    BY <2>1
<1> QED
  BY <1>1, <1>2, <1>3, <1>4

\* A tree is no file of the client's, and only what an install enters is one
\* an uninstall takes entries from.
LEMMA PlacesApart ==
    ASSUME NEW c \in Adapters
    PROVE  /\ Trees(c) \cap Merged(c) = {}
           /\ Trees(c) \subseteq StepPlaces /\ Trees(c) \subseteq WiredPlaces
           /\ Merged(c) \subseteq WiredPlaces /\ TakesFrom(c) \subseteq Merged(c)
           /\ c = "antigravity" => Rules \subseteq Merged(c) /\ Rules \cap TakesFrom(c) = {}
           /\ "rules" \notin Shared(c)
<1>1. /\ Trees(c) \cap Merged(c) = {} /\ Trees(c) \subseteq StepPlaces
      /\ TakesFrom(c) \subseteq Merged(c)
      /\ c = "antigravity" => Rules \subseteq Merged(c) /\ Rules \cap TakesFrom(c) = {}
      /\ "rules" \notin Shared(c)
  <2>1. CASE c = "antigravity"
    BY <2>1, TreesAre DEF Merged, TakesFrom, Rules, StepPlaces, Shared
  <2>2. CASE c = "claude"
    BY <2>2, TreesAre DEF Merged, TakesFrom, StepPlaces, Shared
  <2>3. CASE c = "codex"
    BY <2>3, TreesAre DEF Merged, TakesFrom, StepPlaces, Shared
  <2>4. CASE c = "gemini"
    BY <2>4, TreesAre DEF Merged, TakesFrom, StepPlaces, Shared
  <2>5. CASE c = "grok"
    BY <2>5, TreesAre DEF Merged, TakesFrom, StepPlaces, Shared
  <2>6. CASE c = "kimi"
    BY <2>6, TreesAre DEF Merged, TakesFrom, StepPlaces, Shared
  <2> QED
    BY <2>1, <2>2, <2>3, <2>4, <2>5, <2>6, AdaptersAssumption
<1>2. Trees(c) \subseteq WiredPlaces /\ Merged(c) \subseteq WiredPlaces
  BY DEF WiredPlaces
<1> QED
  BY <1>1, <1>2

\* What an install writes.
LEMMA InstallWrites ==
    ASSUME NEW c \in Adapters, NEW on \in BOOLEAN
    PROVE  Installs(c, InstallSteps(c, on))
<1> DEFINE L == {x \in WiringSteps : InstallOps(c, x[1], x[2])}
<1>1. ASSUME NEW op \in StepNames, NEW p \in StepPlaces, InstallOps(c, op, p)
      PROVE  <<op, p>> \in L
  BY <1>1, NamedStep
<1> HIDE DEF L
<1>2. ASSUME NEW p \in Trees(c), p \in StepPlaces
      PROVE  /\ <<"fill", p>> \in L /\ Tree(p) \in Seq(L)
  <2>1. <<"clear", p>> \in L /\ <<"fill", p>> \in L
    BY <1>1, <1>2 DEF StepNames, InstallOps
  <2> QED
    BY <2>1 DEF Tree
<1>3. ASSUME NEW p \in TakesFrom(c), p \in StepPlaces
      PROVE  <<"enter", p>> \in L
  BY <1>1, <1>3 DEF StepNames, InstallOps
<1>4. <<"mark", "hooks">> \in L /\ <<"mark", "manifest">> \in L
  BY <1>1 DEF StepNames, StepPlaces, InstallOps
<1>5. c = "antigravity" => /\ <<"claim", "settings">> \in L /\ <<"rule", "settings">> \in L
                           /\ <<"claim", "desktop">> \in L /\ <<"rule", "desktop">> \in L
  BY <1>1 DEF StepNames, StepPlaces, InstallOps, Rules
<1>6. HasIndicator(c) => Indicator(c, on) \in Seq(L)
  <2>1. HasIndicator(c) => /\ <<"save", "status">> \in L /\ <<"set", "status">> \in L
                           /\ <<"restore", "status">> \in L /\ <<"forget", "status">> \in L
    BY <1>1 DEF StepNames, StepPlaces, InstallOps
  <2>2. HasIndicator(c) => /\ <<<<"save", "status">>, <<"set", "status">>>> \in Seq(L)
                           /\ <<<<"restore", "status">>, <<"forget", "status">>>> \in Seq(L)
    BY <2>1
  <2> QED
    BY <2>2 DEF Indicator
<1>7. /\ "shim" \in StepPlaces /\ "market" \in StepPlaces /\ "cache" \in StepPlaces
      /\ "plugin" \in StepPlaces /\ "rules" \in StepPlaces /\ "hooks" \in StepPlaces
      /\ "skill" \in StepPlaces /\ "manifest" \in StepPlaces /\ "settings" \in StepPlaces
      /\ "known" \in StepPlaces /\ "installed" \in StepPlaces
      /\ "config" \in StepPlaces /\ "registry" \in StepPlaces
  BY DEF StepPlaces
<1>8. CASE c = "antigravity"
  <2>1. "shim" \in Trees(c) /\ "hooks" \in TakesFrom(c) /\ "manifest" \in TakesFrom(c)
    BY <1>8, TreesAre DEF TakesFrom
  <2>2. /\ <<"fill", "shim">> \in L /\ <<"enter", "hooks">> \in L /\ <<"enter", "manifest">> \in L
    BY <1>2, <1>3, <1>7, <2>1
  <2>3. /\ AntigravityInstall \in Seq(L) /\ SkillPlugin \in Seq(L)
        /\ AllowRule \in Seq(L) /\ DesktopRule \in Seq(L)
    BY <1>4, <1>5, <1>8, <2>2 DEF AntigravityInstall, SkillPlugin, AllowRule, DesktopRule
  <2>4. AntigravityInstall \o SkillPlugin \o AllowRule \o DesktopRule \in Seq(L)
    BY <2>3
  <2> QED
    BY <1>8, <2>4 DEF InstallSteps, Installs, L
<1>9. CASE c = "claude"
  <2>1. /\ "market" \in Trees(c) /\ "cache" \in Trees(c)
        /\ "known" \in TakesFrom(c) /\ "installed" \in TakesFrom(c) /\ "settings" \in TakesFrom(c)
    BY <1>9, TreesAre DEF TakesFrom
  <2>2. /\ Tree("market") \in Seq(L) /\ Tree("cache") \in Seq(L)
        /\ <<"enter", "known">> \in L /\ <<"enter", "installed">> \in L
        /\ <<"enter", "settings">> \in L
    BY <1>2, <1>3, <1>7, <2>1
  <2>3. ClaudeInstall \in Seq(L)
    BY <2>2 DEF ClaudeInstall
  <2> QED
    BY <1>9, <2>3 DEF InstallSteps, Installs, L
<1>10. CASE c = "codex"
  <2>1. /\ "plugin" \in Trees(c) /\ "cache" \in Trees(c) /\ "rules" \in Trees(c)
        /\ "manifest" \in TakesFrom(c) /\ "config" \in TakesFrom(c)
    BY <1>10, TreesAre DEF TakesFrom
  <2>2. /\ Tree("plugin") \in Seq(L) /\ Tree("cache") \in Seq(L) /\ <<"fill", "rules">> \in L
        /\ <<"enter", "manifest">> \in L /\ <<"enter", "config">> \in L
    BY <1>2, <1>3, <1>7, <2>1
  <2>3. CodexInstall \in Seq(L)
    BY <2>2 DEF CodexInstall
  <2> QED
    BY <1>10, <2>3 DEF InstallSteps, Installs, L
<1>11. CASE c = "gemini"
  <2>1. "plugin" \in Trees(c) /\ "settings" \in TakesFrom(c)
    BY <1>11, TreesAre DEF TakesFrom
  <2>2. Tree("plugin") \in Seq(L) /\ <<"enter", "settings">> \in L
    BY <1>2, <1>3, <1>7, <2>1
  <2>3. GeminiInstall \in Seq(L)
    BY <2>2 DEF GeminiInstall
  <2> QED
    BY <1>11, <2>3 DEF InstallSteps, Installs, L
<1>12. CASE c = "grok"
  <2>1. "shim" \in Trees(c) /\ "skill" \in Trees(c) /\ "hooks" \in Trees(c) /\ HasIndicator(c)
    BY <1>12, TreesAre DEF HasIndicator
  <2>2. Tree("skill") \in Seq(L) /\ <<"fill", "shim">> \in L /\ <<"fill", "hooks">> \in L
    BY <1>2, <1>7, <2>1
  <2>3. GrokInstall \in Seq(L)
    BY <2>2 DEF GrokInstall
  <2>4. Indicator(c, on) \o GrokInstall \in Seq(L)
    BY <1>6, <2>1, <2>3
  <2> QED
    BY <1>12, <2>4 DEF InstallSteps, Installs, L
<1>13. CASE c = "kimi"
  <2>1. /\ "plugin" \in Trees(c) /\ "config" \in TakesFrom(c) /\ "registry" \in TakesFrom(c)
        /\ HasIndicator(c)
    BY <1>13, TreesAre DEF HasIndicator, TakesFrom
  <2>2. /\ Tree("plugin") \in Seq(L) /\ <<"enter", "config">> \in L
        /\ <<"enter", "registry">> \in L
    BY <1>2, <1>3, <1>7, <2>1
  <2>3. KimiInstall \in Seq(L)
    BY <2>2 DEF KimiInstall
  <2>4. Indicator(c, on) \o KimiInstall \in Seq(L)
    BY <1>6, <2>1, <2>3
  <2> QED
    BY <1>13, <2>4 DEF InstallSteps, Installs, L
<1> QED
  BY <1>8, <1>9, <1>10, <1>11, <1>12, <1>13, AdaptersAssumption

\* A step of one of two programs is a step of both, one after the other.
LEMMA AheadChain ==
    ASSUME NEW S, NEW s \in Seq(S), NEW t \in Seq(S), NEW op, NEW p,
           Ahead(s, op, p) \/ Ahead(t, op, p)
    PROVE  Ahead(s \o t, op, p)
<1> DEFINE u == s \o t
           m == Len(s)
           n == Len(t)
<1>1. m \in Nat /\ n \in Nat /\ Len(u) = m + n
  OBVIOUS
<1>2. /\ \A i \in 1 .. m : u[i] = s[i]
      /\ \A i \in m + 1 .. m + n : u[i] = t[i - m]
  OBVIOUS
<1> HIDE DEF u, m, n
<1>3. CASE Ahead(s, op, p)
  <2>1. PICK i \in 1 .. m : s[i] = <<op, p>>
    BY <1>3 DEF Ahead, m
  <2>2. i \in 1 .. Len(u) /\ u[i] = <<op, p>>
    BY <1>1, <1>2, <2>1
  <2> QED
    BY <2>2 DEF Ahead, u
<1>4. CASE Ahead(t, op, p)
  <2>1. PICK i \in 1 .. n : t[i] = <<op, p>>
    BY <1>4 DEF Ahead, n
  <2>2. i + m \in m + 1 .. m + n /\ (i + m) - m = i /\ i + m \in 1 .. Len(u)
    BY <1>1
  <2>3. u[i + m] = <<op, p>>
    BY <1>2, <2>1, <2>2
  <2> QED
    BY <2>2, <2>3 DEF Ahead, u
<1> QED
  BY <1>3, <1>4

\* Three programs one after the other, however they are put together.
LEMMA ConcatAssociates ==
    ASSUME NEW S, NEW s \in Seq(S), NEW t \in Seq(S), NEW u \in Seq(S)
    PROVE  s \o t \o u = s \o (t \o u)
<1> DEFINE v == s \o t \o u
           w == s \o (t \o u)
<1>1. v \in Seq(S) /\ w \in Seq(S) /\ Len(v) = Len(w)
  OBVIOUS
<1>2. /\ Len(s) \in Nat /\ Len(t) \in Nat /\ Len(u) \in Nat
      /\ s \o t \in Seq(S) /\ Len(s \o t) = Len(s) + Len(t)
      /\ t \o u \in Seq(S) /\ Len(t \o u) = Len(t) + Len(u)
      /\ Len(v) = Len(s) + Len(t) + Len(u)
  OBVIOUS
<1>3. ASSUME NEW i \in 1 .. Len(v)
      PROVE  v[i] = w[i]
  <2>1. CASE i <= Len(s)
    <3>1. v[i] = (s \o t)[i] /\ (s \o t)[i] = s[i]
      BY <1>2, <2>1
    <3>2. w[i] = s[i]
      BY <1>2, <2>1
    <3> QED
      BY <3>1, <3>2
  <2>2. CASE Len(s) < i /\ i <= Len(s) + Len(t)
    <3>1. v[i] = (s \o t)[i] /\ (s \o t)[i] = t[i - Len(s)]
      BY <1>2, <2>2
    <3>2. w[i] = (t \o u)[i - Len(s)] /\ (t \o u)[i - Len(s)] = t[i - Len(s)]
      BY <1>2, <2>2
    <3> QED
      BY <3>1, <3>2
  <2>3. CASE Len(s) + Len(t) < i
    <3>1. v[i] = u[i - (Len(s) + Len(t))]
      BY <1>2, <2>3
    <3>2. w[i] = (t \o u)[i - Len(s)]
      BY <1>2, <2>3
    <3>3. (t \o u)[i - Len(s)] = u[(i - Len(s)) - Len(t)]
      BY <1>2, <2>3
    <3>4. (i - Len(s)) - Len(t) = i - (Len(s) + Len(t))
      BY <1>2
    <3> QED
      BY <3>1, <3>2, <3>3, <3>4
  <2> QED
    BY <1>2, <2>1, <2>2, <2>3
<1> HIDE DEF v, w
<1>4. v = w
  BY <1>1, <1>3
<1> QED
  BY <1>4 DEF v, w

\* The last step of a program is that of its last part.
LEMMA ChainEnds ==
    ASSUME NEW S, NEW s \in Seq(S), NEW t \in Seq(S)
    PROVE  Len(t) = 1 => /\ s \o t \in Seq(S) /\ Len(s \o t) = Len(s) + 1
                         /\ (s \o t)[Len(s \o t)] = t[1]
<1> DEFINE u == s \o t
           m == Len(s)
           n == Len(t)
<1>1. u \in Seq(S) /\ Len(u) = m + n /\ m \in Nat
  OBVIOUS
<1>2. \A i \in m + 1 .. m + n : u[i] = t[i - m]
  OBVIOUS
<1> HIDE DEF u, m, n
<1>3. n = 1 => m + 1 \in m + 1 .. m + n /\ (m + 1) - m = 1
  BY <1>1
<1>4. n = 1 => u[m + 1] = t[1]
  BY <1>2, <1>3
<1>5. n = 1 => u \in Seq(S) /\ Len(u) = m + 1 /\ u[Len(u)] = t[1]
  BY <1>1, <1>4
<1> QED
  BY <1>5 DEF u, m, n

\* Every tree and every file is taken back by the adapter's own removals.
OwnRemovals(c) ==
  CASE c = "antigravity" -> AntigravityUninstall
    [] c = "claude"      -> ClaudeUninstall
    [] c = "codex"       -> CodexUninstall
    [] c = "gemini"      -> GeminiUninstall
    [] c = "grok"        -> GrokUninstall
    [] c = "kimi"        -> KimiUninstall

\* The steps of an uninstall that give no recorded tree back.
Removals(c) == {x \in WiringSteps : UninstallOps(c, x[1], x[2]) /\ x[1] # "own"}

\* What the adapter's own removals are.
LEMMA RemovalsAre ==
    ASSUME NEW c \in Adapters
    PROVE  /\ OwnRemovals(c) \in Seq(Removals(c))
           /\ \A q \in Trees(c) : Ahead(OwnRemovals(c), "drop", q)
           /\ \A q \in TakesFrom(c) : \/ Ahead(OwnRemovals(c), "leave", q)
                                      \/ Ahead(OwnRemovals(c), "empty", q)
           /\ c = "antigravity" => \A q \in Rules : Ahead(OwnRemovals(c), "withdraw", q)
<1> DEFINE L == Removals(c)
<1>1. ASSUME NEW op \in StepNames, NEW p \in StepPlaces, UninstallOps(c, op, p), op # "own"
      PROVE  <<op, p>> \in L
  <2> DEFINE x == <<op, p>>
  <2>1. x \in WiringSteps /\ x[1] = op /\ x[2] = p
    BY NamedStep
  <2> HIDE DEF x
  <2>2. x \in L
    BY <1>1, <2>1 DEF Removals
  <2> QED
    BY <2>2 DEF x
<1> HIDE DEF L
<1>2. \A p \in StepPlaces :
        /\ p \in Trees(c) => <<"drop", p>> \in L
        /\ p \in TakesFrom(c) => <<"leave", p>> \in L /\ <<"reap", p>> \in L
        /\ (p \in TakesFrom(c) /\ p \in {"known", "installed", "registry"})
             => <<"empty", p>> \in L
        /\ (p \in Rules /\ c = "antigravity") => /\ <<"withdraw", p>> \in L
                                                 /\ <<"unclaim", p>> \in L
  BY <1>1 DEF StepNames, UninstallOps
<1>3. /\ "shim" \in StepPlaces /\ "market" \in StepPlaces /\ "cache" \in StepPlaces
      /\ "plugin" \in StepPlaces /\ "rules" \in StepPlaces /\ "hooks" \in StepPlaces
      /\ "skill" \in StepPlaces /\ "manifest" \in StepPlaces /\ "settings" \in StepPlaces
      /\ "desktop" \in StepPlaces /\ "known" \in StepPlaces /\ "installed" \in StepPlaces
      /\ "config" \in StepPlaces /\ "registry" \in StepPlaces
      /\ "settings" \in Rules /\ "desktop" \in Rules
  BY DEF StepPlaces, Rules
<1>4. CASE c = "antigravity"
  <2> DEFINE f == Taken("hooks")
             g == Taken("manifest")
             h == <<<<"withdraw", "settings">>, <<"unclaim", "settings">>,
                    <<"withdraw", "desktop">>, <<"unclaim", "desktop">>, <<"drop", "shim">>>>
  <2>1. /\ Trees(c) = {"shim"} /\ TakesFrom(c) = {"hooks", "manifest"}
    BY <1>4, TreesAre DEF TakesFrom
  <2>2. /\ <<"leave", "hooks">> \in L /\ <<"reap", "hooks">> \in L
        /\ <<"leave", "manifest">> \in L /\ <<"reap", "manifest">> \in L
        /\ <<"withdraw", "settings">> \in L /\ <<"unclaim", "settings">> \in L
        /\ <<"withdraw", "desktop">> \in L /\ <<"unclaim", "desktop">> \in L
        /\ <<"drop", "shim">> \in L
    BY <1>2, <1>3, <1>4, <2>1
  <2>3. f \in Seq(L) /\ g \in Seq(L) /\ h \in Seq(L)
    BY <2>2 DEF Taken
  <2>4. Ahead(f, "leave", "hooks")
    <3>1. Len(f) = 2 /\ f[1] = <<"leave", "hooks">>
      BY DEF Taken
    <3> HIDE DEF f
    <3> QED
      BY <3>1 DEF Ahead
  <2>5. Ahead(g, "leave", "manifest")
    <3>1. Len(g) = 2 /\ g[1] = <<"leave", "manifest">>
      BY DEF Taken
    <3> HIDE DEF g
    <3> QED
      BY <3>1 DEF Ahead
  <2>6. /\ Ahead(h, "withdraw", "settings") /\ Ahead(h, "withdraw", "desktop")
        /\ Ahead(h, "drop", "shim")
    <3>1. /\ Len(h) = 5 /\ h[1] = <<"withdraw", "settings">>
          /\ h[3] = <<"withdraw", "desktop">> /\ h[5] = <<"drop", "shim">>
      OBVIOUS
    <3> HIDE DEF h
    <3> QED
      BY <3>1 DEF Ahead
  <2> HIDE DEF f, g, h
  <2>7. f \o g \in Seq(L) /\ f \o g \o h \in Seq(L)
    BY <2>3
  <2>8. ASSUME NEW op, NEW p, Ahead(f, op, p) \/ Ahead(g, op, p) \/ Ahead(h, op, p)
        PROVE  Ahead(f \o g \o h, op, p)
    <3>1. (Ahead(f, op, p) \/ Ahead(g, op, p)) => Ahead(f \o g, op, p)
      BY <2>3, AheadChain
    <3> QED
      BY <2>3, <2>7, <2>8, <3>1, AheadChain
  <2>9. OwnRemovals(c) = f \o g \o h
    BY <1>4 DEF OwnRemovals, AntigravityUninstall, f, g, h
  <2>10. LET t == OwnRemovals(c)
         IN /\ t \in Seq(L)
            /\ Ahead(t, "leave", "hooks") /\ Ahead(t, "leave", "manifest")
            /\ Ahead(t, "withdraw", "settings") /\ Ahead(t, "withdraw", "desktop")
            /\ Ahead(t, "drop", "shim")
    BY <2>4, <2>5, <2>6, <2>7, <2>8, <2>9
  <2> QED
    BY <1>4, <2>1, <2>10 DEF Rules, L
<1>5. CASE c = "claude"
  <2> DEFINE t == ClaudeUninstall
  <2>1. Trees(c) = {"market", "cache"} /\ TakesFrom(c) = {"known", "installed", "settings"}
    BY <1>5, TreesAre DEF TakesFrom
  <2>2. /\ <<"leave", "settings">> \in L /\ <<"reap", "settings">> \in L
        /\ <<"empty", "known">> \in L /\ <<"empty", "installed">> \in L
        /\ <<"drop", "cache">> \in L /\ <<"drop", "market">> \in L
    BY <1>2, <1>3, <2>1
  <2>3. t \in Seq(L)
    BY <2>2 DEF ClaudeUninstall
  <2>4. /\ Len(t) = 6 /\ t[1] = <<"leave", "settings">> /\ t[2] = <<"empty", "known">>
        /\ t[3] = <<"empty", "installed">> /\ t[5] = <<"drop", "cache">>
        /\ t[6] = <<"drop", "market">>
    BY DEF ClaudeUninstall
  <2>5. OwnRemovals(c) = t
    BY <1>5 DEF OwnRemovals
  <2> HIDE DEF t
  <2>6. /\ Ahead(t, "leave", "settings") /\ Ahead(t, "empty", "known")
        /\ Ahead(t, "empty", "installed") /\ Ahead(t, "drop", "cache")
        /\ Ahead(t, "drop", "market")
    BY <2>4 DEF Ahead
  <2> QED
    BY <1>5, <2>1, <2>3, <2>5, <2>6 DEF L
<1>6. CASE c = "codex"
  <2> DEFINE t == CodexUninstall
  <2>1. Trees(c) = {"plugin", "cache", "rules"} /\ TakesFrom(c) = {"manifest", "config"}
    BY <1>6, TreesAre DEF TakesFrom
  <2>2. /\ <<"leave", "manifest">> \in L /\ <<"reap", "manifest">> \in L
        /\ <<"leave", "config">> \in L /\ <<"reap", "config">> \in L
        /\ <<"drop", "rules">> \in L /\ <<"drop", "cache">> \in L /\ <<"drop", "plugin">> \in L
    BY <1>2, <1>3, <2>1
  <2>3. t \in Seq(L)
    BY <2>2 DEF CodexUninstall
  <2>4. /\ Len(t) = 7 /\ t[1] = <<"leave", "manifest">> /\ t[2] = <<"leave", "config">>
        /\ t[5] = <<"drop", "rules">> /\ t[6] = <<"drop", "cache">>
        /\ t[7] = <<"drop", "plugin">>
    BY DEF CodexUninstall
  <2>5. OwnRemovals(c) = t
    BY <1>6 DEF OwnRemovals
  <2> HIDE DEF t
  <2>6. /\ Ahead(t, "leave", "manifest") /\ Ahead(t, "leave", "config")
        /\ Ahead(t, "drop", "rules") /\ Ahead(t, "drop", "cache")
        /\ Ahead(t, "drop", "plugin")
    BY <2>4 DEF Ahead
  <2> QED
    BY <1>6, <2>1, <2>3, <2>5, <2>6 DEF L
<1>7. CASE c = "gemini"
  <2> DEFINE t == GeminiUninstall
  <2>1. Trees(c) = {"plugin"} /\ TakesFrom(c) = {"settings"}
    BY <1>7, TreesAre DEF TakesFrom
  <2>2. /\ <<"leave", "settings">> \in L /\ <<"reap", "settings">> \in L
        /\ <<"drop", "plugin">> \in L
    BY <1>2, <1>3, <2>1
  <2> DEFINE f == Taken("settings")
             g == <<<<"drop", "plugin">>>>
  <2>3. f \in Seq(L) /\ g \in Seq(L) /\ t = f \o g
    BY <2>2 DEF GeminiUninstall, Taken
  <2>4. Ahead(f, "leave", "settings")
    <3>1. Len(f) = 2 /\ f[1] = <<"leave", "settings">>
      BY DEF Taken
    <3> HIDE DEF f
    <3> QED
      BY <3>1 DEF Ahead
  <2>5. Ahead(g, "drop", "plugin")
    <3>1. Len(g) = 1 /\ g[1] = <<"drop", "plugin">>
      OBVIOUS
    <3> HIDE DEF g
    <3> QED
      BY <3>1 DEF Ahead
  <2>6. OwnRemovals(c) = t
    BY <1>7 DEF OwnRemovals
  <2> HIDE DEF t, f, g
  <2>7. t \in Seq(L) /\ Ahead(t, "leave", "settings") /\ Ahead(t, "drop", "plugin")
    BY <2>3, <2>4, <2>5, AheadChain
  <2> QED
    BY <1>7, <2>1, <2>6, <2>7 DEF L
<1>8. CASE c = "grok"
  <2> DEFINE t == GrokUninstall
  <2>1. Trees(c) = {"hooks", "shim", "skill"} /\ TakesFrom(c) = {}
    BY <1>8, TreesAre DEF TakesFrom
  <2>2. <<"drop", "hooks">> \in L /\ <<"drop", "shim">> \in L /\ <<"drop", "skill">> \in L
    BY <1>2, <1>3, <2>1
  <2>3. t \in Seq(L)
    BY <2>2 DEF GrokUninstall
  <2>4. /\ Len(t) = 3 /\ t[1] = <<"drop", "hooks">> /\ t[2] = <<"drop", "shim">>
        /\ t[3] = <<"drop", "skill">>
    BY DEF GrokUninstall
  <2>5. OwnRemovals(c) = t
    BY <1>8 DEF OwnRemovals
  <2> HIDE DEF t
  <2>6. Ahead(t, "drop", "hooks") /\ Ahead(t, "drop", "shim") /\ Ahead(t, "drop", "skill")
    BY <2>4 DEF Ahead
  <2> QED
    BY <1>8, <2>1, <2>3, <2>5, <2>6 DEF L
<1>9. CASE c = "kimi"
  <2> DEFINE t == KimiUninstall
  <2>1. Trees(c) = {"plugin"} /\ TakesFrom(c) = {"config", "registry"}
    BY <1>9, TreesAre DEF TakesFrom
  <2>2. /\ <<"leave", "config">> \in L /\ <<"reap", "config">> \in L
        /\ <<"empty", "registry">> \in L /\ <<"drop", "plugin">> \in L
    BY <1>2, <1>3, <2>1
  <2>3. t \in Seq(L)
    BY <2>2 DEF KimiUninstall
  <2>4. /\ Len(t) = 4 /\ t[1] = <<"leave", "config">> /\ t[2] = <<"empty", "registry">>
        /\ t[4] = <<"drop", "plugin">>
    BY DEF KimiUninstall
  <2>5. OwnRemovals(c) = t
    BY <1>9 DEF OwnRemovals
  <2> HIDE DEF t
  <2>6. /\ Ahead(t, "leave", "config") /\ Ahead(t, "empty", "registry")
        /\ Ahead(t, "drop", "plugin")
    BY <2>4 DEF Ahead
  <2> QED
    BY <1>9, <2>1, <2>3, <2>5, <2>6 DEF L
<1> QED
  BY <1>4, <1>5, <1>6, <1>7, <1>8, <1>9, AdaptersAssumption

\* What an uninstall takes back, and in which order.
LEMMA UninstallTakes ==
    ASSUME NEW c \in Adapters
    PROVE  /\ Uninstalls(c, UninstallSteps(c)) /\ Ordered(UninstallSteps(c))
           /\ UninstallSteps(c) # <<>>
           /\ \A q \in Trees(c) : /\ Ahead(UninstallSteps(c), "own", q)
                                  /\ Ahead(UninstallSteps(c), "drop", q)
           /\ \A q \in TakesFrom(c) : \/ Ahead(UninstallSteps(c), "leave", q)
                                      \/ Ahead(UninstallSteps(c), "empty", q)
           /\ c = "antigravity" => \A q \in Rules : Ahead(UninstallSteps(c), "withdraw", q)
           /\ HasIndicator(c) => Ahead(UninstallSteps(c), "restore", "status")
<1> DEFINE L == Removals(c)
           U == {x \in WiringSteps : UninstallOps(c, x[1], x[2])}
           s == Owned(c)
           f == Indicator(c, FALSE)
           g == OwnRemovals(c)
           h == <<<<"rmdir", "all">>>>
           r == f \o g \o h
           t == s \o r
           m == Len(s)
           n == Len(r)
<1>1. ASSUME NEW op \in StepNames, NEW p \in StepPlaces, UninstallOps(c, op, p)
      PROVE  <<op, p>> \in U /\ (op # "own" => <<op, p>> \in L)
  <2> DEFINE x == <<op, p>>
  <2>1. x \in WiringSteps /\ x[1] = op /\ x[2] = p
    BY NamedStep
  <2> HIDE DEF x
  <2>2. x \in U /\ (op # "own" => x \in L)
    BY <1>1, <2>1 DEF Removals
  <2> QED
    BY <2>2 DEF x
<1>2. L \subseteq U /\ \A x \in L : x[1] # "own"
  BY DEF Removals
<1>3. /\ s \in Seq(U) /\ \A i \in 1 .. m : s[i][1] = "own"
      /\ \A q \in Trees(c) : Ahead(s, "own", q)
  <2> DEFINE a == Artifacts(c)
             k == Len(a)
  <2>1. k \in Nat /\ DOMAIN a = 1 .. k /\ \A i \in 1 .. k : a[i] \in Trees(c)
    <3>1. /\ c = "antigravity" => a = <<"shim">>
          /\ c = "claude" => a = <<"market", "cache">>
          /\ c = "codex" => a = <<"plugin", "cache", "rules">>
          /\ c = "gemini" => a = <<"plugin">>
          /\ c = "grok" => a = <<"hooks", "shim", "skill">>
          /\ c = "kimi" => a = <<"plugin">>
      BY DEF Artifacts
    <3> HIDE DEF a
    <3>2. a \in Seq({"shim", "market", "cache", "plugin", "rules", "hooks", "skill"})
      <4>1. /\ <<"shim">> \in Seq({"shim", "market", "cache", "plugin", "rules", "hooks", "skill"})
            /\ <<"plugin">>
                 \in Seq({"shim", "market", "cache", "plugin", "rules", "hooks", "skill"})
            /\ <<"market", "cache">>
                 \in Seq({"shim", "market", "cache", "plugin", "rules", "hooks", "skill"})
            /\ <<"plugin", "cache", "rules">>
                 \in Seq({"shim", "market", "cache", "plugin", "rules", "hooks", "skill"})
            /\ <<"hooks", "shim", "skill">>
                 \in Seq({"shim", "market", "cache", "plugin", "rules", "hooks", "skill"})
        OBVIOUS
      <4> QED
        BY <3>1, <4>1, AdaptersAssumption
    <3>3. k \in Nat /\ DOMAIN a = 1 .. k
      BY <3>2
    <3> QED
      BY <3>3 DEF Trees, a
  <2>2. \A q \in Trees(c) : \E i \in 1 .. k : a[i] = q
    BY <2>1 DEF Trees
  <2>3. s = [i \in 1 .. k |-> <<"own", a[i]>>]
    BY DEF Owned
  <2> HIDE DEF a, k
  <2>4. Trees(c) \subseteq StepPlaces
    BY PlacesApart
  <2> HIDE DEF s, U
  <2>5. \A q \in Trees(c) : <<"own", q>> \in U /\ <<"own", q>>[1] = "own"
    BY <1>1, <2>4, NamedStep DEF StepNames, UninstallOps
  <2>6. s \in Seq(U) /\ Len(s) = k /\ \A i \in 1 .. k : s[i] = <<"own", a[i]>>
    BY <2>1, <2>3, <2>5
  <2>7. \A i \in 1 .. k : s[i][1] = "own"
    BY <2>1, <2>5, <2>6
  <2>8. \A q \in Trees(c) : Ahead(s, "own", q)
    BY <2>2, <2>6 DEF Ahead
  <2> QED
    BY <2>6, <2>7, <2>8
<1>4. /\ f \in Seq(L)
      /\ HasIndicator(c) => Ahead(f, "restore", "status")
  <2>1. <<"restore", "status">> \in L /\ <<"forget", "status">> \in L
    BY <1>1 DEF StepNames, StepPlaces, UninstallOps
  <2> HIDE DEF L
  <2>2. <<<<"restore", "status">>, <<"forget", "status">>>> \in Seq(L)
    BY <2>1
  <2>3. <<>> \in Seq(L)
    OBVIOUS
  <2>4. HasIndicator(c) => Len(f) = 2 /\ f[1] = <<"restore", "status">>
    BY DEF Indicator
  <2>5. f \in Seq(L)
    BY <2>2, <2>3 DEF Indicator
  <2> HIDE DEF f
  <2> QED
    BY <2>4, <2>5 DEF Ahead
<1>5. /\ g \in Seq(L)
      /\ \A q \in Trees(c) : Ahead(g, "drop", q)
      /\ \A q \in TakesFrom(c) : Ahead(g, "leave", q) \/ Ahead(g, "empty", q)
      /\ c = "antigravity" => \A q \in Rules : Ahead(g, "withdraw", q)
  BY RemovalsAre
<1>6. h \in Seq(L) /\ Len(h) = 1 /\ h[1] = <<"rmdir", "all">>
  <2>1. <<"rmdir", "all">> \in L
    BY <1>1 DEF StepNames, StepPlaces, UninstallOps
  <2> HIDE DEF L
  <2> QED
    BY <2>1
<1>7. UninstallSteps(c) = s \o f \o g \o h
  BY DEF UninstallSteps, OwnRemovals
<1> HIDE DEF L, U, s, f, g, h
<1>8. UninstallSteps(c) = t
  <2>1. s \in Seq(U) /\ f \in Seq(U) /\ g \in Seq(U) /\ h \in Seq(U)
    BY <1>2, <1>3, <1>4, <1>5, <1>6
  <2>2. s \o f \o g = s \o (f \o g) /\ f \o g \in Seq(U)
    BY <2>1, ConcatAssociates
  <2>3. s \o (f \o g) \o h = s \o (f \o g \o h)
    <3> DEFINE w == f \o g
    <3>1. w \in Seq(U)
      BY <2>2
    <3> HIDE DEF w
    <3>2. s \o w \o h = s \o (w \o h)
      BY <2>1, <3>1, ConcatAssociates
    <3> QED
      BY <3>2 DEF w
  <2> QED
    BY <1>7, <2>2, <2>3
<1>9. /\ r \in Seq(L) /\ r \in Seq(U) /\ n \in Nat /\ n >= 1
      /\ r[n] = <<"rmdir", "all">>
      /\ \A i \in 1 .. n : r[i][1] # "own"
  <2>1. f \o g \in Seq(L) /\ Len(f \o g) \in Nat
    BY <1>4, <1>5
  <2>2. /\ r \in Seq(L) /\ n = Len(f \o g) + 1 /\ r[n] = h[1]
    <3> DEFINE w == f \o g
    <3>1. w \in Seq(L) /\ r = w \o h
      BY <2>1
    <3> HIDE DEF w, r
    <3>2. w \o h \in Seq(L) /\ Len(w \o h) = Len(w) + 1 /\ (w \o h)[Len(w \o h)] = h[1]
      BY <1>6, <3>1, ChainEnds
    <3> QED
      BY <3>1, <3>2 DEF w
  <2>3. \A i \in 1 .. n : r[i] \in L
    BY <2>2
  <2> QED
    BY <1>2, <1>6, <2>1, <2>2, <2>3
<1>10. \A op, p : (Ahead(f, op, p) \/ Ahead(g, op, p)) => Ahead(r, op, p)
  <2>1. ASSUME NEW op, NEW p, Ahead(f, op, p) \/ Ahead(g, op, p)
        PROVE  Ahead(r, op, p)
    <3>1. f \o g \in Seq(L) /\ Ahead(f \o g, op, p)
      BY <1>4, <1>5, <2>1, AheadChain
    <3> QED
      BY <1>6, <3>1, AheadChain
  <2> QED
    BY <2>1
<1> HIDE DEF r
<1>11. \A op, p : (Ahead(s, op, p) \/ Ahead(r, op, p)) => Ahead(t, op, p)
  BY <1>3, <1>9, AheadChain
<1>12. /\ t \in Seq(U) /\ Len(t) = m + n /\ m \in Nat
       /\ \A i \in 1 .. m : t[i] = s[i]
       /\ \A i \in m + 1 .. m + n : t[i] = r[i - m]
  BY <1>3, <1>9
<1> HIDE DEF t, m, n
<1>13. Ordered(t)
  <2>1. t[Len(t)] = <<"rmdir", "all">>
    <3>1. m + n \in m + 1 .. m + n /\ (m + n) - m = n
      BY <1>9, <1>12
    <3> QED
      BY <1>9, <1>12, <3>1
  <2>2. ASSUME NEW i \in 1 .. Len(t), NEW j \in 1 .. Len(t), i < j, t[j][1] = "own"
        PROVE  t[i][1] = "own"
    <3>1. j \in 1 .. m
      <4>1. CASE j \in m + 1 .. m + n
        <5>1. j - m \in 1 .. n
          BY <1>9, <1>12, <4>1
        <5> QED
          BY <1>9, <1>12, <2>2, <4>1, <5>1
      <4> QED
        BY <1>9, <1>12, <2>2, <4>1
    <3>2. i \in 1 .. m
      BY <1>12, <2>2, <3>1
    <3> QED
      BY <1>3, <1>12, <3>2
  <2> QED
    BY <2>1, <2>2 DEF Ordered
<1>14. t # <<>>
  BY <1>9, <1>12
<1>15. Uninstalls(c, t)
  BY <1>12 DEF Uninstalls, U
<1> QED
  BY <1>3, <1>4, <1>5, <1>8, <1>10, <1>11, <1>13, <1>14, <1>15

\* One step further: what was ahead is still, but for the step itself.
LEMMA AheadTail ==
    ASSUME NEW c, NEW t \in Seq(WiringSteps), t # <<>>
    PROVE  /\ Installs(c, t) => Installs(c, Tail(t))
           /\ Uninstalls(c, t) => Uninstalls(c, Tail(t))
           /\ Ordered(t) => Ordered(Tail(t))
           /\ (Ordered(t) /\ Tail(t) = <<>>) => Head(t)[1] = "rmdir"
           /\ \A op, p : Ahead(t, op, p)
                => Ahead(Tail(t), op, p) \/ (Head(t)[1] = op /\ Head(t)[2] = p)
<1> DEFINE u == Tail(t)
           n == Len(t)
<1>1. /\ n \in Nat /\ n >= 1 /\ u \in Seq(WiringSteps) /\ Len(u) = n - 1 /\ Head(t) = t[1]
      /\ \A i \in 1 .. n - 1 : u[i] = t[i + 1]
  OBVIOUS
<1>2. (Installs(c, t) => Installs(c, u)) /\ (Uninstalls(c, t) => Uninstalls(c, u))
  BY DEF Installs, Uninstalls
<1> HIDE DEF u, n
<1>3. u = <<>> <=> n = 1
  BY <1>1
<1>4. ASSUME Ordered(t)
      PROVE  Ordered(u) /\ (u = <<>> => Head(t)[1] = "rmdir")
  <2>1. t[n] = <<"rmdir", "all">>
    BY <1>4 DEF Ordered, n
  <2>2. u # <<>> => u[Len(u)] = <<"rmdir", "all">>
    <3>1. u # <<>> => n - 1 \in 1 .. n - 1 /\ (n - 1) + 1 = n
      BY <1>1, <1>3
    <3> QED
      BY <1>1, <2>1, <3>1
  <2>3. u = <<>> => Head(t)[1] = "rmdir"
    BY <1>1, <1>3, <2>1
  <2>4. ASSUME NEW i \in 1 .. n - 1, NEW j \in 1 .. n - 1, i < j, u[j][1] = "own"
        PROVE  u[i][1] = "own"
    <3>1. i + 1 \in 1 .. n /\ j + 1 \in 1 .. n /\ i + 1 < j + 1
      BY <1>1, <2>4
    <3>2. t[j + 1][1] = "own" /\ u[i] = t[i + 1]
      BY <1>1, <2>4
    <3> QED
      BY <1>4, <3>1, <3>2 DEF Ordered, n
  <2> QED
    BY <1>1, <2>2, <2>3, <2>4 DEF Ordered
<1>5. ASSUME NEW op, NEW p, Ahead(t, op, p)
      PROVE  Ahead(u, op, p) \/ (Head(t)[1] = op /\ Head(t)[2] = p)
  <2>1. PICK i \in 1 .. n : t[i] = <<op, p>>
    BY <1>5 DEF Ahead, n
  <2>2. CASE i = 1
    BY <1>1, <2>1, <2>2
  <2>3. CASE i # 1
    <3>1. i - 1 \in 1 .. n - 1 /\ (i - 1) + 1 = i
      BY <1>1, <2>3
    <3>2. u[i - 1] = <<op, p>>
      BY <1>1, <2>1, <3>1
    <3> QED
      BY <1>1, <3>1, <3>2 DEF Ahead
  <2> QED
    BY <2>2, <2>3
<1> QED
  BY <1>2, <1>4, <1>5 DEF u

\* What is answered at once, and no other step.
Answering == {"rule", "unclaim", "set", "forget", "reap"}

\* A command goes on with the rest of its steps, with the answer or without.
LEMMA TodoGoes ==
    ASSUME NEW c, NEW t, NEW u, Coupled(t), Unreaped(c, t), t # <<>>,
           u = Tail(t) \/ (u = Tail(Tail(t)) /\ Opens(Head(t)))
    PROVE  /\ Installs(c, t) => Installs(c, u)
           /\ Uninstalls(c, t) => Uninstalls(c, u)
           /\ Ordered(t) => Ordered(u)
           /\ (Ordered(t) /\ u = <<>>) => Head(t)[1] = "rmdir"
           /\ \A op, p : Ahead(t, op, p)
                => \/ Ahead(u, op, p)
                   \/ p = Head(t)[2] /\ (op = Head(t)[1] \/ op \in Answering)
<1>1. t \in Seq(WiringSteps)
  BY DEF Coupled
<1>2. CASE u = Tail(t)
  BY <1>1, <1>2, AheadTail
<1>3. CASE u = Tail(Tail(t)) /\ Opens(Head(t))
  <2> DEFINE v == Tail(t)
  <2>1. Coupled(v) /\ Unreaped(c, v) /\ v # <<>> /\ Follows(v[1], Head(t))
    BY <1>3, TailCoupled
  <2>2. /\ Installs(c, t) => Installs(c, v)
        /\ Uninstalls(c, t) => Uninstalls(c, v)
        /\ Ordered(t) => Ordered(v)
        /\ \A op, p : Ahead(t, op, p)
             => Ahead(v, op, p) \/ (Head(t)[1] = op /\ Head(t)[2] = p)
    BY <1>1, AheadTail
  <2> HIDE DEF v
  <2>3. v \in Seq(WiringSteps) /\ Head(v) = v[1]
    BY <2>1, TailCoupled DEF Coupled
  <2>4. u = Tail(v)
    BY <1>3 DEF v
  <2>5. /\ Installs(c, v) => Installs(c, u)
        /\ Uninstalls(c, v) => Uninstalls(c, u)
        /\ Ordered(v) => Ordered(u)
        /\ (Ordered(v) /\ u = <<>>) => Head(v)[1] = "rmdir"
        /\ \A op, p : Ahead(v, op, p)
             => Ahead(u, op, p) \/ (Head(v)[1] = op /\ Head(v)[2] = p)
    BY <2>1, <2>3, <2>4, AheadTail
  <2>6. Head(v)[1] \in Answering /\ Head(v)[2] = Head(t)[2] /\ "rmdir" \notin Answering
    BY <1>3, <2>1, <2>3 DEF Opens, Follows, Answering
  <2> QED
    BY <2>2, <2>5, <2>6
<1> QED
  BY <1>2, <1>3

(***************************************************************************)
(* The steps keep it.                                                      *)
(***************************************************************************)
\* A running command is an install or an uninstall, and so is its next step.
LEMMA StepOf ==
    ASSUME TakingInv, NEW op \in StepNames, NEW p, At(op, p)
    PROVE  \/ Installing /\ ~Uninstalling /\ InstallOps(client, op, p)
           \/ Uninstalling /\ ~Installing /\ UninstallOps(client, op, p)
<1>1. /\ job \in Jobs /\ job # Idle /\ job.todo # <<>> /\ Coupled(job.todo)
      /\ Head(job.todo)[1] = op /\ Head(job.todo)[2] = p
  BY StepAt DEF TakingInv
<1>2. job.act \in {"install", "uninstall"} /\ job.todo \in Seq(WiringSteps)
  BY <1>1 DEF Jobs
<1>3. Installing => InstallOps(client, op, p)
  <2> SUFFICES ASSUME Installing
               PROVE  InstallOps(client, op, p)
    OBVIOUS
  <2> DEFINE S == {x \in WiringSteps : InstallOps(client, x[1], x[2])}
  <2>1. job.todo \in Seq(S)
    BY DEF TakingInv, CommandHeld, Installs
  <2> HIDE DEF S
  <2>2. Head(job.todo) \in S
    BY <1>1, <2>1
  <2> QED
    BY <1>1, <2>2 DEF S
<1>4. Uninstalling => UninstallOps(client, op, p)
  <2> SUFFICES ASSUME Uninstalling
               PROVE  UninstallOps(client, op, p)
    OBVIOUS
  <2> DEFINE S == {x \in WiringSteps : UninstallOps(client, x[1], x[2])}
  <2>1. job.todo \in Seq(S)
    BY DEF TakingInv, CommandHeld, Uninstalls
  <2> HIDE DEF S
  <2>2. Head(job.todo) \in S
    BY <1>1, <2>1
  <2> QED
    BY <1>1, <2>2 DEF S
<1> QED
  BY <1>1, <1>2, <1>3, <1>4 DEF Installing, Uninstalling

\* The places a step does not touch keep what is said of them.
LEMMA ElsewhereHeld ==
    ASSUME NEW q, PlaceHeld(q),
           client' = client, client \in Adapters, record' = record, cut' = cut, mine' = mine,
           mine \subseteq Rules,
           Installing => Installing', Uninstalling' => Uninstalling,
           Installing' => Installing,
           Uninstalling => (q \in job'.keep <=> q \in job.keep),
           Uninstalling => \A o : Ahead(job.todo, o, q) => Ahead(job'.todo, o, q),
           q \in WiredPlaces => content'[q] = content[q],
           (q \in mine => client = "antigravity"),
           q \in Rules => (q \in marks' <=> q \in marks)
    PROVE  PlaceHeld(q)'
<1>1. /\ q \in Merged(client) => q \in WiredPlaces
      /\ q \in Trees(client) => q \in WiredPlaces
      /\ client = "antigravity" /\ q \in Rules => q \in WiredPlaces
  BY PlacesApart
<1>2. q \in Merged(client) => FileHeld(q)'
  BY <1>1 DEF PlaceHeld, FileHeld
<1>3. q \in mine => RuleHeld(q)'
  BY <1>1 DEF PlaceHeld, RuleHeld
<1>4. q \in Trees(client) => TreeHeld(q)'
  BY <1>1 DEF PlaceHeld, TreeHeld
<1>5. (Uninstalling' /\ q \in Trees(client)) => TreeTaken(q)'
  BY <1>1 DEF PlaceHeld, TreeTaken
<1>6. (Uninstalling' /\ q \in Merged(client)) => FileTaken(q)'
  BY <1>1 DEF PlaceHeld, FileTaken
<1>7. (Uninstalling' /\ client = "antigravity" /\ q \in Rules) => RuleTaken(q)'
  BY <1>1 DEF PlaceHeld, RuleTaken
<1> QED
  BY <1>2, <1>3, <1>4, <1>5, <1>6, <1>7 DEF PlaceHeld

\* A step of a running command, by what it does at its own place.
LEMMA StepTakes ==
    ASSUME TakingInv, WiringInv', NEW op \in StepNames, NEW p, At(op, p), Kept, NEW u,
           job' \in Jobs, job'.act = job.act, job'.todo = u,
           u = Tail(job.todo) \/ (u = Tail(Tail(job.todo)) /\ Opens(Head(job.todo))),
           job.keep \subseteq job'.keep, job'.keep \subseteq job.keep \cup {p},
           \A q \in WiredPlaces : q # p => content'[q] = content[q],
           \A q \in Rules : q # p => (q \in marks' <=> q \in marks),
           PlaceHeld(p)',
           saved' # "absent" => HasIndicator(client),
           Uninstalling => \/ saved' = "absent"
                           \/ saved' = saved /\ op \notin {"restore", "forget"}
                           \/ Ahead(u, "forget", "status"),
           (op = "rmdir" /\ dir' = "empty" /\ record # NoRecord /\ record.dirs)
             => \E q \in Trees(client) : content'[q] # {}
    PROVE  TakingInv'
<1>1. /\ job \in Jobs /\ job # Idle /\ job.todo # <<>> /\ Coupled(job.todo)
      /\ Unreaped(client, job.todo)
      /\ Head(job.todo)[1] = op /\ Head(job.todo)[2] = p
  BY StepAt DEF TakingInv
<1>2. /\ client' = client /\ record' = record /\ cut' = cut /\ mine' = mine
      /\ client \in Adapters
  BY DEF Kept, ghosts, TakingInv, WiringInv, WiringTyped
<1>3. job' # Idle
  BY DEF Jobs, Idle
<1>4. (Installing' <=> Installing) /\ (Uninstalling' <=> Uninstalling)
  BY <1>1, <1>3 DEF Installing, Uninstalling
<1>5. /\ Installs(client, job.todo) => Installs(client, u)
      /\ Uninstalls(client, job.todo) => Uninstalls(client, u)
      /\ Ordered(job.todo) => Ordered(u)
      /\ (Ordered(job.todo) /\ u = <<>>) => op = "rmdir"
      /\ \A o, q : Ahead(job.todo, o, q)
           => \/ Ahead(u, o, q)
              \/ q = p /\ (o = op \/ o \in Answering)
  <2> DEFINE t == job.todo
  <2>1. /\ Coupled(t) /\ Unreaped(client, t) /\ t # <<>> /\ Head(t)[1] = op /\ Head(t)[2] = p
        /\ u = Tail(t) \/ (u = Tail(Tail(t)) /\ Opens(Head(t)))
    BY <1>1
  <2> HIDE DEF t
  <2>2. /\ Installs(client, t) => Installs(client, u)
        /\ Uninstalls(client, t) => Uninstalls(client, u)
        /\ Ordered(t) => Ordered(u)
        /\ (Ordered(t) /\ u = <<>>) => Head(t)[1] = "rmdir"
        /\ \A o, q : Ahead(t, o, q)
             => \/ Ahead(u, o, q)
                \/ q = Head(t)[2] /\ (o = Head(t)[1] \/ o \in Answering)
    BY <2>1, TodoGoes
  <2>3. Ordered(t) /\ u = <<>> => op = "rmdir"
    BY <2>1, <2>2
  <2>4. \A o, q : Ahead(t, o, q)
          => \/ Ahead(u, o, q)
             \/ q = p /\ (o = op \/ o \in Answering)
    BY <2>1, <2>2
  <2> QED
    BY <2>2, <2>3, <2>4 DEF t
<1>6. ASSUME NEW q
      PROVE  PlaceHeld(q)'
  <2>1. CASE q = p
    BY <2>1
  <2>2. CASE q # p
    <3>1. PlaceHeld(q) /\ mine \subseteq Rules /\ (q \in mine => client = "antigravity")
      BY DEF TakingInv, PlaceHeld, RuleHeld
    <3>2. q \in job'.keep <=> q \in job.keep
      BY <2>2
    <3>3. \A o : Ahead(job.todo, o, q) => Ahead(job'.todo, o, q)
      BY <1>5, <2>2
    <3>4. q \in WiredPlaces => content'[q] = content[q]
      BY <2>2
    <3>5. q \in Rules => (q \in marks' <=> q \in marks)
      BY <2>2
    <3> QED
      BY <1>2, <1>4, <3>1, <3>2, <3>3, <3>4, <3>5, ElsewhereHeld
  <2> QED
    BY <2>1, <2>2
<1>7. Installing' => Installs(client, u)
  BY <1>4, <1>5 DEF TakingInv, CommandHeld
<1>8. ASSUME Uninstalling
      PROVE  /\ Uninstalls(client, u) /\ Ordered(u)
             /\ \/ saved' = "absent"
                \/ Ahead(u, "restore", "status") \/ Ahead(u, "forget", "status")
             /\ (u = <<>> /\ record # NoRecord /\ record.dirs /\ dir' = "empty")
                  => \E q \in Trees(client) : content'[q] # {}
  <2>1. /\ Uninstalls(client, job.todo) /\ Ordered(job.todo)
        /\ \/ saved = "absent"
           \/ Ahead(job.todo, "restore", "status") \/ Ahead(job.todo, "forget", "status")
    BY <1>8 DEF TakingInv, CommandHeld
  <2>2. p = "status" => op \in {"restore", "forget"}
    <3>1. UninstallOps(client, op, p)
      BY <1>8, StepOf
    <3>2. "status" \notin Trees(client) /\ "status" \notin TakesFrom(client)
      BY <1>2, TreesAre, AdaptersAssumption DEF TakesFrom
    <3> QED
      BY <3>1, <3>2 DEF UninstallOps, Rules
  <2>3. \/ saved' = "absent"
        \/ Ahead(u, "restore", "status") \/ Ahead(u, "forget", "status")
    BY <1>5, <1>8, <2>1, <2>2
  <2> QED
    BY <1>5, <2>1, <2>3
<1>9. CommandHeld'
  BY <1>2, <1>4, <1>7, <1>8 DEF CommandHeld
<1> QED
  BY <1>6, <1>9 DEF TakingInv

\* Nothing is installed under these names.
LEMMA NoPlaces ==
    ASSUME NEW c \in Adapters, NEW p \in {"status", "all"}
    PROVE  p \notin Trees(c) /\ p \notin Merged(c) /\ p \notin Rules
<1>1. p \notin Trees(c)
  BY TreesAre, AdaptersAssumption
<1>2. p \notin Merged(c)
  BY AdaptersAssumption DEF Merged
<1> QED
  BY <1>1, <1>2 DEF Rules

\* A tree of which nothing of the user's goes, but with what ACC recorded.
TreeKept(q) ==
  \/ job.act = "install" /\ (q \in Shared(client) => "user" \notin content[q]
                                                     \/ "user" \in content'[q])
  \/ job.act = "uninstall" /\ (\/ record = NoRecord
                               \/ Yours(content[q]) \subseteq
                                    Yours(content'[q]) \cup record.trees[q])

\* A step keeps the user's work when it does at its own place.
LEMMA ElsewhereKept ==
    ASSUME TakingInv, NEW p,
           job \in Jobs,
           \A q \in WiredPlaces : q # p => content'[q] = content[q],
           p \in Merged(client) => EntriesStay(content[p], content'[p]),
           p \in mine => "rule" \in content'[p],
           p \in Trees(client) => TreeKept(p),
           dir = "user" => dir' = "user"
    PROVE  KeepsUserWork
<1>1. client \in Adapters /\ job.act \in {"install", "uninstall"}
  BY DEF TakingInv, WiringInv, WiringTyped, Jobs
<1>2. ASSUME NEW q \in Merged(client)
      PROVE  EntriesStay(content[q], content'[q])
  <2>1. CASE q = p
    BY <1>2, <2>1
  <2>2. CASE q # p
    <3>1. content'[q] = content[q]
      BY <1>1, <1>2, <2>2, PlacesApart
    <3> QED
      BY <3>1 DEF EntriesStay
  <2> QED
    BY <2>1, <2>2
<1>3. ASSUME NEW q \in mine
      PROVE  "rule" \in content'[q]
  <2>1. client = "antigravity" /\ q \in Rules /\ "rule" \in content[q]
    BY <1>3 DEF TakingInv, PlaceHeld, RuleHeld
  <2>2. q \in WiredPlaces
    BY <1>1, <2>1, PlacesApart
  <2> QED
    BY <2>1, <2>2
<1>4. ASSUME NEW q \in Trees(client)
      PROVE  TreeKept(q)
  <2>1. CASE q = p
    BY <1>4, <2>1
  <2>2. CASE q # p
    <3>1. content'[q] = content[q]
      BY <1>1, <1>4, <2>2, PlacesApart
    <3> QED
      BY <1>1, <3>1 DEF TreeKept
  <2> QED
    BY <2>1, <2>2
<1> QED
  BY <1>2, <1>3, <1>4 DEF KeepsUserWork, TreeKept

\* An install's place, after a step of it.
LEMMA InstallPlace ==
    ASSUME NEW p, Installing', client' = client, mine' = mine,
           p \in Merged(client) => FileHeld(p)',
           p \in mine => RuleHeld(p)'
    PROVE  PlaceHeld(p)'
<1>1. ~Uninstalling'
  BY DEF Installing, Uninstalling
<1> QED
  BY <1>1 DEF PlaceHeld, TreeHeld

\* The steps an install takes one by one.
InstallStep(op, p) ==
  /\ At(op, p) /\ Kept
  /\ \/ Advance
     \/ Skip /\ Opens(Head(job.todo))
  /\ \A q \in WiredPlaces : q # p => content'[q] = content[q]
  /\ \A q \in Rules : q # p => (q \in marks' <=> q \in marks)
  /\ dir = "user" => dir' = "user"
  /\ saved' # "absent" => HasIndicator(client)

\* What such a step must show of its own place.
LEMMA InstallTakes ==
    ASSUME TakingInv, WiringInv', NEW op \in StepNames, NEW p, InstallStep(op, p),
           \/ Installing
           \/ op \in {"clear", "fill", "enter", "mark", "claim", "rule", "save", "set"},
           p \in Merged(client) => FileHeld(p)',
           p \in mine => RuleHeld(p)',
           p \in Merged(client) => EntriesStay(content[p], content'[p]),
           (p \in Trees(client) /\ p \in Shared(client) /\ "user" \in content[p])
             => "user" \in content'[p]
    PROVE  TakingInv' /\ KeepsUserWork
<1>1. /\ job \in Jobs /\ job # Idle /\ job.todo # <<>> /\ Coupled(job.todo)
      /\ Unreaped(client, job.todo)
  BY StepAt DEF TakingInv, InstallStep
<1>2. client' = client /\ mine' = mine
  BY DEF InstallStep, Kept, ghosts
<1>3. Installing /\ ~Uninstalling /\ op # "rmdir"
  <2>1. \/ Installing /\ ~Uninstalling /\ InstallOps(client, op, p)
        \/ Uninstalling /\ ~Installing /\ UninstallOps(client, op, p)
    BY StepOf DEF InstallStep
  <2>2. Installing
    BY <2>1 DEF UninstallOps
  <2>3. op # "rmdir"
    BY <2>1, <2>2 DEF InstallOps
  <2> QED
    BY <2>1, <2>2, <2>3
<1> DEFINE u == job'.todo
<1>4. /\ job' \in Jobs /\ job'.act = job.act /\ job'.keep = job.keep
      /\ u = Tail(job.todo) \/ (u = Tail(Tail(job.todo)) /\ Opens(Head(job.todo)))
  <2>1. job' # Idle
    BY <1>1 DEF InstallStep, Advance, Skip, Jobs, Idle
  <2>2. job' \in Jobs
    BY <2>1 DEF WiringInv, WiringTyped
  <2> QED
    BY <1>1, <2>2 DEF InstallStep, Advance, Skip, Jobs
<1> HIDE DEF u
<1>5. Installing'
  <2>1. job' # Idle
    BY <1>4 DEF Jobs, Idle
  <2> QED
    BY <1>3, <1>4, <2>1 DEF Installing
<1>6. PlaceHeld(p)'
  BY <1>2, <1>5, InstallPlace
<1>7. TakingInv'
  <2>1. /\ At(op, p) /\ Kept
        /\ \A q \in WiredPlaces : q # p => content'[q] = content[q]
        /\ \A q \in Rules : q # p => (q \in marks' <=> q \in marks)
        /\ saved' # "absent" => HasIndicator(client)
    BY DEF InstallStep
  <2> QED
    BY <1>3, <1>4, <1>6, <2>1, StepTakes DEF u
<1>8. KeepsUserWork
  <2>1. p \in Trees(client) => TreeKept(p)
    BY <1>3 DEF TreeKept, Installing
  <2>2. p \in mine => "rule" \in content'[p]
    BY <1>2 DEF RuleHeld
  <2> QED
    BY <1>1, <2>1, <2>2, ElsewhereKept DEF InstallStep
<1> QED
  BY <1>7, <1>8

\* The trees of an install.
LEMMA InstallTrees ==
    ASSUME TakingInv, WiringInv', NEW p, Clear(p) \/ Fill(p)
    PROVE  TakingInv' /\ KeepsUserWork
<1>1. client \in Adapters /\ content = [q \in WiredPlaces |-> content[q]]
  BY DEF TakingInv, WiringInv, WiringTyped
<1>2. PICK op, pieces :
        /\ op \in {"clear", "fill"}
        /\ At(op, p) /\ Kept /\ Advance /\ Write(p, pieces)
        /\ marks' = marks /\ saved' = saved
        /\ dir = "user" => dir' = "user"
        /\ ("user" \in content[p] /\ p \in Shared(client)) => "user" \in pieces
  <2>1. CASE Clear(p)
    <3> DEFINE pieces == IF p \in Shared(client)
                         THEN content[p] \ {"v1", "v2", "part", "edit"} ELSE {}
    <3>1. /\ At("clear", p) /\ Kept /\ Advance /\ Write(p, pieces)
          /\ marks' = marks /\ saved' = saved
          /\ dir = "user" => dir' = "user"
      BY <2>1 DEF Clear
    <3>2. ("user" \in content[p] /\ p \in Shared(client)) => "user" \in pieces
      OBVIOUS
    <3> HIDE DEF pieces
    <3> QED
      BY <3>1, <3>2
  <2>2. CASE Fill(p)
    <3>1. /\ At("fill", p) /\ Kept /\ Advance /\ Write(p, Filled(p))
          /\ marks' = marks /\ saved' = saved
          /\ dir = "user" => dir' = "user"
      BY <2>2 DEF Fill
    <3>2. "user" \in content[p] => "user" \in Filled(p)
      BY DEF Filled
    <3> QED
      BY <3>1, <3>2
  <2> QED
    BY <2>1, <2>2
<1>3. op \in StepNames
  BY <1>2 DEF StepNames
<1>4. p \in Trees(client) /\ p \in WiredPlaces /\ p \notin Merged(client) /\ p \notin mine
  <2>1. p \in Trees(client)
    BY <1>2, <1>3, StepOf DEF InstallOps, UninstallOps
  <2>2. p \in mine => client = "antigravity" /\ p \in Rules
    BY DEF TakingInv, PlaceHeld, RuleHeld
  <2> QED
    BY <1>1, <2>1, <2>2, PlacesApart
<1>5. \A q \in WiredPlaces : content'[q] = IF q = p THEN pieces ELSE content[q]
  BY <1>1, <1>2, PlaceWritten
<1>6. saved' # "absent" => HasIndicator(client)
  BY <1>2 DEF TakingInv, CommandHeld
<1>7. InstallStep(op, p)
  BY <1>2, <1>5, <1>6 DEF InstallStep
<1> QED
  BY <1>2, <1>3, <1>4, <1>5, <1>7, InstallTakes

\* The entries of an install.
LEMMA InstallEntries ==
    ASSUME TakingInv, WiringInv', NEW p, Enter(p)
    PROVE  TakingInv' /\ KeepsUserWork
<1>1. client \in Adapters /\ content = [q \in WiredPlaces |-> content[q]]
  BY DEF TakingInv, WiringInv, WiringTyped
<1>2. /\ At("enter", p) /\ Kept /\ Advance /\ Write(p, Entered(p))
      /\ marks' = marks /\ saved' = saved /\ dir' = dir /\ "enter" \in StepNames
      /\ client' = client /\ mine' = mine
  BY DEF Enter, StepNames, Kept, ghosts
<1>3. p \in TakesFrom(client) /\ p \in Merged(client) /\ p \in WiredPlaces
      /\ p \notin Trees(client)
  <2>1. p \in TakesFrom(client)
    BY <1>2, StepOf DEF InstallOps, UninstallOps
  <2> QED
    BY <1>1, <2>1, PlacesApart
<1>4. \A q \in WiredPlaces : content'[q] = IF q = p THEN Entered(p) ELSE content[q]
  BY <1>1, <1>2, PlaceWritten
<1>5. saved' # "absent" => HasIndicator(client)
  BY <1>2 DEF TakingInv, CommandHeld
<1>6. InstallStep("enter", p)
  BY <1>2, <1>4, <1>5 DEF InstallStep
<1>7. content'[p] = Entered(p)
  BY <1>3, <1>4
<1>8. FileHeld(p)'
  <2>1. FileHeld(p)
    BY <1>3 DEF TakingInv, PlaceHeld
  <2> QED
    BY <1>2, <1>3, <1>7, <2>1 DEF FileHeld, Entered, Stripped
<1>9. p \in mine => RuleHeld(p)'
  <2>1. p \in mine => RuleHeld(p)
    BY DEF TakingInv, PlaceHeld
  <2> QED
    BY <1>2, <1>7, <2>1 DEF RuleHeld, Entered, Stripped
<1>10. EntriesStay(content[p], content'[p])
  <2>1. FileHeld(p)
    BY <1>3 DEF TakingInv, PlaceHeld
  <2> QED
    BY <1>7, <2>1 DEF EntriesStay, FileHeld, Entered, Stripped
<1> QED
  BY <1>2, <1>3, <1>6, <1>8, <1>9, <1>10, InstallTakes

\* The notes and the claims of an install, and the rules they are for.
LEMMA InstallNotes ==
    ASSUME TakingInv, WiringInv', NEW p, Mark(p) \/ Claim(p) \/ Rule(p)
    PROVE  TakingInv' /\ KeepsUserWork
<1>1. client \in Adapters /\ content = [q \in WiredPlaces |-> content[q]]
  BY DEF TakingInv, WiringInv, WiringTyped
<1>2. /\ Kept /\ saved' = saved /\ dir' = dir /\ client' = client /\ mine' = mine
  BY DEF Mark, Claim, Rule, Kept, ghosts
<1>3. saved' # "absent" => HasIndicator(client)
  BY <1>2 DEF TakingInv, CommandHeld
<1>4. /\ p \in Merged(client) => FileHeld(p)
      /\ p \in mine => RuleHeld(p)
  BY DEF TakingInv, PlaceHeld
<1>5. "settingsMade" \notin Rules
  BY DEF Rules
<1>6. CASE Mark(p)
  <2>1. /\ At("mark", p) /\ Advance /\ content' = content /\ "mark" \in StepNames
        /\ \A q : q # p => (q \in marks' <=> q \in marks)
    BY <1>6 DEF Mark, StepNames
  <2>2. InstallStep("mark", p)
    BY <1>2, <1>3, <2>1 DEF InstallStep
  <2>3. p \notin Rules
    BY <2>1, StepOf DEF InstallOps, UninstallOps, Rules
  <2>4. p \in Merged(client) => FileHeld(p)'
    BY <1>2, <1>4, <2>1 DEF FileHeld
  <2>5. p \notin mine
    BY <1>4, <2>3 DEF RuleHeld
  <2> QED
    BY <2>1, <2>2, <2>4, <2>5, InstallTakes DEF EntriesStay
<1>7. CASE Claim(p)
  <2>1. /\ At("claim", p) /\ content' = content /\ "claim" \in StepNames
        /\ \A q : (q # p /\ q # "settingsMade") => (q \in marks' <=> q \in marks)
        /\ \/ RuleWanted(p) /\ Advance
           \/ Skip /\ marks' = marks
    BY <1>7 DEF Claim, StepNames
  <2>2. Head(job.todo)[1] = "claim"
    BY <2>1, StepAt DEF TakingInv
  <2>3. Opens(Head(job.todo))
    BY <2>2 DEF Opens
  <2>4. InstallStep("claim", p)
    BY <1>2, <1>3, <1>5, <2>1, <2>3 DEF InstallStep
  <2>5. p \in Merged(client) => FileHeld(p)'
    BY <1>2, <1>4, <2>1 DEF FileHeld
  <2>6. p \in mine => RuleHeld(p)'
    <3> SUFFICES ASSUME p \in mine
                 PROVE  RuleHeld(p)'
      OBVIOUS
    <3>1. "rule" \in content[p] /\ p # "settingsMade"
      BY <1>4, <1>5 DEF RuleHeld
    <3>2. marks' = marks
      <4>1. CASE Skip /\ marks' = marks
        BY <4>1
      <4>2. ~RuleWanted(p)
        BY <3>1 DEF RuleWanted
      <4> QED
        BY <2>1, <4>1, <4>2
    <3> QED
      BY <1>2, <1>4, <2>1, <3>2 DEF RuleHeld
  <2> QED
    BY <2>1, <2>4, <2>5, <2>6, InstallTakes DEF EntriesStay
<1>8. CASE Rule(p)
  <2>1. /\ At("rule", p) /\ Advance /\ "rule" \in StepNames /\ marks' = marks
        /\ Write(p, content[p] \cup {"file", "rule"})
    BY <1>8 DEF Rule, StepNames
  <2>2. client = "antigravity" /\ p \in Rules
    BY <2>1, StepOf DEF InstallOps, UninstallOps
  <2>3. p \in Merged(client) /\ p \in WiredPlaces /\ p \notin Trees(client)
    BY <1>1, <2>2, PlacesApart
  <2>4. \A q \in WiredPlaces :
          content'[q] = IF q = p THEN content[p] \cup {"file", "rule"} ELSE content[q]
    BY <1>1, <2>1, PlaceWritten
  <2>5. InstallStep("rule", p)
    BY <1>2, <1>3, <2>1, <2>4 DEF InstallStep
  <2>6. content'[p] = content[p] \cup {"file", "rule"}
    BY <2>3, <2>4
  <2>7. FileHeld(p)'
    BY <1>2, <1>4, <2>3, <2>6 DEF FileHeld
  <2>8. p \in mine => RuleHeld(p)'
    BY <1>2, <1>4, <2>1, <2>6 DEF RuleHeld
  <2>9. EntriesStay(content[p], content'[p])
    BY <2>6 DEF EntriesStay
  <2> QED
    BY <2>1, <2>3, <2>5, <2>7, <2>8, <2>9, InstallTakes
<1> QED
  BY <1>6, <1>7, <1>8

\* The status line of an install.
LEMMA InstallStatus ==
    ASSUME TakingInv, WiringInv', Save \/ SetStatus
    PROVE  TakingInv' /\ KeepsUserWork
<1>1. /\ client \in Adapters
      /\ "status" \notin Trees(client) /\ "status" \notin Merged(client)
      /\ "status" \notin mine
  <2>1. client \in Adapters
    BY DEF TakingInv, WiringInv, WiringTyped
  <2>2. "status" \in mine => "status" \in Rules
    BY DEF TakingInv, PlaceHeld, RuleHeld
  <2> QED
    BY <2>1, <2>2, NoPlaces
<1>2. content' = content /\ marks' = marks /\ dir' = dir /\ Kept
  BY DEF Save, SetStatus
<1>3. CASE Save
  <2>1. At("save", "status") /\ "save" \in StepNames /\ (Advance \/ Skip)
    BY <1>3 DEF Save, StepNames
  <2>2. Head(job.todo)[1] = "save" /\ HasIndicator(client)
    BY <2>1, StepAt, StepOf DEF TakingInv, InstallOps, UninstallOps
  <2>3. Opens(Head(job.todo))
    BY <2>2 DEF Opens
  <2>4. InstallStep("save", "status")
    BY <1>2, <2>1, <2>2, <2>3 DEF InstallStep
  <2> QED
    BY <1>1, <2>1, <2>4, InstallTakes
<1>4. CASE SetStatus
  <2>1. At("set", "status") /\ "set" \in StepNames /\ Advance /\ saved' = saved
    BY <1>4 DEF SetStatus, StepNames
  <2>2. saved' # "absent" => HasIndicator(client)
    BY <2>1 DEF TakingInv, CommandHeld
  <2>3. InstallStep("set", "status")
    BY <1>2, <2>1, <2>2 DEF InstallStep
  <2> QED
    BY <1>1, <2>1, <2>3, InstallTakes
<1> QED
  BY <1>3, <1>4

\* The steps an uninstall takes one by one.
UninstallStep(op, p) ==
  /\ At(op, p) /\ Kept
  /\ job'.act = job.act
  /\ \/ job'.todo = Tail(job.todo)
     \/ job'.todo = Tail(Tail(job.todo)) /\ Opens(Head(job.todo))
  /\ job.keep \subseteq job'.keep /\ job'.keep \subseteq job.keep \cup {p}
  /\ \A q \in WiredPlaces : q # p => content'[q] = content[q]
  /\ \A q \in Rules : q # p => (q \in marks' <=> q \in marks)
  /\ dir = "user" => dir' = "user"

\* Most of them hold nothing back.
LEMMA PlainMove ==
    ASSUME job \in Jobs, Advance \/ (Skip /\ Opens(Head(job.todo)))
    PROVE  /\ job'.act = job.act /\ job'.keep = job.keep
           /\ \/ job'.todo = Tail(job.todo)
              \/ job'.todo = Tail(Tail(job.todo)) /\ Opens(Head(job.todo))
  BY DEF Jobs, Advance, Skip

\* What is still ahead after one.
LEMMA AheadAfter ==
    ASSUME TakingInv, NEW op \in StepNames, NEW p, UninstallStep(op, p)
    PROVE  \A o, q : (Ahead(job.todo, o, q) /\ o # op /\ o \notin Answering)
                       => Ahead(job'.todo, o, q)
<1> DEFINE t == job.todo
           u == job'.todo
<1>1. /\ Coupled(t) /\ Unreaped(client, t) /\ t # <<>> /\ Head(t)[1] = op /\ Head(t)[2] = p
      /\ u = Tail(t) \/ (u = Tail(Tail(t)) /\ Opens(Head(t)))
  BY StepAt DEF TakingInv, UninstallStep
<1> HIDE DEF t, u
<1>2. \A o, q : Ahead(t, o, q)
        => \/ Ahead(u, o, q)
           \/ q = Head(t)[2] /\ (o = Head(t)[1] \/ o \in Answering)
  BY <1>1, TodoGoes
<1> QED
  BY <1>1, <1>2 DEF t, u

\* What such a step must show of its own place.
LEMMA UninstallTakesOne ==
    ASSUME TakingInv, WiringInv', NEW op \in StepNames, NEW p, UninstallStep(op, p), Uninstalling,
           p \in Merged(client) => FileHeld(p)' /\ FileTaken(p)',
           p \in mine => RuleHeld(p)',
           p \in Trees(client) => TreeHeld(p)' /\ TreeTaken(p)',
           (client = "antigravity" /\ p \in Rules) => RuleTaken(p)',
           \/ saved' = saved /\ op \notin {"restore", "forget"}
           \/ saved' = "absent"
           \/ saved' = saved /\ Ahead(job'.todo, "forget", "status"),
           (op = "rmdir" /\ dir' = "empty" /\ record # NoRecord /\ record.dirs)
             => \E q \in Trees(client) : content'[q] # {},
           p \in Merged(client) => EntriesStay(content[p], content'[p]),
           p \in Trees(client) => TreeKept(p)
    PROVE  TakingInv' /\ KeepsUserWork
<1>1. job \in Jobs /\ job # Idle
  BY StepAt DEF TakingInv, UninstallStep
<1>2. client' = client /\ mine' = mine
  BY DEF UninstallStep, Kept, ghosts
<1> DEFINE u == job'.todo
<1>3. /\ job' \in Jobs
      /\ u = Tail(job.todo) \/ (u = Tail(Tail(job.todo)) /\ Opens(Head(job.todo)))
  <2>1. job' # Idle
    BY <1>1 DEF UninstallStep, Jobs, Idle
  <2>2. job' \in Jobs
    BY <2>1 DEF WiringInv, WiringTyped
  <2> QED
    BY <2>2 DEF UninstallStep
<1>4. PlaceHeld(p)'
  BY <1>2 DEF PlaceHeld
<1>5. saved' # "absent" => HasIndicator(client)
  BY DEF TakingInv, CommandHeld
<1>6. TakingInv'
  <2>1. /\ At(op, p) /\ Kept /\ job'.act = job.act
        /\ job.keep \subseteq job'.keep /\ job'.keep \subseteq job.keep \cup {p}
        /\ \A q \in WiredPlaces : q # p => content'[q] = content[q]
        /\ \A q \in Rules : q # p => (q \in marks' <=> q \in marks)
    BY DEF UninstallStep
  <2>2. \/ saved' = "absent"
        \/ saved' = saved /\ op \notin {"restore", "forget"}
        \/ Ahead(u, "forget", "status")
    OBVIOUS
  <2> HIDE DEF u
  <2>3. job'.todo = u
    BY DEF u
  <2> QED
    BY <1>3, <1>4, <1>5, <2>1, <2>2, <2>3, StepTakes
<1>7. KeepsUserWork
  <2>1. p \in mine => "rule" \in content'[p]
    BY DEF RuleHeld
  <2> QED
    BY <1>1, <2>1, ElsewhereKept DEF UninstallStep
<1> QED
  BY <1>6, <1>7

\* A file's step, by what it leaves there.
LEMMA FileSteps ==
    ASSUME TakingInv, WiringInv', NEW op \in {"leave", "reap", "empty"}, NEW p, NEW pieces,
           At(op, p), Kept, Write(p, pieces),
           Advance \/ (Skip /\ Opens(Head(job.todo))),
           pieces \subseteq content[p] \cup {"listed", "user"},
           (op # "reap" /\ FileHeld(p)) => pieces \cap Acc = {},
           FileHeld(p) => EntriesStay(content[p], pieces),
           \A q : q # p => (q \in marks' <=> q \in marks),
           saved' = saved, dir' = dir
    PROVE  TakingInv' /\ KeepsUserWork
<1>1. client \in Adapters /\ content = [q \in WiredPlaces |-> content[q]]
  BY DEF TakingInv, WiringInv, WiringTyped
<1>2. op \in StepNames /\ client' = client /\ mine' = mine
  BY DEF StepNames, Kept, ghosts
<1>3. Uninstalling /\ p \in TakesFrom(client)
  BY <1>2, StepOf DEF InstallOps, UninstallOps
<1>4. /\ p \in Merged(client) /\ p \in WiredPlaces /\ p \notin Trees(client)
      /\ client = "antigravity" => p \notin Rules
  BY <1>1, <1>3, PlacesApart
<1>5. p \notin mine
  BY <1>4 DEF TakingInv, PlaceHeld, RuleHeld
<1>6. \A q \in WiredPlaces : content'[q] = IF q = p THEN pieces ELSE content[q]
  BY <1>1, PlaceWritten
<1>7. content'[p] = pieces
  BY <1>4, <1>6
<1>8. UninstallStep(op, p)
  <2>1. job \in Jobs
    BY <1>2, StepAt DEF TakingInv
  <2> QED
    BY <1>6, <2>1, PlainMove DEF UninstallStep
<1>9. FileHeld(p) /\ FileTaken(p)
  BY <1>3, <1>4 DEF TakingInv, PlaceHeld
<1>10. FileHeld(p)'
  BY <1>2, <1>7, <1>9 DEF FileHeld
<1>11. FileTaken(p)'
  <2>1. CASE op # "reap"
    BY <1>7, <1>9, <2>1 DEF FileTaken
  <2>2. CASE op = "reap"
    <3>1. content[p] \cap Acc = {} => content'[p] \cap Acc = {}
      BY <1>7 DEF Acc
    <3>2. /\ Ahead(job.todo, "leave", p) => Ahead(job'.todo, "leave", p)
          /\ Ahead(job.todo, "empty", p) => Ahead(job'.todo, "empty", p)
      BY <1>2, <1>8, <2>2, AheadAfter DEF Answering
    <3> QED
      BY <1>9, <3>1, <3>2 DEF FileTaken
  <2> QED
    BY <2>1, <2>2
<1>12. EntriesStay(content[p], content'[p])
  BY <1>7, <1>9
<1> QED
  BY <1>2, <1>3, <1>4, <1>5, <1>7, <1>8, <1>10, <1>11, <1>12, UninstallTakesOne

\* The entries go, and the files ACC made with them.
LEMMA UninstallFiles ==
    ASSUME TakingInv, WiringInv', NEW p, Leave(p) \/ Reap(p) \/ Empty(p)
    PROVE  TakingInv' /\ KeepsUserWork
<1>1. CASE Leave(p)
  <2>1. /\ At("leave", p) /\ Kept /\ marks' = marks /\ saved' = saved /\ dir' = dir
        /\ "leave" \in StepNames
    BY <1>1 DEF Leave, StepNames
  <2>2. Head(job.todo)[1] = "leave" /\ Head(job.todo)[2] = p
    BY <2>1, StepAt DEF TakingInv
  <2>3. p = "hooks" => Opens(Head(job.todo))
    BY <2>2 DEF Opens
  <2>4. CASE Write(p, Left(p)) /\ (Advance \/ (Skip /\ p = "hooks"))
    <3>1. /\ Left(p) \subseteq content[p] \cup {"listed", "user"}
          /\ FileHeld(p) => Left(p) \cap Acc = {}
          /\ FileHeld(p) => EntriesStay(content[p], Left(p))
      BY DEF Left, Stripped, FileHeld, Acc, EntriesStay
    <3> QED
      BY <2>1, <2>3, <2>4, <3>1, FileSteps
  <2>5. CASE /\ Write(p, IF "acc" \in content[p] THEN (content[p] \ {"acc"}) \cup {"listed"}
                         ELSE content[p])
             /\ Advance /\ client = "antigravity"
    <3> DEFINE pieces == IF "acc" \in content[p] THEN (content[p] \ {"acc"}) \cup {"listed"}
                         ELSE content[p]
    <3>1. /\ pieces \subseteq content[p] \cup {"listed", "user"}
          /\ FileHeld(p) => pieces \cap Acc = {}
          /\ FileHeld(p) => EntriesStay(content[p], pieces)
      BY <2>5 DEF FileHeld, Acc, EntriesStay
    <3>2. Write(p, pieces)
      BY <2>5
    <3> HIDE DEF pieces
    <3> QED
      BY <2>1, <2>5, <3>1, <3>2, FileSteps
  <2> QED
    BY <1>1, <2>4, <2>5 DEF Leave
<1>2. CASE Reap(p)
  <2> DEFINE pieces == IF Reapable(p) /\ Blank(p) THEN {} ELSE content[p]
  <2>1. /\ At("reap", p) /\ Kept /\ marks' = marks \ {p} /\ saved' = saved /\ dir' = dir
        /\ Write(p, pieces) /\ Advance
    BY <1>2 DEF Reap
  <2>2. /\ pieces \subseteq content[p] \cup {"listed", "user"}
        /\ EntriesStay(content[p], pieces)
    BY DEF Blank, EntriesStay
  <2> HIDE DEF pieces
  <2> QED
    BY <2>1, <2>2, FileSteps
<1>3. CASE Empty(p)
  <2> DEFINE pieces == IF client = "claude" /\ "acc" \notin content[p] THEN content[p]
                       ELSE IF "user" \in content[p] THEN content[p] \ {"acc"} ELSE {}
  <2>1. /\ At("empty", p) /\ Kept /\ marks' = marks /\ saved' = saved /\ dir' = dir
        /\ Write(p, pieces) /\ Advance /\ "empty" \in StepNames
    BY <1>3 DEF Empty, StepNames
  <2>2. p # "config"
    BY <2>1, StepOf DEF InstallOps, UninstallOps
  <2>3. /\ pieces \subseteq content[p] \cup {"listed", "user"}
        /\ FileHeld(p) => pieces \cap Acc = {}
        /\ FileHeld(p) => EntriesStay(content[p], pieces)
    BY <2>2 DEF FileHeld, Acc, EntriesStay
  <2> HIDE DEF pieces
  <2> QED
    BY <2>1, <2>3, FileSteps
<1> QED
  BY <1>1, <1>2, <1>3

\* The rules are withdrawn, then their claims.
LEMMA UninstallRules ==
    ASSUME TakingInv, WiringInv', NEW p, Withdraw(p) \/ Unclaim(p)
    PROVE  TakingInv' /\ KeepsUserWork
<1>1. /\ client \in Adapters /\ content = [q \in WiredPlaces |-> content[q]]
      /\ RulesKnown(client, content, marks, mine)
  BY DEF TakingInv, WiringInv, WiringTyped
<1>2. PICK op, pieces :
        /\ op \in {"withdraw", "unclaim"}
        /\ op = "withdraw" => Withdraw(p)
        /\ op = "unclaim" => Unclaim(p) /\ pieces = content[p]
        /\ At(op, p) /\ Kept /\ saved' = saved /\ dir' = dir
        /\ \/ Advance /\ Write(p, pieces)
           \/ Skip /\ op = "withdraw" /\ content' = content /\ pieces = content[p]
        /\ \A q : (q # p /\ q # "settingsMade") => (q \in marks' <=> q \in marks)
        /\ marks' \subseteq marks
        /\ pieces \subseteq content[p] /\ EntriesStay(content[p], pieces)
        /\ op = "withdraw" => /\ marks' = marks
                              /\ \/ "rule" \notin pieces
                                 \/ (p \notin marks \/ "bad" \in pieces) /\ pieces = content[p]
        /\ (op = "withdraw" /\ p \notin marks) => pieces = content[p]
  <2>1. CASE Withdraw(p)
    <3>1. At("withdraw", p) /\ Kept /\ saved' = saved /\ dir' = dir /\ marks' = marks
      BY <2>1 DEF Withdraw
    <3>2. CASE p \notin marks \/ "bad" \in content[p]
      <4>1. Skip /\ content' = content
        BY <2>1, <3>2 DEF Withdraw
      <4>2. EntriesStay(content[p], content[p])
        BY DEF EntriesStay
      <4> QED
        BY <2>1, <3>1, <3>2, <4>1, <4>2
    <3>3. CASE ~(p \notin marks \/ "bad" \in content[p])
      <4> DEFINE rest == content[p] \ {"rule"}
                 pieces == IF /\ "rule" \in content[p] /\ p = "settings"
                              /\ "settingsMade" \in marks /\ rest \subseteq {"file"}
                           THEN {} ELSE rest
      <4>1. Advance /\ Write(p, pieces)
        BY <2>1, <3>3 DEF Withdraw
      <4>2. /\ pieces \subseteq content[p] /\ "rule" \notin pieces
            /\ EntriesStay(content[p], pieces)
        BY DEF EntriesStay
      <4> HIDE DEF pieces
      <4> QED
        BY <2>1, <3>1, <3>3, <4>1, <4>2
    <3> QED
      BY <3>2, <3>3
  <2>2. CASE Unclaim(p)
    <3>1. /\ At("unclaim", p) /\ Kept /\ saved' = saved /\ dir' = dir /\ Advance
          /\ content' = content /\ marks' \subseteq marks
          /\ \A q : (q # p /\ q # "settingsMade") => (q \in marks' <=> q \in marks)
      BY <2>2 DEF Unclaim
    <3>2. Write(p, content[p])
      BY <1>1, <3>1 DEF Write
    <3>3. EntriesStay(content[p], content[p])
      BY DEF EntriesStay
    <3> QED
      BY <2>2, <3>1, <3>2, <3>3
  <2> QED
    BY <2>1, <2>2
<1>3. op \in StepNames /\ client' = client /\ mine' = mine
  BY <1>2 DEF StepNames, Kept, ghosts
<1>4. Uninstalling /\ client = "antigravity" /\ p \in Rules
  BY <1>2, <1>3, StepOf DEF InstallOps, UninstallOps
<1>5. p \in Merged(client) /\ p \in WiredPlaces /\ p \notin Trees(client)
  BY <1>1, <1>4, PlacesApart
<1>6. \A q \in WiredPlaces : content'[q] = IF q = p THEN pieces ELSE content[q]
  BY <1>1, <1>2, PlaceWritten
<1>7. content'[p] = pieces
  BY <1>5, <1>6
<1>8. /\ Head(job.todo)[1] = op /\ Head(job.todo)[2] = p /\ job \in Jobs
      /\ Ready(Head(job.todo), client, content, marks, status, saved, last)
  BY <1>2, <1>3, StepAt DEF TakingInv
<1>9. UninstallStep(op, p)
  <2>1. Advance \/ (Skip /\ Opens(Head(job.todo)))
    BY <1>2, <1>8 DEF Opens
  <2>2. \A q \in Rules : q # p => (q \in marks' <=> q \in marks)
    BY <1>2 DEF Rules
  <2> QED
    BY <1>2, <1>6, <1>8, <2>1, <2>2, PlainMove DEF UninstallStep
<1>10. FileHeld(p) /\ FileTaken(p) /\ (p \in mine => RuleHeld(p))
  BY <1>4, <1>5 DEF TakingInv, PlaceHeld
<1>11. FileHeld(p)'
  BY <1>2, <1>3, <1>7, <1>10 DEF FileHeld
<1>12. FileTaken(p)'
  <2>1. content[p] \cap Acc = {} => content'[p] \cap Acc = {}
    BY <1>2, <1>7 DEF Acc
  <2>2. /\ Ahead(job.todo, "leave", p) => Ahead(job'.todo, "leave", p)
        /\ Ahead(job.todo, "empty", p) => Ahead(job'.todo, "empty", p)
    BY <1>2, <1>3, <1>9, AheadAfter DEF Answering
  <2> QED
    BY <1>10, <2>1, <2>2 DEF FileTaken
<1>13. p \in mine => RuleHeld(p)'
  <2> SUFFICES ASSUME p \in mine
               PROVE  RuleHeld(p)'
    OBVIOUS
  <2>1. "rule" \in content[p] /\ p \notin marks
    BY <1>10 DEF RuleHeld
  <2>2. pieces = content[p] /\ p \notin marks'
    BY <1>2, <2>1
  <2> QED
    BY <1>3, <1>4, <1>7, <2>1, <2>2 DEF RuleHeld
<1>14. RuleTaken(p)'
  <2>1. CASE op = "withdraw"
    <3>1. \/ "rule" \notin content'[p]
          \/ "rule" \in content[p] /\ marks' = marks /\ (p \notin marks \/ "bad" \in content'[p])
      BY <1>2, <1>7, <2>1
    <3>2. "rule" \in content[p] => p \in marks \cup mine
      BY <1>1, <1>4 DEF RulesKnown
    <3> QED
      BY <1>3, <3>1, <3>2 DEF RuleTaken
  <2>2. CASE op = "unclaim"
    <3>1. "rule" \notin content[p]
      BY <1>4, <1>8, <2>2 DEF Ready
    <3>2. "rule" \notin content'[p]
      BY <1>2, <1>7, <3>1
    <3> QED
      BY <3>2 DEF RuleTaken
  <2> QED
    BY <1>2, <2>1, <2>2
<1>15. /\ saved' = saved /\ op \notin {"restore", "forget"} /\ op # "rmdir"
       /\ EntriesStay(content[p], content'[p])
  BY <1>2, <1>7
<1> QED
  BY <1>3, <1>4, <1>5, <1>9, <1>11, <1>12, <1>13, <1>14, <1>15, UninstallTakesOne

\* What comes before the removals that are left: none of them is a recorded tree.
LEMMA NoOwnAhead ==
    ASSUME NEW c, NEW t, Coupled(t), Unreaped(c, t), t # <<>>, Ordered(t),
           Head(t)[1] # "own", NEW p
    PROVE  ~Ahead(t, "own", p)
<1> SUFFICES ASSUME Ahead(t, "own", p)
             PROVE  FALSE
  OBVIOUS
<1>1. t \in Seq(WiringSteps) /\ Head(t) = t[1]
  BY TailCoupled DEF Coupled
<1>2. PICK i \in 1 .. Len(t) : t[i] = <<"own", p>>
  BY DEF Ahead
<1>3. t[i][1] = "own" /\ 1 \in 1 .. Len(t)
  BY <1>1, <1>2
<1>4. i = 1 \/ 1 < i
  BY <1>1
<1> QED
  BY <1>1, <1>3, <1>4 DEF Ordered

\* The trees of an uninstall.
LEMMA UninstallTrees ==
    ASSUME TakingInv, WiringInv', NEW p, Own(p) \/ Drop(p)
    PROVE  TakingInv' /\ KeepsUserWork
<1>1. client \in Adapters /\ content = [q \in WiredPlaces |-> content[q]]
  BY DEF TakingInv, WiringInv, WiringTyped
<1>2. PICK op, pieces :
        /\ op \in {"own", "drop"}
        /\ op = "own" => Own(p)
        /\ op = "drop" => Drop(p)
        /\ At(op, p) /\ Kept /\ saved' = saved /\ dir' = dir /\ marks' = marks
        /\ Write(p, pieces) /\ (pieces = {} \/ pieces = content[p])
  <2>1. CASE Own(p)
    <3> DEFINE stamped == IF record = NoRecord THEN {} ELSE record.trees[p]
    <3>1. Write(p, IF content[p] = stamped THEN {} ELSE content[p])
      BY <2>1 DEF Own
    <3> QED
      BY <2>1, <3>1 DEF Own
  <2>2. CASE Drop(p)
    <3>1. Write(p, IF p \in job.keep \/ (p = "rules" /\ "edit" \in content[p])
                   THEN content[p] ELSE {})
      BY <2>2 DEF Drop
    <3> QED
      BY <2>2, <3>1 DEF Drop
  <2> QED
    BY <2>1, <2>2
<1>3. op \in StepNames /\ client' = client /\ mine' = mine /\ record' = record /\ cut' = cut
  BY <1>2 DEF StepNames, Kept, ghosts
<1>4. Uninstalling /\ p \in Trees(client)
  BY <1>2, <1>3, StepOf DEF InstallOps, UninstallOps
<1>5. p \in WiredPlaces /\ p \notin Merged(client) /\ p \notin mine
      /\ (client = "antigravity" => p \notin Rules)
  <2>1. p \in WiredPlaces /\ p \notin Merged(client)
        /\ (client = "antigravity" => p \notin Rules)
    BY <1>1, <1>4, PlacesApart
  <2> QED
    BY <2>1 DEF TakingInv, PlaceHeld, RuleHeld
<1>6. \A q \in WiredPlaces : content'[q] = IF q = p THEN pieces ELSE content[q]
  BY <1>1, <1>2, PlaceWritten
<1>7. content'[p] = pieces
  BY <1>5, <1>6
<1>8. /\ Head(job.todo)[1] = op /\ job \in Jobs /\ job.todo # <<>>
      /\ Coupled(job.todo) /\ Unreaped(client, job.todo)
  BY <1>2, <1>3, StepAt DEF TakingInv
<1>9. /\ job'.act = job.act /\ job'.todo = Tail(job.todo)
      /\ job'.keep = IF op = "own" /\ content[p] # {} /\ record # NoRecord
                        /\ content[p] # record.trees[p]
                     THEN job.keep \cup {p} ELSE job.keep
  <2>1. CASE op = "own"
    <3> DEFINE stamped == IF record = NoRecord THEN {} ELSE record.trees[p]
               held == content[p] # {} /\ record # NoRecord /\ content[p] # stamped
               kept == IF held THEN job.keep \cup {p} ELSE job.keep
    <3>1. job' = [job EXCEPT !.todo = Tail(job.todo), !.keep = kept]
      BY <1>2, <2>1 DEF Own
    <3>2. kept = IF op = "own" /\ content[p] # {} /\ record # NoRecord
                    /\ content[p] # record.trees[p]
                 THEN job.keep \cup {p} ELSE job.keep
      BY <2>1
    <3> HIDE DEF kept
    <3> QED
      BY <1>8, <3>1, <3>2 DEF Jobs
  <2>2. CASE op = "drop"
    <3>1. Advance
      BY <1>2, <2>2 DEF Drop
    <3> QED
      BY <1>8, <2>2, <3>1 DEF Jobs, Advance
  <2> QED
    BY <1>2, <2>1, <2>2
<1>10. UninstallStep(op, p)
  BY <1>2, <1>6, <1>9 DEF UninstallStep
<1>11. TreeHeld(p) /\ TreeTaken(p)
  BY <1>4 DEF TakingInv, PlaceHeld
<1>12. TreeHeld(p)'
  <2>1. ~Installing
    BY <1>4 DEF Installing, Uninstalling
  <2>2. CASE pieces = {}
    BY <1>7, <2>2 DEF TreeHeld
  <2>3. CASE pieces = content[p]
    BY <1>3, <1>7, <1>11, <2>1, <2>3 DEF TreeHeld
  <2> QED
    BY <1>2, <2>2, <2>3
<1>13. /\ op = "own" => pieces = IF record = NoRecord
                                 THEN content[p]
                                 ELSE IF content[p] = record.trees[p] THEN {} ELSE content[p]
       /\ op = "drop" => pieces = IF p \in job.keep \/ (p = "rules" /\ "edit" \in content[p])
                                  THEN content[p] ELSE {}
  <2>1. CASE op = "own"
    <3>1. Write(p, IF content[p] = (IF record = NoRecord THEN {} ELSE record.trees[p])
                   THEN {} ELSE content[p])
      BY <1>2, <2>1 DEF Own
    <3>2. content'[p] = IF content[p] = (IF record = NoRecord THEN {} ELSE record.trees[p])
                        THEN {} ELSE content[p]
      BY <1>1, <1>5, <3>1, PlaceWritten
    <3> QED
      BY <1>7, <2>1, <3>2
  <2>2. CASE op = "drop"
    <3>1. Write(p, IF p \in job.keep \/ (p = "rules" /\ "edit" \in content[p])
                   THEN content[p] ELSE {})
      BY <1>2, <2>2 DEF Drop
    <3>2. content'[p] = IF p \in job.keep \/ (p = "rules" /\ "edit" \in content[p])
                        THEN content[p] ELSE {}
      BY <1>1, <1>5, <3>1, PlaceWritten
    <3> QED
      BY <1>7, <2>2, <3>2
  <2> QED
    BY <1>2, <2>1, <2>2
<1>14. TreeTaken(p)'
  <2>1. CASE op = "own"
    <3>1. Ahead(job.todo, "drop", p) => Ahead(job'.todo, "drop", p)
      BY <1>3, <1>10, <2>1, AheadAfter DEF Answering
    <3>2. (record # NoRecord /\ p \in job.keep) => content[p] # record.trees[p]
      BY <1>11 DEF TreeTaken
    <3>3. record # NoRecord => pieces = {} \/ p \in job'.keep
      BY <1>9, <1>13, <2>1
    <3>4. (record # NoRecord /\ p \in job'.keep) => pieces # record.trees[p]
      BY <1>9, <1>13, <2>1, <3>2
    <3>5. \/ Ahead(job'.todo, "drop", p) \/ pieces = {} \/ "edit" \in pieces
          \/ p \in job'.keep
      BY <1>2, <1>9, <1>11, <3>1 DEF TreeTaken
    <3> QED
      BY <1>3, <1>7, <3>3, <3>4, <3>5 DEF TreeTaken
  <2>2. CASE op = "drop"
    <3>1. Ahead(job.todo, "own", p) => Ahead(job'.todo, "own", p)
      BY <1>3, <1>10, <2>2, AheadAfter DEF Answering
    <3>2. job'.keep = job.keep
      BY <1>9, <2>2
    <3>3. record # NoRecord => \/ pieces = {} \/ p \in job'.keep
                               \/ Ahead(job'.todo, "own", p)
      BY <1>2, <1>11, <3>1, <3>2 DEF TreeTaken
    <3>4. (record # NoRecord /\ p \in job'.keep) => pieces # record.trees[p]
      BY <1>11, <1>13, <2>2, <3>2 DEF TreeTaken
    <3>5. pieces = {} \/ "edit" \in pieces \/ p \in job'.keep
      BY <1>13, <2>2, <3>2
    <3> QED
      BY <1>3, <1>7, <3>3, <3>4, <3>5 DEF TreeTaken
  <2> QED
    BY <1>2, <2>1, <2>2
<1>15. TreeKept(p)
  <2>1. job.act = "uninstall"
    BY <1>4 DEF Uninstalling
  <2> SUFFICES ASSUME record # NoRecord
               PROVE  Yours(content[p]) \subseteq Yours(pieces) \cup record.trees[p]
    BY <1>7, <2>1 DEF TreeKept
  <2>2. CASE pieces = content[p]
    BY <2>2
  <2>3. CASE op = "own" /\ pieces # content[p]
    <3>1. content[p] = record.trees[p]
      BY <1>13, <2>3
    <3> QED
      BY <3>1 DEF Yours
  <2>4. CASE op = "drop" /\ pieces # content[p]
    <3>1. p \notin job.keep
      BY <1>13, <2>4
    <3>2. ~Ahead(job.todo, "own", p)
      <4>1. Ordered(job.todo)
        BY <1>4 DEF TakingInv, CommandHeld
      <4>2. Head(job.todo)[1] # "own"
        BY <1>8, <2>4
      <4> QED
        BY <1>8, <4>1, <4>2, NoOwnAhead
    <3>3. content[p] = {}
      BY <1>11, <3>1, <3>2 DEF TreeTaken
    <3> QED
      BY <3>3 DEF Yours
  <2> QED
    BY <1>2, <2>2, <2>3, <2>4
<1>16. saved' = saved /\ op \notin {"restore", "forget"} /\ op # "rmdir"
  BY <1>2
<1> QED
  BY <1>3, <1>4, <1>5, <1>10, <1>12, <1>14, <1>15, <1>16, UninstallTakesOne

\* The user's own status line comes back, on and off.
LEMMA StatusGoes ==
    ASSUME TakingInv, WiringInv', Restore \/ Forget
    PROVE  TakingInv' /\ KeepsUserWork
<1>1. /\ client \in Adapters /\ "status" \notin Rules
      /\ "status" \notin Trees(client) /\ "status" \notin Merged(client)
      /\ "status" \notin mine
  <2>1. client \in Adapters
    BY DEF TakingInv, WiringInv, WiringTyped
  <2>2. "status" \in mine => "status" \in Rules
    BY DEF TakingInv, PlaceHeld, RuleHeld
  <2> QED
    BY <2>1, <2>2, NoPlaces
<1>2. PICK op \in {"restore", "forget"} :
        /\ At(op, "status") /\ Kept /\ content' = content /\ marks' = marks /\ dir' = dir
        /\ op = "restore" => /\ saved' = saved
                             /\ IF saved = "absent" THEN Skip ELSE Advance
        /\ op = "forget" => saved' = "absent" /\ Advance
  BY DEF Restore, Forget
<1>3. op \in StepNames
  BY DEF StepNames
<1>4. /\ Head(job.todo)[1] = op /\ Head(job.todo)[2] = "status" /\ job \in Jobs
      /\ job.todo # <<>> /\ Coupled(job.todo) /\ Unreaped(client, job.todo)
  BY <1>2, <1>3, StepAt DEF TakingInv
<1>5. Advance \/ (Skip /\ Opens(Head(job.todo)))
  BY <1>2, <1>4 DEF Opens
<1>6. CASE Installing
  <2>1. saved' # "absent" => HasIndicator(client)
    BY <1>2 DEF TakingInv, CommandHeld
  <2>2. InstallStep(op, "status")
    BY <1>2, <1>5, <2>1 DEF InstallStep
  <2> QED
    BY <1>1, <1>3, <1>6, <2>2, InstallTakes
<1>7. CASE Uninstalling
  <2>1. UninstallStep(op, "status")
    BY <1>2, <1>4, <1>5, PlainMove DEF UninstallStep
  <2>2. \/ saved' = "absent"
        \/ saved' = saved /\ Ahead(job'.todo, "forget", "status")
    <3> SUFFICES ASSUME op = "restore", saved # "absent"
                 PROVE  Ahead(job'.todo, "forget", "status")
      BY <1>2
    <3> DEFINE u == Tail(job.todo)
    <3>1. job'.todo = u
      BY <1>2, <1>4 DEF Advance, Jobs
    <3>2. u # <<>> /\ Follows(u[1], Head(job.todo)) /\ u \in Seq(WiringSteps)
      BY <1>4, TailCoupled DEF Opens, Coupled
    <3> HIDE DEF u
    <3>3. 1 \in 1 .. Len(u) /\ u[1] \in WiringSteps
      BY <3>2
    <3>4. u[1] = <<"forget", "status">>
      BY <1>4, <3>2, <3>3 DEF Follows, WiringSteps
    <3> QED
      BY <3>1, <3>3, <3>4 DEF Ahead
  <2> QED
    BY <1>1, <1>2, <1>3, <1>7, <2>1, <2>2, UninstallTakesOne
<1> QED
  BY <1>2, <1>3, <1>6, <1>7, StepOf

\* The directory goes while it is empty.
LEMMA DirectoryGoes ==
    ASSUME TakingInv, WiringInv', RemoveDirectory
    PROVE  TakingInv' /\ KeepsUserWork
<1>1. /\ client \in Adapters /\ "all" \notin Rules
      /\ "all" \notin Trees(client) /\ "all" \notin Merged(client)
      /\ "all" \notin mine
  <2>1. client \in Adapters
    BY DEF TakingInv, WiringInv, WiringTyped
  <2>2. "all" \in mine => "all" \in Rules
    BY DEF TakingInv, PlaceHeld, RuleHeld
  <2> QED
    BY <2>1, <2>2, NoPlaces
<1>2. /\ At("rmdir", "all") /\ Kept /\ content' = content /\ marks' = marks /\ saved' = saved
      /\ Advance /\ "rmdir" \in StepNames
      /\ dir' = IF /\ record # NoRecord /\ record.dirs
                   /\ dir = "empty"
                   /\ \A p \in Trees(client) : content[p] = {}
                THEN "none" ELSE dir
  BY DEF RemoveDirectory, StepNames
<1>3. job \in Jobs
  BY <1>2, StepAt DEF TakingInv
<1>4. Uninstalling
  BY <1>2, StepOf DEF InstallOps
<1>5. UninstallStep("rmdir", "all")
  BY <1>2, <1>3, PlainMove DEF UninstallStep
<1>6. (dir' = "empty" /\ record # NoRecord /\ record.dirs)
        => \E q \in Trees(client) : content'[q] # {}
  BY <1>2
<1> QED
  BY <1>1, <1>2, <1>4, <1>5, <1>6, UninstallTakesOne

\* A command begins with everything it is to write or take back ahead.
LEMMA CommandBegins ==
    ASSUME TakingInv, WiringInv', NEW act \in {"install", "uninstall"}, NEW v,
           NEW on \in BOOLEAN, Begin(act, v, on)
    PROVE  TakingInv'
<1>1. /\ client \in Adapters /\ job = Idle
      /\ client' = client /\ content' = content /\ dir' = dir /\ marks' = marks
      /\ saved' = saved /\ record' = record /\ cut' = cut /\ mine' = mine
  BY DEF Begin, ghosts, TakingInv, WiringInv, WiringTyped
<1> DEFINE t == IF act = "install" THEN InstallSteps(client, on) ELSE UninstallSteps(client)
<1>2. job'.act = act /\ job'.todo = t /\ job'.keep = {}
  BY DEF Begin
<1>3. ~Installing /\ job' # Idle
  BY <1>1, <1>2 DEF Installing, Idle
<1>4. \A q : PlaceHeld(q)
  BY DEF TakingInv
<1>5. saved # "absent" => HasIndicator(client)
  BY DEF TakingInv, CommandHeld
<1>6. CASE act = "install"
  <2>1. Installing' /\ ~Uninstalling'
    BY <1>2, <1>3, <1>6 DEF Installing, Uninstalling
  <2>2. Installs(client, job'.todo)
    BY <1>1, <1>2, <1>6, InstallWrites
  <2>3. ASSUME NEW q
        PROVE  PlaceHeld(q)'
    <3>1. /\ q \in Merged(client) => FileHeld(q)'
          /\ q \in mine => RuleHeld(q)'
      BY <1>1, <1>4 DEF PlaceHeld, FileHeld, RuleHeld
    <3> QED
      BY <1>1, <2>1, <3>1, InstallPlace
  <2>4. CommandHeld'
    BY <1>1, <1>5, <2>1, <2>2 DEF CommandHeld
  <2> QED
    BY <2>3, <2>4 DEF TakingInv
<1>7. CASE act = "uninstall"
  <2>1. Uninstalling' /\ ~Installing'
    BY <1>2, <1>3, <1>7 DEF Installing, Uninstalling
  <2>2. t = UninstallSteps(client)
    BY <1>7
  <2> HIDE DEF t
  <2>3. /\ Uninstalls(client, t) /\ Ordered(t) /\ t # <<>>
        /\ \A q \in Trees(client) : Ahead(t, "own", q) /\ Ahead(t, "drop", q)
        /\ \A q \in TakesFrom(client) : Ahead(t, "leave", q) \/ Ahead(t, "empty", q)
        /\ client = "antigravity" => \A q \in Rules : Ahead(t, "withdraw", q)
        /\ HasIndicator(client) => Ahead(t, "restore", "status")
    BY <1>1, <2>2, UninstallTakes
  <2>4. ASSUME NEW q
        PROVE  PlaceHeld(q)'
    <3>1. PlaceHeld(q)
      BY <1>4
    <3>2. q \in Merged(client) => FileHeld(q)'
      BY <1>1, <3>1 DEF PlaceHeld, FileHeld
    <3>3. q \in mine => RuleHeld(q)'
      BY <1>1, <3>1 DEF PlaceHeld, RuleHeld
    <3>4. q \in Trees(client) => TreeHeld(q)'
      BY <1>1, <1>3, <3>1 DEF PlaceHeld, TreeHeld
    <3>5. q \in Trees(client) => TreeTaken(q)'
      BY <1>1, <1>2, <2>3 DEF TreeTaken
    <3>6. q \in Merged(client) => FileTaken(q)'
      <4> SUFFICES ASSUME q \in Merged(client), content[q] \cap Acc # {}
                   PROVE  Ahead(t, "leave", q) \/ Ahead(t, "empty", q)
        BY <1>1, <1>2 DEF FileTaken
      <4>1. FileHeld(q)
        BY <3>1 DEF PlaceHeld
      <4>2. "acc" \in content[q] \/ "bare" \in content[q]
        BY <4>1 DEF FileHeld, Acc
      <4>3. q \in TakesFrom(client)
        BY <4>1, <4>2 DEF FileHeld, TakesFrom
      <4> QED
        BY <2>3, <4>3
    <3>7. (client = "antigravity" /\ q \in Rules) => RuleTaken(q)'
      BY <1>1, <1>2, <2>3 DEF RuleTaken
    <3> QED
      BY <1>1, <3>2, <3>3, <3>4, <3>5, <3>6, <3>7 DEF PlaceHeld
  <2>5. CommandHeld'
    BY <1>1, <1>2, <1>5, <2>1, <2>3 DEF CommandHeld
  <2> QED
    BY <2>4, <2>5 DEF TakingInv
<1> QED
  BY <1>6, <1>7

\* A command that is over, when all its trees are accounted for.
LEMMA CommandEnds ==
    ASSUME TakingInv, WiringInv', job # Idle, job' = Idle,
           client' = client, marks' = marks, saved' = saved, mine' = mine, dir' = dir,
           \A q \in WiredPlaces :
             \/ content'[q] = content[q]
             \/ q \in Trees(client) /\ Installing /\ content[q] \subseteq content'[q],
           \A q \in Trees(client) : TreeHeld(q)'
    PROVE  TakingInv' /\ KeepsUserWork
<1>1. client \in Adapters /\ job.act \in {"install", "uninstall"}
  BY DEF TakingInv, WiringInv, WiringTyped, Jobs
<1>2. ~Installing' /\ ~Uninstalling'
  BY DEF Installing, Uninstalling
<1>3. \A q \in Merged(client) : content'[q] = content[q]
  BY <1>1, PlacesApart
<1>4. \A q : PlaceHeld(q)
  BY DEF TakingInv
<1>5. ASSUME NEW q \in mine
      PROVE  RuleHeld(q)'
  <2>1. RuleHeld(q)
    BY <1>4, <1>5 DEF PlaceHeld
  <2>2. q \in Merged(client)
    BY <1>1, <2>1, PlacesApart DEF RuleHeld
  <2> QED
    BY <1>3, <2>1, <2>2 DEF RuleHeld
<1>6. ASSUME NEW q
      PROVE  PlaceHeld(q)'
  <2>1. q \in Merged(client) => FileHeld(q)'
    BY <1>3, <1>4 DEF PlaceHeld, FileHeld
  <2> QED
    BY <1>2, <1>5, <2>1 DEF PlaceHeld
<1>7. CommandHeld'
  BY <1>2 DEF TakingInv, CommandHeld
<1>8. TakingInv'
  BY <1>6, <1>7 DEF TakingInv
<1>9. \A q \in mine : "rule" \in content'[q]
  BY <1>5 DEF RuleHeld
<1>10. ASSUME NEW q \in Trees(client)
       PROVE  TreeKept(q)
  <2>1. \/ content'[q] = content[q]
        \/ Installing /\ content[q] \subseteq content'[q]
    BY <1>1, <1>10, PlacesApart
  <2> QED
    BY <1>1, <2>1 DEF TreeKept, Installing
<1>11. \A q \in Merged(client) : EntriesStay(content[q], content'[q])
  BY <1>3 DEF EntriesStay
<1>12. KeepsUserWork
  BY <1>9, <1>10, <1>11 DEF KeepsUserWork, TreeKept
<1> QED
  BY <1>8, <1>12

\* A command that is carried through, refused or killed.
LEMMA EndsTake ==
    ASSUME TakingInv, WiringInv', FinishInstall \/ FinishUninstall \/ Refused \/ Stop
    PROVE  TakingInv' /\ KeepsUserWork
<1>1. /\ job # Idle /\ job' = Idle /\ client' = client /\ marks' = marks /\ saved' = saved
      /\ mine' = mine /\ dir' = dir
  BY DEF FinishInstall, FinishUninstall, Refused, Stop, ghosts
<1>2. ~Installing' /\ client \in Adapters /\ job \in Jobs
  BY <1>1 DEF Installing, TakingInv, WiringInv, WiringTyped
<1>3. \A q \in Trees(client) : TreeHeld(q)
  BY DEF TakingInv, PlaceHeld
<1>4. CASE FinishInstall
  <2>1. content' = content /\ record' = Recorded
    BY <1>4 DEF FinishInstall
  <2>2. \A q \in Trees(client) : TreeHeld(q)'
    BY <1>1, <2>1 DEF TreeHeld, Recorded
  <2> QED
    BY <1>1, <2>1, <2>2, CommandEnds
<1>5. CASE FinishUninstall
  <2>1. content' = content /\ record' = NoRecord
    BY <1>5 DEF FinishUninstall
  <2>2. \A q \in Trees(client) : TreeHeld(q)'
    BY <2>1 DEF TreeHeld
  <2> QED
    BY <1>1, <2>1, <2>2, CommandEnds
<1>6. CASE Refused
  <2>1. content' = content /\ record' = record /\ cut' = (cut \/ Cut) /\ job.todo # <<>>
    BY <1>6 DEF Refused
  <2>2. ~cut' => ~cut /\ ~Installing
    BY <2>1 DEF Cut, Installing
  <2>3. \A q \in Trees(client) : TreeHeld(q)'
    BY <1>1, <1>3, <2>1, <2>2 DEF TreeHeld
  <2> QED
    BY <1>1, <2>1, <2>3, CommandEnds
<1>7. CASE Stop
  <2>1. record' = record /\ cut' = (cut \/ job.act = "install")
    BY <1>7 DEF Stop
  <2>2. ~cut' => ~cut /\ ~Installing
    BY <2>1 DEF Installing
  <2>3. CASE content' = content
    <3>1. \A q \in Trees(client) : TreeHeld(q)'
      BY <1>1, <1>3, <2>1, <2>2, <2>3 DEF TreeHeld
    <3> QED
      BY <1>1, <2>3, <3>1, CommandEnds
  <2>4. CASE content' # content
    <3> DEFINE p == Head(job.todo)[2]
    <3>1. /\ job.todo # <<>> /\ Head(job.todo)[1] = "fill"
          /\ Write(p, content[p] \cup {"part"})
      BY <1>7, <2>4 DEF Stop
    <3>2. At("fill", p) /\ "fill" \in StepNames
      <4>1. job.todo \in Seq(WiringSteps)
        BY <1>2 DEF Jobs
      <4>2. Head(job.todo) \in StepNames \X StepPlaces
        BY <3>1, <4>1 DEF WiringSteps
      <4>3. Head(job.todo) = <<"fill", p>>
        BY <3>1, <4>2
      <4> QED
        BY <1>1, <3>1, <4>3 DEF At, StepNames
    <3> HIDE DEF p
    <3>3. Installing /\ p \in Trees(client)
      BY <3>2, StepOf DEF InstallOps, UninstallOps
    <3>4. \A q \in WiredPlaces :
            content'[q] = IF q = p THEN content[p] \cup {"part"} ELSE content[q]
      BY <3>1, PlaceWritten DEF TakingInv, WiringInv, WiringTyped
    <3>5. \A q \in WiredPlaces :
            \/ content'[q] = content[q]
            \/ q \in Trees(client) /\ Installing /\ content[q] \subseteq content'[q]
      BY <3>3, <3>4
    <3>6. \A q \in Trees(client) : TreeHeld(q)'
      BY <2>2, <3>3 DEF TreeHeld
    <3> QED
      BY <1>1, <3>5, <3>6, CommandEnds
  <2> QED
    BY <2>3, <2>4
<1> QED
  BY <1>4, <1>5, <1>6, <1>7

\* An edit of the user's, when every place is accounted for.
LEMMA EditsHold ==
    ASSUME TakingInv, WiringInv', Edits,
           \A q \in Merged(client) : FileHeld(q)',
           \A q \in mine' : RuleHeld(q)',
           \A q \in Trees(client) : TreeHeld(q)'
    PROVE  TakingInv'
<1>1. job' = Idle /\ client' = client /\ saved' = saved
  BY DEF Edits
<1>2. ~Installing' /\ ~Uninstalling'
  BY <1>1 DEF Installing, Uninstalling
<1>3. ASSUME NEW q
      PROVE  PlaceHeld(q)'
  BY <1>1, <1>2 DEF PlaceHeld
<1>4. CommandHeld'
  BY <1>1, <1>2 DEF TakingInv, CommandHeld
<1> QED
  BY <1>3, <1>4 DEF TakingInv

\* What the user leaves alone is as it was.
LEMMA Untouched ==
    ASSUME TakingInv, Edits, NEW q, q \in WiredPlaces => content'[q] = content[q]
    PROVE  /\ q \in Merged(client) => FileHeld(q)'
           /\ (q \in mine) => RuleHeld(q)'
           /\ q \in Trees(client) => TreeHeld(q)'
<1>1. /\ client \in Adapters /\ PlaceHeld(q)
      /\ job' = job /\ client' = client /\ marks' = marks /\ record' = record /\ cut' = cut
  BY DEF Edits, TakingInv, WiringInv, WiringTyped
<1>2. q \in Merged(client) => FileHeld(q)'
  BY <1>1, PlacesApart DEF PlaceHeld, FileHeld
<1>3. q \in mine => RuleHeld(q)'
  <2> SUFFICES ASSUME q \in mine
               PROVE  RuleHeld(q)'
    OBVIOUS
  <2>1. RuleHeld(q)
    BY <1>1 DEF PlaceHeld
  <2>2. q \in WiredPlaces
    BY <1>1, <2>1, PlacesApart DEF RuleHeld
  <2> QED
    BY <1>1, <2>1, <2>2 DEF RuleHeld
<1>4. q \in Trees(client) => TreeHeld(q)'
  BY <1>1, PlacesApart DEF PlaceHeld, TreeHeld, Installing
<1> QED
  BY <1>2, <1>3, <1>4

\* The user's edits of a client's file.
LEMMA FileEdits ==
    ASSUME TakingInv, WiringInv', NEW p \in Merged(client), EditFile(p)
    PROVE  TakingInv'
<1>1. /\ client \in Adapters /\ content = [q \in WiredPlaces |-> content[q]] /\ PlaceHeld(p)
      /\ Edits /\ client' = client /\ marks' = marks
  BY DEF TakingInv, WiringInv, WiringTyped, EditFile, Edits
<1>2. p \in WiredPlaces /\ p \notin Trees(client)
  BY <1>1, PlacesApart
<1>3. PICK pieces : /\ Write(p, pieces)
                    /\ pieces \subseteq content[p] \cup {"file", "user", "bad"}
                    /\ "rule" \in content[p] => "rule" \in pieces \/ pieces = {}
  BY DEF EditFile
<1>4. \A q \in WiredPlaces : content'[q] = IF q = p THEN pieces ELSE content[q]
  BY <1>1, <1>3, PlaceWritten
<1>5. content'[p] = pieces
  BY <1>2, <1>4
<1>6. mine' = IF pieces = {} THEN mine \ {p} ELSE mine
  BY <1>5 DEF EditFile
<1>7. FileHeld(p)'
  BY <1>1, <1>3, <1>5 DEF PlaceHeld, FileHeld
<1>8. p \in mine' => RuleHeld(p)'
  BY <1>1, <1>3, <1>5, <1>6 DEF PlaceHeld, RuleHeld
<1>9. ASSUME NEW q, q # p
      PROVE  /\ q \in Merged(client) => FileHeld(q)'
             /\ q \in mine' => RuleHeld(q)'
             /\ q \in Trees(client) => TreeHeld(q)'
  <2>1. q \in WiredPlaces => content'[q] = content[q]
    BY <1>4, <1>9
  <2>2. /\ q \in Merged(client) => FileHeld(q)'
        /\ q \in mine => RuleHeld(q)'
        /\ q \in Trees(client) => TreeHeld(q)'
    BY <1>1, <2>1, Untouched
  <2> QED
    BY <1>6, <2>2
<1> QED
  BY <1>1, <1>2, <1>7, <1>8, <1>9, EditsHold

\* The user's edits of a tree ACC made.
LEMMA TreeEdits ==
    ASSUME TakingInv, WiringInv', NEW p \in Trees(client), EditTree(p)
    PROVE  TakingInv'
<1>1. /\ client \in Adapters /\ content = [q \in WiredPlaces |-> content[q]] /\ PlaceHeld(p)
      /\ Edits /\ mine' = mine
  BY DEF TakingInv, WiringInv, WiringTyped, EditTree
<1>2. p \in WiredPlaces /\ p \notin Merged(client) /\ (client = "antigravity" => p \notin Rules)
  BY <1>1, PlacesApart
<1>3. p \notin mine
  BY <1>1, <1>2 DEF PlaceHeld, RuleHeld
<1>4. PICK pieces : /\ Write(p, pieces)
                    /\ pieces = {} \/ "edit" \in pieces \/ "user" \in pieces
  BY DEF EditTree
<1>5. \A q \in WiredPlaces : content'[q] = IF q = p THEN pieces ELSE content[q]
  BY <1>1, <1>4, PlaceWritten
<1>6. content'[p] = pieces
  BY <1>2, <1>5
<1>7. TreeHeld(p)'
  <2>1. Yours(pieces) # {} \/ pieces \cap Acc = {}
    BY <1>4 DEF Yours
  <2> QED
    BY <1>6, <2>1 DEF TreeHeld
<1>8. ASSUME NEW q, q # p
      PROVE  /\ q \in Merged(client) => FileHeld(q)'
             /\ q \in mine' => RuleHeld(q)'
             /\ q \in Trees(client) => TreeHeld(q)'
  <2>1. q \in WiredPlaces => content'[q] = content[q]
    BY <1>5, <1>8
  <2> QED
    BY <1>1, <2>1, Untouched
<1> QED
  BY <1>1, <1>2, <1>3, <1>7, <1>8, EditsHold

\* The rule the user writes, or takes out.
LEMMA RuleEdits ==
    ASSUME TakingInv, WiringInv', client = "antigravity", NEW p \in {"settings", "desktop"},
           EditRule(p)
    PROVE  TakingInv'
<1>1. /\ client \in Adapters /\ content = [q \in WiredPlaces |-> content[q]] /\ PlaceHeld(p)
      /\ Edits /\ client' = client /\ marks' = marks
  BY DEF TakingInv, WiringInv, WiringTyped, EditRule, Edits
<1>2. p \in Rules /\ p \in Merged(client) /\ p \in WiredPlaces /\ p \notin Trees(client)
  <2>1. p \in Rules
    BY DEF Rules
  <2> QED
    BY <1>1, <2>1, PlacesApart
<1>3. PICK pieces : /\ Write(p, pieces)
                    /\ pieces \subseteq content[p] \cup {"rule"}
                    /\ \/ "rule" \in pieces /\ mine' = IF p \in marks THEN mine ELSE mine \cup {p}
                       \/ mine' = mine \ {p}
  BY DEF EditRule
<1>4. \A q \in WiredPlaces : content'[q] = IF q = p THEN pieces ELSE content[q]
  BY <1>1, <1>3, PlaceWritten
<1>5. content'[p] = pieces
  BY <1>2, <1>4
<1>6. FileHeld(p)'
  BY <1>1, <1>2, <1>3, <1>5 DEF PlaceHeld, FileHeld
<1>7. p \in mine' => RuleHeld(p)'
  BY <1>1, <1>2, <1>3, <1>5 DEF PlaceHeld, RuleHeld
<1>8. ASSUME NEW q, q # p
      PROVE  /\ q \in Merged(client) => FileHeld(q)'
             /\ q \in mine' => RuleHeld(q)'
             /\ q \in Trees(client) => TreeHeld(q)'
  <2>1. q \in WiredPlaces => content'[q] = content[q]
    BY <1>4, <1>8
  <2>2. /\ q \in Merged(client) => FileHeld(q)'
        /\ q \in mine => RuleHeld(q)'
        /\ q \in Trees(client) => TreeHeld(q)'
    BY <1>1, <2>1, Untouched
  <2> QED
    BY <1>3, <1>8, <2>2
<1> QED
  BY <1>1, <1>2, <1>6, <1>7, <1>8, EditsHold

\* Markers that another program drops, and edits of no file.
LEMMA EditsBeside ==
    ASSUME TakingInv, WiringInv', StripMarkers \/ EditBlock \/ EditStatus \/ EditDirectory
    PROVE  TakingInv'
<1>1. /\ client \in Adapters /\ content = [q \in WiredPlaces |-> content[q]]
      /\ Edits /\ client' = client /\ mine' = mine
  BY DEF TakingInv, WiringInv, WiringTyped, StripMarkers, EditBlock, EditStatus, EditDirectory,
         Edits
<1>2. CASE EditStatus \/ EditDirectory
  <2>1. content' = content
    BY <1>2 DEF EditStatus, EditDirectory
  <2>2. \A q : /\ q \in Merged(client) => FileHeld(q)'
               /\ q \in mine' => RuleHeld(q)'
               /\ q \in Trees(client) => TreeHeld(q)'
    BY <1>1, <2>1, Untouched
  <2> QED
    BY <1>1, <2>2, EditsHold
<1>3. CASE StripMarkers \/ EditBlock
  <2>1. PICK pieces :
          /\ Write("config", pieces)
          /\ "acc" \in content["config"]
          /\ pieces \ {"bare", "after", "open"} \subseteq content["config"]
          /\ \/ client = "codex" /\ {"after", "open"} \cap pieces \subseteq content["config"]
             \/ client = "kimi" /\ {"bare"} \cap pieces \subseteq content["config"]
    BY <1>3 DEF StripMarkers, EditBlock
  <2>2. "config" \in Merged(client)
    BY <2>1 DEF Merged
  <2>3. "config" \in WiredPlaces /\ "config" \notin Trees(client) /\ FileHeld("config")
        /\ "config" \notin mine
    <3>1. PlaceHeld("config")
      BY DEF TakingInv
    <3> QED
      BY <1>1, <2>1, <2>2, <3>1, PlacesApart DEF PlaceHeld, RuleHeld
  <2>4. \A q \in WiredPlaces : content'[q] = IF q = "config" THEN pieces ELSE content[q]
    BY <1>1, <2>1, PlaceWritten
  <2>5. FileHeld("config")'
    BY <1>1, <2>1, <2>3, <2>4 DEF FileHeld
  <2>6. ASSUME NEW q, q # "config"
        PROVE  /\ q \in Merged(client) => FileHeld(q)'
               /\ q \in mine' => RuleHeld(q)'
               /\ q \in Trees(client) => TreeHeld(q)'
    <3>1. q \in WiredPlaces => content'[q] = content[q]
      BY <2>4, <2>6
    <3> QED
      BY <1>1, <3>1, Untouched
  <2> QED
    BY <1>1, <2>3, <2>5, <2>6, EditsHold
<1> QED
  BY <1>2, <1>3

\* What an uninstall that ends leaves behind.
LEMMA RemovalLeaves ==
    ASSUME TakingInv, FinishUninstall
    PROVE  LeavesNothingBehind
<1> SUFFICES ASSUME record # NoRecord
             PROVE  LeavesNothingBehind
  BY DEF LeavesNothingBehind
<1>1. /\ Uninstalling /\ ~Installing /\ job.todo = <<>>
  BY DEF FinishUninstall, Uninstalling, Installing
<1>2. \A op, p : ~Ahead(job.todo, op, p)
  BY <1>1 DEF Ahead
<1>3. \A q : PlaceHeld(q)
  BY DEF TakingInv
<1>4. ASSUME NEW q \in Trees(client), content[q] \cap Acc # {}
      PROVE  cut \/ Yours(content[q]) # {}
  <2>1. TreeHeld(q) /\ TreeTaken(q)
    BY <1>1, <1>3 DEF PlaceHeld
  <2>2. content[q] # {}
    BY <1>4
  <2>3. content[q] # record.trees[q]
    BY <1>2, <2>1, <2>2 DEF TreeTaken
  <2> QED
    BY <1>1, <1>4, <2>1, <2>3 DEF TreeHeld
<1>5. \A q \in Merged(client) : content[q] \cap Acc = {}
  BY <1>1, <1>2, <1>3 DEF PlaceHeld, FileTaken
<1>6. ASSUME client = "antigravity", NEW q \in {"settings", "desktop"}, "rule" \in content[q]
      PROVE  q \in mine \/ (q \in marks /\ "bad" \in content[q])
  <2>1. RuleTaken(q)
    BY <1>1, <1>3, <1>6 DEF PlaceHeld, Rules
  <2> QED
    BY <1>2, <1>6, <2>1 DEF RuleTaken
<1>7. saved = "absent"
  BY <1>1, <1>2 DEF TakingInv, CommandHeld
<1>8. status # "acc"
  BY <1>7 DEF TakingInv, WiringInv, WiringTyped, LineKnown
<1>9. (record.dirs /\ dir = "empty") => \E q \in Trees(client) : content[q] # {}
  BY <1>1 DEF TakingInv, CommandHeld
<1> QED
  BY <1>4, <1>5, <1>6, <1>7, <1>8, <1>9 DEF LeavesNothingBehind

\* No other step gives up the record.
LEMMA RecordStays ==
    ASSUME TakingInv, [WNext]_wvars, ~FinishUninstall
    PROVE  LeavesNothingBehind
<1>1. record' = record \/ FinishInstall
  <2>1. CASE UNCHANGED wvars
    BY <2>1 DEF wvars
  <2>2. CASE \E act, v, on : Begin(act, v, on)
    BY <2>2 DEF Begin
  <2>3. CASE AccStep
    <3>1. (\E p : Clear(p) \/ Fill(p) \/ Enter(p) \/ Mark(p) \/ Claim(p) \/ Rule(p) \/ Own(p))
            => record' = record
      BY DEF Clear, Fill, Enter, Mark, Claim, Rule, Own, Kept
    <3>2. (\E p : Leave(p) \/ Reap(p) \/ Empty(p) \/ Withdraw(p) \/ Unclaim(p) \/ Drop(p))
            => record' = record
      BY DEF Leave, Reap, Empty, Withdraw, Unclaim, Drop, Kept
    <3>3. (Save \/ SetStatus \/ Restore \/ Forget \/ RemoveDirectory) => record' = record
      BY DEF Save, SetStatus, Restore, Forget, RemoveDirectory, Kept
    <3>4. (Refused \/ Stop) => record' = record
      BY DEF Refused, Stop
    <3> QED
      BY <2>3, <3>1, <3>2, <3>3, <3>4 DEF AccStep
  <2>4. CASE UserEdit
    <3>1. Edits
      BY <2>4 DEF UserEdit, EditFile, EditTree, EditRule, StripMarkers, EditBlock,
              EditStatus, EditDirectory
    <3> QED
      BY <3>1 DEF Edits
  <2> QED
    BY <2>1, <2>2, <2>3, <2>4 DEF WNext
<1>2. FinishInstall => record' # NoRecord
  <2> SUFFICES ASSUME FinishInstall
               PROVE  record' # NoRecord
    OBVIOUS
  <2>1. job \in Jobs /\ record' = Recorded
    BY DEF FinishInstall, TakingInv, WiringInv, WiringTyped
  <2>2. job.ver \in 1 .. 2
    BY <2>1 DEF Jobs
  <2>3. record'.ver = job.ver /\ NoRecord.ver = 0
    BY <2>1 DEF Recorded, NoRecord
  <2> QED
    BY <2>2, <2>3
<1> QED
  BY <1>1, <1>2 DEF LeavesNothingBehind

\* It holds at first.
LEMMA TakingBegins == WInit => TakingInv
<1> SUFFICES ASSUME WInit
             PROVE  TakingInv
  OBVIOUS
<1>1. /\ client \in Adapters /\ job = Idle /\ record = NoRecord /\ saved = "absent"
      /\ mine = {}
  BY DEF WInit
<1>2. ~Installing /\ ~Uninstalling
  BY <1>1 DEF Installing, Uninstalling
<1>3. ASSUME NEW q \in Merged(client)
      PROVE  FileHeld(q)
  <2>1. q \in WiredPlaces
    BY <1>1, <1>3, PlacesApart
  <2>2. content[q] \subseteq {"file", "user"}
    BY <1>3, <2>1 DEF WInit
  <2> QED
    BY <2>2 DEF FileHeld
<1>4. ASSUME NEW q
      PROVE  PlaceHeld(q)
  BY <1>1, <1>2, <1>3 DEF PlaceHeld, TreeHeld
<1>5. CommandHeld
  BY <1>1, <1>2 DEF CommandHeld
<1> QED
  BY <1>4, <1>5, WiringBegins DEF TakingInv

\* Every step keeps it, and takes nothing but ACC's own.
LEMMA TakingKept ==
    TakingInv /\ [WNext]_wvars => /\ TakingInv'
                                  /\ [KeepsUserWork /\ LeavesNothingBehind]_wvars
<1> SUFFICES ASSUME TakingInv, [WNext]_wvars
             PROVE  TakingInv' /\ [KeepsUserWork /\ LeavesNothingBehind]_wvars
  OBVIOUS
<1>1. WiringInv'
  BY WiringKept DEF TakingInv
<1>2. LeavesNothingBehind
  BY RemovalLeaves, RecordStays
<1> SUFFICES TakingInv' /\ (UNCHANGED wvars \/ KeepsUserWork)
  BY <1>2
<1>3. CASE UNCHANGED wvars
  <2>1. \A q : PlaceHeld(q)'
    BY <1>3 DEF wvars, TakingInv, PlaceHeld, FileHeld, RuleHeld, TreeHeld, TreeTaken,
                FileTaken, RuleTaken, Installing, Uninstalling
  <2>2. CommandHeld'
    BY <1>3 DEF wvars, TakingInv, CommandHeld, Installing, Uninstalling
  <2> QED
    BY <1>1, <1>3, <2>1, <2>2 DEF TakingInv
<1>4. job = Idle => KeepsUserWork
  BY DEF KeepsUserWork
<1>5. ASSUME NEW v \in 1 .. 2, NEW on \in BOOLEAN, Begin("install", v, on)
      PROVE  TakingInv' /\ KeepsUserWork
  <2>1. job = Idle
    BY <1>5 DEF Begin
  <2> QED
    BY <1>1, <1>4, <1>5, <2>1, CommandBegins
<1>6. CASE Begin("uninstall", 1, FALSE)
  <2>1. "uninstall" \in {"install", "uninstall"} /\ FALSE \in BOOLEAN
    OBVIOUS
  <2>2. TakingInv'
    BY <1>1, <1>6, <2>1, CommandBegins, Zenon
  <2>3. job = Idle
    BY <1>6 DEF Begin
  <2> QED
    BY <1>4, <2>2, <2>3
<1>7. CASE AccStep
  <2>1. ASSUME NEW p, \/ Clear(p) \/ Fill(p) \/ Enter(p) \/ Mark(p) \/ Claim(p) \/ Rule(p)
        PROVE  TakingInv' /\ KeepsUserWork
    BY <1>1, <2>1, InstallTrees, InstallEntries, InstallNotes
  <2>2. ASSUME NEW p, \/ Own(p) \/ Leave(p) \/ Reap(p) \/ Empty(p) \/ Withdraw(p)
                      \/ Unclaim(p) \/ Drop(p)
        PROVE  TakingInv' /\ KeepsUserWork
    BY <1>1, <2>2, UninstallTrees, UninstallFiles, UninstallRules
  <2>3. CASE Save \/ SetStatus \/ Restore \/ Forget
    BY <1>1, <2>3, InstallStatus, StatusGoes
  <2>4. CASE RemoveDirectory
    BY <1>1, <2>4, DirectoryGoes
  <2>5. CASE FinishInstall \/ FinishUninstall \/ Refused \/ Stop
    BY <1>1, <2>5, EndsTake
  <2> QED
    BY <1>7, <2>1, <2>2, <2>3, <2>4, <2>5 DEF AccStep
<1>8. CASE UserEdit
  <2>1. job = Idle
    <3>1. Edits
      BY <1>8 DEF UserEdit, EditFile, EditTree, EditRule, StripMarkers, EditBlock,
              EditStatus, EditDirectory
    <3> QED
      BY <3>1 DEF Edits
  <2>2. TakingInv'
    BY <1>1, <1>8, FileEdits, TreeEdits, RuleEdits, EditsBeside DEF UserEdit
  <2> QED
    BY <1>4, <2>1, <2>2
<1> QED
  BY <1>3, <1>5, <1>6, <1>7, <1>8 DEF WNext

\* Whichever commands are cut short and whichever of the edits above the user makes
\* in between, an install writes and an uninstall takes back ACC's own only: no
\* entry, rule, file or change of the user's goes with it, but for the entries
\* behind a block in Kimi's config.toml that has lost its END, and an uninstall
\* that ends leaves nothing behind that ACC had recorded.
THEOREM OwnWorkOnly == WSpec => TakesItsOwnOnly
<1>1. WInit => TakingInv
  BY TakingBegins
<1>2. TakingInv /\ [WNext]_wvars => TakingInv' /\ [KeepsUserWork /\ LeavesNothingBehind]_wvars
  BY TakingKept
<1> QED
  BY <1>1, <1>2, PTL DEF WSpec, TakesItsOwnOnly
===============================================================================
