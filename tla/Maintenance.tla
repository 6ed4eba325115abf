----------------------------- MODULE Maintenance -----------------------------
(***************************************************************************)
(* Client maintenance during an update: a client service (the Codex app    *)
(* server) that runs an older build, or whose native binding blocks the    *)
(* pending generation, is stopped and started again by a detached worker,  *)
(* with the user's consent.  The job is a record, maintenance.json, that   *)
(* is written before and after each step, so that whoever runs after a     *)
(* crash restores the service and never stops it a second time.  The       *)
(* activation itself is module ManagedRuntime; here it is its outcome, and *)
(* "recipe" stands for the fields of control.json the job was approved     *)
(* for.                                                                    *)
(***************************************************************************)
EXTENDS Naturals

CONSTANTS
    MaxPid,         \* bound on the service processes started
    MaxRecipe,      \* bound on the changes to the update settings
    MaxCli,         \* bound on the versions of the client that get installed
    MaxCrashes,     \* bound on the workers killed
    None

ASSUME MaintenanceAssumption ==
    /\ {MaxPid, MaxRecipe, MaxCli, MaxCrashes} \subseteq Nat /\ MaxPid > 0 /\ MaxCli > 0
    /\ None \notin Nat

VARIABLES
    job,        \* maintenance.json
    recipe,     \* the update settings and pointers of control.json
    pending,    \* a generation waits to be activated
    cli,        \* the client version that is installed
    svc,        \* the service: its pid (0 when it is down), version, work,
                \* whether a job's stop took it down, and whether that stop was
                \* overdue: it took effect when its job was over
    command,    \* the acc update that asks: what it read, or None
    caller,     \* the command that asked is still running
    wpc,        \* where the worker is, "off" when there is none
    crashes,    \* workers killed so far
    stops,      \* history: stop commands run for this job
    late        \* whose stop command was given up and may still take effect: the
                \* job's "own", one of an "old" job, or "none"

mvars == <<job, recipe, pending, cli, svc, command, caller, wpc, crashes, stops, late>>

Active == {"waiting", "stopping", "refreshing", "restarting", "recovery"}
Final == {"completed", "failed", "cancelled"}
Snapshot == [pid : 1..MaxPid, version : 1..MaxCli, cli : 1..MaxCli]
Job == [status : Active \cup Final, attempted : BOOLEAN, recipe : 0..MaxRecipe,
        expected : Snapshot]

ASSUME NoJobAssumption == None \notin Job

JobActive == job # None /\ job.status \in Active

\* A service process that was just started, by the user or by the job.
Running(pid) == [pid |-> pid, last |-> pid, version |-> cli, busy |-> FALSE, stopped |-> FALSE,
                 overdue |-> FALSE]

MInit ==
    /\ job = None /\ recipe = 0 /\ pending \in BOOLEAN
    /\ cli = 1 /\ svc = Running(1)
    /\ command = None /\ caller = FALSE /\ wpc = "off" /\ crashes = 0 /\ stops = 0
    /\ late = "none"

(***************************************************************************)
(* The adapter.                                                            *)
(***************************************************************************)
Seen == [pid |-> svc.pid, version |-> svc.version, cli |-> cli]

\* A service that is up and identified: it is the process its pid file names.
Inspected == IF svc.pid = 0 THEN "none" ELSE IF svc.busy THEN "busy" ELSE "ready"

SameIdentity(expected) == svc.pid # 0 /\ Seen = expected
SameInstall(expected) == cli = expected.cli

\* Its version, or a binding that blocks the pending generation, calls for it.
NeedsRestart == svc.pid # 0 /\ (svc.version # cli \/ pending)

StopService == svc' = [svc EXCEPT !.pid = 0, !.busy = FALSE, !.stopped = TRUE]

\* A stop that nobody waits for any more: its job may be over by now.
StopOverdue ==
    svc' = [svc EXCEPT !.pid = 0, !.busy = FALSE, !.stopped = TRUE,
                       !.overdue = ~(late = "own" /\ JobActive)]

(***************************************************************************)
(* The command: inspect, ask, publish the job under the manager lock.      *)
(***************************************************************************)
\* Mutant: only a job that has not stopped anything is taken up again.
RelaunchUntouched ==
    /\ JobActive /\ ~job.attempted /\ wpc = "off" /\ command = None
    /\ \/ wpc' = "adopt" /\ UNCHANGED job
       \/ /\ job' = [job EXCEPT !.status = IF job.attempted THEN "recovery" ELSE "failed"]
          /\ UNCHANGED wpc
    /\ UNCHANGED <<recipe, pending, cli, svc, command, caller, crashes, stops, late>>

\* A job that is under way is only given a worker again when it has none.
Relaunch ==
    /\ JobActive /\ wpc = "off" /\ command = None
    /\ \/ wpc' = "adopt" /\ UNCHANGED job
       \/ /\ job' = [job EXCEPT !.status = IF job.attempted THEN "recovery" ELSE "failed"]
          /\ UNCHANGED wpc
    /\ UNCHANGED <<recipe, pending, cli, svc, command, caller, crashes, stops, late>>

Ask ==
    /\ ~JobActive /\ command = None /\ NeedsRestart /\ svc.last < MaxPid - 1
    /\ command' = [recipe |-> recipe, expected |-> Seen]
    /\ caller' = TRUE
    /\ UNCHANGED <<job, recipe, pending, cli, svc, wpc, crashes, stops, late>>

Decline ==
    /\ command # None
    /\ command' = None /\ caller' = FALSE
    /\ UNCHANGED <<job, recipe, pending, cli, svc, wpc, crashes, stops, late>>

Approve ==
    /\ command # None
    /\ IF JobActive \/ command.recipe # recipe
       THEN UNCHANGED <<job, wpc, stops, late>>
       ELSE /\ \/ /\ job' = [status |-> "waiting", attempted |-> FALSE, recipe |-> recipe,
                             expected |-> command.expected]
                  /\ wpc' = "adopt"
               \/ /\ job' = [status |-> "failed", attempted |-> FALSE, recipe |-> recipe,
                             expected |-> command.expected]
                  /\ UNCHANGED wpc
            /\ stops' = 0 /\ late' = IF late = "own" THEN "old" ELSE late
    /\ command' = None
    /\ UNCHANGED <<recipe, pending, cli, svc, caller, crashes>>

CallerExits == /\ caller /\ command = None /\ caller' = FALSE
               /\ UNCHANGED <<job, recipe, pending, cli, svc, command, wpc, crashes, stops, late>>

(***************************************************************************)
(* The worker.                                                             *)
(***************************************************************************)
Save(status) == job' = [job EXCEPT !.status = status]

\* It adopts the job: one whose stop was recorded is only repaired forward.
Adopt ==
    /\ wpc = "adopt"
    /\ wpc' = IF ~JobActive THEN "off" ELSE IF job.attempted THEN "repair" ELSE "wait"
    /\ UNCHANGED <<job, recipe, pending, cli, svc, command, caller, crashes, stops, late>>

\* Waiting: settings that changed, or the deadline, cancel the job.
Cancel ==
    /\ wpc = "wait"
    /\ Save("cancelled")
    /\ wpc' = "off"
    /\ UNCHANGED <<recipe, pending, cli, svc, command, caller, crashes, stops, late>>

\* Inside the fence: nobody else holds the update, the service is idle.
Checkpoint ==
    /\ wpc = "wait" /\ recipe = job.recipe /\ ~caller
    /\ Inspected = "ready"
    /\ job' = [job EXCEPT !.status = "stopping", !.attempted = TRUE]
    /\ wpc' = "stop"
    /\ UNCHANGED <<recipe, pending, cli, svc, command, caller, crashes, stops, late>>

NotReady ==
    /\ wpc = "wait" /\ recipe = job.recipe /\ ~caller
    /\ Inspected = "none"
    /\ Save("failed")
    /\ wpc' = "off"
    /\ UNCHANGED <<recipe, pending, cli, svc, command, caller, crashes, stops, late>>

\* The second look, just before the command: another process, or a new turn.
StopRefused ==
    /\ wpc = "stop"
    /\ ~SameIdentity(job.expected) \/ Inspected # "ready"
    /\ LET busy == SameIdentity(job.expected)
       IN /\ job' = [job EXCEPT !.attempted = FALSE,
                                !.status = IF busy THEN "waiting" ELSE "failed"]
          /\ wpc' = IF busy THEN "wait" ELSE "off"
    /\ UNCHANGED <<recipe, pending, cli, svc, command, caller, crashes, stops, late>>

\* Mutant: a stop whose effect is not proven is waited for again.
StopAgain ==
    /\ wpc = "stop"
    /\ SameIdentity(job.expected) /\ Inspected = "ready"
    /\ stops' = stops + 1
    /\ \/ StopService /\ wpc' \in {"stopped", "restore_failed"} /\ UNCHANGED late
       \/ UNCHANGED svc /\ wpc' = "wait" /\ late' = "own"
    /\ UNCHANGED <<job, recipe, pending, cli, command, caller, crashes>>

\* The stop command runs, a child process that is waited for and given up after
\* a while.  Its answer may be lost, and one that failed, or whose effect is not
\* proven, may take effect later.
Stop ==
    /\ wpc = "stop"
    /\ SameIdentity(job.expected) /\ Inspected = "ready"
    /\ stops' = stops + 1
    /\ \/ StopService /\ wpc' \in {"stopped", "restore_failed"} /\ UNCHANGED late
       \/ UNCHANGED svc /\ wpc' = "restore_failed" /\ late' \in {late, "own"}
    /\ UNCHANGED <<job, recipe, pending, cli, command, caller, crashes>>

Refreshing ==
    /\ wpc = "stopped"
    /\ Save("refreshing")
    /\ wpc' = "activate"
    /\ UNCHANGED <<recipe, pending, cli, svc, command, caller, crashes, stops, late>>

\* The activation inside the same fence, or nothing to activate.
Activate ==
    /\ wpc = "activate"
    /\ \/ pending' = FALSE /\ recipe' = recipe + (IF pending /\ recipe < MaxRecipe THEN 1 ELSE 0)
          /\ wpc' = "restore_done"
       \/ pending /\ wpc' = "restore_failed" /\ UNCHANGED <<pending, recipe>>
    /\ UNCHANGED <<job, cli, svc, command, caller, crashes, stops, late>>

\* Mutant: the repair stops a service that is still up.
RepairStops ==
    /\ wpc = "repair"
    /\ \/ SameIdentity(job.expected) /\ wpc' = "stop" /\ UNCHANGED <<pending, recipe>>
       \/ ~pending /\ wpc' = "restore_done" /\ UNCHANGED <<pending, recipe>>
       \/ /\ pending /\ recipe = job.recipe
          /\ pending' = FALSE /\ recipe' = recipe + (IF recipe < MaxRecipe THEN 1 ELSE 0)
          /\ wpc' = "restore_done"
       \/ wpc' = "restore_failed" /\ UNCHANGED <<pending, recipe>>
    /\ UNCHANGED <<job, cli, svc, command, caller, crashes, stops, late>>

\* After a crash: finish the activation if the settings are still the job's.
Repair ==
    /\ wpc = "repair"
    /\ \/ ~pending /\ wpc' = "restore_done" /\ UNCHANGED <<pending, recipe>>
       \/ /\ pending /\ recipe = job.recipe
          /\ pending' = FALSE /\ recipe' = recipe + (IF recipe < MaxRecipe THEN 1 ELSE 0)
          /\ wpc' = "restore_done"
       \/ wpc' = "restore_failed" /\ UNCHANGED <<pending, recipe>>
    /\ UNCHANGED <<job, cli, svc, command, caller, crashes, stops, late>>

Restoring == {"restore_done", "restore_failed"}
StartOf(at) == IF at = "restore_done" THEN "start_done" ELSE "start_failed"

Restore ==
    /\ wpc \in Restoring
    /\ Save("restarting")
    /\ wpc' = StartOf(wpc)
    /\ UNCHANGED <<recipe, pending, cli, svc, command, caller, crashes, stops, late>>

Settle == /\ Save(IF wpc = "start_done" THEN "completed" ELSE "failed")
          /\ wpc' = "off"

\* Idempotent: a service of the approved installation that is up is enough.
StartServed ==
    /\ wpc \in {"start_done", "start_failed"}
    /\ SameInstall(job.expected)
    /\ \/ svc.pid # 0 /\ svc.version = cli /\ UNCHANGED svc
       \/ /\ svc.pid = 0 /\ svc.last < MaxPid
          /\ svc' = Running(svc.last + 1)
    /\ Settle
    /\ UNCHANGED <<recipe, pending, cli, command, caller, crashes, stops, late>>

\* Mutant: a start that failed ends the job.
StartFailedFinal ==
    /\ wpc \in {"start_done", "start_failed"}
    /\ ~(SameInstall(job.expected) /\ svc.pid # 0 /\ svc.version = cli)
    /\ Save("failed")
    /\ wpc' = "off"
    /\ UNCHANGED <<recipe, pending, cli, svc, command, caller, crashes, stops, late>>

\* Another installation, an older process still up, or a start that failed.
StartFailed ==
    /\ wpc \in {"start_done", "start_failed"}
    /\ ~(SameInstall(job.expected) /\ svc.pid # 0 /\ svc.version = cli)
    /\ Save("recovery")
    /\ wpc' = "off"
    /\ UNCHANGED <<recipe, pending, cli, svc, command, caller, crashes, stops, late>>

(***************************************************************************)
(* The environment.                                                        *)
(***************************************************************************)
WorkerKilled ==
    /\ wpc # "off" /\ crashes < MaxCrashes
    /\ wpc' = "off" /\ crashes' = crashes + 1
    /\ UNCHANGED <<job, recipe, pending, cli, svc, command, caller, stops, late>>

\* The worker dies while its stop command runs, and the command goes on.
KilledStopping ==
    /\ wpc = "stop" /\ crashes < MaxCrashes
    /\ SameIdentity(job.expected) /\ Inspected = "ready"
    /\ stops' = stops + 1 /\ late' = "own"
    /\ wpc' = "off" /\ crashes' = crashes + 1
    /\ UNCHANGED <<job, recipe, pending, cli, svc, command, caller>>

\* A command that was given up ends: without effect, or it takes down what runs
\* then, for it names no process.
LateStop ==
    /\ late # "none" /\ late' = "none"
    /\ UNCHANGED svc \/ (svc.pid # 0 /\ StopOverdue)
    /\ UNCHANGED <<job, recipe, pending, cli, command, caller, wpc, crashes, stops>>

ServiceTurn ==
    /\ svc.pid # 0
    /\ svc' = [svc EXCEPT !.busy = ~@]
    /\ UNCHANGED <<job, recipe, pending, cli, command, caller, wpc, crashes, stops, late>>

\* The service exits by itself, or the user stops it.
ServiceExits ==
    /\ svc.pid # 0
    /\ svc' = [svc EXCEPT !.pid = 0, !.busy = FALSE]
    /\ UNCHANGED <<job, recipe, pending, cli, command, caller, wpc, crashes, stops, late>>

\* The user restarts the service, or installs another version of the client.
UserRestarts ==
    /\ svc.last < MaxPid - 1
    /\ svc' = Running(svc.last + 1)
    /\ UNCHANGED <<job, recipe, pending, cli, command, caller, wpc, crashes, stops, late>>

ClientUpgraded ==
    /\ cli < MaxCli /\ cli' = cli + 1
    /\ UNCHANGED <<job, recipe, pending, svc, command, caller, wpc, crashes, stops, late>>

\* Another command publishes a release or changes a setting.
SettingsChange ==
    /\ recipe < MaxRecipe /\ wpc # "activate"
    /\ recipe' = recipe + 1 /\ pending' \in BOOLEAN
    /\ UNCHANGED <<job, cli, svc, command, caller, wpc, crashes, stops, late>>

WorkerStep == \/ Adopt \/ Cancel \/ Checkpoint \/ NotReady \/ StopRefused \/ Stop
              \/ Refreshing \/ Activate \/ Repair \/ Restore \/ StartServed \/ StartFailed

MNext == \/ Relaunch \/ Ask \/ Decline \/ Approve \/ CallerExits \/ WorkerStep
         \/ WorkerKilled \/ KilledStopping \/ LateStop \/ ServiceTurn \/ ServiceExits \/ UserRestarts
         \/ ClientUpgraded \/ SettingsChange

MSpec == MInit /\ [][MNext]_mvars

\* A job under way is given a worker by the next acc update and, with
\* automatic updates on, by every scheduled pass; a worker that runs goes on;
\* and a start that is retried for ever succeeds in the end.
MFairSpec == /\ MSpec
             /\ WF_mvars(WorkerStep)
             /\ SF_mvars(Relaunch /\ wpc' = "adopt")
             /\ SF_mvars(StartServed)

(***************************************************************************)
(* Properties.                                                             *)
(***************************************************************************)
\* Nobody leaves the user's service down: as long as the service is down that
\* the job's stop took down, the job says so and is one that the next command
\* or worker takes up, whichever worker was killed in between and however late
\* the stop took effect while the job was under way.  What the code cannot
\* record is a stop command it gave up that takes effect when the job is over:
\* startAfterMaintenance accepts the service that still runs (maintenance.mjs:90).
DownIsRecorded ==
    (svc.pid = 0 /\ svc.stopped /\ ~svc.overdue) => JobActive /\ job.attempted

\* One approval is one interruption: the stop command of a job runs at most
\* once, also when the worker that recorded it was killed.
StoppedOnce == stops <= 1

\* "Update maintenance cancelled (...); no client service was stopped."
CancelledUntouched == (job # None /\ job.status = "cancelled") => stops = 0

\* A service that the job stopped comes back, also when the stop took effect
\* after the worker gave it up or died, unless another version of the client was
\* installed meanwhile: then the recorded job refuses to start it and the user
\* has to.  He has to as well after a stop that was overdue.
ServiceRestored ==
    (svc.pid = 0 /\ svc.stopped /\ ~svc.overdue)
        ~> (svc.pid # 0 \/ (job # None /\ ~SameInstall(job.expected)))

\* What the user approved and nothing else: one stop command, none of a cancelled
\* job, and a service that it took down is on record as work to do, but for a
\* command that was given up and took effect when its job was over.
InterruptedAsApproved == DownIsRecorded /\ StoppedOnce /\ CancelledUntouched
=============================================================================
