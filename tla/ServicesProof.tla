--------------------------- MODULE ServicesProof ---------------------------
(***************************************************************************)
(* Proofs about the two background processes beside a client, for every    *)
(* bound: the worker that restarts a client's service during an update     *)
(* (Maintenance) and the relay of an Antigravity conversation, for every   *)
(* set of relays and senders (AntigravityRelay).                           *)
(***************************************************************************)
EXTENDS Maintenance, AntigravityRelay, TLAPS

-----------------------------------------------------------------------------
(* Maintenance.                                                            *)

WorkerStages == {"off", "adopt", "wait", "stop", "stopped", "activate", "repair",
                 "restore_done", "restore_failed", "start_done", "start_failed"}

\* The worker has recorded that it stops the service.
PastCheckpoint == WorkerStages \ {"off", "adopt", "wait"}

ServiceState == [pid : Nat, last : Nat, version : Nat, busy : BOOLEAN, stopped : BOOLEAN,
                 overdue : BOOLEAN]

MaintenanceTypes ==
    /\ job \in Job \cup {None}
    /\ recipe \in 0 .. MaxRecipe /\ cli \in 1 .. MaxCli
    /\ svc \in ServiceState /\ svc.last \in 1 .. MaxPid /\ svc.version \in 1 .. MaxCli
    /\ svc.pid \in {0, svc.last}
    /\ command \in [recipe : 0 .. MaxRecipe, expected : Snapshot] \cup {None}
    /\ wpc \in WorkerStages
    /\ stops \in Nat /\ late \in {"none", "own", "old"}

\* A worker that acts has a job, and the job says how far it may have got.
WorkerHasJob ==
    /\ wpc \notin {"off", "adopt"} => JobActive
    /\ wpc = "wait" => ~job.attempted
    /\ wpc \in PastCheckpoint => job.attempted

\* The record is ahead of the command: what it does not tell has not happened.
StopsRecorded ==
    /\ wpc = "stop" => stops = 0
    /\ JobActive /\ ~job.attempted => stops = 0
    /\ late = "own" => stops > 0
    /\ svc.stopped => svc.pid = 0
    /\ svc.stopped /\ ~svc.overdue => stops > 0

MaintenanceInv ==
    /\ MaintenanceTypes /\ WorkerHasJob /\ StopsRecorded
    /\ DownIsRecorded /\ StoppedOnce /\ CancelledUntouched

\* The client's service is up when nobody has approved anything.
LEMMA MaintenanceInit == MInit => MaintenanceInv
<1> SUFFICES ASSUME MInit PROVE MaintenanceInv
  OBVIOUS
<1> USE MaintenanceAssumption, NoJobAssumption DEF MInit
<1>1. svc \in ServiceState /\ svc.last = 1 /\ svc.version = 1 /\ svc.pid = 1 /\ ~svc.stopped
  BY DEF Running, ServiceState
<1>2. MaintenanceTypes
  BY <1>1 DEF MaintenanceTypes, WorkerStages
<1>3. WorkerHasJob /\ StopsRecorded
  BY <1>1 DEF WorkerHasJob, StopsRecorded, JobActive, PastCheckpoint
<1>4. DownIsRecorded /\ StoppedOnce /\ CancelledUntouched
  BY <1>1 DEF DownIsRecorded, StoppedOnce, CancelledUntouched
<1>5. QED
  BY <1>2, <1>3, <1>4 DEF MaintenanceInv

\* writeMaintenance of a status changes nothing else of the job.
LEMMA Saved ==
    ASSUME job \in Job, NEW status \in Active \cup Final, Save(status)
    PROVE  /\ job' \in Job /\ job' # None /\ job'.status = status
           /\ job'.attempted = job.attempted
  BY NoJobAssumption DEF Save, Job

\* The same for a write of the stop's record.
LEMMA SavedAttempt ==
    ASSUME job \in Job, NEW status \in Active \cup Final, NEW attempted \in BOOLEAN,
           job' = [job EXCEPT !.status = status, !.attempted = attempted]
    PROVE  /\ job' \in Job /\ job' # None /\ job'.status = status
           /\ job'.attempted = attempted
<1>1. job' \in Job /\ job'.status = status /\ job'.attempted = attempted
  BY DEF Job
<1>2. QED
  BY <1>1, NoJobAssumption

\* The service is stopped, exits or turns busy.
LEMMA ServiceChanged ==
    ASSUME MaintenanceInv
    PROVE  /\ StopService => /\ svc' \in ServiceState /\ svc'.last = svc.last /\ svc'.pid = 0
                             /\ svc'.version = svc.version /\ svc'.stopped
           /\ StopOverdue => /\ svc' \in ServiceState /\ svc'.last = svc.last /\ svc'.pid = 0
                             /\ svc'.version = svc.version
                             /\ ~svc'.overdue => late = "own" /\ JobActive
           /\ ServiceExits => /\ svc' \in ServiceState /\ svc'.last = svc.last /\ svc'.pid = 0
                              /\ svc'.version = svc.version /\ svc'.stopped = svc.stopped
           /\ ServiceTurn => /\ svc' \in ServiceState /\ svc'.last = svc.last /\ svc'.pid = svc.pid
                             /\ svc'.version = svc.version /\ svc'.stopped = svc.stopped
<1>1. svc \in ServiceState
  BY DEF MaintenanceInv, MaintenanceTypes
<1>2. ASSUME StopService
      PROVE  /\ svc' \in ServiceState /\ svc'.last = svc.last /\ svc'.pid = 0
             /\ svc'.version = svc.version /\ svc'.stopped = TRUE
  <2>1. svc' \in ServiceState
    BY <1>1, <1>2 DEF StopService, ServiceState
  <2>2. svc'.last = svc.last /\ svc'.pid = 0 /\ svc'.version = svc.version
    BY <1>1, <1>2 DEF StopService, ServiceState
  <2>3. svc'.stopped = TRUE
    BY <1>1, <1>2 DEF StopService, ServiceState
  <2>4. QED
    BY <2>1, <2>2, <2>3
<1>3. ASSUME ServiceExits
      PROVE  /\ svc' \in ServiceState /\ svc'.last = svc.last /\ svc'.pid = 0
             /\ svc'.version = svc.version /\ svc'.stopped = svc.stopped
  <2>1. svc' \in ServiceState
    BY <1>1, <1>3 DEF ServiceExits, ServiceState
  <2>2. svc'.last = svc.last /\ svc'.pid = 0 /\ svc'.version = svc.version
    BY <1>1, <1>3 DEF ServiceExits, ServiceState
  <2>3. svc'.stopped = svc.stopped
    BY <1>1, <1>3 DEF ServiceExits, ServiceState
  <2>4. QED
    BY <2>1, <2>2, <2>3
<1>4. ASSUME ServiceTurn
      PROVE  /\ svc' \in ServiceState /\ svc'.last = svc.last /\ svc'.pid = svc.pid
             /\ svc'.version = svc.version /\ svc'.stopped = svc.stopped
  <2>1. svc' \in ServiceState
    BY <1>1, <1>4 DEF ServiceTurn, ServiceState
  <2>2. svc'.last = svc.last /\ svc'.pid = svc.pid /\ svc'.version = svc.version
    BY <1>1, <1>4 DEF ServiceTurn, ServiceState
  <2>3. svc'.stopped = svc.stopped
    BY <1>1, <1>4 DEF ServiceTurn, ServiceState
  <2>4. QED
    BY <2>1, <2>2, <2>3
<1>5. ASSUME StopOverdue
      PROVE  /\ svc' \in ServiceState /\ svc'.last = svc.last /\ svc'.pid = 0
             /\ svc'.version = svc.version /\ (~svc'.overdue => late = "own" /\ JobActive)
  <2>1. svc' \in ServiceState
    BY <1>1, <1>5 DEF StopOverdue, ServiceState
  <2>2. svc'.last = svc.last /\ svc'.pid = 0 /\ svc'.version = svc.version
    BY <1>1, <1>5 DEF StopOverdue, ServiceState
  <2>3. svc'.overdue = ~(late = "own" /\ JobActive)
    BY <1>1, <1>5 DEF StopOverdue, ServiceState
  <2>4. ~svc'.overdue => late = "own" /\ JobActive
    BY <2>3, Zenon
  <2>5. QED
    BY <2>1, <2>2, <2>4
<1>6. QED
  BY <1>2, <1>3, <1>4, <1>5

\* A service that is started runs the installed client.
LEMMA ServiceStarted ==
    ASSUME MaintenanceInv, svc.last < MaxPid, svc' = Running(svc.last + 1)
    PROVE  /\ svc' \in ServiceState /\ svc'.last \in 1 .. MaxPid /\ svc'.version \in 1 .. MaxCli
           /\ svc'.pid = svc'.last /\ svc'.pid # 0 /\ ~svc'.stopped
<1>1. svc.last \in 1 .. MaxPid /\ cli \in 1 .. MaxCli
  BY DEF MaintenanceInv, MaintenanceTypes
<1>2. svc.last + 1 \in 1 .. MaxPid /\ svc.last + 1 \in Nat /\ cli \in Nat
  BY <1>1, MaintenanceAssumption
<1>3. QED
  BY <1>1, <1>2 DEF Running, ServiceState

\* The steps of the command keep the invariant.
LEMMA CommandKeeps ==
    ASSUME MaintenanceInv, Relaunch \/ Ask \/ Decline \/ Approve \/ CallerExits
    PROVE  MaintenanceInv'
<1> USE DEF MaintenanceInv
<1>1. CASE Relaunch
  <2>1. job \in Job /\ UNCHANGED <<recipe, pending, cli, svc, command, caller, crashes, stops, late>>
    BY <1>1 DEF Relaunch, JobActive, MaintenanceTypes
  <2>2. CASE wpc' = "adopt" /\ job' = job
    BY <2>1, <2>2 DEF MaintenanceTypes, WorkerHasJob, StopsRecorded, DownIsRecorded,
                      StoppedOnce, CancelledUntouched, JobActive, WorkerStages, PastCheckpoint
  <2>3. CASE wpc' = wpc /\ Save(IF job.attempted THEN "recovery" ELSE "failed")
    <3>1. /\ job' \in Job /\ job' # None /\ job'.attempted = job.attempted
          /\ job'.status = IF job.attempted THEN "recovery" ELSE "failed"
      BY <2>1, <2>3, Saved DEF Active, Final
    <3>2. wpc = "off"
      BY <1>1 DEF Relaunch
    <3>3. QED
      BY <1>1, <2>1, <2>3, <3>1, <3>2
      DEF Relaunch, MaintenanceTypes, WorkerHasJob, StopsRecorded, DownIsRecorded,
          StoppedOnce, CancelledUntouched, JobActive, Active, PastCheckpoint
  <2>4. QED
    BY <1>1, <2>2, <2>3 DEF Relaunch, Save
<1>2. CASE Ask
  <2>1. command' \in [recipe : 0 .. MaxRecipe, expected : Snapshot]
    <3>1. recipe \in 0 .. MaxRecipe
      BY DEF MaintenanceTypes
    <3>2. Seen \in Snapshot
      BY <1>2, MaintenanceAssumption DEF Ask, NeedsRestart, Seen, Snapshot, MaintenanceTypes
    <3>3. QED
      BY <1>2, <3>1, <3>2 DEF Ask
  <2>2. QED
    BY <1>2, <2>1 DEF Ask, MaintenanceTypes, WorkerHasJob, StopsRecorded, DownIsRecorded,
                      StoppedOnce, CancelledUntouched, JobActive
<1>3. CASE Decline \/ CallerExits
  BY <1>3 DEF Decline, CallerExits, MaintenanceTypes, WorkerHasJob, StopsRecorded,
              DownIsRecorded, StoppedOnce, CancelledUntouched, JobActive
<1>4. CASE Approve
  <2>1. UNCHANGED <<recipe, pending, cli, svc, caller, crashes>> /\ command' = None
    BY <1>4 DEF Approve
  <2>2. CASE UNCHANGED <<job, wpc, stops, late>>
    BY <2>1, <2>2 DEF MaintenanceTypes, WorkerHasJob, StopsRecorded, DownIsRecorded,
                      StoppedOnce, CancelledUntouched, JobActive
  <2>3. ASSUME NEW status \in {"waiting", "failed"}, ~JobActive, command # None, stops' = 0,
               late' = IF late = "own" THEN "old" ELSE late,
               job' = [status |-> status, attempted |-> FALSE, recipe |-> recipe,
                       expected |-> command.expected],
               wpc' \in {"adopt", wpc}
        PROVE  MaintenanceInv'
    <3>1. command.expected \in Snapshot /\ recipe \in 0 .. MaxRecipe
      BY <2>3 DEF MaintenanceTypes
    <3>2. job' \in Job /\ job'.status = status /\ ~job'.attempted
      BY <2>3, <3>1 DEF Job, Active, Final
    <3>3. wpc \in {"off", "adopt"} /\ (svc.stopped => svc.overdue)
      BY <2>3 DEF WorkerHasJob, StopsRecorded, DownIsRecorded
    <3>4. QED
      BY <2>1, <2>3, <3>2, <3>3
      DEF MaintenanceTypes, WorkerHasJob, StopsRecorded, DownIsRecorded,
          StoppedOnce, CancelledUntouched, WorkerStages, PastCheckpoint
  <2>4. QED
    BY <1>4, <2>2, <2>3 DEF Approve
<1>5. QED
  BY <1>1, <1>2, <1>3, <1>4

\* So do the steps of the worker: the record goes ahead of the stop, and the
\* service is back before the job ends.
LEMMA WorkerKeeps ==
    ASSUME MaintenanceInv, WorkerStep
    PROVE  MaintenanceInv'
<1> USE DEF MaintenanceInv
<1>1. wpc \in WorkerStages /\ (wpc \notin {"off", "adopt"} => JobActive /\ job \in Job)
  BY DEF MaintenanceTypes, WorkerHasJob, JobActive
<1>2. CASE Adopt
  BY <1>2 DEF Adopt, MaintenanceTypes, WorkerHasJob, StopsRecorded, DownIsRecorded,
              StoppedOnce, CancelledUntouched, JobActive, WorkerStages, PastCheckpoint
<1>3. CASE Cancel \/ NotReady
  <2>1. PICK status \in {"cancelled", "failed"} : Save(status)
    BY <1>3 DEF Cancel, NotReady
  <2>2. /\ job' \in Job /\ job' # None /\ job'.status = status
        /\ wpc = "wait" /\ wpc' = "off" /\ stops = 0 /\ (svc.stopped => svc.overdue)
        /\ UNCHANGED <<recipe, pending, cli, svc, command, caller, crashes, stops, late>>
    BY <1>1, <1>3, <2>1, Saved
    DEF Cancel, NotReady, WorkerHasJob, StopsRecorded, Final
  <2>3. QED
    BY <2>2 DEF MaintenanceTypes, WorkerHasJob, StopsRecorded, DownIsRecorded,
                StoppedOnce, CancelledUntouched, JobActive, WorkerStages, PastCheckpoint, Active
<1>4. CASE Checkpoint
  <2>1. /\ job' \in Job /\ job' # None /\ job'.status = "stopping" /\ job'.attempted = TRUE
        /\ wpc = "wait" /\ wpc' = "stop" /\ stops = 0
        /\ UNCHANGED <<recipe, pending, cli, svc, command, caller, crashes, stops, late>>
    BY <1>1, <1>4, SavedAttempt DEF Checkpoint, WorkerHasJob, StopsRecorded, Active
  <2>2. QED
    BY <2>1 DEF MaintenanceTypes, WorkerHasJob, StopsRecorded, DownIsRecorded,
                StoppedOnce, CancelledUntouched, JobActive, WorkerStages, PastCheckpoint, Active
<1>5. CASE StopRefused
  <2>1. PICK status \in {"waiting", "failed"}, stage \in {"wait", "off"} :
          /\ job' = [job EXCEPT !.status = status, !.attempted = FALSE] /\ wpc' = stage
          /\ status = "failed" <=> stage = "off"
    BY <1>1, <1>5 DEF StopRefused, Job
  <2>2. /\ job' \in Job /\ job' # None /\ job'.status = status /\ job'.attempted = FALSE
    BY <1>1, <1>5, <2>1, SavedAttempt DEF StopRefused, Active, Final
  <2>3. /\ wpc = "stop" /\ stops = 0 /\ (svc.stopped => svc.overdue)
        /\ UNCHANGED <<recipe, pending, cli, svc, command, caller, crashes, stops, late>>
    BY <1>5 DEF StopRefused, StopsRecorded
  <2>4. QED
    BY <2>1, <2>2, <2>3
    DEF MaintenanceTypes, WorkerHasJob, StopsRecorded, DownIsRecorded,
        StoppedOnce, CancelledUntouched, JobActive, WorkerStages, PastCheckpoint, Active
<1>6. CASE Stop
  <2>1. /\ wpc = "stop" /\ stops = 0 /\ stops' = 1 /\ JobActive /\ job.attempted
        /\ wpc' \in {"stopped", "restore_failed"}
        /\ UNCHANGED <<job, recipe, pending, cli, command, caller, crashes>>
        /\ StopService \/ svc' = svc
        /\ late' \in {late, "own"}
    BY <1>1, <1>6 DEF Stop, StopsRecorded, WorkerHasJob, PastCheckpoint, WorkerStages
  <2>2. /\ svc' \in ServiceState /\ svc'.last = svc.last /\ svc'.version = svc.version
        /\ svc'.pid \in {0, svc.last}
        /\ svc'.stopped => svc'.pid = 0
    BY <2>1, ServiceChanged DEF MaintenanceTypes, StopsRecorded
  <2>3. QED
    BY <2>1, <2>2
    DEF MaintenanceTypes, WorkerHasJob, StopsRecorded, DownIsRecorded,
        StoppedOnce, CancelledUntouched, JobActive, WorkerStages, PastCheckpoint, Active
<1>7. CASE Refreshing \/ Restore
  <2>1. PICK status \in {"refreshing", "restarting"} : Save(status)
    BY <1>7 DEF Refreshing, Restore
  <2>2. /\ job' \in Job /\ job' # None /\ job'.status = status /\ job'.attempted = job.attempted
        /\ wpc \in PastCheckpoint \ {"stop"} /\ wpc' \in PastCheckpoint \ {"stop"}
        /\ job.attempted
        /\ UNCHANGED <<recipe, pending, cli, svc, command, caller, crashes, stops, late>>
    BY <1>1, <1>7, <2>1, Saved
    DEF Refreshing, Restore, Restoring, StartOf, WorkerHasJob, PastCheckpoint, WorkerStages, Active
  <2>3. QED
    BY <2>1, <2>2
    DEF MaintenanceTypes, WorkerHasJob, StopsRecorded, DownIsRecorded,
        StoppedOnce, CancelledUntouched, JobActive, WorkerStages, PastCheckpoint, Active
<1>8. CASE Activate \/ Repair
  <2>1. /\ wpc \in {"activate", "repair"} /\ wpc' \in {"restore_done", "restore_failed"}
        /\ UNCHANGED <<job, cli, svc, command, caller, crashes, stops, late>>
        /\ JobActive /\ job.attempted
    BY <1>1, <1>8 DEF Activate, Repair, WorkerHasJob, PastCheckpoint, WorkerStages
  <2>2. recipe' \in 0 .. MaxRecipe
    BY <1>8, MaintenanceAssumption DEF Activate, Repair, MaintenanceTypes
  <2>3. QED
    BY <2>1, <2>2
    DEF MaintenanceTypes, WorkerHasJob, StopsRecorded, DownIsRecorded,
        StoppedOnce, CancelledUntouched, JobActive, WorkerStages, PastCheckpoint, Active
<1>9. CASE StartServed \/ StartFailed
  <2>1. /\ wpc \in {"start_done", "start_failed"} /\ wpc' = "off"
        /\ UNCHANGED <<recipe, pending, cli, command, caller, crashes, stops, late>>
        /\ JobActive /\ job.attempted /\ job \in Job
    BY <1>1, <1>9 DEF StartServed, StartFailed, Settle, WorkerHasJob, PastCheckpoint, WorkerStages
  <2>2. CASE StartFailed
    <3>1. /\ job' \in Job /\ job' # None /\ job'.status = "recovery" /\ job'.attempted = job.attempted
          /\ svc' = svc
      BY <2>1, <2>2, Saved DEF StartFailed, Active
    <3>2. QED
      BY <2>1, <3>1
      DEF MaintenanceTypes, WorkerHasJob, StopsRecorded, DownIsRecorded,
          StoppedOnce, CancelledUntouched, JobActive, WorkerStages, PastCheckpoint, Active
  <2>3. CASE StartServed
    <3>1. PICK status \in {"completed", "failed"} : Save(status)
      BY <2>3 DEF StartServed, Settle
    <3>2. job' \in Job /\ job' # None /\ job'.status = status /\ job'.attempted = job.attempted
      BY <2>1, <3>1, Saved DEF Final
    <3>3. /\ svc' \in ServiceState /\ svc'.last \in 1 .. MaxPid /\ svc'.version \in 1 .. MaxCli
          /\ svc'.pid \in {0, svc'.last} /\ ~svc'.stopped
      BY <2>3, ServiceStarted DEF StartServed, MaintenanceTypes, StopsRecorded
    <3>4. QED
      BY <2>1, <3>1, <3>2, <3>3
      DEF MaintenanceTypes, WorkerHasJob, StopsRecorded, DownIsRecorded,
          StoppedOnce, CancelledUntouched, JobActive, WorkerStages, PastCheckpoint, Active
  <2>4. QED
    BY <1>9, <2>2, <2>3
<1>10. QED
  BY <1>2, <1>3, <1>4, <1>5, <1>6, <1>7, <1>8, <1>9 DEF WorkerStep

\* And what happens around them, a kill in the middle of the stop included.
LEMMA EnvironmentKeeps ==
    ASSUME MaintenanceInv,
           \/ WorkerKilled \/ KilledStopping \/ LateStop \/ ServiceTurn
           \/ ServiceExits \/ UserRestarts \/ ClientUpgraded \/ SettingsChange \/ UNCHANGED mvars
    PROVE  MaintenanceInv'
<1> USE DEF MaintenanceInv
<1>1. CASE WorkerKilled
  BY <1>1 DEF WorkerKilled, MaintenanceTypes, WorkerHasJob, StopsRecorded, DownIsRecorded,
              StoppedOnce, CancelledUntouched, JobActive, WorkerStages, PastCheckpoint
<1>2. CASE KilledStopping
  <2>1. /\ wpc = "stop" /\ stops = 0 /\ stops' = 1 /\ JobActive /\ job.attempted
        /\ wpc' = "off" /\ late' = "own"
        /\ UNCHANGED <<job, recipe, pending, cli, svc, command, caller>>
    BY <1>2 DEF KilledStopping, StopsRecorded, WorkerHasJob, PastCheckpoint, WorkerStages
  <2>2. QED
    BY <2>1
    DEF MaintenanceTypes, WorkerHasJob, StopsRecorded, DownIsRecorded,
        StoppedOnce, CancelledUntouched, JobActive, WorkerStages, PastCheckpoint, Active
<1>a. CASE LateStop
  <2>1. /\ late' = "none"
        /\ UNCHANGED <<job, recipe, pending, cli, command, caller, wpc, crashes, stops>>
        /\ svc' = svc \/ StopOverdue
    BY <1>a DEF LateStop
  <2>2. CASE svc' = svc
    BY <2>1, <2>2
    DEF MaintenanceTypes, WorkerHasJob, StopsRecorded, DownIsRecorded,
        StoppedOnce, CancelledUntouched, JobActive
  <2>3. CASE StopOverdue
    <3>1. /\ svc' \in ServiceState /\ svc'.last = svc.last /\ svc'.version = svc.version
          /\ svc'.pid = 0 /\ (~svc'.overdue => late = "own" /\ JobActive)
      BY <2>3, ServiceChanged
    <3>2. late = "own" => stops > 0 /\ stops # 0
      BY DEF StopsRecorded, MaintenanceTypes
    <3>3. late = "own" /\ JobActive => job.attempted
      BY <3>2, Zenon DEF StopsRecorded
    <3>4. ~svc'.overdue => JobActive /\ job.attempted /\ stops > 0
      BY <3>1, <3>2, <3>3, Zenon
    <3>5. QED
      BY <2>1, <3>1, <3>4
      DEF MaintenanceTypes, WorkerHasJob, StopsRecorded, DownIsRecorded,
          StoppedOnce, CancelledUntouched, JobActive
  <2>4. QED
    BY <2>1, <2>2, <2>3
<1>3. CASE ServiceTurn \/ ServiceExits
  <2>1. /\ svc' \in ServiceState /\ svc'.last = svc.last /\ svc'.version = svc.version
        /\ svc'.pid \in {0, svc.pid} /\ svc'.stopped = svc.stopped /\ svc.pid # 0
        /\ UNCHANGED <<job, recipe, pending, cli, command, caller, wpc, crashes, stops, late>>
    BY <1>3, ServiceChanged DEF ServiceTurn, ServiceExits
  <2>2. QED
    BY <2>1
    DEF MaintenanceTypes, WorkerHasJob, StopsRecorded, DownIsRecorded,
        StoppedOnce, CancelledUntouched, JobActive
<1>4. CASE UserRestarts
  <2>1. svc.last < MaxPid
    BY <1>4, MaintenanceAssumption DEF UserRestarts, MaintenanceTypes
  <2>2. /\ svc' \in ServiceState /\ svc'.last \in 1 .. MaxPid /\ svc'.version \in 1 .. MaxCli
        /\ svc'.pid = svc'.last /\ ~svc'.stopped
        /\ UNCHANGED <<job, recipe, pending, cli, command, caller, wpc, crashes, stops, late>>
    BY <1>4, <2>1, ServiceStarted DEF UserRestarts
  <2>3. QED
    BY <2>2
    DEF MaintenanceTypes, WorkerHasJob, StopsRecorded, DownIsRecorded,
        StoppedOnce, CancelledUntouched, JobActive
<1>5. CASE ClientUpgraded
  <2>1. cli' \in 1 .. MaxCli
    BY <1>5, MaintenanceAssumption DEF ClientUpgraded, MaintenanceTypes
  <2>2. QED
    BY <1>5, <2>1
    DEF ClientUpgraded, MaintenanceTypes, WorkerHasJob, StopsRecorded, DownIsRecorded,
        StoppedOnce, CancelledUntouched, JobActive
<1>6. CASE SettingsChange
  <2>1. recipe' \in 0 .. MaxRecipe
    BY <1>6, MaintenanceAssumption DEF SettingsChange, MaintenanceTypes
  <2>2. QED
    BY <1>6, <2>1
    DEF SettingsChange, MaintenanceTypes, WorkerHasJob, StopsRecorded, DownIsRecorded,
        StoppedOnce, CancelledUntouched, JobActive
<1>7. CASE UNCHANGED mvars
  BY <1>7 DEF mvars, MaintenanceTypes, WorkerHasJob, StopsRecorded, DownIsRecorded,
              StoppedOnce, CancelledUntouched, JobActive
<1>8. QED
  BY <1>1, <1>2, <1>a, <1>3, <1>4, <1>5, <1>6, <1>7

\* The inductive invariant of the maintenance job.
THEOREM MaintenanceInvariant == MSpec => []MaintenanceInv
<1>1. MaintenanceInv /\ [MNext]_mvars => MaintenanceInv'
  BY CommandKeeps, WorkerKeeps, EnvironmentKeeps DEF MNext
<1>2. QED
  BY <1>1, MaintenanceInit, PTL DEF MSpec

\* runMaintenance and requestMaintenance: one approval runs the stop command at
\* most once, a cancelled job has run none, and a service that a stop took down is
\* on record as work to do, whichever worker was killed, but for a command that
\* was given up and took effect when its job was over.
THEOREM Approved == MSpec => []InterruptedAsApproved
<1>1. MaintenanceInv => InterruptedAsApproved
  BY DEF MaintenanceInv, InterruptedAsApproved
<1>2. QED
  BY <1>1, MaintenanceInvariant, PTL

-----------------------------------------------------------------------------
(* The relay.                                                              *)

RelayStages == {"off", "checked", "listening", "activating", "serving", "closing", "exiting",
                "gone", "dead"}

Envelope == [from : Senders, pc : {"queued", "pushing"}]

RelayTypes ==
    /\ relay \in [Relays -> RelayStages]
    /\ pub \in Published \cup {Nothing} /\ bind \in Binder \cup {Nothing}
    /\ sender \in [Senders -> {"idle", "waits", "accepted", "refused"}]
    /\ queue \in [Relays -> Seq(Envelope)]
    /\ seen \subseteq Relays /\ pushed \in [Relays -> Nat] /\ doubt \subseteq Relays
    /\ raced \subseteq Relays

\* Only the first envelope is being pushed, and only of a message not yet seen.
OnePush ==
    \A i \in Relays : \A n \in DOMAIN queue[i] :
        queue[i][n].pc = "pushing" => n = 1 /\ i \notin seen

\* A relay knows of every push but the ones in doubt.
SeenIsPushed ==
    \A i \in Relays : /\ i \in seen => pushed[i] > 0
                      /\ i \notin seen /\ i \notin doubt => pushed[i] = 0

\* Nobody binds or publishes a relay that does not listen yet.
NamedHasListened ==
    /\ pub # Nothing => relay[pub.ep] \notin {"off", "checked"}
    /\ bind # Nothing /\ bind.pick # Nothing => relay[bind.pick] \notin {"off", "checked"}

RelayInv ==
    /\ RelayTypes /\ OnePush /\ SeenIsPushed /\ NamedHasListened
    /\ PushedOnce /\ AcceptedPushed /\ ClosedRelayUnpublished

\* No relay runs and nothing was offered yet.
LEMMA RelayInit == RInit => RelayInv
<1> SUFFICES ASSUME RInit PROVE RelayInv
  OBVIOUS
<1> USE DEF RInit
<1>1. \A i \in Relays : queue[i] = << >> /\ pushed[i] = 0 /\ relay[i] = "off"
  OBVIOUS
<1>2. RelayTypes
  BY DEF RelayTypes, RelayStages
<1>3. OnePush /\ SeenIsPushed /\ NamedHasListened
  BY <1>1 DEF OnePush, SeenIsPushed, NamedHasListened
<1>4. PushedOnce /\ AcceptedPushed /\ ClosedRelayUnpublished
  BY <1>1 DEF PushedOnce, AcceptedPushed, ClosedRelayUnpublished, Current
<1>5. QED
  BY <1>2, <1>3, <1>4 DEF RelayInv

\* The half of the invariant that is about the message, and the one about bindings.
MessageInv == OnePush /\ SeenIsPushed /\ PushedOnce /\ AcceptedPushed
BindingInv == NamedHasListened /\ ClosedRelayUnpublished

\* Steps that touch neither the queues nor the pushes, and tell nobody "accepted".
LEMMA MessageKept ==
    ASSUME RelayInv, UNCHANGED <<queue, seen, pushed, doubt>>,
           \A s \in Senders : sender'[s] = "accepted" => sender[s] = "accepted"
    PROVE  MessageInv'
<1> USE DEF RelayInv
<1>1. OnePush' /\ SeenIsPushed' /\ PushedOnce'
  BY DEF OnePush, SeenIsPushed, PushedOnce
<1>2. AcceptedPushed'
  BY DEF AcceptedPushed
<1>3. QED
  BY <1>1, <1>2 DEF MessageInv

\* A relay that ends drops its queue, and says so if a push was under way.
LEMMA MessageDropped ==
    ASSUME RelayInv, NEW i \in Relays, queue' = [queue EXCEPT ![i] = << >>],
           doubt \subseteq doubt', UNCHANGED <<seen, pushed>>,
           \A s \in Senders : sender'[s] = "accepted" => sender[s] = "accepted"
    PROVE  MessageInv'
<1> USE DEF RelayInv
<1>1. OnePush'
  BY DEF OnePush, RelayTypes
<1>2. SeenIsPushed' /\ PushedOnce'
  BY DEF SeenIsPushed, PushedOnce
<1>3. AcceptedPushed'
  BY DEF AcceptedPushed
<1>4. QED
  BY <1>1, <1>2, <1>3 DEF MessageInv

\* Steps that neither bind nor publish, and in which no relay becomes gone.
LEMMA BindingKept ==
    ASSUME RelayInv, RelayTypes', raced \subseteq raced',
           \A i \in Relays : /\ relay'[i] \in {"off", "checked"} => relay[i] \in {"off", "checked"}
                             /\ relay'[i] = "gone" => relay[i] = "gone",
           pub' # Nothing => /\ pub # Nothing /\ pub'.ep = pub.ep
                             /\ ~pub'.retired => ~pub.retired,
           bind' = bind \/ bind' = Nothing \/ (bind' # Nothing /\ bind'.pick = Nothing)
    PROVE  BindingInv'
<1> USE DEF RelayInv
<1>1. /\ pub' # Nothing => pub'.ep \in Relays
      /\ bind' # Nothing /\ bind'.pick # Nothing => bind'.pick \in Relays
  BY DEF RelayTypes, Published, Binder
<1>2. NamedHasListened'
  BY <1>1 DEF NamedHasListened
<1>3. ClosedRelayUnpublished'
  BY <1>1 DEF ClosedRelayUnpublished, Current
<1>4. QED
  BY <1>2, <1>3 DEF BindingInv

\* A binding that is retired, renewed or past its lease still names its relay.
LEMMA StillNamed ==
    ASSUME RelayInv, pub # Nothing, NEW retired \in BOOLEAN, NEW live \in BOOLEAN
    PROVE  /\ [pub EXCEPT !.retired = retired, !.live = live] \in Published
           /\ [pub EXCEPT !.retired = retired, !.live = live].ep = pub.ep
           /\ [pub EXCEPT !.retired = retired, !.live = live].retired = retired
           /\ [pub EXCEPT !.live = live] \in Published
           /\ [pub EXCEPT !.live = live].ep = pub.ep
           /\ [pub EXCEPT !.live = live].retired = pub.retired
<1>1. pub \in Published
  BY DEF RelayInv, RelayTypes
<1>2. /\ [pub EXCEPT !.retired = retired, !.live = live] \in Published
      /\ [pub EXCEPT !.live = live] \in Published
  BY <1>1 DEF Published
<1>3. /\ [pub EXCEPT !.retired = retired, !.live = live].ep = pub.ep
      /\ [pub EXCEPT !.live = live].ep = pub.ep
  BY <1>1 DEF Published
<1>4. /\ [pub EXCEPT !.retired = retired, !.live = live].retired = retired
      /\ [pub EXCEPT !.live = live].retired = pub.retired
  BY <1>1 DEF Published
<1>5. QED
  BY <1>2, <1>3, <1>4

\* One relay moves on.
LEMMA RelayMoves ==
    ASSUME RelayInv, NEW i \in Relays, NEW stage \in RelayStages, Becomes(i, stage)
    PROVE  /\ relay' \in [Relays -> RelayStages] /\ relay'[i] = stage
           /\ \A j \in Relays : j # i => relay'[j] = relay[j]
  BY DEF Becomes, RelayInv, RelayTypes

\* Starting, and the calls of the renewal.
LEMMA StartingKeeps ==
    ASSUME RelayInv, NEW i \in Relays, StartRelay(i) \/ Listen(i) \/ RenewBegin(i) \/ Renew(i)
    PROVE  RelayInv'
<1>1. /\ UNCHANGED <<bind, sender, queue, seen, pushed, doubt, raced>>
      /\ pub' = pub \/ (pub # Nothing /\ pub' = [pub EXCEPT !.live = TRUE])
  BY DEF StartRelay, Listen, RenewBegin, Renew, Current
<1>2. /\ pub' \in Published \cup {Nothing}
      /\ pub' # Nothing => /\ pub # Nothing /\ pub'.ep = pub.ep
                           /\ ~pub'.retired => ~pub.retired
  BY <1>1, StillNamed, RelayAssumption DEF RelayInv, RelayTypes
<1>3. CASE relay' = relay
  <2>1. RelayTypes'
    BY <1>1, <1>2, <1>3 DEF RelayInv, RelayTypes
  <2>2. QED
    BY <1>1, <1>2, <1>3, <2>1, MessageKept, BindingKept DEF MessageInv, BindingInv, RelayInv
<1>4. CASE relay[i] \in {"off", "checked"} /\ Becomes(i, "checked")
  <2>1. /\ relay' \in [Relays -> RelayStages] /\ relay'[i] = "checked"
        /\ \A j \in Relays : j # i => relay'[j] = relay[j]
    BY <1>4, RelayMoves DEF RelayStages
  <2>2. RelayTypes'
    BY <1>1, <1>2, <2>1 DEF RelayInv, RelayTypes
  <2>3. QED
    BY <1>1, <1>2, <1>4, <2>1, <2>2, MessageKept, BindingKept DEF MessageInv, BindingInv, RelayInv
<1>5. CASE Listen(i) /\ Becomes(i, "listening")
  <2>1. /\ relay' \in [Relays -> RelayStages] /\ relay'[i] = "listening"
        /\ \A j \in Relays : j # i => relay'[j] = relay[j]
    BY <1>5, RelayMoves DEF RelayStages
  <2>2. RelayTypes'
    BY <1>1, <1>2, <2>1 DEF RelayInv, RelayTypes
  <2>3. QED
    BY <1>1, <1>2, <2>1, <2>2, MessageKept, BindingKept DEF MessageInv, BindingInv, RelayInv
<1>6. CASE Listen(i) /\ Becomes(i, "gone")
  <2>1. /\ relay' \in [Relays -> RelayStages] /\ relay'[i] = "gone" /\ relay[i] = "checked"
        /\ \A j \in Relays : j # i => relay'[j] = relay[j]
        /\ pub' = pub
    BY <1>6, RelayMoves DEF RelayStages, Listen
  <2>2. RelayTypes'
    BY <1>1, <1>2, <2>1 DEF RelayInv, RelayTypes
  <2>3. NamedHasListened' /\ ClosedRelayUnpublished'
    BY <1>1, <2>1
    DEF RelayInv, RelayTypes, NamedHasListened, ClosedRelayUnpublished, Current, Published, Binder
  <2>4. QED
    BY <1>1, <2>2, <2>3, MessageKept DEF MessageInv, RelayInv
<1>7. QED
  BY <1>3, <1>4, <1>5, <1>6 DEF StartRelay, Listen, RenewBegin, Renew

\* Binding: a relay that is picked has listened, and one that is published after it
\* closed is counted as raced.
LEMMA BindKeeps ==
    ASSUME RelayInv, Binding \/ \E by \in Relays \cup {"hook"} : BindBegin(by)
    PROVE  RelayInv'
<1>1. UNCHANGED <<sender, queue, seen, pushed, doubt>>
  BY DEF Binding, BindBegin, BindPick, BindFails, BindPublish
<1>2. MessageInv'
  BY <1>1, MessageKept
<1>3. ASSUME NEW by \in Relays \cup {"hook"}, BindBegin(by)
      PROVE  RelayInv'
  <2>1. /\ relay' \in [Relays -> RelayStages]
        /\ \A j \in Relays : relay'[j] = relay[j] \/ relay'[j] = "activating"
    BY <1>3, RelayMoves DEF BindBegin, RelayStages, RelayInv, RelayTypes
  <2>2. /\ pub' \in Published \cup {Nothing}
        /\ pub' # Nothing => /\ pub # Nothing /\ pub'.ep = pub.ep
                             /\ ~pub'.retired => ~pub.retired
    BY <1>3, StillNamed, RelayAssumption DEF BindBegin, Current, RelayInv, RelayTypes
  <2>3. bind' \in Binder /\ bind' # Nothing /\ bind'.pick = Nothing /\ raced' = raced
    BY <1>3, RelayAssumption DEF BindBegin, Binder
  <2>4. RelayTypes'
    BY <1>1, <2>1, <2>2, <2>3 DEF RelayInv, RelayTypes
  <2>5. QED
    BY <1>2, <2>1, <2>2, <2>3, <2>4, BindingKept DEF MessageInv, BindingInv, RelayInv
<1>4. CASE BindPick
  <2>1. PICK i \in Relays : Serving(i) /\ bind' = [bind EXCEPT !.pick = i]
    BY <1>4 DEF BindPick
  <2>2. bind \in Binder /\ bind' \in Binder /\ bind'.pick = i
    BY <1>4, <2>1 DEF BindPick, RelayInv, RelayTypes, Binder
  <2>3. UNCHANGED <<relay, pub, raced>> /\ relay[i] \notin {"off", "checked"}
    BY <1>4, <2>1 DEF BindPick, Serving, Serves
  <2>4. RelayTypes'
    BY <1>1, <2>2, <2>3 DEF RelayInv, RelayTypes
  <2>5. NamedHasListened' /\ ClosedRelayUnpublished'
    BY <2>2, <2>3 DEF RelayInv, NamedHasListened, ClosedRelayUnpublished, Current
  <2>6. QED
    BY <1>2, <2>4, <2>5 DEF RelayInv, MessageInv
<1>5. ASSUME NEW active \in BOOLEAN, Settled(active)
      PROVE  /\ relay' \in [Relays -> RelayStages]
             /\ \A j \in Relays : relay'[j] = relay[j] \/ relay'[j] \in {"serving", "closing"}
  <2>1. CASE relay' = relay
    BY <2>1 DEF RelayInv, RelayTypes
  <2>2. ASSUME NEW i \in Relays, NEW stage \in {"serving", "closing"}, Becomes(i, stage)
        PROVE  /\ relay' \in [Relays -> RelayStages]
               /\ \A j \in Relays : relay'[j] = relay[j] \/ relay'[j] \in {"serving", "closing"}
    BY <2>2, RelayMoves DEF RelayStages
  <2>3. QED
    BY <1>5, <2>1, <2>2 DEF Settled
<1>6. CASE BindFails
  <2>1. /\ relay' \in [Relays -> RelayStages] /\ bind' = Nothing /\ UNCHANGED <<pub, raced>>
        /\ \A j \in Relays : relay'[j] = relay[j] \/ relay'[j] \in {"serving", "closing"}
    BY <1>5, <1>6 DEF BindFails
  <2>2. RelayTypes'
    BY <1>1, <2>1 DEF RelayInv, RelayTypes
  <2>3. QED
    BY <1>2, <2>1, <2>2, BindingKept DEF MessageInv, BindingInv, RelayInv
<1>7. CASE BindPublish
  <2>1. PICK i \in Relays : i = bind.pick
    BY <1>7 DEF BindPublish, RelayInv, RelayTypes, Binder
  <2>2. /\ relay' \in [Relays -> RelayStages] /\ bind' = Nothing
        /\ \A j \in Relays : relay'[j] = relay[j] \/ relay'[j] \in {"serving", "closing"}
    BY <1>5, <1>7 DEF BindPublish
  <2>3. /\ pub' = [ep |-> i, live |-> TRUE, retired |-> FALSE]
        /\ raced' = IF relay[i] \in {"gone", "dead"} THEN raced \cup {i} ELSE raced
    BY <1>7, <2>1 DEF BindPublish
  <2>4. pub' \in Published /\ pub'.ep = i
    BY <2>3 DEF Published
  <2>5. RelayTypes'
    BY <1>1, <2>2, <2>3, <2>4 DEF RelayInv, RelayTypes
  <2>6. relay[i] \notin {"off", "checked"}
    BY <1>7, <2>1 DEF BindPublish, RelayInv, NamedHasListened
  <2>7. NamedHasListened'
    BY <2>2, <2>4, <2>6 DEF NamedHasListened
  <2>8. ClosedRelayUnpublished'
    BY <2>2, <2>3, <2>4 DEF ClosedRelayUnpublished
  <2>9. QED
    BY <1>2, <2>5, <2>7, <2>8 DEF RelayInv, MessageInv
<1>8. QED
  BY <1>3, <1>4, <1>6, <1>7 DEF Binding

\* What a queue holds after an offer, a push that begins and one that ends.
LEMMA QueueSteps ==
    ASSUME RelayInv, NEW i \in Relays, NEW q \in Seq(Envelope), queue' = [queue EXCEPT ![i] = q],
           \A n \in DOMAIN q : q[n].pc = "pushing" => n = 1 /\ i \notin seen',
           seen \subseteq seen', seen' \subseteq seen \cup {i}
    PROVE  queue' \in [Relays -> Seq(Envelope)] /\ OnePush'
<1>1. queue \in [Relays -> Seq(Envelope)]
  BY DEF RelayInv, RelayTypes
<1>2. OnePush'
  BY <1>1 DEF OnePush, RelayInv
<1>3. QED
  BY <1>1, <1>2

\* An answer reaches a sender that still waits.
LEMMA Answered ==
    ASSUME RelayInv, NEW s \in Senders, NEW word \in {"accepted", "refused"}, Answer(s, word)
    PROVE  /\ sender' \in [Senders -> {"idle", "waits", "accepted", "refused"}]
           /\ word = "refused" => \A t \in Senders : sender'[t] = "accepted" => sender[t] = "accepted"
  BY DEF Answer, RelayInv, RelayTypes

\* The message: one push at a time, and nobody is told more than what was done.
LEMMA MessageKeeps ==
    ASSUME RelayInv,
           \/ \E s \in Senders : Offer(s) \/ GiveUp(s)
           \/ \E i \in Relays : Duplicate(i) \/ \E n \in 1 .. 2 : PushNow(i, n) \/ Pushed(i, n)
    PROVE  RelayInv'
<1>1. UNCHANGED <<relay, pub, bind, raced>>
  BY DEF Offer, GiveUp, Duplicate, PushNow, Pushed
<1>2. BindingInv'
  BY <1>1 DEF RelayInv, BindingInv, NamedHasListened, ClosedRelayUnpublished, Current
<1>3. queue \in [Relays -> Seq(Envelope)]
  BY DEF RelayInv, RelayTypes
<1>4. ASSUME NEW s \in Senders, GiveUp(s)
      PROVE  RelayInv'
  <2>1. /\ sender' \in [Senders -> {"idle", "waits", "accepted", "refused"}]
        /\ \A t \in Senders : sender'[t] = "accepted" => sender[t] = "accepted"
        /\ UNCHANGED <<queue, seen, pushed, doubt>>
    BY <1>4 DEF GiveUp, RelayInv, RelayTypes
  <2>2. RelayTypes'
    BY <1>1, <2>1 DEF RelayInv, RelayTypes
  <2>3. QED
    BY <1>2, <2>1, <2>2, MessageKept DEF RelayInv, MessageInv, BindingInv
<1>5. ASSUME NEW s \in Senders, Offer(s)
      PROVE  RelayInv'
  <2>1. /\ sender' \in [Senders -> {"idle", "waits", "accepted", "refused"}]
        /\ \A t \in Senders : sender'[t] = "accepted" => sender[t] = "accepted"
        /\ UNCHANGED <<seen, pushed, doubt>>
    BY <1>5 DEF Offer, RelayInv, RelayTypes
  <2>2. queue' \in [Relays -> Seq(Envelope)] /\ OnePush'
    <3>1. CASE queue' = queue
      BY <1>3, <2>1, <3>1 DEF RelayInv, OnePush
    <3>2. CASE queue' = [queue EXCEPT ![pub.ep] = Append(queue[pub.ep], [from |-> s, pc |-> "queued"])]
      <4>1. PICK i \in Relays : i = pub.ep
        BY <1>5 DEF Offer, Current, RelayInv, RelayTypes, Published
      <4>2. [from |-> s, pc |-> "queued"] \in Envelope
        BY DEF Envelope
      <4> DEFINE q == Append(queue[i], [from |-> s, pc |-> "queued"])
      <4>3. q \in Seq(Envelope)
        BY <1>3, <4>2
      <4>4. \A n \in DOMAIN q : q[n].pc = "pushing" => n = 1 /\ i \notin seen
        BY <1>3 DEF RelayInv, OnePush
      <4> HIDE DEF q
      <4>5. queue' = [queue EXCEPT ![i] = q]
        BY <3>2, <4>1 DEF q
      <4>6. QED
        BY <2>1, <4>3, <4>4, <4>5, QueueSteps
    <3>3. QED
      BY <1>5, <3>1, <3>2 DEF Offer
  <2>3. RelayTypes'
    BY <1>1, <2>1, <2>2 DEF RelayInv, RelayTypes
  <2>4. SeenIsPushed' /\ PushedOnce' /\ AcceptedPushed'
    BY <2>1 DEF RelayInv, SeenIsPushed, PushedOnce, AcceptedPushed
  <2>5. QED
    BY <1>2, <2>2, <2>3, <2>4 DEF RelayInv, BindingInv
<1>6. ASSUME NEW i \in Relays, NEW n \in 1 .. 2, PushNow(i, n)
      PROVE  RelayInv'
  <2>1. queue[i] \in Seq(Envelope) /\ queue[i] # << >> /\ i \notin seen
    BY <1>3, <1>6 DEF PushNow
  <2> DEFINE q == [queue[i] EXCEPT ![1].pc = "pushing"]
  <2>2. q \in Seq(Envelope)
    <3>1. queue[i][1] \in Envelope
      BY <2>1
    <3>2. [queue[i][1] EXCEPT !.pc = "pushing"] \in Envelope
      BY <3>1 DEF Envelope
    <3>3. QED
      BY <2>1, <3>2
  <2>3. \A m \in DOMAIN q : q[m].pc = "pushing" => m = 1 /\ i \notin seen
    BY <2>1 DEF RelayInv, OnePush
  <2>4. queue' = [queue EXCEPT ![i] = q] /\ UNCHANGED <<sender, seen, pushed, doubt>>
    BY <1>6 DEF PushNow
  <2> HIDE DEF q
  <2>5. queue' \in [Relays -> Seq(Envelope)] /\ OnePush'
    BY <2>2, <2>3, <2>4, QueueSteps
  <2>6. RelayTypes'
    BY <1>1, <2>4, <2>5 DEF RelayInv, RelayTypes
  <2>7. SeenIsPushed' /\ PushedOnce' /\ AcceptedPushed'
    BY <2>4 DEF RelayInv, SeenIsPushed, PushedOnce, AcceptedPushed
  <2>8. QED
    BY <1>2, <2>5, <2>6, <2>7 DEF RelayInv, BindingInv
<1>7. ASSUME NEW i \in Relays, Duplicate(i)
      PROVE  RelayInv'
  <2>1. /\ queue[i] \in Seq(Envelope) /\ queue[i] # << >> /\ i \in seen
        /\ queue' = [queue EXCEPT ![i] = Tail(queue[i])] /\ UNCHANGED <<seen, pushed, doubt>>
        /\ Answer(queue[i][1].from, "accepted")
    BY <1>3, <1>7 DEF Duplicate
  <2>2. Tail(queue[i]) \in Seq(Envelope) /\ queue[i][1].from \in Senders
    <3>1. Tail(queue[i]) \in Seq(Envelope) /\ queue[i][1] \in Envelope
      BY <2>1
    <3>2. QED
      BY <3>1 DEF Envelope
  <2>3. \A m \in DOMAIN Tail(queue[i]) : Tail(queue[i])[m].pc # "pushing"
    BY <2>1 DEF RelayInv, OnePush
  <2>4. queue' \in [Relays -> Seq(Envelope)] /\ OnePush'
    BY <2>1, <2>2, <2>3, QueueSteps
  <2>5. sender' \in [Senders -> {"idle", "waits", "accepted", "refused"}]
    BY <2>1, <2>2, Answered
  <2>6. RelayTypes'
    BY <1>1, <2>1, <2>4, <2>5 DEF RelayInv, RelayTypes
  <2>7. SeenIsPushed' /\ PushedOnce' /\ AcceptedPushed'
    BY <2>1 DEF RelayInv, SeenIsPushed, PushedOnce, AcceptedPushed
  <2>8. QED
    BY <1>2, <2>4, <2>6, <2>7 DEF RelayInv, BindingInv
<1>8. ASSUME NEW i \in Relays, NEW n \in 1 .. 2, Pushed(i, n)
      PROVE  RelayInv'
  <2>1. /\ queue[i] \in Seq(Envelope) /\ n \in DOMAIN queue[i] /\ queue[i][n].pc = "pushing"
        /\ queue' = [queue EXCEPT ![i] = Without(i, n)]
    BY <1>3, <1>8 DEF Pushed
  <2>2. n = 1 /\ i \notin seen /\ queue[i] # << >> /\ queue[i][n].from \in Senders
    <3>1. n = 1 /\ i \notin seen
      BY <2>1 DEF RelayInv, OnePush
    <3>2. queue[i] # << >> /\ queue[i][n] \in Envelope
      BY <2>1
    <3>3. QED
      BY <3>1, <3>2 DEF Envelope
  <2>3. Without(i, n) = Tail(queue[i])
    BY <2>1, <2>2 DEF Without
  <2>4. Tail(queue[i]) \in Seq(Envelope)
        /\ \A m \in DOMAIN Tail(queue[i]) : Tail(queue[i])[m].pc # "pushing"
    BY <2>1, <2>2 DEF RelayInv, OnePush
  <2>5. ASSUME seen' \in {seen, seen \cup {i}}
        PROVE  queue' \in [Relays -> Seq(Envelope)] /\ OnePush'
    BY <2>1, <2>3, <2>4, <2>5, QueueSteps
  <2>6. CASE /\ pushed' = [pushed EXCEPT ![i] = @ + 1] /\ seen' = seen \cup {i}
             /\ Answer(queue[i][n].from, "accepted") /\ doubt' = doubt
    <3>1. sender' \in [Senders -> {"idle", "waits", "accepted", "refused"}]
      BY <2>2, <2>6, Answered
    <3>2. pushed' \in [Relays -> Nat] /\ pushed'[i] = pushed[i] + 1
          /\ \A j \in Relays : j # i => pushed'[j] = pushed[j]
      BY <2>6 DEF RelayInv, RelayTypes
    <3>3. RelayTypes'
      BY <1>1, <2>5, <2>6, <3>1, <3>2 DEF RelayInv, RelayTypes
    <3>4. SeenIsPushed' /\ PushedOnce' /\ AcceptedPushed'
      BY <2>2, <2>6, <3>2
      DEF RelayInv, RelayTypes, SeenIsPushed, PushedOnce, AcceptedPushed
    <3>5. QED
      BY <1>2, <2>5, <2>6, <3>3, <3>4 DEF RelayInv, BindingInv
  <2>7. CASE Answer(queue[i][n].from, "refused") /\ UNCHANGED <<pushed, seen, doubt>>
    <3>1. /\ sender' \in [Senders -> {"idle", "waits", "accepted", "refused"}]
          /\ \A t \in Senders : sender'[t] = "accepted" => sender[t] = "accepted"
      BY <2>2, <2>7, Answered
    <3>2. RelayTypes'
      BY <1>1, <2>5, <2>7, <3>1 DEF RelayInv, RelayTypes
    <3>3. SeenIsPushed' /\ PushedOnce' /\ AcceptedPushed'
      BY <2>7, <3>1 DEF RelayInv, SeenIsPushed, PushedOnce, AcceptedPushed
    <3>4. QED
      BY <1>2, <2>5, <2>7, <3>2, <3>3 DEF RelayInv, BindingInv
  <2>8. CASE /\ doubt' = doubt \cup {i} /\ Answer(queue[i][n].from, "refused") /\ seen' = seen
             /\ pushed' \in {pushed, [pushed EXCEPT ![i] = @ + 1]}
    <3>1. /\ sender' \in [Senders -> {"idle", "waits", "accepted", "refused"}]
          /\ \A t \in Senders : sender'[t] = "accepted" => sender[t] = "accepted"
      BY <2>2, <2>8, Answered
    <3>2. pushed' \in [Relays -> Nat] /\ pushed'[i] >= pushed[i]
          /\ \A j \in Relays : j # i => pushed'[j] = pushed[j]
      <4>1. pushed \in [Relays -> Nat]
        BY DEF RelayInv, RelayTypes
      <4>2. CASE pushed' = pushed
        BY <4>1, <4>2
      <4>3. CASE pushed' = [pushed EXCEPT ![i] = @ + 1]
        BY <4>1, <4>3
      <4>4. QED
        BY <2>8, <4>2, <4>3
    <3>3. RelayTypes'
      BY <1>1, <2>5, <2>8, <3>1, <3>2 DEF RelayInv, RelayTypes
    <3>4. SeenIsPushed' /\ PushedOnce' /\ AcceptedPushed'
      BY <2>2, <2>8, <3>1, <3>2
      DEF RelayInv, RelayTypes, SeenIsPushed, PushedOnce, AcceptedPushed
    <3>5. QED
      BY <1>2, <2>5, <2>8, <3>3, <3>4 DEF RelayInv, BindingInv
  <2>9. QED
    BY <1>8, <2>6, <2>7, <2>8 DEF Pushed
<1>9. QED
  BY <1>4, <1>5, <1>6, <1>7, <1>8

\* Who is cut off is refused.
LEMMA CutRefuses ==
    ASSUME RelayInv, NEW i \in Relays, sender' = Cut(i)
    PROVE  /\ sender' \in [Senders -> {"idle", "waits", "accepted", "refused"}]
           /\ \A t \in Senders : sender'[t] = "accepted" => sender[t] = "accepted"
  BY DEF Cut, RelayInv, RelayTypes

\* The end of a relay: it takes its own binding with it, and nobody else's.
LEMMA EndingKeeps ==
    ASSUME RelayInv, NEW i \in Relays,
           CloseBegin(i) \/ CloseRemove(i) \/ CloseClear(i) \/ Killed(i)
    PROVE  RelayInv'
<1>1. CASE CloseBegin(i) \/ CloseRemove(i)
  <2>1. PICK stage \in {"closing", "exiting"} : Becomes(i, stage)
    BY <1>1 DEF CloseBegin, CloseRemove
  <2>2. /\ relay' \in [Relays -> RelayStages] /\ relay'[i] = stage
        /\ \A j \in Relays : j # i => relay'[j] = relay[j]
    BY <2>1, RelayMoves DEF RelayStages
  <2>3. /\ UNCHANGED <<pub, bind, queue, seen, pushed, doubt, raced>>
        /\ sender' \in [Senders -> {"idle", "waits", "accepted", "refused"}]
        /\ \A t \in Senders : sender'[t] = "accepted" => sender[t] = "accepted"
    BY <1>1, CutRefuses DEF CloseBegin, CloseRemove, RelayInv, RelayTypes
  <2>4. RelayTypes'
    BY <2>2, <2>3 DEF RelayInv, RelayTypes
  <2>5. QED
    BY <2>2, <2>3, <2>4, MessageKept, BindingKept DEF MessageInv, BindingInv, RelayInv
<1>2. CASE CloseClear(i)
  <2>1. /\ relay' \in [Relays -> RelayStages] /\ relay'[i] = "gone"
        /\ \A j \in Relays : j # i => relay'[j] = relay[j]
    BY <1>2, RelayMoves DEF CloseClear, RelayStages
  <2>2. /\ UNCHANGED <<bind, sender, seen, pushed, doubt, raced>>
        /\ queue' = [queue EXCEPT ![i] = << >>] /\ queue' \in [Relays -> Seq(Envelope)]
    BY <1>2 DEF CloseClear, RelayInv, RelayTypes
  <2>3. /\ pub' \in Published \cup {Nothing}
        /\ pub' # Nothing => /\ pub # Nothing /\ pub'.ep = pub.ep
                             /\ ~pub'.retired => ~pub.retired /\ pub.ep # i
    BY <1>2, StillNamed, RelayAssumption DEF CloseClear, Current, RelayInv, RelayTypes
  <2>4. RelayTypes'
    BY <2>1, <2>2, <2>3 DEF RelayInv, RelayTypes
  <2>5. /\ pub' # Nothing => pub'.ep \in Relays
        /\ bind' # Nothing /\ bind'.pick # Nothing => bind'.pick \in Relays
    BY <2>4 DEF RelayTypes, Published, Binder
  <2>6. NamedHasListened'
    BY <2>1, <2>2, <2>3, <2>5 DEF RelayInv, NamedHasListened
  <2>7. ClosedRelayUnpublished'
    BY <2>1, <2>2, <2>3, <2>5 DEF RelayInv, ClosedRelayUnpublished, Current
  <2>8. QED
    BY <2>2, <2>4, <2>6, <2>7, MessageDropped DEF RelayInv, MessageInv
<1>3. CASE Killed(i)
  <2>1. /\ relay' \in [Relays -> RelayStages] /\ relay'[i] = "dead"
        /\ \A j \in Relays : j # i => relay'[j] = relay[j]
    BY <1>3, RelayMoves DEF Killed, RelayStages
  <2>2. /\ UNCHANGED <<pub, seen, pushed, raced>> /\ bind' \in {bind, Nothing}
        /\ doubt' \in {doubt, doubt \cup {i}}
        /\ queue' = [queue EXCEPT ![i] = << >>] /\ queue' \in [Relays -> Seq(Envelope)]
        /\ sender' \in [Senders -> {"idle", "waits", "accepted", "refused"}]
        /\ \A t \in Senders : sender'[t] = "accepted" => sender[t] = "accepted"
    BY <1>3, CutRefuses DEF Killed, RelayInv, RelayTypes
  <2>3. RelayTypes'
    BY <2>1, <2>2 DEF RelayInv, RelayTypes
  <2>4. QED
    BY <2>1, <2>2, <2>3, MessageDropped, BindingKept DEF RelayInv, MessageInv, BindingInv
<1>4. QED
  BY <1>1, <1>2, <1>3

\* Leases that run out, an uninstall, and the ends of the session and the client.
LEMMA AroundKeeps ==
    ASSUME RelayInv, Expires \/ StopRelays \/ SessionEnds \/ ClientExits \/ UNCHANGED rvars
    PROVE  RelayInv'
<1>1. /\ UNCHANGED <<bind, queue, seen, pushed, doubt, raced>>
      /\ sender' \in [Senders -> {"idle", "waits", "accepted", "refused"}]
      /\ \A t \in Senders : sender'[t] = "accepted" => sender[t] = "accepted"
  BY DEF Expires, StopRelays, SessionEnds, ClientExits, rvars, RelayInv, RelayTypes
<1>2. /\ relay' \in [Relays -> RelayStages]
      /\ \A j \in Relays : relay'[j] = relay[j] \/ relay'[j] = "closing"
  BY DEF Expires, StopRelays, SessionEnds, ClientExits, rvars, RelayInv, RelayTypes, RelayStages
<1>3. /\ pub' \in Published \cup {Nothing}
      /\ pub' # Nothing => /\ pub # Nothing /\ pub'.ep = pub.ep
                           /\ ~pub'.retired => ~pub.retired
  <2>1. \/ pub' = pub
        \/ pub # Nothing /\ pub' = [pub EXCEPT !.retired = TRUE, !.live = FALSE]
        \/ pub # Nothing /\ pub' = [pub EXCEPT !.live = FALSE]
    BY DEF Expires, StopRelays, SessionEnds, ClientExits, rvars, Current
  <2>2. QED
    BY <2>1, StillNamed, RelayAssumption DEF RelayInv, RelayTypes
<1>4. RelayTypes'
  BY <1>1, <1>2, <1>3 DEF RelayInv, RelayTypes
<1>5. QED
  BY <1>1, <1>2, <1>3, <1>4, MessageKept, BindingKept DEF MessageInv, BindingInv, RelayInv

\* The inductive invariant of the relay.
THEOREM RelayInvariant == RSpec => []RelayInv
<1>1. RelayInv /\ [RNext]_rvars => RelayInv'
  <2> SUFFICES ASSUME RelayInv, [RNext]_rvars PROVE RelayInv'
    OBVIOUS
  <2>1. ASSUME NEW i \in Relays, RelayStep(i) PROVE RelayInv'
    BY <2>1, StartingKeeps, MessageKeeps, EndingKeeps DEF RelayStep
  <2>2. ASSUME NEW i \in Relays, BindBegin(i) PROVE RelayInv'
    BY <2>2, BindKeeps
  <2>3. ASSUME NEW i \in Relays, CloseBegin(i) \/ Killed(i) PROVE RelayInv'
    BY <2>3, EndingKeeps
  <2>4. CASE Binding \/ BindBegin("hook")
    BY <2>4, BindKeeps
  <2>5. ASSUME NEW s \in Senders, Offer(s) \/ GiveUp(s) PROVE RelayInv'
    BY <2>5, MessageKeeps
  <2>6. CASE Expires \/ StopRelays \/ SessionEnds \/ ClientExits \/ UNCHANGED rvars
    BY <2>6, AroundKeeps
  <2>7. QED
    BY <2>1, <2>2, <2>3, <2>4, <2>5, <2>6 DEF RNext
<1>2. QED
  BY <1>1, RelayInit, PTL DEF RSpec

\* createRelay, deliver and close: a relay pushes the message once unless a push
\* ended without an answer, a sender told "accepted" has it in the conversation, and
\* a relay that closed in order leaves no binding to itself behind.
THEOREM HonestRelay == RSpec => []RelayHonest
<1>1. RelayInv => RelayHonest
  BY DEF RelayInv, RelayHonest
<1>2. QED
  BY <1>1, RelayInvariant, PTL

=============================================================================
