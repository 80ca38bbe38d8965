-------------------------- MODULE EngineTasksProofs --------------------------
(***************************************************************************)
(* The node engine's tasks: a quarantined worker runs nothing again, a     *)
(* recorded exit is the latest task's, the idle stop spares work, and a    *)
(* deleted worker leaves nothing, for any number of tasks and executions.  *)
(***************************************************************************)
EXTENDS EngineTasks, TLAPS

\* The hub that a watcher may find is that of the task there is.
HubInv == hub \in {0, vm.id}

\* A process runs in a running task.
ProcInv == \A e \in Execs : proc[e] = "running" => vm.is = "running"

\* What the handler inside b.mu may rely on.
OpInv ==
  /\ op.do = "none" => op = Free
  /\ op.do # "none" => workerRec.exists
  /\ op.do = "start" => ~workerRec.quarantined
  /\ op.do \in {"quarantine", "recover"} => workerRec.quarantined
  /\ op.do = "idle" => \A e \in Execs : ~Active(e)
  /\ op.do = "job" =>
       /\ op.on \in Execs /\ jobFile[op.on] = "running"
       /\ execs[op.on] = [kind |-> "job", running |-> TRUE]
  /\ server = "up" => op.do # "recover"
  /\ server = "opening" => op.do \in {"none", "recover"}
  /\ server = "down" => op.do = "none"

\* The fence: set only when the task is gone, and no task is made after it.
FenceInv ==
  /\ fenced => workerRec.quarantined
  /\ fenced /\ workerRec.exists => vm.is = "none"
  /\ server = "opening" /\ op.do = "none" /\ workerRec.exists /\ workerRec.quarantined =>
       vm.is = "none"

\* A deleted worker.
GoneInv ==
  ~workerRec.exists =>
    vm.is = "none" /\ \A e \in Execs : jobFile[e] = "none" /\ execs[e].kind = "none"

\* What a client that holds an execution may count on.
CallerInv(e) ==
  /\ caller[e] = "pending" => execs[e].kind = "pending" \/ (op.do = "job" /\ op.on = e)
  /\ caller[e] = "attached" => execs[e] = [kind |-> "stream", running |-> TRUE]
  /\ stream[e] # "none" => /\ execs[e] = [kind |-> "stream", running |-> TRUE]
                           /\ caller[e] # "new"
  /\ caller[e] = "job" =>
       /\ jobFile[e] # "none" /\ (proc[e] = "running" => jobFile[e] = "running")
       /\ server = "up" => /\ execs[e].kind = "job"
                           /\ proc[e] = "running" => execs[e].running

\* Nobody is served while the node is down or opens.
ServedInv ==
  server # "up" =>
    \A e \in Execs : stream[e] = "none" /\ caller[e] \notin {"pending", "attached"}

TasksInv ==
  /\ TasksTypeOK /\ HubInv /\ ProcInv /\ OpInv /\ FenceInv /\ GoneInv /\ ServedInv
  /\ workerRec.exists => \A e \in Execs : CallerInv(e)

-----------------------------------------------------------------------------
\* No hub, no exit.
LEMMA Zero == 0 \in TaskIds
  BY TasksAssumption DEF TaskIds

ExecRecs == [kind : {"none", "pending", "stream", "job"}, running : BOOLEAN]

\* An execution's record, with a field changed.
LEMMA ExecTypes ==
  ASSUME TasksTypeOK, NEW e \in Execs
  PROVE  /\ [execs EXCEPT ![e].kind = "pending"] \in [Execs -> ExecRecs]
         /\ [execs EXCEPT ![e].running = FALSE] \in [Execs -> ExecRecs]
<1>1. execs[e] \in ExecRecs /\ execs \in [Execs -> ExecRecs]
  BY DEF TasksTypeOK, ExecRecs
<1>2. /\ [execs[e] EXCEPT !.kind = "pending"] \in ExecRecs
      /\ [execs[e] EXCEPT !.running = FALSE] \in ExecRecs
  BY <1>1 DEF ExecRecs
<1>3. QED BY <1>1, <1>2

\* A new worker has neither task nor execution.
LEMMA TasksInitInv == TasksInit => TasksInv
<1> SUFFICES ASSUME TasksInit PROVE TasksInv
  OBVIOUS
<1>1. TasksTypeOK
  <2>1. [e \in Execs |-> NoExec] \in [Execs -> ExecRecs]
    BY DEF NoExec, ExecRecs
  <2>2. QED BY <2>1, Zero DEF TasksInit, TasksTypeOK, ExecRecs, Free
<1>2. HubInv /\ ProcInv /\ OpInv /\ FenceInv /\ GoneInv /\ ServedInv
  BY DEF TasksInit, HubInv, ProcInv, OpInv, FenceInv, GoneInv, ServedInv, Free
<1>3. \A e \in Execs : CallerInv(e)
  BY DEF TasksInit, CallerInv
<1>4. QED BY <1>1, <1>2, <1>3 DEF TasksInv

-----------------------------------------------------------------------------
(* One lemma per action, with a step for each part that it can disturb.     *)

\* The next task is created.
LEMMA StartBeginsInv ==
  ASSUME TasksInv, StartBegins
  PROVE  TasksInv'
<1>1. TasksTypeOK'
  BY TasksAssumption DEF StartBegins, TasksInv, TasksTypeOK, Serving, Unlocked, Free,
                         ExecutionAllowed, Gone, TaskIds
<1>2. HubInv'
  BY DEF StartBegins, TasksInv, HubInv, TaskIds
<1>3. ProcInv'
  BY DEF StartBegins, TasksInv, ProcInv, Serving, Unlocked, Free, Gone
<1>4. OpInv'
  BY DEF StartBegins, TasksInv, OpInv, Serving, Unlocked, Free, ExecutionAllowed, Gone, Active
<1>5. FenceInv'
  BY DEF StartBegins, TasksInv, FenceInv, Serving, Unlocked, Free, ExecutionAllowed, Gone
<1>6. GoneInv'
  BY DEF StartBegins, TasksInv, GoneInv, Serving, Unlocked, Free, Gone
<1>7. workerRec'.exists => \A f \in Execs : CallerInv(f)'
  BY DEF StartBegins, TasksInv, CallerInv, Serving, Unlocked, Free, Gone
<1>8. ServedInv'
  BY DEF StartBegins, TasksInv, ServedInv
<1>9. QED BY <1>1, <1>2, <1>3, <1>4, <1>5, <1>6, <1>7, <1>8 DEF TasksInv

\* It runs.
LEMMA StartRunsInv ==
  ASSUME TasksInv, StartRuns
  PROVE  TasksInv'
<1>1. TasksTypeOK'
  BY DEF StartRuns, TasksInv, TasksTypeOK, TaskIds
<1>2. HubInv'
  BY DEF StartRuns, TasksInv, HubInv, TaskIds
<1>3. ProcInv'
  BY DEF StartRuns, TasksInv, ProcInv
<1>4. FenceInv'
  BY DEF StartRuns, TasksInv, FenceInv
<1>5. GoneInv'
  BY DEF StartRuns, TasksInv, GoneInv
<1>6. OpInv' /\ ServedInv'
      /\ (workerRec'.exists => \A f \in Execs : CallerInv(f)')
  BY DEF StartRuns, TasksInv, OpInv, ServedInv, CallerInv, Free, Active
<1>7. QED BY <1>1, <1>2, <1>3, <1>4, <1>5, <1>6 DEF TasksInv

\* Its start is recorded.
LEMMA StartEndsInv ==
  ASSUME TasksInv, StartEnds
  PROVE  TasksInv'
<1>1. TasksTypeOK'
  BY Zero DEF StartEnds, TasksInv, TasksTypeOK, Free
<1>2. OpInv'
  BY DEF StartEnds, TasksInv, OpInv, Free, Active
<1>3. FenceInv'
  BY DEF StartEnds, TasksInv, FenceInv, OpInv
<1>4. GoneInv'
  BY DEF StartEnds, TasksInv, GoneInv
<1>5. workerRec'.exists => \A f \in Execs : CallerInv(f)'
  BY DEF StartEnds, TasksInv, CallerInv
<1>6. HubInv' /\ ProcInv' /\ ServedInv'
  BY DEF StartEnds, TasksInv, HubInv, ProcInv, ServedInv, TaskIds
<1>7. QED BY <1>1, <1>2, <1>3, <1>4, <1>5, <1>6 DEF TasksInv

\* The start fails.
LEMMA StartFailsInv ==
  ASSUME TasksInv, StartFails
  PROVE  TasksInv'
<1>1. TasksTypeOK'
  <2>1. vm.id \in TaskIds /\ proc \in [Execs -> {"none", "created", "running", "exited"}]
    BY DEF TasksInv, TasksTypeOK
  <2>2. vm' \in {vm, [vm EXCEPT !.is = "none"]} /\ proc' \in {proc, Gone}
    BY DEF StartFails
  <2>3. workerRec' \in {workerRec, [workerRec EXCEPT !.failed = TRUE, !.finished = vm.id]}
    BY DEF StartFails
  <2>4. vm' \in [id : TaskIds, is : {"none", "created", "running", "stopped"}]
    BY <2>2 DEF TasksInv, TasksTypeOK
  <2>5. proc' \in [Execs -> {"none", "created", "running", "exited"}]
    BY <2>1, <2>2 DEF Gone
  <2>6. /\ workerRec'.exists \in BOOLEAN /\ workerRec' \in
             [exists : BOOLEAN, quarantined : BOOLEAN, failed : BOOLEAN,
              recent : BOOLEAN, finished : TaskIds]
    BY <2>1, <2>3 DEF TasksInv, TasksTypeOK
  <2>7. QED BY <2>4, <2>5, <2>6, Zero DEF TasksInv, TasksTypeOK, StartFails, Free
<1>2. HubInv'
  BY DEF StartFails, TasksInv, HubInv, TaskIds
<1>3. ProcInv'
  BY DEF StartFails, TasksInv, ProcInv, Free, Gone
<1>4. OpInv'
  BY DEF StartFails, TasksInv, OpInv, Free, Active
<1>5. FenceInv'
  BY DEF StartFails, TasksInv, FenceInv, OpInv
<1>6. GoneInv'
  BY DEF StartFails, TasksInv, GoneInv, TasksTypeOK
<1>7. workerRec'.exists => \A f \in Execs : CallerInv(f)'
  BY DEF StartFails, TasksInv, CallerInv, OpInv, Free, Gone
<1>8. ServedInv'
  BY DEF StartFails, TasksInv, ServedInv
<1>9. QED BY <1>1, <1>2, <1>3, <1>4, <1>5, <1>6, <1>7, <1>8 DEF TasksInv

\* A task ends with its processes.
LEMMA TaskEndsInv ==
  ASSUME TasksInv, TaskEnds
  PROVE  TasksInv'
<1>1. TasksTypeOK'
  BY DEF TaskEnds, TasksInv, TasksTypeOK, Stopping, Dead, TaskIds
<1>2. HubInv'
  BY DEF TaskEnds, TasksInv, HubInv, TaskIds
<1>3. ProcInv'
  BY DEF TaskEnds, TasksInv, ProcInv, Stopping, Dead
<1>4. FenceInv'
  BY DEF TaskEnds, TasksInv, FenceInv
<1>5. GoneInv'
  BY DEF TaskEnds, TasksInv, GoneInv
<1>6. workerRec'.exists => \A f \in Execs : CallerInv(f)'
  BY DEF TaskEnds, TasksInv, CallerInv, Stopping, Dead
<1>7. OpInv' /\ ServedInv'
  BY DEF TaskEnds, TasksInv, OpInv, ServedInv, Free, Active
<1>8. QED BY <1>1, <1>2, <1>3, <1>4, <1>5, <1>6, <1>7 DEF TasksInv

\* A watcher records the exit of its own task only.
LEMMA WatchInv ==
  ASSUME TasksInv, NEW k \in watching, Watch(k)
  PROVE  TasksInv'
<1>1. TasksTypeOK'
  BY Zero DEF Watch, TasksInv, TasksTypeOK, Unlocked, Free, OwnHub, Gone
<1>2. HubInv'
  BY DEF Watch, TasksInv, HubInv, TaskIds
<1>3. ProcInv'
  BY DEF Watch, TasksInv, ProcInv, Unlocked, Free, Gone
<1>4. OpInv'
  BY DEF Watch, TasksInv, OpInv, Free, Active, Unlocked, Gone
<1>5. FenceInv'
  BY DEF Watch, TasksInv, FenceInv, TasksTypeOK
<1>6. GoneInv'
  BY DEF Watch, TasksInv, GoneInv, TasksTypeOK
<1>7. workerRec'.exists => \A f \in Execs : CallerInv(f)'
  BY DEF Watch, TasksInv, CallerInv, Unlocked, Free, Gone
<1>8. ServedInv'
  BY DEF Watch, TasksInv, ServedInv
<1>9. QED BY <1>1, <1>2, <1>3, <1>4, <1>5, <1>6, <1>7, <1>8 DEF TasksInv

\* A watcher's wait fails.
LEMMA WatchFailsInv ==
  ASSUME TasksInv, NEW k \in watching, WatchFails(k)
  PROVE  TasksInv'
<1>1. TasksTypeOK'
  BY Zero DEF WatchFails, TasksInv, TasksTypeOK, Unlocked, Free
<1>2. HubInv'
  BY DEF WatchFails, TasksInv, HubInv, TaskIds
<1>3. ProcInv' /\ OpInv' /\ FenceInv' /\ GoneInv' /\ ServedInv'
      /\ (workerRec'.exists => \A f \in Execs : CallerInv(f)')
  BY DEF WatchFails, TasksInv, ProcInv, OpInv, FenceInv, GoneInv, ServedInv, CallerInv, Free,
         Active
<1>4. QED BY <1>1, <1>2, <1>3 DEF TasksInv

\* A stop, a quarantine or a removal takes the lock.
LEMMA StopBeginsInv ==
  ASSUME TasksInv, NEW why \in {"stop", "idle", "quarantine", "delete"}, StopBegins(why)
  PROVE  TasksInv'
<1>1. TasksTypeOK'
  BY DEF StopBegins, TasksInv, TasksTypeOK, TaskIds
<1>2. OpInv'
  BY DEF StopBegins, TasksInv, OpInv, TasksTypeOK, Serving, Unlocked, Free, IdleEligible,
         Active, TaskIds
<1>3. FenceInv'
  BY DEF StopBegins, TasksInv, FenceInv, TasksTypeOK
<1>4. GoneInv'
  BY DEF StopBegins, TasksInv, GoneInv
<1>5. workerRec'.exists => \A f \in Execs : CallerInv(f)'
  BY DEF StopBegins, TasksInv, CallerInv, Serving, Unlocked, Free
<1>6. HubInv' /\ ProcInv' /\ ServedInv'
  BY DEF StopBegins, TasksInv, HubInv, ProcInv, ServedInv, TaskIds
<1>7. QED BY <1>1, <1>2, <1>3, <1>4, <1>5, <1>6 DEF TasksInv

\* It ends with the task gone.
LEMMA StopEndsInv ==
  ASSUME TasksInv, StopEnds
  PROVE  TasksInv'
<1>1. TasksTypeOK'
  <2>1. vm.id \in TaskIds /\ workerRec.finished \in TaskIds
    BY DEF TasksInv, TasksTypeOK
  <2>2. PICK exists \in BOOLEAN, n \in TaskIds :
          workerRec' = [workerRec EXCEPT !.exists = exists, !.finished = n]
    BY <2>1 DEF StopEnds
  <2>3. workerRec' \in [exists : BOOLEAN, quarantined : BOOLEAN, failed : BOOLEAN,
                        recent : BOOLEAN, finished : TaskIds]
    BY <2>2 DEF TasksInv, TasksTypeOK
  <2>4. /\ execs' \in {execs, [e \in Execs |-> NoExec]} /\ jobFile' \in {jobFile, Gone}
        /\ hub' \in {0, hub}
    BY DEF StopEnds
  <2>5. execs' \in [Execs -> ExecRecs]
    <3>1. execs \in [Execs -> ExecRecs] /\ NoExec \in ExecRecs
      BY DEF TasksInv, TasksTypeOK, ExecRecs, NoExec
    <3>2. QED BY <2>4, <3>1
  <2>6. jobFile' \in [Execs -> {"none", "running", "finished"}] /\ hub' \in TaskIds
    BY <2>4, Zero DEF TasksInv, TasksTypeOK, Gone
  <2>7. vm' \in [id : TaskIds, is : {"none", "created", "running", "stopped"}]
    BY DEF TasksInv, TasksTypeOK, StopEnds
  <2>8. QED BY <2>3, <2>5, <2>6, <2>7 DEF TasksInv, TasksTypeOK, StopEnds, Free, Gone, ExecRecs
<1>2. HubInv'
  BY DEF StopEnds, TasksInv, HubInv, TaskIds
<1>3. ProcInv'
  BY DEF StopEnds, TasksInv, ProcInv, Free, Gone, NoExec
<1>4. OpInv'
  BY DEF StopEnds, TasksInv, OpInv, Free, Active
<1>5. FenceInv'
  BY DEF StopEnds, TasksInv, FenceInv, TasksTypeOK, OpInv
<1>6. GoneInv'
  BY DEF StopEnds, TasksInv, GoneInv, Free, Gone, NoExec
<1>7. workerRec'.exists => \A f \in Execs : CallerInv(f)'
  BY DEF StopEnds, TasksInv, CallerInv, OpInv, Stopping, Free, Gone, NoExec, Active
<1>8. ServedInv'
  BY DEF StopEnds, TasksInv, ServedInv
<1>9. QED BY <1>1, <1>2, <1>3, <1>4, <1>5, <1>6, <1>7, <1>8 DEF TasksInv

\* It fails.
LEMMA StopFailsInv ==
  ASSUME TasksInv, StopFails
  PROVE  TasksInv'
<1>1. TasksTypeOK'
  BY Zero DEF StopFails, TasksInv, TasksTypeOK, Stopping, Free
<1>2. HubInv'
  BY DEF StopFails, TasksInv, HubInv, TaskIds
<1>3. OpInv'
  BY DEF StopFails, TasksInv, OpInv, Free, Active
<1>4. FenceInv'
  BY DEF StopFails, TasksInv, FenceInv, OpInv, Stopping, Free, Active
<1>5. GoneInv'
  BY DEF StopFails, TasksInv, GoneInv, TasksTypeOK
<1>6. ServedInv'
  BY DEF StopFails, TasksInv, ServedInv, OpInv
<1>7. workerRec'.exists => \A f \in Execs : CallerInv(f)'
  BY DEF StopFails, TasksInv, CallerInv, TasksTypeOK, Stopping, Free, TaskIds
<1>8. ProcInv'
  BY DEF StopFails, TasksInv, ProcInv
<1>9. QED BY <1>1, <1>2, <1>3, <1>4, <1>5, <1>6, <1>7, <1>8 DEF TasksInv

\* An execution is created.
LEMMA CreateExecInv ==
  ASSUME TasksInv, NEW e \in Execs, CreateExec(e)
  PROVE  TasksInv'
<1>1. TasksTypeOK'
  <2>1. /\ execs' \in [Execs -> ExecRecs]
        /\ caller' \in [Execs -> {"new", "pending", "attached", "job", "gone"}]
    BY ExecTypes DEF TasksInv, TasksTypeOK, CreateExec
  <2>2. QED BY <2>1 DEF TasksInv, TasksTypeOK, CreateExec, ExecRecs
<1>2. OpInv'
  BY DEF CreateExec, TasksInv, OpInv, Free, Active, Serving, Unlocked
<1>3. FenceInv'
  BY DEF CreateExec, TasksInv, FenceInv
<1>4. GoneInv'
  BY DEF CreateExec, TasksInv, GoneInv, Serving, Unlocked, Free
<1>5. ServedInv'
  BY DEF CreateExec, TasksInv, ServedInv, Serving, Unlocked, Free
<1>6. workerRec'.exists => \A f \in Execs : CallerInv(f)'
  <2> SUFFICES ASSUME workerRec'.exists, NEW f \in Execs PROVE CallerInv(f)'
    OBVIOUS
  <2>1. CallerInv(f) /\ workerRec.exists
    BY DEF TasksInv, CreateExec
  <2>2. CASE f = e
    BY <2>1, <2>2 DEF CreateExec, TasksInv, CallerInv, TasksTypeOK, OpInv, Serving, Unlocked,
                      Free, ExecutionAllowed, TaskIds, Active
  <2>3. CASE f # e
    BY <2>1, <2>3 DEF CreateExec, TasksInv, CallerInv, TasksTypeOK, OpInv, Serving, Unlocked,
                      Free, ExecutionAllowed, TaskIds, Active
  <2>4. QED BY <2>2, <2>3
<1>7. HubInv' /\ ProcInv'
  BY DEF CreateExec, TasksInv, HubInv, ProcInv, TaskIds
<1>8. QED BY <1>1, <1>2, <1>3, <1>4, <1>5, <1>6, <1>7 DEF TasksInv

\* An execution's lease runs out.
LEMMA ExpireInv ==
  ASSUME TasksInv, NEW e \in Execs, Expire(e)
  PROVE  TasksInv'
<1>1. TasksTypeOK'
  BY DEF Expire, TasksInv, TasksTypeOK, Unlocked, Free, NoExec, TaskIds
<1>2. OpInv'
  BY DEF Expire, TasksInv, OpInv, Unlocked, Free, NoExec, Active
<1>3. GoneInv'
  BY DEF Expire, TasksInv, GoneInv
<1>4. ServedInv'
  BY DEF Expire, TasksInv, ServedInv
<1>5. workerRec'.exists => \A f \in Execs : CallerInv(f)'
  <2> SUFFICES ASSUME workerRec'.exists, NEW f \in Execs PROVE CallerInv(f)'
    OBVIOUS
  <2>1. CallerInv(f) /\ workerRec.exists
    BY DEF TasksInv, Expire
  <2>2. CASE f = e
    BY <2>1, <2>2 DEF Expire, TasksInv, CallerInv, TasksTypeOK, OpInv, Unlocked, Free, NoExec,
                      TaskIds, Active
  <2>3. CASE f # e
    BY <2>1, <2>3 DEF Expire, TasksInv, CallerInv, TasksTypeOK, OpInv, Unlocked, Free, NoExec,
                      TaskIds, Active
  <2>4. QED BY <2>2, <2>3
<1>6. HubInv' /\ ProcInv' /\ FenceInv'
  BY DEF Expire, TasksInv, HubInv, ProcInv, FenceInv, TaskIds
<1>7. QED BY <1>1, <1>2, <1>3, <1>4, <1>5, <1>6 DEF TasksInv

\* The client leaves.
LEMMA ClientLeavesInv ==
  ASSUME TasksInv, NEW e \in Execs, ClientLeaves(e)
  PROVE  TasksInv'
<1>1. TasksTypeOK'
  BY DEF ClientLeaves, TasksInv, TasksTypeOK, TaskIds
<1>2. ServedInv'
  BY DEF ClientLeaves, TasksInv, ServedInv
<1>3. workerRec'.exists => \A f \in Execs : CallerInv(f)'
  BY DEF ClientLeaves, TasksInv, CallerInv
<1>4. HubInv' /\ ProcInv' /\ OpInv' /\ FenceInv' /\ GoneInv'
  BY DEF ClientLeaves, TasksInv, HubInv, ProcInv, OpInv, FenceInv, GoneInv, TaskIds, Free,
         Active
<1>5. QED BY <1>1, <1>2, <1>3, <1>4 DEF TasksInv

\* A stream is admitted.
LEMMA StreamBeginsInv ==
  ASSUME TasksInv, NEW e \in Execs, StreamBegins(e)
  PROVE  TasksInv'
<1>1. TasksTypeOK'
  BY DEF StreamBegins, TasksInv, TasksTypeOK, TaskIds
<1>2. OpInv'
  BY DEF StreamBegins, TasksInv, OpInv, Startable, Serving, Unlocked, Free, ExecutionAllowed,
         Active
<1>3. GoneInv'
  BY DEF StreamBegins, TasksInv, GoneInv, Startable, Serving, Unlocked, Free, ExecutionAllowed
<1>4. ServedInv'
  BY DEF StreamBegins, TasksInv, ServedInv, Startable, Serving, Unlocked, Free, ExecutionAllowed
<1>5. workerRec'.exists => \A f \in Execs : CallerInv(f)'
  BY DEF StreamBegins, TasksInv, CallerInv, TasksTypeOK
<1>6. HubInv' /\ ProcInv' /\ FenceInv'
  BY DEF StreamBegins, TasksInv, HubInv, ProcInv, FenceInv, TaskIds
<1>7. QED BY <1>1, <1>2, <1>3, <1>4, <1>5, <1>6 DEF TasksInv

\* The stream's process runs, outside the lock.
LEMMA StreamRunsInv ==
  ASSUME TasksInv, NEW e \in Execs, StreamRuns(e)
  PROVE  TasksInv'
<1>1. TasksTypeOK'
  BY DEF StreamRuns, TasksInv, TasksTypeOK, RunProcess, TaskIds
<1>2. ProcInv'
  BY DEF StreamRuns, TasksInv, ProcInv, RunProcess
<1>3. workerRec'.exists => \A f \in Execs : CallerInv(f)'
  BY DEF StreamRuns, TasksInv, CallerInv, TasksTypeOK, OpInv, ProcInv, FenceInv, GoneInv,
         ServedInv, HubInv, RunProcess, TaskIds, Free, Active
<1>4. HubInv' /\ OpInv' /\ FenceInv' /\ GoneInv' /\ ServedInv'
  BY DEF StreamRuns, TasksInv, HubInv, OpInv, FenceInv, GoneInv, ServedInv, TaskIds, Free,
         Active
<1>5. QED BY <1>1, <1>2, <1>3, <1>4 DEF TasksInv

\* The stream ends.
LEMMA StreamEndsInv ==
  ASSUME TasksInv, NEW e \in Execs, StreamEnds(e)
  PROVE  TasksInv'
<1>1. TasksTypeOK'
  BY DEF StreamEnds, TasksInv, TasksTypeOK, TaskIds
<1>2. ProcInv'
  BY DEF StreamEnds, TasksInv, ProcInv, TasksTypeOK
<1>3. ServedInv'
  BY DEF StreamEnds, TasksInv, ServedInv
<1>4. workerRec'.exists => \A f \in Execs : CallerInv(f)'
  BY DEF StreamEnds, TasksInv, CallerInv, TasksTypeOK
<1>5. HubInv' /\ OpInv' /\ FenceInv' /\ GoneInv'
  BY DEF StreamEnds, TasksInv, HubInv, OpInv, FenceInv, GoneInv, TaskIds, Free, Active
<1>6. QED BY <1>1, <1>2, <1>3, <1>4, <1>5 DEF TasksInv

\* The handler records that.
LEMMA StreamSettlesInv ==
  ASSUME TasksInv, NEW e \in Execs, StreamSettles(e)
  PROVE  TasksInv'
<1>1. TasksTypeOK'
  <2>1. /\ execs' \in [Execs -> ExecRecs]
        /\ caller' \in [Execs -> {"new", "pending", "attached", "job", "gone"}]
        /\ stream' \in [Execs -> {"none", "checked", "settle"}]
    BY ExecTypes DEF TasksInv, TasksTypeOK, StreamSettles
  <2>2. QED BY <2>1 DEF TasksInv, TasksTypeOK, StreamSettles, ExecRecs
<1>2. OpInv'
  BY DEF StreamSettles, TasksInv, OpInv, Unlocked, Free, Active
<1>3. FenceInv'
  BY DEF StreamSettles, TasksInv, FenceInv
<1>4. GoneInv'
  BY DEF StreamSettles, TasksInv, GoneInv
<1>5. ServedInv'
  BY DEF StreamSettles, TasksInv, ServedInv
<1>6. workerRec'.exists => \A f \in Execs : CallerInv(f)'
  BY DEF StreamSettles, TasksInv, CallerInv, TasksTypeOK
<1>7. HubInv' /\ ProcInv'
  BY DEF StreamSettles, TasksInv, HubInv, ProcInv, TaskIds
<1>8. QED BY <1>1, <1>2, <1>3, <1>4, <1>5, <1>6, <1>7 DEF TasksInv

\* A job is recorded.
LEMMA JobBeginsInv ==
  ASSUME TasksInv, NEW e \in Execs, JobBegins(e)
  PROVE  TasksInv'
<1>1. TasksTypeOK'
  BY DEF JobBegins, TasksInv, TasksTypeOK, TaskIds
<1>2. OpInv'
  BY DEF JobBegins, TasksInv, OpInv, TasksTypeOK, Startable, Serving, Unlocked, Free,
         ExecutionAllowed, Active, TaskIds
<1>3. FenceInv'
  BY DEF JobBegins, TasksInv, FenceInv
<1>4. GoneInv'
  BY DEF JobBegins, TasksInv, GoneInv, Startable, Serving, Unlocked, Free, ExecutionAllowed
<1>5. workerRec'.exists => \A f \in Execs : CallerInv(f)'
  BY DEF JobBegins, TasksInv, CallerInv, Startable, Serving, Unlocked, Free, ExecutionAllowed
<1>6. HubInv' /\ ProcInv' /\ ServedInv'
  BY DEF JobBegins, TasksInv, HubInv, ProcInv, ServedInv, TaskIds
<1>7. QED BY <1>1, <1>2, <1>3, <1>4, <1>5, <1>6 DEF TasksInv

\* It runs.
LEMMA JobRunsInv ==
  ASSUME TasksInv, NEW e \in Execs, JobRuns(e)
  PROVE  TasksInv'
<1>1. TasksTypeOK'
  BY DEF JobRuns, TasksInv, TasksTypeOK, RunProcess, TaskIds
<1>2. ProcInv'
  BY DEF JobRuns, TasksInv, ProcInv, RunProcess
<1>3. workerRec'.exists => \A f \in Execs : CallerInv(f)'
  BY DEF JobRuns, TasksInv, CallerInv, OpInv, RunProcess, Free, Active
<1>4. HubInv' /\ OpInv' /\ FenceInv' /\ GoneInv' /\ ServedInv'
  BY DEF JobRuns, TasksInv, HubInv, OpInv, FenceInv, GoneInv, ServedInv, TaskIds, Free, Active
<1>5. QED BY <1>1, <1>2, <1>3, <1>4 DEF TasksInv

\* The client is told.
LEMMA JobAnsweredInv ==
  ASSUME TasksInv, NEW e \in Execs, JobAnswered(e)
  PROVE  TasksInv'
<1>1. TasksTypeOK'
  BY DEF JobAnswered, TasksInv, TasksTypeOK, Free, TaskIds
<1>2. OpInv'
  BY DEF JobAnswered, TasksInv, OpInv, Free, Active
<1>3. FenceInv'
  BY DEF JobAnswered, TasksInv, FenceInv, OpInv
<1>4. ServedInv'
  BY DEF JobAnswered, TasksInv, ServedInv
<1>5. workerRec'.exists => \A f \in Execs : CallerInv(f)'
  BY DEF JobAnswered, TasksInv, CallerInv, TasksTypeOK, OpInv
<1>6. HubInv' /\ ProcInv' /\ GoneInv'
  BY DEF JobAnswered, TasksInv, HubInv, ProcInv, GoneInv, TaskIds
<1>7. QED BY <1>1, <1>2, <1>3, <1>4, <1>5, <1>6 DEF TasksInv

\* The job could not be started.
LEMMA JobFailsInv ==
  ASSUME TasksInv, NEW e \in Execs, JobFails(e)
  PROVE  TasksInv'
<1>1. TasksTypeOK'
  <2>1. /\ execs' \in [Execs -> ExecRecs]
        /\ caller' \in [Execs -> {"new", "pending", "attached", "job", "gone"}]
        /\ proc' \in [Execs -> {"none", "created", "running", "exited"}]
    BY ExecTypes DEF TasksInv, TasksTypeOK, JobFails
  <2>2. QED BY <2>1 DEF TasksInv, TasksTypeOK, JobFails, ExecRecs, Free
<1>2. ProcInv'
  BY DEF JobFails, TasksInv, ProcInv, TasksTypeOK
<1>3. OpInv'
  BY DEF JobFails, TasksInv, OpInv, Free, Active
<1>4. FenceInv'
  BY DEF JobFails, TasksInv, FenceInv, OpInv
<1>5. GoneInv'
  BY DEF JobFails, TasksInv, GoneInv
<1>6. ServedInv'
  BY DEF JobFails, TasksInv, ServedInv
<1>7. workerRec'.exists => \A f \in Execs : CallerInv(f)'
  <2> SUFFICES ASSUME workerRec'.exists, NEW f \in Execs PROVE CallerInv(f)'
    OBVIOUS
  <2>1. CallerInv(f) /\ workerRec.exists
    BY DEF TasksInv, JobFails
  <2>2. CASE f = e
    BY <2>1, <2>2 DEF JobFails, TasksInv, CallerInv, TasksTypeOK, OpInv, Free, TaskIds, Active
  <2>3. CASE f # e
    BY <2>1, <2>3 DEF JobFails, TasksInv, CallerInv, TasksTypeOK, OpInv, Free, TaskIds, Active
  <2>4. QED BY <2>2, <2>3
<1>8. HubInv'
  BY DEF JobFails, TasksInv, HubInv, TaskIds
<1>9. QED BY <1>1, <1>2, <1>3, <1>4, <1>5, <1>6, <1>7, <1>8 DEF TasksInv

\* A process ends.
LEMMA ProcessEndsInv ==
  ASSUME TasksInv, NEW e \in Execs, ProcessEnds(e)
  PROVE  TasksInv'
<1>1. TasksTypeOK'
  BY DEF ProcessEnds, TasksInv, TasksTypeOK, TaskIds
<1>2. ProcInv'
  BY DEF ProcessEnds, TasksInv, ProcInv
<1>3. workerRec'.exists => \A f \in Execs : CallerInv(f)'
  BY DEF ProcessEnds, TasksInv, CallerInv
<1>4. HubInv' /\ OpInv' /\ FenceInv' /\ GoneInv' /\ ServedInv'
  BY DEF ProcessEnds, TasksInv, HubInv, OpInv, FenceInv, GoneInv, ServedInv, TaskIds, Free,
         Active
<1>5. QED BY <1>1, <1>2, <1>3, <1>4 DEF TasksInv

\* A job's watcher records its end, if the job is still listed.
LEMMA WatchJobInv ==
  ASSUME TasksInv, NEW e \in Execs, WatchJob(e)
  PROVE  TasksInv'
<1>1. TasksTypeOK'
  <2>1. execs' \in [Execs -> ExecRecs]
    <3>1. execs' \in {execs, [execs EXCEPT ![e].running = FALSE]}
      BY DEF WatchJob
    <3>2. execs \in [Execs -> ExecRecs]
      BY DEF TasksInv, TasksTypeOK, ExecRecs
    <3>3. QED BY <3>1, <3>2, ExecTypes DEF TasksInv
  <2>2. /\ proc' \in [Execs -> {"none", "created", "running", "exited"}]
        /\ jobFile' \in [Execs -> {"none", "running", "finished"}]
    <3>1. /\ proc' \in {proc, [proc EXCEPT ![e] = "none"]}
          /\ jobFile' \in {jobFile, [jobFile EXCEPT ![e] = "finished"]}
      BY DEF WatchJob
    <3>2. QED BY <3>1 DEF TasksInv, TasksTypeOK
  <2>3. workerRec' \in [exists : BOOLEAN, quarantined : BOOLEAN, failed : BOOLEAN,
                        recent : BOOLEAN, finished : TaskIds]
    BY DEF TasksInv, TasksTypeOK, WatchJob
  <2>4. QED BY <2>1, <2>2, <2>3 DEF TasksInv, TasksTypeOK, WatchJob, ExecRecs
<1>2. ProcInv'
  BY DEF WatchJob, TasksInv, ProcInv, TasksTypeOK
<1>3. OpInv'
  BY DEF WatchJob, TasksInv, OpInv, Free, Active, Unlocked
<1>4. FenceInv'
  BY DEF WatchJob, TasksInv, FenceInv, TasksTypeOK
<1>5. GoneInv'
  BY DEF WatchJob, TasksInv, GoneInv, TasksTypeOK, Unlocked, Free, StillListed, TaskIds
<1>6. workerRec'.exists => \A f \in Execs : CallerInv(f)'
  <2> SUFFICES ASSUME workerRec'.exists, NEW f \in Execs PROVE CallerInv(f)'
    OBVIOUS
  <2>1. CASE ~StillListed(e)
    BY <2>1 DEF TasksInv, WatchJob, CallerInv, Unlocked, Free
  <2>2. CASE StillListed(e)
    <3>1. workerRec.exists /\ CallerInv(f) /\ CallerInv(e)
      BY <2>2 DEF WatchJob, TasksInv, TasksTypeOK
    <3>2. /\ UNCHANGED <<op, stream, caller, server>> /\ op = Free
          /\ execs' = [execs EXCEPT ![e].running = FALSE]
          /\ jobFile' \in {jobFile, [jobFile EXCEPT ![e] = "finished"]}
          /\ proc' = [proc EXCEPT ![e] = "none"]
      BY <2>2 DEF WatchJob, Unlocked
    <3>3. execs[e].kind = "job"
      BY <2>2 DEF StillListed
    <3>4. /\ execs \in [Execs -> ExecRecs] /\ proc'[e] = "none"
          /\ jobFile \in [Execs -> {"none", "running", "finished"}] /\ DOMAIN proc = Execs
      BY <3>2 DEF TasksInv, TasksTypeOK, ExecRecs
    <3>5. CASE f = e
      BY <3>1, <3>2, <3>3, <3>4, <3>5 DEF CallerInv, Free, ExecRecs
    <3>6. CASE f # e
      BY <3>1, <3>2, <3>4, <3>6 DEF CallerInv
    <3>7. QED BY <3>5, <3>6
  <2>3. QED BY <2>1, <2>2
<1>7. HubInv' /\ ServedInv'
  BY DEF WatchJob, TasksInv, HubInv, ServedInv, TaskIds
<1>8. QED BY <1>1, <1>2, <1>3, <1>4, <1>5, <1>6, <1>7 DEF TasksInv

\* The node dies.
LEMMA ServerDiesInv ==
  ASSUME TasksInv, ServerDies
  PROVE  TasksInv'
<1>1. TasksTypeOK'
  BY Zero DEF ServerDies, TasksInv, TasksTypeOK, Free, NoExec, Gone
<1>2. HubInv'
  BY DEF ServerDies, TasksInv, HubInv, TaskIds
<1>3. ProcInv'
  BY DEF ServerDies, TasksInv, ProcInv
<1>4. OpInv'
  BY DEF ServerDies, TasksInv, OpInv, Free, Active
<1>5. FenceInv'
  BY DEF ServerDies, TasksInv, FenceInv
<1>6. GoneInv'
  BY DEF ServerDies, TasksInv, GoneInv, Free, NoExec, Gone
<1>7. ServedInv'
  BY DEF ServerDies, TasksInv, ServedInv, Free, NoExec, Gone
<1>8. workerRec'.exists => \A f \in Execs : CallerInv(f)'
  BY DEF ServerDies, TasksInv, CallerInv, Free, NoExec, Gone
<1>9. QED BY <1>1, <1>2, <1>3, <1>4, <1>5, <1>6, <1>7, <1>8 DEF TasksInv

\* It opens.
LEMMA ServerOpensInv ==
  ASSUME TasksInv, ServerOpens
  PROVE  TasksInv'
<1>1. TasksTypeOK'
  BY DEF ServerOpens, TasksInv, TasksTypeOK, Free, TaskIds
<1>2. OpInv'
  BY DEF ServerOpens, TasksInv, OpInv, Free, Active
<1>3. FenceInv'
  BY DEF ServerOpens, TasksInv, FenceInv
<1>4. ServedInv'
  BY DEF ServerOpens, TasksInv, ServedInv
<1>5. workerRec'.exists => \A f \in Execs : CallerInv(f)'
  BY DEF ServerOpens, TasksInv, CallerInv, OpInv
<1>6. HubInv' /\ ProcInv' /\ GoneInv'
  BY DEF ServerOpens, TasksInv, HubInv, ProcInv, GoneInv, TaskIds
<1>7. QED BY <1>1, <1>2, <1>3, <1>4, <1>5, <1>6 DEF TasksInv

\* It has recovered what it found.
LEMMA ServerReadyInv ==
  ASSUME TasksInv, ServerReady
  PROVE  TasksInv'
<1>1. TasksTypeOK'
  BY Zero DEF ServerReady, TasksInv, TasksTypeOK, Free, Retained, StillRuns, NoExec
<1>2. HubInv'
  BY DEF ServerReady, TasksInv, HubInv, TaskIds
<1>3. OpInv'
  BY DEF ServerReady, TasksInv, OpInv, Free, Active
<1>4. FenceInv'
  BY DEF ServerReady, TasksInv, FenceInv, Free, NoExec
<1>5. GoneInv'
  BY DEF ServerReady, TasksInv, GoneInv, Free, Retained, StillRuns, NoExec
<1>6. ServedInv'
  BY DEF ServerReady, TasksInv, ServedInv
<1>7. workerRec'.exists => \A f \in Execs : CallerInv(f)'
  BY DEF ServerReady, TasksInv, CallerInv, TasksTypeOK, OpInv, ProcInv, FenceInv, GoneInv,
         ServedInv, HubInv, Free, Retained, StillRuns, NoExec, TaskIds, Active
<1>8. ProcInv'
  BY DEF ServerReady, TasksInv, ProcInv
<1>9. QED BY <1>1, <1>2, <1>3, <1>4, <1>5, <1>6, <1>7, <1>8 DEF TasksInv

\* Opening fails.
LEMMA OpenFailsInv ==
  ASSUME TasksInv, OpenFails
  PROVE  TasksInv'
<1>1. TasksTypeOK'
  BY DEF OpenFails, TasksInv, TasksTypeOK, Free, TaskIds
<1>2. OpInv'
  BY DEF OpenFails, TasksInv, OpInv, Free, Active
<1>3. FenceInv'
  BY DEF OpenFails, TasksInv, FenceInv
<1>4. ServedInv'
  BY DEF OpenFails, TasksInv, ServedInv
<1>5. workerRec'.exists => \A f \in Execs : CallerInv(f)'
  BY DEF OpenFails, TasksInv, CallerInv, OpInv
<1>6. HubInv' /\ ProcInv' /\ GoneInv'
  BY DEF OpenFails, TasksInv, HubInv, ProcInv, GoneInv, TaskIds
<1>7. QED BY <1>1, <1>2, <1>3, <1>4, <1>5, <1>6 DEF TasksInv

\* Time passes.
LEMMA QuietInv ==
  ASSUME TasksInv, Quiet
  PROVE  TasksInv'
<1>1. TasksTypeOK'
  BY DEF Quiet, TasksInv, TasksTypeOK, TaskIds
<1>2. OpInv'
  BY DEF Quiet, TasksInv, OpInv, Free, Active
<1>3. FenceInv'
  BY DEF Quiet, TasksInv, FenceInv
<1>4. GoneInv'
  BY DEF Quiet, TasksInv, GoneInv
<1>5. workerRec'.exists => \A f \in Execs : CallerInv(f)'
  BY DEF Quiet, TasksInv, CallerInv
<1>6. HubInv' /\ ProcInv' /\ ServedInv'
  BY DEF Quiet, TasksInv, HubInv, ProcInv, ServedInv, TaskIds
<1>7. QED BY <1>1, <1>2, <1>3, <1>4, <1>5, <1>6 DEF TasksInv

\* Every step keeps the invariant.
LEMMA TasksNextInv == TasksInv /\ [TasksNext]_tasksVars => TasksInv'
<1> SUFFICES ASSUME TasksInv, [TasksNext]_tasksVars PROVE TasksInv'
  OBVIOUS
<1>1. CASE \/ StartBegins \/ StartRuns \/ StartEnds \/ StartFails \/ TaskEnds
           \/ StopEnds \/ StopFails \/ ServerDies \/ ServerOpens \/ ServerReady \/ OpenFails
           \/ Quiet
  BY <1>1, StartBeginsInv, StartRunsInv, StartEndsInv, StartFailsInv, TaskEndsInv, StopEndsInv,
     StopFailsInv, ServerDiesInv, ServerOpensInv, ServerReadyInv, OpenFailsInv, QuietInv
<1>2. ASSUME NEW k \in watching, Watch(k) \/ WatchFails(k) PROVE TasksInv'
  BY <1>2, WatchInv, WatchFailsInv
<1>3. ASSUME NEW why \in {"stop", "idle", "quarantine", "delete"}, StopBegins(why)
      PROVE  TasksInv'
  BY <1>3, StopBeginsInv
<1>4. ASSUME NEW e \in Execs,
             \/ CreateExec(e) \/ Expire(e) \/ ClientLeaves(e)
             \/ StreamBegins(e) \/ StreamRuns(e) \/ StreamEnds(e) \/ StreamSettles(e)
             \/ JobBegins(e) \/ JobRuns(e) \/ JobAnswered(e) \/ JobFails(e)
             \/ ProcessEnds(e) \/ WatchJob(e)
      PROVE  TasksInv'
  BY <1>4, CreateExecInv, ExpireInv, ClientLeavesInv, StreamBeginsInv, StreamRunsInv,
     StreamEndsInv, StreamSettlesInv, JobBeginsInv, JobRunsInv, JobAnsweredInv, JobFailsInv,
     ProcessEndsInv, WatchJobInv
<1>5. CASE UNCHANGED tasksVars
  BY <1>5 DEF tasksVars, TasksInv, TasksTypeOK, HubInv, ProcInv, OpInv, FenceInv, GoneInv,
              ServedInv, CallerInv, Active
<1>6. QED BY <1>1, <1>2, <1>3, <1>4, <1>5 DEF TasksNext

\* The invariant holds in every state of a worker's tasks.
THEOREM TasksInvHolds == TasksSpec => []TasksInv
  BY TasksInitInv, TasksNextInv, PTL DEF TasksSpec

\* Once a quarantine is answered nothing runs in the worker again.
THEOREM QuarantineHolds == TasksSpec => []QuarantineEndsWork
<1>1. TasksInv => QuarantineEndsWork
  BY DEF TasksInv, FenceInv, ProcInv, QuarantineEndsWork
<1>2. QED BY <1>1, TasksInvHolds, PTL

\* The idle stop takes no worker in which a client holds an execution.
THEOREM IdleStopHolds == TasksSpec => []IdleStopSparesWork
<1>1. TasksInv => IdleStopSparesWork
  <2> SUFFICES ASSUME TasksInv, op.do = "idle", NEW e \in Execs
               PROVE  /\ caller[e] \notin {"pending", "attached"}
                      /\ caller[e] = "job" => proc[e] # "running"
    BY DEF IdleStopSparesWork
  <2>1. CallerInv(e) /\ ~Active(e)
    BY DEF TasksInv, OpInv
  <2>2. server = "up"
    BY DEF TasksInv, OpInv, TasksTypeOK
  <2>3. QED BY <2>1, <2>2 DEF CallerInv, Active
<1>2. QED BY <1>1, TasksInvHolds, PTL

\* Nothing brings back the directory of a deleted worker.
THEOREM DeletionHolds == TasksSpec => []DeletedLeavesNothing
<1>1. TasksInv => DeletedLeavesNothing
  BY DEF TasksInv, GoneInv, DeletedLeavesNothing
<1>2. QED BY <1>1, TasksInvHolds, PTL

\* An exit that is recorded is that of the latest task.
LEMMA ExitSteps ==
  ASSUME TasksInv, [TasksNext]_tasksVars
  PROVE  workerRec'.finished # workerRec.finished => workerRec'.finished \in {0, vm.id}
<1>1. CASE \E k \in watching : Watch(k)
  BY <1>1 DEF TasksInv, TasksTypeOK, HubInv, Watch, OwnHub
<1>2. CASE StartEnds \/ StartFails \/ StopEnds \/ StopFails
  <2>1. DOMAIN workerRec = {"exists", "quarantined", "failed", "recent", "finished"}
    BY DEF TasksInv, TasksTypeOK
  <2>2. CASE StartEnds
    BY <2>1, <2>2 DEF StartEnds
  <2>3. CASE StartFails
    BY <2>1, <2>3 DEF StartFails
  <2>4. CASE StopEnds
    BY <2>1, <2>4 DEF StopEnds
  <2>5. CASE StopFails
    BY <2>1, <2>5 DEF StopFails
  <2>6. QED BY <1>2, <2>2, <2>3, <2>4, <2>5
<1>3. CASE \/ Quiet \/ \E why \in {"stop", "idle", "quarantine", "delete"} : StopBegins(why)
           \/ \E e \in Execs : CreateExec(e) \/ StreamSettles(e) \/ WatchJob(e)
  BY <1>3 DEF TasksInv, TasksTypeOK, Quiet, StopBegins, CreateExec, StreamSettles, WatchJob
<1>4. CASE UNCHANGED workerRec
  BY <1>4
<1>5. QED
  BY <1>1, <1>2, <1>3, <1>4
  DEF TasksNext, tasksVars, StartBegins, StartRuns, TaskEnds, WatchFails, Expire, ClientLeaves,
      StreamBegins, StreamRuns, StreamEnds, JobBegins, JobRuns, JobAnswered, JobFails,
      ProcessEnds, ServerDies, ServerOpens, ServerReady, OpenFails

\* No watcher of an earlier task ever records its exit.
THEOREM ExitHolds == TasksSpec => ExitIsOfLatestTask
<1>1. TasksInv /\ [TasksNext]_tasksVars =>
        [workerRec'.finished # workerRec.finished =>
           workerRec'.finished \in {0, vm.id}]_tasksVars
  BY ExitSteps
<1>2. QED BY <1>1, TasksInvHolds, PTL DEF TasksSpec, ExitIsOfLatestTask
=============================================================================
