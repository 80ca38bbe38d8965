---------------------------- MODULE EngineTasks ----------------------------
(***************************************************************************)
(* What runs in one worker (internal/engine backend.go start and stop,     *)
(* quarantine.go, recovery.go, streams.go, jobs.go, activity.go): its      *)
(* task, the goroutine that watches it, streaming executions and           *)
(* background jobs.                                                        *)
(*                                                                         *)
(* Backend.mu is held by a whole start, stop or job start (op); a stream   *)
(* checks under it and executes after releasing it.  The task and its      *)
(* processes live in containerd, and survive the node.                     *)
(***************************************************************************)
EXTENDS Naturals

CONSTANTS Execs,
          MaxTasks   \* bound: tasks created for the worker

ASSUME TasksAssumption == MaxTasks \in Nat

VARIABLES
  workerRec, \* tasks/ID/record.json; finished: the task whose exit it holds
  vm,        \* containerd's task: the last one made, and its state
  hub,       \* hubs[ID], by the task it belongs to; 0: none
  watching,  \* tasks with a watch goroutine
  op,        \* the handler inside b.mu
  execs,     \* b.execs
  jobFile,   \* jobs/EID/job.json
  proc,      \* an execution's process in the task
  stream,    \* where an execution's streaming handler is
  jobWatch,  \* jobs with a watchJob goroutine
  caller,    \* what the client that created an execution knows of it
  server,    \* the node
  fenced     \* a quarantine was answered, or completed by a restart

tasksVars == <<workerRec, vm, hub, watching, op, execs, jobFile, proc, stream,
               jobWatch, caller, server, fenced>>

TaskIds == 0..MaxTasks
Free == [do |-> "none", on |-> "none"]

TasksTypeOK ==
  /\ workerRec \in [exists : BOOLEAN, quarantined : BOOLEAN, failed : BOOLEAN,
                    recent : BOOLEAN, finished : TaskIds]
  /\ vm \in [id : TaskIds, is : {"none", "created", "running", "stopped"}]
  /\ hub \in TaskIds /\ watching \subseteq TaskIds
  /\ op \in [do : {"none", "start", "stop", "idle", "quarantine", "delete",
                   "recover", "job"}, on : Execs \cup {"none"}]
  /\ execs \in [Execs -> [kind : {"none", "pending", "stream", "job"}, running : BOOLEAN]]
  /\ jobFile \in [Execs -> {"none", "running", "finished"}]
  /\ proc \in [Execs -> {"none", "created", "running", "exited"}]
  /\ stream \in [Execs -> {"none", "checked", "settle"}]
  /\ jobWatch \subseteq Execs
  /\ caller \in [Execs -> {"new", "pending", "attached", "job", "gone"}]
  /\ server \in {"down", "opening", "up"} /\ fenced \in BOOLEAN

NoExec == [kind |-> "none", running |-> FALSE]

TasksInit ==
  /\ workerRec = [exists |-> TRUE, quarantined |-> FALSE, failed |-> FALSE,
                  recent |-> FALSE, finished |-> 0]
  /\ vm = [id |-> 0, is |-> "none"] /\ hub = 0 /\ watching = {} /\ op = Free
  /\ execs = [e \in Execs |-> NoExec] /\ jobFile = [e \in Execs |-> "none"]
  /\ proc = [e \in Execs |-> "none"] /\ stream = [e \in Execs |-> "none"]
  /\ jobWatch = {} /\ caller = [e \in Execs |-> "new"]
  /\ server = "up" /\ fenced = FALSE

-----------------------------------------------------------------------------
\* b.mu is free; a request is served only once Open has returned.
Unlocked == op = Free /\ server = "up"
Serving == Unlocked /\ workerRec.exists

Dead(ps) == [e \in Execs |-> IF ps[e] \in {"created", "running"} THEN "exited" ELSE ps[e]]
Gone == [e \in Execs |-> "none"]

\* Mutant: a quarantined worker is executed in like any other.
ExecutionAllowed_Anyway == TRUE

ExecutionAllowed == ~workerRec.quarantined

\* activeExecutions.
Active(e) == execs[e].kind = "pending" \/ execs[e].running

IdleEligible == ~workerRec.recent /\ \A e \in Execs : ~Active(e)

-----------------------------------------------------------------------------
Stopping == op.do \in {"stop", "idle", "quarantine", "delete", "recover"}

\* start: an exited task is deleted, NewTask makes the next one.
StartBegins ==
  /\ Serving /\ ExecutionAllowed /\ vm.is \in {"none", "stopped"} /\ vm.id < MaxTasks
  /\ op' = [do |-> "start", on |-> "none"] /\ hub' = 0
  /\ vm' = [id |-> vm.id + 1, is |-> "created"] /\ proc' = Gone
  /\ UNCHANGED <<workerRec, watching, execs, jobFile, stream, jobWatch, caller,
                 server, fenced>>

StartRuns ==
  /\ op.do = "start" /\ vm.is = "created"
  /\ vm' = [vm EXCEPT !.is = "running"] /\ hub' = vm.id
  /\ UNCHANGED <<workerRec, watching, op, execs, jobFile, proc, stream, jobWatch,
                 caller, server, fenced>>

StartEnds ==
  /\ op.do = "start" /\ vm.is \in {"running", "stopped"}
  /\ workerRec' = [workerRec EXCEPT !.failed = FALSE, !.recent = TRUE, !.finished = 0]
  /\ watching' = watching \cup {vm.id} /\ op' = Free
  /\ UNCHANGED <<vm, hub, execs, jobFile, proc, stream, jobWatch, caller, server, fenced>>

\* failedStart: if the failure cannot be saved the task is left as it is, and
\* abortTask may leave it for a retry.
StartFails ==
  /\ op.do = "start" /\ op' = Free /\ hub' = 0
  /\ \/ UNCHANGED <<workerRec, vm, proc>>
     \/ /\ workerRec' = [workerRec EXCEPT !.failed = TRUE, !.finished = vm.id]
        /\ \/ UNCHANGED <<vm, proc>>
           \/ vm' = [vm EXCEPT !.is = "none"] /\ proc' = Gone
  /\ UNCHANGED <<watching, execs, jobFile, stream, jobWatch, caller, server, fenced>>

\* The task exits, killed or by itself, and its processes with it.
TaskEnds ==
  /\ vm.is \in {"running"} \cup (IF Stopping THEN {"created"} ELSE {})
  /\ vm' = [vm EXCEPT !.is = "stopped"] /\ proc' = Dead(proc)
  /\ UNCHANGED <<workerRec, hub, watching, op, execs, jobFile, stream, jobWatch,
                 caller, server, fenced>>

\* Mutant: watch acts on whatever hub the worker has now.
OwnHub_Any(k) == hub # 0

\* watch's check that the hub is still the one of its task.
OwnHub(k) == hub = k

\* watch, once its task ended: record, hub, task.
Watch(k) ==
  /\ Unlocked /\ k \in watching /\ watching' = watching \ {k}
  /\ k = vm.id => vm.is \in {"stopped", "none"}
  /\ IF ~OwnHub(k) THEN UNCHANGED <<workerRec, hub, vm, proc>>
     ELSE /\ hub' = 0
          /\ workerRec' = IF workerRec.exists THEN [workerRec EXCEPT !.finished = k]
                          ELSE workerRec
          /\ \/ UNCHANGED <<vm, proc>>
             \/ vm.is = "stopped" /\ vm' = [vm EXCEPT !.is = "none"] /\ proc' = Gone
  /\ UNCHANGED <<op, execs, jobFile, stream, jobWatch, caller, server, fenced>>

\* The wait fails: nothing is recorded.
WatchFails(k) ==
  /\ Unlocked /\ k \in watching /\ watching' = watching \ {k}
  /\ hub' = IF hub = k THEN 0 ELSE hub
  /\ UNCHANGED <<workerRec, vm, op, execs, jobFile, proc, stream, jobWatch, caller,
                 server, fenced>>

-----------------------------------------------------------------------------
\* stop, idle-stop, quarantine (denial is saved first), and DELETE.
StopBegins(why) ==
  /\ Serving
  /\ why = "idle" => IdleEligible
  /\ op' = [do |-> why, on |-> "none"]
  /\ workerRec' = [workerRec EXCEPT !.quarantined = @ \/ why = "quarantine"]
  /\ UNCHANGED <<vm, hub, watching, execs, jobFile, proc, stream, jobWatch, caller,
                 server, fenced>>

\* stop's success, after the wait or when there is no task; DELETE goes on to
\* drop the executions and the directory, unless a later step of it fails.
StopEnds ==
  /\ Stopping /\ op' = Free
  /\ workerRec.failed \/ vm.is \in {"none", "stopped"}
  /\ vm' = [vm EXCEPT !.is = "none"] /\ proc' = Gone
  /\ fenced' = (fenced \/ op.do = "quarantine")
  /\ LET exited == vm.is = "stopped" /\ ~workerRec.failed IN
       /\ hub' = IF exited THEN 0 ELSE hub
       /\ \E exists \in BOOLEAN :
            /\ exists \/ op.do = "delete"
            /\ workerRec' = [workerRec EXCEPT !.exists = exists,
                               !.finished = IF exited THEN vm.id ELSE @]
            /\ IF exists THEN UNCHANGED <<execs, jobFile>>
               ELSE execs' = [e \in Execs |-> NoExec] /\ jobFile' = Gone
  /\ UNCHANGED <<watching, stream, jobWatch, caller, server>>

\* An error at any point; the exit may already be saved.
StopFails ==
  /\ Stopping /\ op' = Free
  /\ \/ UNCHANGED <<workerRec, hub>>
     \/ /\ vm.is = "stopped" /\ ~workerRec.failed /\ hub' = 0
        /\ workerRec' = [workerRec EXCEPT !.finished = vm.id]
  /\ server' = IF op.do = "recover" THEN "down" ELSE server
  /\ UNCHANGED <<vm, watching, execs, jobFile, proc, stream, jobWatch, caller, fenced>>

-----------------------------------------------------------------------------
\* POST exec: the id, kept for ten minutes unless it is started.
CreateExec(e) ==
  /\ Serving /\ ExecutionAllowed /\ caller[e] = "new"
  /\ workerRec' = [workerRec EXCEPT !.recent = TRUE]
  /\ execs' = [execs EXCEPT ![e].kind = "pending"]
  /\ caller' = [caller EXCEPT ![e] = "pending"]
  /\ UNCHANGED <<vm, hub, watching, op, jobFile, proc, stream, jobWatch, server, fenced>>

\* The lease of an execution that was not started, or the ten minutes an ended
\* stream is kept.
Expire(e) ==
  /\ Unlocked /\ execs[e].kind \in {"pending", "stream"} /\ ~execs[e].running
  /\ execs' = [execs EXCEPT ![e] = NoExec]
  /\ caller' = [caller EXCEPT ![e] = "gone"]
  /\ UNCHANGED <<workerRec, vm, hub, watching, op, jobFile, proc, stream, jobWatch,
                 server, fenced>>

\* execHTTP start: what is checked before the lock is released.
Startable(e) ==
  /\ Serving /\ ExecutionAllowed /\ execs[e].kind = "pending" /\ vm.is # "none"

StreamBegins(e) ==
  /\ Startable(e)
  /\ execs' = [execs EXCEPT ![e] = [kind |-> "stream", running |-> TRUE]]
  /\ stream' = [stream EXCEPT ![e] = "checked"]
  /\ caller' = [caller EXCEPT ![e] = "attached"]
  /\ UNCHANGED <<workerRec, vm, hub, watching, op, jobFile, proc, jobWatch, server, fenced>>

\* containerd's Exec and Start, on the task the worker has by then.
RunProcess(e) ==
  /\ vm.is = "running"
  /\ proc' = [proc EXCEPT ![e] = IF @ = "none" THEN "created" ELSE "running"]

StreamRuns(e) ==
  /\ stream[e] = "checked" /\ proc[e] \in {"none", "created"} /\ RunProcess(e)
  /\ UNCHANGED <<workerRec, vm, hub, watching, op, execs, jobFile, stream, jobWatch,
                 caller, server, fenced>>

\* The client leaves: execStreamContext, or the write that fails, cancels.
ClientLeaves(e) ==
  /\ caller[e] \in {"pending", "attached"} /\ caller' = [caller EXCEPT ![e] = "gone"]
  /\ UNCHANGED <<workerRec, vm, hub, watching, op, execs, jobFile, proc, stream,
                 jobWatch, server, fenced>>

\* Exit, error or cancellation: the process is killed and deleted;
\* an error of that is ignored.
StreamEnds(e) ==
  /\ stream[e] = "checked"
  /\ stream' = [stream EXCEPT ![e] = "settle"]
  /\ proc' \in {proc, [proc EXCEPT ![e] = "none"]}
  /\ UNCHANGED <<workerRec, vm, hub, watching, op, execs, jobFile, jobWatch, caller,
                 server, fenced>>

\* The handler takes the lock again.
StreamSettles(e) ==
  /\ Unlocked /\ stream[e] = "settle" /\ stream' = [stream EXCEPT ![e] = "none"]
  /\ execs' = [execs EXCEPT ![e].running = FALSE]
  /\ workerRec' = [workerRec EXCEPT !.recent = @ \/ workerRec.exists]
  /\ caller' = [caller EXCEPT ![e] = "gone"]
  /\ UNCHANGED <<vm, hub, watching, op, jobFile, proc, jobWatch, server, fenced>>

-----------------------------------------------------------------------------
\* startJob, inside the lock: the file, the process, the answer.
JobBegins(e) ==
  /\ Startable(e) /\ op' = [do |-> "job", on |-> e]
  /\ execs' = [execs EXCEPT ![e] = [kind |-> "job", running |-> TRUE]]
  /\ jobFile' = [jobFile EXCEPT ![e] = "running"]
  /\ UNCHANGED <<workerRec, vm, hub, watching, proc, stream, jobWatch, caller, server,
                 fenced>>

JobRuns(e) ==
  /\ op = [do |-> "job", on |-> e] /\ proc[e] \in {"none", "created"} /\ RunProcess(e)
  /\ UNCHANGED <<workerRec, vm, hub, watching, op, execs, jobFile, stream, jobWatch,
                 caller, server, fenced>>

JobAnswered(e) ==
  /\ op = [do |-> "job", on |-> e] /\ proc[e] \in {"running", "exited"}
  /\ op' = Free /\ jobWatch' = jobWatch \cup {e}
  /\ caller' = [caller EXCEPT ![e] = IF @ = "pending" THEN "job" ELSE @]
  /\ UNCHANGED <<workerRec, vm, hub, watching, execs, jobFile, proc, stream, server, fenced>>

\* The process is deleted under the request's context, which may be the reason
\* of the failure; the file keeps saying that the job runs.
JobFails(e) ==
  /\ op = [do |-> "job", on |-> e] /\ op' = Free
  /\ execs' = [execs EXCEPT ![e].running = FALSE]
  /\ proc' \in {proc, [proc EXCEPT ![e] = "none"]}
  /\ caller' = [caller EXCEPT ![e] = "gone"]
  /\ UNCHANGED <<workerRec, vm, hub, watching, jobFile, stream, jobWatch, server, fenced>>

\* A process exits, or is killed (jobAction).
ProcessEnds(e) ==
  /\ proc[e] = "running" /\ proc' = [proc EXCEPT ![e] = "exited"]
  /\ UNCHANGED <<workerRec, vm, hub, watching, op, execs, jobFile, stream, jobWatch,
                 caller, server, fenced>>

\* Mutant: the result is saved whatever became of the job.
StillListed_Assumed(e) == TRUE

\* watchJob's check that the job was not removed with its worker.
StillListed(e) == execs[e].kind = "job"

\* watchJob: an error of the save is ignored.
WatchJob(e) ==
  /\ Unlocked /\ e \in jobWatch /\ proc[e] \in {"exited", "none"}
  /\ jobWatch' = jobWatch \ {e}
  /\ IF ~StillListed(e) THEN UNCHANGED <<workerRec, execs, jobFile, proc>>
     ELSE /\ execs' = [execs EXCEPT ![e].running = FALSE]
          /\ workerRec' = [workerRec EXCEPT !.recent = @ \/ workerRec.exists]
          /\ jobFile' \in {jobFile, [jobFile EXCEPT ![e] = "finished"]}
          /\ proc' = [proc EXCEPT ![e] = "none"]
  /\ UNCHANGED <<vm, hub, watching, op, stream, caller, server, fenced>>

-----------------------------------------------------------------------------
\* The node dies, or Close cancels the streams and waits for some of them.
ServerDies ==
  /\ server # "down" /\ server' = "down"
  /\ hub' = 0 /\ watching' = {} /\ jobWatch' = {} /\ op' = Free
  /\ execs' = [e \in Execs |-> NoExec]
  /\ stream' = Gone
  /\ \E ended \in SUBSET {e \in Execs : stream[e] = "checked"} :
       proc' = [e \in Execs |-> IF e \in ended THEN "none" ELSE proc[e]]
  /\ caller' = [e \in Execs |-> IF caller[e] \in {"pending", "attached"} THEN "gone"
                                  ELSE caller[e]]
  /\ UNCHANGED <<workerRec, vm, jobFile, fenced>>

\* recover completes the stop of a quarantined worker.
ServerOpens ==
  /\ server = "down" /\ server' = "opening"
  /\ op' = IF workerRec.exists /\ workerRec.quarantined
            THEN [do |-> "recover", on |-> "none"] ELSE Free
  /\ UNCHANGED <<workerRec, vm, hub, watching, execs, jobFile, proc, stream, jobWatch,
                 caller, fenced>>

\* Mutant: jobs are left to their shim, as streams are.
Retained_Forgotten(e) == FALSE

\* recoverJobs: the jobs on disk, and of those the ones that still run.
Retained(e) == jobFile[e] # "none"
StillRuns(e) == jobFile[e] = "running" /\ vm.is # "none" /\ proc[e] # "none"

\* recover and recoverJobs; after an error Open is tried again.
ServerReady ==
  /\ server = "opening" /\ op = Free /\ server' = "up"
  /\ IF workerRec.quarantined \/ vm.is = "none" THEN UNCHANGED <<hub, watching>>
     ELSE hub' = vm.id /\ watching' = {vm.id}
  /\ execs' = [e \in Execs |->
       IF Retained(e) THEN [kind |-> "job", running |-> StillRuns(e)] ELSE NoExec]
  /\ jobWatch' = {e \in Execs : Retained(e) /\ StillRuns(e)}
  /\ \E saved \in SUBSET {e \in Execs : Retained(e) /\ ~StillRuns(e)} :
       jobFile' = [e \in Execs |-> IF e \in saved THEN "finished" ELSE jobFile[e]]
  /\ fenced' = (fenced \/ workerRec.quarantined)
  /\ UNCHANGED <<workerRec, vm, op, proc, stream, caller>>

OpenFails ==
  /\ server = "opening" /\ server' = "down" /\ op' = Free
  /\ UNCHANGED <<workerRec, vm, hub, watching, execs, jobFile, proc, stream, jobWatch,
                 caller, fenced>>

\* Time passes: the last activity is before any cutoff.
Quiet ==
  /\ workerRec.recent /\ workerRec' = [workerRec EXCEPT !.recent = FALSE]
  /\ UNCHANGED <<vm, hub, watching, op, execs, jobFile, proc, stream, jobWatch, caller,
                 server, fenced>>

-----------------------------------------------------------------------------
TasksNext ==
  \/ StartBegins \/ StartRuns \/ StartEnds \/ StartFails \/ TaskEnds
  \/ \E k \in watching : Watch(k) \/ WatchFails(k)
  \/ \E why \in {"stop", "idle", "quarantine", "delete"} : StopBegins(why)
  \/ StopEnds \/ StopFails
  \/ \E e \in Execs : \/ CreateExec(e) \/ Expire(e) \/ ClientLeaves(e)
                      \/ StreamBegins(e) \/ StreamRuns(e) \/ StreamEnds(e) \/ StreamSettles(e)
                      \/ JobBegins(e) \/ JobRuns(e) \/ JobAnswered(e) \/ JobFails(e)
                      \/ ProcessEnds(e) \/ WatchJob(e)
  \/ ServerDies \/ ServerOpens \/ ServerReady \/ OpenFails \/ Quiet

TasksSpec == TasksInit /\ [][TasksNext]_tasksVars

-----------------------------------------------------------------------------
\* Once a quarantine is answered, or a restart has completed it, nothing runs
\* in the worker again, not even what a stream was allowed to start before
\* (quarantine.go: "Persist denial BEFORE stopping"; streams.go execHTTP).
QuarantineEndsWork ==
  fenced /\ workerRec.exists => vm.is = "none" /\ \A e \in Execs : proc[e] # "running"

\* An exit that is recorded is that of the worker's latest task, whatever
\* watchers of earlier ones are still waiting for the lock (recovery.go watch).
ExitIsOfLatestTask ==
  [][workerRec'.finished # workerRec.finished =>
       workerRec'.finished \in {0, vm.id}]_tasksVars

\* The idle stop never takes a worker in which a client still holds an
\* execution or was answered a job that runs (activity.go, jobs.go
\* recoverJobs: "detached jobs are restored before the node serves").
IdleStopSparesWork ==
  op.do = "idle" => \A e \in Execs :
    /\ caller[e] \in {"pending", "attached"} => execs[e].kind = "none"
    /\ caller[e] = "job" => proc[e] # "running" \/ vm.is # "running"

\* Nothing brings back the directory of a deleted worker: the next Open would
\* find a task that has no record (jobs.go watchJob, intents.go).
DeletedLeavesNothing ==
  ~workerRec.exists => vm.is = "none" /\ \A e \in Execs : jobFile[e] = "none"
=============================================================================
