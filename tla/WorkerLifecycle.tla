--------------------------- MODULE WorkerLifecycle ---------------------------
(***************************************************************************)
(* The lifecycle of Kata workers (sandbox/manager.go, cleanup.go,          *)
(* quarantine.go, restart_auth.go): run, start, stop, quarantine, remove   *)
(* and wait, called by Products that share a node.                         *)
(*                                                                         *)
(* All workers here are given the same name, one after the other: engine   *)
(* and network refuse a second holder of a name, the proxy keys its tokens *)
(* by it.  Every operation starts from an inspection and then takes the    *)
(* lifecycle lock of the worker's ID (a flock), except wait, which takes   *)
(* none.  Each step can fail, with or without its effect, and a Product    *)
(* can die; a request to the engine or the proxy may be handled after its  *)
(* caller gave up.                                                         *)
(***************************************************************************)
EXTENDS Naturals, FiniteSets

CONSTANTS Workers, Products, None,
          MaxCalls   \* bound: the calls that Products make

ASSUME LifecycleAssumption == None \notin Workers \cup Products /\ MaxCalls \in Nat

VARIABLES
  engine,    \* the engine's view of each worker; "waiting": in its bootstrap
  mark,      \* workers with the engine's durable quarantine label
  reserved,  \* workers with a reservation at the node
  net,       \* the worker for which the network of the name was made
  token,     \* the worker whose placeholder the proxy holds for the name
  journal,   \* workers with a removal record
  lock,      \* the Product that holds the lifecycle lock of a worker
  op,        \* what each Product is doing
  request,   \* starts at the engine and restores at the proxy, not yet handled
  answered,  \* the last success reported of each worker
  calls,     \* how many calls have begun
  late       \* the placeholder was installed after its caller had given up

nodeVars == <<engine, mark, reserved, net>>
vars == <<engine, mark, reserved, net, token, journal, lock, op, request,
          answered, late, calls>>

Kinds == {"idle", "run", "start", "stop", "quarantine", "remove", "wait"}
Steps == {"idle", "network", "reserve", "create", "lock", "check", "start",
          "starting", "verify", "restore", "restoring", "release", "answer",
          "rollback", "revoke", "stop", "quarantine", "confirm", "journal",
          "delete", "unnet", "dealloc", "forget"}
\* made: what a run has acquired (createdNetwork, allocation, createdID,
\* tokenIssued); failed: an earlier part of this operation went wrong.
Ops == [kind : Kinds, step : Steps, worker : Workers \cup {None},
        made : SUBSET {"network", "allocation", "container", "token"},
        failed : BOOLEAN]

TypeOK ==
  /\ engine \in [Workers -> {"none", "created", "waiting", "running",
                             "exited", "gone"}]
  /\ mark \subseteq Workers /\ reserved \subseteq Workers
  /\ net \in Workers \cup {None} /\ token \in Workers \cup {None}
  /\ journal \subseteq Workers /\ late \in BOOLEAN /\ calls \in 0..MaxCalls
  /\ lock \in [Workers -> Products \cup {None}]
  /\ op \in [Products -> Ops]
  /\ request \subseteq [what : {"start", "restore"}, worker : Workers]
  /\ answered \in [Workers -> {"none", "stopped", "quarantined", "removed"}]

Idle == [kind |-> "idle", step |-> "idle", worker |-> None, made |-> {},
         failed |-> FALSE]

Init ==
  /\ engine = [w \in Workers |-> "none"] /\ mark = {} /\ reserved = {}
  /\ net = None /\ token = None /\ journal = {} /\ late = FALSE /\ calls = 0
  /\ lock = [w \in Workers |-> None] /\ op = [p \in Products |-> Idle]
  /\ request = {} /\ answered = [w \in Workers |-> "none"]

Exists(w) == engine[w] \notin {"none", "gone"}
Live(w) == engine[w] \in {"waiting", "running"}
W(p) == op[p].worker

(* Moving an operation on, ending it, failing it.                           *)

Go(p, s) == op' = [op EXCEPT ![p].step = s]
Unlock(p) == lock' = [w \in Workers |-> IF lock[w] = p THEN None ELSE lock[w]]

\* Mutant: a revocation that failed is forgotten.
MayReport_Anyway(p) == TRUE
\* The errors that an operation kept while it went on are joined to its answer.
MayReport(p) == ~op[p].failed

\* An operation that ends, and its deferred unlock.
End(p) == op' = [op EXCEPT ![p] = Idle] /\ Unlock(p)
Succeed(p, what) ==
  /\ End(p)
  /\ answered' = IF MayReport(p) THEN [answered EXCEPT ![W(p)] = what]
                                  ELSE answered

\* The error paths.  A run unlocks and then undoes what it made; a start that
\* has its reservation revokes, stops and releases; the others just end.
StartHolds(p) == op[p].kind = "start"
                 /\ op[p].step \in {"start", "starting", "verify", "restore",
                                    "restoring", "release", "answer"}
OnFail(p) ==
  CASE op[p].kind = "run" -> Go(p, "rollback") /\ Unlock(p)
    [] StartHolds(p) ->
         /\ op' = [op EXCEPT ![p].step = "revoke", ![p].failed = TRUE]
         /\ UNCHANGED lock
    [] OTHER -> End(p)

-----------------------------------------------------------------------------
(* Calls and the lifecycle lock.                                            *)

\* RunContext, past its preflight checks.
BeginRun(p, w) ==
  /\ op[p] = Idle /\ calls < MaxCalls /\ calls' = calls + 1 /\ engine[w] = "none" /\ \A q \in Products : W(q) # w
  /\ op' = [op EXCEPT ![p].kind = "run", ![p].step = "network", ![p].worker = w]
  /\ UNCHANGED <<nodeVars, token, journal, lock, request, answered, late>>

\* Each other call inspects the worker before it asks for the lock; a removal
\* can also start from the record of an earlier one.
BeginCall(p, w, kind) ==
  /\ op[p] = Idle /\ calls < MaxCalls /\ calls' = calls + 1
  /\ kind \in {"start", "stop", "quarantine", "remove", "wait"}
  /\ Exists(w) \/ (kind = "remove" /\ w \in journal)
  /\ kind = "wait" => ~Live(w)
  /\ op' = [op EXCEPT ![p].kind = kind, ![p].worker = w,
                      ![p].step = IF kind = "wait" THEN "revoke" ELSE "lock"]
  /\ UNCHANGED <<nodeVars, token, journal, lock, request, answered, late>>

AfterLock(kind) == CASE kind = "run" -> "start" [] kind = "start" -> "check"
                     [] kind = "stop" -> "revoke"
                     [] kind = "quarantine" -> "quarantine"
                     [] kind = "remove" -> "journal"

\* lockCleanup polls the flock until the deadline of the call.
TakeLock(p) ==
  /\ op[p].step = "lock" /\ lock[W(p)] = None
  /\ lock' = [lock EXCEPT ![W(p)] = p]
  /\ Go(p, AfterLock(op[p].kind))
  /\ UNCHANGED <<nodeVars, token, journal, request, answered, late, calls>>

\* Mutant: the inspection made before the lock is trusted.
Startable_Stale(w) == TRUE
Startable(w) == w \notin journal \cup mark /\ Exists(w)

\* What StartContext looks at again once it has the lock.  A worker that runs
\* is verified and left alone.
Check(p) ==
  /\ op[p].step = "check"
  /\ \/ /\ Startable(W(p))
        /\ IF Live(W(p)) THEN End(p) ELSE (Go(p, "reserve") /\ UNCHANGED lock)
     \/ ~Startable(W(p)) /\ OnFail(p)
  /\ UNCHANGED <<nodeVars, token, journal, request, answered, late, calls>>

-----------------------------------------------------------------------------
(* RunContext and StartContext.  A step of a call either has its effect and *)
(* goes on, or fails with or without its effect (FailStep is the latter).   *)

\* `effect` has happened; its answer may be lost.
Answer(p, next) == (Go(p, next) /\ UNCHANGED lock) \/ OnFail(p)

CreateNetwork(p) ==
  /\ op[p].step = "network" /\ net = None
  /\ net' = W(p)
  /\ \/ op' = [op EXCEPT ![p].step = "reserve", ![p].made = {"network"}]
        /\ UNCHANGED lock
     \/ OnFail(p)
  /\ UNCHANGED <<engine, mark, reserved, token, journal, request, answered, late, calls>>

\* prepareKataBootstrap remembers the allocation before it asks for it.
Reserve(p) ==
  /\ op[p].step = "reserve"
  /\ \/ reserved' = reserved \cup {W(p)}
     \/ op[p].kind = "run" /\ UNCHANGED reserved
  /\ IF op[p].kind = "run"
     THEN /\ UNCHANGED lock
          /\ \E s \in {"rollback"} \cup (IF W(p) \in reserved' THEN {"create"} ELSE {}) :
               op' = [op EXCEPT ![p].step = s, ![p].made = @ \cup {"allocation"}]
     ELSE Answer(p, "start")
  /\ UNCHANGED <<engine, mark, net, token, journal, request, answered, late, calls>>

CreateContainer(p) ==
  /\ op[p].step = "create" /\ \A w \in Workers : ~Exists(w)
  /\ net = W(p)
  /\ engine' = [engine EXCEPT ![W(p)] = "created"]
  /\ \/ op' = [op EXCEPT ![p].step = "lock", ![p].made = @ \cup {"container"}]
        /\ UNCHANGED lock
     \/ OnFail(p)
  /\ UNCHANGED <<mark, reserved, net, token, journal, request, answered, late, calls>>

\* RunOptions.CreateOnly ends here.
ReturnCreated(p) ==
  /\ op[p].kind = "run" /\ op[p].step = "start"
  /\ End(p)
  /\ UNCHANGED <<nodeVars, token, journal, request, answered, late, calls>>

Send(p, what) == request' = request \cup {[what |-> what, worker |-> W(p)]}

ContainerStart(p) ==
  /\ op[p].step = "start"
  /\ Go(p, "starting") /\ Send(p, "start")
  /\ UNCHANGED <<nodeVars, token, journal, lock, answered, late, calls>>

\* verifyKataGuest(waiting): PID 1 is still the bootstrap.
VerifyGuest(p) ==
  /\ op[p].step = "verify" /\ engine[W(p)] = "waiting"
  /\ Go(p, "restore")
  /\ UNCHANGED <<nodeVars, token, journal, lock, request, answered, late, calls>>

RestoreWorkerToken(p) ==
  /\ op[p].step = "restore"
  /\ op' = [op EXCEPT ![p].step = "restoring", ![p].made = @ \cup {"token"}]
  /\ Send(p, "restore")
  /\ answered' = [answered EXCEPT ![W(p)] = "none"]
  /\ UNCHANGED <<nodeVars, token, journal, lock, late, calls>>

\* The guard's release in the guest: the bootstrap runs the user's command.
ReleaseGuest(p) ==
  /\ op[p].step = "release" /\ engine[W(p)] = "waiting"
  /\ engine' = [engine EXCEPT ![W(p)] = "running"]
  /\ Answer(p, "answer")
  /\ UNCHANGED <<mark, reserved, net, token, journal, request, answered, late, calls>>

\* waitEnvironment has seen the worker ready.
ReturnStarted(p) ==
  /\ op[p].step = "answer"
  /\ End(p)
  /\ UNCHANGED <<nodeVars, token, journal, request, answered, late, calls>>

\* The deferred failure path of RunContext: revoke, then a journaled removal of
\* a container it knows (a call of its own), else its network and allocation.
Rollback(p) ==
  /\ op[p].step = "rollback"
  /\ \/ /\ "token" \in op[p].made
        /\ op' = [op EXCEPT ![p].made = @ \ {"token"}]
        /\ token' \in {None, token}
        /\ UNCHANGED <<reserved, net>>
     \/ /\ "token" \notin op[p].made /\ "container" \in op[p].made
        /\ op' = [op EXCEPT ![p] =
             IF Exists(W(p)) \/ W(p) \in journal
             THEN [@ EXCEPT !.kind = "remove", !.step = "lock", !.made = {}]
             ELSE Idle]
        /\ UNCHANGED <<reserved, net, token>>
     \/ /\ op[p].made \cap {"token", "container"} = {} /\ "network" \in op[p].made
        /\ op' = [op EXCEPT ![p].made = @ \ {"network"}]
        /\ net' \in IF net = W(p) /\ ~Exists(W(p)) THEN {None, net} ELSE {net}
        /\ UNCHANGED <<reserved, token>>
     \/ /\ op[p].made = {"allocation"}
        /\ op' = [op EXCEPT ![p] = Idle]
        /\ reserved' \in {reserved} \cup (IF Live(W(p)) THEN {} ELSE {reserved \ {W(p)}})
        /\ UNCHANGED <<net, token>>
     \/ /\ op[p].made = {}
        /\ op' = [op EXCEPT ![p] = Idle]
        /\ UNCHANGED <<reserved, net, token>>
  /\ UNCHANGED <<engine, mark, journal, lock, request, answered, late, calls>>

-----------------------------------------------------------------------------
(* Stop, quarantine, removal, and the undoing of a start.                   *)

\* revokeWorkerTokenChecked: the proxy drops what it holds for the name.  Its
\* error is kept while the operation goes on.  Wait and RevokeToken end here.
Revoke(p) ==
  /\ op[p].step = "revoke"
  /\ \E ok \in BOOLEAN :
       /\ token' \in IF ok THEN {None} ELSE {None, token}
       /\ IF op[p].kind = "wait" \/ (op[p].kind = "quarantine" /\ op[p].failed)
          THEN End(p)
          ELSE /\ op' = [op EXCEPT ![p].failed = @ \/ ~ok, ![p].step =
                          CASE op[p].kind \in {"start", "stop"} -> "stop"
                            [] op[p].kind = "quarantine" -> "confirm"
                            [] op[p].kind = "remove" -> "unnet"]
               /\ UNCHANGED lock
  /\ late' = (late /\ token' # None)
  /\ UNCHANGED <<nodeVars, journal, request, answered, calls>>

Stopped(w) == [engine EXCEPT ![w] = IF Live(w) THEN "exited" ELSE @]

\* ContainerStop; an undone start goes on whatever comes of it.
StopWorker(p) ==
  /\ op[p].step = "stop"
  /\ IF op[p].kind = "start"
     THEN engine' \in {engine, Stopped(W(p))} /\ Go(p, "dealloc") /\ UNCHANGED lock
     ELSE Exists(W(p)) /\ engine' = Stopped(W(p)) /\ Answer(p, "dealloc")
  /\ UNCHANGED <<mark, reserved, net, token, journal, request, answered, late, calls>>

\* Mutant: the label goes to the worker whose placeholder has the name.
Labelled_ByName(p) == {token}
Labelled(p) == {W(p)}

\* The engine persists the label and then stops the worker, under b.mu; either
\* can fail, and the answer can be lost.
Quarantine(p) ==
  /\ op[p].step = "quarantine"
  /\ IF Exists(W(p))
     THEN /\ mark' \in {mark, mark \cup Labelled(p)}
          /\ engine' \in {engine, Stopped(W(p))}
     ELSE UNCHANGED <<mark, engine>>
  /\ \E ok \in BOOLEAN :
       /\ ok => Exists(W(p)) /\ W(p) \in mark' /\ engine' = Stopped(W(p))
       /\ op' = [op EXCEPT ![p].step = "revoke", ![p].failed = ~ok]
  /\ UNCHANGED <<reserved, net, token, journal, lock, request, answered, late, calls>>

\* QuarantineContext's second inspection.
Confirm(p) ==
  /\ op[p].step = "confirm"
  /\ Exists(W(p)) /\ ~Live(W(p)) /\ W(p) \in mark
  /\ Go(p, "dealloc")
  /\ UNCHANGED <<nodeVars, token, journal, lock, request, answered, late, calls>>

\* releaseKataAllocation: the node refuses an envelope with processes in it.
Release(p) ==
  /\ op[p].step = "dealloc" /\ ~Live(W(p))
  /\ reserved' = reserved \ {W(p)}
  /\ \/ CASE op[p].kind = "stop" -> Succeed(p, "stopped")
          [] op[p].kind = "quarantine" -> Succeed(p, "quarantined")
          [] op[p].kind = "start" -> End(p) /\ UNCHANGED answered
          [] op[p].kind = "remove" -> Go(p, "forget") /\ UNCHANGED <<lock, answered>>
     \/ OnFail(p) /\ UNCHANGED answered
  /\ UNCHANGED <<engine, mark, net, token, journal, request, late, calls>>

WriteJournal(p) ==
  /\ op[p].step = "journal"
  /\ journal' = journal \cup {W(p)}
  /\ Answer(p, "delete")
  /\ UNCHANGED <<nodeVars, token, request, answered, late, calls>>

\* removeContainerConfirmed: "not found" counts only if an inspection agrees.
DeleteWorker(p) ==
  /\ op[p].step = "delete"
  /\ engine' = [engine EXCEPT ![W(p)] = "gone"]
  /\ Answer(p, "revoke")
  /\ UNCHANGED <<mark, reserved, net, token, journal, request, answered, late, calls>>

\* Mutant: whatever network has the name is removed.
NetworkOf_ByName(w) == net
\* The network that RemoveKataWorkerNetwork finds for the ID it was given.
NetworkOf(w) == IF net = w THEN net ELSE None

\* RemoveKataWorkerNetwork, by the exact ID that the record names: it refuses
\* to disconnect a worker, and a network that is gone is fine.
RemoveNetwork(p) ==
  /\ op[p].step = "unnet"
  /\ ~Exists(W(p)) \/ net # W(p)
  /\ net' = IF NetworkOf(W(p)) # None THEN None ELSE net
  /\ Answer(p, "dealloc")
  /\ UNCHANGED <<engine, mark, reserved, token, journal, request, answered, late, calls>>

\* The worktree is cleaned up; the record stays if the revocation failed.
Forget(p) ==
  /\ op[p].step = "forget"
  /\ journal' = IF op[p].failed THEN journal ELSE journal \ {W(p)}
  /\ Succeed(p, "removed") \/ (OnFail(p) /\ UNCHANGED answered)
  /\ UNCHANGED <<nodeVars, token, request, late, calls>>

\* Any step can fail before its effect, a wait can reach its deadline.
FailStep(p) ==
  /\ op[p].step \notin {"idle", "rollback", "revoke", "quarantine"}
  /\ op[p].kind = "start" => op[p].step # "stop"
  /\ OnFail(p)
  /\ UNCHANGED <<nodeVars, token, journal, request, answered, late, calls>>

-----------------------------------------------------------------------------
(* The engine, the proxy, workers, and Products that die.                   *)

Waiting(w, s) == {p \in Products : W(p) = w /\ op[p].step = s}

\* A request is handled; a caller that still waits gets the answer.
Handle(w, what) ==
  /\ [what |-> what, worker |-> w] \in request
  /\ request' = request \ {[what |-> what, worker |-> w]}
Accept(w, from, to) ==
  /\ op' = [p \in Products |->
              IF p \in Waiting(w, from) THEN [op[p] EXCEPT !.step = to] ELSE op[p]]
  /\ UNCHANGED lock
Refuse(w, from) ==
  IF Waiting(w, from) = {} THEN UNCHANGED <<op, lock>>
                           ELSE \E p \in Waiting(w, from) : OnFail(p)

\* Mutant: the engine does not look at the label.
ExecutionAllowed_Always(w) == TRUE
ExecutionAllowed(w) == w \notin mark

\* Backend.start: executionAllowed, then a new task in the reserved envelope.
EngineStarts(w) ==
  /\ Handle(w, "start")
  /\ ExecutionAllowed(w) /\ Exists(w) /\ (Live(w) \/ w \in reserved)
  /\ engine' = IF Live(w) THEN engine ELSE [engine EXCEPT ![w] = "waiting"]
  /\ Accept(w, "starting", "verify")
  /\ UNCHANGED <<mark, reserved, net, token, journal, answered, late, calls>>
EngineRefuses(w) ==
  /\ Handle(w, "start") /\ Refuse(w, "starting")
  /\ UNCHANGED <<nodeVars, token, journal, answered, late, calls>>

\* RestoreToken, keyed by the worker's name.
ProxyRestores(w) ==
  /\ Handle(w, "restore")
  /\ token' = w
  /\ late' = (Waiting(w, "restoring") = {})
  /\ Accept(w, "restoring", "release")
  /\ UNCHANGED <<nodeVars, journal, answered, calls>>
ProxyRefuses(w) ==
  /\ Handle(w, "restore") /\ Refuse(w, "restoring")
  /\ UNCHANGED <<nodeVars, token, journal, answered, late, calls>>

\* The user's command ends, or the bootstrap has waited 120 seconds.
WorkerExits(w) ==
  /\ Live(w)
  /\ engine' = [engine EXCEPT ![w] = "exited"]
  /\ UNCHANGED <<mark, reserved, net, token, journal, lock, op, request, answered, late, calls>>

\* The flock goes with the process; its requests may still be handled.
Crash(p) ==
  /\ op[p] # Idle
  /\ End(p)
  /\ UNCHANGED <<nodeVars, token, journal, request, answered, late, calls>>

Proceed(p) ==
  \/ Check(p) \/ CreateNetwork(p) \/ Reserve(p) \/ CreateContainer(p)
  \/ ContainerStart(p) \/ VerifyGuest(p)
  \/ RestoreWorkerToken(p) \/ ReleaseGuest(p)
  \/ ReturnStarted(p) \/ Rollback(p) \/ Revoke(p) \/ StopWorker(p)
  \/ Quarantine(p) \/ Confirm(p) \/ Release(p) \/ WriteJournal(p)
  \/ DeleteWorker(p) \/ RemoveNetwork(p) \/ Forget(p) \/ FailStep(p)

Next ==
  \/ \E p \in Products :
       \/ \E w \in Workers : BeginRun(p, w) \/ \E k \in Kinds : BeginCall(p, w, k)
       \/ TakeLock(p) \/ Proceed(p) \/ ReturnCreated(p) \/ Crash(p)
  \/ \E w \in Workers :
       \/ EngineStarts(w) \/ EngineRefuses(w) \/ ProxyRestores(w)
       \/ ProxyRefuses(w) \/ WorkerExits(w)

Spec == Init /\ [][Next]_vars

-----------------------------------------------------------------------------
(* Properties.                                                              *)

\* What the engine knows of keeps its network, and what runs keeps its
\* reservation: no rollback, no retried removal of a namesake and no stop on a
\* stale inspection takes them from under it.
WorkerKeepsResources ==
  \A w \in Workers :
    /\ Exists(w) => net = w
    /\ Live(w) => w \in reserved

\* Quarantine is final, whoever died or gave up with a start under way: the
\* label stays, a worker that has it never comes to run again, and none is
\* reported as quarantined while it runs.
QuarantineIsFinal ==
  [][\A w \in Workers :
       /\ w \in mark => w \in mark' /\ (Live(w)' => Live(w))
       /\ answered'[w] = "quarantined" => w \in mark' /\ ~Live(w)']_vars

\* A stop, quarantine or removal that reported success has revoked the
\* worker's placeholder, unless the proxy was late with a restore that its
\* caller had given up.
AnsweredIsRevoked ==
  \A w \in Workers : answered[w] # "none" /\ token = w => late

\* A removal that reported success leaves nothing of the worker behind.
RemovalLeavesNothing ==
  \A w \in Workers : answered[w] = "removed" =>
    ~Exists(w) /\ net # w /\ w \notin reserved

\* "A name collision must not replace or revoke another worker's token."
RevokesOnlyOwn ==
  [][\A p \in Products : token # None /\ token' # token /\ op'[p] # op[p]
                           => token = W(p)]_vars
=============================================================================
