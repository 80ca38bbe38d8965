---------------------------- MODULE KataAdmission ----------------------------
(***************************************************************************)
(* VM admission at the node (kataguard/host_linux.go, ledger_linux.go,     *)
(* inventory*.go, abort_linux.go): a reservation is a durable record and a *)
(* cgroup with limits, counted against the worker limit; Verify binds it   *)
(* to the worker whose VM runs inside; Release removes it once it is       *)
(* empty; RecoverOrphan reclaims it when the engine knows no worker.       *)
(*                                                                         *)
(* The four hold admission.lock (a flock) throughout and run concurrently  *)
(* with the engine, whose requests hold b.mu, and with VMs that exit.  The *)
(* node can crash between any two steps and the host can reboot.           *)
(*                                                                         *)
(* The products are modelled as far as the node relies on them: per worker *)
(* (under its lifecycle lock) one caller at a time, in the order of        *)
(* RunContext, StartContext, StopContext and removeDurably.                *)
(***************************************************************************)
EXTENDS Naturals, FiniteSets

CONSTANTS Allocations,
          Workers,
          Home,        \* the allocation that a worker's label names
          MaxWorkers,  \* the node's worker limit
          None

ASSUME AdmissionAssumption ==
  /\ Home \in [Workers -> Allocations] /\ None \notin Workers \cup Allocations
  /\ MaxWorkers \in Nat /\ IsFiniteSet(Allocations)

VARIABLES
  record,    \* the allocation records in StateDir/allocations
  cgroup,    \* the envelopes: "bare" is one without its limits
  vm,        \* the worker whose processes are in the envelope
  engine,    \* the engine's record of each worker
  bmu,       \* b.mu: the start or stop of a worker that holds it
  op,        \* the node request that holds admission.lock
  client,    \* the caller acting on each worker
  released   \* workers whose user code was released

hostVars == <<record, cgroup>>
engineVars == <<vm, engine, bmu>>
vars == <<record, cgroup, vm, engine, bmu, op, client, released>>

Records == [present : BOOLEAN, worker : Workers \cup {None}, recent : BOOLEAN]
Ops == [kind : {"none", "reserve", "verify", "release", "recover"},
        step : {"none", "mkdir", "limits", "inspect", "list", "confirm", "kill",
                "check", "remove", "forget"},
        alloc : Allocations \cup {None}, worker : Workers \cup {None},
        populated : BOOLEAN, force : BOOLEAN,
        caller : Workers \cup {None}]  \* None: the caller has hung up

TypeOK ==
  /\ record \in [Allocations -> Records]
  /\ cgroup \in [Allocations -> {"none", "bare", "ready"}]
  /\ vm \in [Allocations -> Workers \cup {None}]
  /\ engine \in [Workers -> {"none", "present", "deleted"}]
  /\ bmu \in [task : {"none", "start", "stop"}, worker : Workers \cup {None}]
  /\ op \in Ops
  /\ client \in [Workers -> {"idle", "reserve", "create", "start", "starting",
                             "verify", "stop", "stopping", "delete", "release"}]
  /\ released \subseteq Workers

NoRecord == [present |-> FALSE, worker |-> None, recent |-> FALSE]
Idle == [kind |-> "none", step |-> "none", alloc |-> None, worker |-> None,
         populated |-> FALSE, force |-> FALSE, caller |-> None]

Free == [task |-> "none", worker |-> None]

Init ==
  /\ record = [a \in Allocations |-> NoRecord]
  /\ cgroup = [a \in Allocations |-> "none"]
  /\ vm = [a \in Allocations |-> None]
  /\ engine = [w \in Workers |-> "none"] /\ bmu = Free
  /\ op = Idle
  /\ client = [w \in Workers |-> "idle"] /\ released = {}

-----------------------------------------------------------------------------
Present(w) == engine[w] = "present"
Inside(w) == vm[Home[w]] = w
Siblings(w) == {v \in Workers : v # w /\ Home[v] = Home[w]}
\* The caller of w holds, or waits for, its reservation.
Reserving(w) ==
  client[w] \in {"reserve", "create", "start", "starting", "verify"}

Go(w, pc) == client' = [client EXCEPT ![w] = pc]

\* A request takes admission.lock at step.
Holder(kind, step, a, w) ==
  [kind |-> kind, step |-> step, alloc |-> a, worker |-> w,
   populated |-> FALSE, force |-> FALSE, caller |-> w]

\* The request ends; its caller, if it still waits, goes on at pc.
Reply(pc) ==
  /\ op' = Idle
  /\ client' = IF op.caller = None THEN client
               ELSE [client EXCEPT ![op.caller] = pc]

\* Where a caller goes on when its request failed: StartContext returns if there
\* is no reservation, else what there is is undone.
Undoing(w) == IF client[w] = "reserve" /\ engine[w] # "none" THEN "idle"
              ELSE IF Present(w) THEN "stop" ELSE "release"

\* With a reservation, StartContext starts and RunContext creates first.
Reserved(w) == IF engine[w] = "none" THEN "create" ELSE "start"

-----------------------------------------------------------------------------
(* Reserve.                                                                 *)

Envelopes == {a \in Allocations : cgroup[a] # "none"}

\* Mutant: one worker too many.
Full_OffByOne == Cardinality(Envelopes) > MaxWorkers
Full == Cardinality(Envelopes) >= MaxWorkers

\* checkLimits needs the record's profile and all limits in place.
LimitsOK(a) == record[a].present /\ cgroup[a] = "ready"
\* scanProcesses: every process in the envelope is the worker's.
Attested(a, w) == LimitsOK(a) /\ vm[a] \in {None, w}

\* Mutant: the record is left to Verify.
Tracked_Later(a) == record
\* Mutant: CreatedAt is not set.
Tracked_Undated(a) ==
  IF record[a].present THEN record
  ELSE [record EXCEPT ![a] = [present |-> TRUE, worker |-> None]]
\* trackAllocation without a worker: an existing record is kept.
Tracked(a) ==
  IF record[a].present THEN record
  ELSE [record EXCEPT ![a] = [present |-> TRUE, worker |-> None, recent |-> TRUE]]

\* ReserveProfile with the lock: an envelope is kept if it is unoccupied, a
\* new one is recorded first.
Reserve(w) ==
  LET a == Home[w]
  IN /\ client[w] = "reserve" /\ op = Idle
     /\ \/ /\ cgroup[a] # "none" /\ LimitsOK(a) /\ vm[a] = None
           /\ Go(w, Reserved(w))
           /\ UNCHANGED <<record, op>>
        \/ /\ cgroup[a] = "none" /\ ~Full
           /\ record' = Tracked(a)
           /\ op' = Holder("reserve", "mkdir", a, w)
           /\ UNCHANGED client
        \/ /\ Go(w, Undoing(w))   \* ErrCapacity, ...
           /\ UNCHANGED <<record, op>>
     /\ UNCHANGED <<cgroup, engineVars, released>>

ReserveMkdir ==
  /\ op.kind = "reserve" /\ op.step = "mkdir"
  /\ \/ /\ cgroup' = [cgroup EXCEPT ![op.alloc] = "bare"]
        /\ op' = [op EXCEPT !.step = "limits"]
        /\ UNCHANGED client
     \/ Reply(Undoing(op.worker)) /\ UNCHANGED cgroup
  /\ UNCHANGED <<record, engineVars, released>>

ReserveLimits ==
  /\ op.kind = "reserve" /\ op.step = "limits"
  /\ \/ /\ cgroup' = [cgroup EXCEPT ![op.alloc] = "ready"]
        /\ Reply(Reserved(op.worker))
     \/ /\ cgroup' = IF vm[op.alloc] # None THEN cgroup   \* os.Remove fails
                     ELSE [cgroup EXCEPT ![op.alloc] = "none"]
        /\ Reply(Undoing(op.worker))
  /\ UNCHANGED <<record, engineVars, released>>

-----------------------------------------------------------------------------
(* Verify.                                                                  *)

\* scanProcesses finds the worker's VM, and nothing else, in its envelope.
Verify(w) ==
  LET a == Home[w]
  IN /\ client[w] = "verify" /\ op = Idle
     /\ \/ /\ Attested(a, w) /\ vm[a] = w
           /\ op' = Holder("verify", "inspect", a, w)
           /\ UNCHANGED client
        \/ Go(w, Undoing(w)) /\ UNCHANGED op
     /\ UNCHANGED <<hostVars, engineVars, released>>

Bindable(a, w) == record[a].worker \in {None, w}

\* trackAllocation asks the engine for the worker, binds the record, Retire
\* runs, and the caller releases the user code in the guest.
VerifyInspect ==
  LET a == op.alloc  w == op.worker
  IN /\ op.kind = "verify" /\ op.step = "inspect" /\ bmu = Free
     /\ \/ /\ Present(w) /\ Bindable(a, w)
           /\ record' = [record EXCEPT ![a].worker = w]
           /\ \/ /\ op.caller = w /\ Inside(w)
                 /\ released' = released \cup {w}
                 /\ Reply("idle")
              \/ Reply(Undoing(w)) /\ UNCHANGED released
        \/ Reply(Undoing(w)) /\ UNCHANGED <<record, released>>
     /\ UNCHANGED <<cgroup, engineVars>>

-----------------------------------------------------------------------------
(* Release and orphan recovery.                                             *)

Release(w) ==
  /\ client[w] = "release" /\ op = Idle
  /\ op' = Holder("release", "check", Home[w], w)
  /\ UNCHANGED <<hostVars, engineVars, client, released>>

\* releaseUnlocked: not someone else's record; without an envelope only the
\* record is left.
ReleaseCheck ==
  /\ op.step = "check"
  /\ \/ /\ op.worker = None \/ record[op.alloc].worker \in {None, op.worker}
        /\ op' = [op EXCEPT !.step = IF cgroup[op.alloc] = "none" THEN "forget"
                                                                  ELSE "remove"]
        /\ UNCHANGED client
     \/ Reply("idle")
  /\ UNCHANGED <<hostVars, engineVars, released>>

\* Mutant: occupied envelopes are removed too.
Empty_Assumed(a) == TRUE
Empty(a) == vm[a] = None

\* It never kills: it waits until the envelope is empty, and gives up with its
\* context.
ReleaseRemove ==
  /\ op.step = "remove"
  /\ LimitsOK(op.alloc) /\ Empty(op.alloc)
  /\ cgroup' = [cgroup EXCEPT ![op.alloc] = "none"]
  /\ op' = [op EXCEPT !.step = "forget"]
  /\ UNCHANGED <<record, engineVars, client, released>>

ReleaseFails ==
  /\ op.step = "remove"
  /\ Reply("idle")
  /\ UNCHANGED <<hostVars, engineVars, released>>

ReleaseForget ==
  /\ op.step = "forget"
  /\ record' = [record EXCEPT ![op.alloc] = NoRecord]
  /\ Reply("idle")
  /\ UNCHANGED <<cgroup, engineVars, released>>

\* observeEnvelope: the worker named by the record, else by the child cgroup.
Recover(a, force) ==
  /\ op = Idle
  /\ record[a].present \/ cgroup[a] # "none"
  /\ op' = [kind |-> "recover", step |-> "list", alloc |-> a,
            worker |-> IF record[a].worker # None THEN record[a].worker ELSE vm[a],
            populated |-> (vm[a] # None), force |-> force, caller |-> None]
  /\ UNCHANGED <<hostVars, engineVars, client, released>>

\* containerdVMs lists a worker with this allocation.
Known(a) == \E w \in Workers : Home[w] = a /\ Present(w)

\* Mutant: an unbound reservation needs no grace period.
Recoverable_NoGrace ==
  /\ ~Known(op.alloc)
  /\ record[op.alloc].present
  /\ op.populated => op.force
\* canRecoverOrphan, against the engine's list.
Recoverable ==
  /\ ~Known(op.alloc)
  /\ record[op.alloc].present
  /\ op.populated => op.force
  /\ op.worker = None => ~record[op.alloc].recent

RecoverList ==
  /\ op.step = "list" /\ bmu = Free
  /\ \/ /\ Recoverable
        /\ op' = [op EXCEPT !.step = IF op.worker # None THEN "confirm" ELSE "kill"]
        /\ UNCHANGED client
     \/ Reply("idle")
  /\ UNCHANGED <<hostVars, engineVars, released>>

\* The exact worker must be absent still.
RecoverConfirm ==
  /\ op.step = "confirm" /\ bmu = Free
  /\ \/ /\ ~Present(op.worker)
        /\ op' = [op EXCEPT !.step = "kill"]
        /\ UNCHANGED client
     \/ Reply("idle")
  /\ UNCHANGED <<hostVars, engineVars, released>>

\* cgroup.kill, after every occupant was attested as that worker's.
RecoverKill ==
  /\ op.step = "kill"
  /\ \/ /\ op.populated /\ Attested(op.alloc, op.worker)
        /\ vm' = [vm EXCEPT ![op.alloc] = None]
        /\ op' = [op EXCEPT !.step = "check"]
        /\ UNCHANGED client
     \/ /\ ~op.populated
        /\ op' = [op EXCEPT !.step = "check"]
        /\ UNCHANGED <<client, vm>>
     \/ Reply("idle") /\ UNCHANGED vm
  /\ UNCHANGED <<hostVars, engine, bmu, released>>

-----------------------------------------------------------------------------
(* The engine.  Its requests hold b.mu and never take admission.lock.       *)

\* The engine answers a caller that waits at pc; it goes on at one of next.
Answer(w, pc, next) ==
  IF client[w] = pc THEN \E n \in next : Go(w, n) ELSE UNCHANGED client

\* The worker's task is killed, waited for and deleted.
End(w) ==
  /\ vm' = IF Inside(w) THEN [vm EXCEPT ![Home[w]] = None] ELSE vm
  /\ released' = released \ {w}

CreateWorker(w) ==
  /\ client[w] = "create" /\ bmu = Free
  /\ \/ /\ engine[w] = "none" /\ ~Known(Home[w])   \* same name
        /\ engine' = [engine EXCEPT ![w] = "present"]
        /\ \E pc \in {"start", "release"} : Go(w, pc)   \* the reply may be lost
     \/ Go(w, "release") /\ UNCHANGED engine
  /\ UNCHANGED <<hostVars, vm, bmu, op, released>>

\* The shim starts the VM inside the envelope.
StartBegins(w) ==
  /\ client[w] = "start" /\ bmu = Free
  /\ \/ /\ Present(w)
        /\ bmu' = [task |-> "start", worker |-> w]
        /\ \/ /\ cgroup[Home[w]] # "none" /\ vm[Home[w]] = None
              /\ vm' = [vm EXCEPT ![Home[w]] = w]
           \/ UNCHANGED vm
        /\ Go(w, "starting")
     \/ /\ ~Present(w) /\ Go(w, "release")
        /\ UNCHANGED <<bmu, vm>>
  /\ UNCHANGED <<hostVars, engine, op, released>>

\* AbortCreate kills what is left of the worker's VM, without the lock.
AbortCreate(w) ==
  /\ Bindable(Home[w], w) /\ Attested(Home[w], w)
  /\ vm' = [vm EXCEPT ![Home[w]] = None]

StartEnds(w) ==
  /\ bmu = [task |-> "start", worker |-> w]
  /\ bmu' = Free
  /\ \/ Inside(w) /\ Answer(w, "starting", {"verify"}) /\ UNCHANGED vm
     \/ /\ AbortCreate(w) \/ UNCHANGED vm
        /\ Answer(w, "starting", {"stop"})
  /\ UNCHANGED <<hostVars, engine, op, released>>

StopBegins(w) ==
  /\ client[w] = "stop" /\ bmu = Free
  /\ \/ /\ Present(w) /\ Go(w, "stopping")
        /\ bmu' = [task |-> "stop", worker |-> w]
     \/ /\ ~Present(w) /\ \E pc \in {"idle", "release"} : Go(w, pc)
        /\ UNCHANGED bmu
  /\ UNCHANGED <<hostVars, vm, engine, op, released>>

\* Mutant: Retire takes admission.lock like Verify does.
RetireReady_Locks == op = Idle
\* "Do not take admissionLock here": Retire needs nothing but b.mu.
RetireReady == TRUE

StopEnds(w) ==
  /\ bmu = [task |-> "stop", worker |-> w] /\ RetireReady
  /\ bmu' = Free
  /\ \/ End(w) /\ Answer(w, "stopping", {"release"})
     \/ /\ Answer(w, "stopping", {"idle", "release"})   \* a failed start goes on
        /\ UNCHANGED <<vm, released>>
  /\ UNCHANGED <<hostVars, engine, op>>

DeleteWorker(w) ==
  /\ client[w] = "delete" /\ bmu = Free
  /\ \/ /\ End(w) /\ \E pc \in {"idle", "release"} : Go(w, pc)   \* RemoveAll may fail
        /\ engine' = [engine EXCEPT ![w] = "deleted"]
     \/ Go(w, "idle") /\ UNCHANGED <<vm, engine, released>>
  /\ UNCHANGED <<hostVars, bmu, op>>

\* A VM ends by itself.
VMExits(w) ==
  /\ Inside(w)
  /\ vm' = [vm EXCEPT ![Home[w]] = None]
  /\ released' = released \ {w}
  /\ UNCHANGED <<hostVars, engine, bmu, op, client>>

\* Someone removes the containerd object behind the engine's back (doc/vm.md:
\* its processes stay in the envelope).
Vanish(w) ==
  /\ Present(w) /\ bmu.worker # w
  /\ engine' = [engine EXCEPT ![w] = "deleted"]
  /\ released' = released \ {w}
  /\ UNCHANGED <<hostVars, vm, bmu, op, client>>

-----------------------------------------------------------------------------
(* Callers, crashes and time.                                               *)

\* The launch ledger grants a request one launcher, and only when the request
\* has neither a worker nor a reservation.
BeginLaunch(w) ==
  /\ client[w] = "idle" /\ engine[w] = "none"
  /\ ~record[Home[w]].present
  /\ \A v \in Siblings(w) : ~Present(v) /\ client[v] = "idle"
  /\ Go(w, "reserve")
  /\ UNCHANGED <<hostVars, engineVars, op, released>>

\* Start, Stop and Remove of a worker; a removal may be retried.
BeginCall(w) ==
  /\ client[w] = "idle"
  /\ \/ Present(w) /\ ~Inside(w) /\ Go(w, "reserve")
     \/ Present(w) /\ Go(w, "stop")
     \/ Present(w) /\ Go(w, "delete")
     \/ engine[w] = "deleted" /\ Go(w, "release")
  /\ UNCHANGED <<hostVars, engineVars, op, released>>

\* The caller's process dies, or its context ends and it stops waiting.  A
\* request that holds a lock goes on without it.
HangUp(w) ==
  /\ client[w] # "idle"
  /\ \/ Go(w, "idle")
     \/ Reserving(w) /\ Go(w, Undoing(w))
  /\ op' = IF op.caller = w THEN [op EXCEPT !.caller = None] ELSE op
  /\ UNCHANGED <<hostVars, engineVars, released>>

NodeCrash ==
  /\ op # Idle \/ bmu # Free
  /\ op' = Idle /\ bmu' = Free
  /\ client' = [w \in Workers |-> "idle"]
  /\ UNCHANGED <<hostVars, vm, engine, released>>

\* Records are durable, cgroups and VMs are not.
Reboot ==
  /\ cgroup' = [a \in Allocations |-> "none"]
  /\ vm' = [a \in Allocations |-> None]
  /\ op' = Idle /\ bmu' = Free
  /\ client' = [w \in Workers |-> "idle"] /\ released' = {}
  /\ UNCHANGED <<record, engine>>

\* Five minutes pass, which no launcher takes from its reservation to its
\* worker (RunContext has 180 seconds).
Age(a) ==
  /\ record[a].recent
  /\ \A w \in Workers : Home[w] = a => ~Reserving(w)
  /\ record' = [record EXCEPT ![a].recent = FALSE]
  /\ UNCHANGED <<cgroup, engineVars, op, client, released>>

GuardStep ==
  \/ ReserveMkdir \/ ReserveLimits \/ VerifyInspect \/ ReleaseCheck
  \/ ReleaseRemove \/ ReleaseForget \/ RecoverList \/ RecoverConfirm \/ RecoverKill
EngineStep(w) == StartEnds(w) \/ StopEnds(w)

Next ==
  \/ GuardStep \/ ReleaseFails \/ NodeCrash \/ Reboot
  \/ \E w \in Workers :
       \/ Reserve(w) \/ Verify(w) \/ Release(w) \/ EngineStep(w)
       \/ CreateWorker(w) \/ StartBegins(w) \/ StopBegins(w) \/ DeleteWorker(w)
       \/ VMExits(w) \/ Vanish(w) \/ BeginLaunch(w) \/ BeginCall(w) \/ HangUp(w)
  \/ \E a \in Allocations : Age(a) \/ \E force \in BOOLEAN : Recover(a, force)

Spec == Init /\ [][Next]_vars

-----------------------------------------------------------------------------
(* Properties.                                                              *)

\* The node never admits more envelopes than its limit, and every VM is inside
\* one of them, whatever crashes (ReserveProfile counts cgroups under the lock).
Capacity ==
  /\ Cardinality(Envelopes) <= MaxWorkers
  /\ \A a \in Allocations : vm[a] # None => cgroup[a] # "none"

\* An envelope always has its durable record, so that inventory can trust it
\* and recovery find it: it is recorded before and forgotten after it exists.
EnvelopesTracked == \A a \in Envelopes : record[a].present

\* User code runs only in the worker's own verified envelope, bound to it.
ReleasedIsBound ==
  \A w \in released : /\ Inside(w) /\ cgroup[Home[w]] = "ready"
                       /\ record[Home[w]].worker = w

\* Recovery takes nothing from a worker that the engine has, nor from a launch
\* that has reserved and not yet created (canRecoverOrphan, five minutes).
RecoverySparesLiving ==
  [][\A a \in Allocations :
       (/\ op.kind = "recover" /\ op.alloc = a
        /\ <<vm[a], cgroup[a], record[a]>>' # <<vm[a], cgroup[a], record[a]>>
        /\ (RecoverKill \/ ReleaseRemove \/ ReleaseForget))
       => \A w \in Workers :
            Home[w] = a => ~Present(w) /\ client[w] # "create"]_vars

\* What holds admission.lock gives it back without waiting for a deadline: the
\* guard waits for b.mu inside it, but nothing under b.mu waits for the lock.
AdmissionProgresses == (op # Idle) ~> (op = Idle)

\* Handlers run to their end, b.mu is handed on fairly, and a wait for an
\* occupied envelope ends with its context.
FairSpec ==
  /\ Spec
  /\ WF_vars(ReserveMkdir \/ ReserveLimits \/ ReleaseCheck \/ ReleaseForget \/ RecoverKill)
  /\ WF_vars(ReleaseRemove \/ ReleaseFails)
  /\ SF_vars(VerifyInspect) /\ SF_vars(RecoverList) /\ SF_vars(RecoverConfirm)
  /\ \A w \in Workers : WF_vars(EngineStep(w))
=============================================================================
