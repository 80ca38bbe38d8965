----------------------------- MODULE LaunchLedger -----------------------------
(***************************************************************************)
(* One RequestID from the product's Launch or Create call to a worker: the *)
(* node's durable launch ledger (kataguard/launch.go), the client that     *)
(* claims, launches and confirms (pkg/cxd/client.go), the resources        *)
(* RunContext acquires in order (network, allocation, engine worker) and   *)
(* undoes on failure, the journaled removal of a worker (sandbox/          *)
(* cleanup.go) and the recovery of orphaned allocations.                   *)
(*                                                                         *)
(* A call is one-shot.  The lease it is granted and the worker it creates  *)
(* carry its name.  Restarts of a finished worker are not part of this     *)
(* module.                                                                 *)
(***************************************************************************)
EXTENDS Naturals, FiniteSets

CONSTANTS Keys,        \* request IDs
          Callers,     \* Launch and Create calls
          Options,     \* fingerprints of launch options
          CreateOnly,  \* those of Create: the worker is not started
          Product,     \* whoever calls Remove besides a failed launcher
          None

ASSUME LaunchAssumption ==
  /\ CreateOnly \subseteq Options
  /\ None \notin Callers \cup Options \cup {Product} /\ Product \notin Callers

VARIABLES
  record,   \* the launch record of each request
  call,     \* the calls
  late,     \* finish and abort messages on their way to the node
  status,   \* the engine's worker of each call
  net,      \* whose worker network exists under the request's name
  alloc,    \* the allocation (record and cgroup) of each request
  journal,  \* workers with a durable removal record
  lock,     \* holder of each worker's lifecycle lock
  removal,  \* the next step of the removal that holds the lock
  overran   \* history: requests one of whose launchers outlived its lease

nodeVars == <<record, late>>
hostVars == <<status, net, alloc>>
removalVars == <<journal, lock, removal>>
vars == <<record, call, late, status, net, alloc, journal, lock, removal, overran>>

Records == [state : {"absent", "pending", "complete", "failed", "cleanup-pending"},
            fp : Options \cup {None}, lease : Callers \cup {None},
            worker : Callers \cup {None}, aged : BOOLEAN]
PCs == {"idle", "claim", "existing", "setup", "network", "reserve", "create",
        "created", "start", "verify", "finish", "confirming", "remove", "undo",
        "abort", "done"}
CallStates == [pc : PCs, key : Keys \cup {None}, fp : Options \cup {None},
               made : SUBSET {"network", "allocation"},
               id : Callers \cup {None},      \* createdID
               worker : Callers \cup {None},  \* the worker of the answer
               result : {"none", "ok", "failed"}]
Allocations == [held : BOOLEAN, worker : Callers \cup {None}, recent : BOOLEAN]

TypeOK ==
  /\ record \in [Keys -> Records]
  /\ call \in [Callers -> CallStates]
  /\ late \in [Callers -> {"none", "finish", "abort"}]
  /\ status \in [Callers -> {"none", "created", "started", "released",
                             "exited", "removed"}]
  /\ net \in [Keys -> Callers \cup {None}]
  /\ alloc \in [Keys -> Allocations]
  /\ journal \subseteq Callers
  /\ lock \in [Callers -> Callers \cup {Product, None}]
  /\ removal \in [Callers -> {"none", "delete", "network", "allocation", "forget"}]
  /\ overran \subseteq Keys

NoRecord == [state |-> "absent", fp |-> None, lease |-> None, worker |-> None,
             aged |-> FALSE]
NoCall == [pc |-> "idle", key |-> None, fp |-> None, made |-> {}, id |-> None,
           worker |-> None, result |-> "none"]
Free == [held |-> FALSE, worker |-> None, recent |-> FALSE]

Init ==
  /\ record = [k \in Keys |-> NoRecord]
  /\ call = [c \in Callers |-> NoCall]
  /\ late = [c \in Callers |-> "none"]
  /\ status = [c \in Callers |-> "none"]
  /\ net = [k \in Keys |-> None] /\ alloc = [k \in Keys |-> Free]
  /\ journal = {}
  /\ lock = [c \in Callers |-> None] /\ removal = [c \in Callers |-> "none"]
  /\ overran = {}

-----------------------------------------------------------------------------
Key(c) == call[c].key
Present(w) == status[w] \in {"created", "started", "released", "exited"}
Running(w) == status[w] \in {"started", "released"}

\* The engine's worker under the request's name, if any: FindRequest.
Found(k) == {w \in Callers : Present(w) /\ Key(w) = k}
\* A VM sits in the allocation's cgroup.
Occupied(k) == \E w \in Callers : Running(w) /\ Key(w) = k

\* Between its claim and its last undo step a launcher acts on the host.
Active(c) == call[c].pc \in {"setup", "network", "reserve", "create", "created",
                             "start", "verify", "finish", "remove", "undo"}

Go(c, pc) == call' = [call EXCEPT ![c].pc = pc]
\* The call returns w, or one of the errors named at each use.
Succeed(c, w) ==
  call' = [call EXCEPT ![c].pc = "done", ![c].made = {}, ![c].worker = w,
                       ![c].result = "ok"]
Fail(c) ==
  call' = [call EXCEPT ![c].pc = "done", ![c].made = {}, ![c].worker = None,
                       ![c].result = "failed"]

-----------------------------------------------------------------------------
(* The claim.                                                               *)

Begin(c, k, f) ==
  /\ call[c].pc = "idle"
  /\ call' = [call EXCEPT ![c] = [NoCall EXCEPT !.pc = "claim", !.key = k, !.fp = f]]
  /\ UNCHANGED <<nodeVars, hostVars, removalVars, overran>>

\* Mutant: a live lease can be claimed.
Open_Stolen(r) == r.state \in {"absent", "failed", "pending"}
\* claimLaunch goes on: nobody holds a live lease and there is no answer yet.
Open(r) ==
  \/ r.state \in {"absent", "failed"}
  \/ r.state = "pending" /\ r.aged
Matches(c) == record[Key(c)].state = "absent" \/ record[Key(c)].fp = call[c].fp

Complete(k, w) ==
  record' = [record EXCEPT ![k] =
    [state |-> "complete", fp |-> call[w].fp, lease |-> None, worker |-> w,
     aged |-> FALSE]]

\* claimLaunch answers from the record alone, or the node is not reached.
ClaimAnswered(c) ==
  LET r == record[Key(c)]
  IN /\ call[c].pc = "claim"
     /\ \/ ~Matches(c) /\ Fail(c)                               \* ErrConflict
        \/ /\ Matches(c) /\ r.state = "complete"
           /\ call' = [call EXCEPT ![c].pc = "existing", ![c].worker = r.worker]
        \/ Matches(c) /\ r.state = "cleanup-pending" /\ Fail(c)  \* ErrCleanupPending
        \/ Matches(c) /\ r.state = "pending" /\ ~r.aged /\ Fail(c) \* ErrInProgress
        \/ Fail(c)
     /\ UNCHANGED <<nodeVars, hostVars, removalVars, overran>>

\* The engine knows a worker of that name: it becomes the answer.  The reply
\* can be lost.
ClaimFinds(c) ==
  /\ call[c].pc = "claim" /\ Matches(c) /\ Open(record[Key(c)])
  /\ \E w \in Found(Key(c)) :
       /\ Complete(Key(c), w)
       /\ \/ call' = [call EXCEPT ![c].pc = "existing", ![c].worker = w]
          \/ Fail(c)
  /\ UNCHANGED <<late, hostVars, removalVars, overran>>

\* A reservation of an earlier attempt must be recovered first.  A request
\* without a record cannot have one.
Vacant(k) == record[k].state = "absent" \/ ~alloc[k].held

ClaimBusy(c) ==
  /\ call[c].pc = "claim" /\ Matches(c) /\ Open(record[Key(c)])
  /\ Found(Key(c)) = {} /\ ~Vacant(Key(c))
  /\ Fail(c)   \* ErrInProgress
  /\ UNCHANGED <<nodeVars, hostVars, removalVars, overran>>

ClaimGranted(c) ==
  /\ call[c].pc = "claim" /\ Matches(c) /\ Open(record[Key(c)])
  /\ Found(Key(c)) = {} /\ Vacant(Key(c))
  /\ record' = [record EXCEPT ![Key(c)] =
       [state |-> "pending", fp |-> call[c].fp, lease |-> c, worker |-> None,
        aged |-> FALSE]]
  /\ \/ Go(c, "setup")
     \/ Fail(c)
  /\ UNCHANGED <<late, hostVars, removalVars, overran>>

\* A completed request: Get the worker it names.
Existing(c) ==
  /\ call[c].pc = "existing"
  /\ \/ Present(call[c].worker) /\ Succeed(c, call[c].worker)
     \/ Fail(c)   \* ErrRequestGone, or an inspection error
  /\ UNCHANGED <<nodeVars, hostVars, removalVars, overran>>

-----------------------------------------------------------------------------
(* The launch, and what it undoes.  Every step can fail.                    *)

\* Egress proxy, auth proxy, clone or worktree: nothing bounds their duration.
Setup(c) ==
  /\ call[c].pc = "setup"
  /\ Go(c, "network") \/ Go(c, "abort")
  /\ UNCHANGED <<nodeVars, hostVars, removalVars, overran>>

\* CreateKataWorkerNetwork never adopts a network that already has the name.
CreateNetwork(c) ==
  /\ call[c].pc = "network"
  /\ \/ /\ net[Key(c)] = None
        /\ net' = [net EXCEPT ![Key(c)] = c]
        /\ \E next \in {"reserve", "undo"} :
             call' = [call EXCEPT ![c].pc = next, ![c].made = {"network"}]
     \/ /\ net[Key(c)] = None
        /\ net' = [net EXCEPT ![Key(c)] = c]
        /\ Go(c, "abort")   \* the reply is lost, and with it the ID
     \/ /\ Go(c, "abort")
        /\ UNCHANGED net
  /\ UNCHANGED <<nodeVars, status, alloc, removalVars, overran>>

\* ReserveProfile keeps an unoccupied reservation as it is.  The allocation is
\* undone even when the reservation failed.
Reserve(c) ==
  /\ call[c].pc = "reserve"
  /\ \/ /\ ~(alloc[Key(c)].held /\ Occupied(Key(c)))
        /\ alloc' = IF alloc[Key(c)].held THEN alloc
                    ELSE [alloc EXCEPT ![Key(c)] =
                            [held |-> TRUE, worker |-> None, recent |-> TRUE]]
        /\ \E next \in {"create", "undo"} :
             call' = [call EXCEPT ![c].pc = next, ![c].made = @ \cup {"allocation"}]
     \/ /\ call' = [call EXCEPT ![c].pc = "undo", ![c].made = @ \cup {"allocation"}]
        /\ UNCHANGED alloc
  /\ UNCHANGED <<nodeVars, status, net, removalVars, overran>>

\* ContainerCreate: the name is unique, the worker is attached to the network
\* of its name at once.  A lost reply leaves a worker whose ID nobody knows.
CreateWorker(c) ==
  /\ call[c].pc = "create"
  /\ \/ /\ Found(Key(c)) = {} /\ net[Key(c)] # None
        /\ status' = [status EXCEPT ![c] = "created"]
        /\ \/ call' = [call EXCEPT ![c].pc = "created", ![c].id = c]
           \/ Go(c, "undo")
     \/ Go(c, "undo") /\ UNCHANGED status
  /\ UNCHANGED <<nodeVars, net, alloc, removalVars, overran>>

\* Take the worker's lifecycle lock and validate its durable configuration.
LockWorker(c) ==
  /\ call[c].pc = "created"
  /\ \/ /\ lock[c] = None /\ Present(c) /\ net[Key(c)] = c
        /\ lock' = [lock EXCEPT ![c] = c]
        /\ Go(c, IF call[c].fp \in CreateOnly THEN "finish" ELSE "start")
     \/ /\ Go(c, "remove")
        /\ UNCHANGED lock
  /\ UNCHANGED <<nodeVars, hostVars, journal, removal, overran>>

Unlock(c) == IF lock[c] = c THEN [lock EXCEPT ![c] = None] ELSE lock

\* ContainerStart: the VM runs behind the bootstrap gate.
StartWorker(c) ==
  /\ call[c].pc = "start"
  /\ \/ /\ status' = [status EXCEPT ![c] = "started"]
        /\ \/ Go(c, "verify") /\ UNCHANGED lock
           \/ Go(c, "remove") /\ lock' = Unlock(c)
     \/ /\ Go(c, "remove") /\ lock' = Unlock(c) /\ UNCHANGED status
  /\ UNCHANGED <<nodeVars, net, alloc, journal, removal, overran>>

\* Mutant: the envelope's limits are not checked before user code is released.
Verified_Assumed(c) == TRUE
\* Verify finds the VM inside its own reservation, bound to nobody else.
Verified(c) ==
  alloc[Key(c)].held /\ alloc[Key(c)].worker \in {None, c}

\* Verify binds the reservation to the worker, then user code is released.
VerifyWorker(c) ==
  /\ call[c].pc = "verify"
  /\ \/ /\ status[c] = "started" /\ Verified(c)
        /\ alloc' = [alloc EXCEPT ![Key(c)].worker = c]
        /\ \/ /\ status' = [status EXCEPT ![c] = "released"]
              /\ Go(c, "finish") /\ UNCHANGED lock
           \/ /\ Go(c, "remove") /\ lock' = Unlock(c) /\ UNCHANGED status
     \/ /\ Go(c, "remove") /\ lock' = Unlock(c) /\ UNCHANGED <<alloc, status>>
  /\ UNCHANGED <<nodeVars, net, journal, removal, overran>>

\* The rest of RunContext (hooks, readiness) failed although user code runs,
\* or it returned: the deferred unlock runs and the result goes to the node.
SendFinish(c) ==
  /\ call[c].pc = "finish"
  /\ lock' = Unlock(c)
  /\ \/ Go(c, "confirming") /\ late' = [late EXCEPT ![c] = "finish"]
     \/ Go(c, "remove") /\ UNCHANGED late
  /\ UNCHANGED <<record, hostVars, journal, removal, overran>>

Current(c) ==
  record[Key(c)].state = "pending" /\ record[Key(c)].lease = c

\* finishLaunch, while the client still waits or after it gave up.
HandleFinish(c) ==
  /\ late[c] = "finish"
  /\ late' = [late EXCEPT ![c] = "none"]
  /\ IF Current(c) /\ Found(Key(c)) = {c}
     THEN /\ Complete(Key(c), c)
          /\ \/ call[c].pc = "confirming" /\ Present(c) /\ Succeed(c, c)
             \/ UNCHANGED call
     ELSE UNCHANGED <<record, call>>
  /\ UNCHANGED <<hostVars, removalVars, overran>>

\* No confirmation arrived (or the worker was gone at the final inspection).
GiveUp(c) ==
  /\ call[c].pc = "confirming"
  /\ Fail(c)   \* ErrOutcomeUnknown
  /\ UNCHANGED <<nodeVars, hostVars, removalVars, overran>>

\* abortClaim: the caller returns the launch error whatever becomes of it.
SendAbort(c) ==
  /\ call[c].pc = "abort"
  /\ Fail(c)
  /\ late' = [late EXCEPT ![c] = "abort"]
  /\ UNCHANGED <<record, hostVars, removalVars, overran>>

\* Mutant: a state that readLaunch does not know.
HandleAbort_UnknownState(c) ==
  /\ late[c] = "abort"
  /\ late' = [late EXCEPT ![c] = "none"]
  /\ record' = IF ~Current(c) THEN record
               ELSE [record EXCEPT ![Key(c)].state = "aborted"]
  /\ UNCHANGED <<call, hostVars, removalVars, overran>>

\* abortLaunch: the request failed, or its worker still needs cleanup.
HandleAbort(c) ==
  /\ late[c] = "abort"
  /\ late' = [late EXCEPT ![c] = "none"]
  /\ record' = IF ~Current(c) THEN record
               ELSE [record EXCEPT ![Key(c)] =
                 [@ EXCEPT !.state = IF call[c].id = None THEN "failed"
                                     ELSE "cleanup-pending",
                           !.worker = call[c].id, !.lease = None, !.aged = FALSE]]
  /\ UNCHANGED <<call, hostVars, removalVars, overran>>

Lose(c) ==
  /\ late[c] # "none"
  /\ late' = [late EXCEPT ![c] = "none"]
  /\ UNCHANGED <<record, call, hostVars, removalVars, overran>>

\* Release never kills: it needs an empty envelope that is not someone else's.
Releasable(k, w) ==
  /\ ~Occupied(k)
  /\ w = None \/ alloc[k].worker \in {None, w}

\* A launch that failed before it knew a worker ID: remove the network it
\* created unless a worker is attached, then release the allocation.
Undo(c) ==
  /\ call[c].pc = "undo"
  /\ \/ /\ "network" \in call[c].made
        /\ call' = [call EXCEPT ![c].made = @ \ {"network"}]
        /\ \/ /\ net[Key(c)] = c /\ Found(Key(c)) = {}
              /\ net' = [net EXCEPT ![Key(c)] = None]
           \/ UNCHANGED net
        /\ UNCHANGED alloc
     \/ /\ call[c].made = {"allocation"}
        /\ call' = [call EXCEPT ![c].made = {}]
        /\ \/ /\ Releasable(Key(c), None)
              /\ alloc' = [alloc EXCEPT ![Key(c)] = Free]
           \/ UNCHANGED alloc
        /\ UNCHANGED net
     \/ /\ call[c].made = {} /\ Go(c, "abort")
        /\ UNCHANGED <<net, alloc>>
  /\ UNCHANGED <<nodeVars, status, removalVars, overran>>

-----------------------------------------------------------------------------
(* Removal of a worker, by the launcher that failed after it knew the ID or *)
(* by the product (Remove, RemoveRequest, RetryCleanup).                    *)

Remover(w, by) == by = w => call[w].pc = "remove"

\* removeDurably: take the lock, make the removal record durable.
BeginRemoval(w, by) ==
  /\ Remover(w, by) /\ lock[w] = None
  /\ Present(w) \/ w \in journal
  /\ journal' = journal \cup {w}
  /\ lock' = [lock EXCEPT ![w] = by]
  /\ removal' = [removal EXCEPT ![w] = "delete"]
  /\ UNCHANGED <<nodeVars, call, hostVars, overran>>

DeleteWorker(w) ==
  /\ removal[w] = "delete"
  /\ status' = [status EXCEPT ![w] = "removed"]
  /\ removal' = [removal EXCEPT ![w] = "network"]
  /\ UNCHANGED <<nodeVars, call, net, alloc, journal, lock, overran>>

\* RemoveKataWorkerNetwork removes that exact network and no namesake.
RemoveNetwork(w) ==
  /\ removal[w] = "network"
  /\ net' = [net EXCEPT ![Key(w)] = IF @ = w THEN None ELSE @]
  /\ removal' = [removal EXCEPT ![w] = "allocation"]
  /\ UNCHANGED <<nodeVars, call, status, alloc, journal, lock, overran>>

\* Mutant: an allocation that cannot be released is skipped.
ReleaseAllocation_Skips(w) ==
  /\ removal[w] = "allocation"
  /\ \/ Releasable(Key(w), w) /\ alloc' = [alloc EXCEPT ![Key(w)] = Free]
     \/ UNCHANGED alloc
  /\ removal' = [removal EXCEPT ![w] = "forget"]
  /\ UNCHANGED <<nodeVars, call, status, net, journal, lock, overran>>

ReleaseAllocation(w) ==
  /\ removal[w] = "allocation"
  /\ Releasable(Key(w), w)
  /\ alloc' = [alloc EXCEPT ![Key(w)] = Free]
  /\ removal' = [removal EXCEPT ![w] = "forget"]
  /\ UNCHANGED <<nodeVars, call, status, net, journal, lock, overran>>

\* What a launcher does once its removal has returned.
AfterRemoval(w, id) ==
  IF lock[w] = w
  THEN call' = [call EXCEPT ![w].pc = "abort", ![w].id = id]
  ELSE UNCHANGED call

Forget(w) ==
  /\ removal[w] = "forget"
  /\ journal' = journal \ {w}
  /\ lock' = [lock EXCEPT ![w] = None] /\ removal' = [removal EXCEPT ![w] = "none"]
  /\ AfterRemoval(w, None)
  /\ UNCHANGED <<nodeVars, hostVars, overran>>

\* Any step fails or times out, or the product's process dies.
FailRemoval(w) ==
  /\ removal[w] # "none"
  /\ lock' = [lock EXCEPT ![w] = None] /\ removal' = [removal EXCEPT ![w] = "none"]
  /\ AfterRemoval(w, w)
  /\ UNCHANGED <<nodeVars, hostVars, journal, overran>>

\* The lock is taken for too long, or there is nothing left to remove.
RemovalRefused(c) ==
  /\ call[c].pc = "remove" /\ lock[c] # c
  /\ Go(c, "abort")
  /\ UNCHANGED <<nodeVars, hostVars, removalVars, overran>>

-----------------------------------------------------------------------------
(* Crashes, time and the operator.  Nothing collects a leftover network.    *)

\* The product's process dies; its flocks are released.
Crash(c) ==
  /\ call[c].pc \notin {"idle", "done"}
  /\ Fail(c)
  /\ lock' = Unlock(c)
  /\ removal' = IF lock[c] = c THEN [removal EXCEPT ![c] = "none"] ELSE removal
  /\ UNCHANGED <<nodeVars, hostVars, journal, overran>>

WorkerExits(w) ==
  /\ Running(w)
  /\ status' = [status EXCEPT ![w] = "exited"]
  /\ UNCHANGED <<nodeVars, call, net, alloc, removalVars, overran>>

\* Five minutes pass.  RunContext takes at most 180 s and its cleanup 90 s, but
\* nothing bounds the setup before it, so the launcher may still be at work.
AgeLease(k) ==
  /\ record[k].state = "pending" /\ ~record[k].aged
  /\ overran' = IF \E c \in Callers : Active(c) /\ Key(c) = k
                THEN overran \cup {k} ELSE overran
  /\ record' = [record EXCEPT ![k].aged = TRUE]
  /\ UNCHANGED <<late, call, hostVars, removalVars>>

AgeReservation(k) ==
  /\ alloc[k].recent
  /\ \A c \in Callers : Key(c) = k => ~("allocation" \in call[c].made /\ Active(c))
  /\ alloc' = [alloc EXCEPT ![k].recent = FALSE]
  /\ UNCHANGED <<nodeVars, call, status, net, removalVars, overran>>

\* RecoverOrphan: the engine has no worker for the allocation, and one that
\* was never bound has been there for five minutes.
RecoverOrphan(k) ==
  /\ alloc[k].held /\ Found(k) = {}
  /\ alloc[k].worker # None \/ ~alloc[k].recent
  /\ alloc' = [alloc EXCEPT ![k] = Free]
  /\ UNCHANGED <<nodeVars, call, status, net, removalVars, overran>>

Next ==
  \/ \E c \in Callers, k \in Keys, f \in Options : Begin(c, k, f)
  \/ \E c \in Callers :
       \/ ClaimAnswered(c) \/ ClaimFinds(c) \/ ClaimBusy(c) \/ ClaimGranted(c)
       \/ Existing(c) \/ Setup(c) \/ CreateNetwork(c) \/ Reserve(c)
       \/ CreateWorker(c) \/ LockWorker(c) \/ StartWorker(c) \/ VerifyWorker(c)
       \/ SendFinish(c) \/ HandleFinish(c) \/ GiveUp(c) \/ SendAbort(c)
       \/ HandleAbort(c) \/ Lose(c) \/ Undo(c) \/ RemovalRefused(c) \/ Crash(c)
  \/ \E w \in Callers :
       \/ \E by \in {w, Product} : BeginRemoval(w, by)
       \/ DeleteWorker(w) \/ RemoveNetwork(w) \/ ReleaseAllocation(w)
       \/ Forget(w) \/ FailRemoval(w) \/ WorkerExits(w)
  \/ \E k \in Keys : AgeLease(k) \/ AgeReservation(k) \/ RecoverOrphan(k)

Spec == Init /\ [][Next]_vars

-----------------------------------------------------------------------------
(* Properties.                                                              *)

\* The node keeps its promise: one launcher and one worker of a request at a
\* time, and a final answer, given when no launcher is left that could launch it
\* again; whatever crashes, late messages, lost replies, removals and recoveries
\* happen.  A launcher that outlives its lease may get company, and so outlive
\* the answer, but only at its own request (launch.go claimLaunch, finishLaunch).
Promise == INSTANCE RequestPromise WITH
  holders <- [k \in Keys |-> {c \in Callers : Active(c) /\ Key(c) = k}],
  workers <- [k \in Keys |-> Found(k)],
  final <- [k \in Keys |-> IF record[k].state = "complete" THEN record[k].worker
                                                           ELSE None],
  void <- overran
KeepsPromise == Promise!Spec

\* User code runs only inside the reservation that admission counted for it:
\* no release, recovery, stale removal or other launcher takes the reservation
\* away from a released VM.
ReleasedHasReservation ==
  \A w \in Callers : status[w] = "released" =>
    alloc[Key(w)].held /\ alloc[Key(w)].worker = w

\* The removal record outlives the worker until nothing of it is left: a crash
\* or an error between any two removal steps loses neither the network nor the
\* reservation of a deleted worker.
RemovalIsRecoverable ==
  \A w \in Callers : status[w] = "removed" /\ w \notin journal =>
    net[Key(w)] # w /\ alloc[Key(w)].worker # w

\* "A completed worker removed later cannot be recreated with the same ID."
NoRecreation ==
  \A k \in Keys : record[k].state = "complete" => Found(k) \subseteq {record[k].worker}

\* Launch "creates and starts a worker": a successful answer to a launch names
\* a worker whose launcher has released its user code.
LaunchAnswersStarted ==
  \A c \in Callers : call[c].result = "ok" /\ call[c].fp \notin CreateOnly =>
    status[call[c].worker] # "created"
=============================================================================
