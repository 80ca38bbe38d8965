--------------------------- MODULE LaunchLedgerProofs ---------------------------
(***************************************************************************)
(* Released user code keeps the reservation counted for it and a removal   *)
(* stays recoverable, and the ledger implements RequestPromise: the        *)
(* promise about a request holds until one of its own launchers outlives   *)
(* its lease.  For any number of requests and calls.                       *)
(***************************************************************************)
EXTENDS LaunchLedger, TLAPS

\* What the step of a call says of it.  A launcher creates its worker once,
\* and messages to the node are sent only when it is through with the host.
CallInv ==
  \A c \in Callers :
    /\ call[c].pc # "idle" => Key(c) \in Keys /\ call[c].fp \in Options
    /\ call[c].pc \in {"idle", "claim", "existing", "setup", "network", "reserve",
                       "create"} => status[c] = "none"
    /\ call[c].pc = "created" => status[c] \in {"created", "removed"}
    /\ call[c].pc = "start" => status[c] = "created"
    /\ late[c] # "none" => call[c].pc \in {"confirming", "done"}

\* A launcher that starts its worker holds the worker's lifecycle lock, and so
\* does whoever removes it.
LockInv ==
  \A w \in Callers :
    /\ lock[w] \in {w, Product, None}
    /\ lock[w] = w => call[w].pc \in {"start", "verify", "finish", "remove"}
    /\ call[w].pc \in {"start", "verify", "finish"} => lock[w] = w
    /\ removal[w] # "none" <=> \/ lock[w] = Product
                               \/ lock[w] = w /\ call[w].pc = "remove"

\* How far a removal has come.
RemovalInv ==
  \A w \in Callers :
    /\ removal[w] # "none" => w \in journal
    /\ w \in journal => status[w] # "none"
    /\ removal[w] \in {"network", "allocation", "forget"} => status[w] = "removed"
    /\ removal[w] \in {"allocation", "forget"} => net[Key(w)] # w
    /\ removal[w] = "forget" => alloc[Key(w)].worker # w

\* The engine knows one worker of a name.
UniqueInv ==
  \A v, w \in Callers : Present(v) /\ Present(w) /\ Key(v) = Key(w) => v = w

\* While no launcher of a request has outlived its lease, the lease in the record
\* is that of the only call that acts on the host for it.
LeaseInv ==
  \A c \in Callers : Active(c) /\ Key(c) \notin overran =>
    /\ record[Key(c)].state = "pending" /\ record[Key(c)].lease = c
    /\ ~record[Key(c)].aged

\* So the answer of such a request is its only worker: NoRecreation, of every
\* request but those whose launcher outlived its lease.
AnswersFinal ==
  \A k \in Keys : k \notin overran /\ record[k].state = "complete" =>
    Found(k) \subseteq {record[k].worker}

LaunchInv ==
  /\ TypeOK /\ CallInv /\ LockInv /\ RemovalInv /\ UniqueInv
  /\ ReleasedHasReservation /\ RemovalIsRecoverable
  /\ LeaseInv /\ AnswersFinal

-----------------------------------------------------------------------------
\* A step of call c alone, which keeps its request.
Moves(c, S) ==
  /\ call' \in [Callers -> CallStates]
  /\ \A d \in Callers : call'[d].key = call[d].key /\ call'[d].fp = call[d].fp
  /\ \A d \in Callers \ {c} : call'[d] = call[d]
  /\ call'[c].pc \in S

\* What Go, Fail and Succeed do to the calls.
LEMMA GoMoves ==
  ASSUME TypeOK, NEW c \in Callers, NEW pc \in PCs, Go(c, pc)
  PROVE  Moves(c, {pc})
<1>1. call[c] \in CallStates /\ call \in [Callers -> CallStates]
  BY DEF TypeOK
<1>2. [call[c] EXCEPT !.pc = pc] \in CallStates
  BY <1>1 DEF CallStates
<1>3. call' = [call EXCEPT ![c] = [call[c] EXCEPT !.pc = pc]]
  BY <1>1 DEF Go
<1>4. QED BY <1>1, <1>2, <1>3 DEF Moves, CallStates

\* A call that failed is done.
LEMMA FailMoves ==
  ASSUME TypeOK, NEW c \in Callers, Fail(c)
  PROVE  Moves(c, {"done"})
<1>1. call[c] \in CallStates /\ call \in [Callers -> CallStates]
  BY DEF TypeOK
<1>2. [call[c] EXCEPT !.pc = "done", !.made = {}, !.worker = None, !.result = "failed"]
        \in CallStates
  BY <1>1 DEF CallStates, PCs
<1>3. call' = [call EXCEPT ![c] =
        [call[c] EXCEPT !.pc = "done", !.made = {}, !.worker = None, !.result = "failed"]]
  BY <1>1 DEF Fail, CallStates
<1>4. QED BY <1>1, <1>2, <1>3 DEF Moves, CallStates

\* So is one that has a worker to return.
LEMMA SucceedMoves ==
  ASSUME TypeOK, NEW c \in Callers, NEW w \in Callers \cup {None}, Succeed(c, w)
  PROVE  Moves(c, {"done"})
<1>1. call[c] \in CallStates /\ call \in [Callers -> CallStates]
  BY DEF TypeOK
<1>2. [call[c] EXCEPT !.pc = "done", !.made = {}, !.worker = w, !.result = "ok"]
        \in CallStates
  BY <1>1 DEF CallStates, PCs
<1>3. call' = [call EXCEPT ![c] =
        [call[c] EXCEPT !.pc = "done", !.made = {}, !.worker = w, !.result = "ok"]]
  BY <1>1 DEF Succeed, CallStates
<1>4. QED BY <1>1, <1>2, <1>3 DEF Moves, CallStates

\* The other ways in which calls change.
LEMMA MadeMoves ==
  ASSUME TypeOK, NEW c \in Callers, NEW pc \in PCs,
         NEW made \in SUBSET {"network", "allocation"},
         call' = [call EXCEPT ![c].pc = pc, ![c].made = made]
  PROVE  Moves(c, {pc})
<1>1. call[c] \in CallStates /\ call \in [Callers -> CallStates]
  BY DEF TypeOK
<1>2. [call[c] EXCEPT !.pc = pc, !.made = made] \in CallStates
  BY <1>1 DEF CallStates
<1>3. call' = [call EXCEPT ![c] = [call[c] EXCEPT !.pc = pc, !.made = made]]
  BY <1>1 DEF CallStates
<1>4. QED BY <1>1, <1>2, <1>3 DEF Moves, CallStates

\* A launcher that learns the ID of the worker it created.
LEMMA IdMoves ==
  ASSUME TypeOK, NEW c \in Callers, NEW pc \in PCs, NEW id \in Callers \cup {None},
         call' = [call EXCEPT ![c].pc = pc, ![c].id = id]
  PROVE  Moves(c, {pc})
<1>1. call[c] \in CallStates /\ call \in [Callers -> CallStates]
  BY DEF TypeOK
<1>2. [call[c] EXCEPT !.pc = pc, !.id = id] \in CallStates
  BY <1>1 DEF CallStates
<1>3. call' = [call EXCEPT ![c] = [call[c] EXCEPT !.pc = pc, !.id = id]]
  BY <1>1 DEF CallStates
<1>4. QED BY <1>1, <1>2, <1>3 DEF Moves, CallStates

\* A claim that finds a worker.
LEMMA WorkerMoves ==
  ASSUME TypeOK, NEW c \in Callers, NEW pc \in PCs, NEW w \in Callers \cup {None},
         call' = [call EXCEPT ![c].pc = pc, ![c].worker = w]
  PROVE  Moves(c, {pc})
<1>1. call[c] \in CallStates /\ call \in [Callers -> CallStates]
  BY DEF TypeOK
<1>2. [call[c] EXCEPT !.pc = pc, !.worker = w] \in CallStates
  BY <1>1 DEF CallStates
<1>3. call' = [call EXCEPT ![c] = [call[c] EXCEPT !.pc = pc, !.worker = w]]
  BY <1>1 DEF CallStates
<1>4. QED BY <1>1, <1>2, <1>3 DEF Moves, CallStates

\* The records and the reservations that steps write.
LEMMA RecordTypes ==
  ASSUME TypeOK, NEW k
  PROVE  /\ \A w \in Callers : Complete(k, w) => record' \in [Keys -> Records]
         /\ \A c \in Callers :
              [record EXCEPT ![k] = [state |-> "pending", fp |-> call[c].fp, lease |-> c,
                 worker |-> None, aged |-> FALSE]] \in [Keys -> Records]
         /\ [record EXCEPT ![k].aged = TRUE] \in [Keys -> Records]
<1>1. ASSUME NEW c \in Callers
      PROVE  [state |-> "pending", fp |-> call[c].fp, lease |-> c,
              worker |-> None, aged |-> FALSE] \in Records
  BY DEF TypeOK, CallStates, Records
<1>2. ASSUME NEW w \in Callers
      PROVE  [state |-> "complete", fp |-> call[w].fp, lease |-> None,
              worker |-> w, aged |-> FALSE] \in Records
  BY DEF TypeOK, CallStates, Records
<1>3. CASE k \in Keys
  <2>1. record[k] \in Records
    BY <1>3 DEF TypeOK
  <2>2. [record[k] EXCEPT !.aged = TRUE] \in Records
    BY <2>1 DEF Records
  <2>3. QED BY <1>1, <1>2, <2>2 DEF Complete, TypeOK
<1>4. CASE k \notin Keys
  BY <1>4 DEF Complete, TypeOK
<1>5. QED BY <1>3, <1>4

\* Abort keeps the fingerprint of the record it changes.
LEMMA AbortTypes ==
  ASSUME TypeOK, NEW k, NEW c \in Callers, NEW state \in {"failed", "cleanup-pending"}
  PROVE  [record EXCEPT ![k] = [record[k] EXCEPT !.state = state, !.worker = call[c].id,
            !.lease = None, !.aged = FALSE]] \in [Keys -> Records]
<1>1. call[c].id \in Callers \cup {None}
  BY DEF TypeOK, CallStates
<1>2. CASE k \in Keys
  <2>1. record[k] \in Records
    BY <1>2 DEF TypeOK
  <2>2. [record[k] EXCEPT !.state = state, !.worker = call[c].id, !.lease = None,
           !.aged = FALSE] \in Records
    BY <1>1, <2>1 DEF Records
  <2>3. QED BY <2>2 DEF TypeOK
<1>3. CASE k \notin Keys
  BY <1>3 DEF TypeOK
<1>4. QED BY <1>2, <1>3

\* The reservations that steps write.
LEMMA AllocTypes ==
  ASSUME TypeOK, NEW k
  PROVE  /\ [alloc EXCEPT ![k] = Free] \in [Keys -> Allocations]
         /\ [alloc EXCEPT ![k] = [held |-> TRUE, worker |-> None, recent |-> TRUE]]
              \in [Keys -> Allocations]
         /\ [alloc EXCEPT ![k].recent = FALSE] \in [Keys -> Allocations]
         /\ \A c \in Callers : [alloc EXCEPT ![k].worker = c] \in [Keys -> Allocations]
<1>1. /\ Free \in Allocations
      /\ [held |-> TRUE, worker |-> None, recent |-> TRUE] \in Allocations
  BY DEF Free, Allocations
<1>2. CASE k \in Keys
  <2>1. alloc[k] \in Allocations
    BY <1>2 DEF TypeOK
  <2>2. /\ [alloc[k] EXCEPT !.recent = FALSE] \in Allocations
        /\ \A c \in Callers : [alloc[k] EXCEPT !.worker = c] \in Allocations
    BY <2>1 DEF Allocations
  <2>3. QED BY <1>1, <2>2 DEF TypeOK
<1>3. CASE k \notin Keys
  BY <1>3 DEF TypeOK
<1>4. QED BY <1>2, <1>3

\* Unlocking leaves a table of locks.
LEMMA UnlockTypes ==
  ASSUME TypeOK, NEW c \in Callers
  PROVE  Unlock(c) \in [Callers -> Callers \cup {Product, None}]
  BY DEF TypeOK, Unlock

\* Which steps a call takes, and that it keeps its request.
LEMMA CallSteps ==
  ASSUME LaunchInv, NEW c \in Callers
  PROVE  /\ ClaimAnswered(c) => Moves(c, {"existing", "done"})
         /\ ClaimFinds(c) => Moves(c, {"existing", "done"})
         /\ ClaimBusy(c) => Moves(c, {"done"})
         /\ ClaimGranted(c) => Moves(c, {"setup", "done"})
         /\ Existing(c) => Moves(c, {"done"})
         /\ Setup(c) => Moves(c, {"network", "abort"})
         /\ CreateNetwork(c) => Moves(c, {"reserve", "undo", "abort"})
         /\ Reserve(c) => Moves(c, {"create", "undo"})
         /\ CreateWorker(c) => Moves(c, {"created", "undo"})
         /\ LockWorker(c) => Moves(c, {"finish", "start", "remove"})
         /\ StartWorker(c) => Moves(c, {"verify", "remove"})
         /\ VerifyWorker(c) => Moves(c, {"finish", "remove"})
         /\ SendFinish(c) => Moves(c, {"confirming", "remove"})
         /\ HandleFinish(c) =>
               UNCHANGED call \/ (call[c].pc = "confirming" /\ Moves(c, {"done"}))
         /\ GiveUp(c) => Moves(c, {"done"})
         /\ SendAbort(c) => Moves(c, {"done"})
         /\ Undo(c) => Moves(c, {"undo", "abort"})
         /\ RemovalRefused(c) => Moves(c, {"abort"})
         /\ Crash(c) => Moves(c, {"done"})
         /\ Forget(c) => UNCHANGED call \/ (call[c].pc = "remove" /\ Moves(c, {"abort"}))
         /\ FailRemoval(c) => UNCHANGED call \/ (call[c].pc = "remove" /\ Moves(c, {"abort"}))
<1>1. ASSUME ClaimAnswered(c) PROVE Moves(c, {"existing", "done"})
  <2> USE <1>1
  <2>1. CASE Fail(c)
    BY <2>1, FailMoves DEF LaunchInv, Moves
  <2>2. CASE ~Fail(c)
    <3>1. /\ call[c].pc = "claim" /\ record[Key(c)].state = "complete"
          /\ call' = [call EXCEPT ![c].pc = "existing", ![c].worker = record[Key(c)].worker]
      BY <2>2 DEF ClaimAnswered
    <3>2. record[Key(c)].worker \in Callers \cup {None}
      BY <3>1 DEF LaunchInv, CallInv, TypeOK, Records, Key
    <3>3. PICK w \in Callers \cup {None} :
            call' = [call EXCEPT ![c].pc = "existing", ![c].worker = w]
      BY <3>1, <3>2
    <3>4. QED BY <3>3, WorkerMoves DEF LaunchInv, PCs, Moves
  <2>3. QED BY <2>1, <2>2
<1>2. ASSUME ClaimFinds(c) PROVE Moves(c, {"existing", "done"})
  BY <1>2, FailMoves, WorkerMoves DEF ClaimFinds, LaunchInv, PCs, Moves, Found
<1>3. ASSUME ClaimBusy(c) PROVE Moves(c, {"done"})
  BY <1>3, FailMoves DEF ClaimBusy, LaunchInv, PCs, Moves
<1>4. ASSUME ClaimGranted(c) PROVE Moves(c, {"setup", "done"})
  BY <1>4, GoMoves, FailMoves DEF ClaimGranted, LaunchInv, PCs, Moves
<1>5. ASSUME Existing(c) PROVE Moves(c, {"done"})
  BY <1>5, SucceedMoves, FailMoves DEF Existing, LaunchInv, PCs, Moves, TypeOK, CallStates
<1>6. ASSUME Setup(c) PROVE Moves(c, {"network", "abort"})
  BY <1>6, GoMoves DEF Setup, LaunchInv, PCs, Moves
<1>7. ASSUME CreateNetwork(c) PROVE Moves(c, {"reserve", "undo", "abort"})
  <2> USE <1>7
  <2>1. CASE Go(c, "abort")
    BY <2>1, GoMoves DEF LaunchInv, PCs, Moves
  <2>2. CASE \E next \in {"reserve", "undo"} :
               call' = [call EXCEPT ![c].pc = next, ![c].made = {"network"}]
    <3>1. PICK next \in {"reserve", "undo"} :
            call' = [call EXCEPT ![c].pc = next, ![c].made = {"network"}]
      BY <2>2
    <3>2. {"network"} \in SUBSET {"network", "allocation"} /\ next \in PCs
      BY DEF PCs
    <3>3. Moves(c, {next})
      BY <3>1, <3>2, MadeMoves DEF LaunchInv
    <3>4. QED BY <3>3 DEF Moves
  <2>3. QED BY <2>1, <2>2 DEF CreateNetwork
<1>8. ASSUME Reserve(c) PROVE Moves(c, {"create", "undo"})
  <2> USE <1>8
  <2>1. call[c].made \cup {"allocation"} \in SUBSET {"network", "allocation"}
    BY DEF LaunchInv, TypeOK, CallStates
  <2>2. PICK next \in {"create", "undo"} :
          call' = [call EXCEPT ![c].pc = next, ![c].made = call[c].made \cup {"allocation"}]
    BY DEF Reserve, LaunchInv, TypeOK, CallStates
  <2>3. Moves(c, {next})
    BY <2>1, <2>2, MadeMoves DEF LaunchInv, PCs
  <2>4. QED BY <2>3 DEF Moves
<1>9. ASSUME CreateWorker(c) PROVE Moves(c, {"created", "undo"})
  BY <1>9, GoMoves, IdMoves DEF CreateWorker, LaunchInv, PCs, Moves
<1>10. ASSUME LockWorker(c) PROVE Moves(c, {"finish", "start", "remove"})
  BY <1>10, GoMoves DEF LockWorker, LaunchInv, PCs, Moves
<1>11. ASSUME StartWorker(c) PROVE Moves(c, {"verify", "remove"})
  BY <1>11, GoMoves DEF StartWorker, LaunchInv, PCs, Moves
<1>12. ASSUME VerifyWorker(c) PROVE Moves(c, {"finish", "remove"})
  BY <1>12, GoMoves DEF VerifyWorker, LaunchInv, PCs, Moves
<1>13. ASSUME SendFinish(c) PROVE Moves(c, {"confirming", "remove"})
  BY <1>13, GoMoves DEF SendFinish, LaunchInv, PCs, Moves
<1>14. ASSUME HandleFinish(c)
      PROVE UNCHANGED call \/ (call[c].pc = "confirming" /\ Moves(c, {"done"}))
  BY <1>14, SucceedMoves DEF HandleFinish, LaunchInv
<1>15. ASSUME GiveUp(c) PROVE Moves(c, {"done"})
  BY <1>15, FailMoves DEF GiveUp, LaunchInv, PCs, Moves
<1>16. ASSUME SendAbort(c) PROVE Moves(c, {"done"})
  BY <1>16, FailMoves DEF SendAbort, LaunchInv, PCs, Moves
<1>17. ASSUME Undo(c) PROVE Moves(c, {"undo", "abort"})
  <2> USE <1>17
  <2>1. call[c] \in CallStates
    BY DEF LaunchInv, TypeOK
  <2>2. CASE Go(c, "abort")
    BY <2>2, GoMoves DEF LaunchInv, PCs, Moves
  <2>3. CASE \E made \in SUBSET call[c].made : call' = [call EXCEPT ![c].made = made]
    <3>1. PICK made \in SUBSET call[c].made : call' = [call EXCEPT ![c].made = made]
      BY <2>3
    <3>2. [call[c] EXCEPT !.made = made] \in CallStates /\ call[c].pc = "undo"
      BY <2>1, <3>1 DEF CallStates, Undo
    <3>3. QED BY <3>1, <3>2, <2>1 DEF LaunchInv, TypeOK, Moves, CallStates
  <2>4. QED BY <2>2, <2>3 DEF Undo
<1>18. ASSUME RemovalRefused(c) PROVE Moves(c, {"abort"})
  BY <1>18, GoMoves DEF RemovalRefused, LaunchInv, PCs, Moves
<1>19. ASSUME Crash(c) PROVE Moves(c, {"done"})
  BY <1>19, FailMoves DEF Crash, LaunchInv, PCs, Moves
<1>20. ASSUME Forget(c) PROVE UNCHANGED call \/ (call[c].pc = "remove" /\ Moves(c, {"abort"}))
  <2> USE <1>20
  <2>1. AfterRemoval(c, None)
    BY DEF Forget
  <2>2. lock[c] = c => call[c].pc = "remove"
    BY LaunchAssumption DEF Forget, LaunchInv, LockInv
  <2>3. CASE lock[c] = c
    BY <2>1, <2>2, <2>3, IdMoves DEF AfterRemoval, LaunchInv, PCs, Moves
  <2>4. CASE lock[c] # c
    BY <2>1, <2>4 DEF AfterRemoval
  <2>5. QED BY <2>3, <2>4
<1>21. ASSUME FailRemoval(c)
      PROVE UNCHANGED call \/ (call[c].pc = "remove" /\ Moves(c, {"abort"}))
  <2> USE <1>21
  <2>1. AfterRemoval(c, c)
    BY DEF FailRemoval
  <2>2. lock[c] = c => call[c].pc = "remove"
    BY LaunchAssumption DEF FailRemoval, LaunchInv, LockInv
  <2>3. CASE lock[c] = c
    BY <2>1, <2>2, <2>3, IdMoves DEF AfterRemoval, LaunchInv, PCs, Moves
  <2>4. CASE lock[c] # c
    BY <2>1, <2>4 DEF AfterRemoval
  <2>5. QED BY <2>3, <2>4
<1>22. QED BY <1>1, <1>2, <1>3, <1>4, <1>5, <1>6, <1>7, <1>8, <1>9, <1>10, <1>11, <1>12,
     <1>13, <1>14, <1>15, <1>16, <1>17, <1>18, <1>19, <1>20, <1>21

\* A call with its request and its options.
LEMMA BeginInv ==
  ASSUME LaunchInv, NEW c \in Callers, NEW k \in Keys, NEW f \in Options, Begin(c, k, f),
         UNCHANGED overran
  PROVE  LaunchInv'
<1>1. /\ call' \in [Callers -> CallStates] /\ call[c].pc = "idle"
      /\ call'[c].pc = "claim" /\ call'[c].key = k /\ call'[c].fp = f
      /\ \A d \in Callers \ {c} : call'[d] = call[d]
  <2>1. [NoCall EXCEPT !.pc = "claim", !.key = k, !.fp = f] \in CallStates
    BY DEF NoCall, CallStates, PCs
  <2>2. QED BY <2>1 DEF Begin, LaunchInv, TypeOK, NoCall, CallStates
<1>2. Key(c)' = k /\ \A d \in Callers : d # c => Key(d)' = Key(d)
  BY <1>1 DEF Key
<1>3. TypeOK'
  BY <1>1, <1>2 DEF Begin, LaunchInv, TypeOK, nodeVars, hostVars, removalVars
<1>4. CallInv'
  BY <1>1, <1>2 DEF Begin, LaunchInv, CallInv, nodeVars, hostVars, removalVars
<1>5. LockInv'
  BY <1>1, <1>2 DEF Begin, LaunchInv, LockInv, nodeVars, hostVars, removalVars
<1>6. LeaseInv'
  BY <1>1, <1>2 DEF Begin, LaunchInv, LeaseInv, Active, nodeVars, hostVars, removalVars
<1>7. RemovalInv' /\ UniqueInv' /\ ReleasedHasReservation' /\ RemovalIsRecoverable' /\
      AnswersFinal'
  <2>1. status[c] = "none" /\ ~Present(c)
    BY <1>1 DEF LaunchInv, CallInv, Present
  <2>2. RemovalInv' /\ RemovalIsRecoverable'
    BY <1>1, <1>2, <2>1 DEF Begin, LaunchInv, RemovalInv, RemovalIsRecoverable, nodeVars,
                            hostVars, removalVars
  <2>3. UniqueInv' /\ ReleasedHasReservation'
    BY <1>1, <1>2, <2>1 DEF Begin, LaunchInv, UniqueInv, ReleasedHasReservation, Present,
                            hostVars
  <2>4. AnswersFinal'
    BY <1>1, <1>2, <2>1 DEF Begin, LaunchInv, AnswersFinal, Found, Present, nodeVars, hostVars
  <2>5. QED BY <2>2, <2>3, <2>4
<1>8. QED BY <1>3, <1>4, <1>5, <1>6, <1>7 DEF LaunchInv

\* The claim ends with what the record says.
LEMMA ClaimAnsweredInv ==
  ASSUME LaunchInv, NEW c \in Callers, ClaimAnswered(c), UNCHANGED overran
  PROVE  LaunchInv'
<1>1. Moves(c, {"existing", "done"})
  BY CallSteps
<1>2. \A d \in Callers : Key(d)' = Key(d)
  BY <1>1 DEF Moves, Key
<1>3. TypeOK'
  BY <1>1 DEF ClaimAnswered, LaunchInv, TypeOK, Moves, nodeVars, hostVars, removalVars
<1>4. CallInv'
  BY <1>1, <1>2 DEF ClaimAnswered, LaunchInv, Moves, CallInv, nodeVars, hostVars, removalVars
<1>5. LockInv'
  BY <1>1 DEF ClaimAnswered, LaunchInv, Moves, LockInv, nodeVars, hostVars, removalVars
<1>6. LeaseInv'
  BY <1>1, <1>2 DEF ClaimAnswered, LaunchInv, Moves, LeaseInv, Active, nodeVars, hostVars,
                    removalVars
<1>7. RemovalInv' /\ UniqueInv' /\ ReleasedHasReservation' /\ RemovalIsRecoverable' /\
      AnswersFinal'
  BY <1>2 DEF ClaimAnswered, LaunchInv, RemovalInv, UniqueInv, ReleasedHasReservation,
              RemovalIsRecoverable, AnswersFinal, Present, Found, nodeVars, hostVars,
              removalVars
<1>8. QED BY <1>3, <1>4, <1>5, <1>6, <1>7 DEF LaunchInv

\* The claim ends with a worker that the engine knows.
LEMMA ClaimFindsInv ==
  ASSUME LaunchInv, NEW c \in Callers, ClaimFinds(c), UNCHANGED overran
  PROVE  LaunchInv'
<1>1. Moves(c, {"existing", "done"})
  BY CallSteps
<1>2. \A d \in Callers : Key(d)' = Key(d)
  BY <1>1 DEF Moves, Key
<1>3. TypeOK'
  BY <1>1, RecordTypes DEF ClaimFinds, LaunchInv, TypeOK, Moves, Found, nodeVars, hostVars,
       removalVars
<1>4. CallInv'
  BY <1>1, <1>2 DEF ClaimFinds, LaunchInv, Moves, CallInv, hostVars, removalVars
<1>5. LockInv'
  BY <1>1 DEF ClaimFinds, LaunchInv, Moves, LockInv, hostVars, removalVars
<1>6. LeaseInv'
  BY <1>1, <1>2 DEF ClaimFinds, LaunchInv, Moves, LeaseInv, Matches, Open, Found, Complete,
                    Active, hostVars, removalVars
<1>7. AnswersFinal'
  BY <1>2 DEF ClaimFinds, LaunchInv, AnswersFinal, CallInv, LockInv, RemovalInv, UniqueInv,
              LeaseInv, TypeOK, Matches, Open, Found, Present, Complete, Active, hostVars,
              removalVars
<1>8. RemovalInv' /\ UniqueInv' /\ ReleasedHasReservation' /\ RemovalIsRecoverable'
  BY <1>2 DEF ClaimFinds, LaunchInv, RemovalInv, UniqueInv, ReleasedHasReservation,
              RemovalIsRecoverable, Present, hostVars, removalVars
<1>9. QED BY <1>3, <1>4, <1>5, <1>6, <1>7, <1>8 DEF LaunchInv

\* An earlier attempt left a reservation.
LEMMA ClaimBusyInv ==
  ASSUME LaunchInv, NEW c \in Callers, ClaimBusy(c), UNCHANGED overran
  PROVE  LaunchInv'
<1>1. Moves(c, {"done"})
  BY CallSteps
<1>2. \A d \in Callers : Key(d)' = Key(d)
  BY <1>1 DEF Moves, Key
<1>3. TypeOK'
  BY <1>1 DEF ClaimBusy, LaunchInv, TypeOK, Moves, nodeVars, hostVars, removalVars
<1>4. CallInv'
  BY <1>1, <1>2 DEF ClaimBusy, LaunchInv, Moves, CallInv, nodeVars, hostVars, removalVars
<1>5. LockInv'
  BY <1>1 DEF ClaimBusy, LaunchInv, Moves, LockInv, nodeVars, hostVars, removalVars
<1>6. LeaseInv'
  BY <1>1, <1>2 DEF ClaimBusy, LaunchInv, Moves, LeaseInv, Active, nodeVars, hostVars,
                    removalVars
<1>7. RemovalInv' /\ UniqueInv' /\ ReleasedHasReservation' /\ RemovalIsRecoverable' /\
      AnswersFinal'
  BY <1>2 DEF ClaimBusy, LaunchInv, RemovalInv, UniqueInv, ReleasedHasReservation,
              RemovalIsRecoverable, AnswersFinal, Present, Found, nodeVars, hostVars,
              removalVars
<1>8. QED BY <1>3, <1>4, <1>5, <1>6, <1>7 DEF LaunchInv

\* A new lease.
LEMMA ClaimGrantedInv ==
  ASSUME LaunchInv, NEW c \in Callers, ClaimGranted(c), UNCHANGED overran
  PROVE  LaunchInv'
<1>1. Moves(c, {"setup", "done"})
  BY CallSteps
<1>2. \A d \in Callers : Key(d)' = Key(d)
  BY <1>1 DEF Moves, Key
<1>3. TypeOK'
  BY <1>1, RecordTypes DEF ClaimGranted, LaunchInv, TypeOK, Moves, nodeVars, hostVars,
       removalVars
<1>4. CallInv'
  BY <1>1, <1>2 DEF ClaimGranted, LaunchInv, Moves, CallInv, hostVars, removalVars
<1>5. LockInv'
  BY <1>1 DEF ClaimGranted, LaunchInv, Moves, LockInv, hostVars, removalVars
<1>6. LeaseInv'
  BY <1>1, <1>2 DEF ClaimGranted, LaunchInv, Moves, LeaseInv, CallInv, TypeOK, Matches, Open,
                    Found, Present, Vacant, Active, hostVars, removalVars
<1>7. AnswersFinal'
  BY <1>2 DEF ClaimGranted, LaunchInv, AnswersFinal, TypeOK, Matches, Open, Found, Present,
              Vacant, hostVars, removalVars
<1>8. RemovalInv' /\ UniqueInv' /\ ReleasedHasReservation' /\ RemovalIsRecoverable'
  BY <1>2 DEF ClaimGranted, LaunchInv, RemovalInv, UniqueInv, ReleasedHasReservation,
              RemovalIsRecoverable, Present, hostVars, removalVars
<1>9. QED BY <1>3, <1>4, <1>5, <1>6, <1>7, <1>8 DEF LaunchInv

\* The recorded worker is inspected.
LEMMA ExistingInv ==
  ASSUME LaunchInv, NEW c \in Callers, Existing(c), UNCHANGED overran
  PROVE  LaunchInv'
<1>1. Moves(c, {"done"})
  BY CallSteps
<1>2. \A d \in Callers : Key(d)' = Key(d)
  BY <1>1 DEF Moves, Key
<1>3. TypeOK'
  BY <1>1 DEF Existing, LaunchInv, TypeOK, Moves, nodeVars, hostVars, removalVars
<1>4. CallInv'
  BY <1>1, <1>2 DEF Existing, LaunchInv, Moves, CallInv, nodeVars, hostVars, removalVars
<1>5. LockInv'
  BY <1>1 DEF Existing, LaunchInv, Moves, LockInv, nodeVars, hostVars, removalVars
<1>6. LeaseInv'
  BY <1>1, <1>2 DEF Existing, LaunchInv, Moves, LeaseInv, Active, nodeVars, hostVars,
                    removalVars
<1>7. RemovalInv' /\ UniqueInv' /\ ReleasedHasReservation' /\ RemovalIsRecoverable' /\
      AnswersFinal'
  BY <1>2 DEF Existing, LaunchInv, RemovalInv, UniqueInv, ReleasedHasReservation,
              RemovalIsRecoverable, AnswersFinal, Present, Found, nodeVars, hostVars,
              removalVars
<1>8. QED BY <1>3, <1>4, <1>5, <1>6, <1>7 DEF LaunchInv

\* Proxies and clones.
LEMMA SetupInv ==
  ASSUME LaunchInv, NEW c \in Callers, Setup(c), UNCHANGED overran
  PROVE  LaunchInv'
<1>1. Moves(c, {"network", "abort"})
  BY CallSteps
<1>2. \A d \in Callers : Key(d)' = Key(d)
  BY <1>1 DEF Moves, Key
<1>3. TypeOK'
  BY <1>1 DEF Setup, LaunchInv, TypeOK, Moves, nodeVars, hostVars, removalVars
<1>4. CallInv'
  BY <1>1, <1>2 DEF Setup, LaunchInv, Moves, CallInv, nodeVars, hostVars, removalVars
<1>5. LockInv'
  BY <1>1 DEF Setup, LaunchInv, Moves, LockInv, nodeVars, hostVars, removalVars
<1>6. LeaseInv'
  BY <1>1, <1>2 DEF Setup, LaunchInv, Moves, LeaseInv, Active, nodeVars, hostVars, removalVars
<1>7. RemovalInv' /\ UniqueInv' /\ ReleasedHasReservation' /\ RemovalIsRecoverable' /\
      AnswersFinal'
  BY <1>2 DEF Setup, LaunchInv, RemovalInv, UniqueInv, ReleasedHasReservation,
              RemovalIsRecoverable, AnswersFinal, Present, Found, nodeVars, hostVars,
              removalVars
<1>8. QED BY <1>3, <1>4, <1>5, <1>6, <1>7 DEF LaunchInv

\* The worker network.
LEMMA CreateNetworkInv ==
  ASSUME LaunchInv, NEW c \in Callers, CreateNetwork(c), UNCHANGED overran
  PROVE  LaunchInv'
<1>1. Moves(c, {"reserve", "undo", "abort"})
  BY CallSteps
<1>2. \A d \in Callers : Key(d)' = Key(d)
  BY <1>1 DEF Moves, Key
<1>3. TypeOK'
  BY <1>1 DEF CreateNetwork, LaunchInv, TypeOK, Moves, nodeVars, hostVars, removalVars
<1>4. CallInv'
  BY <1>1, <1>2 DEF CreateNetwork, LaunchInv, Moves, CallInv, nodeVars, removalVars
<1>5. LockInv'
  BY <1>1 DEF CreateNetwork, LaunchInv, Moves, LockInv, nodeVars, removalVars
<1>6. RemovalInv'
  BY <1>2, LaunchAssumption DEF CreateNetwork, LaunchInv, RemovalInv, CallInv, TypeOK, nodeVars,
     removalVars
<1>7. RemovalIsRecoverable'
  BY <1>2, LaunchAssumption DEF CreateNetwork, LaunchInv, RemovalIsRecoverable, CallInv, TypeOK,
     nodeVars, removalVars
<1>8. LeaseInv'
  BY <1>1, <1>2 DEF CreateNetwork, LaunchInv, Moves, LeaseInv, Active, nodeVars, removalVars
<1>9. UniqueInv' /\ ReleasedHasReservation' /\ AnswersFinal'
  BY <1>2 DEF CreateNetwork, LaunchInv, UniqueInv, ReleasedHasReservation, AnswersFinal,
              Present, Found, nodeVars, removalVars
<1>10. QED BY <1>3, <1>4, <1>5, <1>6, <1>7, <1>8, <1>9 DEF LaunchInv

\* The reservation.
LEMMA ReserveInv ==
  ASSUME LaunchInv, NEW c \in Callers, Reserve(c), UNCHANGED overran
  PROVE  LaunchInv'
<1>1. Moves(c, {"create", "undo"})
  BY CallSteps
<1>2. \A d \in Callers : Key(d)' = Key(d)
  BY <1>1 DEF Moves, Key
<1>3. TypeOK'
  <2>1. alloc' \in {alloc, [alloc EXCEPT ![Key(c)] =
                                     [held |-> TRUE, worker |-> None, recent |-> TRUE]]}
    BY DEF Reserve
  <2>2. alloc' \in [Keys -> Allocations]
    BY <2>1, AllocTypes DEF LaunchInv, TypeOK
  <2>3. QED BY <1>1, <2>2 DEF Reserve, LaunchInv, TypeOK, Moves, nodeVars, removalVars
<1>4. CallInv'
  BY <1>1, <1>2 DEF Reserve, LaunchInv, Moves, CallInv, nodeVars, removalVars
<1>5. LockInv'
  BY <1>1 DEF Reserve, LaunchInv, Moves, LockInv, nodeVars, removalVars
<1>6. RemovalInv'
  BY <1>2, LaunchAssumption DEF Reserve, LaunchInv, RemovalInv, CallInv, TypeOK, Occupied,
     Running, nodeVars, removalVars
<1>7. ReleasedHasReservation'
  BY <1>2, LaunchAssumption DEF Reserve, LaunchInv, ReleasedHasReservation, CallInv, TypeOK,
     Occupied, Running, nodeVars, removalVars
<1>8. RemovalIsRecoverable'
  BY <1>2, LaunchAssumption DEF Reserve, LaunchInv, RemovalIsRecoverable, CallInv, LockInv,
     TypeOK, Occupied, Running, nodeVars, removalVars
<1>9. LeaseInv'
  BY <1>1, <1>2 DEF Reserve, LaunchInv, Moves, LeaseInv, Active, nodeVars, removalVars
<1>10. UniqueInv' /\ AnswersFinal'
  BY <1>2 DEF Reserve, LaunchInv, UniqueInv, AnswersFinal, Present, Found, nodeVars, removalVars
<1>11. QED BY <1>3, <1>4, <1>5, <1>6, <1>7, <1>8, <1>9, <1>10 DEF LaunchInv

\* The worker.
LEMMA CreateWorkerInv ==
  ASSUME LaunchInv, NEW c \in Callers, CreateWorker(c), UNCHANGED overran
  PROVE  LaunchInv'
<1>1. Moves(c, {"created", "undo"})
  BY CallSteps
<1>2. \A d \in Callers : Key(d)' = Key(d)
  BY <1>1 DEF Moves, Key
<1>3. \/ status' = [status EXCEPT ![c] = "created"] /\ Moves(c, {"created", "undo"})
      \/ UNCHANGED status /\ Moves(c, {"undo"})
  BY GoMoves, IdMoves DEF CreateWorker, LaunchInv, PCs, Moves
<1>4. TypeOK'
  BY <1>1 DEF CreateWorker, LaunchInv, TypeOK, Moves, nodeVars, hostVars, removalVars
<1>5. CallInv'
  BY <1>1, <1>2, <1>3, LaunchAssumption DEF CreateWorker, LaunchInv, Moves, CallInv, TypeOK,
     Found, Present, nodeVars, removalVars
<1>6. LockInv'
  BY <1>1, <1>3 DEF CreateWorker, LaunchInv, Moves, LockInv, nodeVars, removalVars
<1>7. RemovalInv'
  BY <1>2, LaunchAssumption DEF CreateWorker, LaunchInv, RemovalInv, CallInv, TypeOK, Found,
     Present, nodeVars, removalVars
<1>8. UniqueInv'
  BY <1>2 DEF CreateWorker, LaunchInv, UniqueInv, TypeOK, Found, Present, nodeVars, removalVars
<1>9. ReleasedHasReservation'
  BY <1>2, LaunchAssumption DEF CreateWorker, LaunchInv, ReleasedHasReservation, TypeOK, Found,
     Present, nodeVars, removalVars
<1>10. RemovalIsRecoverable'
  BY <1>2, LaunchAssumption DEF CreateWorker, LaunchInv, RemovalIsRecoverable, TypeOK, Found,
     Present, nodeVars, removalVars
<1>11. LeaseInv'
  BY <1>1, <1>2 DEF CreateWorker, LaunchInv, Moves, LeaseInv, Active, nodeVars, removalVars
<1>12. AnswersFinal'
  BY <1>2 DEF CreateWorker, LaunchInv, AnswersFinal, CallInv, LockInv, RemovalInv, UniqueInv,
              LeaseInv, TypeOK, Found, Present, Active, nodeVars, removalVars
<1>13. QED BY <1>4, <1>5, <1>6, <1>7, <1>8, <1>9, <1>10, <1>11, <1>12 DEF LaunchInv

\* Its lifecycle lock.
LEMMA LockWorkerInv ==
  ASSUME LaunchInv, NEW c \in Callers, LockWorker(c), UNCHANGED overran
  PROVE  LaunchInv'
<1>1. Moves(c, {"finish", "start", "remove"})
  BY CallSteps
<1>2. \A d \in Callers : Key(d)' = Key(d)
  BY <1>1 DEF Moves, Key
<1>3. \/ /\ lock[c] = None /\ Present(c) /\ lock' = [lock EXCEPT ![c] = c]
         /\ Moves(c, {"finish", "start"})
      \/ UNCHANGED lock /\ Moves(c, {"remove"})
  BY GoMoves DEF LockWorker, LaunchInv, PCs, Moves
<1>4. TypeOK'
  BY <1>1 DEF LockWorker, LaunchInv, TypeOK, Moves, nodeVars, hostVars, removalVars
<1>5. CallInv'
  BY <1>1, <1>2, <1>3, LaunchAssumption DEF LockWorker, LaunchInv, Moves, CallInv, TypeOK,
     Present, nodeVars, hostVars
<1>6. LockInv'
  BY <1>1, <1>3, LaunchAssumption DEF LockWorker, LaunchInv, Moves, LockInv, TypeOK, Present,
     nodeVars, hostVars
<1>7. LeaseInv'
  BY <1>1, <1>2 DEF LockWorker, LaunchInv, Moves, LeaseInv, Active, nodeVars, hostVars
<1>8. RemovalInv' /\ UniqueInv' /\ ReleasedHasReservation' /\ RemovalIsRecoverable' /\
      AnswersFinal'
  BY <1>2 DEF LockWorker, LaunchInv, RemovalInv, UniqueInv, ReleasedHasReservation,
              RemovalIsRecoverable, AnswersFinal, Present, Found, nodeVars, hostVars
<1>9. QED BY <1>4, <1>5, <1>6, <1>7, <1>8 DEF LaunchInv

\* Its VM starts.
LEMMA StartWorkerInv ==
  ASSUME LaunchInv, NEW c \in Callers, StartWorker(c), UNCHANGED overran
  PROVE  LaunchInv'
<1>1. Moves(c, {"verify", "remove"})
  BY CallSteps
<1>2. \A d \in Callers : Key(d)' = Key(d)
  BY <1>1 DEF Moves, Key
<1>3. \/ Moves(c, {"verify"}) /\ UNCHANGED lock
      \/ Moves(c, {"remove"}) /\ lock' = Unlock(c)
  BY GoMoves DEF StartWorker, LaunchInv, PCs, Moves
<1>4. TypeOK'
  BY <1>1, UnlockTypes DEF StartWorker, LaunchInv, TypeOK, Moves, nodeVars, hostVars,
       removalVars
<1>5. CallInv'
  BY <1>1, <1>2, <1>3, LaunchAssumption DEF StartWorker, LaunchInv, Moves, CallInv, TypeOK,
     Unlock, nodeVars
<1>6. LockInv'
  BY <1>1, <1>3, LaunchAssumption DEF StartWorker, LaunchInv, Moves, LockInv, TypeOK, Unlock,
     nodeVars
<1>7. RemovalInv'
  BY <1>2, LaunchAssumption DEF StartWorker, LaunchInv, RemovalInv, CallInv, TypeOK, Unlock,
     nodeVars
<1>8. UniqueInv'
  BY <1>2 DEF StartWorker, LaunchInv, UniqueInv, CallInv, TypeOK, Unlock, Present, nodeVars
<1>9. ReleasedHasReservation'
  BY <1>2, LaunchAssumption DEF StartWorker, LaunchInv, ReleasedHasReservation, TypeOK, Unlock,
     nodeVars
<1>10. RemovalIsRecoverable'
  BY <1>2, LaunchAssumption DEF StartWorker, LaunchInv, RemovalIsRecoverable, TypeOK, Unlock,
     nodeVars
<1>11. LeaseInv'
  BY <1>1, <1>2 DEF StartWorker, LaunchInv, Moves, LeaseInv, Active, nodeVars
<1>12. AnswersFinal'
  BY <1>2 DEF StartWorker, LaunchInv, AnswersFinal, CallInv, TypeOK, Unlock, Found, Present,
              nodeVars
<1>13. QED BY <1>4, <1>5, <1>6, <1>7, <1>8, <1>9, <1>10, <1>11, <1>12 DEF LaunchInv

\* The VM is verified, its reservation bound and user code released.
LEMMA VerifyWorkerInv ==
  ASSUME LaunchInv, NEW c \in Callers, VerifyWorker(c), UNCHANGED overran
  PROVE  LaunchInv'
<1>1. Moves(c, {"finish", "remove"})
  BY CallSteps
<1>2. \A d \in Callers : Key(d)' = Key(d)
  BY <1>1 DEF Moves, Key
<1>3. \/ Moves(c, {"finish"}) /\ UNCHANGED lock
      \/ Moves(c, {"remove"}) /\ lock' = Unlock(c)
  BY GoMoves DEF VerifyWorker, LaunchInv, PCs, Moves
<1>4. TypeOK'
  <2>1. alloc' \in {alloc, [alloc EXCEPT ![Key(c)].worker = c]}
    BY DEF VerifyWorker
  <2>0. [alloc EXCEPT ![Key(c)].worker = c] \in [Keys -> Allocations]
    BY AllocTypes DEF LaunchInv
  <2>2. alloc' \in [Keys -> Allocations]
    BY <2>1, <2>0 DEF LaunchInv, TypeOK
  <2>3. status' \in {status, [status EXCEPT ![c] = "released"]} /\ lock' \in {lock, Unlock(c)}
    BY DEF VerifyWorker
  <2>4. lock' \in [Callers -> Callers \cup {Product, None}]
    BY <2>3, UnlockTypes DEF LaunchInv, TypeOK
  <2>5. QED BY <1>1, <2>2, <2>3, <2>4 DEF VerifyWorker, LaunchInv, TypeOK, Moves, nodeVars
<1>5. CallInv'
  BY <1>1, <1>2, <1>3, LaunchAssumption DEF VerifyWorker, LaunchInv, Moves, CallInv, TypeOK,
     Verified, Unlock, nodeVars
<1>6. LockInv'
  BY <1>1, <1>3, LaunchAssumption DEF VerifyWorker, LaunchInv, Moves, LockInv, TypeOK, Verified,
     Unlock, nodeVars
<1>7. RemovalInv'
  <2>1. \A k \in Keys :
          /\ alloc'[k].held = alloc[k].held
          /\ k # Key(c) => alloc'[k].worker = alloc[k].worker
          /\ alloc'[k].worker \in {alloc[k].worker, c}
    BY DEF VerifyWorker, LaunchInv, TypeOK, Allocations
  <2>2. removal[c] = "none"
    BY LaunchAssumption DEF VerifyWorker, LaunchInv, LockInv
  <2>3. QED
    BY <1>1, <1>2, <2>1, <2>2 DEF VerifyWorker, LaunchInv, CallInv, RemovalInv, TypeOK, nodeVars
<1>8. UniqueInv'
  BY <1>2 DEF VerifyWorker, LaunchInv, UniqueInv, TypeOK, Verified, Unlock, Present, nodeVars
<1>9. ReleasedHasReservation'
  <2> SUFFICES ASSUME NEW w \in Callers, status'[w] = "released"
               PROVE  alloc'[Key(w)].held /\ alloc'[Key(w)].worker = w
    BY <1>2 DEF ReleasedHasReservation
  <2>1. Key(w) \in Keys /\ Key(c) \in Keys
    BY DEF LaunchInv, CallInv, TypeOK, VerifyWorker
  <2>2. CASE alloc' = alloc /\ status' = status
    BY <2>2 DEF LaunchInv, ReleasedHasReservation
  <2>3. CASE ~(alloc' = alloc /\ status' = status)
    <3>1. /\ Verified(c) /\ alloc' = [alloc EXCEPT ![Key(c)].worker = c]
          /\ status' \in {status, [status EXCEPT ![c] = "released"]} /\ status[c] = "started"
      BY <2>3 DEF VerifyWorker
    <3>2. \A k \in Keys : alloc[k] \in Allocations
      BY DEF LaunchInv, TypeOK
    <3>3. CASE w = c
      BY <2>1, <3>1, <3>2, <3>3 DEF Verified, Allocations, LaunchInv, TypeOK
    <3>4. CASE w # c
      <4>1. status[w] = "released"
        BY <3>1, <3>4 DEF LaunchInv, TypeOK
      <4>2. alloc[Key(w)].held /\ alloc[Key(w)].worker = w
        BY <4>1 DEF LaunchInv, ReleasedHasReservation
      <4>3. Key(w) # Key(c)
        BY <3>1, <3>4, <4>2, LaunchAssumption DEF Verified
      <4>4. alloc'[Key(w)] = alloc[Key(w)]
        BY <2>1, <3>1, <4>3 DEF LaunchInv, TypeOK
      <4>5. QED BY <4>2, <4>4
    <3>5. QED BY <3>3, <3>4
  <2>4. QED BY <2>2, <2>3
<1>10. RemovalIsRecoverable'
  <2>1. \A k \in Keys :
          /\ alloc'[k].held = alloc[k].held
          /\ k # Key(c) => alloc'[k].worker = alloc[k].worker
          /\ alloc'[k].worker \in {alloc[k].worker, c}
    BY DEF VerifyWorker, LaunchInv, TypeOK, Allocations
  <2>2. \A w \in Callers : status'[w] = "removed" =>
          status[w] = "removed" /\ (w = c => alloc' = alloc)
    BY DEF VerifyWorker, LaunchInv, TypeOK
  <2>3. QED
    BY <1>2, <2>1, <2>2 DEF VerifyWorker, LaunchInv, CallInv, RemovalIsRecoverable, TypeOK
<1>11. LeaseInv'
  BY <1>1, <1>2 DEF VerifyWorker, LaunchInv, Moves, LeaseInv, Active, nodeVars
<1>12. AnswersFinal'
  BY <1>2 DEF VerifyWorker, LaunchInv, AnswersFinal, TypeOK, Verified, Unlock, Found, Present,
              nodeVars
<1>13. QED BY <1>4, <1>5, <1>6, <1>7, <1>8, <1>9, <1>10, <1>11, <1>12 DEF LaunchInv

\* The launcher returns.
LEMMA SendFinishInv ==
  ASSUME LaunchInv, NEW c \in Callers, SendFinish(c), UNCHANGED overran
  PROVE  LaunchInv'
<1>1. Moves(c, {"confirming", "remove"})
  BY CallSteps
<1>2. \A d \in Callers : Key(d)' = Key(d)
  BY <1>1 DEF Moves, Key
<1>3. \/ Moves(c, {"confirming"}) /\ late' = [late EXCEPT ![c] = "finish"]
      \/ Moves(c, {"remove"}) /\ UNCHANGED late
  BY GoMoves DEF SendFinish, LaunchInv, PCs, Moves
<1>4. TypeOK'
  BY <1>1, UnlockTypes DEF SendFinish, LaunchInv, TypeOK, Moves, nodeVars, hostVars, removalVars
<1>5. CallInv'
  BY <1>1, <1>2, <1>3, LaunchAssumption DEF SendFinish, LaunchInv, Moves, CallInv, TypeOK,
     Unlock, hostVars
<1>6. LockInv'
  BY <1>1, <1>3, LaunchAssumption DEF SendFinish, LaunchInv, Moves, LockInv, TypeOK, Unlock,
     hostVars
<1>7. LeaseInv'
  BY <1>1, <1>2 DEF SendFinish, LaunchInv, Moves, LeaseInv, Active, hostVars
<1>8. RemovalInv' /\ UniqueInv' /\ ReleasedHasReservation' /\ RemovalIsRecoverable' /\
      AnswersFinal'
  BY <1>2 DEF SendFinish, LaunchInv, RemovalInv, UniqueInv, ReleasedHasReservation,
              RemovalIsRecoverable, AnswersFinal, Present, Found, hostVars
<1>9. QED BY <1>4, <1>5, <1>6, <1>7, <1>8 DEF LaunchInv

\* The node confirms the launch.
LEMMA HandleFinishInv ==
  ASSUME LaunchInv, NEW c \in Callers, HandleFinish(c), UNCHANGED overran
  PROVE  LaunchInv'
<1>1. UNCHANGED call \/ (call[c].pc = "confirming" /\ Moves(c, {"done"}))
  BY CallSteps
<1>2. \A d \in Callers : Key(d)' = Key(d)
  BY <1>1 DEF Moves, Key
<1>3. TypeOK'
  BY <1>1, RecordTypes DEF HandleFinish, LaunchInv, TypeOK, Moves, nodeVars, hostVars,
       removalVars
<1>4. CallInv'
  BY <1>1, <1>2 DEF HandleFinish, LaunchInv, Moves, CallInv, hostVars, removalVars
<1>5. LockInv'
  BY <1>1 DEF HandleFinish, LaunchInv, Moves, LockInv, hostVars, removalVars
<1>6. LeaseInv'
  BY <1>1, <1>2 DEF HandleFinish, LaunchInv, Moves, LeaseInv, CallInv, TypeOK, Current, Found,
                    Present, Complete, Active, hostVars, removalVars
<1>7. AnswersFinal'
  BY <1>2 DEF HandleFinish, LaunchInv, AnswersFinal, TypeOK, Current, Found, Present, Complete,
              hostVars, removalVars
<1>8. RemovalInv' /\ UniqueInv' /\ ReleasedHasReservation' /\ RemovalIsRecoverable'
  BY <1>2 DEF HandleFinish, LaunchInv, RemovalInv, UniqueInv, ReleasedHasReservation,
              RemovalIsRecoverable, Present, hostVars, removalVars
<1>9. QED BY <1>3, <1>4, <1>5, <1>6, <1>7, <1>8 DEF LaunchInv

\* No confirmation came.
LEMMA GiveUpInv ==
  ASSUME LaunchInv, NEW c \in Callers, GiveUp(c), UNCHANGED overran
  PROVE  LaunchInv'
<1>1. Moves(c, {"done"})
  BY CallSteps
<1>2. \A d \in Callers : Key(d)' = Key(d)
  BY <1>1 DEF Moves, Key
<1>3. TypeOK'
  BY <1>1 DEF GiveUp, LaunchInv, TypeOK, Moves, nodeVars, hostVars, removalVars
<1>4. CallInv'
  BY <1>1, <1>2 DEF GiveUp, LaunchInv, Moves, CallInv, nodeVars, hostVars, removalVars
<1>5. LockInv'
  BY <1>1 DEF GiveUp, LaunchInv, Moves, LockInv, nodeVars, hostVars, removalVars
<1>6. LeaseInv'
  BY <1>1, <1>2 DEF GiveUp, LaunchInv, Moves, LeaseInv, Active, nodeVars, hostVars, removalVars
<1>7. RemovalInv' /\ UniqueInv' /\ ReleasedHasReservation' /\ RemovalIsRecoverable' /\
      AnswersFinal'
  BY <1>2 DEF GiveUp, LaunchInv, RemovalInv, UniqueInv, ReleasedHasReservation,
              RemovalIsRecoverable, AnswersFinal, Present, Found, nodeVars, hostVars,
              removalVars
<1>8. QED BY <1>3, <1>4, <1>5, <1>6, <1>7 DEF LaunchInv

\* A failed launcher tells the node.
LEMMA SendAbortInv ==
  ASSUME LaunchInv, NEW c \in Callers, SendAbort(c), UNCHANGED overran
  PROVE  LaunchInv'
<1>1. Moves(c, {"done"})
  BY CallSteps
<1>2. \A d \in Callers : Key(d)' = Key(d)
  BY <1>1 DEF Moves, Key
<1>3. TypeOK'
  BY <1>1 DEF SendAbort, LaunchInv, TypeOK, Moves, nodeVars, hostVars, removalVars
<1>4. CallInv'
  BY <1>1, <1>2 DEF SendAbort, LaunchInv, Moves, CallInv, hostVars, removalVars
<1>5. LockInv'
  BY <1>1 DEF SendAbort, LaunchInv, Moves, LockInv, hostVars, removalVars
<1>6. LeaseInv'
  BY <1>1, <1>2 DEF SendAbort, LaunchInv, Moves, LeaseInv, Active, hostVars, removalVars
<1>7. RemovalInv' /\ UniqueInv' /\ ReleasedHasReservation' /\ RemovalIsRecoverable' /\
      AnswersFinal'
  BY <1>2 DEF SendAbort, LaunchInv, RemovalInv, UniqueInv, ReleasedHasReservation,
              RemovalIsRecoverable, AnswersFinal, Present, Found, hostVars, removalVars
<1>8. QED BY <1>3, <1>4, <1>5, <1>6, <1>7 DEF LaunchInv

\* The node records the failure.
LEMMA HandleAbortInv ==
  ASSUME LaunchInv, NEW c \in Callers, HandleAbort(c), UNCHANGED overran
  PROVE  LaunchInv'
<1>1. \A d \in Callers : Key(d)' = Key(d)
  BY DEF HandleAbort, Key, nodeVars, hostVars, removalVars
<1>2. TypeOK'
  BY AbortTypes DEF HandleAbort, LaunchInv, TypeOK, nodeVars, hostVars, removalVars
<1>3. CallInv'
  BY <1>1 DEF HandleAbort, LaunchInv, CallInv, hostVars, removalVars
<1>4. LeaseInv'
  BY <1>1 DEF HandleAbort, LaunchInv, LeaseInv, CallInv, Current, Active, hostVars, removalVars
<1>5. AnswersFinal'
  BY <1>1 DEF HandleAbort, LaunchInv, AnswersFinal, TypeOK, Current, Found, Present, hostVars,
              removalVars
<1>6. LockInv' /\ RemovalInv' /\ UniqueInv' /\ ReleasedHasReservation' /\ RemovalIsRecoverable'
  BY <1>1 DEF HandleAbort, LaunchInv, LockInv, RemovalInv, UniqueInv, ReleasedHasReservation,
              RemovalIsRecoverable, Present, hostVars, removalVars
<1>7. QED BY <1>2, <1>3, <1>4, <1>5, <1>6 DEF LaunchInv

\* A message is lost.
LEMMA LoseInv ==
  ASSUME LaunchInv, NEW c \in Callers, Lose(c), UNCHANGED overran
  PROVE  LaunchInv'
<1>1. \A d \in Callers : Key(d)' = Key(d)
  BY DEF Lose, Key, nodeVars, hostVars, removalVars
<1>2. TypeOK'
  BY  DEF Lose, LaunchInv, TypeOK, nodeVars, hostVars, removalVars
<1>3. CallInv'
  BY <1>1 DEF Lose, LaunchInv, CallInv, hostVars, removalVars
<1>4. LockInv' /\ RemovalInv' /\ UniqueInv' /\ ReleasedHasReservation' /\ RemovalIsRecoverable'
      /\ LeaseInv' /\ AnswersFinal'
  BY <1>1 DEF Lose, LaunchInv, LockInv, RemovalInv, UniqueInv, ReleasedHasReservation,
              RemovalIsRecoverable, LeaseInv, AnswersFinal, Present, Active, Found, hostVars,
              removalVars
<1>5. QED BY <1>2, <1>3, <1>4 DEF LaunchInv

\* A launcher that knows no worker undoes its steps.
LEMMA UndoInv ==
  ASSUME LaunchInv, NEW c \in Callers, Undo(c), UNCHANGED overran
  PROVE  LaunchInv'
<1>1. Moves(c, {"undo", "abort"})
  BY CallSteps
<1>2. \A d \in Callers : Key(d)' = Key(d)
  BY <1>1 DEF Moves, Key
<1>3. TypeOK'
  <2>1. alloc' \in {alloc, [alloc EXCEPT ![Key(c)] = Free]}
    BY DEF Undo
  <2>2. net' \in {net, [net EXCEPT ![Key(c)] = None]}
    BY DEF Undo
  <2>3. alloc' \in [Keys -> Allocations]
    BY <2>1, AllocTypes DEF LaunchInv, TypeOK
  <2>4. net' \in [Keys -> Callers \cup {None}]
    BY <2>2 DEF LaunchInv, TypeOK
  <2>5. QED BY <1>1, <2>3, <2>4 DEF Undo, LaunchInv, TypeOK, Moves, nodeVars, removalVars
<1>4. CallInv'
  BY <1>1, <1>2 DEF Undo, LaunchInv, Moves, CallInv, nodeVars, removalVars
<1>5. LockInv'
  BY <1>1 DEF Undo, LaunchInv, Moves, LockInv, nodeVars, removalVars
<1>6. RemovalInv'
  BY <1>2, LaunchAssumption DEF Undo, LaunchInv, RemovalInv, CallInv, TypeOK, Found, Present,
     Releasable, Occupied, Running, Free, nodeVars, removalVars
<1>7. ReleasedHasReservation'
  BY <1>2, LaunchAssumption DEF Undo, LaunchInv, ReleasedHasReservation, CallInv, TypeOK, Found,
     Present, Releasable, Occupied, Running, Free, nodeVars, removalVars
<1>8. RemovalIsRecoverable'
  BY <1>2, LaunchAssumption DEF Undo, LaunchInv, RemovalIsRecoverable, CallInv, TypeOK, Found,
     Present, Releasable, Occupied, Running, Free, nodeVars, removalVars
<1>9. LeaseInv'
  BY <1>1, <1>2 DEF Undo, LaunchInv, Moves, LeaseInv, Active, nodeVars, removalVars
<1>10. UniqueInv' /\ AnswersFinal'
  BY <1>2 DEF Undo, LaunchInv, UniqueInv, AnswersFinal, Present, Found, nodeVars, removalVars
<1>11. QED BY <1>3, <1>4, <1>5, <1>6, <1>7, <1>8, <1>9, <1>10 DEF LaunchInv

\* A launcher does not get to remove its worker.
LEMMA RemovalRefusedInv ==
  ASSUME LaunchInv, NEW c \in Callers, RemovalRefused(c), UNCHANGED overran
  PROVE  LaunchInv'
<1>1. Moves(c, {"abort"})
  BY CallSteps
<1>2. \A d \in Callers : Key(d)' = Key(d)
  BY <1>1 DEF Moves, Key
<1>3. TypeOK'
  BY <1>1 DEF RemovalRefused, LaunchInv, TypeOK, Moves, nodeVars, hostVars, removalVars
<1>4. CallInv'
  BY <1>1, <1>2 DEF RemovalRefused, LaunchInv, Moves, CallInv, nodeVars, hostVars, removalVars
<1>5. LockInv'
  BY <1>1 DEF RemovalRefused, LaunchInv, Moves, LockInv, nodeVars, hostVars, removalVars
<1>6. LeaseInv'
  BY <1>1, <1>2 DEF RemovalRefused, LaunchInv, Moves, LeaseInv, Active, nodeVars, hostVars,
                    removalVars
<1>7. RemovalInv' /\ UniqueInv' /\ ReleasedHasReservation' /\ RemovalIsRecoverable' /\
      AnswersFinal'
  BY <1>2 DEF RemovalRefused, LaunchInv, RemovalInv, UniqueInv, ReleasedHasReservation,
              RemovalIsRecoverable, AnswersFinal, Present, Found, nodeVars, hostVars,
              removalVars
<1>8. QED BY <1>3, <1>4, <1>5, <1>6, <1>7 DEF LaunchInv

\* A Product dies.
LEMMA CrashInv ==
  ASSUME LaunchInv, NEW c \in Callers, Crash(c), UNCHANGED overran
  PROVE  LaunchInv'
<1>1. Moves(c, {"done"})
  BY CallSteps
<1>2. \A d \in Callers : Key(d)' = Key(d)
  BY <1>1 DEF Moves, Key
<1>3. TypeOK'
  BY <1>1, UnlockTypes DEF Crash, LaunchInv, TypeOK, Moves, nodeVars, hostVars, removalVars
<1>4. CallInv'
  BY <1>1, <1>2 DEF Crash, LaunchInv, Moves, CallInv, nodeVars, hostVars
<1>5. LockInv'
  BY <1>1, LaunchAssumption DEF Crash, LaunchInv, Moves, LockInv, TypeOK, Unlock, nodeVars,
     hostVars
<1>6. RemovalInv'
  BY <1>2 DEF Crash, LaunchInv, RemovalInv, nodeVars, hostVars
<1>7. LeaseInv'
  BY <1>1, <1>2 DEF Crash, LaunchInv, Moves, LeaseInv, Active, nodeVars, hostVars
<1>8. UniqueInv' /\ ReleasedHasReservation' /\ RemovalIsRecoverable' /\ AnswersFinal'
  BY <1>2 DEF Crash, LaunchInv, UniqueInv, ReleasedHasReservation, RemovalIsRecoverable,
              AnswersFinal, Present, Found, nodeVars, hostVars
<1>9. QED BY <1>3, <1>4, <1>5, <1>6, <1>7, <1>8 DEF LaunchInv

\* A removal is recorded.
LEMMA BeginRemovalInv ==
  ASSUME LaunchInv, NEW w \in Callers, NEW by \in {w, Product}, BeginRemoval(w, by),
         UNCHANGED overran
  PROVE  LaunchInv'
<1>1. \A d \in Callers : Key(d)' = Key(d)
  BY DEF BeginRemoval, Key, nodeVars, hostVars, removalVars
<1>2. TypeOK'
  BY  DEF BeginRemoval, LaunchInv, TypeOK, nodeVars, hostVars, removalVars
<1>3. LockInv'
  BY LaunchAssumption DEF BeginRemoval, LaunchInv, LockInv, TypeOK, Remover, Present, nodeVars,
                          hostVars
<1>4. RemovalInv'
  BY <1>1, LaunchAssumption DEF BeginRemoval, LaunchInv, RemovalInv, Remover, Present, nodeVars,
     hostVars
<1>5. RemovalIsRecoverable'
  BY <1>1 DEF BeginRemoval, LaunchInv, RemovalIsRecoverable, nodeVars, hostVars
<1>6. CallInv' /\ UniqueInv' /\ ReleasedHasReservation' /\ LeaseInv' /\
      AnswersFinal'
  BY <1>1 DEF BeginRemoval, LaunchInv, CallInv, UniqueInv, ReleasedHasReservation, LeaseInv,
              AnswersFinal, Present, Active, Found, nodeVars, hostVars
<1>7. QED BY <1>2, <1>3, <1>4, <1>5, <1>6 DEF LaunchInv

\* The worker goes.
LEMMA DeleteWorkerInv ==
  ASSUME LaunchInv, NEW w \in Callers, DeleteWorker(w), UNCHANGED overran
  PROVE  LaunchInv'
<1>1. \A d \in Callers : Key(d)' = Key(d)
  BY DEF DeleteWorker, Key, nodeVars, hostVars, removalVars
<1>2. TypeOK'
  BY  DEF DeleteWorker, LaunchInv, TypeOK, nodeVars, hostVars, removalVars
<1>3. CallInv'
  BY <1>1, LaunchAssumption DEF DeleteWorker, LaunchInv, CallInv, LockInv, RemovalInv, TypeOK,
     nodeVars
<1>4. LockInv'
  BY DEF DeleteWorker, LaunchInv, LockInv, nodeVars
<1>5. RemovalInv'
  BY <1>1, LaunchAssumption DEF DeleteWorker, LaunchInv, RemovalInv, TypeOK, nodeVars
<1>6. UniqueInv'
  BY <1>1 DEF DeleteWorker, LaunchInv, UniqueInv, Present, nodeVars
<1>7. ReleasedHasReservation'
  BY <1>1 DEF DeleteWorker, LaunchInv, ReleasedHasReservation, nodeVars
<1>8. RemovalIsRecoverable'
  BY <1>1, LaunchAssumption DEF DeleteWorker, LaunchInv, RemovalIsRecoverable, CallInv, LockInv,
     RemovalInv, TypeOK, nodeVars
<1>9. AnswersFinal'
  BY <1>1 DEF DeleteWorker, LaunchInv, AnswersFinal, TypeOK, Found, Present, nodeVars
<1>10. LeaseInv'
  BY <1>1 DEF DeleteWorker, LaunchInv, LeaseInv, Active, nodeVars
<1>11. QED BY <1>2, <1>3, <1>4, <1>5, <1>6, <1>7, <1>8, <1>9, <1>10 DEF LaunchInv

\* Its network goes.
LEMMA RemoveNetworkInv ==
  ASSUME LaunchInv, NEW w \in Callers, RemoveNetwork(w), UNCHANGED overran
  PROVE  LaunchInv'
<1>1. \A d \in Callers : Key(d)' = Key(d)
  BY DEF RemoveNetwork, Key, nodeVars, hostVars, removalVars
<1>2. TypeOK'
  BY  DEF RemoveNetwork, LaunchInv, TypeOK, nodeVars, hostVars, removalVars
<1>3. LockInv'
  BY DEF RemoveNetwork, LaunchInv, LockInv, nodeVars
<1>4. RemovalInv'
  BY <1>1, LaunchAssumption DEF RemoveNetwork, LaunchInv, RemovalInv, CallInv, TypeOK, nodeVars
<1>5. RemovalIsRecoverable'
  BY <1>1, LaunchAssumption DEF RemoveNetwork, LaunchInv, RemovalIsRecoverable, TypeOK, nodeVars
<1>6. CallInv' /\ UniqueInv' /\ ReleasedHasReservation' /\ LeaseInv' /\
      AnswersFinal'
  BY <1>1 DEF RemoveNetwork, LaunchInv, CallInv, UniqueInv, ReleasedHasReservation, LeaseInv,
              AnswersFinal, Present, Active, Found, nodeVars
<1>7. QED BY <1>2, <1>3, <1>4, <1>5, <1>6 DEF LaunchInv

\* Its reservation goes.
LEMMA ReleaseAllocationInv ==
  ASSUME LaunchInv, NEW w \in Callers, ReleaseAllocation(w), UNCHANGED overran
  PROVE  LaunchInv'
<1>1. \A d \in Callers : Key(d)' = Key(d)
  BY DEF ReleaseAllocation, Key, nodeVars, hostVars, removalVars
<1>2. TypeOK'
  BY AllocTypes DEF ReleaseAllocation, LaunchInv, TypeOK, nodeVars, hostVars, removalVars
<1>3. LockInv'
  BY DEF ReleaseAllocation, LaunchInv, LockInv, nodeVars
<1>4. RemovalInv'
  BY <1>1, LaunchAssumption DEF ReleaseAllocation, LaunchInv, RemovalInv, CallInv, TypeOK,
     Releasable, Occupied, Running, Free, nodeVars
<1>5. ReleasedHasReservation'
  BY <1>1, LaunchAssumption DEF ReleaseAllocation, LaunchInv, ReleasedHasReservation, TypeOK,
     Releasable, Occupied, Running, Free, nodeVars
<1>6. RemovalIsRecoverable'
  BY <1>1, LaunchAssumption DEF ReleaseAllocation, LaunchInv, RemovalIsRecoverable, TypeOK,
     Releasable, Occupied, Running, Free, nodeVars
<1>7. CallInv' /\ UniqueInv' /\ LeaseInv' /\ AnswersFinal'
  BY <1>1 DEF ReleaseAllocation, LaunchInv, CallInv, UniqueInv, LeaseInv, AnswersFinal, Present,
              Active, Found, nodeVars
<1>8. QED BY <1>2, <1>3, <1>4, <1>5, <1>6, <1>7 DEF LaunchInv

\* The removal is complete.
LEMMA ForgetInv ==
  ASSUME LaunchInv, NEW w \in Callers, Forget(w), UNCHANGED overran
  PROVE  LaunchInv'
<1>1. UNCHANGED call \/ (call[w].pc = "remove" /\ Moves(w, {"abort"}))
  BY CallSteps
<1>2. \A d \in Callers : Key(d)' = Key(d)
  BY <1>1 DEF Moves, Key
<1>3. TypeOK'
  BY <1>1 DEF Forget, LaunchInv, TypeOK, Moves, nodeVars, hostVars, removalVars
<1>4. CallInv'
  BY <1>1, <1>2 DEF Forget, LaunchInv, Moves, CallInv, nodeVars, hostVars
<1>5. LockInv'
  BY <1>1, LaunchAssumption DEF Forget, LaunchInv, Moves, LockInv, TypeOK, nodeVars, hostVars
<1>6. RemovalInv'
  BY <1>2, LaunchAssumption DEF Forget, LaunchInv, RemovalInv, TypeOK, nodeVars, hostVars
<1>7. RemovalIsRecoverable'
  BY <1>2, LaunchAssumption DEF Forget, LaunchInv, RemovalIsRecoverable, CallInv, LockInv,
     RemovalInv, TypeOK, nodeVars, hostVars
<1>8. LeaseInv'
  BY <1>1, <1>2 DEF Forget, LaunchInv, Moves, LeaseInv, Active, nodeVars, hostVars
<1>9. UniqueInv' /\ ReleasedHasReservation' /\ AnswersFinal'
  BY <1>2 DEF Forget, LaunchInv, UniqueInv, ReleasedHasReservation, AnswersFinal, Present,
              Found, nodeVars, hostVars
<1>10. QED BY <1>3, <1>4, <1>5, <1>6, <1>7, <1>8, <1>9 DEF LaunchInv

\* The removal fails.
LEMMA FailRemovalInv ==
  ASSUME LaunchInv, NEW w \in Callers, FailRemoval(w), UNCHANGED overran
  PROVE  LaunchInv'
<1>1. UNCHANGED call \/ (call[w].pc = "remove" /\ Moves(w, {"abort"}))
  BY CallSteps
<1>2. \A d \in Callers : Key(d)' = Key(d)
  BY <1>1 DEF Moves, Key
<1>3. TypeOK'
  BY <1>1 DEF FailRemoval, LaunchInv, TypeOK, Moves, nodeVars, hostVars, removalVars
<1>4. CallInv'
  BY <1>1, <1>2 DEF FailRemoval, LaunchInv, Moves, CallInv, nodeVars, hostVars
<1>5. LockInv'
  BY <1>1, LaunchAssumption DEF FailRemoval, LaunchInv, Moves, LockInv, TypeOK, nodeVars,
     hostVars
<1>6. RemovalInv'
  BY <1>2 DEF FailRemoval, LaunchInv, RemovalInv, nodeVars, hostVars
<1>7. LeaseInv'
  BY <1>1, <1>2 DEF FailRemoval, LaunchInv, Moves, LeaseInv, Active, nodeVars, hostVars
<1>8. UniqueInv' /\ ReleasedHasReservation' /\ RemovalIsRecoverable' /\ AnswersFinal'
  BY <1>2 DEF FailRemoval, LaunchInv, UniqueInv, ReleasedHasReservation, RemovalIsRecoverable,
              AnswersFinal, Present, Found, nodeVars, hostVars
<1>9. QED BY <1>3, <1>4, <1>5, <1>6, <1>7, <1>8 DEF LaunchInv

\* A worker ends.
LEMMA WorkerExitsInv ==
  ASSUME LaunchInv, NEW w \in Callers, WorkerExits(w), UNCHANGED overran
  PROVE  LaunchInv'
<1>1. \A d \in Callers : Key(d)' = Key(d)
  BY DEF WorkerExits, Key, nodeVars, hostVars, removalVars
<1>2. TypeOK'
  BY  DEF WorkerExits, LaunchInv, TypeOK, nodeVars, hostVars, removalVars
<1>3. CallInv'
  BY <1>1, LaunchAssumption DEF WorkerExits, LaunchInv, CallInv, Running, nodeVars, removalVars
<1>4. RemovalInv'
  BY <1>1, LaunchAssumption DEF WorkerExits, LaunchInv, RemovalInv, Running, nodeVars,
     removalVars
<1>5. UniqueInv'
  BY <1>1 DEF WorkerExits, LaunchInv, UniqueInv, Running, Present, nodeVars, removalVars
<1>6. ReleasedHasReservation'
  BY <1>1 DEF WorkerExits, LaunchInv, ReleasedHasReservation, nodeVars, removalVars
<1>7. RemovalIsRecoverable'
  BY <1>1 DEF WorkerExits, LaunchInv, RemovalIsRecoverable, nodeVars, removalVars
<1>8. AnswersFinal'
  BY <1>1 DEF WorkerExits, LaunchInv, AnswersFinal, TypeOK, Running, Found, Present, nodeVars,
              removalVars
<1>9. LockInv' /\ LeaseInv'
  BY <1>1 DEF WorkerExits, LaunchInv, LockInv, LeaseInv, Active, nodeVars, removalVars
<1>10. QED BY <1>2, <1>3, <1>4, <1>5, <1>6, <1>7, <1>8, <1>9 DEF LaunchInv

\* A lease runs out.
LEMMA AgeLeaseInv ==
  ASSUME LaunchInv, NEW k \in Keys, AgeLease(k)
  PROVE  LaunchInv'
<1>1. \A d \in Callers : Key(d)' = Key(d)
  BY DEF AgeLease, Key, nodeVars, hostVars, removalVars
<1>2. TypeOK'
  BY RecordTypes DEF AgeLease, LaunchInv, TypeOK, nodeVars, hostVars, removalVars
<1>3. LeaseInv'
  BY <1>1 DEF AgeLease, LaunchInv, LeaseInv, Active, hostVars, removalVars
<1>4. AnswersFinal'
  BY <1>1 DEF AgeLease, LaunchInv, AnswersFinal, TypeOK, Active, Found, Present, hostVars,
              removalVars
<1>5. CallInv' /\ LockInv' /\ RemovalInv' /\ UniqueInv' /\ ReleasedHasReservation' /\
      RemovalIsRecoverable'
  BY <1>1 DEF AgeLease, LaunchInv, CallInv, LockInv, RemovalInv, UniqueInv,
              ReleasedHasReservation, RemovalIsRecoverable, Present, hostVars, removalVars
<1>6. QED BY <1>2, <1>3, <1>4, <1>5 DEF LaunchInv

\* A reservation gets old.
LEMMA AgeReservationInv ==
  ASSUME LaunchInv, NEW k \in Keys, AgeReservation(k), UNCHANGED overran
  PROVE  LaunchInv'
<1>1. \A d \in Callers : Key(d)' = Key(d)
  BY DEF AgeReservation, Key, nodeVars, hostVars, removalVars
<1>2. TypeOK'
  BY AllocTypes DEF AgeReservation, LaunchInv, TypeOK, nodeVars, hostVars, removalVars
<1>3. RemovalInv'
  BY <1>1 DEF AgeReservation, LaunchInv, RemovalInv, nodeVars, removalVars
<1>4. ReleasedHasReservation'
  BY <1>1 DEF AgeReservation, LaunchInv, ReleasedHasReservation, nodeVars, removalVars
<1>5. RemovalIsRecoverable'
  BY <1>1 DEF AgeReservation, LaunchInv, RemovalIsRecoverable, nodeVars, removalVars
<1>6. CallInv' /\ LockInv' /\ UniqueInv' /\ LeaseInv' /\ AnswersFinal'
  BY <1>1 DEF AgeReservation, LaunchInv, CallInv, LockInv, UniqueInv, LeaseInv, AnswersFinal,
              Present, Active, Found, nodeVars, removalVars
<1>7. QED BY <1>2, <1>3, <1>4, <1>5, <1>6 DEF LaunchInv

\* A reservation without a worker is released.
LEMMA RecoverOrphanInv ==
  ASSUME LaunchInv, NEW k \in Keys, RecoverOrphan(k), UNCHANGED overran
  PROVE  LaunchInv'
<1>1. \A d \in Callers : Key(d)' = Key(d)
  BY DEF RecoverOrphan, Key, nodeVars, hostVars, removalVars
<1>2. TypeOK'
  BY AllocTypes DEF RecoverOrphan, LaunchInv, TypeOK, nodeVars, hostVars, removalVars
<1>3. RemovalInv'
  BY <1>1, LaunchAssumption DEF RecoverOrphan, LaunchInv, RemovalInv, TypeOK, Found, Present,
     Free, nodeVars, removalVars
<1>4. ReleasedHasReservation'
  BY <1>1, LaunchAssumption DEF RecoverOrphan, LaunchInv, ReleasedHasReservation, TypeOK, Found,
     Present, Free, nodeVars, removalVars
<1>5. RemovalIsRecoverable'
  BY <1>1, LaunchAssumption DEF RecoverOrphan, LaunchInv, RemovalIsRecoverable, TypeOK, Found,
     Present, Free, nodeVars, removalVars
<1>6. CallInv' /\ LockInv' /\ UniqueInv' /\ LeaseInv' /\ AnswersFinal'
  BY <1>1 DEF RecoverOrphan, LaunchInv, CallInv, LockInv, UniqueInv, LeaseInv, AnswersFinal,
              Present, Active, Found, nodeVars, removalVars
<1>7. QED BY <1>2, <1>3, <1>4, <1>5, <1>6 DEF LaunchInv

-----------------------------------------------------------------------------
\* Before any call nothing has happened.
LEMMA InitInv == Init => LaunchInv
<1> SUFFICES ASSUME Init PROVE LaunchInv
  OBVIOUS
<1>1. TypeOK
  <2>1. NoRecord \in Records /\ NoCall \in CallStates /\ Free \in Allocations
    BY DEF NoRecord, Records, NoCall, CallStates, PCs, Free, Allocations
  <2>2. QED BY <2>1 DEF Init, TypeOK
<1>2. CallInv /\ RemovalInv /\ UniqueInv /\ ReleasedHasReservation /\ RemovalIsRecoverable
  BY DEF Init, CallInv, RemovalInv, UniqueInv, ReleasedHasReservation,
         RemovalIsRecoverable, NoCall, Present
<1>3. LockInv
  BY LaunchAssumption DEF Init, LockInv, NoCall
<1>4. LeaseInv /\ AnswersFinal
  <2>1. LeaseInv
    BY DEF Init, LeaseInv, Active, NoCall
  <2>2. AnswersFinal
    BY DEF Init, AnswersFinal, NoRecord
  <2>3. QED BY <2>1, <2>2
<1>5. QED BY <1>1, <1>2, <1>3, <1>4 DEF LaunchInv

\* Only AgeLease counts launchers that outlived their lease.
LEMMA KeepsOverran ==
  /\ \A c \in Callers, k \in Keys, f \in Options : Begin(c, k, f) => UNCHANGED overran
  /\ \A c \in Callers :
       \/ ClaimAnswered(c) \/ ClaimFinds(c) \/ ClaimBusy(c) \/ ClaimGranted(c)
       \/ Existing(c) \/ Setup(c) \/ CreateNetwork(c) \/ Reserve(c)
       \/ CreateWorker(c) \/ LockWorker(c) \/ StartWorker(c) \/ VerifyWorker(c)
       \/ SendFinish(c) \/ HandleFinish(c) \/ GiveUp(c) \/ SendAbort(c)
       \/ HandleAbort(c) \/ Lose(c) \/ Undo(c) \/ RemovalRefused(c) \/ Crash(c)
       => UNCHANGED overran
  /\ \A w, by : BeginRemoval(w, by) => UNCHANGED overran
  /\ \A w \in Callers :
       \/ DeleteWorker(w) \/ RemoveNetwork(w) \/ ReleaseAllocation(w)
       \/ Forget(w) \/ FailRemoval(w) \/ WorkerExits(w)
       => UNCHANGED overran
  /\ \A k \in Keys : AgeReservation(k) \/ RecoverOrphan(k) => UNCHANGED overran
<1>1. \A c \in Callers, k \in Keys, f \in Options : Begin(c, k, f) => UNCHANGED overran
  BY DEF Begin
<1>2. ASSUME NEW c \in Callers,
             \/ ClaimAnswered(c) \/ ClaimFinds(c) \/ ClaimBusy(c) \/ ClaimGranted(c)
             \/ Existing(c) \/ Setup(c) \/ CreateNetwork(c) \/ Reserve(c)
             \/ CreateWorker(c) \/ LockWorker(c) \/ StartWorker(c) \/ VerifyWorker(c)
             \/ SendFinish(c) \/ HandleFinish(c) \/ GiveUp(c) \/ SendAbort(c)
             \/ HandleAbort(c) \/ Lose(c) \/ Undo(c) \/ RemovalRefused(c) \/ Crash(c)
      PROVE  UNCHANGED overran
  BY <1>2 DEF ClaimAnswered, ClaimFinds, ClaimBusy, ClaimGranted, Existing, Setup,
              CreateNetwork, Reserve, CreateWorker, LockWorker, StartWorker, VerifyWorker,
              SendFinish, HandleFinish, GiveUp, SendAbort, HandleAbort, Lose, Undo,
              RemovalRefused, Crash
<1>3. \A w, by : BeginRemoval(w, by) => UNCHANGED overran
  BY DEF BeginRemoval
<1>4. ASSUME NEW w \in Callers,
             \/ DeleteWorker(w) \/ RemoveNetwork(w) \/ ReleaseAllocation(w)
             \/ Forget(w) \/ FailRemoval(w) \/ WorkerExits(w)
      PROVE  UNCHANGED overran
  BY <1>4 DEF DeleteWorker, RemoveNetwork, ReleaseAllocation, Forget, FailRemoval, WorkerExits
<1>5. \A k \in Keys : AgeReservation(k) \/ RecoverOrphan(k) => UNCHANGED overran
  BY DEF AgeReservation, RecoverOrphan
<1>6. QED BY <1>1, <1>2, <1>3, <1>4, <1>5

\* Every step keeps the invariant.
LEMMA NextInv == LaunchInv /\ [Next]_vars => LaunchInv'
<1> SUFFICES ASSUME LaunchInv, [Next]_vars PROVE LaunchInv'
  OBVIOUS
<1>1. ASSUME NEW c \in Callers, NEW k \in Keys, NEW f \in Options, Begin(c, k, f),
             UNCHANGED overran
      PROVE  LaunchInv'
  BY <1>1, BeginInv
<1>2. ASSUME NEW c \in Callers,
             \/ ClaimAnswered(c) \/ ClaimFinds(c) \/ ClaimBusy(c) \/ ClaimGranted(c)
             \/ Existing(c) \/ Setup(c) \/ CreateNetwork(c) \/ Reserve(c)
             \/ CreateWorker(c) \/ LockWorker(c) \/ StartWorker(c) \/ VerifyWorker(c)
             \/ SendFinish(c) \/ HandleFinish(c) \/ GiveUp(c) \/ SendAbort(c)
             \/ HandleAbort(c) \/ Lose(c) \/ Undo(c) \/ RemovalRefused(c) \/ Crash(c),
             UNCHANGED overran
      PROVE  LaunchInv'
  BY <1>2, ClaimAnsweredInv, ClaimFindsInv, ClaimBusyInv, ClaimGrantedInv, ExistingInv,
     SetupInv, CreateNetworkInv, ReserveInv, CreateWorkerInv, LockWorkerInv, StartWorkerInv,
     VerifyWorkerInv, SendFinishInv, HandleFinishInv, GiveUpInv, SendAbortInv,
     HandleAbortInv, LoseInv, UndoInv, RemovalRefusedInv, CrashInv
<1>3. ASSUME NEW w \in Callers, NEW by \in {w, Product}, BeginRemoval(w, by), UNCHANGED overran
      PROVE  LaunchInv'
  BY <1>3, BeginRemovalInv
<1>4. ASSUME NEW w \in Callers,
             \/ DeleteWorker(w) \/ RemoveNetwork(w) \/ ReleaseAllocation(w)
             \/ Forget(w) \/ FailRemoval(w) \/ WorkerExits(w),
             UNCHANGED overran
      PROVE  LaunchInv'
  BY <1>4, DeleteWorkerInv, RemoveNetworkInv, ReleaseAllocationInv, ForgetInv,
     FailRemovalInv, WorkerExitsInv
<1>5. ASSUME NEW k \in Keys,
             \/ AgeLease(k)
             \/ UNCHANGED overran /\ (AgeReservation(k) \/ RecoverOrphan(k))
      PROVE  LaunchInv'
  BY <1>5, AgeLeaseInv, AgeReservationInv, RecoverOrphanInv
<1>6. CASE UNCHANGED vars
  BY <1>6 DEF vars, LaunchInv, TypeOK, CallInv, LockInv, RemovalInv, UniqueInv,
              ReleasedHasReservation, RemovalIsRecoverable, LeaseInv, AnswersFinal, Key,
              Present, Active, Found
<1>7. QED BY <1>1, <1>2, <1>3, <1>4, <1>5, <1>6, KeepsOverran DEF Next

\* The invariant, for launchers of any speed.
THEOREM LaunchInvHolds == Spec => []LaunchInv
  BY InitInv, NextInv, PTL DEF Spec

\* The ledger, the calls and the host only take the states that TypeOK lists.
THEOREM TypeCorrect == Spec => []TypeOK
<1>1. LaunchInv => TypeOK
  BY DEF LaunchInv
<1>2. QED BY <1>1, LaunchInvHolds, PTL

\* No release, recovery, removal or other launcher takes the reservation away
\* from a VM whose user code was released.
THEOREM ReservationHolds == Spec => []ReleasedHasReservation
<1>1. LaunchInv => ReleasedHasReservation
  BY DEF LaunchInv
<1>2. QED BY <1>1, LaunchInvHolds, PTL

\* Whatever a removal has deleted, its record is there until the network and
\* the reservation are gone too.
THEOREM RemovalHolds == Spec => []RemovalIsRecoverable
<1>1. LaunchInv => RemovalIsRecoverable
  BY DEF LaunchInv
<1>2. QED BY <1>1, LaunchInvHolds, PTL

\* A completed request has no other worker than its answer, as long as none of
\* its own launchers has outlived its lease: finishLaunch and claimLaunch record
\* an answer only when nobody else acts on the host for the request.
THEOREM NeverRecreated == Spec => []AnswersFinal
<1>1. LaunchInv => AnswersFinal
  BY DEF LaunchInv
<1>2. QED BY <1>1, LaunchInvHolds, PTL

-----------------------------------------------------------------------------
(* The refinement.  Holders, Found and Final are what RequestPromise sees.  *)

Holders(k) == {c \in Callers : Active(c) /\ Key(c) = k}
Final(k) == IF record[k].state = "complete" THEN record[k].worker ELSE None

\* Nothing changes for the product.
LEMMA Stay ==
  ASSUME UNCHANGED overran,
         \A k \in Keys : Holders(k)' = Holders(k),
         \A k \in Keys : Found(k)' = Found(k),
         \A k \in Keys : Final(k)' = Final(k)
  PROVE  UNCHANGED Promise!promiseVars
  BY DEF Promise!promiseVars, Holders, Final

\* One lemma per step that the product sees.
LEMMA Granted ==
  ASSUME NEW k \in Keys, NEW c \in Callers, UNCHANGED overran,
         Holders(k) = {} \/ k \in overran, Found(k) = {}, Final(k) = None,
         Holders(k)' = Holders(k) \cup {c},
         \A j \in Keys \ {k} : Holders(j)' = Holders(j),
         \A j \in Keys : Found(j)' = Found(j) /\ Final(j)' = Final(j)
  PROVE  Promise!Grant(k, c)
  BY DEF Promise!Grant, Promise!Alone, Holders, Final

\* A worker that the engine comes to know is what the promise creates.
LEMMA Created ==
  ASSUME NEW k \in Keys, NEW c \in Callers, UNCHANGED overran,
         c \in Holders(k), Found(k) = {}, Found(k)' = {c},
         \A j \in Keys \ {k} : Found(j)' = Found(j),
         \A j \in Keys : Holders(j)' = Holders(j) /\ Final(j)' = Final(j)
  PROVE  Promise!Create(k, c)
  BY DEF Promise!Create, Holders, Final

\* A worker that the engine no longer knows is destroyed in the promise.
LEMMA Left ==
  ASSUME NEW k \in Keys, NEW c \in Callers, UNCHANGED overran,
         c \in Holders(k), Holders(k)' = Holders(k) \ {c},
         \A j \in Keys \ {k} : Holders(j)' = Holders(j),
         \A j \in Keys : Found(j)' = Found(j) /\ Final(j)' = Final(j)
  PROVE  Promise!Leave(k, c)
  BY DEF Promise!Leave, Holders, Final

\* A completed record is a final answer.
LEMMA Completed ==
  ASSUME NEW k \in Keys, NEW w \in Callers, UNCHANGED overran,
         Holders(k) = {} \/ k \in overran, w \in Found(k), Final(k) = None, Final(k)' = w,
         \A j \in Keys \ {k} : Final(j)' = Final(j),
         \A j \in Keys : Holders(j)' = Holders(j) /\ Found(j)' = Found(j)
  PROVE  Promise!Complete(k, w)
<1>1. [j \in Keys |-> Final(j)'] = [[j \in Keys |-> Final(j)] EXCEPT ![k] = w]
  OBVIOUS
<1>2. [j \in Keys |-> Holders(j)'] = [j \in Keys |-> Holders(j)]
  OBVIOUS
<1>3. [j \in Keys |-> Found(j)'] = [j \in Keys |-> Found(j)]
  OBVIOUS
<1>4. /\ [j \in Keys |-> Holders(j)][k] = {} \/ k \in overran
      /\ w \in [j \in Keys |-> Found(j)][k]
      /\ [j \in Keys |-> Final(j)][k] = None
  OBVIOUS
<1>5. QED BY <1>1, <1>2, <1>3, <1>4, Zenon
             DEF Promise!Complete, Promise!Alone, Holders, Final

\* A removed worker leaves its key without one.
LEMMA Destroyed ==
  ASSUME NEW k \in Keys, NEW w \in Callers, UNCHANGED overran,
         w \in Found(k), Found(k)' = Found(k) \ {w},
         \A j \in Keys \ {k} : Found(j)' = Found(j),
         \A j \in Keys : Holders(j)' = Holders(j) /\ Final(j)' = Final(j)
  PROVE  Promise!Destroy(k, w)
  BY DEF Promise!Destroy, Holders, Final

\* A launcher that outlives its lease may have company from then on.
LEMMA Forfeited ==
  ASSUME NEW k \in Keys, NEW c \in Callers, overran' = overran \cup {k}, c \in Holders(k),
         \A j \in Keys : /\ Holders(j)' = Holders(j) /\ Found(j)' = Found(j)
                         /\ Final(j)' = Final(j)
  PROVE  Promise!Forfeit(k, c)
  BY DEF Promise!Forfeit, Holders, Final

\* What the product sees changes only with Active, Present and the record.
LEMMA SameHolders ==
  ASSUME \A c \in Callers : (Active(c)' <=> Active(c)) /\ (Active(c) => Key(c)' = Key(c))
  PROVE  \A k \in Keys : Holders(k)' = Holders(k)
  BY DEF Holders

\* Steps that leave records and workers alone say nothing new.
LEMMA SameWorkers ==
  ASSUME \A c \in Callers : (Present(c)' <=> Present(c)) /\ (Present(c) => Key(c)' = Key(c))
  PROVE  \A k \in Keys : Found(k)' = Found(k)
  BY DEF Found

\* Records that stay complete keep their answers.
LEMMA SameFinal ==
  ASSUME UNCHANGED record
  PROVE  \A k \in Keys : Final(k)' = Final(k)
  BY DEF Final

\* A call that moves is a launcher no more, or goes on.
LEMMA LeavesOrStays ==
  ASSUME LaunchInv, NEW c \in Callers, NEW S, Moves(c, S), Active(c)' => Active(c),
         \A d \in Callers : Present(d)' <=> Present(d),
         UNCHANGED record, UNCHANGED overran
  PROVE  [Promise!Next]_(Promise!promiseVars)
<1>1. \A d \in Callers : Key(d)' = Key(d) /\ (d # c => (Active(d)' <=> Active(d)))
  BY DEF Moves, Key, Active
<1>2. \A k \in Keys : Found(k)' = Found(k)
  BY <1>1, SameWorkers
<1>3. \A k \in Keys : Final(k)' = Final(k)
  BY SameFinal
<1>4. CASE Active(c)' <=> Active(c)
  <2>1. \A k \in Keys : Holders(k)' = Holders(k)
    BY <1>1, <1>4, SameHolders
  <2>2. QED BY <1>2, <1>3, <2>1, Stay
<1>5. CASE Active(c) /\ ~Active(c)'
  <2>1. PICK k \in Keys : k = Key(c)
    BY <1>5 DEF LaunchInv, CallInv, Active
  <2>2. /\ c \in Holders(k) /\ Holders(k)' = Holders(k) \ {c}
        /\ \A j \in Keys \ {k} : Holders(j)' = Holders(j)
    BY <1>1, <1>5, <2>1 DEF Holders
  <2>3. Promise!Leave(k, c)
    BY <1>2, <1>3, <2>2, Left
  <2>4. QED BY <2>3 DEF Promise!Next
<1>6. QED BY <1>4, <1>5

\* The steps of a call that are no grant, creation or completion.
LEMMA CallImplements ==
  ASSUME LaunchInv, NEW c \in Callers,
         \/ ClaimAnswered(c) \/ ClaimBusy(c) \/ Existing(c) \/ Setup(c) \/ CreateNetwork(c)
         \/ Reserve(c) \/ LockWorker(c) \/ StartWorker(c) \/ VerifyWorker(c)
         \/ SendFinish(c) \/ GiveUp(c) \/ SendAbort(c) \/ Undo(c) \/ RemovalRefused(c)
         \/ Crash(c),
         UNCHANGED overran
  PROVE  [Promise!Next]_(Promise!promiseVars)
<1>1. PICK S : Moves(c, S) /\ (Active(c)' => Active(c))
  <2>1. CASE ClaimAnswered(c)
    BY <2>1, CallSteps DEF Moves, Active
  <2>2. CASE ClaimBusy(c) \/ Existing(c) \/ GiveUp(c) \/ SendAbort(c) \/ Crash(c)
    BY <2>2, CallSteps DEF Moves, Active
  <2>3. CASE RemovalRefused(c)
    BY <2>3, CallSteps DEF Moves, Active
  <2>4. CASE Setup(c) \/ CreateNetwork(c) \/ Reserve(c) \/ LockWorker(c) \/ StartWorker(c)
             \/ VerifyWorker(c) \/ SendFinish(c) \/ Undo(c)
    <3>1. Active(c)
      BY <2>4 DEF Setup, CreateNetwork, Reserve, LockWorker, StartWorker, VerifyWorker,
                  SendFinish, Undo, Active
    <3>2. QED BY <2>4, <3>1, CallSteps
  <2>5. QED BY <2>1, <2>2, <2>3, <2>4
<1>2. \A d \in Callers : Present(d)' <=> Present(d)
  <2>1. CASE StartWorker(c)
    BY <2>1 DEF StartWorker, LaunchInv, CallInv, TypeOK, Present
  <2>2. CASE VerifyWorker(c)
    BY <2>2 DEF VerifyWorker, LaunchInv, TypeOK, Present
  <2>3. CASE UNCHANGED status
    BY <2>3 DEF Present
  <2>4. QED BY <2>1, <2>2, <2>3
         DEF ClaimAnswered, ClaimBusy, Existing, Setup, CreateNetwork, Reserve, LockWorker,
             SendFinish, GiveUp, SendAbort, Undo, RemovalRefused, Crash, hostVars
<1>3. UNCHANGED record
  BY DEF ClaimAnswered, ClaimBusy, Existing, Setup, CreateNetwork, Reserve, LockWorker,
         StartWorker, VerifyWorker, SendFinish, GiveUp, SendAbort, Undo, RemovalRefused,
         Crash, nodeVars
<1>4. QED BY <1>1, <1>2, <1>3, LeavesOrStays

\* A lease is granted when nobody acts under another and there is no worker.
LEMMA ClaimGrantedImplements ==
  ASSUME LaunchInv, NEW c \in Callers, ClaimGranted(c), UNCHANGED overran
  PROVE  [Promise!Next]_(Promise!promiseVars)
<1>1. call[c].pc = "claim"
  BY DEF ClaimGranted
<1>2. PICK k \in Keys : k = Key(c)
  BY <1>1 DEF LaunchInv, CallInv
<1>3. Moves(c, {"setup", "done"})
  BY CallSteps
<1>4. \A d \in Callers : Key(d)' = Key(d) /\ (d # c => (Active(d)' <=> Active(d)))
  BY <1>3 DEF Moves, Key, Active
<1>5. ~Active(c) /\ (k \notin overran => Holders(k) = {})
  BY <1>1, <1>2 DEF ClaimGranted, LaunchInv, LeaseInv, Open, Holders, Active
<1>6. /\ Found(k) = {}
      /\ \A j \in Keys : Found(j)' = Found(j)
  BY <1>2, <1>4, SameWorkers DEF ClaimGranted, Present, hostVars
<1>7. Final(k) = None
  BY <1>2 DEF ClaimGranted, Open, Final
<1>8. \A j \in Keys : Final(j)' = Final(j)
  BY <1>2, <1>7 DEF ClaimGranted, Final, LaunchInv, TypeOK
<1>9. CASE Active(c)'
  <2>1. /\ Holders(k)' = Holders(k) \cup {c}
        /\ \A j \in Keys \ {k} : Holders(j)' = Holders(j)
    BY <1>2, <1>4, <1>5, <1>9 DEF Holders
  <2>2. Promise!Grant(k, c)
    BY <1>5, <1>6, <1>7, <1>8, <1>9, <2>1, Granted
  <2>3. QED BY <2>2 DEF Promise!Next
<1>10. CASE ~Active(c)'
  <2>1. \A j \in Keys : Holders(j)' = Holders(j)
    BY <1>4, <1>5, <1>10, SameHolders
  <2>2. QED BY <1>6, <1>8, <2>1, Stay
<1>11. QED BY <1>9, <1>10

\* A worker is created by the holder of the lease, when there is none.
LEMMA CreateWorkerImplements ==
  ASSUME LaunchInv, NEW c \in Callers, CreateWorker(c), UNCHANGED overran
  PROVE  [Promise!Next]_(Promise!promiseVars)
<1>1. Active(c)
  BY DEF CreateWorker, Active
<1>2. PICK k \in Keys : k = Key(c)
  BY <1>1 DEF LaunchInv, CallInv, Active
<1>3. Moves(c, {"created", "undo"})
  BY CallSteps
<1>4. \A d \in Callers : Key(d)' = Key(d) /\ (Active(d)' <=> Active(d))
  BY <1>1, <1>3 DEF Moves, Key, Active
<1>5. \A j \in Keys : Holders(j)' = Holders(j)
  BY <1>4, SameHolders
<1>6. \A j \in Keys : Final(j)' = Final(j)
  BY SameFinal DEF CreateWorker, nodeVars
<1>7. CASE Found(k) = {} /\ status' = [status EXCEPT ![c] = "created"]
  <2>1. \A d \in Callers : Present(d)' <=> d = c \/ Present(d)
    BY <1>7 DEF Present, LaunchInv, TypeOK
  <2>2. /\ Found(k)' = {c}
        /\ \A j \in Keys \ {k} : Found(j)' = Found(j)
    BY <1>2, <1>4, <1>7, <2>1 DEF Found
  <2>3. c \in Holders(k)
    BY <1>2, <1>1 DEF Holders
  <2>4. Promise!Create(k, c)
    BY <1>5, <1>6, <1>7, <2>2, <2>3, Created
  <2>5. QED BY <2>4 DEF Promise!Next
<1>8. CASE UNCHANGED status
  <2>1. \A j \in Keys : Found(j)' = Found(j)
    BY <1>4, <1>8, SameWorkers DEF Present
  <2>2. QED BY <1>5, <1>6, <2>1, Stay
<1>9. QED BY <1>2, <1>7, <1>8 DEF CreateWorker

\* The answer is recorded when no launcher is left.
LEMMA CompleteImplements ==
  ASSUME LaunchInv, NEW k \in Keys, NEW w \in Callers, Complete(k, w),
         k \notin overran => Holders(k) = {}, w \in Found(k), Final(k) = None,
         \A c \in Callers : Key(c)' = Key(c) /\ (Active(c)' <=> Active(c)),
         UNCHANGED status, UNCHANGED overran
  PROVE  [Promise!Next]_(Promise!promiseVars)
<1>1. \A j \in Keys : Holders(j)' = Holders(j) /\ Found(j)' = Found(j)
  BY SameHolders, SameWorkers DEF Present
<1>2. Final(k)' = w /\ \A j \in Keys \ {k} : Final(j)' = Final(j)
  BY DEF Complete, Final, LaunchInv, TypeOK
<1>3. Promise!Complete(k, w)
  BY <1>1, <1>2, Completed
<1>4. QED BY <1>3 DEF Promise!Next

\* A claim that finds a worker records what the engine knew already.
LEMMA ClaimFindsImplements ==
  ASSUME LaunchInv, NEW c \in Callers, ClaimFinds(c), UNCHANGED overran
  PROVE  [Promise!Next]_(Promise!promiseVars)
<1>1. PICK k \in Keys : k = Key(c)
  BY DEF ClaimFinds, LaunchInv, CallInv
<1>2. ~Active(c)
  BY DEF ClaimFinds, LaunchInv, CallInv, Active
<1>3. Moves(c, {"existing", "done"})
  BY CallSteps
<1>4. \A d \in Callers : Key(d)' = Key(d) /\ (Active(d)' <=> Active(d))
  BY <1>2, <1>3 DEF Moves, Key, Active
<1>5. k \notin overran => Holders(k) = {}
  BY <1>1, <1>2 DEF ClaimFinds, LaunchInv, LeaseInv, Open, Holders
<1>6. Final(k) = None
  BY <1>1 DEF ClaimFinds, Open, Final
<1>7. PICK w \in Found(k) : Complete(k, w)
  BY <1>1 DEF ClaimFinds
<1>8. w \in Callers /\ UNCHANGED status
  BY <1>1 DEF ClaimFinds, Found, hostVars
<1>9. QED BY <1>4, <1>5, <1>6, <1>7, <1>8, CompleteImplements

\* A confirmation makes the answer of its key final.
LEMMA HandleFinishImplements ==
  ASSUME LaunchInv, NEW c \in Callers, HandleFinish(c), UNCHANGED overran
  PROVE  [Promise!Next]_(Promise!promiseVars)
<1>1. PICK k \in Keys : k = Key(c)
  BY DEF HandleFinish, LaunchInv, CallInv
<1>2. ~Active(c)
  BY DEF HandleFinish, LaunchInv, CallInv, Active
<1>3. \A d \in Callers : Key(d)' = Key(d) /\ (Active(d)' <=> Active(d))
  BY <1>2, CallSteps DEF Moves, Key, Active
<1>4. UNCHANGED status
  BY DEF HandleFinish, hostVars
<1>5. CASE Current(c) /\ Found(k) = {c}
  <2>1. Complete(k, c)
    BY <1>1, <1>5 DEF HandleFinish
  <2>2. k \notin overran => Holders(k) = {}
    BY <1>1, <1>2, <1>5 DEF Current, LaunchInv, LeaseInv, Holders
  <2>3. Final(k) = None /\ c \in Found(k)
    BY <1>1, <1>5 DEF Current, Final
  <2>4. QED BY <1>3, <1>4, <2>1, <2>2, <2>3, CompleteImplements
<1>6. CASE ~(Current(c) /\ Found(k) = {c})
  <2>1. UNCHANGED <<record, call>>
    BY <1>1, <1>6 DEF HandleFinish
  <2>2. QED BY <1>3, <1>4, <2>1, SameHolders, SameWorkers, SameFinal, Stay DEF Present
<1>7. QED BY <1>5, <1>6

\* A deleted worker.
LEMMA DeleteWorkerImplements ==
  ASSUME LaunchInv, NEW w \in Callers, DeleteWorker(w), UNCHANGED overran
  PROVE  [Promise!Next]_(Promise!promiseVars)
<1>1. PICK k \in Keys : k = Key(w)
  BY DEF DeleteWorker, LaunchInv, CallInv, RemovalInv
<1>2. \A d \in Callers : /\ Key(d)' = Key(d) /\ (Active(d)' <=> Active(d))
                         /\ Present(d)' <=> d # w /\ Present(d)
  BY DEF DeleteWorker, Key, Active, Present, LaunchInv, TypeOK
<1>3. \A j \in Keys : Holders(j)' = Holders(j) /\ Final(j)' = Final(j)
  BY <1>2, SameHolders, SameFinal DEF DeleteWorker, nodeVars
<1>4. CASE Present(w)
  <2>1. /\ w \in Found(k) /\ Found(k)' = Found(k) \ {w}
        /\ \A j \in Keys \ {k} : Found(j)' = Found(j)
    BY <1>1, <1>2, <1>4 DEF Found
  <2>2. Promise!Destroy(k, w)
    BY <1>3, <2>1, Destroyed
  <2>3. QED BY <2>2 DEF Promise!Next
<1>5. CASE ~Present(w)
  BY <1>2, <1>3, <1>5, SameWorkers, Stay
<1>6. QED BY <1>4, <1>5

\* A removal ends, and with it the launcher that asked for it.
LEMMA RemovalEndImplements ==
  ASSUME LaunchInv, NEW w \in Callers, Forget(w) \/ FailRemoval(w), UNCHANGED overran
  PROVE  [Promise!Next]_(Promise!promiseVars)
<1>1. UNCHANGED record /\ \A d \in Callers : Present(d)' <=> Present(d)
  BY DEF Forget, FailRemoval, nodeVars, hostVars, Present
<1>2. CASE UNCHANGED call
  BY <1>1, <1>2, SameHolders, SameWorkers, SameFinal, Stay DEF Key, Active
<1>3. CASE call[w].pc = "remove" /\ Moves(w, {"abort"})
  <2>1. Active(w)
    BY <1>3 DEF Active
  <2>2. QED BY <1>1, <1>3, <2>1, LeavesOrStays
<1>4. QED BY <1>2, <1>3, CallSteps

\* Messages, time and the rest of a removal: nothing that the product sees.
LEMMA OtherImplements ==
  ASSUME LaunchInv,
         \/ \E c \in Callers, k \in Keys, f \in Options : Begin(c, k, f)
         \/ \E c \in Callers : HandleAbort(c) \/ Lose(c)
         \/ \E w \in Callers :
              \/ \E by \in {w, Product} : BeginRemoval(w, by)
              \/ RemoveNetwork(w) \/ ReleaseAllocation(w) \/ WorkerExits(w)
         \/ \E k \in Keys : AgeReservation(k) \/ RecoverOrphan(k)
         \/ UNCHANGED vars,
         UNCHANGED overran
  PROVE  UNCHANGED Promise!promiseVars
<1>1. \A d \in Callers : /\ Active(d)' <=> Active(d)
                         /\ Active(d) \/ Present(d) => Key(d)' = Key(d)
  <2>1. ASSUME NEW c \in Callers, NEW k \in Keys, NEW f \in Options, Begin(c, k, f)
        PROVE  \A d \in Callers : /\ Active(d)' <=> Active(d)
                                  /\ Active(d) \/ Present(d) => Key(d)' = Key(d)
    <3>1. ~Active(c) /\ ~Present(c)
      BY <2>1 DEF Begin, Active, LaunchInv, CallInv, Present
    <3>2. /\ call'[c].pc = "claim"
          /\ \A d \in Callers \ {c} : call'[d] = call[d]
      BY <2>1 DEF Begin, LaunchInv, TypeOK, NoCall
    <3>3. QED BY <3>1, <3>2 DEF Active, Key
  <2>2. CASE UNCHANGED call
    BY <2>2 DEF Active, Key
  <2>3. QED
    BY <2>1, <2>2
    DEF HandleAbort, Lose, BeginRemoval, RemoveNetwork, ReleaseAllocation, WorkerExits,
        AgeReservation, RecoverOrphan, vars
<1>2. \A d \in Callers : Present(d)' <=> Present(d)
  <2>1. ASSUME NEW w \in Callers, WorkerExits(w)
        PROVE \A d \in Callers : Present(d)' <=> Present(d)
    BY <2>1 DEF WorkerExits, Running, Present, LaunchInv, TypeOK
  <2>2. CASE UNCHANGED status
    BY <2>2 DEF Present
  <2>3. QED
    BY <2>1, <2>2
    DEF Begin, HandleAbort, Lose, BeginRemoval, RemoveNetwork, ReleaseAllocation,
        AgeReservation, RecoverOrphan, vars, hostVars
<1>3. \A k \in Keys : Final(k)' = Final(k)
  <2>1. ASSUME NEW c \in Callers, HandleAbort(c) PROVE \A k \in Keys : Final(k)' = Final(k)
    <3>1. \A k \in Keys : record[k] \in Records
      BY DEF LaunchInv, TypeOK
    <3>2. QED BY <2>1, <3>1 DEF HandleAbort, Current, Final, LaunchInv, TypeOK, Records
  <2>2. CASE UNCHANGED record
    BY <2>2, SameFinal
  <2>3. QED
    BY <2>1, <2>2
    DEF Begin, Lose, BeginRemoval, RemoveNetwork, ReleaseAllocation, WorkerExits,
        AgeReservation, RecoverOrphan, vars, nodeVars
<1>4. QED BY <1>1, <1>2, <1>3, SameHolders, SameWorkers, Stay

\* The end of a lease.
LEMMA AgeLeaseImplements ==
  ASSUME LaunchInv, NEW k \in Keys, AgeLease(k)
  PROVE  [Promise!Next]_(Promise!promiseVars)
<1>1. \A j \in Keys : Final(j)' = Final(j)
  <2>1. \A j \in Keys : record[j] \in Records
    BY DEF LaunchInv, TypeOK
  <2>2. QED BY <2>1 DEF AgeLease, Final, LaunchInv, TypeOK, Records
<1>2. \A j \in Keys : Holders(j)' = Holders(j) /\ Found(j)' = Found(j)
  BY SameHolders, SameWorkers DEF AgeLease, hostVars, Active, Present, Key
<1>3. CASE \E c \in Callers : Active(c) /\ Key(c) = k
  <2>1. PICK c \in Callers : c \in Holders(k)
    BY <1>3 DEF Holders
  <2>2. Promise!Forfeit(k, c)
    BY <1>1, <1>2, <1>3, <2>1, Forfeited DEF AgeLease
  <2>3. QED BY <2>2 DEF Promise!Next
<1>4. CASE ~\E c \in Callers : Active(c) /\ Key(c) = k
  BY <1>1, <1>2, <1>4, Stay DEF AgeLease
<1>5. QED BY <1>3, <1>4

\* At first nobody holds anything.
LEMMA InitImplements == Init => Promise!Init
<1> SUFFICES ASSUME Init PROVE Promise!Init
  OBVIOUS
<1>1. \A k \in Keys : Holders(k) = {} /\ Found(k) = {}
  BY DEF Init, Holders, Found, Active, Present, NoCall
<1>2. \A k \in Keys : Final(k) = None
  BY DEF Init, Final, NoRecord
<1>3. /\ [k \in Keys |-> Holders(k)] = [k \in Keys |-> {}]
      /\ [k \in Keys |-> Found(k)] = [k \in Keys |-> {}]
      /\ [k \in Keys |-> Final(k)] = [k \in Keys |-> None]
  BY <1>1, <1>2
<1>4. overran = {}
  BY DEF Init
<1>5. QED BY <1>3, <1>4, Zenon DEF Promise!Init, Holders, Final

\* Every step of the ledger is one of the promise, or none.
LEMMA NextImplements ==
  ASSUME LaunchInv, [Next]_vars
  PROVE  [Promise!Next]_(Promise!promiseVars)
<1>1. ASSUME NEW c \in Callers,
             \/ ClaimAnswered(c) \/ ClaimFinds(c) \/ ClaimBusy(c) \/ ClaimGranted(c)
             \/ Existing(c) \/ Setup(c) \/ CreateNetwork(c) \/ Reserve(c)
             \/ CreateWorker(c) \/ LockWorker(c) \/ StartWorker(c) \/ VerifyWorker(c)
             \/ SendFinish(c) \/ HandleFinish(c) \/ GiveUp(c) \/ SendAbort(c)
             \/ Undo(c) \/ RemovalRefused(c) \/ Crash(c),
             UNCHANGED overran
      PROVE  [Promise!Next]_(Promise!promiseVars)
  BY <1>1, CallImplements, ClaimFindsImplements, ClaimGrantedImplements,
     CreateWorkerImplements, HandleFinishImplements
<1>2. ASSUME NEW w \in Callers, DeleteWorker(w) \/ Forget(w) \/ FailRemoval(w),
             UNCHANGED overran
      PROVE  [Promise!Next]_(Promise!promiseVars)
  BY <1>2, DeleteWorkerImplements, RemovalEndImplements
<1>3. ASSUME \/ \E c \in Callers, k \in Keys, f \in Options : Begin(c, k, f)
             \/ \E c \in Callers : HandleAbort(c) \/ Lose(c)
             \/ \E w \in Callers :
                  \/ \E by \in {w, Product} : BeginRemoval(w, by)
                  \/ RemoveNetwork(w) \/ ReleaseAllocation(w) \/ WorkerExits(w)
             \/ \E k \in Keys : AgeReservation(k) \/ RecoverOrphan(k)
             \/ UNCHANGED vars,
             UNCHANGED overran
      PROVE  [Promise!Next]_(Promise!promiseVars)
  BY <1>3, OtherImplements
<1>4. ASSUME NEW k \in Keys, AgeLease(k)
      PROVE  [Promise!Next]_(Promise!promiseVars)
  BY <1>4, AgeLeaseImplements
<1>5. CASE UNCHANGED vars
  BY <1>3, <1>5 DEF vars
<1>6. QED BY <1>1, <1>2, <1>3, <1>4, <1>5, KeepsOverran DEF Next

\* The node keeps its promise for launchers of any speed: one worker at a time,
\* made by a launcher, and a final answer; one launcher at a time, too, unless
\* one of the request's own launchers has outlived its lease.
THEOREM PromiseKept == Spec => KeepsPromise
<1>1. Init => Promise!Init
  BY InitImplements
<1>2. LaunchInv /\ [Next]_vars => [Promise!Next]_(Promise!promiseVars)
  BY NextImplements
<1>3. QED BY <1>1, <1>2, LaunchInvHolds, PTL DEF Spec, KeepsPromise, Promise!Spec

=============================================================================
