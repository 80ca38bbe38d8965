-------------------------- MODULE WorkerLifecycleProofs --------------------------
(***************************************************************************)
(* Workers keep their network and reservation, quarantine is final, and    *)
(* what a stop, quarantine or removal reports is true, for any number of   *)
(* workers and Products.                                                   *)
(***************************************************************************)
EXTENDS WorkerLifecycle, TLAPS

\* Which steps belong to which kind of operation.
Shape(o) ==
  \/ o = Idle
  \/ /\ o.worker \in Workers
     /\ \/ o.kind = "run" /\ o.step \in {"network", "reserve", "create", "lock", "start",
             "starting", "verify", "restore", "restoring", "release", "answer", "rollback"}
        \/ o.kind = "start" /\ o.step \in {"lock", "check", "reserve", "start", "starting",
             "verify", "restore", "restoring", "release", "answer", "revoke", "stop",
             "dealloc"}
        \/ o.kind = "stop" /\ o.step \in {"lock", "revoke", "stop", "dealloc"}
        \/ o.kind = "quarantine" /\ o.step \in {"lock", "quarantine", "revoke", "confirm",
             "dealloc"}
        \/ o.kind = "remove" /\ o.step \in {"lock", "journal", "delete", "revoke", "unnet",
             "dealloc", "forget"}
        \/ o.kind = "wait" /\ o.step = "revoke"

ShapeInv == \A p \in Products : Shape(op[p])

\* From its lock to its end an operation holds the worker's lifecycle lock.
Locked(o) ==
  /\ o.kind \notin {"idle", "wait"}
  /\ o.step \notin {"network", "create", "lock", "rollback"}
  /\ o.step = "reserve" => o.kind = "start"

LockInv == \A p \in Products : Locked(op[p]) => lock[W(p)] = p

\* Only a run works on a worker that the engine does not know yet.
KnownAt(p) == op[p].kind \notin {"idle", "run"} => engine[W(p)] # "none"
KnownInv == \A p \in Products : KnownAt(p)
JournalInv == \A w \in journal : engine[w] # "none"

\* It has its worker for itself until the engine knows it.
Early(o) == o.kind = "run" /\ o.step \in {"network", "reserve", "create"}

EarlyAt(p) ==
  Early(op[p]) => /\ engine[W(p)] = "none"
                  /\ \A q \in Products \ {p} : W(q) # W(p)
EarlyInv == \A p \in Products : EarlyAt(p)

\* A start reserves for a worker that exists.
StartAt(p) == op[p].kind = "start" /\ op[p].step = "reserve" => Exists(W(p))
StartInv == \A p \in Products : StartAt(p)

\* How far a removal has come.
RemovalAt(p) ==
  op[p].kind = "remove" =>
    /\ op[p].step \in {"revoke", "unnet", "dealloc", "forget"} => engine[W(p)] = "gone"
    /\ op[p].step \in {"dealloc", "forget"} => net # W(p)
    /\ op[p].step = "forget" => W(p) \notin reserved
RemovalInv == \A p \in Products : RemovalAt(p)

\* Past a revocation without error only a late restore brings a token back.
Past(o) ==
  \/ o.kind = "stop" /\ o.step \in {"stop", "dealloc"}
  \/ o.kind = "quarantine" /\ o.step \in {"confirm", "dealloc"}
  \/ o.kind = "remove" /\ o.step \in {"unnet", "dealloc", "forget"}

RevokedAt(p) == Past(op[p]) /\ ~op[p].failed /\ token = W(p) => late
RevokedInv == \A p \in Products : RevokedAt(p)

\* A caller that waits for a restore has withdrawn what was reported before.
RestoreAt(p) == op[p].step = "restoring" => answered[W(p)] = "none"
RestoreInv == \A p \in Products : RestoreAt(p)

\* A confirmed quarantine, and a reported one.
LabelAt(p) == op[p].kind = "quarantine" /\ op[p].step = "dealloc" => W(p) \in mark
LabelInv == \A p \in Products : LabelAt(p)
MarkInv == \A w \in Workers : answered[w] = "quarantined" => w \in mark /\ ~Live(w)

\* A reported removal.
GoneInv ==
  \A w \in Workers : answered[w] = "removed" =>
    engine[w] = "gone" /\ net # w /\ w \notin reserved

WorkerInv ==
  /\ TypeOK /\ ShapeInv /\ LockInv /\ KnownInv /\ JournalInv /\ EarlyInv /\ StartInv
  /\ RemovalInv /\ RevokedInv /\ RestoreInv /\ LabelInv /\ MarkInv /\ GoneInv
  /\ WorkerKeepsResources /\ AnsweredIsRevoked

-----------------------------------------------------------------------------
\* Product p's operation takes a step to S and nobody else's does.
Turns(p, S) ==
  /\ op' \in [Products -> Ops]
  /\ op'[p].kind = op[p].kind /\ op'[p].worker = op[p].worker /\ op'[p].step \in S
  /\ op[p].failed => op'[p].failed \/ op'[p].step = "revoke"
  /\ \A q \in Products \ {p} : op'[q] = op[q]

\* It is over.
Ends(p) ==
  /\ op' \in [Products -> Ops]
  /\ op'[p] = Idle
  /\ \A q \in Products \ {p} : op'[q] = op[q]

\* It goes on to S, or takes one of the error paths.
Proceeds(p, S) ==
  \/ Turns(p, S) /\ UNCHANGED lock
  \/ op[p].kind = "run" /\ Turns(p, {"rollback"}) /\ Unlock(p)
  \/ StartHolds(p) /\ Turns(p, {"revoke"}) /\ UNCHANGED lock
  \/ Ends(p) /\ Unlock(p)

\* What Go, End, OnFail and Answer do to the operations.
LEMMA IdleOp == Idle \in Ops
  BY DEF Idle, Ops, Kinds, Steps

\* Go is a step of the operation to s.
LEMMA GoTurns ==
  ASSUME TypeOK, NEW p \in Products, NEW s \in Steps, Go(p, s)
  PROVE  Turns(p, {s})
<1>1. op[p] \in Ops /\ op \in [Products -> Ops]
  BY DEF TypeOK
<1>2. [op[p] EXCEPT !.step = s] \in Ops
  BY <1>1 DEF Ops
<1>3. op' = [op EXCEPT ![p] = [op[p] EXCEPT !.step = s]]
  BY <1>1 DEF Go
<1>4. QED BY <1>1, <1>2, <1>3 DEF Turns, Ops

\* So is a step that also remembers what it has made.
LEMMA MadeTurns ==
  ASSUME TypeOK, NEW p \in Products, NEW s \in Steps,
         NEW made \in SUBSET {"network", "allocation", "container", "token"},
         op' = [op EXCEPT ![p].step = s, ![p].made = made]
  PROVE  Turns(p, {s})
<1>1. op[p] \in Ops /\ op \in [Products -> Ops]
  BY DEF TypeOK
<1>2. [op[p] EXCEPT !.step = s, !.made = made] \in Ops
  BY <1>1 DEF Ops
<1>3. op' = [op EXCEPT ![p] = [op[p] EXCEPT !.step = s, !.made = made]]
  BY <1>1 DEF Ops
<1>4. QED BY <1>1, <1>2, <1>3 DEF Turns, Ops

\* And one that keeps whether something failed; only an error path forgets it.
LEMMA FailedTurns ==
  ASSUME TypeOK, NEW p \in Products, NEW s \in Steps, NEW b \in BOOLEAN,
         op' = [op EXCEPT ![p].failed = b, ![p].step = s],
         op[p].failed => b \/ s = "revoke"
  PROVE  Turns(p, {s}) /\ op'[p].failed = b
<1>1. op[p] \in Ops /\ op \in [Products -> Ops]
  BY DEF TypeOK
<1>2. [op[p] EXCEPT !.failed = b, !.step = s] \in Ops
  BY <1>1 DEF Ops
<1>3. op' = [op EXCEPT ![p] = [op[p] EXCEPT !.failed = b, !.step = s]]
  BY <1>1 DEF Ops
<1>4. QED BY <1>1, <1>2, <1>3 DEF Turns, Ops

\* An operation that ends becomes idle and unlocks.
LEMMA EndEnds ==
  ASSUME TypeOK, NEW p \in Products, End(p)
  PROVE  Ends(p) /\ Unlock(p)
  BY IdleOp DEF TypeOK, End, Ends

\* A failed step rolls back a run, undoes a start, and ends everything else.
LEMMA FailProceeds ==
  ASSUME TypeOK, NEW p \in Products, OnFail(p)
  PROVE  Proceeds(p, {})
<1>1. CASE op[p].kind = "run"
  <2>1. Go(p, "rollback") /\ Unlock(p)
    BY <1>1 DEF OnFail, StartHolds
  <2>2. QED BY <1>1, <2>1, GoTurns DEF Proceeds, Steps
<1>2. CASE op[p].kind # "run" /\ StartHolds(p)
  <2>1. op' = [op EXCEPT ![p].step = "revoke", ![p].failed = TRUE] /\ UNCHANGED lock
    BY <1>2 DEF OnFail
  <2>2. op[p] \in Ops /\ op \in [Products -> Ops]
    BY DEF TypeOK
  <2>3. [op[p] EXCEPT !.step = "revoke", !.failed = TRUE] \in Ops
    BY <2>2 DEF Ops, Steps
  <2>4. op' = [op EXCEPT ![p] = [op[p] EXCEPT !.step = "revoke", !.failed = TRUE]]
    BY <2>1, <2>2 DEF Ops
  <2>5. Turns(p, {"revoke"})
    BY <2>2, <2>3, <2>4 DEF Turns, Ops
  <2>6. QED BY <1>2, <2>1, <2>5 DEF Proceeds
<1>3. CASE op[p].kind # "run" /\ ~StartHolds(p)
  <2>1. End(p)
    BY <1>3 DEF OnFail
  <2>2. QED BY <2>1, EndEnds DEF Proceeds
<1>4. QED BY <1>1, <1>2, <1>3

\* A step whose answer may be lost goes on or fails.
LEMMA AnswerProceeds ==
  ASSUME TypeOK, NEW p \in Products, NEW s \in Steps, Answer(p, s)
  PROVE  Proceeds(p, {s})
<1>1. CASE Go(p, s) /\ UNCHANGED lock
  BY <1>1, GoTurns DEF Proceeds
<1>2. CASE OnFail(p)
  BY <1>2, FailProceeds DEF Proceeds, Turns
<1>3. QED BY <1>1, <1>2 DEF Answer


\* Where a revocation leads to.
AfterRevoke(p) ==
  IF op[p].kind \in {"start", "stop"} THEN {"stop"}
  ELSE IF op[p].kind = "quarantine" THEN {"confirm"}
  ELSE IF op[p].kind = "remove" THEN {"unnet"} ELSE {}

\* It is over, or remembers that something failed.
Reported(p) == op'[p] = Idle \/ op'[p].failed

\* Which steps an operation takes.
LEMMA OpSteps ==
  ASSUME WorkerInv, NEW p \in Products
  PROVE  /\ TakeLock(p) => Turns(p, {AfterLock(op[p].kind)})
         /\ Check(p) => Proceeds(p, {"reserve"})
         /\ CreateNetwork(p) => Proceeds(p, {"reserve"})
         /\ Reserve(p) => Proceeds(p, IF op[p].kind = "run" THEN {"create", "rollback"}
                                                            ELSE {"start"})
         /\ CreateContainer(p) => Proceeds(p, {"lock"})
         /\ ReturnCreated(p) => Proceeds(p, {})
         /\ ContainerStart(p) => Proceeds(p, {"starting"})
         /\ VerifyGuest(p) => Proceeds(p, {"restore"})
         /\ RestoreWorkerToken(p) => Proceeds(p, {"restoring"})
         /\ ReleaseGuest(p) => Proceeds(p, {"answer"})
         /\ ReturnStarted(p) => Proceeds(p, {})
         /\ Revoke(p) => /\ Proceeds(p, AfterRevoke(p))
                         /\ token' # None => Reported(p)
         /\ StopWorker(p) => Proceeds(p, {"dealloc"})
         /\ Quarantine(p) => Proceeds(p, {"revoke"})
         /\ Confirm(p) => Proceeds(p, {"dealloc"})
         /\ Release(p) => \/ Proceeds(p, {})
                          \/ op[p].kind = "remove" /\ Proceeds(p, {"forget"})
         /\ WriteJournal(p) => Proceeds(p, {"delete"})
         /\ DeleteWorker(p) => Proceeds(p, {"revoke"})
         /\ RemoveNetwork(p) => Proceeds(p, {"dealloc"})
         /\ Forget(p) => Proceeds(p, {})
         /\ FailStep(p) => Proceeds(p, {})
         /\ Crash(p) => Proceeds(p, {})
<1> USE DEF WorkerInv
<1>0. op[p] \in Ops /\ Shape(op[p])
  BY DEF TypeOK, ShapeInv
<1>1. ASSUME TakeLock(p) PROVE Turns(p, {AfterLock(op[p].kind)})
  <2>1. AfterLock(op[p].kind) \in Steps
    BY <1>0, <1>1 DEF TakeLock, AfterLock, Shape, Ops, Kinds, Steps, Idle
  <2>2. QED BY <1>1, <2>1, GoTurns DEF TakeLock
<1>2. ASSUME Check(p) PROVE Proceeds(p, {"reserve"})
  <2>1. CASE OnFail(p)
    BY <2>1, FailProceeds DEF Proceeds, Turns
  <2>2. CASE End(p)
    BY <2>2, EndEnds DEF Proceeds
  <2>3. CASE Go(p, "reserve") /\ UNCHANGED lock
    BY <2>3, GoTurns DEF Proceeds, Steps
  <2>4. QED BY <1>2, <2>1, <2>2, <2>3 DEF Check
<1>3. ASSUME CreateNetwork(p) PROVE Proceeds(p, {"reserve"})
  <2>1. CASE OnFail(p)
    BY <2>1, FailProceeds DEF Proceeds, Turns
  <2>2. CASE ~OnFail(p)
    <3>1. {"network"} \in SUBSET {"network", "allocation", "container", "token"}
      OBVIOUS
    <3>2. /\ op' = [op EXCEPT ![p].step = "reserve", ![p].made = {"network"}]
          /\ UNCHANGED lock
      BY <1>3, <2>2 DEF CreateNetwork
    <3>3. QED BY <3>1, <3>2, MadeTurns DEF Proceeds, Steps
  <2>3. QED BY <2>1, <2>2
<1>4. ASSUME Reserve(p)
      PROVE  Proceeds(p, IF op[p].kind = "run" THEN {"create", "rollback"} ELSE {"start"})
  <2>1. CASE op[p].kind = "run"
    <3>1. op[p].made \cup {"allocation"}
            \in SUBSET {"network", "allocation", "container", "token"}
      BY <1>0 DEF Ops
    <3>2. PICK s \in {"rollback", "create"} :
            op' = [op EXCEPT ![p].step = s, ![p].made = op[p].made \cup {"allocation"}]
      BY <1>0, <1>4, <2>1 DEF Reserve, Ops, TypeOK
    <3>3. Turns(p, {s}) /\ UNCHANGED lock
      BY <1>4, <2>1, <3>1, <3>2, MadeTurns DEF Reserve, Steps
    <3>4. QED BY <2>1, <3>3 DEF Proceeds, Turns
  <2>2. CASE op[p].kind # "run"
    BY <1>4, <2>2, AnswerProceeds DEF Reserve, Steps
  <2>3. QED BY <2>1, <2>2
<1>5. ASSUME CreateContainer(p) PROVE Proceeds(p, {"lock"})
  <2>1. CASE OnFail(p)
    BY <2>1, FailProceeds DEF Proceeds, Turns
  <2>2. CASE ~OnFail(p)
    <3>1. op[p].made \cup {"container"}
            \in SUBSET {"network", "allocation", "container", "token"}
      BY <1>0 DEF Ops
    <3>2. op' = [op EXCEPT ![p].step = "lock", ![p].made = op[p].made \cup {"container"}]
      BY <1>0, <1>5, <2>2 DEF CreateContainer, Ops, TypeOK
    <3>3. QED BY <1>5, <2>2, <3>1, <3>2, MadeTurns DEF CreateContainer, Proceeds, Steps
  <2>3. QED BY <2>1, <2>2
<1>6. ASSUME ReturnCreated(p) PROVE Proceeds(p, {})
  BY <1>6, EndEnds DEF ReturnCreated, Proceeds
<1>7. ASSUME ContainerStart(p) PROVE Proceeds(p, {"starting"})
  BY <1>7, GoTurns DEF ContainerStart, Proceeds, Steps
<1>8. ASSUME VerifyGuest(p) PROVE Proceeds(p, {"restore"})
  BY <1>8, GoTurns DEF VerifyGuest, Proceeds, Steps
<1>9. ASSUME RestoreWorkerToken(p) PROVE Proceeds(p, {"restoring"})
  <2>1. op[p].made \cup {"token"}
          \in SUBSET {"network", "allocation", "container", "token"}
    BY <1>0 DEF Ops
  <2>2. op' = [op EXCEPT ![p].step = "restoring", ![p].made = op[p].made \cup {"token"}]
    BY <1>0, <1>9 DEF RestoreWorkerToken, Ops, TypeOK
  <2>3. QED BY <1>9, <2>1, <2>2, MadeTurns DEF RestoreWorkerToken, Proceeds, Steps
<1>10. ASSUME ReleaseGuest(p) PROVE Proceeds(p, {"answer"})
  BY <1>10, AnswerProceeds DEF ReleaseGuest, Steps
<1>11. ASSUME ReturnStarted(p) PROVE Proceeds(p, {})
  BY <1>11, EndEnds DEF ReturnStarted, Proceeds
<1>12. ASSUME Revoke(p)
       PROVE  Proceeds(p, AfterRevoke(p)) /\ (token' # None => Reported(p))
  <2>1. PICK ok \in BOOLEAN :
          /\ token' \in IF ok THEN {None} ELSE {None, token}
          /\ IF op[p].kind = "wait" \/ (op[p].kind = "quarantine" /\ op[p].failed)
             THEN End(p)
             ELSE /\ op' = [op EXCEPT ![p].failed = @ \/ ~ok, ![p].step =
                             CASE op[p].kind \in {"start", "stop"} -> "stop"
                               [] op[p].kind = "quarantine" -> "confirm"
                               [] op[p].kind = "remove" -> "unnet"]
                  /\ UNCHANGED lock
    BY <1>12 DEF Revoke
  <2>2. CASE op[p].kind = "wait" \/ (op[p].kind = "quarantine" /\ op[p].failed)
    BY <2>1, <2>2, EndEnds DEF Proceeds, Ends, Reported
  <2>3. CASE ~(op[p].kind = "wait" \/ (op[p].kind = "quarantine" /\ op[p].failed))
    <3>1. op[p].kind \in {"start", "stop", "quarantine", "remove"}
      BY <1>0, <1>12, <2>3 DEF Revoke, Shape, Idle, Ops, Kinds
    <3>2. PICK s \in Steps :
            /\ AfterRevoke(p) = {s}
            /\ s = CASE op[p].kind \in {"start", "stop"} -> "stop"
                     [] op[p].kind = "quarantine" -> "confirm"
                     [] op[p].kind = "remove" -> "unnet"
      BY <3>1 DEF AfterRevoke, Steps
    <3>3. PICK b \in BOOLEAN : b = (op[p].failed \/ ~ok)
      OBVIOUS
    <3>4. op' = [op EXCEPT ![p].failed = b, ![p].step = s] /\ UNCHANGED lock
      BY <1>0, <2>1, <2>3, <3>2, <3>3 DEF TypeOK
    <3>5. Turns(p, {s}) /\ op'[p].failed = b
      BY <3>3, <3>4, FailedTurns
    <3>6. token' # None => b
      BY <2>1, <3>3
    <3>7. QED BY <3>2, <3>4, <3>5, <3>6 DEF Proceeds, Reported
  <2>4. QED BY <2>2, <2>3
<1>13. ASSUME StopWorker(p) PROVE Proceeds(p, {"dealloc"})
  BY <1>13, GoTurns, AnswerProceeds DEF StopWorker, Proceeds, Steps
<1>14. ASSUME Quarantine(p) PROVE Proceeds(p, {"revoke"})
  <2>1. PICK ok \in BOOLEAN : op' = [op EXCEPT ![p].step = "revoke", ![p].failed = ~ok]
    BY <1>14 DEF Quarantine
  <2>2. PICK b \in BOOLEAN : b = ~ok
    OBVIOUS
  <2>3. op' = [op EXCEPT ![p].failed = b, ![p].step = "revoke"]
    BY <1>0, <2>1, <2>2 DEF TypeOK, Ops
  <2>4. QED BY <1>14, <2>3, FailedTurns DEF Quarantine, Proceeds, Steps
<1>15. ASSUME Confirm(p) PROVE Proceeds(p, {"dealloc"})
  BY <1>15, GoTurns DEF Confirm, Proceeds, Steps
<1>16. ASSUME Release(p)
       PROVE  \/ Proceeds(p, {})
              \/ op[p].kind = "remove" /\ Proceeds(p, {"forget"})
  <2>1. op[p].kind \in {"start", "stop", "quarantine", "remove"}
    BY <1>0, <1>16 DEF Release, Shape, Idle, Ops, Kinds
  <2>2. CASE OnFail(p)
    BY <2>2, FailProceeds
  <2>3. CASE ~OnFail(p)
    <3>1. End(p) \/ (op[p].kind = "remove" /\ Go(p, "forget") /\ UNCHANGED lock)
      BY <1>16, <2>1, <2>3 DEF Release, Succeed
    <3>2. QED BY <3>1, EndEnds, GoTurns DEF Proceeds, Steps
  <2>4. QED BY <2>2, <2>3
<1>17. ASSUME WriteJournal(p) PROVE Proceeds(p, {"delete"})
  BY <1>17, AnswerProceeds DEF WriteJournal, Steps
<1>18. ASSUME DeleteWorker(p) PROVE Proceeds(p, {"revoke"})
  BY <1>18, AnswerProceeds DEF DeleteWorker, Steps
<1>19. ASSUME RemoveNetwork(p) PROVE Proceeds(p, {"dealloc"})
  BY <1>19, AnswerProceeds DEF RemoveNetwork, Steps
<1>20. ASSUME Forget(p) PROVE Proceeds(p, {})
  <2>1. OnFail(p) \/ End(p)
    BY <1>20 DEF Forget, Succeed
  <2>2. QED BY <2>1, FailProceeds, EndEnds DEF Proceeds
<1>21. ASSUME FailStep(p) PROVE Proceeds(p, {})
  BY <1>21, FailProceeds DEF FailStep
<1>22. ASSUME Crash(p) PROVE Proceeds(p, {})
  BY <1>22, EndEnds DEF Crash, Proceeds
<1>23. QED
  BY <1>1, <1>2, <1>3, <1>4, <1>5, <1>6, <1>7, <1>8, <1>9, <1>10, <1>11, <1>12, <1>13, <1>14,
     <1>15, <1>16, <1>17, <1>18, <1>19, <1>20, <1>21, <1>22

\* What an operation does that gives up or is over: the rest stays as it is.
Stops(p) ==
  /\ Proceeds(p, {}) /\ request' \subseteq request
  /\ UNCHANGED <<nodeVars, token, journal, answered, late, calls>>

\* Only the holder of a lock releases it, and only at the end.
LEMMA ProceedsLock ==
  ASSUME WorkerInv, NEW p \in Products, NEW S, Proceeds(p, S),
         Locked(op'[p]) => Locked(op[p])
  PROVE  LockInv'
<1>1. \A q \in Products \ {p} : op'[q] = op[q]
  BY DEF Proceeds, Turns, Ends
<1>2. ASSUME NEW q \in Products \ {p}, Locked(op'[q]) PROVE lock'[W(q)'] = q
  <2>1. op'[q] = op[q] /\ lock[W(q)] = q /\ W(q)' = W(q)
    BY <1>1, <1>2 DEF WorkerInv, LockInv, W
  <2>2. W(q) \in Workers
    BY <1>2, <2>1 DEF WorkerInv, ShapeInv, Shape, Locked, W, Idle
  <2>3. QED BY <2>1, <2>2 DEF Proceeds, Unlock
<1>3. ASSUME Locked(op'[p]) PROVE lock'[W(p)'] = p
  <2>1. lock[W(p)] = p
    BY <1>3 DEF WorkerInv, LockInv
  <2>2. CASE Turns(p, {"rollback"}) \/ Ends(p)
    BY <1>3, <2>2 DEF Turns, Ends, Locked, Idle
  <2>3. CASE (Turns(p, S) \/ Turns(p, {"revoke"})) /\ UNCHANGED lock
    BY <2>1, <2>3 DEF Turns, W
  <2>4. QED BY <2>2, <2>3 DEF Proceeds
<1>4. QED BY <1>2, <1>3 DEF LockInv

\* The types of the operations and of the locks.
LEMMA ProceedsTypes ==
  ASSUME TypeOK, NEW p \in Products, NEW S, Proceeds(p, S)
  PROVE  op' \in [Products -> Ops] /\ lock' \in [Workers -> Products \cup {None}]
  BY DEF Proceeds, Turns, Ends, Unlock, TypeOK

\* What has become of p's operation, and that the others are where they were.
Outcome(p, S) ==
  /\ Shape(op[p])
  /\ \A q \in Products \ {p} : op'[q] = op[q]
  /\ \/ op'[p] = Idle
     \/ /\ op'[p].kind = op[p].kind /\ op'[p].worker = op[p].worker
        /\ op[p].failed => op'[p].failed \/ op'[p].step = "revoke"
        /\ \/ op'[p].step \in S
           \/ op[p].kind = "run" /\ op'[p].step = "rollback"
           \/ StartHolds(p) /\ op'[p].step = "revoke"

\* The same, without the types: it is what the proofs below use.
LEMMA ProceedsOutcome ==
  ASSUME WorkerInv, NEW p \in Products, NEW S, Proceeds(p, S) \/ Turns(p, S)
  PROVE  Outcome(p, S)
<1>1. Shape(op[p]) /\ \A q \in Products \ {p} : op'[q] = op[q]
  BY DEF WorkerInv, ShapeInv, Proceeds, Turns, Ends
<1>2. CASE Turns(p, S)
  BY <1>1, <1>2 DEF Turns, Outcome
<1>3. CASE op[p].kind = "run" /\ Turns(p, {"rollback"})
  BY <1>1, <1>3 DEF Turns, Outcome
<1>4. CASE StartHolds(p) /\ Turns(p, {"revoke"})
  BY <1>1, <1>4 DEF Turns, Outcome
<1>5. CASE Ends(p)
  BY <1>1, <1>5 DEF Ends, Outcome
<1>6. QED BY <1>2, <1>3, <1>4, <1>5 DEF Proceeds

\* Nothing appears or disappears, and nothing comes to run.
Calm ==
  /\ engine' \in [Workers -> {"none", "created", "waiting", "running", "exited", "gone"}]
  /\ \A w \in Workers : /\ engine'[w] = "none" <=> engine[w] = "none"
                        /\ engine'[w] = "gone" <=> engine[w] = "gone"
                        /\ Live(w)' => Live(w)

\* A stop brings nothing to run.
LEMMA StoppedCalm ==
  ASSUME TypeOK, NEW w, engine' \in {engine, Stopped(w)}
  PROVE  Calm
  BY DEF TypeOK, Calm, Stopped, Live

\* What is early elsewhere stays so.
LEMMA EarlyStays ==
  ASSUME WorkerInv, NEW p \in Products, NEW q \in Products \ {p},
         \A r \in Products \ {p} : op'[r] = op[r],
         op'[p].worker \in {op[p].worker, None},
         Early(op[q]) => engine'[W(q)] = "none"
  PROVE  EarlyAt(q)'
<1>1. ASSUME Early(op[q]) PROVE \A r \in Products \ {q} : op'[r].worker # op[q].worker
  <2>1. op[q].worker \in Workers
    BY <1>1 DEF WorkerInv, ShapeInv, Shape, Early, Idle
  <2>2. \A r \in Products \ {q} : op[r].worker # op[q].worker
    BY <1>1 DEF WorkerInv, EarlyInv, EarlyAt, W
  <2>3. QED BY <2>1, <2>2, LifecycleAssumption
<1>2. QED BY <1>1 DEF EarlyAt, W

\* An operation gives up or is over.
LEMMA StopsInv ==
  ASSUME WorkerInv, NEW p \in Products, Stops(p)
  PROVE  WorkerInv'
<1>1. Proceeds(p, {})
  BY DEF Stops
<1>2. Outcome(p, {})
  BY <1>1, ProceedsOutcome
<1>3. TypeOK'
  <2>1. op' \in [Products -> Ops] /\ lock' \in [Workers -> Products \cup {None}]
    BY <1>1, ProceedsTypes DEF WorkerInv
  <2>2. QED BY <1>2, <2>1 DEF Stops, Outcome, Shape, WorkerInv, TypeOK, Idle, nodeVars
<1>4. ShapeInv'
  <2>1. Shape(op'[p])
    BY <1>2 DEF Stops, Outcome, StartHolds, Shape, Idle
  <2>2. QED BY <1>2, <2>1 DEF Outcome, WorkerInv, ShapeInv
<1>5. LockInv'
  <2>1. Locked(op'[p]) => Locked(op[p])
    BY <1>2 DEF Stops, Outcome, StartHolds, Shape, Idle, Locked
  <2>2. QED BY <1>1, <2>1, ProceedsLock
<1>6. KnownInv'
  <2>1. KnownAt(p)'
    BY <1>2, LifecycleAssumption DEF Stops, WorkerInv, Outcome, StartHolds, Idle, TypeOK,
       KnownAt, KnownInv, W, nodeVars
  <2>2. ASSUME NEW q \in Products \ {p} PROVE KnownAt(q)'
    BY <1>2, LifecycleAssumption DEF Stops, WorkerInv, KnownAt, KnownInv, TypeOK, Outcome, W,
       Shape, StartHolds, nodeVars
  <2>3. QED BY <2>1, <2>2 DEF KnownInv
<1>7. EarlyInv'
  <2>1. EarlyAt(p)'
    BY <1>2, LifecycleAssumption DEF Stops, WorkerInv, Outcome, StartHolds, Idle, TypeOK,
       EarlyAt, EarlyInv, Early, W, nodeVars
  <2>2. ASSUME NEW q \in Products \ {p} PROVE EarlyAt(q)'
    <3>1. Early(op[q]) => engine'[W(q)] = "none"
      BY DEF Stops, WorkerInv, TypeOK, EarlyInv, EarlyAt, nodeVars
    <3>2. QED BY <1>2, <3>1, EarlyStays DEF Outcome, Idle
  <2>3. QED BY <2>1, <2>2 DEF EarlyInv
<1>8. StartInv'
  <2>1. StartAt(p)'
    BY <1>2, LifecycleAssumption DEF Stops, WorkerInv, Outcome, StartHolds, Idle, TypeOK,
       StartAt, StartInv, Exists, W, nodeVars
  <2>2. ASSUME NEW q \in Products \ {p} PROVE StartAt(q)'
    BY <1>2, LifecycleAssumption DEF Stops, WorkerInv, StartAt, StartInv, TypeOK, Outcome,
       Exists, W, Shape, StartHolds, nodeVars
  <2>3. QED BY <2>1, <2>2 DEF StartInv
<1>9. RemovalInv'
  <2>1. RemovalAt(p)'
    BY <1>2, LifecycleAssumption DEF Stops, WorkerInv, Outcome, StartHolds, Idle, TypeOK,
       RemovalAt, RemovalInv, W, nodeVars
  <2>2. ASSUME NEW q \in Products \ {p} PROVE RemovalAt(q)'
    BY <1>2, LifecycleAssumption DEF Stops, WorkerInv, RemovalAt, RemovalInv, TypeOK, Outcome,
       W, Shape, StartHolds, nodeVars
  <2>3. QED BY <2>1, <2>2 DEF RemovalInv
<1>10. RevokedInv'
  <2>1. RevokedAt(p)'
    BY <1>2, LifecycleAssumption DEF Stops, WorkerInv, Outcome, StartHolds, Idle, TypeOK,
       RevokedAt, RevokedInv, Past, W, nodeVars
  <2>2. ASSUME NEW q \in Products \ {p} PROVE RevokedAt(q)'
    BY <1>2, LifecycleAssumption DEF Stops, WorkerInv, RevokedAt, RevokedInv, TypeOK, Outcome,
       Past, W, Shape, StartHolds, nodeVars
  <2>3. QED BY <2>1, <2>2 DEF RevokedInv
<1>11. RestoreInv'
  <2>1. RestoreAt(p)'
    BY <1>2, LifecycleAssumption DEF Stops, WorkerInv, Outcome, StartHolds, Idle, TypeOK,
       RestoreAt, RestoreInv, W, nodeVars
  <2>2. ASSUME NEW q \in Products \ {p} PROVE RestoreAt(q)'
    BY <1>2, LifecycleAssumption DEF Stops, WorkerInv, RestoreAt, RestoreInv, TypeOK, Outcome,
       W, Shape, StartHolds, nodeVars
  <2>3. QED BY <2>1, <2>2 DEF RestoreInv
<1>12. LabelInv'
  <2>1. LabelAt(p)'
    BY <1>2, LifecycleAssumption DEF Stops, WorkerInv, Outcome, StartHolds, Idle, TypeOK,
       LabelAt, LabelInv, W, nodeVars
  <2>2. ASSUME NEW q \in Products \ {p} PROVE LabelAt(q)'
    BY <1>2, LifecycleAssumption DEF Stops, WorkerInv, LabelAt, LabelInv, TypeOK, Outcome, W,
       Shape, StartHolds, nodeVars
  <2>3. QED BY <2>1, <2>2 DEF LabelInv
<1>13. JournalInv' /\ MarkInv' /\ GoneInv' /\ WorkerKeepsResources' /\ AnsweredIsRevoked'
  BY <1>2 DEF Stops, WorkerInv, Outcome, Idle, JournalInv, MarkInv, GoneInv,
              WorkerKeepsResources, AnsweredIsRevoked, Live, Exists, nodeVars
<1>14. QED BY <1>3, <1>4, <1>5, <1>6, <1>7, <1>8, <1>9, <1>10, <1>11, <1>12, <1>13 DEF WorkerInv

\* A run begins.
LEMMA BeginRunInv ==
  ASSUME WorkerInv, NEW p \in Products, NEW w \in Workers, BeginRun(p, w)
  PROVE  WorkerInv'
<1>1. /\ op' \in [Products -> Ops] /\ op'[p].kind = "run" /\ op'[p].step = "network"
      /\ op'[p].worker = w /\ \A q \in Products \ {p} : op'[q] = op[q]
  <2>1. [Idle EXCEPT !.kind = "run", !.step = "network", !.worker = w] \in Ops
    BY DEF Idle, Ops, Kinds, Steps, BeginRun
  <2>2. QED BY <2>1 DEF BeginRun, WorkerInv, TypeOK, Idle
<1>2. TypeOK'
  BY <1>1, LifecycleAssumption DEF BeginRun, WorkerInv, TypeOK, ShapeInv, Shape, W, nodeVars
<1>3. ShapeInv'
  BY <1>1 DEF BeginRun, WorkerInv, ShapeInv, TypeOK, Shape, W, nodeVars
<1>4. LockInv'
  BY <1>1 DEF BeginRun, WorkerInv, LockInv, W, Locked, nodeVars
<1>5. KnownInv'
  BY <1>1 DEF BeginRun, WorkerInv, KnownInv, W, KnownAt, nodeVars
<1>6. EarlyInv'
  BY <1>1 DEF BeginRun, WorkerInv, EarlyInv, W, EarlyAt, nodeVars
<1>7. StartInv'
  BY <1>1, LifecycleAssumption DEF BeginRun, WorkerInv, StartInv, TypeOK, ShapeInv, Shape,
     LockInv, Locked, W, StartAt, Exists, nodeVars
<1>8. RemovalInv'
  BY <1>1 DEF BeginRun, WorkerInv, RemovalInv, W, RemovalAt, nodeVars
<1>9. RevokedInv'
  BY <1>1, LifecycleAssumption DEF BeginRun, WorkerInv, RevokedInv, TypeOK, ShapeInv, Shape,
     LockInv, Locked, W, RevokedAt, Past, nodeVars
<1>10. RestoreInv'
  BY <1>1 DEF BeginRun, WorkerInv, RestoreInv, W, RestoreAt, nodeVars
<1>11. LabelInv'
  BY <1>1 DEF BeginRun, WorkerInv, LabelInv, W, LabelAt, nodeVars
<1>12. JournalInv' /\ MarkInv' /\ GoneInv' /\ WorkerKeepsResources' /\ AnsweredIsRevoked'
  BY <1>1 DEF BeginRun, WorkerInv, JournalInv, MarkInv, GoneInv, WorkerKeepsResources,
              AnsweredIsRevoked, Live, Exists, nodeVars
<1>13. QED BY <1>2, <1>3, <1>4, <1>5, <1>6, <1>7, <1>8, <1>9, <1>10, <1>11, <1>12 DEF WorkerInv

\* Another call begins.
LEMMA BeginCallInv ==
  ASSUME WorkerInv, NEW p \in Products, NEW w \in Workers, NEW k \in Kinds, BeginCall(p, w, k)
  PROVE  WorkerInv'
<1>1. /\ op' \in [Products -> Ops] /\ op'[p].kind = k
      /\ op'[p].step = (IF k = "wait" THEN "revoke" ELSE "lock")
      /\ op'[p].worker = w /\ \A q \in Products \ {p} : op'[q] = op[q]
  <2>1. [Idle EXCEPT !.kind = k, !.worker = w,
             !.step = IF k = "wait" THEN "revoke" ELSE "lock"] \in Ops
    BY DEF Idle, Ops, Kinds, Steps, BeginCall
  <2>2. QED BY <2>1 DEF BeginCall, WorkerInv, TypeOK, Idle
<1>2. TypeOK'
  BY <1>1, LifecycleAssumption DEF BeginCall, WorkerInv, TypeOK, ShapeInv, Shape, Exists, Live,
     nodeVars
<1>3. ShapeInv'
  BY <1>1 DEF BeginCall, WorkerInv, ShapeInv, TypeOK, Shape, Exists, Live, nodeVars
<1>4. LockInv'
  BY <1>1 DEF BeginCall, WorkerInv, LockInv, Exists, Live, Locked, W, nodeVars
<1>5. KnownInv'
  BY <1>1, LifecycleAssumption DEF BeginCall, WorkerInv, KnownInv, TypeOK, ShapeInv, Shape,
     JournalInv, Exists, Live, KnownAt, W, nodeVars
<1>6. EarlyInv'
  BY <1>1, LifecycleAssumption DEF BeginCall, WorkerInv, EarlyInv, TypeOK, ShapeInv, Shape,
     JournalInv, Exists, Live, EarlyAt, Early, W, nodeVars
<1>7. StartInv'
  BY <1>1, LifecycleAssumption DEF BeginCall, WorkerInv, StartInv, TypeOK, ShapeInv, Shape,
     LockInv, Locked, Exists, Live, StartAt, W, nodeVars
<1>8. RemovalInv'
  BY <1>1, LifecycleAssumption DEF BeginCall, WorkerInv, RemovalInv, TypeOK, ShapeInv, Shape,
     EarlyInv, EarlyAt, Early, StartInv, StartAt, Exists, Live, RemovalAt, W, nodeVars
<1>9. RevokedInv'
  BY <1>1, LifecycleAssumption DEF BeginCall, WorkerInv, RevokedInv, TypeOK, ShapeInv, Shape,
     LockInv, Locked, Exists, Live, RevokedAt, Past, W, nodeVars
<1>10. RestoreInv'
  BY <1>1, LifecycleAssumption DEF BeginCall, WorkerInv, RestoreInv, TypeOK, ShapeInv, Shape,
     LockInv, Locked, Exists, Live, RestoreAt, W, nodeVars
<1>11. LabelInv'
  BY <1>1, LifecycleAssumption DEF BeginCall, WorkerInv, LabelInv, TypeOK, ShapeInv, Shape,
     Exists, Live, LabelAt, W, nodeVars
<1>12. JournalInv' /\ MarkInv' /\ GoneInv' /\ WorkerKeepsResources' /\ AnsweredIsRevoked'
  BY <1>1 DEF BeginCall, WorkerInv, JournalInv, MarkInv, GoneInv, WorkerKeepsResources,
              AnsweredIsRevoked, Live, Exists, nodeVars
<1>13. QED BY <1>2, <1>3, <1>4, <1>5, <1>6, <1>7, <1>8, <1>9, <1>10, <1>11, <1>12 DEF WorkerInv

\* The lifecycle lock.
LEMMA TakeLockInv ==
  ASSUME WorkerInv, NEW p \in Products, TakeLock(p)
  PROVE  WorkerInv'
<1>1. Turns(p, {AfterLock(op[p].kind)})
  BY OpSteps
<1>2. Outcome(p, {AfterLock(op[p].kind)})
  BY <1>1, ProceedsOutcome
<1>3. /\ lock[W(p)] = None /\ W(p) \in Workers
      /\ op'[p].kind = op[p].kind /\ op'[p].worker = op[p].worker
      /\ op'[p].step \in {"start", "check", "revoke", "quarantine", "journal"}
      /\ op'[p].kind \notin {"idle", "wait"}
      /\ op'[p].step = "revoke" => op'[p].kind = "stop"
  <2>1. op'[p].step = AfterLock(op[p].kind)
    BY <1>1 DEF Turns
  <2>2. QED BY <1>1, <1>2, <2>1 DEF TakeLock, Turns, Outcome, Shape, Idle, AfterLock, W
<1>4. TypeOK'
  BY <1>1 DEF TakeLock, Turns, WorkerInv, TypeOK, nodeVars
<1>5. ShapeInv'
  <2>1. Shape(op'[p])
    BY <1>2 DEF TakeLock, Outcome, StartHolds, Shape, Idle, AfterLock
  <2>2. QED BY <1>2, <2>1 DEF Outcome, WorkerInv, ShapeInv
<1>6. LockInv'
  <2>1. ASSUME NEW q \in Products, Locked(op'[q]) PROVE lock'[W(q)'] = q
    <3>1. CASE q = p
      BY <1>3, <3>1 DEF TakeLock, WorkerInv, TypeOK, W
    <3>2. CASE q # p
      <4>1. op'[q] = op[q] /\ lock[W(q)] = q
        BY <1>2, <2>1, <3>2 DEF Outcome, WorkerInv, LockInv
      <4>2. W(q) \in Workers /\ W(q) # W(p)
        BY <1>3, <2>1, <4>1, LifecycleAssumption
        DEF WorkerInv, ShapeInv, Shape, Idle, Locked, W
      <4>3. QED BY <4>1, <4>2 DEF TakeLock, WorkerInv, TypeOK, W
    <3>3. QED BY <3>1, <3>2
  <2>2. QED BY <2>1 DEF LockInv, W
<1>7. KnownInv'
  <2>1. KnownAt(p)'
    BY <1>2, <1>3, LifecycleAssumption DEF TakeLock, WorkerInv, Outcome, StartHolds, Idle,
       TypeOK, KnownAt, KnownInv, W, nodeVars
  <2>2. ASSUME NEW q \in Products \ {p} PROVE KnownAt(q)'
    BY <1>2, <1>3, LifecycleAssumption DEF TakeLock, WorkerInv, KnownAt, KnownInv, TypeOK,
       Outcome, W, Shape, StartHolds, nodeVars
  <2>3. QED BY <2>1, <2>2 DEF KnownInv
<1>8. EarlyInv'
  <2>1. EarlyAt(p)'
    BY <1>2, <1>3, LifecycleAssumption DEF TakeLock, WorkerInv, Outcome, StartHolds, Idle,
       TypeOK, EarlyAt, EarlyInv, Early, W, nodeVars
  <2>2. ASSUME NEW q \in Products \ {p} PROVE EarlyAt(q)'
    <3>1. Early(op[q]) => engine'[W(q)] = "none"
      BY DEF TakeLock, WorkerInv, TypeOK, EarlyInv, EarlyAt, nodeVars
    <3>2. QED BY <1>2, <3>1, EarlyStays DEF Outcome, Idle
  <2>3. QED BY <2>1, <2>2 DEF EarlyInv
<1>9. StartInv'
  <2>1. StartAt(p)'
    BY <1>2, <1>3, LifecycleAssumption DEF TakeLock, WorkerInv, Outcome, StartHolds, Idle,
       TypeOK, StartAt, StartInv, Exists, W, nodeVars
  <2>2. ASSUME NEW q \in Products \ {p} PROVE StartAt(q)'
    BY <1>2, <1>3, LifecycleAssumption DEF TakeLock, WorkerInv, StartAt, StartInv, TypeOK,
       Outcome, Exists, W, Shape, StartHolds, nodeVars
  <2>3. QED BY <2>1, <2>2 DEF StartInv
<1>10. RemovalInv'
  <2>1. RemovalAt(p)'
    BY <1>2, <1>3, LifecycleAssumption DEF TakeLock, WorkerInv, Outcome, StartHolds, Idle,
       TypeOK, RemovalAt, RemovalInv, W, nodeVars
  <2>2. ASSUME NEW q \in Products \ {p} PROVE RemovalAt(q)'
    BY <1>2, <1>3, LifecycleAssumption DEF TakeLock, WorkerInv, RemovalAt, RemovalInv, TypeOK,
       Outcome, W, Shape, StartHolds, nodeVars
  <2>3. QED BY <2>1, <2>2 DEF RemovalInv
<1>11. RevokedInv'
  <2>1. RevokedAt(p)'
    BY <1>2, <1>3, LifecycleAssumption DEF TakeLock, WorkerInv, Outcome, StartHolds, Idle,
       TypeOK, RevokedAt, RevokedInv, Past, W, nodeVars
  <2>2. ASSUME NEW q \in Products \ {p} PROVE RevokedAt(q)'
    BY <1>2, <1>3, LifecycleAssumption DEF TakeLock, WorkerInv, RevokedAt, RevokedInv, TypeOK,
       Outcome, Past, W, Shape, StartHolds, nodeVars
  <2>3. QED BY <2>1, <2>2 DEF RevokedInv
<1>12. RestoreInv'
  <2>1. RestoreAt(p)'
    BY <1>2, <1>3, LifecycleAssumption DEF TakeLock, WorkerInv, Outcome, StartHolds, Idle,
       TypeOK, RestoreAt, RestoreInv, W, nodeVars
  <2>2. ASSUME NEW q \in Products \ {p} PROVE RestoreAt(q)'
    BY <1>2, <1>3, LifecycleAssumption DEF TakeLock, WorkerInv, RestoreAt, RestoreInv, TypeOK,
       Outcome, W, Shape, StartHolds, nodeVars
  <2>3. QED BY <2>1, <2>2 DEF RestoreInv
<1>13. LabelInv'
  <2>1. LabelAt(p)'
    BY <1>2, <1>3, LifecycleAssumption DEF TakeLock, WorkerInv, Outcome, StartHolds, Idle,
       TypeOK, LabelAt, LabelInv, W, nodeVars
  <2>2. ASSUME NEW q \in Products \ {p} PROVE LabelAt(q)'
    BY <1>2, <1>3, LifecycleAssumption DEF TakeLock, WorkerInv, LabelAt, LabelInv, TypeOK,
       Outcome, W, Shape, StartHolds, nodeVars
  <2>3. QED BY <2>1, <2>2 DEF LabelInv
<1>14. JournalInv' /\ MarkInv' /\ GoneInv' /\ WorkerKeepsResources' /\ AnsweredIsRevoked'
  BY <1>2, <1>3 DEF TakeLock, WorkerInv, Outcome, Idle, JournalInv, MarkInv, GoneInv,
                    WorkerKeepsResources, AnsweredIsRevoked, Live, Exists, nodeVars
<1>15. QED BY <1>4, <1>5, <1>6, <1>7, <1>8, <1>9, <1>10, <1>11, <1>12, <1>13, <1>14 DEF
     WorkerInv

\* What a start looks at again.
LEMMA CheckInv ==
  ASSUME WorkerInv, NEW p \in Products, Check(p)
  PROVE  WorkerInv'
<1>1. Proceeds(p, {"reserve"})
  BY OpSteps
<1>2. Outcome(p, {"reserve"})
  BY <1>1, ProceedsOutcome
<1>3. Startable(W(p)) \/ Outcome(p, {})
  BY FailProceeds, ProceedsOutcome DEF Check, WorkerInv
<1>4. TypeOK'
  <2>1. op' \in [Products -> Ops] /\ lock' \in [Workers -> Products \cup {None}]
    BY <1>1, ProceedsTypes DEF WorkerInv
  <2>2. QED BY <1>2, <2>1 DEF Check, Outcome, Shape, WorkerInv, TypeOK, Idle, nodeVars
<1>5. ShapeInv'
  <2>1. Shape(op'[p])
    BY <1>2 DEF Check, Outcome, StartHolds, Shape, Idle
  <2>2. QED BY <1>2, <2>1 DEF Outcome, WorkerInv, ShapeInv
<1>6. LockInv'
  <2>1. Locked(op'[p]) => Locked(op[p])
    BY <1>2 DEF Check, Outcome, StartHolds, Shape, Idle, Locked
  <2>2. QED BY <1>1, <2>1, ProceedsLock
<1>7. KnownInv'
  <2>1. KnownAt(p)'
    BY <1>2, <1>3, LifecycleAssumption DEF Check, WorkerInv, Outcome, StartHolds, Idle, TypeOK,
       KnownAt, KnownInv, W, Startable, Live, nodeVars
  <2>2. ASSUME NEW q \in Products \ {p} PROVE KnownAt(q)'
    BY <1>2, <1>3, LifecycleAssumption DEF Check, WorkerInv, KnownAt, KnownInv, TypeOK, Outcome,
       W, Startable, Live, Shape, StartHolds, nodeVars
  <2>3. QED BY <2>1, <2>2 DEF KnownInv
<1>8. EarlyInv'
  <2>1. EarlyAt(p)'
    BY <1>2, <1>3, LifecycleAssumption DEF Check, WorkerInv, Outcome, StartHolds, Idle, TypeOK,
       EarlyAt, Shape, JournalInv, EarlyInv, Early, W, Startable, Live, nodeVars
  <2>2. ASSUME NEW q \in Products \ {p} PROVE EarlyAt(q)'
    <3>1. Early(op[q]) => engine'[W(q)] = "none"
      BY DEF Check, WorkerInv, TypeOK, EarlyInv, EarlyAt, nodeVars
    <3>2. QED BY <1>2, <3>1, EarlyStays DEF Outcome, Idle
  <2>3. QED BY <2>1, <2>2 DEF EarlyInv
<1>9. StartInv'
  <2>1. StartAt(p)'
    BY <1>2, <1>3, LifecycleAssumption DEF Check, WorkerInv, Outcome, StartHolds, Idle, TypeOK,
       StartAt, Shape, LockInv, Locked, StartInv, Exists, W, Startable, Live, nodeVars
  <2>2. ASSUME NEW q \in Products \ {p} PROVE StartAt(q)'
    BY <1>2, <1>3, LifecycleAssumption DEF Check, WorkerInv, StartAt, StartInv, TypeOK, Outcome,
       Exists, W, Startable, Live, Shape, StartHolds, nodeVars
  <2>3. QED BY <2>1, <2>2 DEF StartInv
<1>10. RemovalInv'
  <2>1. RemovalAt(p)'
    BY <1>2, <1>3, LifecycleAssumption DEF Check, WorkerInv, Outcome, StartHolds, Idle, TypeOK,
       RemovalAt, RemovalInv, W, Startable, Live, nodeVars
  <2>2. ASSUME NEW q \in Products \ {p} PROVE RemovalAt(q)'
    BY <1>2, <1>3, LifecycleAssumption DEF Check, WorkerInv, RemovalAt, RemovalInv, TypeOK,
       Outcome, W, Startable, Live, Shape, StartHolds, nodeVars
  <2>3. QED BY <2>1, <2>2 DEF RemovalInv
<1>11. RevokedInv'
  <2>1. RevokedAt(p)'
    BY <1>2, <1>3, LifecycleAssumption DEF Check, WorkerInv, Outcome, StartHolds, Idle, TypeOK,
       RevokedAt, RevokedInv, Past, W, Startable, Live, nodeVars
  <2>2. ASSUME NEW q \in Products \ {p} PROVE RevokedAt(q)'
    BY <1>2, <1>3, LifecycleAssumption DEF Check, WorkerInv, RevokedAt, RevokedInv, TypeOK,
       Outcome, Past, W, Startable, Live, Shape, StartHolds, nodeVars
  <2>3. QED BY <2>1, <2>2 DEF RevokedInv
<1>12. RestoreInv'
  <2>1. RestoreAt(p)'
    BY <1>2, <1>3, LifecycleAssumption DEF Check, WorkerInv, Outcome, StartHolds, Idle, TypeOK,
       RestoreAt, RestoreInv, W, Startable, Live, nodeVars
  <2>2. ASSUME NEW q \in Products \ {p} PROVE RestoreAt(q)'
    BY <1>2, <1>3, LifecycleAssumption DEF Check, WorkerInv, RestoreAt, RestoreInv, TypeOK,
       Outcome, W, Startable, Live, Shape, StartHolds, nodeVars
  <2>3. QED BY <2>1, <2>2 DEF RestoreInv
<1>13. LabelInv'
  <2>1. LabelAt(p)'
    BY <1>2, <1>3, LifecycleAssumption DEF Check, WorkerInv, Outcome, StartHolds, Idle, TypeOK,
       LabelAt, LabelInv, W, Startable, Live, nodeVars
  <2>2. ASSUME NEW q \in Products \ {p} PROVE LabelAt(q)'
    BY <1>2, <1>3, LifecycleAssumption DEF Check, WorkerInv, LabelAt, LabelInv, TypeOK, Outcome,
       W, Startable, Live, Shape, StartHolds, nodeVars
  <2>3. QED BY <2>1, <2>2 DEF LabelInv
<1>14. JournalInv' /\ MarkInv' /\ GoneInv' /\ WorkerKeepsResources' /\ AnsweredIsRevoked'
  BY <1>2, <1>3 DEF Check, WorkerInv, Outcome, Idle, JournalInv, MarkInv, GoneInv,
                    WorkerKeepsResources, AnsweredIsRevoked, Live, Exists, nodeVars
<1>15. QED BY <1>4, <1>5, <1>6, <1>7, <1>8, <1>9, <1>10, <1>11, <1>12, <1>13, <1>14 DEF
     WorkerInv

\* The network.
LEMMA CreateNetworkInv ==
  ASSUME WorkerInv, NEW p \in Products, CreateNetwork(p)
  PROVE  WorkerInv'
<1>1. Proceeds(p, {"reserve"})
  BY OpSteps
<1>2. Outcome(p, {"reserve"})
  BY <1>1, ProceedsOutcome
<1>3. TypeOK'
  <2>1. op' \in [Products -> Ops] /\ lock' \in [Workers -> Products \cup {None}]
    BY <1>1, ProceedsTypes DEF WorkerInv
  <2>2. QED BY <1>2, <2>1 DEF CreateNetwork, Outcome, Shape, WorkerInv, TypeOK, W, Idle,
       nodeVars
<1>4. ShapeInv'
  <2>1. Shape(op'[p])
    BY <1>2 DEF CreateNetwork, Outcome, StartHolds, Shape, Idle
  <2>2. QED BY <1>2, <2>1 DEF Outcome, WorkerInv, ShapeInv
<1>5. LockInv'
  <2>1. Locked(op'[p]) => Locked(op[p])
    BY <1>2 DEF CreateNetwork, Outcome, StartHolds, Shape, Idle, Locked
  <2>2. QED BY <1>1, <2>1, ProceedsLock
<1>6. KnownInv'
  <2>1. KnownAt(p)'
    BY <1>2, LifecycleAssumption DEF CreateNetwork, WorkerInv, Outcome, StartHolds, Idle,
       TypeOK, KnownAt, KnownInv, W
  <2>2. ASSUME NEW q \in Products \ {p} PROVE KnownAt(q)'
    BY <1>2, LifecycleAssumption DEF CreateNetwork, WorkerInv, KnownAt, KnownInv, TypeOK,
       Outcome, W, Shape, StartHolds
  <2>3. QED BY <2>1, <2>2 DEF KnownInv
<1>7. EarlyInv'
  <2>1. EarlyAt(p)'
    BY <1>2, LifecycleAssumption DEF CreateNetwork, WorkerInv, Outcome, StartHolds, Idle,
       TypeOK, EarlyAt, EarlyInv, Early, W
  <2>2. ASSUME NEW q \in Products \ {p} PROVE EarlyAt(q)'
    <3>1. Early(op[q]) => engine'[W(q)] = "none"
      BY DEF CreateNetwork, WorkerInv, TypeOK, EarlyInv, EarlyAt, nodeVars
    <3>2. QED BY <1>2, <3>1, EarlyStays DEF Outcome, Idle
  <2>3. QED BY <2>1, <2>2 DEF EarlyInv
<1>8. StartInv'
  <2>1. StartAt(p)'
    BY <1>2, LifecycleAssumption DEF CreateNetwork, WorkerInv, Outcome, StartHolds, Idle,
       TypeOK, StartAt, Shape, LockInv, Locked, StartInv, Exists, W
  <2>2. ASSUME NEW q \in Products \ {p} PROVE StartAt(q)'
    BY <1>2, LifecycleAssumption DEF CreateNetwork, WorkerInv, StartAt, StartInv, TypeOK,
       Outcome, Exists, W, Shape, StartHolds
  <2>3. QED BY <2>1, <2>2 DEF StartInv
<1>9. RemovalInv'
  <2>1. RemovalAt(p)'
    BY <1>2, LifecycleAssumption DEF CreateNetwork, WorkerInv, Outcome, StartHolds, Idle,
       TypeOK, RemovalAt, RemovalInv, W
  <2>2. ASSUME NEW q \in Products \ {p} PROVE RemovalAt(q)'
    BY <1>2, LifecycleAssumption DEF CreateNetwork, WorkerInv, RemovalAt, RemovalInv, TypeOK,
       Outcome, Idle, ShapeInv, Shape, EarlyInv, EarlyAt, Early, StartInv, StartAt, W,
       StartHolds, Exists
  <2>3. QED BY <2>1, <2>2 DEF RemovalInv
<1>10. RevokedInv'
  <2>1. RevokedAt(p)'
    BY <1>2, LifecycleAssumption DEF CreateNetwork, WorkerInv, Outcome, StartHolds, Idle,
       TypeOK, RevokedAt, RevokedInv, Past, W
  <2>2. ASSUME NEW q \in Products \ {p} PROVE RevokedAt(q)'
    BY <1>2, LifecycleAssumption DEF CreateNetwork, WorkerInv, RevokedAt, RevokedInv, TypeOK,
       Outcome, Past, W, Shape, StartHolds
  <2>3. QED BY <2>1, <2>2 DEF RevokedInv
<1>11. RestoreInv'
  <2>1. RestoreAt(p)'
    BY <1>2, LifecycleAssumption DEF CreateNetwork, WorkerInv, Outcome, StartHolds, Idle,
       TypeOK, RestoreAt, RestoreInv, W
  <2>2. ASSUME NEW q \in Products \ {p} PROVE RestoreAt(q)'
    BY <1>2, LifecycleAssumption DEF CreateNetwork, WorkerInv, RestoreAt, RestoreInv, TypeOK,
       Outcome, W, Shape, StartHolds
  <2>3. QED BY <2>1, <2>2 DEF RestoreInv
<1>12. LabelInv'
  <2>1. LabelAt(p)'
    BY <1>2, LifecycleAssumption DEF CreateNetwork, WorkerInv, Outcome, StartHolds, Idle,
       TypeOK, LabelAt, LabelInv, W
  <2>2. ASSUME NEW q \in Products \ {p} PROVE LabelAt(q)'
    BY <1>2, LifecycleAssumption DEF CreateNetwork, WorkerInv, LabelAt, LabelInv, TypeOK,
       Outcome, W, Shape, StartHolds
  <2>3. QED BY <2>1, <2>2 DEF LabelInv
<1>13. GoneInv'
  BY <1>2, LifecycleAssumption DEF CreateNetwork, WorkerInv, Outcome, Idle, GoneInv, TypeOK,
     ShapeInv, Shape, EarlyInv, EarlyAt, StartInv, StartAt, RemovalInv, RemovalAt, W, Early,
     Exists
<1>14. WorkerKeepsResources'
  BY <1>2, LifecycleAssumption DEF CreateNetwork, WorkerInv, Outcome, Idle,
     WorkerKeepsResources, TypeOK, ShapeInv, Shape, W, Exists, Live
<1>15. JournalInv' /\ MarkInv' /\ AnsweredIsRevoked'
  BY <1>2 DEF CreateNetwork, WorkerInv, Outcome, Idle, JournalInv, MarkInv, AnsweredIsRevoked,
              Live
<1>16. QED BY <1>3, <1>4, <1>5, <1>6, <1>7, <1>8, <1>9, <1>10, <1>11, <1>12, <1>13, <1>14,
     <1>15 DEF WorkerInv

\* The reservation.
LEMMA ReserveInv ==
  ASSUME WorkerInv, NEW p \in Products, Reserve(p)
  PROVE  WorkerInv'
<1>1. Proceeds(p, IF op[p].kind = "run" THEN {"create", "rollback"} ELSE {"start"})
  BY OpSteps
<1>2. Outcome(p, IF op[p].kind = "run" THEN {"create", "rollback"} ELSE {"start"})
  BY <1>1, ProceedsOutcome
<1>3. TypeOK'
  <2>1. op' \in [Products -> Ops] /\ lock' \in [Workers -> Products \cup {None}]
    BY <1>1, ProceedsTypes DEF WorkerInv
  <2>2. QED BY <1>2, <2>1 DEF Reserve, Outcome, Shape, WorkerInv, TypeOK, W, Idle, nodeVars
<1>4. ShapeInv'
  <2>1. Shape(op'[p])
    BY <1>2 DEF Reserve, Outcome, StartHolds, Shape, Idle
  <2>2. QED BY <1>2, <2>1 DEF Outcome, WorkerInv, ShapeInv
<1>5. LockInv'
  <2>1. Locked(op'[p]) => Locked(op[p])
    BY <1>2 DEF Reserve, Outcome, StartHolds, Shape, Idle, Locked
  <2>2. QED BY <1>1, <2>1, ProceedsLock
<1>6. KnownInv'
  <2>1. KnownAt(p)'
    BY <1>2, LifecycleAssumption DEF Reserve, WorkerInv, Outcome, StartHolds, Idle, TypeOK,
       KnownAt, KnownInv, W
  <2>2. ASSUME NEW q \in Products \ {p} PROVE KnownAt(q)'
    BY <1>2, LifecycleAssumption DEF Reserve, WorkerInv, KnownAt, KnownInv, TypeOK, Outcome, W,
       Shape, StartHolds
  <2>3. QED BY <2>1, <2>2 DEF KnownInv
<1>7. EarlyInv'
  <2>1. EarlyAt(p)'
    BY <1>2, LifecycleAssumption DEF Reserve, WorkerInv, Outcome, StartHolds, Idle, TypeOK,
       EarlyAt, EarlyInv, Early, W
  <2>2. ASSUME NEW q \in Products \ {p} PROVE EarlyAt(q)'
    <3>1. Early(op[q]) => engine'[W(q)] = "none"
      BY DEF Reserve, WorkerInv, TypeOK, EarlyInv, EarlyAt, nodeVars
    <3>2. QED BY <1>2, <3>1, EarlyStays DEF Outcome, Idle
  <2>3. QED BY <2>1, <2>2 DEF EarlyInv
<1>8. StartInv'
  <2>1. StartAt(p)'
    BY <1>2, LifecycleAssumption DEF Reserve, WorkerInv, Outcome, StartHolds, Idle, TypeOK,
       StartAt, StartInv, Exists, W
  <2>2. ASSUME NEW q \in Products \ {p} PROVE StartAt(q)'
    BY <1>2, LifecycleAssumption DEF Reserve, WorkerInv, StartAt, StartInv, TypeOK, Outcome,
       Exists, W, Shape, StartHolds
  <2>3. QED BY <2>1, <2>2 DEF StartInv
<1>9. RemovalInv'
  <2>1. RemovalAt(p)'
    BY <1>2, LifecycleAssumption DEF Reserve, WorkerInv, Outcome, StartHolds, Idle, TypeOK,
       RemovalAt, RemovalInv, W
  <2>2. ASSUME NEW q \in Products \ {p} PROVE RemovalAt(q)'
    BY <1>2, LifecycleAssumption DEF Reserve, WorkerInv, RemovalAt, RemovalInv, TypeOK, Outcome,
       Idle, ShapeInv, Shape, EarlyInv, EarlyAt, Early, StartInv, StartAt, W, StartHolds, Exists
  <2>3. QED BY <2>1, <2>2 DEF RemovalInv
<1>10. RevokedInv'
  <2>1. RevokedAt(p)'
    BY <1>2, LifecycleAssumption DEF Reserve, WorkerInv, Outcome, StartHolds, Idle, TypeOK,
       RevokedAt, RevokedInv, Past, W
  <2>2. ASSUME NEW q \in Products \ {p} PROVE RevokedAt(q)'
    BY <1>2, LifecycleAssumption DEF Reserve, WorkerInv, RevokedAt, RevokedInv, TypeOK, Outcome,
       Past, W, Shape, StartHolds
  <2>3. QED BY <2>1, <2>2 DEF RevokedInv
<1>11. RestoreInv'
  <2>1. RestoreAt(p)'
    BY <1>2, LifecycleAssumption DEF Reserve, WorkerInv, Outcome, StartHolds, Idle, TypeOK,
       RestoreAt, RestoreInv, W
  <2>2. ASSUME NEW q \in Products \ {p} PROVE RestoreAt(q)'
    BY <1>2, LifecycleAssumption DEF Reserve, WorkerInv, RestoreAt, RestoreInv, TypeOK, Outcome,
       W, Shape, StartHolds
  <2>3. QED BY <2>1, <2>2 DEF RestoreInv
<1>12. LabelInv'
  <2>1. LabelAt(p)'
    BY <1>2, LifecycleAssumption DEF Reserve, WorkerInv, Outcome, StartHolds, Idle, TypeOK,
       LabelAt, LabelInv, W
  <2>2. ASSUME NEW q \in Products \ {p} PROVE LabelAt(q)'
    BY <1>2, LifecycleAssumption DEF Reserve, WorkerInv, LabelAt, LabelInv, TypeOK, Outcome, W,
       Shape, StartHolds
  <2>3. QED BY <2>1, <2>2 DEF LabelInv
<1>13. GoneInv'
  BY <1>2, LifecycleAssumption DEF Reserve, WorkerInv, Outcome, Idle, GoneInv, TypeOK, ShapeInv,
     Shape, EarlyInv, EarlyAt, StartInv, StartAt, RemovalInv, RemovalAt, W, Early, Exists
<1>14. WorkerKeepsResources'
  BY <1>2 DEF Reserve, WorkerInv, Outcome, Idle, WorkerKeepsResources, W, Exists, Live
<1>15. JournalInv' /\ MarkInv' /\ AnsweredIsRevoked'
  BY <1>2 DEF Reserve, WorkerInv, Outcome, Idle, JournalInv, MarkInv, AnsweredIsRevoked, Live
<1>16. QED BY <1>3, <1>4, <1>5, <1>6, <1>7, <1>8, <1>9, <1>10, <1>11, <1>12, <1>13, <1>14,
     <1>15 DEF WorkerInv

\* The worker.
LEMMA CreateContainerInv ==
  ASSUME WorkerInv, NEW p \in Products, CreateContainer(p)
  PROVE  WorkerInv'
<1>1. Proceeds(p, {"lock"})
  BY OpSteps
<1>2. Outcome(p, {"lock"})
  BY <1>1, ProceedsOutcome
<1>3. TypeOK'
  <2>1. op' \in [Products -> Ops] /\ lock' \in [Workers -> Products \cup {None}]
    BY <1>1, ProceedsTypes DEF WorkerInv
  <2>2. QED BY <1>2, <2>1 DEF CreateContainer, Outcome, Shape, WorkerInv, TypeOK, W, Idle,
       nodeVars
<1>4. ShapeInv'
  <2>1. Shape(op'[p])
    BY <1>2 DEF CreateContainer, Outcome, StartHolds, Shape, Idle
  <2>2. QED BY <1>2, <2>1 DEF Outcome, WorkerInv, ShapeInv
<1>5. LockInv'
  <2>1. Locked(op'[p]) => Locked(op[p])
    BY <1>2 DEF CreateContainer, Outcome, StartHolds, Shape, Idle, Locked
  <2>2. QED BY <1>1, <2>1, ProceedsLock
<1>6. KnownInv'
  <2>1. KnownAt(p)'
    BY <1>2, LifecycleAssumption DEF CreateContainer, WorkerInv, Outcome, StartHolds, Idle,
       TypeOK, KnownAt, KnownInv, W, Exists
  <2>2. ASSUME NEW q \in Products \ {p} PROVE KnownAt(q)'
    BY <1>2, LifecycleAssumption DEF CreateContainer, WorkerInv, KnownAt, KnownInv, TypeOK,
       Outcome, W, Exists, Shape, StartHolds
  <2>3. QED BY <2>1, <2>2 DEF KnownInv
<1>7. JournalInv'
  BY <1>2 DEF CreateContainer, WorkerInv, Outcome, Idle, JournalInv, Exists, W
<1>8. EarlyInv'
  <2>1. EarlyAt(p)'
    BY <1>2, LifecycleAssumption DEF CreateContainer, WorkerInv, Outcome, StartHolds, Idle,
       TypeOK, EarlyAt, EarlyInv, Early, W, Exists
  <2>2. ASSUME NEW q \in Products \ {p} PROVE EarlyAt(q)'
    <3>1. Early(op[q]) => engine'[W(q)] = "none"
      BY <1>2 DEF CreateContainer, WorkerInv, EarlyInv, EarlyAt, Early, Outcome, Shape,
                  Idle, TypeOK, W
    <3>2. QED BY <1>2, <3>1, EarlyStays DEF Outcome, Idle
  <2>3. QED BY <2>1, <2>2 DEF EarlyInv
<1>9. StartInv'
  <2>1. StartAt(p)'
    BY <1>2, LifecycleAssumption DEF CreateContainer, WorkerInv, Outcome, StartHolds, Idle,
       TypeOK, StartAt, StartInv, Exists, W
  <2>2. ASSUME NEW q \in Products \ {p} PROVE StartAt(q)'
    BY <1>2, LifecycleAssumption DEF CreateContainer, WorkerInv, StartAt, StartInv, TypeOK,
       Outcome, Exists, W, Shape, StartHolds
  <2>3. QED BY <2>1, <2>2 DEF StartInv
<1>10. RemovalInv'
  <2>1. RemovalAt(p)'
    BY <1>2, LifecycleAssumption DEF CreateContainer, WorkerInv, Outcome, StartHolds, Idle,
       TypeOK, RemovalAt, RemovalInv, W, Exists
  <2>2. ASSUME NEW q \in Products \ {p} PROVE RemovalAt(q)'
    BY <1>2, LifecycleAssumption DEF CreateContainer, WorkerInv, RemovalAt, RemovalInv, TypeOK,
       Outcome, Idle, ShapeInv, Shape, EarlyInv, EarlyAt, Early, StartInv, StartAt, W, Exists,
       StartHolds
  <2>3. QED BY <2>1, <2>2 DEF RemovalInv
<1>11. RevokedInv'
  <2>1. RevokedAt(p)'
    BY <1>2, LifecycleAssumption DEF CreateContainer, WorkerInv, Outcome, StartHolds, Idle,
       TypeOK, RevokedAt, RevokedInv, Past, W, Exists
  <2>2. ASSUME NEW q \in Products \ {p} PROVE RevokedAt(q)'
    BY <1>2, LifecycleAssumption DEF CreateContainer, WorkerInv, RevokedAt, RevokedInv, TypeOK,
       Outcome, Past, W, Exists, Shape, StartHolds
  <2>3. QED BY <2>1, <2>2 DEF RevokedInv
<1>12. RestoreInv'
  <2>1. RestoreAt(p)'
    BY <1>2, LifecycleAssumption DEF CreateContainer, WorkerInv, Outcome, StartHolds, Idle,
       TypeOK, RestoreAt, RestoreInv, W, Exists
  <2>2. ASSUME NEW q \in Products \ {p} PROVE RestoreAt(q)'
    BY <1>2, LifecycleAssumption DEF CreateContainer, WorkerInv, RestoreAt, RestoreInv, TypeOK,
       Outcome, W, Exists, Shape, StartHolds
  <2>3. QED BY <2>1, <2>2 DEF RestoreInv
<1>13. LabelInv'
  <2>1. LabelAt(p)'
    BY <1>2, LifecycleAssumption DEF CreateContainer, WorkerInv, Outcome, StartHolds, Idle,
       TypeOK, LabelAt, LabelInv, W, Exists
  <2>2. ASSUME NEW q \in Products \ {p} PROVE LabelAt(q)'
    BY <1>2, LifecycleAssumption DEF CreateContainer, WorkerInv, LabelAt, LabelInv, TypeOK,
       Outcome, W, Exists, Shape, StartHolds
  <2>3. QED BY <2>1, <2>2 DEF LabelInv
<1>14. MarkInv'
  BY <1>2 DEF CreateContainer, WorkerInv, Outcome, Idle, MarkInv, Exists, W, Live
<1>15. GoneInv'
  BY <1>2 DEF CreateContainer, WorkerInv, Outcome, Idle, GoneInv, Exists, W
<1>16. WorkerKeepsResources'
  BY <1>2 DEF CreateContainer, WorkerInv, Outcome, Idle, WorkerKeepsResources, Exists, W, Live
<1>17. AnsweredIsRevoked'
  BY <1>2 DEF CreateContainer, WorkerInv, Outcome, Idle, AnsweredIsRevoked
<1>18. QED BY <1>3, <1>4, <1>5, <1>6, <1>7, <1>8, <1>9, <1>10, <1>11, <1>12, <1>13, <1>14,
     <1>15, <1>16, <1>17 DEF WorkerInv

\* A start is sent.
LEMMA ContainerStartInv ==
  ASSUME WorkerInv, NEW p \in Products, ContainerStart(p)
  PROVE  WorkerInv'
<1>1. Proceeds(p, {"starting"})
  BY OpSteps
<1>2. Outcome(p, {"starting"})
  BY <1>1, ProceedsOutcome
<1>3. TypeOK'
  <2>1. op' \in [Products -> Ops] /\ lock' \in [Workers -> Products \cup {None}]
    BY <1>1, ProceedsTypes DEF WorkerInv
  <2>2. QED BY <1>2, <2>1 DEF ContainerStart, Outcome, Shape, WorkerInv, TypeOK, Send, W,
       Idle, nodeVars
<1>4. ShapeInv'
  <2>1. Shape(op'[p])
    BY <1>2 DEF ContainerStart, Outcome, StartHolds, Shape, Idle
  <2>2. QED BY <1>2, <2>1 DEF Outcome, WorkerInv, ShapeInv
<1>5. LockInv'
  <2>1. Locked(op'[p]) => Locked(op[p])
    BY <1>2 DEF ContainerStart, Outcome, StartHolds, Shape, Idle, Locked
  <2>2. QED BY <1>1, <2>1, ProceedsLock
<1>6. KnownInv'
  <2>1. KnownAt(p)'
    BY <1>2, LifecycleAssumption DEF ContainerStart, WorkerInv, Outcome, StartHolds, Idle,
       TypeOK, KnownAt, KnownInv, W, Send, nodeVars
  <2>2. ASSUME NEW q \in Products \ {p} PROVE KnownAt(q)'
    BY <1>2, LifecycleAssumption DEF ContainerStart, WorkerInv, KnownAt, KnownInv, TypeOK,
       Outcome, W, Send, Shape, StartHolds, nodeVars
  <2>3. QED BY <2>1, <2>2 DEF KnownInv
<1>7. EarlyInv'
  <2>1. EarlyAt(p)'
    BY <1>2, LifecycleAssumption DEF ContainerStart, WorkerInv, Outcome, StartHolds, Idle,
       TypeOK, EarlyAt, EarlyInv, Early, W, Send, nodeVars
  <2>2. ASSUME NEW q \in Products \ {p} PROVE EarlyAt(q)'
    <3>1. Early(op[q]) => engine'[W(q)] = "none"
      BY DEF ContainerStart, WorkerInv, TypeOK, EarlyInv, EarlyAt, nodeVars
    <3>2. QED BY <1>2, <3>1, EarlyStays DEF Outcome, Idle
  <2>3. QED BY <2>1, <2>2 DEF EarlyInv
<1>8. StartInv'
  <2>1. StartAt(p)'
    BY <1>2, LifecycleAssumption DEF ContainerStart, WorkerInv, Outcome, StartHolds, Idle,
       TypeOK, StartAt, StartInv, Exists, W, Send, nodeVars
  <2>2. ASSUME NEW q \in Products \ {p} PROVE StartAt(q)'
    BY <1>2, LifecycleAssumption DEF ContainerStart, WorkerInv, StartAt, StartInv, TypeOK,
       Outcome, Exists, W, Send, Shape, StartHolds, nodeVars
  <2>3. QED BY <2>1, <2>2 DEF StartInv
<1>9. RemovalInv'
  <2>1. RemovalAt(p)'
    BY <1>2, LifecycleAssumption DEF ContainerStart, WorkerInv, Outcome, StartHolds, Idle,
       TypeOK, RemovalAt, RemovalInv, W, Send, nodeVars
  <2>2. ASSUME NEW q \in Products \ {p} PROVE RemovalAt(q)'
    BY <1>2, LifecycleAssumption DEF ContainerStart, WorkerInv, RemovalAt, RemovalInv, TypeOK,
       Outcome, W, Send, Shape, StartHolds, nodeVars
  <2>3. QED BY <2>1, <2>2 DEF RemovalInv
<1>10. RevokedInv'
  <2>1. RevokedAt(p)'
    BY <1>2, LifecycleAssumption DEF ContainerStart, WorkerInv, Outcome, StartHolds, Idle,
       TypeOK, RevokedAt, RevokedInv, Past, W, Send, nodeVars
  <2>2. ASSUME NEW q \in Products \ {p} PROVE RevokedAt(q)'
    BY <1>2, LifecycleAssumption DEF ContainerStart, WorkerInv, RevokedAt, RevokedInv, TypeOK,
       Outcome, Past, W, Send, Shape, StartHolds, nodeVars
  <2>3. QED BY <2>1, <2>2 DEF RevokedInv
<1>11. RestoreInv'
  <2>1. RestoreAt(p)'
    BY <1>2, LifecycleAssumption DEF ContainerStart, WorkerInv, Outcome, StartHolds, Idle,
       TypeOK, RestoreAt, RestoreInv, W, Send, nodeVars
  <2>2. ASSUME NEW q \in Products \ {p} PROVE RestoreAt(q)'
    BY <1>2, LifecycleAssumption DEF ContainerStart, WorkerInv, RestoreAt, RestoreInv, TypeOK,
       Outcome, W, Send, Shape, StartHolds, nodeVars
  <2>3. QED BY <2>1, <2>2 DEF RestoreInv
<1>12. LabelInv'
  <2>1. LabelAt(p)'
    BY <1>2, LifecycleAssumption DEF ContainerStart, WorkerInv, Outcome, StartHolds, Idle,
       TypeOK, LabelAt, LabelInv, W, Send, nodeVars
  <2>2. ASSUME NEW q \in Products \ {p} PROVE LabelAt(q)'
    BY <1>2, LifecycleAssumption DEF ContainerStart, WorkerInv, LabelAt, LabelInv, TypeOK,
       Outcome, W, Send, Shape, StartHolds, nodeVars
  <2>3. QED BY <2>1, <2>2 DEF LabelInv
<1>13. JournalInv' /\ MarkInv' /\ GoneInv' /\ WorkerKeepsResources' /\ AnsweredIsRevoked'
  BY <1>2 DEF ContainerStart, WorkerInv, Outcome, Idle, JournalInv, MarkInv, GoneInv,
              WorkerKeepsResources, AnsweredIsRevoked, Live, Exists, nodeVars
<1>14. QED BY <1>3, <1>4, <1>5, <1>6, <1>7, <1>8, <1>9, <1>10, <1>11, <1>12, <1>13 DEF WorkerInv

\* The guest is verified.
LEMMA VerifyGuestInv ==
  ASSUME WorkerInv, NEW p \in Products, VerifyGuest(p)
  PROVE  WorkerInv'
<1>1. Proceeds(p, {"restore"})
  BY OpSteps
<1>2. Outcome(p, {"restore"})
  BY <1>1, ProceedsOutcome
<1>3. TypeOK'
  <2>1. op' \in [Products -> Ops] /\ lock' \in [Workers -> Products \cup {None}]
    BY <1>1, ProceedsTypes DEF WorkerInv
  <2>2. QED BY <1>2, <2>1 DEF VerifyGuest, Outcome, Shape, WorkerInv, TypeOK, Idle, nodeVars
<1>4. ShapeInv'
  <2>1. Shape(op'[p])
    BY <1>2 DEF VerifyGuest, Outcome, StartHolds, Shape, Idle
  <2>2. QED BY <1>2, <2>1 DEF Outcome, WorkerInv, ShapeInv
<1>5. LockInv'
  <2>1. Locked(op'[p]) => Locked(op[p])
    BY <1>2 DEF VerifyGuest, Outcome, StartHolds, Shape, Idle, Locked
  <2>2. QED BY <1>1, <2>1, ProceedsLock
<1>6. KnownInv'
  <2>1. KnownAt(p)'
    BY <1>2, LifecycleAssumption DEF VerifyGuest, WorkerInv, Outcome, StartHolds, Idle, TypeOK,
       KnownAt, KnownInv, W, nodeVars
  <2>2. ASSUME NEW q \in Products \ {p} PROVE KnownAt(q)'
    BY <1>2, LifecycleAssumption DEF VerifyGuest, WorkerInv, KnownAt, KnownInv, TypeOK, Outcome,
       W, Shape, StartHolds, nodeVars
  <2>3. QED BY <2>1, <2>2 DEF KnownInv
<1>7. EarlyInv'
  <2>1. EarlyAt(p)'
    BY <1>2, LifecycleAssumption DEF VerifyGuest, WorkerInv, Outcome, StartHolds, Idle, TypeOK,
       EarlyAt, EarlyInv, Early, W, nodeVars
  <2>2. ASSUME NEW q \in Products \ {p} PROVE EarlyAt(q)'
    <3>1. Early(op[q]) => engine'[W(q)] = "none"
      BY DEF VerifyGuest, WorkerInv, TypeOK, EarlyInv, EarlyAt, nodeVars
    <3>2. QED BY <1>2, <3>1, EarlyStays DEF Outcome, Idle
  <2>3. QED BY <2>1, <2>2 DEF EarlyInv
<1>8. StartInv'
  <2>1. StartAt(p)'
    BY <1>2, LifecycleAssumption DEF VerifyGuest, WorkerInv, Outcome, StartHolds, Idle, TypeOK,
       StartAt, StartInv, Exists, W, nodeVars
  <2>2. ASSUME NEW q \in Products \ {p} PROVE StartAt(q)'
    BY <1>2, LifecycleAssumption DEF VerifyGuest, WorkerInv, StartAt, StartInv, TypeOK, Outcome,
       Exists, W, Shape, StartHolds, nodeVars
  <2>3. QED BY <2>1, <2>2 DEF StartInv
<1>9. RemovalInv'
  <2>1. RemovalAt(p)'
    BY <1>2, LifecycleAssumption DEF VerifyGuest, WorkerInv, Outcome, StartHolds, Idle, TypeOK,
       RemovalAt, RemovalInv, W, nodeVars
  <2>2. ASSUME NEW q \in Products \ {p} PROVE RemovalAt(q)'
    BY <1>2, LifecycleAssumption DEF VerifyGuest, WorkerInv, RemovalAt, RemovalInv, TypeOK,
       Outcome, W, Shape, StartHolds, nodeVars
  <2>3. QED BY <2>1, <2>2 DEF RemovalInv
<1>10. RevokedInv'
  <2>1. RevokedAt(p)'
    BY <1>2, LifecycleAssumption DEF VerifyGuest, WorkerInv, Outcome, StartHolds, Idle, TypeOK,
       RevokedAt, RevokedInv, Past, W, nodeVars
  <2>2. ASSUME NEW q \in Products \ {p} PROVE RevokedAt(q)'
    BY <1>2, LifecycleAssumption DEF VerifyGuest, WorkerInv, RevokedAt, RevokedInv, TypeOK,
       Outcome, Past, W, Shape, StartHolds, nodeVars
  <2>3. QED BY <2>1, <2>2 DEF RevokedInv
<1>11. RestoreInv'
  <2>1. RestoreAt(p)'
    BY <1>2, LifecycleAssumption DEF VerifyGuest, WorkerInv, Outcome, StartHolds, Idle, TypeOK,
       RestoreAt, RestoreInv, W, nodeVars
  <2>2. ASSUME NEW q \in Products \ {p} PROVE RestoreAt(q)'
    BY <1>2, LifecycleAssumption DEF VerifyGuest, WorkerInv, RestoreAt, RestoreInv, TypeOK,
       Outcome, W, Shape, StartHolds, nodeVars
  <2>3. QED BY <2>1, <2>2 DEF RestoreInv
<1>12. LabelInv'
  <2>1. LabelAt(p)'
    BY <1>2, LifecycleAssumption DEF VerifyGuest, WorkerInv, Outcome, StartHolds, Idle, TypeOK,
       LabelAt, LabelInv, W, nodeVars
  <2>2. ASSUME NEW q \in Products \ {p} PROVE LabelAt(q)'
    BY <1>2, LifecycleAssumption DEF VerifyGuest, WorkerInv, LabelAt, LabelInv, TypeOK, Outcome,
       W, Shape, StartHolds, nodeVars
  <2>3. QED BY <2>1, <2>2 DEF LabelInv
<1>13. JournalInv' /\ MarkInv' /\ GoneInv' /\ WorkerKeepsResources' /\ AnsweredIsRevoked'
  BY <1>2 DEF VerifyGuest, WorkerInv, Outcome, Idle, JournalInv, MarkInv, GoneInv,
              WorkerKeepsResources, AnsweredIsRevoked, Live, Exists, nodeVars
<1>14. QED BY <1>3, <1>4, <1>5, <1>6, <1>7, <1>8, <1>9, <1>10, <1>11, <1>12, <1>13 DEF WorkerInv

\* A restore is sent.
LEMMA RestoreWorkerTokenInv ==
  ASSUME WorkerInv, NEW p \in Products, RestoreWorkerToken(p)
  PROVE  WorkerInv'
<1>1. Proceeds(p, {"restoring"})
  BY OpSteps
<1>2. Outcome(p, {"restoring"})
  BY <1>1, ProceedsOutcome
<1>3. TypeOK'
  <2>1. op' \in [Products -> Ops] /\ lock' \in [Workers -> Products \cup {None}]
    BY <1>1, ProceedsTypes DEF WorkerInv
  <2>2. QED BY <1>2, <2>1 DEF RestoreWorkerToken, Outcome, Shape, WorkerInv, TypeOK, Send, W,
       Idle, nodeVars
<1>4. ShapeInv'
  <2>1. Shape(op'[p])
    BY <1>2 DEF RestoreWorkerToken, Outcome, StartHolds, Shape, Idle
  <2>2. QED BY <1>2, <2>1 DEF Outcome, WorkerInv, ShapeInv
<1>5. LockInv'
  <2>1. Locked(op'[p]) => Locked(op[p])
    BY <1>2 DEF RestoreWorkerToken, Outcome, StartHolds, Shape, Idle, Locked
  <2>2. QED BY <1>1, <2>1, ProceedsLock
<1>6. KnownInv'
  <2>1. KnownAt(p)'
    BY <1>2, LifecycleAssumption DEF RestoreWorkerToken, WorkerInv, Outcome, StartHolds, Idle,
       TypeOK, KnownAt, KnownInv, W, Send, nodeVars
  <2>2. ASSUME NEW q \in Products \ {p} PROVE KnownAt(q)'
    BY <1>2, LifecycleAssumption DEF RestoreWorkerToken, WorkerInv, KnownAt, KnownInv, TypeOK,
       Outcome, W, Send, Shape, StartHolds, nodeVars
  <2>3. QED BY <2>1, <2>2 DEF KnownInv
<1>7. EarlyInv'
  <2>1. EarlyAt(p)'
    BY <1>2, LifecycleAssumption DEF RestoreWorkerToken, WorkerInv, Outcome, StartHolds, Idle,
       TypeOK, EarlyAt, EarlyInv, Early, W, Send, nodeVars
  <2>2. ASSUME NEW q \in Products \ {p} PROVE EarlyAt(q)'
    <3>1. Early(op[q]) => engine'[W(q)] = "none"
      BY DEF RestoreWorkerToken, WorkerInv, TypeOK, EarlyInv, EarlyAt, nodeVars
    <3>2. QED BY <1>2, <3>1, EarlyStays DEF Outcome, Idle
  <2>3. QED BY <2>1, <2>2 DEF EarlyInv
<1>8. StartInv'
  <2>1. StartAt(p)'
    BY <1>2, LifecycleAssumption DEF RestoreWorkerToken, WorkerInv, Outcome, StartHolds, Idle,
       TypeOK, StartAt, StartInv, Exists, W, Send, nodeVars
  <2>2. ASSUME NEW q \in Products \ {p} PROVE StartAt(q)'
    BY <1>2, LifecycleAssumption DEF RestoreWorkerToken, WorkerInv, StartAt, StartInv, TypeOK,
       Outcome, Exists, W, Send, Shape, StartHolds, nodeVars
  <2>3. QED BY <2>1, <2>2 DEF StartInv
<1>9. RemovalInv'
  <2>1. RemovalAt(p)'
    BY <1>2, LifecycleAssumption DEF RestoreWorkerToken, WorkerInv, Outcome, StartHolds, Idle,
       TypeOK, RemovalAt, RemovalInv, W, Send, nodeVars
  <2>2. ASSUME NEW q \in Products \ {p} PROVE RemovalAt(q)'
    BY <1>2, LifecycleAssumption DEF RestoreWorkerToken, WorkerInv, RemovalAt, RemovalInv,
       TypeOK, Outcome, W, Send, Shape, StartHolds, nodeVars
  <2>3. QED BY <2>1, <2>2 DEF RemovalInv
<1>10. RevokedInv'
  <2>1. RevokedAt(p)'
    BY <1>2, LifecycleAssumption DEF RestoreWorkerToken, WorkerInv, Outcome, StartHolds, Idle,
       TypeOK, RevokedAt, RevokedInv, Past, W, Send, nodeVars
  <2>2. ASSUME NEW q \in Products \ {p} PROVE RevokedAt(q)'
    BY <1>2, LifecycleAssumption DEF RestoreWorkerToken, WorkerInv, RevokedAt, RevokedInv,
       TypeOK, Outcome, Past, W, Send, Shape, StartHolds, nodeVars
  <2>3. QED BY <2>1, <2>2 DEF RevokedInv
<1>11. RestoreInv'
  <2>1. RestoreAt(p)'
    BY <1>2, LifecycleAssumption DEF RestoreWorkerToken, WorkerInv, Outcome, StartHolds, Idle,
       TypeOK, RestoreAt, Shape, LockInv, Locked, RestoreInv, W, Send, nodeVars
  <2>2. ASSUME NEW q \in Products \ {p} PROVE RestoreAt(q)'
    BY <1>2, LifecycleAssumption DEF RestoreWorkerToken, WorkerInv, RestoreAt, RestoreInv,
       TypeOK, Outcome, W, Send, Shape, StartHolds, nodeVars
  <2>3. QED BY <2>1, <2>2 DEF RestoreInv
<1>12. LabelInv'
  <2>1. LabelAt(p)'
    BY <1>2, LifecycleAssumption DEF RestoreWorkerToken, WorkerInv, Outcome, StartHolds, Idle,
       TypeOK, LabelAt, LabelInv, W, Send, nodeVars
  <2>2. ASSUME NEW q \in Products \ {p} PROVE LabelAt(q)'
    BY <1>2, LifecycleAssumption DEF RestoreWorkerToken, WorkerInv, LabelAt, LabelInv, TypeOK,
       Outcome, W, Send, Shape, StartHolds, nodeVars
  <2>3. QED BY <2>1, <2>2 DEF LabelInv
<1>13. MarkInv'
  BY <1>2 DEF RestoreWorkerToken, WorkerInv, Outcome, Idle, MarkInv, Send, W, Live, nodeVars
<1>14. GoneInv'
  BY <1>2 DEF RestoreWorkerToken, WorkerInv, Outcome, Idle, GoneInv, Send, W, nodeVars
<1>15. AnsweredIsRevoked'
  BY <1>2 DEF RestoreWorkerToken, WorkerInv, Outcome, Idle, AnsweredIsRevoked, Send, W, nodeVars
<1>16. JournalInv' /\ WorkerKeepsResources'
  BY <1>2 DEF RestoreWorkerToken, WorkerInv, Outcome, Idle, JournalInv, WorkerKeepsResources,
              Exists, Live, nodeVars
<1>17. QED BY <1>3, <1>4, <1>5, <1>6, <1>7, <1>8, <1>9, <1>10, <1>11, <1>12, <1>13, <1>14,
     <1>15, <1>16 DEF WorkerInv

\* User code is released.
LEMMA ReleaseGuestInv ==
  ASSUME WorkerInv, NEW p \in Products, ReleaseGuest(p)
  PROVE  WorkerInv'
<1>1. Proceeds(p, {"answer"})
  BY OpSteps
<1>2. Outcome(p, {"answer"})
  BY <1>1, ProceedsOutcome
<1>3. TypeOK'
  <2>1. op' \in [Products -> Ops] /\ lock' \in [Workers -> Products \cup {None}]
    BY <1>1, ProceedsTypes DEF WorkerInv
  <2>2. QED BY <1>2, <2>1 DEF ReleaseGuest, Outcome, Shape, WorkerInv, TypeOK, W, Idle, nodeVars
<1>4. ShapeInv'
  <2>1. Shape(op'[p])
    BY <1>2 DEF ReleaseGuest, Outcome, StartHolds, Shape, Idle
  <2>2. QED BY <1>2, <2>1 DEF Outcome, WorkerInv, ShapeInv
<1>5. LockInv'
  <2>1. Locked(op'[p]) => Locked(op[p])
    BY <1>2 DEF ReleaseGuest, Outcome, StartHolds, Shape, Idle, Locked
  <2>2. QED BY <1>1, <2>1, ProceedsLock
<1>6. KnownInv'
  <2>1. KnownAt(p)'
    BY <1>2, LifecycleAssumption DEF ReleaseGuest, WorkerInv, Outcome, StartHolds, Idle, TypeOK,
       KnownAt, KnownInv, W
  <2>2. ASSUME NEW q \in Products \ {p} PROVE KnownAt(q)'
    BY <1>2, LifecycleAssumption DEF ReleaseGuest, WorkerInv, KnownAt, KnownInv, TypeOK,
       Outcome, W, Shape, StartHolds
  <2>3. QED BY <2>1, <2>2 DEF KnownInv
<1>7. JournalInv'
  BY <1>2 DEF ReleaseGuest, WorkerInv, Outcome, Idle, JournalInv, W
<1>8. EarlyInv'
  <2>1. EarlyAt(p)'
    BY <1>2, LifecycleAssumption DEF ReleaseGuest, WorkerInv, Outcome, StartHolds, Idle, TypeOK,
       EarlyAt, EarlyInv, Early, W
  <2>2. ASSUME NEW q \in Products \ {p} PROVE EarlyAt(q)'
    <3>1. Early(op[q]) => engine'[W(q)] = "none"
      BY DEF ReleaseGuest, WorkerInv, TypeOK, EarlyInv, EarlyAt, nodeVars
    <3>2. QED BY <1>2, <3>1, EarlyStays DEF Outcome, Idle
  <2>3. QED BY <2>1, <2>2 DEF EarlyInv
<1>9. StartInv'
  <2>1. StartAt(p)'
    BY <1>2, LifecycleAssumption DEF ReleaseGuest, WorkerInv, Outcome, StartHolds, Idle, TypeOK,
       StartAt, StartInv, Exists, W
  <2>2. ASSUME NEW q \in Products \ {p} PROVE StartAt(q)'
    BY <1>2, LifecycleAssumption DEF ReleaseGuest, WorkerInv, StartAt, StartInv, TypeOK,
       Outcome, Exists, W, Shape, StartHolds
  <2>3. QED BY <2>1, <2>2 DEF StartInv
<1>10. RemovalInv'
  <2>1. RemovalAt(p)'
    BY <1>2, LifecycleAssumption DEF ReleaseGuest, WorkerInv, Outcome, StartHolds, Idle, TypeOK,
       RemovalAt, RemovalInv, W
  <2>2. ASSUME NEW q \in Products \ {p} PROVE RemovalAt(q)'
    BY <1>2, LifecycleAssumption DEF ReleaseGuest, WorkerInv, RemovalAt, RemovalInv, TypeOK,
       Outcome, W, Shape, StartHolds
  <2>3. QED BY <2>1, <2>2 DEF RemovalInv
<1>11. RevokedInv'
  <2>1. RevokedAt(p)'
    BY <1>2, LifecycleAssumption DEF ReleaseGuest, WorkerInv, Outcome, StartHolds, Idle, TypeOK,
       RevokedAt, RevokedInv, Past, W
  <2>2. ASSUME NEW q \in Products \ {p} PROVE RevokedAt(q)'
    BY <1>2, LifecycleAssumption DEF ReleaseGuest, WorkerInv, RevokedAt, RevokedInv, TypeOK,
       Outcome, Past, W, Shape, StartHolds
  <2>3. QED BY <2>1, <2>2 DEF RevokedInv
<1>12. RestoreInv'
  <2>1. RestoreAt(p)'
    BY <1>2, LifecycleAssumption DEF ReleaseGuest, WorkerInv, Outcome, StartHolds, Idle, TypeOK,
       RestoreAt, RestoreInv, W
  <2>2. ASSUME NEW q \in Products \ {p} PROVE RestoreAt(q)'
    BY <1>2, LifecycleAssumption DEF ReleaseGuest, WorkerInv, RestoreAt, RestoreInv, TypeOK,
       Outcome, W, Shape, StartHolds
  <2>3. QED BY <2>1, <2>2 DEF RestoreInv
<1>13. LabelInv'
  <2>1. LabelAt(p)'
    BY <1>2, LifecycleAssumption DEF ReleaseGuest, WorkerInv, Outcome, StartHolds, Idle, TypeOK,
       LabelAt, LabelInv, W
  <2>2. ASSUME NEW q \in Products \ {p} PROVE LabelAt(q)'
    BY <1>2, LifecycleAssumption DEF ReleaseGuest, WorkerInv, LabelAt, LabelInv, TypeOK,
       Outcome, W, Shape, StartHolds
  <2>3. QED BY <2>1, <2>2 DEF LabelInv
<1>14. MarkInv'
  BY <1>2 DEF ReleaseGuest, WorkerInv, Outcome, Idle, MarkInv, W, Live
<1>15. GoneInv'
  BY <1>2 DEF ReleaseGuest, WorkerInv, Outcome, Idle, GoneInv, W
<1>16. WorkerKeepsResources'
  BY <1>2 DEF ReleaseGuest, WorkerInv, Outcome, Idle, WorkerKeepsResources, W, Exists, Live
<1>17. AnsweredIsRevoked'
  BY <1>2 DEF ReleaseGuest, WorkerInv, Outcome, Idle, AnsweredIsRevoked
<1>18. QED BY <1>3, <1>4, <1>5, <1>6, <1>7, <1>8, <1>9, <1>10, <1>11, <1>12, <1>13, <1>14,
     <1>15, <1>16, <1>17 DEF WorkerInv

\* A failed run is undone.
LEMMA RollbackInv ==
  ASSUME WorkerInv, NEW p \in Products, Rollback(p)
  PROVE  WorkerInv'
<1>1. /\ op' \in [Products -> Ops] /\ op[p].kind = "run" /\ op[p].step = "rollback"
      /\ W(p) \in Workers /\ \A q \in Products \ {p} : op'[q] = op[q]
      /\ \/ op'[p] = Idle
         \/ /\ op'[p].kind = "run" /\ op'[p].step = "rollback"
            /\ op'[p].worker = op[p].worker
         \/ /\ Exists(W(p)) \/ W(p) \in journal
            /\ op'[p].kind = "remove" /\ op'[p].step = "lock"
            /\ op'[p].worker = op[p].worker
  <2>1. op[p] \in Ops /\ op \in [Products -> Ops] /\ Shape(op[p])
    BY DEF WorkerInv, TypeOK, ShapeInv
  <2>2. op[p].kind = "run" /\ op[p].step = "rollback"
    BY <2>1 DEF Rollback, Shape, Idle, Ops, Kinds
  <2>3. ASSUME NEW x \in {"token", "network"}, op' = [op EXCEPT ![p].made = @ \ {x}]
        PROVE  Turns(p, {"rollback"})
    <3>1. [op[p] EXCEPT !.made = op[p].made \ {x}] \in Ops
      BY <2>1 DEF Ops
    <3>2. op' = [op EXCEPT ![p] = [op[p] EXCEPT !.made = op[p].made \ {x}]]
      BY <2>1, <2>3 DEF Ops
    <3>3. QED BY <2>1, <2>2, <3>1, <3>2 DEF Turns, Ops
  <2>4. ASSUME op' = [op EXCEPT ![p] = Idle]
        PROVE  Ends(p)
    BY <2>1, <2>4, IdleOp DEF Ends
  <2>5. ASSUME op' = [op EXCEPT ![p] =
                        [@ EXCEPT !.kind = "remove", !.step = "lock", !.made = {}]]
        PROVE  /\ op' \in [Products -> Ops] /\ op'[p].kind = "remove"
               /\ op'[p].step = "lock" /\ op'[p].worker = op[p].worker
               /\ \A q \in Products \ {p} : op'[q] = op[q]
    <3>1. [op[p] EXCEPT !.kind = "remove", !.step = "lock", !.made = {}] \in Ops
      BY <2>1 DEF Ops, Kinds, Steps
    <3>2. op' = [op EXCEPT ![p] =
                   [op[p] EXCEPT !.kind = "remove", !.step = "lock", !.made = {}]]
      BY <2>1, <2>5
    <3>3. QED BY <2>1, <3>1, <3>2 DEF Ops
  <2>6. QED BY <2>1, <2>2, <2>3, <2>4, <2>5 DEF Rollback, Turns, Ends, Shape, Idle, W
<1>2. /\ token' \in {token, None}
      /\ net' \in {net, None} /\ (net' # net => net = W(p) /\ ~Exists(W(p)))
      /\ reserved' \in {reserved, reserved \ {W(p)}}
      /\ reserved' # reserved => ~Live(W(p))
      /\ UNCHANGED <<engine, mark, journal, lock, request, answered, late, calls>>
  BY DEF Rollback
<1>3. TypeOK'
  BY <1>1, <1>2 DEF Idle, WorkerInv, Outcome, TypeOK, Exists, W, Live
<1>4. ShapeInv'
  BY <1>1, <1>2 DEF Idle, WorkerInv, Outcome, ShapeInv, Exists, W, Live, Shape
<1>5. LockInv'
  BY <1>1, <1>2 DEF Idle, WorkerInv, Outcome, LockInv, Exists, W, Live, Locked
<1>6. KnownInv'
  <2>1. KnownAt(p)'
    BY <1>1, <1>2, LifecycleAssumption DEF Idle, WorkerInv, Outcome, StartHolds, TypeOK,
       KnownAt, Shape, JournalInv, KnownInv, W, Exists, Live
  <2>2. ASSUME NEW q \in Products \ {p} PROVE KnownAt(q)'
    BY <1>1, <1>2, LifecycleAssumption DEF Idle, WorkerInv, KnownAt, KnownInv, TypeOK, Outcome,
       W, Exists, Live, Shape, StartHolds
  <2>3. QED BY <2>1, <2>2 DEF KnownInv
<1>7. EarlyInv'
  <2>1. EarlyAt(p)'
    BY <1>1, <1>2, LifecycleAssumption DEF Idle, WorkerInv, Outcome, StartHolds, TypeOK,
       EarlyAt, EarlyInv, Early, W, Exists, Live
  <2>2. ASSUME NEW q \in Products \ {p} PROVE EarlyAt(q)'
    <3>1. Early(op[q]) => engine'[W(q)] = "none"
      BY <1>2 DEF WorkerInv, EarlyInv, EarlyAt
    <3>2. QED BY <1>1, <3>1, EarlyStays DEF Outcome, Idle
  <2>3. QED BY <2>1, <2>2 DEF EarlyInv
<1>8. StartInv'
  <2>1. StartAt(p)'
    BY <1>1, <1>2, LifecycleAssumption DEF Idle, WorkerInv, Outcome, StartHolds, TypeOK,
       StartAt, StartInv, Exists, W, Live
  <2>2. ASSUME NEW q \in Products \ {p} PROVE StartAt(q)'
    BY <1>1, <1>2, LifecycleAssumption DEF Idle, WorkerInv, StartAt, StartInv, TypeOK, Outcome,
       Exists, W, Live, Shape, StartHolds
  <2>3. QED BY <2>1, <2>2 DEF StartInv
<1>9. RemovalInv'
  <2>1. RemovalAt(p)'
    BY <1>1, <1>2, LifecycleAssumption DEF Idle, WorkerInv, Outcome, StartHolds, TypeOK,
       RemovalAt, RemovalInv, W, Exists, Live
  <2>2. ASSUME NEW q \in Products \ {p} PROVE RemovalAt(q)'
    BY <1>1, <1>2, LifecycleAssumption DEF Idle, WorkerInv, RemovalAt, RemovalInv, TypeOK,
       Outcome, ShapeInv, Shape, EarlyInv, EarlyAt, Early, StartInv, StartAt, W, Exists, Live,
       StartHolds
  <2>3. QED BY <2>1, <2>2 DEF RemovalInv
<1>10. RevokedInv'
  <2>1. RevokedAt(p)'
    BY <1>1, <1>2, LifecycleAssumption DEF Idle, WorkerInv, Outcome, StartHolds, TypeOK,
       RevokedAt, RevokedInv, Past, W, Exists, Live
  <2>2. ASSUME NEW q \in Products \ {p} PROVE RevokedAt(q)'
    BY <1>1, <1>2, LifecycleAssumption DEF Idle, WorkerInv, RevokedAt, RevokedInv, TypeOK,
       Outcome, ShapeInv, Shape, LockInv, Locked, Past, W, Exists, Live, StartHolds
  <2>3. QED BY <2>1, <2>2 DEF RevokedInv
<1>11. RestoreInv'
  <2>1. RestoreAt(p)'
    BY <1>1, <1>2, LifecycleAssumption DEF Idle, WorkerInv, Outcome, StartHolds, TypeOK,
       RestoreAt, RestoreInv, W, Exists, Live
  <2>2. ASSUME NEW q \in Products \ {p} PROVE RestoreAt(q)'
    BY <1>1, <1>2, LifecycleAssumption DEF Idle, WorkerInv, RestoreAt, RestoreInv, TypeOK,
       Outcome, W, Exists, Live, Shape, StartHolds
  <2>3. QED BY <2>1, <2>2 DEF RestoreInv
<1>12. LabelInv'
  <2>1. LabelAt(p)'
    BY <1>1, <1>2, LifecycleAssumption DEF Idle, WorkerInv, Outcome, StartHolds, TypeOK,
       LabelAt, LabelInv, W, Exists, Live
  <2>2. ASSUME NEW q \in Products \ {p} PROVE LabelAt(q)'
    BY <1>1, <1>2, LifecycleAssumption DEF Idle, WorkerInv, LabelAt, LabelInv, TypeOK, Outcome,
       W, Exists, Live, Shape, StartHolds
  <2>3. QED BY <2>1, <2>2 DEF LabelInv
<1>13. GoneInv'
  BY <1>1, <1>2, LifecycleAssumption DEF Idle, WorkerInv, Outcome, GoneInv, TypeOK, ShapeInv,
     Shape, EarlyInv, EarlyAt, StartInv, StartAt, RemovalInv, RemovalAt, Exists, W, Live, Early
<1>14. WorkerKeepsResources'
  BY <1>1, <1>2 DEF Idle, WorkerInv, Outcome, WorkerKeepsResources, Exists, W, Live
<1>15. AnsweredIsRevoked'
  BY <1>1, <1>2, LifecycleAssumption DEF Idle, WorkerInv, Outcome, AnsweredIsRevoked, TypeOK,
     ShapeInv, Shape, RevokedInv, RestoreInv, RevokedAt, RestoreAt, Exists, W, Live, Past
<1>16. JournalInv' /\ MarkInv'
  BY <1>1, <1>2 DEF Idle, WorkerInv, Outcome, JournalInv, MarkInv, Live
<1>17. QED BY <1>3, <1>4, <1>5, <1>6, <1>7, <1>8, <1>9, <1>10, <1>11, <1>12, <1>13, <1>14,
     <1>15, <1>16 DEF WorkerInv

\* The placeholder is revoked.
LEMMA RevokeInv ==
  ASSUME WorkerInv, NEW p \in Products, Revoke(p)
  PROVE  WorkerInv'
<1>1. Proceeds(p, AfterRevoke(p)) /\ (token' # None => Reported(p))
  BY OpSteps
<1>2. Outcome(p, AfterRevoke(p))
  BY <1>1, ProceedsOutcome
<1>3. TypeOK'
  <2>1. op' \in [Products -> Ops] /\ lock' \in [Workers -> Products \cup {None}]
    BY <1>1, ProceedsTypes DEF WorkerInv
  <2>2. QED BY <1>2, <2>1 DEF Revoke, Outcome, Shape, WorkerInv, TypeOK, W, Idle, nodeVars
<1>4. ShapeInv'
  <2>1. Shape(op'[p])
    BY <1>2 DEF Revoke, Outcome, StartHolds, Shape, Idle, AfterRevoke
  <2>2. QED BY <1>2, <2>1 DEF Outcome, WorkerInv, ShapeInv
<1>5. LockInv'
  <2>1. Locked(op'[p]) => Locked(op[p])
    BY <1>2 DEF Revoke, Outcome, StartHolds, Shape, Idle, Locked, AfterRevoke
  <2>2. QED BY <1>1, <2>1, ProceedsLock
<1>6. KnownInv'
  <2>1. KnownAt(p)'
    BY <1>2, LifecycleAssumption DEF Revoke, AfterRevoke, Reported, WorkerInv, Outcome,
       StartHolds, Idle, TypeOK, KnownAt, KnownInv, W, nodeVars
  <2>2. ASSUME NEW q \in Products \ {p} PROVE KnownAt(q)'
    BY <1>2, LifecycleAssumption DEF Revoke, AfterRevoke, Reported, WorkerInv, KnownAt,
       KnownInv, TypeOK, Outcome, W, Shape, StartHolds, nodeVars
  <2>3. QED BY <2>1, <2>2 DEF KnownInv
<1>7. EarlyInv'
  <2>1. EarlyAt(p)'
    BY <1>2, LifecycleAssumption DEF Revoke, AfterRevoke, Reported, WorkerInv, Outcome,
       StartHolds, Idle, TypeOK, EarlyAt, EarlyInv, Early, W, nodeVars
  <2>2. ASSUME NEW q \in Products \ {p} PROVE EarlyAt(q)'
    <3>1. Early(op[q]) => engine'[W(q)] = "none"
      BY DEF Revoke, WorkerInv, TypeOK, EarlyInv, EarlyAt, nodeVars
    <3>2. QED BY <1>2, <3>1, EarlyStays DEF Outcome, Idle
  <2>3. QED BY <2>1, <2>2 DEF EarlyInv
<1>8. StartInv'
  <2>1. StartAt(p)'
    BY <1>2, LifecycleAssumption DEF Revoke, AfterRevoke, Reported, WorkerInv, Outcome,
       StartHolds, Idle, TypeOK, StartAt, StartInv, Exists, W, nodeVars
  <2>2. ASSUME NEW q \in Products \ {p} PROVE StartAt(q)'
    BY <1>2, LifecycleAssumption DEF Revoke, AfterRevoke, Reported, WorkerInv, StartAt,
       StartInv, TypeOK, Outcome, Exists, W, Shape, StartHolds, nodeVars
  <2>3. QED BY <2>1, <2>2 DEF StartInv
<1>9. RemovalInv'
  <2>1. RemovalAt(p)'
    BY <1>2, LifecycleAssumption DEF Revoke, AfterRevoke, Reported, WorkerInv, Outcome,
       StartHolds, Idle, TypeOK, RemovalAt, RemovalInv, W, nodeVars
  <2>2. ASSUME NEW q \in Products \ {p} PROVE RemovalAt(q)'
    BY <1>2, LifecycleAssumption DEF Revoke, AfterRevoke, Reported, WorkerInv, RemovalAt,
       RemovalInv, TypeOK, Outcome, W, Shape, StartHolds, nodeVars
  <2>3. QED BY <2>1, <2>2 DEF RemovalInv
<1>10. RevokedInv'
  <2>1. RevokedAt(p)'
    BY <1>1, <1>2, LifecycleAssumption DEF Revoke, AfterRevoke, Reported, WorkerInv, Outcome,
       StartHolds, Idle, TypeOK, RevokedAt, Shape, LockInv, Locked, RevokedInv, Past, W,
       nodeVars
  <2>2. ASSUME NEW q \in Products \ {p} PROVE RevokedAt(q)'
    BY <1>1, <1>2, LifecycleAssumption DEF Revoke, AfterRevoke, Reported, WorkerInv, RevokedAt,
       RevokedInv, TypeOK, Outcome, Idle, ShapeInv, Shape, LockInv, Locked, Past, W, StartHolds,
       nodeVars
  <2>3. QED BY <2>1, <2>2 DEF RevokedInv
<1>11. RestoreInv'
  <2>1. RestoreAt(p)'
    BY <1>2, LifecycleAssumption DEF Revoke, AfterRevoke, Reported, WorkerInv, Outcome,
       StartHolds, Idle, TypeOK, RestoreAt, RestoreInv, W, nodeVars
  <2>2. ASSUME NEW q \in Products \ {p} PROVE RestoreAt(q)'
    BY <1>2, LifecycleAssumption DEF Revoke, AfterRevoke, Reported, WorkerInv, RestoreAt,
       RestoreInv, TypeOK, Outcome, W, Shape, StartHolds, nodeVars
  <2>3. QED BY <2>1, <2>2 DEF RestoreInv
<1>12. LabelInv'
  <2>1. LabelAt(p)'
    BY <1>2, LifecycleAssumption DEF Revoke, AfterRevoke, Reported, WorkerInv, Outcome,
       StartHolds, Idle, TypeOK, LabelAt, LabelInv, W, nodeVars
  <2>2. ASSUME NEW q \in Products \ {p} PROVE LabelAt(q)'
    BY <1>2, LifecycleAssumption DEF Revoke, AfterRevoke, Reported, WorkerInv, LabelAt,
       LabelInv, TypeOK, Outcome, W, Shape, StartHolds, nodeVars
  <2>3. QED BY <2>1, <2>2 DEF LabelInv
<1>13. AnsweredIsRevoked'
  BY <1>1, <1>2, LifecycleAssumption DEF Revoke, AfterRevoke, Reported, WorkerInv, Outcome,
     Idle, AnsweredIsRevoked, TypeOK, ShapeInv, Shape, RevokedInv, RestoreInv, RevokedAt,
     RestoreAt, Past, W, nodeVars
<1>14. JournalInv' /\ MarkInv' /\ GoneInv' /\ WorkerKeepsResources'
  BY <1>2 DEF Revoke, AfterRevoke, Reported, WorkerInv, Outcome, Idle, JournalInv, MarkInv,
              GoneInv, WorkerKeepsResources, Live, Exists, nodeVars
<1>15. QED BY <1>3, <1>4, <1>5, <1>6, <1>7, <1>8, <1>9, <1>10, <1>11, <1>12, <1>13, <1>14 DEF
     WorkerInv

\* The worker is stopped.
LEMMA StopWorkerInv ==
  ASSUME WorkerInv, NEW p \in Products, StopWorker(p)
  PROVE  WorkerInv'
<1>1. Proceeds(p, {"dealloc"})
  BY OpSteps
<1>2. Outcome(p, {"dealloc"})
  BY <1>1, ProceedsOutcome
<1>3. Calm
  BY <1>2, StoppedCalm DEF StopWorker, WorkerInv
<1>4. TypeOK'
  <2>1. op' \in [Products -> Ops] /\ lock' \in [Workers -> Products \cup {None}]
    BY <1>1, ProceedsTypes DEF WorkerInv
  <2>2. QED BY <1>2, <2>1 DEF StopWorker, Outcome, Shape, WorkerInv, TypeOK, Stopped, W, Idle,
       nodeVars
<1>5. ShapeInv'
  <2>1. Shape(op'[p])
    BY <1>2 DEF StopWorker, Outcome, StartHolds, Shape, Idle
  <2>2. QED BY <1>2, <2>1 DEF Outcome, WorkerInv, ShapeInv
<1>6. LockInv'
  <2>1. Locked(op'[p]) => Locked(op[p])
    BY <1>2 DEF StopWorker, Outcome, StartHolds, Shape, Idle, Locked
  <2>2. QED BY <1>1, <2>1, ProceedsLock
<1>7. KnownInv'
  <2>1. KnownAt(p)'
    BY <1>2, <1>3, LifecycleAssumption DEF StopWorker, Calm, WorkerInv, Outcome, StartHolds,
       Idle, TypeOK, KnownAt, Shape, JournalInv, KnownInv, W, Exists
  <2>2. ASSUME NEW q \in Products \ {p} PROVE KnownAt(q)'
    BY <1>2, <1>3, LifecycleAssumption DEF StopWorker, Calm, WorkerInv, KnownAt, KnownInv,
       TypeOK, Outcome, Idle, ShapeInv, Shape, JournalInv, W, Exists, StartHolds
  <2>3. QED BY <2>1, <2>2 DEF KnownInv
<1>8. JournalInv'
  BY <1>2, <1>3, LifecycleAssumption DEF StopWorker, Calm, WorkerInv, Outcome, Idle, JournalInv,
     TypeOK, ShapeInv, Shape, KnownInv, KnownAt, W, Exists
<1>9. EarlyInv'
  <2>1. EarlyAt(p)'
    BY <1>2, <1>3, LifecycleAssumption DEF StopWorker, Calm, WorkerInv, Outcome, StartHolds,
       Idle, TypeOK, EarlyAt, EarlyInv, Early, W, Exists
  <2>2. ASSUME NEW q \in Products \ {p} PROVE EarlyAt(q)'
    <3>1. Early(op[q]) => engine'[W(q)] = "none"
      BY <1>3 DEF Calm, WorkerInv, EarlyInv, EarlyAt, ShapeInv, Shape, Early, Idle, W
    <3>2. QED BY <1>2, <3>1, EarlyStays DEF Outcome, Idle
  <2>3. QED BY <2>1, <2>2 DEF EarlyInv
<1>10. StartInv'
  <2>1. StartAt(p)'
    BY <1>2, <1>3, LifecycleAssumption DEF StopWorker, Calm, WorkerInv, Outcome, StartHolds,
       Idle, TypeOK, StartAt, StartInv, Exists, W
  <2>2. ASSUME NEW q \in Products \ {p} PROVE StartAt(q)'
    BY <1>2, <1>3, LifecycleAssumption DEF StopWorker, Calm, WorkerInv, StartAt, StartInv,
       TypeOK, Outcome, Idle, ShapeInv, Shape, LockInv, Locked, Exists, W, StartHolds
  <2>3. QED BY <2>1, <2>2 DEF StartInv
<1>11. RemovalInv'
  <2>1. RemovalAt(p)'
    BY <1>2, <1>3, LifecycleAssumption DEF StopWorker, Calm, WorkerInv, Outcome, StartHolds,
       Idle, TypeOK, RemovalAt, Shape, EarlyInv, EarlyAt, Early, StartInv, StartAt, RemovalInv,
       W, Exists
  <2>2. ASSUME NEW q \in Products \ {p} PROVE RemovalAt(q)'
    BY <1>2, <1>3, LifecycleAssumption DEF StopWorker, Calm, WorkerInv, RemovalAt, RemovalInv,
       TypeOK, Outcome, Idle, ShapeInv, Shape, EarlyInv, EarlyAt, Early, StartInv, StartAt, W,
       Exists, StartHolds
  <2>3. QED BY <2>1, <2>2 DEF RemovalInv
<1>12. RevokedInv'
  <2>1. RevokedAt(p)'
    BY <1>2, <1>3, LifecycleAssumption DEF StopWorker, Calm, WorkerInv, Outcome, StartHolds,
       Idle, TypeOK, RevokedAt, Shape, LockInv, Locked, RevokedInv, Past, W, Exists
  <2>2. ASSUME NEW q \in Products \ {p} PROVE RevokedAt(q)'
    BY <1>2, <1>3, LifecycleAssumption DEF StopWorker, Calm, WorkerInv, RevokedAt, RevokedInv,
       TypeOK, Outcome, Past, W, Exists, Shape, StartHolds
  <2>3. QED BY <2>1, <2>2 DEF RevokedInv
<1>13. RestoreInv'
  <2>1. RestoreAt(p)'
    BY <1>2, <1>3, LifecycleAssumption DEF StopWorker, Calm, WorkerInv, Outcome, StartHolds,
       Idle, TypeOK, RestoreAt, RestoreInv, W, Exists
  <2>2. ASSUME NEW q \in Products \ {p} PROVE RestoreAt(q)'
    BY <1>2, <1>3, LifecycleAssumption DEF StopWorker, Calm, WorkerInv, RestoreAt, RestoreInv,
       TypeOK, Outcome, W, Exists, Shape, StartHolds
  <2>3. QED BY <2>1, <2>2 DEF RestoreInv
<1>14. LabelInv'
  <2>1. LabelAt(p)'
    BY <1>2, <1>3, LifecycleAssumption DEF StopWorker, Calm, WorkerInv, Outcome, StartHolds,
       Idle, TypeOK, LabelAt, Shape, LabelInv, W, Exists
  <2>2. ASSUME NEW q \in Products \ {p} PROVE LabelAt(q)'
    BY <1>2, <1>3, LifecycleAssumption DEF StopWorker, Calm, WorkerInv, LabelAt, LabelInv,
       TypeOK, Outcome, W, Exists, Shape, StartHolds
  <2>3. QED BY <2>1, <2>2 DEF LabelInv
<1>15. MarkInv'
  BY <1>2, <1>3 DEF StopWorker, Calm, WorkerInv, Outcome, Idle, MarkInv, W, Exists, Live
<1>16. GoneInv'
  BY <1>2, <1>3 DEF StopWorker, Calm, WorkerInv, Outcome, Idle, GoneInv, W, Exists
<1>17. WorkerKeepsResources'
  BY <1>2, <1>3 DEF StopWorker, Calm, WorkerInv, Outcome, Idle, WorkerKeepsResources, W, Exists,
                    Live
<1>18. AnsweredIsRevoked'
  BY <1>2, <1>3 DEF StopWorker, Calm, WorkerInv, Outcome, Idle, AnsweredIsRevoked
<1>19. QED BY <1>4, <1>5, <1>6, <1>7, <1>8, <1>9, <1>10, <1>11, <1>12, <1>13, <1>14, <1>15,
     <1>16, <1>17, <1>18 DEF WorkerInv

\* The worker is labelled and stopped.
LEMMA QuarantineInv ==
  ASSUME WorkerInv, NEW p \in Products, Quarantine(p)
  PROVE  WorkerInv'
<1>1. Proceeds(p, {"revoke"})
  BY OpSteps
<1>2. Outcome(p, {"revoke"})
  BY <1>1, ProceedsOutcome
<1>3. Calm
  BY <1>2, StoppedCalm DEF Quarantine, WorkerInv
<1>4. TypeOK'
  <2>1. op' \in [Products -> Ops] /\ lock' \in [Workers -> Products \cup {None}]
    BY <1>1, ProceedsTypes DEF WorkerInv
  <2>2. QED BY <1>2, <2>1 DEF Quarantine, Outcome, Shape, WorkerInv, TypeOK, Stopped,
       Labelled, W, Idle, nodeVars
<1>5. ShapeInv'
  <2>1. Shape(op'[p])
    BY <1>2 DEF Quarantine, Outcome, StartHolds, Shape, Idle
  <2>2. QED BY <1>2, <2>1 DEF Outcome, WorkerInv, ShapeInv
<1>6. LockInv'
  <2>1. Locked(op'[p]) => Locked(op[p])
    BY <1>2 DEF Quarantine, Outcome, StartHolds, Shape, Idle, Locked
  <2>2. QED BY <1>1, <2>1, ProceedsLock
<1>7. KnownInv'
  <2>1. KnownAt(p)'
    BY <1>2, <1>3, LifecycleAssumption DEF Quarantine, Calm, WorkerInv, Outcome, StartHolds,
       Idle, TypeOK, KnownAt, Shape, JournalInv, KnownInv, W, Exists, Labelled
  <2>2. ASSUME NEW q \in Products \ {p} PROVE KnownAt(q)'
    BY <1>2, <1>3, LifecycleAssumption DEF Quarantine, Calm, WorkerInv, KnownAt, KnownInv,
       TypeOK, Outcome, Idle, ShapeInv, Shape, JournalInv, W, Exists, Labelled, StartHolds
  <2>3. QED BY <2>1, <2>2 DEF KnownInv
<1>8. JournalInv'
  BY <1>2, <1>3, LifecycleAssumption DEF Quarantine, Calm, WorkerInv, Outcome, Idle, JournalInv,
     TypeOK, ShapeInv, Shape, KnownInv, KnownAt, Exists, W, Labelled
<1>9. EarlyInv'
  <2>1. EarlyAt(p)'
    BY <1>2, <1>3, LifecycleAssumption DEF Quarantine, Calm, WorkerInv, Outcome, StartHolds,
       Idle, TypeOK, EarlyAt, EarlyInv, Early, W, Exists, Labelled
  <2>2. ASSUME NEW q \in Products \ {p} PROVE EarlyAt(q)'
    <3>1. Early(op[q]) => engine'[W(q)] = "none"
      BY <1>3 DEF Calm, WorkerInv, EarlyInv, EarlyAt, ShapeInv, Shape, Early, Idle, W
    <3>2. QED BY <1>2, <3>1, EarlyStays DEF Outcome, Idle
  <2>3. QED BY <2>1, <2>2 DEF EarlyInv
<1>10. StartInv'
  <2>1. StartAt(p)'
    BY <1>2, <1>3, LifecycleAssumption DEF Quarantine, Calm, WorkerInv, Outcome, StartHolds,
       Idle, TypeOK, StartAt, StartInv, Exists, W, Labelled
  <2>2. ASSUME NEW q \in Products \ {p} PROVE StartAt(q)'
    BY <1>2, <1>3, LifecycleAssumption DEF Quarantine, Calm, WorkerInv, StartAt, StartInv,
       TypeOK, Outcome, Idle, ShapeInv, Shape, LockInv, Locked, Exists, W, Labelled, StartHolds
  <2>3. QED BY <2>1, <2>2 DEF StartInv
<1>11. RemovalInv'
  <2>1. RemovalAt(p)'
    BY <1>2, <1>3, LifecycleAssumption DEF Quarantine, Calm, WorkerInv, Outcome, StartHolds,
       Idle, TypeOK, RemovalAt, Shape, EarlyInv, EarlyAt, Early, StartInv, StartAt, RemovalInv,
       W, Exists, Labelled
  <2>2. ASSUME NEW q \in Products \ {p} PROVE RemovalAt(q)'
    BY <1>2, <1>3, LifecycleAssumption DEF Quarantine, Calm, WorkerInv, RemovalAt, RemovalInv,
       TypeOK, Outcome, Idle, ShapeInv, Shape, EarlyInv, EarlyAt, Early, StartInv, StartAt, W,
       Exists, Labelled, StartHolds
  <2>3. QED BY <2>1, <2>2 DEF RemovalInv
<1>12. RevokedInv'
  <2>1. RevokedAt(p)'
    BY <1>2, <1>3, LifecycleAssumption DEF Quarantine, Calm, WorkerInv, Outcome, StartHolds,
       Idle, TypeOK, RevokedAt, RevokedInv, Past, W, Exists, Labelled
  <2>2. ASSUME NEW q \in Products \ {p} PROVE RevokedAt(q)'
    BY <1>2, <1>3, LifecycleAssumption DEF Quarantine, Calm, WorkerInv, RevokedAt, RevokedInv,
       TypeOK, Outcome, Past, W, Exists, Labelled, Shape, StartHolds
  <2>3. QED BY <2>1, <2>2 DEF RevokedInv
<1>13. RestoreInv'
  <2>1. RestoreAt(p)'
    BY <1>2, <1>3, LifecycleAssumption DEF Quarantine, Calm, WorkerInv, Outcome, StartHolds,
       Idle, TypeOK, RestoreAt, RestoreInv, W, Exists, Labelled
  <2>2. ASSUME NEW q \in Products \ {p} PROVE RestoreAt(q)'
    BY <1>2, <1>3, LifecycleAssumption DEF Quarantine, Calm, WorkerInv, RestoreAt, RestoreInv,
       TypeOK, Outcome, W, Exists, Labelled, Shape, StartHolds
  <2>3. QED BY <2>1, <2>2 DEF RestoreInv
<1>14. LabelInv'
  <2>1. LabelAt(p)'
    BY <1>2, <1>3, LifecycleAssumption DEF Quarantine, Calm, WorkerInv, Outcome, StartHolds,
       Idle, TypeOK, LabelAt, LabelInv, W, Exists, Labelled
  <2>2. ASSUME NEW q \in Products \ {p} PROVE LabelAt(q)'
    BY <1>2, <1>3, LifecycleAssumption DEF Quarantine, Calm, WorkerInv, LabelAt, LabelInv,
       TypeOK, Outcome, W, Exists, Labelled, Shape, StartHolds
  <2>3. QED BY <2>1, <2>2 DEF LabelInv
<1>15. MarkInv'
  BY <1>2, <1>3 DEF Quarantine, Calm, WorkerInv, Outcome, Idle, MarkInv, Exists, W, Labelled,
                    Live
<1>16. GoneInv'
  BY <1>2, <1>3 DEF Quarantine, Calm, WorkerInv, Outcome, Idle, GoneInv, Exists, W, Labelled
<1>17. WorkerKeepsResources'
  BY <1>2, <1>3 DEF Quarantine, Calm, WorkerInv, Outcome, Idle, WorkerKeepsResources, Exists, W,
                    Labelled, Live
<1>18. AnsweredIsRevoked'
  BY <1>2, <1>3 DEF Quarantine, Calm, WorkerInv, Outcome, Idle, AnsweredIsRevoked
<1>19. QED BY <1>4, <1>5, <1>6, <1>7, <1>8, <1>9, <1>10, <1>11, <1>12, <1>13, <1>14, <1>15,
     <1>16, <1>17, <1>18 DEF WorkerInv

\* The quarantine is confirmed.
LEMMA ConfirmInv ==
  ASSUME WorkerInv, NEW p \in Products, Confirm(p)
  PROVE  WorkerInv'
<1>1. Proceeds(p, {"dealloc"})
  BY OpSteps
<1>2. Outcome(p, {"dealloc"})
  BY <1>1, ProceedsOutcome
<1>3. TypeOK'
  <2>1. op' \in [Products -> Ops] /\ lock' \in [Workers -> Products \cup {None}]
    BY <1>1, ProceedsTypes DEF WorkerInv
  <2>2. QED BY <1>2, <2>1 DEF Confirm, Outcome, Shape, WorkerInv, TypeOK, Idle, nodeVars
<1>4. ShapeInv'
  <2>1. Shape(op'[p])
    BY <1>2 DEF Confirm, Outcome, StartHolds, Shape, Idle
  <2>2. QED BY <1>2, <2>1 DEF Outcome, WorkerInv, ShapeInv
<1>5. LockInv'
  <2>1. Locked(op'[p]) => Locked(op[p])
    BY <1>2 DEF Confirm, Outcome, StartHolds, Shape, Idle, Locked
  <2>2. QED BY <1>1, <2>1, ProceedsLock
<1>6. KnownInv'
  <2>1. KnownAt(p)'
    BY <1>2, LifecycleAssumption DEF Confirm, WorkerInv, Outcome, StartHolds, Idle, TypeOK,
       KnownAt, KnownInv, W, Exists, Live, nodeVars
  <2>2. ASSUME NEW q \in Products \ {p} PROVE KnownAt(q)'
    BY <1>2, LifecycleAssumption DEF Confirm, WorkerInv, KnownAt, KnownInv, TypeOK, Outcome, W,
       Exists, Live, Shape, StartHolds, nodeVars
  <2>3. QED BY <2>1, <2>2 DEF KnownInv
<1>7. EarlyInv'
  <2>1. EarlyAt(p)'
    BY <1>2, LifecycleAssumption DEF Confirm, WorkerInv, Outcome, StartHolds, Idle, TypeOK,
       EarlyAt, EarlyInv, Early, W, Exists, Live, nodeVars
  <2>2. ASSUME NEW q \in Products \ {p} PROVE EarlyAt(q)'
    <3>1. Early(op[q]) => engine'[W(q)] = "none"
      BY DEF Confirm, WorkerInv, TypeOK, EarlyInv, EarlyAt, nodeVars
    <3>2. QED BY <1>2, <3>1, EarlyStays DEF Outcome, Idle
  <2>3. QED BY <2>1, <2>2 DEF EarlyInv
<1>8. StartInv'
  <2>1. StartAt(p)'
    BY <1>2, LifecycleAssumption DEF Confirm, WorkerInv, Outcome, StartHolds, Idle, TypeOK,
       StartAt, StartInv, Exists, W, Live, nodeVars
  <2>2. ASSUME NEW q \in Products \ {p} PROVE StartAt(q)'
    BY <1>2, LifecycleAssumption DEF Confirm, WorkerInv, StartAt, StartInv, TypeOK, Outcome,
       Exists, W, Live, Shape, StartHolds, nodeVars
  <2>3. QED BY <2>1, <2>2 DEF StartInv
<1>9. RemovalInv'
  <2>1. RemovalAt(p)'
    BY <1>2, LifecycleAssumption DEF Confirm, WorkerInv, Outcome, StartHolds, Idle, TypeOK,
       RemovalAt, Shape, EarlyInv, EarlyAt, Early, StartInv, StartAt, RemovalInv, W, Exists,
       Live, nodeVars
  <2>2. ASSUME NEW q \in Products \ {p} PROVE RemovalAt(q)'
    BY <1>2, LifecycleAssumption DEF Confirm, WorkerInv, RemovalAt, RemovalInv, TypeOK, Outcome,
       W, Exists, Live, Shape, StartHolds, nodeVars
  <2>3. QED BY <2>1, <2>2 DEF RemovalInv
<1>10. RevokedInv'
  <2>1. RevokedAt(p)'
    BY <1>2, LifecycleAssumption DEF Confirm, WorkerInv, Outcome, StartHolds, Idle, TypeOK,
       RevokedAt, Shape, LockInv, Locked, RevokedInv, Past, W, Exists, Live, nodeVars
  <2>2. ASSUME NEW q \in Products \ {p} PROVE RevokedAt(q)'
    BY <1>2, LifecycleAssumption DEF Confirm, WorkerInv, RevokedAt, RevokedInv, TypeOK, Outcome,
       Past, W, Exists, Live, Shape, StartHolds, nodeVars
  <2>3. QED BY <2>1, <2>2 DEF RevokedInv
<1>11. RestoreInv'
  <2>1. RestoreAt(p)'
    BY <1>2, LifecycleAssumption DEF Confirm, WorkerInv, Outcome, StartHolds, Idle, TypeOK,
       RestoreAt, RestoreInv, W, Exists, Live, nodeVars
  <2>2. ASSUME NEW q \in Products \ {p} PROVE RestoreAt(q)'
    BY <1>2, LifecycleAssumption DEF Confirm, WorkerInv, RestoreAt, RestoreInv, TypeOK, Outcome,
       W, Exists, Live, Shape, StartHolds, nodeVars
  <2>3. QED BY <2>1, <2>2 DEF RestoreInv
<1>12. LabelInv'
  <2>1. LabelAt(p)'
    BY <1>2, LifecycleAssumption DEF Confirm, WorkerInv, Outcome, StartHolds, Idle, TypeOK,
       LabelAt, LabelInv, W, Exists, Live, nodeVars
  <2>2. ASSUME NEW q \in Products \ {p} PROVE LabelAt(q)'
    BY <1>2, LifecycleAssumption DEF Confirm, WorkerInv, LabelAt, LabelInv, TypeOK, Outcome, W,
       Exists, Live, Shape, StartHolds, nodeVars
  <2>3. QED BY <2>1, <2>2 DEF LabelInv
<1>13. JournalInv' /\ MarkInv' /\ GoneInv' /\ WorkerKeepsResources' /\ AnsweredIsRevoked'
  BY <1>2 DEF Confirm, WorkerInv, Outcome, Idle, JournalInv, MarkInv, GoneInv,
              WorkerKeepsResources, AnsweredIsRevoked, Live, Exists, nodeVars
<1>14. QED BY <1>3, <1>4, <1>5, <1>6, <1>7, <1>8, <1>9, <1>10, <1>11, <1>12, <1>13 DEF WorkerInv

\* The reservation is released.
LEMMA ReleaseInv ==
  ASSUME WorkerInv, NEW p \in Products, Release(p)
  PROVE  WorkerInv'
<1>1. \/ Proceeds(p, {})
      \/ op[p].kind = "remove" /\ Proceeds(p, {"forget"})
  BY OpSteps
<1>2. Outcome(p, IF op[p].kind = "remove" THEN {"forget"} ELSE {})
  BY <1>1, ProceedsOutcome DEF Outcome
<1>3. \/ UNCHANGED answered
      \/ /\ ~op[p].failed
         /\ \/ /\ op[p].kind = "stop"
               /\ answered' = [answered EXCEPT ![W(p)] = "stopped"]
            \/ /\ op[p].kind = "quarantine"
               /\ answered' = [answered EXCEPT ![W(p)] = "quarantined"]
  <2>1. op[p].kind \in {"start", "stop", "quarantine", "remove"}
    BY <1>2 DEF Release, Outcome, Shape, Idle
  <2>2. \/ UNCHANGED answered
        \/ op[p].kind = "stop" /\ Succeed(p, "stopped")
        \/ op[p].kind = "quarantine" /\ Succeed(p, "quarantined")
    BY <2>1 DEF Release
  <2>3. QED BY <2>2 DEF Succeed, MayReport
<1>4. TypeOK'
  <2>1. op' \in [Products -> Ops] /\ lock' \in [Workers -> Products \cup {None}]
    BY <1>1, ProceedsTypes DEF WorkerInv
  <2>2. QED BY <1>2, <1>3, <2>1 DEF Release, Outcome, Shape, WorkerInv, TypeOK, W, Idle,
       nodeVars
<1>5. ShapeInv'
  <2>1. Shape(op'[p])
    BY <1>2 DEF Release, Outcome, StartHolds, Shape, Idle
  <2>2. QED BY <1>2, <2>1 DEF Outcome, WorkerInv, ShapeInv
<1>6. LockInv'
  <2>1. Locked(op'[p]) => Locked(op[p])
    BY <1>2 DEF Release, Outcome, StartHolds, Shape, Idle, Locked
  <2>2. QED BY <1>1, <2>1, ProceedsLock
<1>7. KnownInv'
  <2>1. KnownAt(p)'
    BY <1>2, LifecycleAssumption DEF Release, WorkerInv, Outcome, StartHolds, Idle, TypeOK,
       KnownAt, KnownInv, W, Live, Succeed
  <2>2. ASSUME NEW q \in Products \ {p} PROVE KnownAt(q)'
    BY <1>2, LifecycleAssumption DEF Release, WorkerInv, KnownAt, KnownInv, TypeOK, Outcome, W,
       Live, Succeed, Shape, StartHolds
  <2>3. QED BY <2>1, <2>2 DEF KnownInv
<1>8. EarlyInv'
  <2>1. EarlyAt(p)'
    BY <1>2, LifecycleAssumption DEF Release, WorkerInv, Outcome, StartHolds, Idle, TypeOK,
       EarlyAt, EarlyInv, Early, W, Live, Succeed
  <2>2. ASSUME NEW q \in Products \ {p} PROVE EarlyAt(q)'
    <3>1. Early(op[q]) => engine'[W(q)] = "none"
      BY DEF Release, WorkerInv, TypeOK, EarlyInv, EarlyAt, nodeVars
    <3>2. QED BY <1>2, <3>1, EarlyStays DEF Outcome, Idle
  <2>3. QED BY <2>1, <2>2 DEF EarlyInv
<1>9. StartInv'
  <2>1. StartAt(p)'
    BY <1>2, LifecycleAssumption DEF Release, WorkerInv, Outcome, StartHolds, Idle, TypeOK,
       StartAt, StartInv, Exists, W, Live, Succeed
  <2>2. ASSUME NEW q \in Products \ {p} PROVE StartAt(q)'
    BY <1>2, LifecycleAssumption DEF Release, WorkerInv, StartAt, StartInv, TypeOK, Outcome,
       Exists, W, Live, Succeed, Shape, StartHolds
  <2>3. QED BY <2>1, <2>2 DEF StartInv
<1>10. RemovalInv'
  <2>1. RemovalAt(p)'
    BY <1>2, LifecycleAssumption DEF Release, WorkerInv, Outcome, StartHolds, Idle, TypeOK,
       RemovalAt, RemovalInv, W, Live, Succeed
  <2>2. ASSUME NEW q \in Products \ {p} PROVE RemovalAt(q)'
    BY <1>2, LifecycleAssumption DEF Release, WorkerInv, RemovalAt, RemovalInv, TypeOK, Outcome,
       W, Live, Succeed, Shape, StartHolds
  <2>3. QED BY <2>1, <2>2 DEF RemovalInv
<1>11. RevokedInv'
  <2>1. RevokedAt(p)'
    BY <1>2, <1>3, LifecycleAssumption DEF Release, WorkerInv, Outcome, StartHolds, Idle,
       TypeOK, RevokedAt, RevokedInv, Past, W, Live, Succeed
  <2>2. ASSUME NEW q \in Products \ {p} PROVE RevokedAt(q)'
    BY <1>2, <1>3, LifecycleAssumption DEF Release, WorkerInv, RevokedAt, RevokedInv, TypeOK,
       Outcome, Past, W, Live, Succeed, Shape, StartHolds
  <2>3. QED BY <2>1, <2>2 DEF RevokedInv
<1>12. RestoreInv'
  <2>1. RestoreAt(p)'
    BY <1>2, <1>3, LifecycleAssumption DEF Release, WorkerInv, Outcome, StartHolds, Idle,
       TypeOK, RestoreAt, RestoreInv, W, Live, Succeed
  <2>2. ASSUME NEW q \in Products \ {p} PROVE RestoreAt(q)'
    BY <1>2, <1>3, LifecycleAssumption DEF Release, WorkerInv, RestoreAt, RestoreInv, TypeOK,
       Outcome, Idle, ShapeInv, Shape, LockInv, Locked, W, Live, Succeed, MayReport, StartHolds
  <2>3. QED BY <2>1, <2>2 DEF RestoreInv
<1>13. LabelInv'
  <2>1. LabelAt(p)'
    BY <1>2, LifecycleAssumption DEF Release, WorkerInv, Outcome, StartHolds, Idle, TypeOK,
       LabelAt, LabelInv, W, Live, Succeed
  <2>2. ASSUME NEW q \in Products \ {p} PROVE LabelAt(q)'
    BY <1>2, LifecycleAssumption DEF Release, WorkerInv, LabelAt, LabelInv, TypeOK, Outcome, W,
       Live, Succeed, Shape, StartHolds
  <2>3. QED BY <2>1, <2>2 DEF LabelInv
<1>14. MarkInv'
  BY <1>2, <1>3, LifecycleAssumption DEF Release, WorkerInv, Outcome, Idle, MarkInv, TypeOK,
     ShapeInv, Shape, LabelInv, LabelAt, Live, W, Succeed, MayReport
<1>15. GoneInv'
  BY <1>2, <1>3, LifecycleAssumption DEF Release, WorkerInv, Outcome, Idle, GoneInv, TypeOK,
     ShapeInv, Shape, EarlyInv, EarlyAt, StartInv, StartAt, RemovalInv, RemovalAt, Live, W,
     Succeed, MayReport, Early, Exists
<1>16. WorkerKeepsResources'
  BY <1>2 DEF Release, WorkerInv, Outcome, Idle, WorkerKeepsResources, Live, W, Succeed, Exists
<1>17. AnsweredIsRevoked'
  BY <1>2, <1>3, LifecycleAssumption DEF Release, WorkerInv, Outcome, Idle, AnsweredIsRevoked,
     TypeOK, ShapeInv, Shape, RevokedInv, RestoreInv, RevokedAt, RestoreAt, Live, W, Succeed,
     MayReport, Past
<1>18. JournalInv'
  BY <1>2 DEF Release, WorkerInv, Outcome, Idle, JournalInv
<1>19. QED BY <1>4, <1>5, <1>6, <1>7, <1>8, <1>9, <1>10, <1>11, <1>12, <1>13, <1>14, <1>15,
     <1>16, <1>17, <1>18 DEF WorkerInv

\* A removal is recorded.
LEMMA WriteJournalInv ==
  ASSUME WorkerInv, NEW p \in Products, WriteJournal(p)
  PROVE  WorkerInv'
<1>1. Proceeds(p, {"delete"})
  BY OpSteps
<1>2. Outcome(p, {"delete"})
  BY <1>1, ProceedsOutcome
<1>3. TypeOK'
  <2>1. op' \in [Products -> Ops] /\ lock' \in [Workers -> Products \cup {None}]
    BY <1>1, ProceedsTypes DEF WorkerInv
  <2>2. QED BY <1>2, <2>1 DEF WriteJournal, Outcome, Shape, WorkerInv, TypeOK, W, Idle, nodeVars
<1>4. ShapeInv'
  <2>1. Shape(op'[p])
    BY <1>2 DEF WriteJournal, Outcome, StartHolds, Shape, Idle
  <2>2. QED BY <1>2, <2>1 DEF Outcome, WorkerInv, ShapeInv
<1>5. LockInv'
  <2>1. Locked(op'[p]) => Locked(op[p])
    BY <1>2 DEF WriteJournal, Outcome, StartHolds, Shape, Idle, Locked
  <2>2. QED BY <1>1, <2>1, ProceedsLock
<1>6. KnownInv'
  <2>1. KnownAt(p)'
    BY <1>2, LifecycleAssumption DEF WriteJournal, WorkerInv, Outcome, StartHolds, Idle, TypeOK,
       KnownAt, KnownInv, W, nodeVars
  <2>2. ASSUME NEW q \in Products \ {p} PROVE KnownAt(q)'
    BY <1>2, LifecycleAssumption DEF WriteJournal, WorkerInv, KnownAt, KnownInv, TypeOK,
       Outcome, W, Shape, StartHolds, nodeVars
  <2>3. QED BY <2>1, <2>2 DEF KnownInv
<1>7. JournalInv'
  BY <1>2, LifecycleAssumption DEF WriteJournal, WorkerInv, Outcome, Idle, JournalInv, TypeOK,
     ShapeInv, Shape, KnownInv, KnownAt, W, nodeVars
<1>8. EarlyInv'
  <2>1. EarlyAt(p)'
    BY <1>2, LifecycleAssumption DEF WriteJournal, WorkerInv, Outcome, StartHolds, Idle, TypeOK,
       EarlyAt, EarlyInv, Early, W, nodeVars
  <2>2. ASSUME NEW q \in Products \ {p} PROVE EarlyAt(q)'
    <3>1. Early(op[q]) => engine'[W(q)] = "none"
      BY DEF WriteJournal, WorkerInv, TypeOK, EarlyInv, EarlyAt, nodeVars
    <3>2. QED BY <1>2, <3>1, EarlyStays DEF Outcome, Idle
  <2>3. QED BY <2>1, <2>2 DEF EarlyInv
<1>9. StartInv'
  <2>1. StartAt(p)'
    BY <1>2, LifecycleAssumption DEF WriteJournal, WorkerInv, Outcome, StartHolds, Idle, TypeOK,
       StartAt, StartInv, Exists, W, nodeVars
  <2>2. ASSUME NEW q \in Products \ {p} PROVE StartAt(q)'
    BY <1>2, LifecycleAssumption DEF WriteJournal, WorkerInv, StartAt, StartInv, TypeOK,
       Outcome, Exists, W, Shape, StartHolds, nodeVars
  <2>3. QED BY <2>1, <2>2 DEF StartInv
<1>10. RemovalInv'
  <2>1. RemovalAt(p)'
    BY <1>2, LifecycleAssumption DEF WriteJournal, WorkerInv, Outcome, StartHolds, Idle, TypeOK,
       RemovalAt, RemovalInv, W, nodeVars
  <2>2. ASSUME NEW q \in Products \ {p} PROVE RemovalAt(q)'
    BY <1>2, LifecycleAssumption DEF WriteJournal, WorkerInv, RemovalAt, RemovalInv, TypeOK,
       Outcome, W, Shape, StartHolds, nodeVars
  <2>3. QED BY <2>1, <2>2 DEF RemovalInv
<1>11. RevokedInv'
  <2>1. RevokedAt(p)'
    BY <1>2, LifecycleAssumption DEF WriteJournal, WorkerInv, Outcome, StartHolds, Idle, TypeOK,
       RevokedAt, RevokedInv, Past, W, nodeVars
  <2>2. ASSUME NEW q \in Products \ {p} PROVE RevokedAt(q)'
    BY <1>2, LifecycleAssumption DEF WriteJournal, WorkerInv, RevokedAt, RevokedInv, TypeOK,
       Outcome, Past, W, Shape, StartHolds, nodeVars
  <2>3. QED BY <2>1, <2>2 DEF RevokedInv
<1>12. RestoreInv'
  <2>1. RestoreAt(p)'
    BY <1>2, LifecycleAssumption DEF WriteJournal, WorkerInv, Outcome, StartHolds, Idle, TypeOK,
       RestoreAt, RestoreInv, W, nodeVars
  <2>2. ASSUME NEW q \in Products \ {p} PROVE RestoreAt(q)'
    BY <1>2, LifecycleAssumption DEF WriteJournal, WorkerInv, RestoreAt, RestoreInv, TypeOK,
       Outcome, W, Shape, StartHolds, nodeVars
  <2>3. QED BY <2>1, <2>2 DEF RestoreInv
<1>13. LabelInv'
  <2>1. LabelAt(p)'
    BY <1>2, LifecycleAssumption DEF WriteJournal, WorkerInv, Outcome, StartHolds, Idle, TypeOK,
       LabelAt, LabelInv, W, nodeVars
  <2>2. ASSUME NEW q \in Products \ {p} PROVE LabelAt(q)'
    BY <1>2, LifecycleAssumption DEF WriteJournal, WorkerInv, LabelAt, LabelInv, TypeOK,
       Outcome, W, Shape, StartHolds, nodeVars
  <2>3. QED BY <2>1, <2>2 DEF LabelInv
<1>14. MarkInv' /\ GoneInv' /\ WorkerKeepsResources' /\ AnsweredIsRevoked'
  BY <1>2 DEF WriteJournal, WorkerInv, Outcome, Idle, MarkInv, GoneInv, WorkerKeepsResources,
              AnsweredIsRevoked, Live, Exists, nodeVars
<1>15. QED BY <1>3, <1>4, <1>5, <1>6, <1>7, <1>8, <1>9, <1>10, <1>11, <1>12, <1>13, <1>14 DEF
     WorkerInv

\* The worker is deleted.
LEMMA DeleteWorkerInv ==
  ASSUME WorkerInv, NEW p \in Products, DeleteWorker(p)
  PROVE  WorkerInv'
<1>1. Proceeds(p, {"revoke"})
  BY OpSteps
<1>2. Outcome(p, {"revoke"})
  BY <1>1, ProceedsOutcome
<1>3. TypeOK'
  <2>1. op' \in [Products -> Ops] /\ lock' \in [Workers -> Products \cup {None}]
    BY <1>1, ProceedsTypes DEF WorkerInv
  <2>2. QED BY <1>2, <2>1 DEF DeleteWorker, Outcome, Shape, WorkerInv, TypeOK, W, Idle, nodeVars
<1>4. ShapeInv'
  <2>1. Shape(op'[p])
    BY <1>2 DEF DeleteWorker, Outcome, StartHolds, Shape, Idle
  <2>2. QED BY <1>2, <2>1 DEF Outcome, WorkerInv, ShapeInv
<1>5. LockInv'
  <2>1. Locked(op'[p]) => Locked(op[p])
    BY <1>2 DEF DeleteWorker, Outcome, StartHolds, Shape, Idle, Locked
  <2>2. QED BY <1>1, <2>1, ProceedsLock
<1>6. KnownInv'
  <2>1. KnownAt(p)'
    BY <1>2, LifecycleAssumption DEF DeleteWorker, WorkerInv, Outcome, StartHolds, Idle, TypeOK,
       KnownAt, KnownInv, W
  <2>2. ASSUME NEW q \in Products \ {p} PROVE KnownAt(q)'
    BY <1>2, LifecycleAssumption DEF DeleteWorker, WorkerInv, KnownAt, KnownInv, TypeOK,
       Outcome, W, Shape, StartHolds
  <2>3. QED BY <2>1, <2>2 DEF KnownInv
<1>7. JournalInv'
  BY <1>2 DEF DeleteWorker, WorkerInv, Outcome, Idle, JournalInv, W
<1>8. EarlyInv'
  <2>1. EarlyAt(p)'
    BY <1>2, LifecycleAssumption DEF DeleteWorker, WorkerInv, Outcome, StartHolds, Idle, TypeOK,
       EarlyAt, EarlyInv, Early, W
  <2>2. ASSUME NEW q \in Products \ {p} PROVE EarlyAt(q)'
    <3>1. Early(op[q]) => engine'[W(q)] = "none"
      BY DEF DeleteWorker, WorkerInv, TypeOK, EarlyInv, EarlyAt, KnownInv, KnownAt, W, nodeVars
    <3>2. QED BY <1>2, <3>1, EarlyStays DEF Outcome, Idle
  <2>3. QED BY <2>1, <2>2 DEF EarlyInv
<1>9. StartInv'
  <2>1. StartAt(p)'
    BY <1>2, LifecycleAssumption DEF DeleteWorker, WorkerInv, Outcome, StartHolds, Idle, TypeOK,
       StartAt, StartInv, Exists, W
  <2>2. ASSUME NEW q \in Products \ {p} PROVE StartAt(q)'
    BY <1>2, LifecycleAssumption DEF DeleteWorker, WorkerInv, StartAt, StartInv, TypeOK,
       Outcome, Idle, ShapeInv, Shape, LockInv, Locked, Exists, W, StartHolds
  <2>3. QED BY <2>1, <2>2 DEF StartInv
<1>10. RemovalInv'
  <2>1. RemovalAt(p)'
    BY <1>2, LifecycleAssumption DEF DeleteWorker, WorkerInv, Outcome, StartHolds, Idle, TypeOK,
       RemovalAt, Shape, EarlyInv, EarlyAt, Early, StartInv, StartAt, RemovalInv, W, Exists
  <2>2. ASSUME NEW q \in Products \ {p} PROVE RemovalAt(q)'
    BY <1>2, LifecycleAssumption DEF DeleteWorker, WorkerInv, RemovalAt, RemovalInv, TypeOK,
       Outcome, W, Shape, StartHolds
  <2>3. QED BY <2>1, <2>2 DEF RemovalInv
<1>11. RevokedInv'
  <2>1. RevokedAt(p)'
    BY <1>2, LifecycleAssumption DEF DeleteWorker, WorkerInv, Outcome, StartHolds, Idle, TypeOK,
       RevokedAt, RevokedInv, Past, W
  <2>2. ASSUME NEW q \in Products \ {p} PROVE RevokedAt(q)'
    BY <1>2, LifecycleAssumption DEF DeleteWorker, WorkerInv, RevokedAt, RevokedInv, TypeOK,
       Outcome, Past, W, Shape, StartHolds
  <2>3. QED BY <2>1, <2>2 DEF RevokedInv
<1>12. RestoreInv'
  <2>1. RestoreAt(p)'
    BY <1>2, LifecycleAssumption DEF DeleteWorker, WorkerInv, Outcome, StartHolds, Idle, TypeOK,
       RestoreAt, RestoreInv, W
  <2>2. ASSUME NEW q \in Products \ {p} PROVE RestoreAt(q)'
    BY <1>2, LifecycleAssumption DEF DeleteWorker, WorkerInv, RestoreAt, RestoreInv, TypeOK,
       Outcome, W, Shape, StartHolds
  <2>3. QED BY <2>1, <2>2 DEF RestoreInv
<1>13. LabelInv'
  <2>1. LabelAt(p)'
    BY <1>2, LifecycleAssumption DEF DeleteWorker, WorkerInv, Outcome, StartHolds, Idle, TypeOK,
       LabelAt, LabelInv, W
  <2>2. ASSUME NEW q \in Products \ {p} PROVE LabelAt(q)'
    BY <1>2, LifecycleAssumption DEF DeleteWorker, WorkerInv, LabelAt, LabelInv, TypeOK,
       Outcome, W, Shape, StartHolds
  <2>3. QED BY <2>1, <2>2 DEF LabelInv
<1>14. MarkInv'
  BY <1>2 DEF DeleteWorker, WorkerInv, Outcome, Idle, MarkInv, W, Live
<1>15. GoneInv'
  BY <1>2 DEF DeleteWorker, WorkerInv, Outcome, Idle, GoneInv, W
<1>16. WorkerKeepsResources'
  BY <1>2 DEF DeleteWorker, WorkerInv, Outcome, Idle, WorkerKeepsResources, W, Exists, Live
<1>17. AnsweredIsRevoked'
  BY <1>2 DEF DeleteWorker, WorkerInv, Outcome, Idle, AnsweredIsRevoked
<1>18. QED BY <1>3, <1>4, <1>5, <1>6, <1>7, <1>8, <1>9, <1>10, <1>11, <1>12, <1>13, <1>14,
     <1>15, <1>16, <1>17 DEF WorkerInv

\* Its network goes.
LEMMA RemoveNetworkInv ==
  ASSUME WorkerInv, NEW p \in Products, RemoveNetwork(p)
  PROVE  WorkerInv'
<1>1. Proceeds(p, {"dealloc"})
  BY OpSteps
<1>2. Outcome(p, {"dealloc"})
  BY <1>1, ProceedsOutcome
<1>3. TypeOK'
  <2>1. op' \in [Products -> Ops] /\ lock' \in [Workers -> Products \cup {None}]
    BY <1>1, ProceedsTypes DEF WorkerInv
  <2>2. QED BY <1>2, <2>1 DEF RemoveNetwork, Outcome, Shape, WorkerInv, TypeOK, NetworkOf, W,
       Idle, nodeVars
<1>4. ShapeInv'
  <2>1. Shape(op'[p])
    BY <1>2 DEF RemoveNetwork, Outcome, StartHolds, Shape, Idle
  <2>2. QED BY <1>2, <2>1 DEF Outcome, WorkerInv, ShapeInv
<1>5. LockInv'
  <2>1. Locked(op'[p]) => Locked(op[p])
    BY <1>2 DEF RemoveNetwork, Outcome, StartHolds, Shape, Idle, Locked
  <2>2. QED BY <1>1, <2>1, ProceedsLock
<1>6. KnownInv'
  <2>1. KnownAt(p)'
    BY <1>2, LifecycleAssumption DEF RemoveNetwork, WorkerInv, Outcome, StartHolds, Idle,
       TypeOK, KnownAt, KnownInv, W, Exists, NetworkOf
  <2>2. ASSUME NEW q \in Products \ {p} PROVE KnownAt(q)'
    BY <1>2, LifecycleAssumption DEF RemoveNetwork, WorkerInv, KnownAt, KnownInv, TypeOK,
       Outcome, W, Exists, NetworkOf, Shape, StartHolds
  <2>3. QED BY <2>1, <2>2 DEF KnownInv
<1>7. EarlyInv'
  <2>1. EarlyAt(p)'
    BY <1>2, LifecycleAssumption DEF RemoveNetwork, WorkerInv, Outcome, StartHolds, Idle,
       TypeOK, EarlyAt, EarlyInv, Early, W, Exists, NetworkOf
  <2>2. ASSUME NEW q \in Products \ {p} PROVE EarlyAt(q)'
    <3>1. Early(op[q]) => engine'[W(q)] = "none"
      BY DEF RemoveNetwork, WorkerInv, TypeOK, EarlyInv, EarlyAt, nodeVars
    <3>2. QED BY <1>2, <3>1, EarlyStays DEF Outcome, Idle
  <2>3. QED BY <2>1, <2>2 DEF EarlyInv
<1>8. StartInv'
  <2>1. StartAt(p)'
    BY <1>2, LifecycleAssumption DEF RemoveNetwork, WorkerInv, Outcome, StartHolds, Idle,
       TypeOK, StartAt, StartInv, Exists, W, NetworkOf
  <2>2. ASSUME NEW q \in Products \ {p} PROVE StartAt(q)'
    BY <1>2, LifecycleAssumption DEF RemoveNetwork, WorkerInv, StartAt, StartInv, TypeOK,
       Outcome, Exists, W, NetworkOf, Shape, StartHolds
  <2>3. QED BY <2>1, <2>2 DEF StartInv
<1>9. RemovalInv'
  <2>1. RemovalAt(p)'
    BY <1>2, LifecycleAssumption DEF RemoveNetwork, WorkerInv, Outcome, StartHolds, Idle,
       TypeOK, RemovalAt, Shape, EarlyInv, EarlyAt, Early, StartInv, StartAt, RemovalInv, W,
       Exists, NetworkOf
  <2>2. ASSUME NEW q \in Products \ {p} PROVE RemovalAt(q)'
    BY <1>2, LifecycleAssumption DEF RemoveNetwork, WorkerInv, RemovalAt, RemovalInv, TypeOK,
       Outcome, Idle, ShapeInv, Shape, EarlyInv, EarlyAt, Early, StartInv, StartAt, W, Exists,
       NetworkOf, StartHolds
  <2>3. QED BY <2>1, <2>2 DEF RemovalInv
<1>10. RevokedInv'
  <2>1. RevokedAt(p)'
    BY <1>2, LifecycleAssumption DEF RemoveNetwork, WorkerInv, Outcome, StartHolds, Idle,
       TypeOK, RevokedAt, Shape, LockInv, Locked, RevokedInv, Past, W, Exists, NetworkOf
  <2>2. ASSUME NEW q \in Products \ {p} PROVE RevokedAt(q)'
    BY <1>2, LifecycleAssumption DEF RemoveNetwork, WorkerInv, RevokedAt, RevokedInv, TypeOK,
       Outcome, Past, W, Exists, NetworkOf, Shape, StartHolds
  <2>3. QED BY <2>1, <2>2 DEF RevokedInv
<1>11. RestoreInv'
  <2>1. RestoreAt(p)'
    BY <1>2, LifecycleAssumption DEF RemoveNetwork, WorkerInv, Outcome, StartHolds, Idle,
       TypeOK, RestoreAt, RestoreInv, W, Exists, NetworkOf
  <2>2. ASSUME NEW q \in Products \ {p} PROVE RestoreAt(q)'
    BY <1>2, LifecycleAssumption DEF RemoveNetwork, WorkerInv, RestoreAt, RestoreInv, TypeOK,
       Outcome, W, Exists, NetworkOf, Shape, StartHolds
  <2>3. QED BY <2>1, <2>2 DEF RestoreInv
<1>12. LabelInv'
  <2>1. LabelAt(p)'
    BY <1>2, LifecycleAssumption DEF RemoveNetwork, WorkerInv, Outcome, StartHolds, Idle,
       TypeOK, LabelAt, Shape, LabelInv, W, Exists, NetworkOf
  <2>2. ASSUME NEW q \in Products \ {p} PROVE LabelAt(q)'
    BY <1>2, LifecycleAssumption DEF RemoveNetwork, WorkerInv, LabelAt, LabelInv, TypeOK,
       Outcome, W, Exists, NetworkOf, Shape, StartHolds
  <2>3. QED BY <2>1, <2>2 DEF LabelInv
<1>13. GoneInv'
  BY <1>2, LifecycleAssumption DEF RemoveNetwork, WorkerInv, Outcome, Idle, GoneInv, TypeOK,
     ShapeInv, Shape, EarlyInv, EarlyAt, StartInv, StartAt, RemovalInv, RemovalAt, Exists, W,
     NetworkOf, Early
<1>14. WorkerKeepsResources'
  BY <1>2 DEF RemoveNetwork, WorkerInv, Outcome, Idle, WorkerKeepsResources, Exists, W,
              NetworkOf, Live
<1>15. JournalInv' /\ MarkInv' /\ AnsweredIsRevoked'
  BY <1>2 DEF RemoveNetwork, WorkerInv, Outcome, Idle, JournalInv, MarkInv, AnsweredIsRevoked,
              Live
<1>16. QED BY <1>3, <1>4, <1>5, <1>6, <1>7, <1>8, <1>9, <1>10, <1>11, <1>12, <1>13, <1>14,
     <1>15 DEF WorkerInv

\* The removal is complete.
LEMMA ForgetInv ==
  ASSUME WorkerInv, NEW p \in Products, Forget(p)
  PROVE  WorkerInv'
<1>1. Proceeds(p, {})
  BY OpSteps
<1>2. Outcome(p, {})
  BY <1>1, ProceedsOutcome
<1>3. \/ UNCHANGED answered
      \/ /\ ~op[p].failed /\ op[p].kind = "remove"
         /\ answered' = [answered EXCEPT ![W(p)] = "removed"]
  BY <1>2 DEF Forget, Succeed, MayReport, Outcome, Shape, Idle
<1>4. TypeOK'
  <2>1. op' \in [Products -> Ops] /\ lock' \in [Workers -> Products \cup {None}]
    BY <1>1, ProceedsTypes DEF WorkerInv
  <2>2. QED BY <1>2, <1>3, <2>1 DEF Forget, Outcome, Shape, WorkerInv, TypeOK, W, Idle, nodeVars
<1>5. ShapeInv'
  <2>1. Shape(op'[p])
    BY <1>2 DEF Forget, Outcome, StartHolds, Shape, Idle
  <2>2. QED BY <1>2, <2>1 DEF Outcome, WorkerInv, ShapeInv
<1>6. LockInv'
  <2>1. Locked(op'[p]) => Locked(op[p])
    BY <1>2 DEF Forget, Outcome, StartHolds, Shape, Idle, Locked
  <2>2. QED BY <1>1, <2>1, ProceedsLock
<1>7. KnownInv'
  <2>1. KnownAt(p)'
    BY <1>2, LifecycleAssumption DEF Forget, WorkerInv, Outcome, StartHolds, Idle, TypeOK,
       KnownAt, KnownInv, W, Succeed, nodeVars
  <2>2. ASSUME NEW q \in Products \ {p} PROVE KnownAt(q)'
    BY <1>2, LifecycleAssumption DEF Forget, WorkerInv, KnownAt, KnownInv, TypeOK, Outcome, W,
       Succeed, Shape, StartHolds, nodeVars
  <2>3. QED BY <2>1, <2>2 DEF KnownInv
<1>8. JournalInv'
  BY <1>2 DEF Forget, WorkerInv, Outcome, Idle, JournalInv, W, Succeed, nodeVars
<1>9. EarlyInv'
  <2>1. EarlyAt(p)'
    BY <1>2, LifecycleAssumption DEF Forget, WorkerInv, Outcome, StartHolds, Idle, TypeOK,
       EarlyAt, EarlyInv, Early, W, Succeed, nodeVars
  <2>2. ASSUME NEW q \in Products \ {p} PROVE EarlyAt(q)'
    <3>1. Early(op[q]) => engine'[W(q)] = "none"
      BY DEF Forget, WorkerInv, TypeOK, EarlyInv, EarlyAt, nodeVars
    <3>2. QED BY <1>2, <3>1, EarlyStays DEF Outcome, Idle
  <2>3. QED BY <2>1, <2>2 DEF EarlyInv
<1>10. StartInv'
  <2>1. StartAt(p)'
    BY <1>2, LifecycleAssumption DEF Forget, WorkerInv, Outcome, StartHolds, Idle, TypeOK,
       StartAt, StartInv, Exists, W, Succeed, nodeVars
  <2>2. ASSUME NEW q \in Products \ {p} PROVE StartAt(q)'
    BY <1>2, LifecycleAssumption DEF Forget, WorkerInv, StartAt, StartInv, TypeOK, Outcome,
       Exists, W, Succeed, Shape, StartHolds, nodeVars
  <2>3. QED BY <2>1, <2>2 DEF StartInv
<1>11. RemovalInv'
  <2>1. RemovalAt(p)'
    BY <1>2, LifecycleAssumption DEF Forget, WorkerInv, Outcome, StartHolds, Idle, TypeOK,
       RemovalAt, RemovalInv, W, Succeed, nodeVars
  <2>2. ASSUME NEW q \in Products \ {p} PROVE RemovalAt(q)'
    BY <1>2, LifecycleAssumption DEF Forget, WorkerInv, RemovalAt, RemovalInv, TypeOK, Outcome,
       W, Succeed, Shape, StartHolds, nodeVars
  <2>3. QED BY <2>1, <2>2 DEF RemovalInv
<1>12. RevokedInv'
  <2>1. RevokedAt(p)'
    BY <1>2, <1>3, LifecycleAssumption DEF Forget, WorkerInv, Outcome, StartHolds, Idle, TypeOK,
       RevokedAt, RevokedInv, Past, W, Succeed, nodeVars
  <2>2. ASSUME NEW q \in Products \ {p} PROVE RevokedAt(q)'
    BY <1>2, <1>3, LifecycleAssumption DEF Forget, WorkerInv, RevokedAt, RevokedInv, TypeOK,
       Outcome, Past, W, Succeed, Shape, StartHolds, nodeVars
  <2>3. QED BY <2>1, <2>2 DEF RevokedInv
<1>13. RestoreInv'
  <2>1. RestoreAt(p)'
    BY <1>2, <1>3, LifecycleAssumption DEF Forget, WorkerInv, Outcome, StartHolds, Idle, TypeOK,
       RestoreAt, RestoreInv, W, Succeed, nodeVars
  <2>2. ASSUME NEW q \in Products \ {p} PROVE RestoreAt(q)'
    BY <1>2, <1>3, LifecycleAssumption DEF Forget, WorkerInv, RestoreAt, RestoreInv, TypeOK,
       Outcome, Idle, ShapeInv, Shape, LockInv, Locked, W, Succeed, MayReport, StartHolds,
       nodeVars
  <2>3. QED BY <2>1, <2>2 DEF RestoreInv
<1>14. LabelInv'
  <2>1. LabelAt(p)'
    BY <1>2, LifecycleAssumption DEF Forget, WorkerInv, Outcome, StartHolds, Idle, TypeOK,
       LabelAt, LabelInv, W, Succeed, nodeVars
  <2>2. ASSUME NEW q \in Products \ {p} PROVE LabelAt(q)'
    BY <1>2, LifecycleAssumption DEF Forget, WorkerInv, LabelAt, LabelInv, TypeOK, Outcome, W,
       Succeed, Shape, StartHolds, nodeVars
  <2>3. QED BY <2>1, <2>2 DEF LabelInv
<1>15. MarkInv'
  BY <1>2, <1>3, LifecycleAssumption DEF Forget, WorkerInv, Outcome, Idle, MarkInv, TypeOK,
     ShapeInv, Shape, LabelInv, LabelAt, W, Succeed, MayReport, Live, nodeVars
<1>16. GoneInv'
  BY <1>2, <1>3, LifecycleAssumption DEF Forget, WorkerInv, Outcome, Idle, GoneInv, TypeOK,
     ShapeInv, Shape, EarlyInv, EarlyAt, StartInv, StartAt, RemovalInv, RemovalAt, W, Succeed,
     MayReport, Early, Exists, nodeVars
<1>17. AnsweredIsRevoked'
  BY <1>2, <1>3, LifecycleAssumption DEF Forget, WorkerInv, Outcome, Idle, AnsweredIsRevoked,
     TypeOK, ShapeInv, Shape, RevokedInv, RestoreInv, RevokedAt, RestoreAt, W, Succeed,
     MayReport, Past, nodeVars
<1>18. WorkerKeepsResources'
  BY <1>2 DEF Forget, WorkerInv, Outcome, Idle, WorkerKeepsResources, Exists, Live, nodeVars
<1>19. QED BY <1>4, <1>5, <1>6, <1>7, <1>8, <1>9, <1>10, <1>11, <1>12, <1>13, <1>14, <1>15,
     <1>16, <1>17, <1>18 DEF WorkerInv

\* The engine starts a worker.
LEMMA EngineStartsInv ==
  ASSUME WorkerInv, NEW w \in Workers, EngineStarts(w)
  PROVE  WorkerInv'
<1>1. /\ UNCHANGED lock /\ op' \in [Products -> Ops]
      /\ \A q \in Products :
           /\ op'[q].kind = op[q].kind /\ op'[q].worker = op[q].worker
           /\ op'[q].failed = op[q].failed
           /\ IF op[q].worker = w /\ op[q].step = "starting" THEN op'[q].step = "verify"
                                                        ELSE op'[q] = op[q]
  <2>1. \A q \in Products : op[q] \in Ops /\ [op[q] EXCEPT !.step = "verify"] \in Ops
    BY DEF WorkerInv, TypeOK, Ops, Steps
  <2>2. QED BY <2>1 DEF EngineStarts, Accept, Waiting, W, Ops
<1>2. TypeOK'
  BY <1>1, LifecycleAssumption DEF EngineStarts, Idle, WorkerInv, TypeOK, ShapeInv, Shape,
     Handle, ExecutionAllowed, Exists, Live
<1>3. ShapeInv'
  BY <1>1 DEF EngineStarts, Idle, WorkerInv, ShapeInv, TypeOK, Shape, Handle, ExecutionAllowed,
              Exists, Live
<1>4. LockInv'
  BY <1>1, LifecycleAssumption DEF EngineStarts, Idle, WorkerInv, LockInv, TypeOK, ShapeInv,
     Shape, Handle, ExecutionAllowed, Exists, Live, Locked, W
<1>5. KnownInv'
  BY <1>1, LifecycleAssumption DEF EngineStarts, Idle, WorkerInv, KnownInv, TypeOK, ShapeInv,
     Shape, JournalInv, Handle, ExecutionAllowed, Exists, Live, KnownAt, W
<1>6. JournalInv'
  BY <1>1 DEF EngineStarts, Idle, WorkerInv, JournalInv, Handle, ExecutionAllowed, Exists, Live
<1>7. EarlyInv'
  BY <1>1, LifecycleAssumption DEF EngineStarts, Idle, WorkerInv, EarlyInv, TypeOK, ShapeInv,
     Shape, JournalInv, Handle, ExecutionAllowed, Exists, Live, EarlyAt, Early, W
<1>8. StartInv'
  BY <1>1, LifecycleAssumption DEF EngineStarts, Idle, WorkerInv, StartInv, TypeOK, ShapeInv,
     Shape, LockInv, Locked, Handle, ExecutionAllowed, Exists, Live, StartAt, W
<1>9. RemovalInv'
  BY <1>1, LifecycleAssumption DEF EngineStarts, Idle, WorkerInv, RemovalInv, TypeOK, ShapeInv,
     Shape, EarlyInv, EarlyAt, Early, StartInv, StartAt, Handle, ExecutionAllowed, Exists, Live,
     RemovalAt, W
<1>10. RevokedInv'
  BY <1>1, LifecycleAssumption DEF EngineStarts, Idle, WorkerInv, RevokedInv, TypeOK, ShapeInv,
     Shape, LockInv, Locked, Handle, ExecutionAllowed, Exists, Live, RevokedAt, Past, W
<1>11. RestoreInv'
  BY <1>1, LifecycleAssumption DEF EngineStarts, Idle, WorkerInv, RestoreInv, TypeOK, ShapeInv,
     Shape, LockInv, Locked, Handle, ExecutionAllowed, Exists, Live, RestoreAt, W
<1>12. LabelInv'
  BY <1>1, LifecycleAssumption DEF EngineStarts, Idle, WorkerInv, LabelInv, TypeOK, ShapeInv,
     Shape, Handle, ExecutionAllowed, Exists, Live, LabelAt, W
<1>13. MarkInv'
  BY <1>1 DEF EngineStarts, Idle, WorkerInv, MarkInv, Handle, ExecutionAllowed, Exists, Live
<1>14. GoneInv'
  BY <1>1 DEF EngineStarts, Idle, WorkerInv, GoneInv, Handle, ExecutionAllowed, Exists, Live
<1>15. WorkerKeepsResources'
  BY <1>1 DEF EngineStarts, Idle, WorkerInv, WorkerKeepsResources, Handle, ExecutionAllowed,
              Exists, Live
<1>16. AnsweredIsRevoked'
  BY <1>1 DEF EngineStarts, Idle, WorkerInv, AnsweredIsRevoked
<1>17. QED BY <1>2, <1>3, <1>4, <1>5, <1>6, <1>7, <1>8, <1>9, <1>10, <1>11, <1>12, <1>13,
     <1>14, <1>15, <1>16 DEF WorkerInv

\* The proxy restores a placeholder.
LEMMA ProxyRestoresInv ==
  ASSUME WorkerInv, NEW w \in Workers, ProxyRestores(w)
  PROVE  WorkerInv'
<1>1. /\ UNCHANGED lock /\ op' \in [Products -> Ops]
      /\ \A q \in Products :
           /\ op'[q].kind = op[q].kind /\ op'[q].worker = op[q].worker
           /\ op'[q].failed = op[q].failed
           /\ IF op[q].worker = w /\ op[q].step = "restoring" THEN op'[q].step = "release"
                                                        ELSE op'[q] = op[q]
  <2>1. \A q \in Products : op[q] \in Ops /\ [op[q] EXCEPT !.step = "release"] \in Ops
    BY DEF WorkerInv, TypeOK, Ops, Steps
  <2>2. QED BY <2>1 DEF ProxyRestores, Accept, Waiting, W, Ops
<1>2. TypeOK'
  BY <1>1, LifecycleAssumption DEF ProxyRestores, Idle, WorkerInv, TypeOK, ShapeInv, Shape,
     Handle, Waiting, W, nodeVars
<1>3. ShapeInv'
  BY <1>1 DEF ProxyRestores, Idle, WorkerInv, ShapeInv, TypeOK, Shape, Handle, Waiting, W,
              nodeVars
<1>4. LockInv'
  BY <1>1, LifecycleAssumption DEF ProxyRestores, Idle, WorkerInv, LockInv, TypeOK, ShapeInv,
     Shape, Handle, Waiting, W, Locked, nodeVars
<1>5. KnownInv'
  BY <1>1, LifecycleAssumption DEF ProxyRestores, Idle, WorkerInv, KnownInv, TypeOK, ShapeInv,
     Shape, JournalInv, Handle, Waiting, W, KnownAt, nodeVars
<1>6. EarlyInv'
  BY <1>1, LifecycleAssumption DEF ProxyRestores, Idle, WorkerInv, EarlyInv, TypeOK, ShapeInv,
     Shape, JournalInv, Handle, Waiting, W, EarlyAt, Early, nodeVars
<1>7. StartInv'
  BY <1>1, LifecycleAssumption DEF ProxyRestores, Idle, WorkerInv, StartInv, TypeOK, ShapeInv,
     Shape, LockInv, Locked, Handle, Waiting, W, StartAt, Exists, nodeVars
<1>8. RemovalInv'
  BY <1>1, LifecycleAssumption DEF ProxyRestores, Idle, WorkerInv, RemovalInv, TypeOK, ShapeInv,
     Shape, EarlyInv, EarlyAt, Early, StartInv, StartAt, Handle, Waiting, W, RemovalAt, Exists,
     nodeVars
<1>9. RevokedInv'
  <2> SUFFICES ASSUME NEW q \in Products, Past(op'[q]), ~op'[q].failed, w = op'[q].worker
               PROVE  late'
    BY DEF ProxyRestores, RevokedInv, RevokedAt, W
  <2>1. op'[q] = op[q]
    BY <1>1 DEF Past
  <2>2. lock[w] = q
    BY <2>1 DEF WorkerInv, LockInv, Locked, Past, W
  <2>3. \A r \in Products : op[r].worker = w /\ op[r].step = "restoring" => lock[w] = r
    BY DEF WorkerInv, ShapeInv, Shape, Idle, LockInv, Locked, W
  <2>4. op[q].step # "restoring"
    BY <2>1 DEF Past
  <2>5. QED BY <2>2, <2>3, <2>4 DEF ProxyRestores, Waiting, W
<1>10. RestoreInv'
  BY <1>1, LifecycleAssumption DEF ProxyRestores, Idle, WorkerInv, RestoreInv, TypeOK, ShapeInv,
     Shape, LockInv, Locked, Handle, Waiting, W, RestoreAt, nodeVars
<1>11. LabelInv'
  BY <1>1, LifecycleAssumption DEF ProxyRestores, Idle, WorkerInv, LabelInv, TypeOK, ShapeInv,
     Shape, Handle, Waiting, W, LabelAt, nodeVars
<1>12. AnsweredIsRevoked'
  <2> SUFFICES ASSUME NEW r \in Waiting(w, "restoring")
               PROVE  answered[w] = "none"
    BY DEF ProxyRestores, AnsweredIsRevoked
  <2>1. QED BY DEF Waiting, WorkerInv, RestoreInv, RestoreAt, W
<1>13. JournalInv' /\ MarkInv' /\ GoneInv' /\ WorkerKeepsResources'
  BY <1>1 DEF ProxyRestores, Idle, WorkerInv, JournalInv, MarkInv, GoneInv,
              WorkerKeepsResources, Live, Exists, nodeVars
<1>14. QED BY <1>2, <1>3, <1>4, <1>5, <1>6, <1>7, <1>8, <1>9, <1>10, <1>11, <1>12, <1>13 DEF
     WorkerInv

\* A worker ends.
LEMMA WorkerExitsInv ==
  ASSUME WorkerInv, NEW w \in Workers, WorkerExits(w)
  PROVE  WorkerInv'
<1>1. Calm
  BY DEF WorkerExits, WorkerInv, TypeOK, Calm, Live
<1>2. TypeOK'
  BY <1>1 DEF WorkerExits, Calm, WorkerInv, TypeOK, Live
<1>3. KnownInv'
  BY <1>1, LifecycleAssumption DEF WorkerExits, Calm, WorkerInv, KnownInv, TypeOK, ShapeInv,
     Shape, JournalInv, Live, KnownAt, W
<1>4. JournalInv'
  BY <1>1 DEF WorkerExits, Calm, WorkerInv, JournalInv, Live
<1>5. EarlyInv'
  BY <1>1, LifecycleAssumption DEF WorkerExits, Calm, WorkerInv, EarlyInv, TypeOK, ShapeInv,
     Shape, JournalInv, Live, EarlyAt, Early, W
<1>6. StartInv'
  BY <1>1, LifecycleAssumption DEF WorkerExits, Calm, WorkerInv, StartInv, TypeOK, ShapeInv,
     Shape, LockInv, Locked, Live, StartAt, Exists, W
<1>7. RemovalInv'
  BY <1>1, LifecycleAssumption DEF WorkerExits, Calm, WorkerInv, RemovalInv, TypeOK, ShapeInv,
     Shape, EarlyInv, EarlyAt, Early, StartInv, StartAt, Live, RemovalAt, W, Exists
<1>8. MarkInv'
  BY <1>1 DEF WorkerExits, Calm, WorkerInv, MarkInv, Live
<1>9. GoneInv'
  BY <1>1 DEF WorkerExits, Calm, WorkerInv, GoneInv, Live
<1>10. WorkerKeepsResources'
  BY <1>1 DEF WorkerExits, Calm, WorkerInv, WorkerKeepsResources, Live, Exists
<1>11. ShapeInv' /\ LockInv' /\ RevokedInv' /\ RestoreInv' /\ LabelInv' /\ AnsweredIsRevoked'
  BY <1>1 DEF WorkerExits, Calm, WorkerInv, ShapeInv, LockInv, RevokedInv, RestoreInv, LabelInv,
              AnsweredIsRevoked, Shape, Locked, W, RevokedAt, Past, RestoreAt, LabelAt
<1>12. QED BY <1>2, <1>3, <1>4, <1>5, <1>6, <1>7, <1>8, <1>9, <1>10, <1>11 DEF WorkerInv

\* The rest of what Product p does is giving up.
LEMMA StopsSteps ==
  ASSUME WorkerInv, NEW p \in Products,
         ReturnCreated(p) \/ ReturnStarted(p) \/ FailStep(p) \/ Crash(p)
  PROVE  Stops(p)
<1>1. Proceeds(p, {})
  BY OpSteps
<1>2. QED BY <1>1 DEF Stops, ReturnCreated, ReturnStarted, FailStep, Crash

\* A refused request ends the operation that waits for it, or changes nothing.
LEMMA RefusesInv ==
  ASSUME WorkerInv, NEW w \in Workers, EngineRefuses(w) \/ ProxyRefuses(w)
  PROVE  WorkerInv'
<1>1. /\ request' \subseteq request
      /\ UNCHANGED <<nodeVars, token, journal, answered, late, calls>>
  BY DEF EngineRefuses, ProxyRefuses, Handle
<1>2. UNCHANGED <<op, lock>> \/ \E p \in Products : OnFail(p)
  BY DEF EngineRefuses, ProxyRefuses, Refuse, Waiting
<1>3. CASE UNCHANGED <<op, lock>>
  BY <1>1, <1>3 DEF WorkerInv, TypeOK, ShapeInv, LockInv, KnownInv, KnownAt, JournalInv,
     EarlyInv, EarlyAt, StartInv, StartAt, RemovalInv, RemovalAt, RevokedInv, RevokedAt,
     RestoreInv, RestoreAt, LabelInv, LabelAt, MarkInv, GoneInv, WorkerKeepsResources,
     AnsweredIsRevoked, Exists, Live, W, nodeVars
<1>4. CASE \E p \in Products : OnFail(p)
  <2>1. PICK p \in Products : OnFail(p)
    BY <1>4
  <2>2. Stops(p)
    BY <1>1, <2>1, FailProceeds DEF Stops, WorkerInv
  <2>3. QED BY <2>2, StopsInv
<1>5. QED BY <1>2, <1>3, <1>4

\* Initially nothing is known and nobody does anything.
LEMMA InitInv == Init => WorkerInv
<1> SUFFICES ASSUME Init PROVE WorkerInv
  OBVIOUS
<1>1. TypeOK
  <2>1. op \in [Products -> Ops]
    BY IdleOp DEF Init
  <2>2. calls \in 0..MaxCalls
    BY LifecycleAssumption DEF Init
  <2>3. QED BY <2>1, <2>2, LifecycleAssumption DEF Init, TypeOK
<1>2. \A p \in Products : op[p] = Idle /\ op[p].kind = "idle" /\ op[p].step = "idle"
  BY DEF Init, Idle
<1>3. ShapeInv /\ LockInv /\ KnownInv /\ EarlyInv /\ StartInv /\ RemovalInv /\ RevokedInv
      /\ RestoreInv /\ LabelInv
  BY <1>2 DEF ShapeInv, Shape, LockInv, Locked, KnownInv, KnownAt, EarlyInv, EarlyAt, Early,
     StartInv, StartAt, RemovalInv, RemovalAt, RevokedInv, RevokedAt, Past, RestoreInv,
     RestoreAt, LabelInv, LabelAt
<1>4. JournalInv /\ MarkInv /\ GoneInv /\ WorkerKeepsResources /\ AnsweredIsRevoked
  BY DEF Init, JournalInv, MarkInv, GoneInv, WorkerKeepsResources, AnsweredIsRevoked, Exists,
     Live
<1>5. QED BY <1>1, <1>3, <1>4 DEF WorkerInv

\* A step in which nothing happens.
LEMMA StutterInv == WorkerInv /\ UNCHANGED vars => WorkerInv'
  BY DEF vars, nodeVars, WorkerInv, TypeOK, ShapeInv, LockInv, KnownInv, KnownAt, JournalInv,
     EarlyInv, EarlyAt, StartInv, StartAt, RemovalInv, RemovalAt, RevokedInv, RevokedAt,
     RestoreInv, RestoreAt, LabelInv, LabelAt, MarkInv, GoneInv, WorkerKeepsResources,
     AnsweredIsRevoked, Exists, Live, W

\* Every step keeps the invariant.
LEMMA NextInv == WorkerInv /\ [Next]_vars => WorkerInv'
<1> SUFFICES ASSUME WorkerInv, [Next]_vars PROVE WorkerInv'
  OBVIOUS
<1>1. CASE \E p \in Products : \E w \in Workers : BeginRun(p, w)
  BY <1>1, BeginRunInv
<1>2. CASE \E p \in Products : \E w \in Workers : \E k \in Kinds : BeginCall(p, w, k)
  BY <1>2, BeginCallInv
<1>3. CASE \E p \in Products : ReturnCreated(p) \/ ReturnStarted(p) \/ FailStep(p) \/ Crash(p)
  BY <1>3, StopsSteps, StopsInv
<1>4. CASE \E p \in Products : TakeLock(p) \/ Check(p) \/ CreateNetwork(p) \/ Reserve(p)
                               \/ CreateContainer(p) \/ ContainerStart(p) \/ VerifyGuest(p)
  BY <1>4, TakeLockInv, CheckInv, CreateNetworkInv, ReserveInv, CreateContainerInv,
     ContainerStartInv, VerifyGuestInv
<1>5. CASE \E p \in Products : RestoreWorkerToken(p) \/ ReleaseGuest(p) \/ Rollback(p)
                               \/ Revoke(p) \/ StopWorker(p) \/ Quarantine(p) \/ Confirm(p)
  BY <1>5, RestoreWorkerTokenInv, ReleaseGuestInv, RollbackInv, RevokeInv, StopWorkerInv,
     QuarantineInv, ConfirmInv
<1>6. CASE \E p \in Products : Release(p) \/ WriteJournal(p) \/ DeleteWorker(p)
                               \/ RemoveNetwork(p) \/ Forget(p)
  BY <1>6, ReleaseInv, WriteJournalInv, DeleteWorkerInv, RemoveNetworkInv, ForgetInv
<1>7. CASE \E w \in Workers : EngineRefuses(w) \/ ProxyRefuses(w)
  BY <1>7, RefusesInv
<1>8. CASE \E w \in Workers : EngineStarts(w) \/ ProxyRestores(w) \/ WorkerExits(w)
  BY <1>8, EngineStartsInv, ProxyRestoresInv, WorkerExitsInv
<1>9. CASE UNCHANGED vars
  BY <1>9, StutterInv
<1>10. QED
  BY <1>1, <1>2, <1>3, <1>4, <1>5, <1>6, <1>7, <1>8, <1>9 DEF Next, Proceed

-----------------------------------------------------------------------------
(* The theorems.                                                            *)

\* The inductive invariant holds, for any number of workers, Products and calls.
THEOREM WorkerInvHolds == Spec => []WorkerInv
<1>1. QED BY InitInv, NextInv, PTL DEF Spec

\* Each variable has its type.
THEOREM TypeCorrect == Spec => []TypeOK
<1>1. WorkerInv => TypeOK
  BY DEF WorkerInv
<1>2. QED BY <1>1, WorkerInvHolds, PTL

\* A worker that exists has its network and one that runs its reservation:
\* no rollback or retried removal takes them away.
THEOREM ResourcesKept == Spec => []WorkerKeepsResources
<1>1. WorkerInv => WorkerKeepsResources
  BY DEF WorkerInv
<1>2. QED BY <1>1, WorkerInvHolds, PTL

\* What a stop, quarantine or removal reports, the revocation of the worker's
\* placeholder, is true unless the proxy was late with a restore.
THEOREM RevocationTrue == Spec => []AnsweredIsRevoked
<1>1. WorkerInv => AnsweredIsRevoked
  BY DEF WorkerInv
<1>2. QED BY <1>1, WorkerInvHolds, PTL

\* A removal that was reported is complete and stays so.
THEOREM RemovalTrue == Spec => []RemovalLeavesNothing
<1>1. WorkerInv => RemovalLeavesNothing
  BY DEF WorkerInv, GoneInv, RemovalLeavesNothing, Exists
<1>2. QED BY <1>1, WorkerInvHolds, PTL

\* What a step may not do to a quarantined worker.
KeepsQuarantine ==
  \A w \in Workers :
    /\ w \in mark => w \in mark' /\ (Live(w)' => Live(w))
    /\ answered'[w] = "quarantined" => w \in mark' /\ ~Live(w)'

\* The label is never taken off.
LEMMA MarkStays ==
  ASSUME Next
  PROVE  mark \subseteq mark'
<1>1. CASE \E p \in Products : Quarantine(p)
  BY <1>1 DEF Quarantine
<1>2. CASE \E p \in Products :
             \/ \E w \in Workers : BeginRun(p, w) \/ \E k \in Kinds : BeginCall(p, w, k)
             \/ TakeLock(p) \/ ReturnCreated(p) \/ Crash(p)
  BY <1>2 DEF BeginRun, BeginCall, TakeLock, ReturnCreated, Crash, nodeVars
<1>3. CASE \E p \in Products :
             \/ Check(p) \/ CreateNetwork(p) \/ Reserve(p) \/ CreateContainer(p)
             \/ ContainerStart(p) \/ VerifyGuest(p) \/ RestoreWorkerToken(p)
             \/ ReleaseGuest(p) \/ ReturnStarted(p) \/ Rollback(p)
  BY <1>3 DEF Check, CreateNetwork, Reserve, CreateContainer, ContainerStart, VerifyGuest,
     RestoreWorkerToken, ReleaseGuest, ReturnStarted, Rollback, nodeVars
<1>4. CASE \E p \in Products :
             \/ Revoke(p) \/ StopWorker(p) \/ Confirm(p) \/ Release(p) \/ WriteJournal(p)
             \/ DeleteWorker(p) \/ RemoveNetwork(p) \/ Forget(p) \/ FailStep(p)
  BY <1>4 DEF Revoke, StopWorker, Confirm, Release, WriteJournal, DeleteWorker,
     RemoveNetwork, Forget, FailStep, nodeVars
<1>5. CASE \E w \in Workers :
             \/ EngineStarts(w) \/ EngineRefuses(w) \/ ProxyRestores(w)
             \/ ProxyRefuses(w) \/ WorkerExits(w)
  BY <1>5 DEF EngineStarts, EngineRefuses, ProxyRestores, ProxyRefuses, WorkerExits, nodeVars
<1>6. QED BY <1>1, <1>2, <1>3, <1>4, <1>5 DEF Next, Proceed

\* Only the engine makes a worker run, and it looks at the label first.
LEMMA OnlyUnmarkedStart ==
  ASSUME WorkerInv, Next, NEW w \in mark, Live(w)'
  PROVE  Live(w)
<1>0. w \in Workers /\ engine \in [Workers -> {"none", "created", "waiting", "running",
                                               "exited", "gone"}]
  BY DEF WorkerInv, TypeOK
<1>1. CASE \E p \in Products : CreateContainer(p) \/ ReleaseGuest(p) \/ DeleteWorker(p)
  BY <1>0, <1>1 DEF CreateContainer, ReleaseGuest, DeleteWorker, Live
<1>2. CASE \E p \in Products : StopWorker(p) \/ Quarantine(p)
  BY <1>0, <1>2 DEF StopWorker, Quarantine, Stopped, Live
<1>3. CASE \E v \in Workers : EngineStarts(v) \/ WorkerExits(v)
  BY <1>0, <1>3 DEF EngineStarts, WorkerExits, ExecutionAllowed, Live
<1>4. CASE \E p \in Products :
             \/ \E v \in Workers : BeginRun(p, v) \/ \E k \in Kinds : BeginCall(p, v, k)
             \/ TakeLock(p) \/ ReturnCreated(p) \/ Crash(p)
  BY <1>4 DEF BeginRun, BeginCall, TakeLock, ReturnCreated, Crash, nodeVars, Live
<1>5. CASE \E p \in Products :
             \/ Check(p) \/ CreateNetwork(p) \/ Reserve(p) \/ ContainerStart(p)
             \/ VerifyGuest(p) \/ RestoreWorkerToken(p) \/ ReturnStarted(p) \/ Rollback(p)
  BY <1>5 DEF Check, CreateNetwork, Reserve, ContainerStart, VerifyGuest,
     RestoreWorkerToken, ReturnStarted, Rollback, nodeVars, Live
<1>6. CASE \E p \in Products :
             \/ Revoke(p) \/ Confirm(p) \/ Release(p) \/ WriteJournal(p)
             \/ RemoveNetwork(p) \/ Forget(p) \/ FailStep(p)
  BY <1>6 DEF Revoke, Confirm, Release, WriteJournal, RemoveNetwork, Forget, FailStep,
     nodeVars, Live
<1>7. CASE \E v \in Workers : EngineRefuses(v) \/ ProxyRestores(v) \/ ProxyRefuses(v)
  BY <1>7 DEF EngineRefuses, ProxyRestores, ProxyRefuses, nodeVars, Live
<1>8. QED BY <1>1, <1>2, <1>3, <1>4, <1>5, <1>6, <1>7 DEF Next, Proceed

\* Quarantine is final: no step takes the label off or brings a labelled worker
\* to run, and what is reported as quarantined is labelled and does not run.
THEOREM QuarantineFinal == Spec => QuarantineIsFinal
<1>1. WorkerInv /\ WorkerInv' /\ [Next]_vars => [KeepsQuarantine]_vars
  <2> SUFFICES ASSUME WorkerInv, WorkerInv', Next, NEW w \in Workers
               PROVE  /\ w \in mark => w \in mark' /\ (Live(w)' => Live(w))
                      /\ answered'[w] = "quarantined" => w \in mark' /\ ~Live(w)'
    BY DEF KeepsQuarantine
  <2>1. w \in mark => w \in mark' /\ (Live(w)' => Live(w))
    BY MarkStays, OnlyUnmarkedStart
  <2>2. answered'[w] = "quarantined" => w \in mark' /\ ~Live(w)'
    BY DEF WorkerInv, MarkInv
  <2>3. QED BY <2>1, <2>2
<1>2. Spec => [][KeepsQuarantine]_vars
  BY <1>1, WorkerInvHolds, PTL DEF Spec
<1>3. QED BY <1>2 DEF QuarantineIsFinal, KeepsQuarantine
=============================================================================
