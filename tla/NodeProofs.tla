----------------------------- MODULE NodeProofs -----------------------------
(***************************************************************************)
(* The two ledgers of a node.  Admission: the capacity limit, the durable  *)
(* record of every envelope, the binding of released user code and what a  *)
(* recovery spares, for every set of allocations and workers and every     *)
(* limit.  Networks: running workers stay behind their firewall, leftovers *)
(* have records and restarts spare running tasks, for any networks and     *)
(* containers, whatever fails, dies or reboots.  Last, the instance of     *)
(* both follows the specification of each.                                 *)
(***************************************************************************)
EXTENDS MCNode, FiniteSetTheorems, TLAPS

\* What the request that holds admission.lock knows at each step.
OpInv ==
  /\ op.step # "none" => op.alloc \in Allocations
  /\ op.step = "inspect" => op.worker \in Workers
  /\ op.step \in {"mkdir", "limits"} => record[op.alloc].present
  /\ op.step = "mkdir" => cgroup[op.alloc] = "none" /\ ~Full
  /\ op.step = "limits" => cgroup[op.alloc] # "none"
  /\ op.step = "forget" => cgroup[op.alloc] = "none"

Inv == TypeOK /\ OpInv /\ EnvelopesTracked /\ Capacity

-----------------------------------------------------------------------------
(* The helpers.                                                             *)

ClientStates == {"idle", "reserve", "create", "start", "starting",
                 "verify", "stop", "stopping", "delete", "release"}

\* Replies and undo steps lead to client states.
LEMMA ReplyType ==
  ASSUME TypeOK, NEW pc \in ClientStates, Reply(pc)
  PROVE  op' = Idle /\ op' \in Ops /\ client' \in [Workers -> ClientStates]
  BY DEF TypeOK, Reply, Idle, Ops, ClientStates

LEMMA UndoingType == \A w : Undoing(w) \in ClientStates /\ Reserved(w) \in ClientStates
  BY DEF Undoing, Reserved, ClientStates

LEMMA GoType ==
  ASSUME TypeOK, NEW w \in Workers, NEW pc \in ClientStates, Go(w, pc)
  PROVE  client' \in [Workers -> ClientStates]
  BY DEF TypeOK, Go, ClientStates

\* trackAllocation without a worker leaves a present record, and no record
\* of another allocation changes.
LEMMA TrackedPresent ==
  ASSUME TypeOK, NEW a \in Allocations
  PROVE  /\ Tracked(a) \in [Allocations -> Records]
         /\ Tracked(a)[a].present
         /\ \A b \in Allocations : record[b].present => Tracked(a)[b].present
  BY DEF TypeOK, Tracked, Records

-----------------------------------------------------------------------------
(* Type correctness.                                                        *)

LEMMA GuardTypes == TypeOK /\ OpInv /\ (GuardStep \/ ReleaseFails) => TypeOK'
<1> SUFFICES ASSUME TypeOK, OpInv, GuardStep \/ ReleaseFails PROVE TypeOK'
  OBVIOUS
<1> USE UndoingType, ReplyType DEF ClientStates, engineVars, hostVars
<1>1. CASE ReserveMkdir
  <2>1. op' \in Ops /\ client' \in [Workers -> ClientStates]
    BY <1>1 DEF ReserveMkdir, TypeOK, Ops
  <2>2. QED BY <1>1, <2>1 DEF ReserveMkdir, TypeOK
<1>2. CASE ReserveLimits
  <2>1. op' \in Ops /\ client' \in [Workers -> ClientStates]
    BY <1>2 DEF ReserveLimits
  <2>2. QED BY <1>2, <2>1 DEF ReserveLimits, TypeOK
<1>3. CASE VerifyInspect
  <2>1. op' \in Ops /\ client' \in [Workers -> ClientStates]
    BY <1>3 DEF VerifyInspect
  <2>2. record' \in [Allocations -> Records]
    BY <1>3 DEF VerifyInspect, TypeOK, OpInv, Records
  <2>3. released' \subseteq Workers
    BY <1>3 DEF VerifyInspect, TypeOK, OpInv
  <2>4. QED BY <1>3, <2>1, <2>2, <2>3 DEF VerifyInspect, TypeOK
<1>4. CASE ReleaseCheck
  <2>1. op' \in Ops /\ client' \in [Workers -> ClientStates]
    BY <1>4 DEF ReleaseCheck, TypeOK, Ops
  <2>2. QED BY <1>4, <2>1 DEF ReleaseCheck, TypeOK
<1>5. CASE ReleaseRemove
  BY <1>5 DEF ReleaseRemove, TypeOK, Ops
<1>6. CASE ReleaseForget
  <2>1. op' \in Ops /\ client' \in [Workers -> ClientStates]
    BY <1>6 DEF ReleaseForget
  <2>2. record' \in [Allocations -> Records]
    BY <1>6 DEF ReleaseForget, TypeOK, Records, NoRecord
  <2>3. QED BY <1>6, <2>1, <2>2 DEF ReleaseForget, TypeOK
<1>7. CASE RecoverList
  <2>1. op' \in Ops /\ client' \in [Workers -> ClientStates]
    BY <1>7 DEF RecoverList, TypeOK, Ops
  <2>2. QED BY <1>7, <2>1 DEF RecoverList, TypeOK
<1>8. CASE RecoverConfirm
  <2>1. op' \in Ops /\ client' \in [Workers -> ClientStates]
    BY <1>8 DEF RecoverConfirm, TypeOK, Ops
  <2>2. QED BY <1>8, <2>1 DEF RecoverConfirm, TypeOK
<1>9. CASE RecoverKill
  <2>1. op' \in Ops /\ client' \in [Workers -> ClientStates]
    BY <1>9 DEF RecoverKill, TypeOK, Ops
  <2>2. QED BY <1>9, <2>1 DEF RecoverKill, TypeOK
<1>10. CASE ReleaseFails
  <2>1. op' \in Ops /\ client' \in [Workers -> ClientStates]
    BY <1>10 DEF ReleaseFails
  <2>2. QED BY <1>10, <2>1 DEF ReleaseFails, TypeOK
<1>11. QED
  BY <1>1, <1>2, <1>3, <1>4, <1>5, <1>6, <1>7, <1>8, <1>9, <1>10 DEF GuardStep

LEMMA RequestTypes ==
  ASSUME TypeOK, NEW w \in Workers, Reserve(w) \/ Verify(w) \/ Release(w)
  PROVE  TypeOK'
<1> USE AdmissionAssumption, UndoingType DEF ClientStates, engineVars, hostVars
<1>0. /\ Holder("reserve", "mkdir", Home[w], w) \in Ops
      /\ Holder("verify", "inspect", Home[w], w) \in Ops
      /\ Holder("release", "check", Home[w], w) \in Ops
  BY DEF Holder, Ops
<1>1. CASE Reserve(w)
  <2>1. client' \in [Workers -> ClientStates]
    BY <1>1, GoType DEF Reserve, TypeOK
  <2>2. record' \in [Allocations -> Records]
    BY <1>1, TrackedPresent DEF Reserve, TypeOK
  <2>3. op' \in Ops
    BY <1>0, <1>1 DEF Reserve, TypeOK
  <2>4. QED BY <1>1, <2>1, <2>2, <2>3 DEF Reserve, TypeOK
<1>2. CASE Verify(w)
  <2>1. client' \in [Workers -> ClientStates]
    BY <1>2, GoType DEF Verify, TypeOK
  <2>2. op' \in Ops
    BY <1>0, <1>2 DEF Verify, TypeOK
  <2>3. QED BY <1>2, <2>1, <2>2 DEF Verify, TypeOK
<1>3. CASE Release(w)
  BY <1>0, <1>3 DEF Release, TypeOK
<1>4. QED BY <1>1, <1>2, <1>3

LEMMA EngineTypes ==
  ASSUME TypeOK, NEW w \in Workers,
         \/ EngineStep(w) \/ CreateWorker(w) \/ StartBegins(w) \/ StopBegins(w)
         \/ DeleteWorker(w) \/ VMExits(w) \/ Vanish(w)
  PROVE  TypeOK'
<1> USE AdmissionAssumption, GoType DEF ClientStates, engineVars, hostVars
<1>1. CASE StartEnds(w)
  <2>1. client' \in [Workers -> ClientStates]
    BY <1>1 DEF StartEnds, Answer, TypeOK
  <2>2. vm' \in [Allocations -> Workers \cup {None}]
    BY <1>1 DEF StartEnds, AbortCreate, TypeOK
  <2>3. QED BY <1>1, <2>1, <2>2 DEF StartEnds, TypeOK, Free
<1>2. CASE StopEnds(w)
  <2>1. client' \in [Workers -> ClientStates]
    BY <1>2 DEF StopEnds, Answer, TypeOK
  <2>2. vm' \in [Allocations -> Workers \cup {None}] /\ released' \subseteq Workers
    BY <1>2 DEF StopEnds, End, TypeOK
  <2>3. QED BY <1>2, <2>1, <2>2 DEF StopEnds, TypeOK, Free
<1>3. CASE CreateWorker(w)
  <2>1. client' \in [Workers -> ClientStates]
    BY <1>3 DEF CreateWorker
  <2>2. QED BY <1>3, <2>1 DEF CreateWorker, TypeOK
<1>4. CASE StartBegins(w)
  <2>1. client' \in [Workers -> ClientStates]
    BY <1>4 DEF StartBegins
  <2>2. vm' \in [Allocations -> Workers \cup {None}]
    BY <1>4 DEF StartBegins, TypeOK
  <2>3. QED BY <1>4, <2>1, <2>2 DEF StartBegins, TypeOK
<1>5. CASE StopBegins(w)
  <2>1. client' \in [Workers -> ClientStates]
    BY <1>5 DEF StopBegins
  <2>2. QED BY <1>5, <2>1 DEF StopBegins, TypeOK
<1>6. CASE DeleteWorker(w)
  <2>1. client' \in [Workers -> ClientStates]
    BY <1>6 DEF DeleteWorker
  <2>2. vm' \in [Allocations -> Workers \cup {None}] /\ released' \subseteq Workers
    BY <1>6 DEF DeleteWorker, End, TypeOK
  <2>3. QED BY <1>6, <2>1, <2>2 DEF DeleteWorker, TypeOK
<1>7. CASE VMExits(w)
  BY <1>7 DEF VMExits, TypeOK
<1>8. CASE Vanish(w)
  BY <1>8 DEF Vanish, TypeOK
<1>9. QED
  BY <1>1, <1>2, <1>3, <1>4, <1>5, <1>6, <1>7, <1>8 DEF EngineStep

LEMMA CallerTypes ==
  ASSUME TypeOK, NEW w \in Workers, BeginLaunch(w) \/ BeginCall(w) \/ HangUp(w)
  PROVE  TypeOK'
<1> USE AdmissionAssumption, GoType, UndoingType DEF ClientStates, engineVars, hostVars
<1>1. CASE BeginLaunch(w) \/ BeginCall(w)
  <2>1. client' \in [Workers -> ClientStates]
    BY <1>1 DEF BeginLaunch, BeginCall
  <2>2. QED BY <1>1, <2>1 DEF BeginLaunch, BeginCall, TypeOK
<1>2. CASE HangUp(w)
  <2>1. client' \in [Workers -> ClientStates]
    BY <1>2 DEF HangUp
  <2>2. op' \in Ops
    BY <1>2 DEF HangUp, TypeOK, Ops
  <2>3. QED BY <1>2, <2>1, <2>2 DEF HangUp, TypeOK
<1>3. QED BY <1>1, <1>2

LEMMA OtherTypes ==
  ASSUME TypeOK,
         \/ NodeCrash \/ Reboot
         \/ \E a \in Allocations : Age(a) \/ \E force \in BOOLEAN : Recover(a, force)
  PROVE  TypeOK'
<1> USE AdmissionAssumption DEF engineVars, hostVars
<1>1. CASE NodeCrash
  BY <1>1 DEF NodeCrash, TypeOK, Idle, Free, Ops
<1>2. CASE Reboot
  BY <1>2 DEF Reboot, TypeOK, Idle, Free, Ops
<1>3. ASSUME NEW a \in Allocations, Age(a) PROVE TypeOK'
  <2>1. record[a] \in Records
    BY DEF TypeOK
  <2>2. [record[a] EXCEPT !.recent = FALSE] \in Records
    BY <2>1 DEF Records
  <2>3. QED BY <1>3, <2>2 DEF Age, TypeOK
<1>4. ASSUME NEW a \in Allocations, NEW force \in BOOLEAN, Recover(a, force)
      PROVE  TypeOK'
  <2>1. op' \in Ops
    BY <1>4 DEF Recover, TypeOK, Ops, Records
  <2>2. QED BY <1>4, <2>1 DEF Recover, TypeOK
<1>5. QED BY <1>1, <1>2, <1>3, <1>4

LEMMA TypeNext == TypeOK /\ OpInv /\ [Next]_vars => TypeOK'
<1> SUFFICES ASSUME TypeOK, OpInv, [Next]_vars PROVE TypeOK'
  OBVIOUS
<1>1. CASE UNCHANGED vars
  BY <1>1 DEF vars, TypeOK
<1>2. CASE Next
  BY <1>2, GuardTypes, RequestTypes, EngineTypes, CallerTypes, OtherTypes DEF Next
<1>3. QED BY <1>1, <1>2

-----------------------------------------------------------------------------
(* The records, the envelopes and what the holder of the lock knows.        *)

\* Records, envelopes and VMs stay, and the holder at most loses its caller.
HostUnchanged ==
  /\ UNCHANGED <<record, cgroup>>
  /\ \A a \in Allocations : vm'[a] # None => vm[a] # None \/ cgroup[a] # "none"
  /\ \/ op' = Idle
     \/ /\ op'.step = op.step /\ op'.alloc = op.alloc
        /\ op'.worker = op.worker

LEMMA UnchangedInv ==
  ASSUME TypeOK, OpInv, EnvelopesTracked, Capacity, HostUnchanged
  PROVE  OpInv' /\ EnvelopesTracked' /\ Capacity'
<1>1. Envelopes' = Envelopes
  BY DEF HostUnchanged, Envelopes
<1>2. OpInv'
  BY <1>1 DEF HostUnchanged, OpInv, Full, Idle
<1>3. EnvelopesTracked' /\ Capacity'
  BY <1>1 DEF HostUnchanged, EnvelopesTracked, Capacity
<1>4. QED BY <1>2, <1>3

\* Envelopes that only disappear keep the limit.
LEMMA FewerEnvelopes ==
  ASSUME Capacity, Envelopes' \subseteq Envelopes
  PROVE  Cardinality(Envelopes') <= MaxWorkers
<1>1. IsFiniteSet(Envelopes)
  BY AdmissionAssumption, FS_Subset DEF Envelopes
<1>2. Cardinality(Envelopes') <= Cardinality(Envelopes)
  BY <1>1, FS_Subset
<1>3. Cardinality(Envelopes) \in Nat /\ Cardinality(Envelopes') \in Nat
  BY <1>1, FS_Subset, FS_CardinalityType
<1>4. QED BY <1>2, <1>3, AdmissionAssumption DEF Capacity

LEMMA EngineInv ==
  ASSUME TypeOK, OpInv, EnvelopesTracked, Capacity, NEW w \in Workers,
         \/ EngineStep(w) \/ CreateWorker(w) \/ StartBegins(w) \/ StopBegins(w)
         \/ DeleteWorker(w) \/ VMExits(w) \/ Vanish(w)
         \/ BeginLaunch(w) \/ BeginCall(w) \/ HangUp(w)
  PROVE  OpInv' /\ EnvelopesTracked' /\ Capacity'
<1> USE AdmissionAssumption DEF engineVars, hostVars, HostUnchanged
<1>1. CASE StartEnds(w)
  <2>1. HostUnchanged BY <1>1 DEF StartEnds, AbortCreate, TypeOK
  <2>2. QED BY <2>1, UnchangedInv
<1>2. CASE StopEnds(w)
  <2>1. HostUnchanged BY <1>2 DEF StopEnds, End, TypeOK
  <2>2. QED BY <2>1, UnchangedInv
<1>3. CASE CreateWorker(w)
  <2>1. HostUnchanged BY <1>3 DEF CreateWorker
  <2>2. QED BY <2>1, UnchangedInv
<1>4. CASE StartBegins(w)
  <2>1. HostUnchanged BY <1>4 DEF StartBegins, TypeOK
  <2>2. QED BY <2>1, UnchangedInv
<1>5. CASE StopBegins(w)
  <2>1. HostUnchanged BY <1>5 DEF StopBegins
  <2>2. QED BY <2>1, UnchangedInv
<1>6. CASE DeleteWorker(w)
  <2>1. HostUnchanged BY <1>6 DEF DeleteWorker, End, TypeOK
  <2>2. QED BY <2>1, UnchangedInv
<1>7. CASE VMExits(w) \/ Vanish(w)
  <2>1. HostUnchanged BY <1>7 DEF VMExits, Vanish, TypeOK
  <2>2. QED BY <2>1, UnchangedInv
<1>8. CASE BeginLaunch(w) \/ BeginCall(w)
  <2>1. HostUnchanged BY <1>8 DEF BeginLaunch, BeginCall
  <2>2. QED BY <2>1, UnchangedInv
<1>9. CASE HangUp(w)
  <2>1. HostUnchanged BY <1>9 DEF HangUp, TypeOK, Ops
  <2>2. QED BY <2>1, UnchangedInv
<1>10. QED
  BY <1>1, <1>2, <1>3, <1>4, <1>5, <1>6, <1>7, <1>8, <1>9 DEF EngineStep

\* The holder has changed nothing yet, or has removed the envelope.
OnlyWaits ==
  /\ op.alloc \in Allocations
  /\ op.step \in {"list", "confirm", "kill", "check", "remove", "forget", "inspect"}
  /\ op.step = "inspect" => op.worker \in Workers
  /\ op.step = "forget" => cgroup[op.alloc] = "none"

\* The steps that take the lock or go on to a later step without a change of
\* the host.
LEMMA HolderInv ==
  ASSUME TypeOK, OpInv, EnvelopesTracked, Capacity,
         UNCHANGED <<record, cgroup>>,
         \A a \in Allocations : vm'[a] # None => vm[a] # None,
         op' = Idle \/ OnlyWaits'
  PROVE  OpInv' /\ EnvelopesTracked' /\ Capacity'
<1>1. Envelopes' = Envelopes
  BY DEF Envelopes
<1>2. OpInv'
  BY DEF OpInv, OnlyWaits, Idle
<1>3. EnvelopesTracked' /\ Capacity'
  BY <1>1 DEF EnvelopesTracked, Capacity
<1>4. QED BY <1>2, <1>3

LEMMA RequestInv ==
  ASSUME TypeOK, OpInv, EnvelopesTracked, Capacity, NEW w \in Workers,
         Reserve(w) \/ Verify(w) \/ Release(w)
  PROVE  OpInv' /\ EnvelopesTracked' /\ Capacity'
<1> USE AdmissionAssumption DEF engineVars, hostVars
<1>1. CASE Verify(w) \/ Release(w)
  <2>1. CASE op' = op
    <3>1. HostUnchanged
      BY <1>1, <2>1 DEF Verify, Release, HostUnchanged
    <3>2. QED BY <3>1, UnchangedInv
  <2>2. CASE op' # op
    <3>1. OnlyWaits' /\ UNCHANGED <<record, cgroup, vm>>
      BY <1>1, <2>2 DEF Verify, Release, Holder, OnlyWaits
    <3>2. QED BY <3>1, HolderInv
  <2>3. QED BY <2>1, <2>2
<1>2. CASE Reserve(w) /\ record' = record /\ op' = op
  <2>1. HostUnchanged
    BY <1>2 DEF Reserve, HostUnchanged
  <2>2. QED BY <2>1, UnchangedInv
<1>3. CASE /\ cgroup[Home[w]] = "none" /\ ~Full
           /\ record' = Tracked(Home[w])
           /\ op' = Holder("reserve", "mkdir", Home[w], w)
           /\ UNCHANGED <<cgroup, vm>>
  <2>1. Envelopes' = Envelopes
    BY <1>3 DEF Envelopes
  <2>2. OpInv'
    BY <1>3, <2>1, TrackedPresent DEF OpInv, Holder, Full
  <2>3. EnvelopesTracked'
    BY <1>3, <2>1, TrackedPresent DEF EnvelopesTracked, Envelopes
  <2>4. Capacity'
    BY <1>3, <2>1 DEF Capacity
  <2>5. QED BY <2>2, <2>3, <2>4
<1>4. QED BY <1>1, <1>2, <1>3 DEF Reserve

LEMMA GuardInv ==
  ASSUME TypeOK, OpInv, EnvelopesTracked, Capacity, GuardStep \/ ReleaseFails
  PROVE  OpInv' /\ EnvelopesTracked' /\ Capacity'
<1> USE AdmissionAssumption DEF engineVars, hostVars
<1>0. IsFiniteSet(Envelopes) /\ Cardinality(Envelopes) \in Nat
  BY FS_Subset, FS_CardinalityType DEF Envelopes
<1>1. CASE ReserveMkdir
  <2>1. CASE op' = Idle /\ cgroup' = cgroup
    <3>1. HostUnchanged
      BY <1>1, <2>1 DEF ReserveMkdir, HostUnchanged
    <3>2. QED BY <3>1, UnchangedInv
  <2>2. CASE ~(op' = Idle /\ cgroup' = cgroup)
    <3>1. /\ cgroup' = [cgroup EXCEPT ![op.alloc] = "bare"]
          /\ op' = [op EXCEPT !.step = "limits"]
          /\ op.step = "mkdir"
      BY <1>1, <2>2 DEF ReserveMkdir, Reply
    <3>2. /\ op'.step = "limits" /\ op'.alloc = op.alloc
      BY <3>1 DEF TypeOK, Ops
    <3>3. /\ op.alloc \in Allocations /\ record[op.alloc].present
          /\ cgroup[op.alloc] = "none" /\ ~Full
          /\ UNCHANGED <<record, vm>>
      BY <1>1, <3>1 DEF ReserveMkdir, OpInv
    <3>4. cgroup' \in [Allocations -> {"none", "bare", "ready"}]
          /\ \A a \in Allocations :
               cgroup'[a] = IF a = op.alloc THEN "bare" ELSE cgroup[a]
      BY <3>1, <3>3 DEF TypeOK
    <3>5. Envelopes' = Envelopes \cup {op.alloc} /\ op.alloc \notin Envelopes
      BY <3>3, <3>4 DEF Envelopes
    <3>6. Cardinality(Envelopes') <= MaxWorkers
      <4>1. Cardinality(Envelopes \cup {op.alloc}) = Cardinality(Envelopes) + 1
        BY <1>0, <3>5, FS_AddElement
      <4>2. QED BY <1>0, <3>3, <3>5, <4>1 DEF Full
    <3>7. EnvelopesTracked'
      BY <3>3, <3>5 DEF EnvelopesTracked
    <3>8. OpInv'
      BY <3>2, <3>3, <3>4 DEF OpInv
    <3>9. Capacity'
      BY <3>3, <3>4, <3>6 DEF Capacity
    <3>10. QED BY <3>7, <3>8, <3>9
  <2>3. QED BY <2>1, <2>2
<1>2. CASE ReserveLimits
  <2>1. /\ op' = Idle /\ UNCHANGED <<record, vm>>
        /\ op.alloc \in Allocations /\ cgroup[op.alloc] # "none"
    BY <1>2 DEF ReserveLimits, Reply, OpInv
  <2>2. /\ Envelopes' \subseteq Envelopes
        /\ \A a \in Allocations : vm[a] # None => cgroup'[a] # "none"
    BY <1>2, <2>1 DEF ReserveLimits, Envelopes, TypeOK, OpInv, Capacity
  <2>3. QED BY <2>1, <2>2, FewerEnvelopes
            DEF OpInv, Idle, EnvelopesTracked, Capacity
<1>3. CASE VerifyInspect
  <2>1. op' = Idle /\ UNCHANGED <<cgroup, vm>>
    BY <1>3 DEF VerifyInspect, Reply
  <2>2. Envelopes' = Envelopes
    BY <2>1 DEF Envelopes
  <2>3. \/ record' = record
        \/ /\ op.alloc \in Allocations
           /\ record' = [record EXCEPT ![op.alloc] =
                           [record[op.alloc] EXCEPT !.worker = op.worker]]
    BY <1>3 DEF VerifyInspect, OpInv
  <2>4. \A a \in Allocations : record'[a].present = record[a].present
    BY <2>3 DEF TypeOK, Records
  <2>5. EnvelopesTracked' /\ Capacity'
    BY <2>1, <2>2, <2>4 DEF EnvelopesTracked, Envelopes, Capacity
  <2>6. QED BY <2>1, <2>5 DEF OpInv, Idle
<1>4. CASE ReleaseRemove
  <2>1. /\ op.alloc \in Allocations /\ vm[op.alloc] = None
        /\ cgroup' = [cgroup EXCEPT ![op.alloc] = "none"]
        /\ UNCHANGED <<record, vm>>
    BY <1>4 DEF ReleaseRemove, Empty, OpInv
  <2>2. Envelopes' \subseteq Envelopes
    BY <2>1 DEF Envelopes, TypeOK
  <2>3. OpInv'
    BY <1>4, <2>1 DEF ReleaseRemove, OpInv, TypeOK, Ops
  <2>4. EnvelopesTracked' /\ Capacity'
    BY <2>1, <2>2, FewerEnvelopes DEF EnvelopesTracked, Capacity, TypeOK
  <2>5. QED BY <2>3, <2>4
<1>5. CASE ReleaseForget
  <2>1. /\ op' = Idle /\ UNCHANGED <<cgroup, vm>>
        /\ cgroup[op.alloc] = "none"
        /\ record' = [record EXCEPT ![op.alloc] = NoRecord]
    BY <1>5 DEF ReleaseForget, Reply, OpInv
  <2>2. Envelopes' = Envelopes
    BY <2>1 DEF Envelopes
  <2>3. EnvelopesTracked' /\ Capacity'
    BY <2>1, <2>2 DEF EnvelopesTracked, Envelopes, Capacity, TypeOK
  <2>4. QED BY <2>1, <2>3 DEF OpInv, Idle
<1>6. CASE ReleaseCheck \/ RecoverList \/ RecoverConfirm \/ RecoverKill \/ ReleaseFails
  <2>1. /\ UNCHANGED <<record, cgroup>>
        /\ \A a \in Allocations : vm'[a] # None => vm[a] # None
    BY <1>6 DEF ReleaseCheck, RecoverList, RecoverConfirm, RecoverKill,
                ReleaseFails, TypeOK
  <2>2. op.alloc \in Allocations
    BY <1>6 DEF ReleaseCheck, RecoverList, RecoverConfirm, RecoverKill,
                ReleaseFails, OpInv
  <2>3. op' = Idle \/ OnlyWaits'
    BY <1>6, <2>1, <2>2 DEF ReleaseCheck, RecoverList, RecoverConfirm, RecoverKill,
                       ReleaseFails, Reply, OnlyWaits, TypeOK, Ops
  <2>4. QED BY <2>1, <2>3, HolderInv
<1>7. QED
  BY <1>1, <1>2, <1>3, <1>4, <1>5, <1>6 DEF GuardStep

LEMMA OtherInv ==
  ASSUME TypeOK, OpInv, EnvelopesTracked, Capacity,
         \/ NodeCrash \/ Reboot
         \/ \E a \in Allocations : Age(a) \/ \E force \in BOOLEAN : Recover(a, force)
  PROVE  OpInv' /\ EnvelopesTracked' /\ Capacity'
<1> USE AdmissionAssumption DEF engineVars, hostVars
<1>1. CASE NodeCrash
  <2>1. HostUnchanged
    BY <1>1 DEF NodeCrash, HostUnchanged
  <2>2. QED BY <2>1, UnchangedInv
<1>2. CASE Reboot
  <2>1. Envelopes' = {}
    BY <1>2 DEF Reboot, Envelopes
  <2>2. Envelopes' \subseteq Envelopes
    BY <2>1
  <2>3. QED BY <1>2, <2>1, <2>2, FewerEnvelopes
            DEF Reboot, OpInv, Idle, EnvelopesTracked, Capacity
<1>3. ASSUME NEW a \in Allocations, Age(a)
      PROVE  OpInv' /\ EnvelopesTracked' /\ Capacity'
  <2>1. /\ UNCHANGED <<cgroup, vm, op>>
        /\ \A b \in Allocations : record'[b].present = record[b].present
    BY <1>3 DEF Age, TypeOK, Records
  <2>2. Envelopes' = Envelopes
    BY <2>1 DEF Envelopes
  <2>3. EnvelopesTracked' /\ Capacity'
    BY <2>1, <2>2 DEF EnvelopesTracked, Envelopes, Capacity
  <2>4. OpInv'
    BY <2>1, <2>2 DEF OpInv, Full
  <2>5. QED BY <2>3, <2>4
<1>4. ASSUME NEW a \in Allocations, NEW force \in BOOLEAN, Recover(a, force)
      PROVE  OpInv' /\ EnvelopesTracked' /\ Capacity'
  <2>1. OnlyWaits' /\ UNCHANGED <<record, cgroup, vm>>
    BY <1>4 DEF Recover, OnlyWaits
  <2>2. QED BY <2>1, HolderInv
<1>5. QED BY <1>1, <1>2, <1>3, <1>4

-----------------------------------------------------------------------------
(* The theorems.                                                            *)

LEMMA InitInv == Init => Inv
<1> SUFFICES ASSUME Init PROVE Inv
  OBVIOUS
<1> USE AdmissionAssumption DEF Init
<1>1. TypeOK
  BY DEF TypeOK, NoRecord, Records, Idle, Ops, Free
<1>2. OpInv
  BY DEF OpInv, Idle
<1>3. Envelopes = {}
  BY DEF Envelopes
<1>4. EnvelopesTracked /\ Capacity
  BY <1>3, FS_EmptySet DEF EnvelopesTracked, Capacity
<1>5. QED BY <1>1, <1>2, <1>4 DEF Inv

LEMMA NextInv == Inv /\ [Next]_vars => Inv'
<1> SUFFICES ASSUME Inv, [Next]_vars PROVE Inv'
  OBVIOUS
<1>1. TypeOK /\ OpInv /\ EnvelopesTracked /\ Capacity
  BY DEF Inv
<1>2. TypeOK'
  BY <1>1, TypeNext
<1>3. CASE UNCHANGED vars
  <2>1. HostUnchanged
    BY <1>3 DEF vars, HostUnchanged
  <2>2. QED BY <1>1, <1>2, <2>1, UnchangedInv DEF Inv
<1>4. CASE Next
  <2>1. OpInv' /\ EnvelopesTracked' /\ Capacity'
    BY <1>1, <1>4, GuardInv, RequestInv, EngineInv, OtherInv DEF Next
  <2>2. QED BY <1>2, <2>1 DEF Inv
<1>5. QED BY <1>3, <1>4

\* The inductive invariant holds in every state of the admission.
THEOREM Invariance == Spec => []Inv
  BY InitInv, NextInv, PTL DEF Spec

\* Every variable keeps its type.
THEOREM TypeCorrect == Spec => []TypeOK
<1>1. Inv => TypeOK
  BY DEF Inv
<1>2. QED BY <1>1, Invariance, PTL

\* The node's limit holds for every number of allocations, workers and
\* callers, and no VM runs outside a counted envelope (ReserveProfile).
THEOREM LimitHolds == Spec => []Capacity
<1>1. Inv => Capacity
  BY DEF Inv
<1>2. QED BY <1>1, Invariance, PTL

\* No crash, reboot, release or recovery leaves an envelope without its
\* record.
THEOREM EnvelopesKnown == Spec => []EnvelopesTracked
<1>1. Inv => EnvelopesTracked
  BY DEF Inv
<1>2. QED BY <1>1, Invariance, PTL

-----------------------------------------------------------------------------
(* Released user code, launches and recoveries.                             *)

\* A launch that has not created its worker yet.
Launching(w) == client[w] \in {"reserve", "create"} /\ engine[w] = "none"

\* What is released is known to the engine, and no start of it is under way.
ReleasedLives ==
  /\ \A w \in released : Present(w)
  /\ bmu.task = "start" => bmu.worker \notin released

\* A caller asks for a start, or for the reservation that one needs, only of a
\* worker that does not run; a reservation is for its own caller.
StartsOutside ==
  /\ \A w \in Workers : client[w] = "start" \/ engine[w] = "none" => ~Inside(w)
  /\ op.kind = "reserve" =>
       /\ op.worker \in Workers /\ op.alloc = Home[op.worker]
       /\ op.caller # None =>
            op.caller = op.worker /\ client[op.worker] = "reserve" /\ ~Inside(op.worker)

\* A verified envelope keeps its limits until its worker is inspected.
InspectsReady ==
  op.step = "inspect" => op.alloc = Home[op.worker] /\ cgroup[op.alloc] = "ready"

\* A launch is alone in its allocation, and what it finds or leaves there is a
\* fresh, unbound reservation with nobody inside.
LaunchesAlone ==
  \A w \in Workers :
    /\ client[w] = "create" => engine[w] = "none"
    /\ Launching(w) =>
         /\ record[Home[w]].present =>
              record[Home[w]].recent /\ record[Home[w]].worker = None
         /\ \A v \in Siblings(w) : ~Present(v) /\ ~Reserving(v)
         /\ client[w] = "create" \/ (op.kind = "reserve" /\ op.caller = w) =>
              vm[Home[w]] = None

\* A recovery holds a record, has read a reservation that somebody relies on as
\* nobody's, and is about nobody's allocation once it has seen the engine's list.
RecoversDead ==
  /\ op.step \in {"list", "confirm", "kill"} => op.kind = "recover"
  /\ op.kind = "recover" =>
       /\ op.step # "none" /\ record[op.alloc].present
       /\ \A w \in Workers : Home[w] = op.alloc =>
            IF op.step = "list" THEN client[w] = "create" => op.worker = None
                                ELSE ~Present(w) /\ client[w] # "create"

\* Inductive together with Inv.
BoundInv == ReleasedIsBound /\ ReleasedLives /\ StartsOutside /\ InspectsReady
            /\ LaunchesAlone /\ RecoversDead

\* What the first invariant says of each variable.
LEMMA HostFacts ==
  ASSUME Inv
  PROVE  /\ record \in [Allocations -> Records]
         /\ vm \in [Allocations -> Workers \cup {None}]
         /\ cgroup \in [Allocations -> {"none", "bare", "ready"}]
         /\ engine \in [Workers -> {"none", "present", "deleted"}]
         /\ op \in Ops /\ client \in [Workers -> ClientStates] /\ released \subseteq Workers
         /\ Home \in [Workers -> Allocations] /\ None \notin Workers \cup Allocations
         /\ \A a \in Allocations : cgroup[a] # "none" => record[a].present
         /\ \A a \in Allocations : vm[a] # None => cgroup[a] # "none"
         /\ op.step # "none" => op.alloc \in Allocations
         /\ op.step = "inspect" => op.worker \in Workers
         /\ op.step = "mkdir" => cgroup[op.alloc] = "none"
         /\ op.step = "limits" => cgroup[op.alloc] # "none"
         /\ op.step = "forget" => cgroup[op.alloc] = "none"
  BY AdmissionAssumption DEF Inv, TypeOK, OpInv, EnvelopesTracked, Envelopes, Capacity,
     ClientStates

\* A request that ends lets its caller, and nobody else, go on.
LEMMA ReplyEffect ==
  ASSUME Inv, NEW pc \in ClientStates, Reply(pc)
  PROVE  /\ op'.kind = "none" /\ op'.step = "none" /\ op'.caller = None
         /\ \A v \in Workers : client'[v] = client[v] \/ (v = op.caller /\ client'[v] = pc)
<1>1. op' = Idle
  BY DEF Reply
<1>2. CASE op.caller = None
  BY <1>1, <1>2 DEF Reply, Idle
<1>3. CASE op.caller # None
  <2>1. client' = [client EXCEPT ![op.caller] = pc]
    BY <1>3 DEF Reply
  <2>2. QED BY <1>1, <2>1, HostFacts DEF Idle
<1>4. QED BY <1>2, <1>3

\* A caller whose request failed gives up, or undoes what there is.
LEMMA UndoingStates == \A w : Undoing(w) \in {"idle", "stop", "release"}
  BY DEF Undoing

\* The end of a worker takes its own VM and nothing else.
LEMMA EndEffect ==
  ASSUME Inv, NEW w \in Workers,
         End(w) \/ (vm' = [vm EXCEPT ![Home[w]] = None] /\ Inside(w))
  PROVE  /\ \A a \in Allocations : vm'[a] = vm[a] \/ (vm'[a] = None /\ vm[a] = w)
         /\ End(w) => released' = released \ {w}
<1>1. CASE vm' = [vm EXCEPT ![Home[w]] = None] /\ Inside(w)
  BY <1>1, HostFacts DEF Inside, End
<1>2. CASE vm' = vm
  BY <1>2 DEF End
<1>3. QED BY <1>1, <1>2 DEF End

\* AbortCreate takes nothing from another worker.
LEMMA AbortEffect ==
  ASSUME Inv, NEW w \in Workers, AbortCreate(w)
  PROVE  \A a \in Allocations : vm'[a] = vm[a] \/ (vm'[a] = None /\ vm[a] \in {None, w})
  BY HostFacts DEF AbortCreate, Attested

\* A caller takes admission.lock and finds, or begins, its reservation.
LEMMA ReserveInv ==
  ASSUME BoundInv, NEW w \in Workers, Inv, Reserve(w)
  PROVE  BoundInv'
<1>1. /\ client[w] = "reserve" /\ op.kind = "none" /\ op.step = "none"
      /\ UNCHANGED <<cgroup, vm, engine, bmu, released>>
  BY HostFacts DEF Reserve, hostVars, engineVars, Idle
<1>2. \/ /\ vm[Home[w]] = None /\ UNCHANGED <<record, op>>
         /\ client'[w] = IF engine[w] = "none" THEN "create" ELSE "start"
         /\ \A v \in Workers \ {w} : client'[v] = client[v]
      \/ /\ cgroup[Home[w]] = "none" /\ vm[Home[w]] = None /\ client' = client
         /\ record' = Tracked(Home[w]) /\ op' = Holder("reserve", "mkdir", Home[w], w)
      \/ /\ client'[w] \in {"idle", "stop", "release"} /\ UNCHANGED <<record, op>>
         /\ \A v \in Workers \ {w} : client'[v] = client[v]
  BY HostFacts DEF Reserve, hostVars, engineVars, Go, Undoing, Reserved
<1>3. \A a \in Allocations :
        \/ record'[a] = record[a]
        \/ /\ cgroup[a] = "none" /\ a = Home[w] /\ record'[a].present
           /\ record'[a].worker = None /\ record'[a].recent
  BY <1>2, HostFacts DEF Tracked, Records
<1>4. \A a \in Allocations : record[a].present => record'[a] = record[a]
  BY <1>2, HostFacts DEF Tracked
<1>5. \/ op' = op
      \/ /\ op'.kind = "reserve" /\ op'.step = "mkdir" /\ op'.alloc = Home[w]
         /\ op'.worker = w /\ op'.caller = w /\ client' = client /\ vm[Home[w]] = None
  BY <1>2 DEF Holder
<1>6. ReleasedIsBound'
  BY <1>1, <1>2, <1>3, <1>4, <1>5, HostFacts DEF BoundInv, ReleasedIsBound, Inside
<1>7. StartsOutside'
  BY <1>1, <1>2, <1>3, <1>4, <1>5, HostFacts DEF BoundInv, StartsOutside, Inside
<1>8. InspectsReady'
  BY <1>1, <1>2, <1>3, <1>4, <1>5, HostFacts DEF BoundInv, InspectsReady
<1>9. LaunchesAlone'
  BY <1>1, <1>2, <1>3, <1>4, <1>5, HostFacts DEF BoundInv, LaunchesAlone, Launching,
     Siblings,
     Present, Reserving
<1>10. RecoversDead'
  BY <1>1, <1>2, <1>3, <1>4, <1>5, HostFacts DEF BoundInv, RecoversDead, Present
<1>11. ReleasedLives'
  BY <1>1, <1>2, <1>3, <1>4, <1>5 DEF BoundInv, ReleasedLives, Present
<1>12. QED BY <1>6, <1>7, <1>8, <1>9, <1>10, <1>11 DEF BoundInv

\* The reservation makes its envelope.
LEMMA ReserveMkdirInv ==
  ASSUME BoundInv, Inv, ReserveMkdir
  PROVE  BoundInv'
<1>1. /\ op.kind = "reserve" /\ op.step = "mkdir"
      /\ UNCHANGED <<record, vm, engine, bmu, released>>
  BY HostFacts DEF ReserveMkdir, hostVars, engineVars
<1>2. \/ /\ op'.kind = op.kind /\ op'.step = "limits" /\ op'.alloc = op.alloc
         /\ op'.worker = op.worker /\ op'.caller = op.caller /\ client' = client
      \/ /\ op'.kind = "none" /\ op'.step = "none" /\ op'.caller = None
  BY HostFacts DEF ReserveMkdir, hostVars, engineVars, Reply, Undoing, Reserved, Idle, Ops
<1>3. \A v \in Workers : \/ client'[v] = client[v]
                         \/ v = op.caller /\ client'[v] \in {"idle", "stop", "release"}
  <2>1. \/ client' = client
        \/ \E pc \in {"idle", "stop", "release"} : Reply(pc)
    BY UndoingStates DEF ReserveMkdir
  <2>2. QED BY <2>1, ReplyEffect DEF ClientStates
<1>4. \A a \in Allocations : cgroup'[a] = cgroup[a] \/ a = op.alloc
  BY HostFacts DEF ReserveMkdir, hostVars, engineVars
<1>5. \A a \in Allocations : cgroup[a] # "none" => cgroup'[a] = cgroup[a]
  BY HostFacts DEF ReserveMkdir, hostVars, engineVars
<1>6. ReleasedIsBound'
  BY <1>1, <1>2, <1>3, <1>4, <1>5, HostFacts DEF BoundInv, ReleasedIsBound, Inside
<1>7. StartsOutside'
  BY <1>1, <1>2, <1>3, <1>4, <1>5, HostFacts DEF BoundInv, StartsOutside, Inside
<1>8. InspectsReady'
  BY <1>1, <1>2, <1>3, <1>4, <1>5, HostFacts DEF BoundInv, InspectsReady
<1>9. LaunchesAlone'
  BY <1>1, <1>2, <1>3, <1>4, <1>5, HostFacts DEF BoundInv, LaunchesAlone, Launching,
     Siblings,
     Present, Reserving
<1>10. RecoversDead'
  BY <1>1, <1>2, <1>3, <1>4, <1>5, HostFacts DEF BoundInv, RecoversDead, Present
<1>11. ReleasedLives'
  BY <1>1, <1>2, <1>3, <1>4, <1>5 DEF BoundInv, ReleasedLives, Present
<1>12. QED BY <1>6, <1>7, <1>8, <1>9, <1>10, <1>11 DEF BoundInv

\* The envelope gets its limits, or is removed.
LEMMA ReserveLimitsInv ==
  ASSUME BoundInv, Inv, ReserveLimits
  PROVE  BoundInv'
<1>1. /\ op.kind = "reserve" /\ op.step = "limits"
      /\ UNCHANGED <<record, vm, engine, bmu, released>>
  BY HostFacts DEF ReserveLimits, hostVars, engineVars
<1>2. op'.kind = "none" /\ op'.step = "none" /\ op'.caller = None
  BY HostFacts DEF ReserveLimits, hostVars, engineVars, Reply, Undoing, Reserved, Idle
<1>3. \A v \in Workers :
        \/ client'[v] = client[v]
        \/ v = op.caller /\ client'[v] \in {"idle", "stop", "release"}
        \/ /\ v = op.caller
           /\ client'[v] = IF engine[op.worker] = "none" THEN "create" ELSE "start"
  BY HostFacts DEF ReserveLimits, hostVars, engineVars, Reply, Undoing, Reserved, Idle
<1>4. \A a \in Allocations : cgroup'[a] \in {cgroup[a], "ready"} \/ vm[a] = None
  BY HostFacts DEF ReserveLimits, hostVars, engineVars
<1>5. ReleasedIsBound'
  BY <1>1, <1>2, <1>3, <1>4, HostFacts DEF BoundInv, ReleasedIsBound, Inside
<1>6. StartsOutside'
  BY <1>1, <1>2, <1>3, <1>4, HostFacts DEF BoundInv, StartsOutside, Inside
<1>7. InspectsReady'
  BY <1>1, <1>2, <1>3, <1>4, HostFacts DEF BoundInv, InspectsReady
<1>8. LaunchesAlone'
  BY <1>1, <1>2, <1>3, <1>4, HostFacts DEF BoundInv, LaunchesAlone, Known, Present,
     StartsOutside, Launching, Siblings, Reserving
<1>9. RecoversDead'
  BY <1>1, <1>2, <1>3, <1>4, HostFacts DEF BoundInv, RecoversDead, Present
<1>10. ReleasedLives'
  BY <1>1, <1>2, <1>3, <1>4 DEF BoundInv, ReleasedLives, Present
<1>11. QED BY <1>5, <1>6, <1>7, <1>8, <1>9, <1>10 DEF BoundInv

\* A caller takes admission.lock and finds its VM in its envelope.
LEMMA VerifyInv ==
  ASSUME BoundInv, NEW w \in Workers, Inv, Verify(w)
  PROVE  BoundInv'
<1>1. /\ client[w] = "verify" /\ op.kind = "none" /\ op.step = "none" /\ op.caller = None
      /\ UNCHANGED <<record, cgroup, vm, engine, bmu, released>>
  BY HostFacts DEF Verify, hostVars, engineVars, Idle
<1>2. \/ op' = op /\ client'[w] \in {"idle", "stop", "release"}
         /\ \A v \in Workers \ {w} : client'[v] = client[v]
      \/ /\ op' = Holder("verify", "inspect", Home[w], w) /\ client' = client
         /\ cgroup[Home[w]] = "ready"
  <2>1. \/ op' = op /\ client' = [client EXCEPT ![w] = Undoing(w)]
        \/ /\ op' = Holder("verify", "inspect", Home[w], w) /\ client' = client
           /\ cgroup[Home[w]] = "ready"
    BY DEF Verify, Go, Attested, LimitsOK
  <2>2. QED BY <2>1, HostFacts, UndoingStates
<1>3. \/ op' = op
      \/ /\ op'.kind = "verify" /\ op'.step = "inspect" /\ op'.alloc = Home[w]
         /\ op'.worker = w /\ op'.caller = w /\ client' = client
         /\ cgroup[Home[w]] = "ready"
  BY <1>2 DEF Holder
<1>4. StartsOutside'
  BY <1>1, <1>2, <1>3, HostFacts DEF BoundInv, StartsOutside, Inside
<1>5. InspectsReady'
  BY <1>1, <1>2, <1>3, HostFacts DEF BoundInv, InspectsReady
<1>6. LaunchesAlone'
  BY <1>1, <1>2, <1>3, HostFacts DEF BoundInv, LaunchesAlone, Launching, Siblings, Present,
     Reserving
<1>7. RecoversDead'
  BY <1>1, <1>2, <1>3, HostFacts DEF BoundInv, RecoversDead, Present
<1>8. ReleasedIsBound' /\ ReleasedLives'
  BY <1>1, <1>2, <1>3 DEF BoundInv, ReleasedIsBound, ReleasedLives, Inside, Present
<1>9. QED BY <1>4, <1>5, <1>6, <1>7, <1>8 DEF BoundInv

\* The node binds the record and releases the user code.
LEMMA VerifyInspectInv ==
  ASSUME BoundInv, Inv, VerifyInspect
  PROVE  BoundInv'
<1>1. /\ op.kind = "verify" /\ op.step = "inspect" /\ bmu.task = "none"
      /\ UNCHANGED <<cgroup, vm, engine, bmu>>
  BY HostFacts DEF VerifyInspect, hostVars, engineVars, Free
<1>2. op'.kind = "none" /\ op'.step = "none" /\ op'.caller = None
  BY HostFacts DEF VerifyInspect, hostVars, engineVars, Reply, Undoing, Reserved, Idle
<1>3. \A v \in Workers : \/ client'[v] = client[v]
                         \/ v = op.caller /\ client'[v] \in {"idle", "stop", "release"}
  <2>1. \/ client' = client
        \/ \E pc \in {"idle", "stop", "release"} : Reply(pc)
    BY UndoingStates DEF VerifyInspect
  <2>2. QED BY <2>1, ReplyEffect DEF ClientStates
<1>4. /\ \A a \in Allocations : record'[a].present = record[a].present
      /\ \A a \in Allocations : \/ record'[a] = record[a]
                                \/ /\ a = op.alloc /\ Present(op.worker)
                                   /\ record[a].worker \in {None, op.worker}
                                   /\ record'[a].worker = op.worker
  BY HostFacts DEF VerifyInspect, hostVars, engineVars, Bindable, Records
<1>5. \/ released' = released
      \/ /\ released' = released \cup {op.worker} /\ Present(op.worker) /\ Inside(op.worker)
         /\ record'[op.alloc].worker = op.worker
  BY HostFacts DEF VerifyInspect, hostVars, engineVars, Records
<1>6. ReleasedIsBound'
  BY <1>1, <1>2, <1>3, <1>4, <1>5, HostFacts DEF BoundInv, ReleasedIsBound, Inside,
     InspectsReady
<1>7. ReleasedLives'
  BY <1>1, <1>2, <1>3, <1>4, <1>5, HostFacts DEF BoundInv, ReleasedLives, Present
<1>8. StartsOutside'
  BY <1>1, <1>2, <1>3, <1>4, <1>5, HostFacts DEF BoundInv, StartsOutside, Inside
<1>9. InspectsReady'
  BY <1>1, <1>2, <1>3, <1>4, <1>5, HostFacts DEF BoundInv, InspectsReady
<1>10. LaunchesAlone'
  <2>1. op.alloc = Home[op.worker] /\ op.worker \in Workers
    BY <1>1, HostFacts DEF BoundInv, InspectsReady
  <2>2. ASSUME NEW w \in Workers, Launching(w) PROVE record'[Home[w]] = record[Home[w]]
    <3>1. CASE Present(op.worker) /\ Home[w] = op.alloc
      <4>1. op.worker \in Siblings(w)
        BY <2>1, <2>2, <3>1 DEF Launching, Present, Siblings
      <4>2. QED BY <2>2, <3>1, <4>1 DEF BoundInv, LaunchesAlone
    <3>2. QED BY <1>4, <3>1, HostFacts
  <2>3. ASSUME NEW w \in Workers
        PROVE  /\ client'[w] = "create" => client[w] = "create"
               /\ Launching(w)' => Launching(w)
               /\ Reserving(w)' => Reserving(w)
    BY <1>1, <1>3 DEF Launching, Reserving
  <2>4. QED BY <1>1, <1>2, <2>2, <2>3 DEF BoundInv, LaunchesAlone, Siblings, Present
<1>11. RecoversDead'
  BY <1>1, <1>2, <1>3, <1>4, <1>5, HostFacts DEF BoundInv, RecoversDead, Present
<1>12. QED BY <1>6, <1>7, <1>8, <1>9, <1>10, <1>11 DEF BoundInv

\* A caller takes admission.lock to release its reservation.
LEMMA ReleaseInv ==
  ASSUME BoundInv, NEW w \in Workers, Inv, Release(w)
  PROVE  BoundInv'
<1>1. op.kind = "none" /\ UNCHANGED <<record, cgroup, vm, engine, bmu, client, released>>
  BY HostFacts DEF Release, hostVars, engineVars, Idle
<1>2. op'.kind = "release" /\ op'.step = "check" /\ op'.caller = w
  BY HostFacts DEF Release, hostVars, engineVars, Holder
<1>3. StartsOutside'
  BY <1>1, <1>2, HostFacts DEF BoundInv, StartsOutside, Inside
<1>4. InspectsReady'
  BY <1>1, <1>2, HostFacts DEF BoundInv, InspectsReady
<1>5. LaunchesAlone'
  BY <1>1, <1>2, HostFacts DEF BoundInv, LaunchesAlone, Launching, Siblings, Present,
     Reserving
<1>6. RecoversDead'
  BY <1>1, <1>2, HostFacts DEF BoundInv, RecoversDead, Present
<1>7. ReleasedIsBound' /\ ReleasedLives'
  BY <1>1, <1>2 DEF BoundInv, ReleasedIsBound, ReleasedLives, Inside, Present
<1>8. QED BY <1>3, <1>4, <1>5, <1>6, <1>7 DEF BoundInv

\* The release reads the record and the envelope.
LEMMA ReleaseCheckInv ==
  ASSUME BoundInv, Inv, ReleaseCheck
  PROVE  BoundInv'
<1>1. op.step = "check" /\ UNCHANGED <<record, cgroup, vm, engine, bmu, released>>
  BY HostFacts DEF ReleaseCheck, hostVars, engineVars
<1>2. \/ /\ op'.kind = op.kind /\ op'.step \in {"forget", "remove"} /\ op'.alloc = op.alloc
         /\ op'.worker = op.worker /\ op'.caller = op.caller /\ client' = client
      \/ /\ op'.kind = "none" /\ op'.step = "none" /\ op'.caller = None
  BY HostFacts DEF ReleaseCheck, hostVars, engineVars, Reply, Undoing, Reserved, Idle, Ops
<1>3. \A v \in Workers : \/ client'[v] = client[v]
                         \/ v = op.caller /\ client'[v] \in {"idle"}
  <2>1. \/ client' = client
        \/ \E pc \in {"idle"} : Reply(pc)
    BY UndoingStates DEF ReleaseCheck
  <2>2. QED BY <2>1, ReplyEffect DEF ClientStates
<1>4. StartsOutside'
  BY <1>1, <1>2, <1>3, HostFacts DEF BoundInv, StartsOutside, Inside
<1>5. InspectsReady'
  BY <1>1, <1>2, <1>3, HostFacts DEF BoundInv, InspectsReady
<1>6. LaunchesAlone'
  BY <1>1, <1>2, <1>3, HostFacts DEF BoundInv, LaunchesAlone, Launching, Siblings, Present,
     Reserving
<1>7. RecoversDead'
  BY <1>1, <1>2, <1>3, HostFacts DEF BoundInv, RecoversDead, Present
<1>8. ReleasedIsBound' /\ ReleasedLives'
  BY <1>1, <1>2, <1>3 DEF BoundInv, ReleasedIsBound, ReleasedLives, Inside, Present
<1>9. QED BY <1>4, <1>5, <1>6, <1>7, <1>8 DEF BoundInv

\* An empty envelope is removed.
LEMMA ReleaseRemoveInv ==
  ASSUME BoundInv, Inv, ReleaseRemove
  PROVE  BoundInv'
<1>1. /\ op.step = "remove" /\ vm[op.alloc] = None
      /\ UNCHANGED <<record, vm, engine, bmu, client, released>>
  BY HostFacts DEF ReleaseRemove, hostVars, engineVars, Empty
<1>2. /\ op'.kind = op.kind /\ op'.step = "forget" /\ op'.alloc = op.alloc
      /\ op'.worker = op.worker /\ op'.caller = op.caller
  BY HostFacts DEF ReleaseRemove, hostVars, engineVars, Ops
<1>3. \A a \in Allocations : cgroup'[a] = cgroup[a] \/ a = op.alloc
  BY HostFacts DEF ReleaseRemove, hostVars, engineVars
<1>4. ReleasedIsBound'
  BY <1>1, <1>2, <1>3, HostFacts DEF BoundInv, ReleasedIsBound, Inside
<1>5. StartsOutside'
  BY <1>1, <1>2, <1>3, HostFacts DEF BoundInv, StartsOutside, Inside
<1>6. InspectsReady'
  BY <1>1, <1>2, <1>3, HostFacts DEF BoundInv, InspectsReady
<1>7. LaunchesAlone'
  BY <1>1, <1>2, <1>3, HostFacts DEF BoundInv, LaunchesAlone, Launching, Siblings, Present,
     Reserving
<1>8. RecoversDead'
  BY <1>1, <1>2, <1>3, HostFacts DEF BoundInv, RecoversDead, Present
<1>9. ReleasedLives'
  BY <1>1, <1>2, <1>3 DEF BoundInv, ReleasedLives, Present
<1>10. QED BY <1>4, <1>5, <1>6, <1>7, <1>8, <1>9 DEF BoundInv

\* The release gives up.
LEMMA ReleaseFailsInv ==
  ASSUME BoundInv, Inv, ReleaseFails
  PROVE  BoundInv'
<1>1. UNCHANGED <<record, cgroup, vm, engine, bmu, released>>
  BY HostFacts DEF ReleaseFails, hostVars, engineVars
<1>2. op'.kind = "none" /\ op'.step = "none" /\ op'.caller = None
  BY HostFacts DEF ReleaseFails, hostVars, engineVars, Reply, Undoing, Reserved, Idle
<1>3. \A v \in Workers : \/ client'[v] = client[v]
                         \/ v = op.caller /\ client'[v] \in {"idle"}
  <2>1. \/ client' = client
        \/ \E pc \in {"idle"} : Reply(pc)
    BY UndoingStates DEF ReleaseFails
  <2>2. QED BY <2>1, ReplyEffect DEF ClientStates
<1>4. StartsOutside'
  BY <1>1, <1>2, <1>3, HostFacts DEF BoundInv, StartsOutside, Inside
<1>5. InspectsReady'
  BY <1>1, <1>2, <1>3, HostFacts DEF BoundInv, InspectsReady
<1>6. LaunchesAlone'
  BY <1>1, <1>2, <1>3, HostFacts DEF BoundInv, LaunchesAlone, Launching, Siblings, Present,
     Reserving
<1>7. RecoversDead'
  BY <1>1, <1>2, <1>3, HostFacts DEF BoundInv, RecoversDead, Present
<1>8. ReleasedIsBound' /\ ReleasedLives'
  BY <1>1, <1>2, <1>3 DEF BoundInv, ReleasedIsBound, ReleasedLives, Inside, Present
<1>9. QED BY <1>4, <1>5, <1>6, <1>7, <1>8 DEF BoundInv

\* The record is removed.
LEMMA ReleaseForgetInv ==
  ASSUME BoundInv, Inv, ReleaseForget
  PROVE  BoundInv'
<1>1. cgroup[op.alloc] = "none" /\ UNCHANGED <<cgroup, vm, engine, bmu, released>>
  BY HostFacts DEF ReleaseForget, hostVars, engineVars
<1>2. op'.kind = "none" /\ op'.step = "none" /\ op'.caller = None
  BY HostFacts DEF ReleaseForget, hostVars, engineVars, Reply, Undoing, Reserved, Idle
<1>3. \A v \in Workers : \/ client'[v] = client[v]
                         \/ v = op.caller /\ client'[v] \in {"idle"}
  <2>1. \/ client' = client
        \/ \E pc \in {"idle"} : Reply(pc)
    BY UndoingStates DEF ReleaseForget
  <2>2. QED BY <2>1, ReplyEffect DEF ClientStates
<1>4. \A a \in Allocations : record'[a] = record[a] \/ (~record'[a].present /\ a = op.alloc)
  <2>1. record' = [record EXCEPT ![op.alloc] = NoRecord] /\ ~NoRecord.present
    BY DEF ReleaseForget, NoRecord
  <2>2. QED BY <2>1, HostFacts
<1>5. ReleasedIsBound'
  BY <1>1, <1>2, <1>3, <1>4, HostFacts DEF BoundInv, ReleasedIsBound, Inside
<1>6. StartsOutside'
  BY <1>1, <1>2, <1>3, <1>4, HostFacts DEF BoundInv, StartsOutside, Inside
<1>7. InspectsReady'
  BY <1>1, <1>2, <1>3, <1>4, HostFacts DEF BoundInv, InspectsReady
<1>8. LaunchesAlone'
  BY <1>1, <1>2, <1>3, <1>4, HostFacts DEF BoundInv, LaunchesAlone, Launching, Siblings,
     Present, Reserving
<1>9. RecoversDead'
  BY <1>1, <1>2, <1>3, <1>4, HostFacts DEF BoundInv, RecoversDead, Present
<1>10. ReleasedLives'
  BY <1>1, <1>2, <1>3, <1>4 DEF BoundInv, ReleasedLives, Present
<1>11. QED BY <1>5, <1>6, <1>7, <1>8, <1>9, <1>10 DEF BoundInv

\* The inventory takes admission.lock for one allocation.
LEMMA RecoverInv ==
  ASSUME BoundInv, NEW a \in Allocations, NEW force \in BOOLEAN, Inv, Recover(a, force)
  PROVE  BoundInv'
<1>1. op.kind = "none" /\ UNCHANGED <<record, cgroup, vm, engine, bmu, client, released>>
  BY HostFacts DEF Recover, hostVars, engineVars, Idle
<1>2. /\ op'.kind = "recover" /\ op'.step = "list" /\ op'.alloc = a /\ op'.caller = None
      /\ record[a].present
      /\ op'.worker = IF record[a].worker # None THEN record[a].worker ELSE vm[a]
  BY HostFacts DEF Recover, hostVars, engineVars
<1>3. StartsOutside'
  BY <1>1, <1>2, HostFacts DEF BoundInv, StartsOutside, Inside
<1>4. InspectsReady'
  BY <1>1, <1>2, HostFacts DEF BoundInv, InspectsReady
<1>5. LaunchesAlone'
  BY <1>1, <1>2, HostFacts DEF BoundInv, LaunchesAlone, Launching, Siblings, Present,
     Reserving
<1>6. RecoversDead'
  BY <1>1, <1>2, HostFacts DEF BoundInv, RecoversDead, Present, Inside, Siblings, Launching,
     Reserving, LaunchesAlone
<1>7. ReleasedIsBound' /\ ReleasedLives'
  BY <1>1, <1>2 DEF BoundInv, ReleasedIsBound, ReleasedLives, Inside, Present
<1>8. QED BY <1>3, <1>4, <1>5, <1>6, <1>7 DEF BoundInv

\* The recovery reads the list of the engine.
LEMMA RecoverListInv ==
  ASSUME BoundInv, Inv, RecoverList
  PROVE  BoundInv'
<1>1. op.step = "list" /\ UNCHANGED <<record, cgroup, vm, engine, bmu, released>>
  BY HostFacts DEF RecoverList, hostVars, engineVars
<1>2. \/ /\ op'.kind = op.kind /\ op'.step \in {"confirm", "kill"} /\ op'.alloc = op.alloc
         /\ op'.worker = op.worker /\ op'.caller = op.caller /\ client' = client
         /\ ~Known(op.alloc) /\ (op.worker = None => ~record[op.alloc].recent)
      \/ /\ op'.kind = "none" /\ op'.step = "none" /\ op'.caller = None
  BY HostFacts DEF RecoverList, hostVars, engineVars, Reply, Undoing, Reserved, Idle, Ops,
     Recoverable
<1>3. \A v \in Workers : \/ client'[v] = client[v]
                         \/ v = op.caller /\ client'[v] \in {"idle"}
  <2>1. \/ client' = client
        \/ \E pc \in {"idle"} : Reply(pc)
    BY UndoingStates DEF RecoverList
  <2>2. QED BY <2>1, ReplyEffect DEF ClientStates
<1>4. StartsOutside'
  BY <1>1, <1>2, <1>3, HostFacts DEF BoundInv, StartsOutside, Inside
<1>5. InspectsReady'
  BY <1>1, <1>2, <1>3, HostFacts DEF BoundInv, InspectsReady
<1>6. LaunchesAlone'
  BY <1>1, <1>2, <1>3, HostFacts DEF BoundInv, LaunchesAlone, Launching, Siblings, Present,
     Reserving
<1>7. RecoversDead'
  BY <1>1, <1>2, <1>3, HostFacts DEF BoundInv, RecoversDead, LaunchesAlone, Launching,
     Known, Present
<1>8. ReleasedIsBound' /\ ReleasedLives'
  BY <1>1, <1>2, <1>3 DEF BoundInv, ReleasedIsBound, ReleasedLives, Inside, Present
<1>9. QED BY <1>4, <1>5, <1>6, <1>7, <1>8 DEF BoundInv

\* The recovery asks for its worker once more.
LEMMA RecoverConfirmInv ==
  ASSUME BoundInv, Inv, RecoverConfirm
  PROVE  BoundInv'
<1>1. op.step = "confirm" /\ UNCHANGED <<record, cgroup, vm, engine, bmu, released>>
  BY HostFacts DEF RecoverConfirm, hostVars, engineVars
<1>2. \/ /\ op'.kind = op.kind /\ op'.step = "kill" /\ op'.alloc = op.alloc
         /\ op'.worker = op.worker /\ op'.caller = op.caller /\ client' = client
      \/ /\ op'.kind = "none" /\ op'.step = "none" /\ op'.caller = None
  BY HostFacts DEF RecoverConfirm, hostVars, engineVars, Reply, Undoing, Reserved, Idle, Ops
<1>3. \A v \in Workers : \/ client'[v] = client[v]
                         \/ v = op.caller /\ client'[v] \in {"idle"}
  <2>1. \/ client' = client
        \/ \E pc \in {"idle"} : Reply(pc)
    BY UndoingStates DEF RecoverConfirm
  <2>2. QED BY <2>1, ReplyEffect DEF ClientStates
<1>4. StartsOutside'
  BY <1>1, <1>2, <1>3, HostFacts DEF BoundInv, StartsOutside, Inside
<1>5. InspectsReady'
  BY <1>1, <1>2, <1>3, HostFacts DEF BoundInv, InspectsReady
<1>6. LaunchesAlone'
  BY <1>1, <1>2, <1>3, HostFacts DEF BoundInv, LaunchesAlone, Launching, Siblings, Present,
     Reserving
<1>7. RecoversDead'
  BY <1>1, <1>2, <1>3, HostFacts DEF BoundInv, RecoversDead, Present
<1>8. ReleasedIsBound' /\ ReleasedLives'
  BY <1>1, <1>2, <1>3 DEF BoundInv, ReleasedIsBound, ReleasedLives, Inside, Present
<1>9. QED BY <1>4, <1>5, <1>6, <1>7, <1>8 DEF BoundInv

\* The recovery kills what is left.
LEMMA RecoverKillInv ==
  ASSUME BoundInv, Inv, RecoverKill
  PROVE  BoundInv'
<1>1. op.step = "kill" /\ UNCHANGED <<record, cgroup, engine, bmu, released>>
  BY HostFacts DEF RecoverKill, hostVars, engineVars
<1>2. \/ /\ op'.kind = op.kind /\ op'.step = "check" /\ op'.alloc = op.alloc
         /\ op'.worker = op.worker /\ op'.caller = op.caller /\ client' = client
      \/ /\ op'.kind = "none" /\ op'.step = "none" /\ op'.caller = None
  BY HostFacts DEF RecoverKill, hostVars, engineVars, Reply, Undoing, Reserved, Idle, Ops
<1>3. \A v \in Workers : \/ client'[v] = client[v]
                         \/ v = op.caller /\ client'[v] \in {"idle"}
  <2>1. \/ client' = client
        \/ \E pc \in {"idle"} : Reply(pc)
    BY UndoingStates DEF RecoverKill
  <2>2. QED BY <2>1, ReplyEffect DEF ClientStates
<1>4. \A a \in Allocations : vm'[a] = vm[a] \/ (a = op.alloc /\ vm'[a] = None)
  <2>1. vm' = vm \/ vm' = [vm EXCEPT ![op.alloc] = None]
    BY DEF RecoverKill
  <2>2. QED BY <2>1, HostFacts
<1>5. ReleasedIsBound'
  BY <1>1, <1>2, <1>3, <1>4, HostFacts DEF BoundInv, ReleasedIsBound, Present, Inside,
     Siblings,
     Launching, Reserving, ReleasedLives, StartsOutside, InspectsReady, LaunchesAlone,
     RecoversDead
<1>6. StartsOutside'
  BY <1>1, <1>2, <1>3, <1>4, HostFacts DEF BoundInv, StartsOutside, Inside
<1>7. InspectsReady'
  BY <1>1, <1>2, <1>3, <1>4, HostFacts DEF BoundInv, InspectsReady
<1>8. LaunchesAlone'
  BY <1>1, <1>2, <1>3, <1>4, HostFacts DEF BoundInv, LaunchesAlone, Launching, Siblings,
     Present, Reserving
<1>9. RecoversDead'
  BY <1>1, <1>2, <1>3, <1>4, HostFacts DEF BoundInv, RecoversDead, Present
<1>10. ReleasedLives'
  BY <1>1, <1>2, <1>3, <1>4 DEF BoundInv, ReleasedLives, Present
<1>11. QED BY <1>5, <1>6, <1>7, <1>8, <1>9, <1>10 DEF BoundInv

\* A start of the engine ends.
LEMMA StartEndsInv ==
  ASSUME BoundInv, NEW w \in Workers, Inv, StartEnds(w)
  PROVE  BoundInv'
<1>1. /\ bmu.task = "start" /\ bmu.worker = w /\ bmu'.task = "none"
      /\ UNCHANGED <<record, cgroup, engine, op, released>>
  BY HostFacts DEF StartEnds, hostVars, engineVars, Free
<1>2. \/ client' = client
      \/ client[w] = "starting" /\ /\ client'[w] \in {"verify", "stop"}
         /\ \A v \in Workers \ {w} : client'[v] = client[v]
  BY HostFacts DEF StartEnds, hostVars, engineVars, Answer, Go
<1>3. \A a \in Allocations : \/ vm'[a] = vm[a]
                             \/ vm'[a] = None /\ vm[a] \in {None, w}
  BY HostFacts, AbortEffect DEF StartEnds, hostVars, engineVars
<1>4. ReleasedIsBound'
  BY <1>1, <1>2, <1>3, HostFacts DEF BoundInv, ReleasedIsBound, Known, Present,
     ReleasedLives,
     Inside
<1>5. ReleasedLives'
  BY <1>1, <1>2, <1>3, HostFacts DEF BoundInv, ReleasedLives, Present
<1>6. StartsOutside'
  BY <1>1, <1>2, <1>3, HostFacts DEF BoundInv, StartsOutside, Inside
<1>7. LaunchesAlone'
  BY <1>1, <1>2, <1>3, HostFacts DEF BoundInv, LaunchesAlone, Launching, Siblings, Present,
     Reserving
<1>8. RecoversDead'
  BY <1>1, <1>2, <1>3, HostFacts DEF BoundInv, RecoversDead, Present
<1>9. InspectsReady'
  BY <1>1, <1>2, <1>3 DEF BoundInv, InspectsReady
<1>10. QED BY <1>4, <1>5, <1>6, <1>7, <1>8, <1>9 DEF BoundInv

\* A stop of the engine ends.
LEMMA StopEndsInv ==
  ASSUME BoundInv, NEW w \in Workers, Inv, StopEnds(w)
  PROVE  BoundInv'
<1>1. bmu.task = "stop" /\ bmu'.task = "none" /\ UNCHANGED <<record, cgroup, engine, op>>
  BY HostFacts DEF StopEnds, hostVars, engineVars, Free
<1>2. \/ client' = client
      \/ client[w] = "stopping" /\ /\ client'[w] \in {"idle", "release"}
         /\ \A v \in Workers \ {w} : client'[v] = client[v]
  BY HostFacts DEF StopEnds, hostVars, engineVars, Answer, Go
<1>3. \/ UNCHANGED <<vm, released>>
      \/ /\ released' = released \ {w}
         /\ \A a \in Allocations : vm'[a] = vm[a] \/ (vm'[a] = None /\ vm[a] = w)
  BY HostFacts, EndEffect DEF StopEnds, hostVars, engineVars
<1>4. ReleasedIsBound'
  BY <1>1, <1>2, <1>3, HostFacts DEF BoundInv, ReleasedIsBound, Inside
<1>5. ReleasedLives'
  BY <1>1, <1>2, <1>3, HostFacts DEF BoundInv, ReleasedLives, Present
<1>6. StartsOutside'
  BY <1>1, <1>2, <1>3, HostFacts DEF BoundInv, StartsOutside, Inside
<1>7. LaunchesAlone'
  BY <1>1, <1>2, <1>3, HostFacts DEF BoundInv, LaunchesAlone, Launching, Siblings, Present,
     Reserving
<1>8. RecoversDead'
  BY <1>1, <1>2, <1>3, HostFacts DEF BoundInv, RecoversDead, Present
<1>9. InspectsReady'
  BY <1>1, <1>2, <1>3 DEF BoundInv, InspectsReady
<1>10. QED BY <1>4, <1>5, <1>6, <1>7, <1>8, <1>9 DEF BoundInv

\* The engine creates a worker.
LEMMA CreateWorkerInv ==
  ASSUME BoundInv, NEW w \in Workers, Inv, CreateWorker(w)
  PROVE  BoundInv'
<1>1. /\ client[w] = "create" /\ bmu.task = "none"
      /\ UNCHANGED <<record, cgroup, vm, bmu, op, released>>
  BY HostFacts DEF CreateWorker, hostVars, engineVars, Free
<1>2. \/ /\ engine[w] = "none" /\ engine'[w] = "present"
         /\ \A v \in Workers \ {w} : engine'[v] = engine[v]
      \/ engine' = engine /\ client'[w] = "release"
  BY HostFacts DEF CreateWorker, hostVars, engineVars, Go
<1>3. /\ client'[w] \in {"start", "release"}
      /\ \A v \in Workers \ {w} : client'[v] = client[v]
  BY HostFacts DEF CreateWorker, hostVars, engineVars, Go
<1>4. ReleasedLives'
  BY <1>1, <1>2, <1>3, HostFacts DEF BoundInv, ReleasedLives, Present
<1>5. StartsOutside'
  BY <1>1, <1>2, <1>3, HostFacts DEF BoundInv, StartsOutside, Inside
<1>6. LaunchesAlone'
  BY <1>1, <1>2, <1>3, HostFacts DEF BoundInv, LaunchesAlone, Launching, Siblings, Present,
     Reserving
<1>7. RecoversDead'
  BY <1>1, <1>2, <1>3, HostFacts DEF BoundInv, RecoversDead, Present
<1>8. ReleasedIsBound' /\ InspectsReady'
  BY <1>1, <1>2, <1>3 DEF BoundInv, ReleasedIsBound, InspectsReady, Inside
<1>9. QED BY <1>4, <1>5, <1>6, <1>7, <1>8 DEF BoundInv

\* A start of the engine begins.
LEMMA StartBeginsInv ==
  ASSUME BoundInv, NEW w \in Workers, Inv, StartBegins(w)
  PROVE  BoundInv'
<1>1. /\ client[w] = "start" /\ bmu.task = "none"
      /\ UNCHANGED <<record, cgroup, engine, op, released>>
  BY HostFacts DEF StartBegins, hostVars, engineVars, Free
<1>2. /\ client'[w] \in {"starting", "release"}
      /\ \A v \in Workers \ {w} : client'[v] = client[v]
  BY HostFacts DEF StartBegins, hostVars, engineVars, Go
<1>3. \/ UNCHANGED <<vm, bmu>>
      \/ /\ Present(w) /\ bmu'.worker = w /\ bmu'.task = "start"
         /\ \A a \in Allocations : \/ vm'[a] = vm[a]
                                   \/ a = Home[w] /\ vm[a] = None /\ vm'[a] = w
  <2>1. \/ UNCHANGED <<vm, bmu>>
        \/ /\ Present(w) /\ bmu' = [task |-> "start", worker |-> w]
           /\ \/ vm[Home[w]] = None /\ vm' = [vm EXCEPT ![Home[w]] = w]
              \/ vm' = vm
    BY DEF StartBegins
  <2>2. CASE vm[Home[w]] = None /\ vm' = [vm EXCEPT ![Home[w]] = w]
    <3>1. \A a \in Allocations : \/ vm'[a] = vm[a]
                                 \/ a = Home[w] /\ vm[a] = None /\ vm'[a] = w
      BY <2>2, HostFacts
    <3>2. QED BY <2>1, <3>1
  <2>3. QED BY <2>1, <2>2
<1>4. ReleasedIsBound'
  BY <1>1, <1>2, <1>3, HostFacts DEF BoundInv, ReleasedIsBound, Inside
<1>5. ReleasedLives'
  BY <1>1, <1>2, <1>3, HostFacts DEF BoundInv, ReleasedLives, Known, Present,
     ReleasedIsBound,
     StartsOutside
<1>6. StartsOutside'
  BY <1>1, <1>2, <1>3, HostFacts DEF BoundInv, StartsOutside, Known, Present, Inside
<1>7. LaunchesAlone'
  BY <1>1, <1>2, <1>3, HostFacts DEF BoundInv, LaunchesAlone, Launching, Siblings, Present,
     Reserving
<1>8. RecoversDead'
  BY <1>1, <1>2, <1>3, HostFacts DEF BoundInv, RecoversDead, Present
<1>9. InspectsReady'
  BY <1>1, <1>2, <1>3 DEF BoundInv, InspectsReady
<1>10. QED BY <1>4, <1>5, <1>6, <1>7, <1>8, <1>9 DEF BoundInv

\* A stop of the engine begins.
LEMMA StopBeginsInv ==
  ASSUME BoundInv, NEW w \in Workers, Inv, StopBegins(w)
  PROVE  BoundInv'
<1>1. client[w] = "stop" /\ UNCHANGED <<record, cgroup, vm, engine, op, released>>
  BY HostFacts DEF StopBegins, hostVars, engineVars
<1>2. bmu' = bmu \/ bmu'.task = "stop"
  BY HostFacts DEF StopBegins, hostVars, engineVars
<1>3. /\ client'[w] \in {"idle", "release", "stopping"}
      /\ \A v \in Workers \ {w} : client'[v] = client[v]
  BY HostFacts DEF StopBegins, hostVars, engineVars, Go
<1>4. ReleasedLives'
  BY <1>1, <1>2, <1>3, HostFacts DEF BoundInv, ReleasedLives, Present
<1>5. StartsOutside'
  BY <1>1, <1>2, <1>3, HostFacts DEF BoundInv, StartsOutside, Inside
<1>6. LaunchesAlone'
  BY <1>1, <1>2, <1>3, HostFacts DEF BoundInv, LaunchesAlone, Launching, Siblings, Present,
     Reserving
<1>7. RecoversDead'
  BY <1>1, <1>2, <1>3, HostFacts DEF BoundInv, RecoversDead, Present
<1>8. ReleasedIsBound' /\ InspectsReady'
  BY <1>1, <1>2, <1>3 DEF BoundInv, ReleasedIsBound, InspectsReady, Inside
<1>9. QED BY <1>4, <1>5, <1>6, <1>7, <1>8 DEF BoundInv

\* The engine deletes a worker.
LEMMA DeleteWorkerInv ==
  ASSUME BoundInv, NEW w \in Workers, Inv, DeleteWorker(w)
  PROVE  BoundInv'
<1>1. client[w] = "delete" /\ bmu.task = "none" /\ UNCHANGED <<record, cgroup, bmu, op>>
  BY HostFacts DEF DeleteWorker, hostVars, engineVars, Free
<1>2. /\ client'[w] \in {"idle", "release"}
      /\ \A v \in Workers \ {w} : client'[v] = client[v]
  BY HostFacts DEF DeleteWorker, hostVars, engineVars, Go
<1>3. \/ UNCHANGED <<vm, engine, released>>
      \/ /\ released' = released \ {w} /\ engine'[w] = "deleted"
         /\ \A v \in Workers \ {w} : engine'[v] = engine[v]
         /\ \A a \in Allocations : vm'[a] = vm[a] \/ (vm'[a] = None /\ vm[a] = w)
  BY HostFacts, EndEffect DEF DeleteWorker, hostVars, engineVars
<1>4. ReleasedIsBound'
  BY <1>1, <1>2, <1>3, HostFacts DEF BoundInv, ReleasedIsBound, Inside
<1>5. ReleasedLives'
  BY <1>1, <1>2, <1>3, HostFacts DEF BoundInv, ReleasedLives, Present
<1>6. StartsOutside'
  BY <1>1, <1>2, <1>3, HostFacts DEF BoundInv, StartsOutside, Inside
<1>7. LaunchesAlone'
  BY <1>1, <1>2, <1>3, HostFacts DEF BoundInv, LaunchesAlone, Launching, Siblings, Present,
     Reserving
<1>8. RecoversDead'
  BY <1>1, <1>2, <1>3, HostFacts DEF BoundInv, RecoversDead, Present
<1>9. InspectsReady'
  BY <1>1, <1>2, <1>3 DEF BoundInv, InspectsReady
<1>10. QED BY <1>4, <1>5, <1>6, <1>7, <1>8, <1>9 DEF BoundInv

\* A VM ends by itself.
LEMMA VMExitsInv ==
  ASSUME BoundInv, NEW w \in Workers, Inv, VMExits(w)
  PROVE  BoundInv'
<1>1. released' = released \ {w} /\ UNCHANGED <<record, cgroup, engine, bmu, op, client>>
  BY HostFacts DEF VMExits, hostVars, engineVars
<1>2. \A a \in Allocations : vm'[a] = vm[a] \/ (vm'[a] = None /\ vm[a] = w)
  BY HostFacts, EndEffect DEF VMExits, hostVars, engineVars
<1>3. ReleasedIsBound'
  BY <1>1, <1>2, HostFacts DEF BoundInv, ReleasedIsBound, Inside
<1>4. ReleasedLives'
  BY <1>1, <1>2, HostFacts DEF BoundInv, ReleasedLives, Present
<1>5. StartsOutside'
  BY <1>1, <1>2, HostFacts DEF BoundInv, StartsOutside, Inside
<1>6. LaunchesAlone'
  BY <1>1, <1>2, HostFacts DEF BoundInv, LaunchesAlone, Launching, Siblings, Present,
     Reserving
<1>7. InspectsReady' /\ RecoversDead'
  BY <1>1, <1>2 DEF BoundInv, InspectsReady, RecoversDead, Present
<1>8. QED BY <1>3, <1>4, <1>5, <1>6, <1>7 DEF BoundInv

\* A containerd object disappears.
LEMMA VanishInv ==
  ASSUME BoundInv, NEW w \in Workers, Inv, Vanish(w)
  PROVE  BoundInv'
<1>1. /\ released' = released \ {w} /\ engine[w] = "present"
      /\ UNCHANGED <<record, cgroup, vm, bmu, op, client>>
  BY HostFacts DEF Vanish, hostVars, engineVars, Present
<1>2. engine'[w] = "deleted" /\ \A v \in Workers \ {w} : engine'[v] = engine[v]
  BY HostFacts DEF Vanish, hostVars, engineVars
<1>3. ReleasedIsBound'
  BY <1>1, <1>2, HostFacts DEF BoundInv, ReleasedIsBound, Inside
<1>4. ReleasedLives'
  BY <1>1, <1>2, HostFacts DEF BoundInv, ReleasedLives, Present
<1>5. StartsOutside'
  BY <1>1, <1>2, HostFacts DEF BoundInv, StartsOutside, Inside
<1>6. LaunchesAlone'
  BY <1>1, <1>2, HostFacts DEF BoundInv, LaunchesAlone, Launching, Siblings, Present,
     Reserving
<1>7. RecoversDead'
  BY <1>1, <1>2, HostFacts DEF BoundInv, RecoversDead, Present
<1>8. InspectsReady'
  BY <1>1, <1>2 DEF BoundInv, InspectsReady
<1>9. QED BY <1>3, <1>4, <1>5, <1>6, <1>7, <1>8 DEF BoundInv

\* A launch begins.
LEMMA BeginLaunchInv ==
  ASSUME BoundInv, NEW w \in Workers, Inv, BeginLaunch(w)
  PROVE  BoundInv'
<1>1. /\ client[w] = "idle" /\ engine[w] = "none" /\ ~record[Home[w]].present
      /\ \A v \in Siblings(w) : ~Present(v) /\ client[v] = "idle"
      /\ UNCHANGED <<record, cgroup, vm, engine, bmu, op, released>>
  BY HostFacts DEF BeginLaunch, hostVars, engineVars
<1>2. /\ client'[w] \in {"reserve"}
      /\ \A v \in Workers \ {w} : client'[v] = client[v]
  BY HostFacts DEF BeginLaunch, hostVars, engineVars, Go
<1>3. StartsOutside'
  BY <1>1, <1>2, HostFacts DEF BoundInv, StartsOutside, Inside
<1>4. LaunchesAlone'
  BY <1>1, <1>2, HostFacts DEF BoundInv, LaunchesAlone, Launching, Siblings, Present,
     Reserving
<1>5. RecoversDead'
  BY <1>1, <1>2, HostFacts DEF BoundInv, RecoversDead, Present
<1>6. ReleasedIsBound' /\ ReleasedLives' /\ InspectsReady'
  BY <1>1, <1>2 DEF BoundInv, ReleasedIsBound, ReleasedLives, InspectsReady, Inside, Present
<1>7. QED BY <1>3, <1>4, <1>5, <1>6 DEF BoundInv

\* A call about a worker begins.
LEMMA BeginCallInv ==
  ASSUME BoundInv, NEW w \in Workers, Inv, BeginCall(w)
  PROVE  BoundInv'
<1>1. /\ client[w] = "idle" /\ (Present(w) \/ engine[w] = "deleted")
      /\ UNCHANGED <<record, cgroup, vm, engine, bmu, op, released>>
  BY HostFacts DEF BeginCall, hostVars, engineVars
<1>2. /\ client'[w] \in {"reserve", "stop", "delete", "release"}
      /\ \A v \in Workers \ {w} : client'[v] = client[v]
  BY HostFacts DEF BeginCall, hostVars, engineVars, Go
<1>3. client'[w] = "reserve" => Present(w)
  BY HostFacts DEF BeginCall, hostVars, engineVars, Go
<1>4. StartsOutside'
  BY <1>1, <1>2, <1>3, HostFacts DEF BoundInv, StartsOutside, Inside
<1>5. LaunchesAlone'
  BY <1>1, <1>2, <1>3, HostFacts DEF BoundInv, LaunchesAlone, Launching, Siblings, Present,
     Reserving
<1>6. RecoversDead'
  BY <1>1, <1>2, <1>3, HostFacts DEF BoundInv, RecoversDead, Present
<1>7. ReleasedIsBound' /\ ReleasedLives' /\ InspectsReady'
  BY <1>1, <1>2, <1>3 DEF BoundInv, ReleasedIsBound, ReleasedLives, InspectsReady, Inside,
                          Present
<1>8. QED BY <1>4, <1>5, <1>6, <1>7 DEF BoundInv

\* A caller hangs up.
LEMMA HangUpInv ==
  ASSUME BoundInv, NEW w \in Workers, Inv, HangUp(w)
  PROVE  BoundInv'
<1>1. UNCHANGED <<record, cgroup, vm, engine, bmu, released>>
  BY HostFacts DEF HangUp, hostVars, engineVars
<1>2. /\ client'[w] \in {"idle", "stop", "release"}
      /\ \A v \in Workers \ {w} : client'[v] = client[v]
  BY HostFacts DEF HangUp, hostVars, engineVars, Go, Undoing
<1>3. /\ op'.kind = op.kind /\ op'.step = op.step /\ op'.alloc = op.alloc
      /\ op'.worker = op.worker
      /\ op'.caller \in {op.caller, None} /\ op'.caller # w
  BY HostFacts DEF HangUp, hostVars, engineVars, Ops
<1>4. StartsOutside'
  BY <1>1, <1>2, <1>3, HostFacts DEF BoundInv, StartsOutside, Inside
<1>5. InspectsReady'
  BY <1>1, <1>2, <1>3, HostFacts DEF BoundInv, InspectsReady
<1>6. LaunchesAlone'
  BY <1>1, <1>2, <1>3, HostFacts DEF BoundInv, LaunchesAlone, Launching, Siblings, Present,
     Reserving
<1>7. RecoversDead'
  BY <1>1, <1>2, <1>3, HostFacts DEF BoundInv, RecoversDead, Present
<1>8. ReleasedIsBound' /\ ReleasedLives'
  BY <1>1, <1>2, <1>3 DEF BoundInv, ReleasedIsBound, ReleasedLives, Inside, Present
<1>9. QED BY <1>4, <1>5, <1>6, <1>7, <1>8 DEF BoundInv

\* The node restarts.
LEMMA NodeCrashInv ==
  ASSUME BoundInv, Inv, NodeCrash
  PROVE  BoundInv'
<1>1. /\ op'.kind = "none" /\ op'.step = "none" /\ op'.caller = None /\ bmu'.task = "none"
      /\ (\A w \in Workers : client'[w] = "idle")
      /\ UNCHANGED <<record, cgroup, vm, engine, released>>
  BY HostFacts DEF NodeCrash, hostVars, engineVars, Idle, Free
<1>2. ReleasedLives'
  BY <1>1, HostFacts DEF BoundInv, ReleasedLives, Present
<1>3. StartsOutside'
  BY <1>1, HostFacts DEF BoundInv, StartsOutside, Inside
<1>4. InspectsReady'
  BY <1>1, HostFacts DEF BoundInv, InspectsReady
<1>5. LaunchesAlone'
  BY <1>1, HostFacts DEF BoundInv, LaunchesAlone, Launching, Siblings, Present, Reserving
<1>6. RecoversDead'
  BY <1>1, HostFacts DEF BoundInv, RecoversDead, Present
<1>7. ReleasedIsBound'
  BY <1>1 DEF BoundInv, ReleasedIsBound, Inside
<1>8. QED BY <1>2, <1>3, <1>4, <1>5, <1>6, <1>7 DEF BoundInv

\* The host restarts.
LEMMA RebootInv ==
  ASSUME BoundInv, Inv, Reboot
  PROVE  BoundInv'
<1>1. /\ op'.kind = "none" /\ op'.step = "none" /\ op'.caller = None /\ bmu'.task = "none"
      /\ released' = {}
      /\ (\A w \in Workers : client'[w] = "idle" /\ vm'[Home[w]] = None)
      /\ UNCHANGED <<record, engine>>
  BY HostFacts DEF Reboot, hostVars, engineVars, Idle, Free
<1>2. ReleasedIsBound'
  BY <1>1, HostFacts DEF BoundInv, ReleasedIsBound, Inside
<1>3. ReleasedLives'
  BY <1>1, HostFacts DEF BoundInv, ReleasedLives, Present
<1>4. StartsOutside'
  BY <1>1, HostFacts DEF BoundInv, StartsOutside, Inside
<1>5. InspectsReady'
  BY <1>1, HostFacts DEF BoundInv, InspectsReady
<1>6. LaunchesAlone'
  BY <1>1, HostFacts DEF BoundInv, LaunchesAlone, Launching, Siblings, Present, Reserving
<1>7. RecoversDead'
  BY <1>1, HostFacts DEF BoundInv, RecoversDead, Present
<1>8. QED BY <1>2, <1>3, <1>4, <1>5, <1>6, <1>7 DEF BoundInv

\* Five minutes pass.
LEMMA AgeInv ==
  ASSUME BoundInv, NEW a \in Allocations, Inv, Age(a)
  PROVE  BoundInv'
<1>1. /\ (\A w \in Workers : Home[w] = a => ~Reserving(w))
      /\ UNCHANGED <<cgroup, vm, engine, bmu, op, client, released>>
  BY HostFacts DEF Age, hostVars, engineVars
<1>2. \A b \in Allocations : /\ (record'[b] = record[b] \/ b = a)
                             /\ record'[b].present = record[b].present
                             /\ record'[b].worker = record[b].worker
  BY HostFacts DEF Age, hostVars, engineVars, Records
<1>3. ReleasedIsBound'
  BY <1>1, <1>2, HostFacts DEF BoundInv, ReleasedIsBound, Inside
<1>4. LaunchesAlone'
  BY <1>1, <1>2, HostFacts DEF BoundInv, LaunchesAlone, Launching, Siblings, Present,
     Reserving
<1>5. RecoversDead'
  BY <1>1, <1>2, HostFacts DEF BoundInv, RecoversDead, Present
<1>6. ReleasedLives' /\ StartsOutside' /\ InspectsReady'
  BY <1>1, <1>2 DEF BoundInv, ReleasedLives, StartsOutside, InspectsReady, Present, Inside
<1>7. QED BY <1>3, <1>4, <1>5, <1>6 DEF BoundInv

\* Nothing is reserved, released or under way at first.
LEMMA BoundInit == Init => BoundInv
  BY AdmissionAssumption DEF Init, BoundInv, ReleasedIsBound, ReleasedLives, StartsOutside,
     InspectsReady, LaunchesAlone, RecoversDead, Launching, Inside, Idle, Free, NoRecord

\* One step keeps it.
LEMMA BoundNext == Inv /\ BoundInv /\ [Next]_vars => BoundInv'
<1> SUFFICES ASSUME Inv, BoundInv, [Next]_vars PROVE BoundInv'
  OBVIOUS
<1>1. CASE UNCHANGED vars
  BY <1>1 DEF vars, BoundInv, ReleasedIsBound, ReleasedLives, StartsOutside, InspectsReady,
     LaunchesAlone, RecoversDead, Launching, Siblings, Inside, Present, Reserving
<1>2. CASE GuardStep \/ ReleaseFails \/ NodeCrash \/ Reboot
  BY <1>2, ReserveMkdirInv, ReserveLimitsInv, VerifyInspectInv, ReleaseCheckInv,
     ReleaseRemoveInv, ReleaseForgetInv, RecoverListInv, RecoverConfirmInv, RecoverKillInv,
     ReleaseFailsInv, NodeCrashInv, RebootInv DEF GuardStep
<1>3. ASSUME NEW w \in Workers,
             \/ Reserve(w) \/ Verify(w) \/ Release(w) \/ EngineStep(w)
             \/ CreateWorker(w) \/ StartBegins(w) \/ StopBegins(w) \/ DeleteWorker(w)
             \/ VMExits(w) \/ Vanish(w) \/ BeginLaunch(w) \/ BeginCall(w) \/ HangUp(w)
      PROVE  BoundInv'
  BY <1>3, ReserveInv, VerifyInv, ReleaseInv, StartEndsInv, StopEndsInv, CreateWorkerInv,
     StartBeginsInv, StopBeginsInv, DeleteWorkerInv, VMExitsInv, VanishInv, BeginLaunchInv,
     BeginCallInv, HangUpInv DEF EngineStep
<1>4. ASSUME NEW a \in Allocations, Age(a) \/ \E force \in BOOLEAN : Recover(a, force)
      PROVE  BoundInv'
  BY <1>4, AgeInv, RecoverInv
<1>5. QED BY <1>1, <1>2, <1>3, <1>4 DEF Next

\* Both invariants hold in every state of the admission.
THEOREM BoundInvariance == Spec => []BoundInv
<1>1. Init => Inv /\ BoundInv
  BY InitInv, BoundInit
<1>2. Inv /\ BoundInv /\ [Next]_vars => (Inv /\ BoundInv)'
  BY NextInv, BoundNext
<1>3. QED BY <1>1, <1>2, PTL DEF Spec

\* User code that was released runs in its own envelope, with its limits, bound
\* to it by the durable record, through every exit, recovery, abort and crash of
\* other requests (Verify, AbortCreate, RecoverOrphan).
THEOREM ReleasedStaysBound == Spec => []ReleasedIsBound
<1>1. BoundInv => ReleasedIsBound
  BY DEF BoundInv
<1>2. QED BY <1>1, BoundInvariance, PTL

\* A recovery kills, removes and forgets nothing of an allocation in which the
\* engine has a worker or a launch is about to create one (RecoverOrphan).
THEOREM LivingAreSpared == Spec => RecoverySparesLiving
<1> DEFINE Spares ==
      \A a \in Allocations :
        (/\ op.kind = "recover" /\ op.alloc = a
         /\ <<vm[a], cgroup[a], record[a]>>' # <<vm[a], cgroup[a], record[a]>>
         /\ (RecoverKill \/ ReleaseRemove \/ ReleaseForget))
        => \A w \in Workers : Home[w] = a => ~Present(w) /\ client[w] # "create"
<1>1. BoundInv => Spares
  BY DEF BoundInv, RecoversDead, RecoverKill, ReleaseRemove, ReleaseForget
<1>2. Spec => [][Spares]_vars
  BY <1>1, BoundInvariance, PTL
<1>3. QED BY <1>2 DEF RecoverySparesLiving

-----------------------------------------------------------------------------
\* The networks: what holds at every step of every handler.

\* A veth hangs on a bridge.
BridgedLinks ==
  \A n \in Nets, b \in Boxes : link[n][b] # "none" => bridge[n] # "none"

\* Only an internal network whose firewall was once in place has endpoints.
MembersConfirmed == \A n \in Internal : Members(n) # {} => Confirmed(n)

\* Workers are recorded on internal networks, and have veths on no other.
GuestsInside ==
  \A b \in Guests : /\ NetsOf(b) \subseteq Internal
                    /\ \A n \in Nets : link[n][b] # "none" => n \in Internal

\* A node that serves has verified every network that is built.
ServedNetworks ==
  node = "up" => \A n \in Nets : Confirmed(n) /\ bridge[n] # "none" =>
                   bridge[n] = "owned" /\ n \in table

\* Records, containerd and kernel agree.
StateInv ==
  /\ NetworksTypeOK /\ LeftoversAreRecorded /\ GuestBehindFirewall
  /\ BridgedLinks /\ MembersConfirmed /\ GuestsInside /\ ServedNetworks

-----------------------------------------------------------------------------
\* What each handler relies on: what it has written, and what nothing else can
\* have undone since it began.

Creating ==
  handler.by = "createNetwork" =>
    /\ node = "up" /\ handler.net \in Nets
    /\ handler.do \in {"netRecord", "bridge", "own", "table", "hash"}
    /\ IF handler.do = "netRecord" THEN netRecord[handler.net] = Nothing
       ELSE /\ netRecord[handler.net] # Nothing /\ ~Confirmed(handler.net)
            /\ Members(handler.net) = {}
    /\ handler.do \in {"table", "hash"} => bridge[handler.net] = "owned"
    /\ handler.do = "hash" => handler.net \in table

Rebuilding ==
  handler.by = "rebuild" =>
    /\ node = "opening" /\ handler.net \in Nets
    /\ handler.do \in {"untable", "bridge", "own", "table", "hash"}
    /\ netRecord[handler.net] # Nothing /\ Members(handler.net) \cap task = {}

Removing ==
  handler.by = "removeNetwork" =>
    /\ node = "up" /\ handler.net \in Nets
    /\ handler.do \in {"unbridge", "untable", "unrecord"}
    /\ netRecord[handler.net] # Nothing /\ Members(handler.net) = {}
    /\ handler.do # "unbridge" => bridge[handler.net] = "none"
    /\ handler.do = "unrecord" => handler.net \notin table

Joining ==
  handler.by \in {"connect", "create"} =>
    /\ node = "up" /\ handler.net \in Nets /\ handler.box \in Boxes
    /\ Usable(handler.net) /\ (handler.box \in Guests => handler.net \in Internal)
    /\ handler.do \in {"endpoint", "link", "alias", "native"} =>
         handler.box \in Members(handler.net)
    /\ handler.do = "alias" => link[handler.net][handler.box] # "none"

Connecting ==
  handler.by = "connect" => handler.do \in {"member", "endpoint", "link", "alias"}

CreatingBox ==
  handler.by = "create" =>
    /\ handler.do \in {"mkdir", "record", "netns", "identify", "member", "endpoint",
                       "link", "alias", "native"}
    /\ handler.box \notin native
    /\ handler.do = "mkdir" => boxRecord[handler.box].at = "none"
    /\ handler.do \notin {"mkdir", "record"} => Recorded(handler.box)

Leaving ==
  handler.by \in {"disconnect", "clear", "delete"} =>
    /\ handler.box \in Boxes
    /\ handler.do \in {"unlink", "unmember", "unendpoint"} =>
         handler.net \in Nets /\ netRecord[handler.net] # Nothing
    /\ handler.do = "unmember" => link[handler.net][handler.box] = "none"

Disconnecting ==
  handler.by = "disconnect" =>
    node = "up" /\ handler.do \in {"unlink", "unmember", "unendpoint"}

Clearing ==
  handler.by = "clear" =>
    /\ node \in {"opening", "up"}
    /\ handler.do \in {"unnative", "leave", "unlink", "unmember", "unendpoint",
                       "dropns", "rmrecord", "rmdir"}
    /\ handler.box \notin task
    /\ handler.do # "unnative" => handler.box \notin native
    /\ handler.do \in {"rmrecord", "rmdir"} => namespace[handler.box] = "none"

Deleting ==
  handler.by = "delete" =>
    /\ node = "up"
    /\ handler.do \in {"stop", "leave", "unlink", "unmember", "unendpoint",
                       "dropns", "unnative", "rmrecord", "rmdir"}
    /\ handler.do # "stop" => handler.box \notin task
    /\ handler.do \in {"unnative", "rmrecord", "rmdir"} => namespace[handler.box] = "none"
    /\ handler.do \in {"rmrecord", "rmdir"} => handler.box \notin native

Rehousing ==
  handler.by \in {"start", "rehouse"} =>
    /\ node = IF handler.by = "start" THEN "up" ELSE "opening"
    /\ handler.box \in native
    /\ handler.do \in {"unhook", "unlink", "netns", "identify", "rejoin", "link", "alias"}
                      \cup (IF handler.by = "start" THEN {"dropns", "task"} ELSE {})
    /\ handler.by = "rehouse" => handler.box \notin task
    /\ handler.do # "task" => \A n \in NetsOf(handler.box) : handler.box \in Members(n)
    /\ handler.do \in {"unlink", "link", "alias"} => handler.net \in NetsOf(handler.box)
    /\ handler.do = "alias" => link[handler.net][handler.box] # "none"

\* An idle engine, or one of the handlers.
HandlerInv ==
  /\ handler.by = "idle" => handler = NoHandler
  /\ Creating /\ Rebuilding /\ Removing /\ Joining /\ Connecting /\ CreatingBox /\ Leaving
  /\ Disconnecting /\ Clearing /\ Deleting /\ Rehousing

NetInv == StateInv /\ HandlerInv

-----------------------------------------------------------------------------
\* Steps on a network, and steps on a container.
OnNetwork == {"netRecord", "hash", "member", "unmember", "unrecord", "endpoint",
              "unendpoint", "bridge", "own", "unbridge", "table", "untable",
              "link", "alias", "unlink"}
OnContainer == {"member", "unmember", "mkdir", "rmrecord", "record", "rmdir",
                "endpoint", "unendpoint", "native", "unnative", "task", "stop",
                "link", "alias", "unlink", "netns", "identify", "dropns",
                "leave", "unhook", "rejoin"}

\* What a step relies on, whichever handler it belongs to.
Fits ==
  LET d == handler.do  n == handler.net  b == handler.box IN
  /\ d \in OnNetwork => n \in Nets
  /\ d \in OnContainer => b \in Boxes
  /\ d = "netRecord" => netRecord[n] = Nothing
  /\ d \in {"hash", "unmember", "unrecord", "bridge", "own", "table"} =>
       netRecord[n] # Nothing
  /\ d \in {"bridge", "own", "table", "untable"} =>
       /\ Members(n) \cap task = {}
       /\ node = "up" /\ Confirmed(n) => d = "untable" /\ bridge[n] = "none"
  /\ d = "hash" /\ node = "up" => bridge[n] = "owned" /\ n \in table
  /\ d = "member" => Usable(n)
  /\ d = "unmember" => link[n][b] = "none"
  /\ d \in {"unbridge", "unrecord"} => Members(n) = {}
  /\ d = "unrecord" => bridge[n] = "none" /\ n \notin table
  /\ d = "mkdir" => boxRecord[b].at = "none"
  /\ d \in {"rmrecord", "rmdir"} => namespace[b] = "none" /\ b \notin native
  /\ d \in {"netns", "identify", "native"} => Recorded(b)
  /\ d = "endpoint" => (b \in Guests => n \in Internal)
  /\ d = "unnative" => b \notin task
  /\ d = "task" => b \in native /\ node = "up"
  /\ d = "link" => /\ b \in Members(n) /\ (b \in Guests => n \in Internal)
                   /\ node = "up" \/ b \notin task
  /\ d = "alias" => link[n][b] # "none"

\* What a step of a handler does to each variable.
LEMMA NetEffects ==
  ASSUME Execute
  PROVE  LET d == handler.do  n == handler.net  b == handler.box IN
    /\ Advance /\ Possible(handler) /\ node' = node /\ ops' = ops /\ handler # NoHandler
    /\ d \notin {"netRecord", "hash", "member", "unmember", "unrecord"} =>
         netRecord' = netRecord
    /\ d = "netRecord" =>
         netRecord' = [netRecord EXCEPT ![n] = [members |-> {}, hash |-> FALSE]]
    /\ d = "hash" => netRecord' = [netRecord EXCEPT ![n].hash = TRUE]
    /\ d = "member" => netRecord' = [netRecord EXCEPT ![n].members = @ \cup {b}]
    /\ d = "unmember" => netRecord' = [netRecord EXCEPT ![n].members = @ \ {b}]
    /\ d = "unrecord" => netRecord' = [netRecord EXCEPT ![n] = Nothing]
    /\ d \notin {"mkdir", "rmrecord", "record", "rmdir", "endpoint", "unendpoint"} =>
         boxRecord' = boxRecord
    /\ d \in {"mkdir", "rmrecord"} =>
         boxRecord' = [boxRecord EXCEPT ![b] = [at |-> "empty", nets |-> {}]]
    /\ d = "record" => boxRecord' = [boxRecord EXCEPT ![b].at = "saved"]
    /\ d = "rmdir" => boxRecord' = [boxRecord EXCEPT ![b].at = "none"]
    /\ d = "endpoint" => boxRecord' = [boxRecord EXCEPT ![b].nets = @ \cup {n}]
    /\ d = "unendpoint" => boxRecord' = [boxRecord EXCEPT ![b].nets =
                                          IF b \in native THEN @ \ {n} ELSE @]
    /\ native' = IF d = "native" THEN native \cup {b}
                 ELSE IF d = "unnative" THEN native \ {b} ELSE native
    /\ task' = IF d = "task" THEN task \cup {b}
               ELSE IF d = "stop" THEN task \ {b} ELSE task
    /\ table' = IF d = "table" THEN table \cup {n}
                ELSE IF d = "untable" THEN table \ {n} ELSE table
    /\ d \notin {"bridge", "own", "unbridge"} => bridge' = bridge
    /\ d = "bridge" => bridge[n] = "none" /\ bridge' = [bridge EXCEPT ![n] = "bare"]
    /\ d = "own" => bridge' = [bridge EXCEPT ![n] = "owned"]
    /\ d = "unbridge" => bridge' = [bridge EXCEPT ![n] = "none"]
    /\ d \notin {"link", "alias", "unlink", "dropns"} => link' = link
    /\ d = "link" => link' = [link EXCEPT ![n][b] = "bare"]
    /\ d = "alias" => link' = [link EXCEPT ![n][b] = "owned"]
    /\ d = "unlink" => link' = [link EXCEPT ![n][b] = "none"]
    /\ d = "dropns" => link' = [m \in Nets |-> [link[m] EXCEPT ![b] = "none"]]
    /\ d \notin {"netns", "identify", "dropns"} => namespace' = namespace
    /\ d = "netns" => namespace' = [namespace EXCEPT ![b] = "unsaved"]
    /\ d = "identify" => namespace' = [namespace EXCEPT ![b] = "saved"]
    /\ d = "dropns" => namespace' = [namespace EXCEPT ![b] = "none"]
<1>1. Advance /\ Possible(handler) /\ node' = node /\ ops' = ops /\ handler # NoHandler
  BY DEF Execute
<1>2. CASE WriteNetwork(handler)
  BY <1>1, <1>2 DEF WriteNetwork, inKernel
<1>3. CASE WriteBox(handler)
  BY <1>1, <1>3 DEF WriteBox, inKernel
<1>4. CASE Containerd(handler)
  BY <1>1, <1>4 DEF Containerd
<1>5. CASE Bridges(handler)
  BY <1>1, <1>5 DEF Bridges, onDisk, Possible
<1>6. CASE Links(handler)
  BY <1>1, <1>6 DEF Links, onDisk
<1> QED BY <1>2, <1>3, <1>4, <1>5, <1>6 DEF Execute

\* The invariant gives each step what it relies on.
LEMMA NetFits ==
  ASSUME NetInv, handler # NoHandler
  PROVE  Fits
<1> handler.by \in Handlers
  BY DEF NetInv, StateInv, HandlerInv, NetworksTypeOK
<1> USE DEF NetInv, HandlerInv, StateInv, NetworksTypeOK, Fits, OnNetwork, OnContainer
<1>1. CASE handler.by = "createNetwork"
  BY <1>1 DEF Creating
<1>2. CASE handler.by = "rebuild"
  BY <1>2 DEF Rebuilding
<1>3. CASE handler.by = "removeNetwork"
  BY <1>3 DEF Removing
<1>4. CASE handler.by = "connect"
  BY <1>4 DEF Joining, Connecting
<1>5. CASE handler.by = "create"
  BY <1>5 DEF Joining, CreatingBox
<1>6. CASE handler.by = "disconnect"
  BY <1>6 DEF Leaving, Disconnecting
<1>7. CASE handler.by = "clear"
  BY <1>7 DEF Leaving, Clearing
<1>8. CASE handler.by = "delete"
  BY <1>8 DEF Leaving, Deleting
<1>9. CASE handler.by \in {"start", "rehouse"}
  BY <1>9 DEF Rehousing, LeftoversAreRecorded, GuestsInside, NetsOf, Recorded, BoxRecords
<1> QED BY <1>1, <1>2, <1>3, <1>4, <1>5, <1>6, <1>7, <1>8, <1>9 DEF Handlers

\* What a step does to the networks' records.
LEMMA NetRecordSteps ==
  ASSUME NetworksTypeOK, Fits, Execute
  PROVE  LET d == handler.do  n == handler.net  b == handler.box IN
    /\ netRecord' \in [Nets -> NetRecords \cup {Nothing}]
    /\ \A m \in Nets :
       /\ Members(m)' = IF d = "member" /\ m = n THEN Members(m) \cup {b}
                        ELSE IF d = "unmember" /\ m = n THEN Members(m) \ {b}
                        ELSE Members(m)
       /\ Confirmed(m) => (Confirmed(m))' \/ (d = "unrecord" /\ m = n)
       /\ (Confirmed(m))' => Confirmed(m) \/ (d = "hash" /\ m = n)
       /\ netRecord[m] # Nothing => netRecord'[m] # Nothing \/ (d = "unrecord" /\ m = n)
       /\ netRecord'[m] # Nothing => netRecord[m] # Nothing \/ (d = "netRecord" /\ m = n)
       /\ d = "netRecord" /\ m = n => netRecord'[m] # Nothing /\ ~(Confirmed(m))'
<1> DEFINE d == handler.do
           n == handler.net
           b == handler.box
<1> USE NetEffects, AbsentNetworkAssumption DEF NetworksTypeOK, NetRecords
<1>1. CASE d \notin {"netRecord", "hash", "member", "unmember", "unrecord"}
  BY <1>1 DEF Members, Confirmed
<1>2. CASE d = "netRecord"
  <2>1. n \in Nets /\ netRecord[n] = Nothing
        /\ netRecord' = [netRecord EXCEPT ![n] = [members |-> {}, hash |-> FALSE]]
    BY <1>2 DEF Fits, OnNetwork
  <2> DEFINE new == [members |-> {}, hash |-> FALSE]
  <2>2. new \in NetRecords /\ new.members = {} /\ ~new.hash
    OBVIOUS
  <2> HIDE DEF new
  <2>3. new # Nothing
    BY <2>2
  <2>4. \A m \in Nets : netRecord'[m] = IF m = n THEN new ELSE netRecord[m]
    BY <2>1 DEF new
  <2>5. netRecord' \in [Nets -> NetRecords \cup {Nothing}]
    BY <2>1, <2>2 DEF new
  <2>6. ASSUME NEW m \in Nets
        PROVE  /\ Members(m)' = Members(m) /\ (Confirmed(m))' = Confirmed(m)
               /\ netRecord[m] # Nothing => netRecord'[m] # Nothing
               /\ netRecord'[m] # Nothing => netRecord[m] # Nothing \/ m = n
    <3>1. CASE m = n
      BY <2>1, <2>2, <2>3, <2>4, <3>1 DEF Members, Confirmed
    <3>2. CASE m # n
      BY <2>4, <3>2 DEF Members, Confirmed
    <3> QED BY <3>1, <3>2
  <2>7. \A m \in Nets : m = n => netRecord'[m] # Nothing /\ ~(Confirmed(m))'
    BY <2>1, <2>2, <2>3, <2>4 DEF Confirmed
  <2> QED BY <1>2, <2>5, <2>6, <2>7
<1>3. CASE d = "hash"
  <2>1. n \in Nets /\ netRecord[n] \in NetRecords
        /\ netRecord' = [netRecord EXCEPT ![n].hash = TRUE]
    BY <1>3 DEF Fits, OnNetwork
  <2>2. [netRecord[n] EXCEPT !.hash = TRUE] \in NetRecords
    BY <2>1
  <2> QED BY <1>3, <2>1, <2>2 DEF Members, Confirmed
<1>4. CASE d = "member"
  <2>1. n \in Nets /\ b \in Boxes /\ netRecord[n] \in NetRecords
        /\ netRecord' = [netRecord EXCEPT ![n].members = @ \cup {b}]
    BY <1>4 DEF Fits, OnNetwork, OnContainer, Usable
  <2>2. [netRecord[n] EXCEPT !.members = @ \cup {b}] \in NetRecords
    BY <2>1
  <2> QED BY <1>4, <2>1, <2>2 DEF Members, Confirmed
<1>5. CASE d = "unmember"
  <2>1. n \in Nets /\ b \in Boxes /\ netRecord[n] \in NetRecords
        /\ netRecord' = [netRecord EXCEPT ![n].members = @ \ {b}]
    BY <1>5 DEF Fits, OnNetwork, OnContainer
  <2>2. [netRecord[n] EXCEPT !.members = @ \ {b}] \in NetRecords
    BY <2>1
  <2> QED BY <1>5, <2>1, <2>2 DEF Members, Confirmed
<1>6. CASE d = "unrecord"
  <2>1. n \in Nets /\ Members(n) = {} /\ netRecord' = [netRecord EXCEPT ![n] = Nothing]
    BY <1>6 DEF Fits, OnNetwork
  <2> QED BY <1>6, <2>1 DEF Members, Confirmed
<1> QED BY <1>1, <1>2, <1>3, <1>4, <1>5, <1>6

\* What a step does to the containers' records.
LEMMA NetBoxSteps ==
  ASSUME NetworksTypeOK, Fits, Execute
  PROVE  LET d == handler.do  n == handler.net  b == handler.box IN
    /\ boxRecord' \in [Boxes -> BoxRecords]
    /\ \A c \in Boxes :
       /\ c # b => boxRecord'[c] = boxRecord[c]
       /\ NetsOf(c)' \subseteq NetsOf(c) \cup (IF d = "endpoint" /\ c = b THEN {n} ELSE {})
       /\ d \notin {"mkdir", "rmrecord", "endpoint", "unendpoint"} => NetsOf(c)' = NetsOf(c)
       /\ Recorded(c) => (Recorded(c))' \/ (d \in {"mkdir", "rmrecord", "rmdir"} /\ c = b)
       /\ d = "record" /\ c = b => (Recorded(c))'
<1> DEFINE d == handler.do
           n == handler.net
           b == handler.box
<1> USE NetEffects DEF NetworksTypeOK, BoxRecords
<1>1. CASE d \notin {"mkdir", "rmrecord", "record", "rmdir", "endpoint", "unendpoint"}
  BY <1>1 DEF NetsOf, Recorded
<1>b. d \in {"mkdir", "rmrecord", "record", "rmdir", "endpoint", "unendpoint"} =>
        b \in Boxes /\ boxRecord[b] \in BoxRecords
  BY DEF Fits, OnContainer
<1>n. d \in {"endpoint", "unendpoint"} => n \in Nets
  BY DEF Fits, OnNetwork
<1>2. CASE d \in {"mkdir", "rmrecord"}
  BY <1>2, <1>b DEF NetsOf, Recorded
<1>3. CASE d = "record"
  <2> DEFINE new == [boxRecord[b] EXCEPT !.at = "saved"]
  <2>1. new \in BoxRecords /\ new.at = "saved"
        /\ new.nets = boxRecord[b].nets
    BY <1>3, <1>b
  <2>2. boxRecord' = [boxRecord EXCEPT ![b] = new]
    BY <1>3, <1>b
  <2> HIDE DEF new
  <2>3. boxRecord' \in [Boxes -> BoxRecords]
        /\ \A c \in Boxes : boxRecord'[c] = IF c = b THEN new ELSE boxRecord[c]
    BY <1>b, <2>1, <2>2
  <2> QED BY <1>3, <1>b, <2>1, <2>3 DEF NetsOf, Recorded
<1>4. CASE d = "rmdir"
  <2> DEFINE new == [boxRecord[b] EXCEPT !.at = "none"]
  <2>1. new \in BoxRecords /\ new.at = "none"
        /\ new.nets = boxRecord[b].nets
    BY <1>4, <1>b
  <2>2. boxRecord' = [boxRecord EXCEPT ![b] = new]
    BY <1>4, <1>b
  <2> HIDE DEF new
  <2> QED BY <1>4, <1>b, <2>1, <2>2 DEF NetsOf, Recorded
<1>5. CASE d = "endpoint"
  <2> DEFINE new == [boxRecord[b] EXCEPT !.nets = boxRecord[b].nets \cup {n}]
  <2>1. new \in BoxRecords /\ new.nets = boxRecord[b].nets \cup {n}
        /\ new.at = boxRecord[b].at
    BY <1>5, <1>b, <1>n
  <2>2. boxRecord' = [boxRecord EXCEPT ![b] = new]
    BY <1>5, <1>b
  <2> HIDE DEF new
  <2> QED BY <1>5, <1>b, <1>n, <2>1, <2>2 DEF NetsOf, Recorded
<1>6. CASE d = "unendpoint"
  <2> DEFINE S == IF b \in native THEN boxRecord[b].nets \ {n} ELSE boxRecord[b].nets
             new == [boxRecord[b] EXCEPT !.nets = S]
  <2>1. new \in BoxRecords /\ new.nets \subseteq boxRecord[b].nets
        /\ new.at = boxRecord[b].at
    BY <1>6, <1>b
  <2>2. boxRecord' = [boxRecord EXCEPT ![b] = new]
    BY <1>6, <1>b
  <2> HIDE DEF new
  <2> QED BY <1>6, <1>b, <2>1, <2>2 DEF NetsOf, Recorded
<1> QED BY <1>1, <1>2, <1>3, <1>4, <1>5, <1>6

\* What a step does to bridges, veths and namespaces.
LEMMA NetKernelSteps ==
  ASSUME NetworksTypeOK, Fits, Execute
  PROVE  LET d == handler.do  n == handler.net  b == handler.box IN
    /\ bridge' \in [Nets -> Marks] /\ link' \in [Nets -> [Boxes -> Marks]]
    /\ namespace' \in [Boxes -> {"none", "unsaved", "saved"}]
    /\ native' \subseteq Boxes /\ table' \subseteq Nets /\ task' \subseteq Boxes
    /\ \A m \in Nets :
         bridge'[m] = IF m = n /\ d = "bridge" THEN "bare"
                      ELSE IF m = n /\ d = "own" THEN "owned"
                      ELSE IF m = n /\ d = "unbridge" THEN "none" ELSE bridge[m]
    /\ \A c \in Boxes :
         namespace'[c] = IF c = b /\ d = "netns" THEN "unsaved"
                         ELSE IF c = b /\ d = "identify" THEN "saved"
                         ELSE IF c = b /\ d = "dropns" THEN "none" ELSE namespace[c]
    /\ \A m \in Nets, c \in Boxes :
         link'[m][c] = IF c = b /\ m = n /\ d = "link" THEN "bare"
                       ELSE IF c = b /\ m = n /\ d = "alias" THEN "owned"
                       ELSE IF c = b /\ m = n /\ d = "unlink" THEN "none"
                       ELSE IF c = b /\ d = "dropns" THEN "none" ELSE link[m][c]
<1> DEFINE d == handler.do
           n == handler.net
           b == handler.box
<1>n. d \in {"bridge", "own", "unbridge", "table", "link", "alias", "unlink"} => n \in Nets
  BY DEF Fits, OnNetwork
<1>b. d \in {"native", "task", "netns", "identify", "dropns", "link", "alias", "unlink"} =>
        b \in Boxes
  BY DEF Fits, OnContainer
<1>1. native' \subseteq Boxes /\ table' \subseteq Nets /\ task' \subseteq Boxes
  BY <1>n, <1>b, NetEffects DEF NetworksTypeOK
<1>2. /\ bridge' \in [Nets -> Marks]
      /\ \A m \in Nets :
         bridge'[m] = IF m = n /\ d = "bridge" THEN "bare"
                      ELSE IF m = n /\ d = "own" THEN "owned"
                      ELSE IF m = n /\ d = "unbridge" THEN "none" ELSE bridge[m]
  BY <1>n, NetEffects DEF NetworksTypeOK, Marks
<1>3. /\ namespace' \in [Boxes -> {"none", "unsaved", "saved"}]
      /\ \A c \in Boxes :
         namespace'[c] = IF c = b /\ d = "netns" THEN "unsaved"
                         ELSE IF c = b /\ d = "identify" THEN "saved"
                         ELSE IF c = b /\ d = "dropns" THEN "none" ELSE namespace[c]
  BY <1>b, NetEffects DEF NetworksTypeOK
<1>4. /\ link' \in [Nets -> [Boxes -> Marks]]
      /\ \A m \in Nets, c \in Boxes :
         link'[m][c] = IF c = b /\ m = n /\ d = "link" THEN "bare"
                       ELSE IF c = b /\ m = n /\ d = "alias" THEN "owned"
                       ELSE IF c = b /\ m = n /\ d = "unlink" THEN "none"
                       ELSE IF c = b /\ d = "dropns" THEN "none" ELSE link[m][c]
  <2>1. ASSUME NEW v \in Marks, n \in Nets, b \in Boxes, link' = [link EXCEPT ![n][b] = v]
        PROVE  /\ link' \in [Nets -> [Boxes -> Marks]]
               /\ \A m \in Nets, c \in Boxes :
                    link'[m][c] = IF c = b /\ m = n THEN v ELSE link[m][c]
    BY <2>1 DEF NetworksTypeOK
  <2>2. CASE d = "link"
    BY <2>1, <2>2, <1>n, <1>b, NetEffects DEF Marks
  <2>3. CASE d = "alias"
    BY <2>1, <2>3, <1>n, <1>b, NetEffects DEF Marks
  <2>4. CASE d = "unlink"
    BY <2>1, <2>4, <1>n, <1>b, NetEffects DEF Marks
  <2>5. CASE d = "dropns"
    BY <2>5, <1>b, NetEffects DEF NetworksTypeOK, Marks
  <2>6. CASE d \notin {"link", "alias", "unlink", "dropns"}
    BY <2>6, NetEffects DEF NetworksTypeOK
  <2> QED BY <2>2, <2>3, <2>4, <2>5, <2>6
<1> QED BY <1>1, <1>2, <1>3, <1>4

\* In the sequence p, the step e comes after d.
Then(p, d, e) == \E k \in 1..(Len(p) - 1) : p[k] = d /\ p[k + 1] = e

\* The handler ends with its last step, or goes on as one of the pairs says.
Moves(last, pairs) ==
  \/ handler.do = last /\ handler' = NoHandler
  \/ \E e \in HandlerSteps :
       /\ <<handler.do, e>> \in pairs
       /\ handler' = [by |-> handler.by, do |-> e, net |-> handler.net, box |-> handler.box]

\* The steps of each handler, each with the one after it.
CreateNetworkMoves ==
  {<<"netRecord", "bridge">>, <<"bridge", "own">>, <<"own", "table">>,
   <<"table", "hash">>}
RemoveNetworkMoves == {<<"unbridge", "untable">>, <<"untable", "unrecord">>}
ConnectMoves == {<<"member", "endpoint">>, <<"endpoint", "link">>, <<"link", "alias">>}
DisconnectMoves == {<<"unlink", "unmember">>, <<"unmember", "unendpoint">>}
CreateMoves ==
  {<<"mkdir", "record">>, <<"record", "netns">>, <<"netns", "identify">>,
   <<"identify", "member">>, <<"member", "endpoint">>, <<"endpoint", "link">>,
   <<"link", "alias">>, <<"alias", "native">>}
ClearMoves ==
  {<<"unnative", "leave">>, <<"leave", "dropns">>, <<"dropns", "rmrecord">>,
   <<"rmrecord", "rmdir">>, <<"unlink", "unmember">>, <<"unmember", "unendpoint">>,
   <<"unendpoint", "leave">>}
DeleteMoves ==
  {<<"stop", "leave">>, <<"leave", "dropns">>, <<"dropns", "unnative">>,
   <<"unnative", "rmrecord">>, <<"rmrecord", "rmdir">>, <<"unlink", "unmember">>,
   <<"unmember", "unendpoint">>, <<"unendpoint", "leave">>}
StartMoves ==
  {<<"unhook", "dropns">>, <<"dropns", "netns">>, <<"netns", "identify">>,
   <<"identify", "rejoin">>, <<"rejoin", "task">>, <<"unlink", "unhook">>,
   <<"link", "alias">>, <<"alias", "rejoin">>}
RebuildMoves ==
  {<<"untable", "bridge">>, <<"bridge", "own">>, <<"own", "table">>, <<"table", "hash">>}
RehouseMoves ==
  {<<"unhook", "netns">>, <<"netns", "identify">>, <<"identify", "rejoin">>,
   <<"unlink", "unhook">>, <<"link", "alias">>, <<"alias", "rejoin">>}

\* What Advance does, from the pairs of consecutive steps.
LEMMA NetMoves ==
  ASSUME NetworksTypeOK, Advance, NEW last, NEW pairs,
         StepsOf(handler.by)[Len(StepsOf(handler.by))] = last,
         \A p \in {StepsOf(handler.by)} \cup LoopsOf(handler.by) : \A e :
           Then(p, handler.do, e) => <<handler.do, e>> \in pairs,
         \A e : <<handler.do, e>> \in pairs => e \in HandlerSteps
  PROVE  Moves(last, pairs)
<1> DEFINE q == StepsOf(handler.by)
<1>1. \/ handler.do = q[Len(q)] /\ handler' = NoHandler
      \/ \E p \in {q} \cup LoopsOf(handler.by) : \E e :
           Then(p, handler.do, e) /\ handler' = [handler EXCEPT !.do = e]
  BY DEF Advance, Then
<1>2. ASSUME NEW e \in HandlerSteps
      PROVE  [handler EXCEPT !.do = e] =
               [by |-> handler.by, do |-> e, net |-> handler.net, box |-> handler.box]
  BY DEF NetworksTypeOK
<1> QED BY <1>1, <1>2 DEF Moves

\* What follows each step of createNetwork.
LEMMA AfterCreateNetwork ==
  ASSUME NetworksTypeOK, Advance, handler.by = "createNetwork"
  PROVE  Moves("hash", CreateNetworkMoves)
<1>1. StepsOf(handler.by)[Len(StepsOf(handler.by))] = "hash"
  BY DEF StepsOf, CreateNetworkSteps, Materialize
<1>2. ASSUME NEW e, Then(StepsOf(handler.by), handler.do, e)
      PROVE  <<handler.do, e>> \in CreateNetworkMoves
  BY <1>2 DEF StepsOf, Then, CreateNetworkSteps, Materialize, CreateNetworkMoves
<1>3. LoopsOf(handler.by) = {}
  BY DEF LoopsOf
<1>4. \A e : <<handler.do, e>> \in CreateNetworkMoves => e \in HandlerSteps
  BY DEF CreateNetworkMoves, HandlerSteps
<1> QED BY <1>1, <1>2, <1>3, <1>4, NetMoves

\* What follows each step of removeNetwork.
LEMMA AfterRemoveNetwork ==
  ASSUME NetworksTypeOK, Advance, handler.by = "removeNetwork"
  PROVE  Moves("unrecord", RemoveNetworkMoves)
<1>1. StepsOf(handler.by)[Len(StepsOf(handler.by))] = "unrecord"
  BY DEF StepsOf, RemoveNetworkSteps
<1>2. ASSUME NEW e, Then(StepsOf(handler.by), handler.do, e)
      PROVE  <<handler.do, e>> \in RemoveNetworkMoves
  BY <1>2 DEF StepsOf, Then, RemoveNetworkSteps, RemoveNetworkMoves
<1>3. LoopsOf(handler.by) = {}
  BY DEF LoopsOf
<1>4. \A e : <<handler.do, e>> \in RemoveNetworkMoves => e \in HandlerSteps
  BY DEF RemoveNetworkMoves, HandlerSteps
<1> QED BY <1>1, <1>2, <1>3, <1>4, NetMoves

\* What follows each step of connect.
LEMMA AfterConnect ==
  ASSUME NetworksTypeOK, Advance, handler.by = "connect"
  PROVE  Moves("alias", ConnectMoves)
<1>1. StepsOf(handler.by)[Len(StepsOf(handler.by))] = "alias"
  BY DEF StepsOf, ConnectSteps, EndpointSteps
<1>2. ASSUME NEW e, Then(StepsOf(handler.by), handler.do, e)
      PROVE  <<handler.do, e>> \in ConnectMoves
  BY <1>2 DEF StepsOf, Then, ConnectSteps, EndpointSteps, ConnectMoves
<1>3. LoopsOf(handler.by) = {}
  BY DEF LoopsOf
<1>4. \A e : <<handler.do, e>> \in ConnectMoves => e \in HandlerSteps
  BY DEF ConnectMoves, HandlerSteps
<1> QED BY <1>1, <1>2, <1>3, <1>4, NetMoves

\* What follows each step of disconnect.
LEMMA AfterDisconnect ==
  ASSUME NetworksTypeOK, Advance, handler.by = "disconnect"
  PROVE  Moves("unendpoint", DisconnectMoves)
<1>1. StepsOf(handler.by)[Len(StepsOf(handler.by))] = "unendpoint"
  BY DEF StepsOf, DisconnectSteps
<1>2. ASSUME NEW e, Then(StepsOf(handler.by), handler.do, e)
      PROVE  <<handler.do, e>> \in DisconnectMoves
  BY <1>2 DEF StepsOf, Then, DisconnectSteps, DisconnectMoves
<1>3. LoopsOf(handler.by) = {}
  BY DEF LoopsOf
<1>4. \A e : <<handler.do, e>> \in DisconnectMoves => e \in HandlerSteps
  BY DEF DisconnectMoves, HandlerSteps
<1> QED BY <1>1, <1>2, <1>3, <1>4, NetMoves

\* What follows each step of create.
LEMMA AfterCreate ==
  ASSUME NetworksTypeOK, Advance, handler.by = "create"
  PROVE  Moves("native", CreateMoves)
<1>1. StepsOf(handler.by)[Len(StepsOf(handler.by))] = "native"
  BY DEF StepsOf, CreateSteps, NamespaceSteps, ConnectSteps, EndpointSteps
<1>2. ASSUME NEW e, Then(StepsOf(handler.by), handler.do, e)
      PROVE  <<handler.do, e>> \in CreateMoves
  BY <1>2 DEF StepsOf, Then, CreateSteps, NamespaceSteps, ConnectSteps, EndpointSteps, CreateMoves
<1>3. LoopsOf(handler.by) = {}
  BY DEF LoopsOf
<1>4. \A e : <<handler.do, e>> \in CreateMoves => e \in HandlerSteps
  BY DEF CreateMoves, HandlerSteps
<1> QED BY <1>1, <1>2, <1>3, <1>4, NetMoves

\* What follows each step of clear.
LEMMA AfterClear ==
  ASSUME NetworksTypeOK, Advance, handler.by = "clear"
  PROVE  Moves("rmdir", ClearMoves)
<1>1. StepsOf(handler.by)[Len(StepsOf(handler.by))] = "rmdir"
  BY DEF StepsOf, ClearIntent
<1>2. ASSUME NEW e, Then(StepsOf(handler.by), handler.do, e)
      PROVE  <<handler.do, e>> \in ClearMoves
  BY <1>2 DEF StepsOf, Then, ClearIntent, ClearMoves
<1>3. ASSUME NEW p \in LoopsOf(handler.by), NEW e, Then(p, handler.do, e)
      PROVE  <<handler.do, e>> \in ClearMoves
  <2>1. p = DisconnectSteps \o <<"leave">>
    BY DEF LoopsOf
  <2>2. Then(DisconnectSteps \o <<"leave">>, handler.do, e)
    BY <1>3, <2>1
  <2> QED BY <2>2 DEF Then, DisconnectSteps, ClearMoves
<1>4. \A e : <<handler.do, e>> \in ClearMoves => e \in HandlerSteps
  BY DEF ClearMoves, HandlerSteps
<1> QED BY <1>1, <1>2, <1>3, <1>4, NetMoves

\* What follows each step of delete.
LEMMA AfterDelete ==
  ASSUME NetworksTypeOK, Advance, handler.by = "delete"
  PROVE  Moves("rmdir", DeleteMoves)
<1>1. StepsOf(handler.by)[Len(StepsOf(handler.by))] = "rmdir"
  BY DEF StepsOf, DeleteSteps
<1>2. ASSUME NEW e, Then(StepsOf(handler.by), handler.do, e)
      PROVE  <<handler.do, e>> \in DeleteMoves
  BY <1>2 DEF StepsOf, Then, DeleteSteps, DeleteMoves
<1>3. ASSUME NEW p \in LoopsOf(handler.by), NEW e, Then(p, handler.do, e)
      PROVE  <<handler.do, e>> \in DeleteMoves
  <2>1. p = DisconnectSteps \o <<"leave">>
    BY DEF LoopsOf
  <2>2. Then(DisconnectSteps \o <<"leave">>, handler.do, e)
    BY <1>3, <2>1
  <2> QED BY <2>2 DEF Then, DisconnectSteps, DeleteMoves
<1>4. \A e : <<handler.do, e>> \in DeleteMoves => e \in HandlerSteps
  BY DEF DeleteMoves, HandlerSteps
<1> QED BY <1>1, <1>2, <1>3, <1>4, NetMoves

\* What follows each step of start.
LEMMA AfterStart ==
  ASSUME NetworksTypeOK, Advance, handler.by = "start"
  PROVE  Moves("task", StartMoves)
<1>1. StepsOf(handler.by)[Len(StepsOf(handler.by))] = "task"
  BY DEF StepsOf, StartSteps, NamespaceSteps
<1>2. ASSUME NEW e, Then(StepsOf(handler.by), handler.do, e)
      PROVE  <<handler.do, e>> \in StartMoves
  BY <1>2 DEF StepsOf, Then, StartSteps, NamespaceSteps, StartMoves
<1>3. ASSUME NEW p \in LoopsOf(handler.by), NEW e, Then(p, handler.do, e)
      PROVE  <<handler.do, e>> \in StartMoves
  <2>1. p = <<"unlink", "unhook">> \/ p = EndpointSteps \o <<"rejoin">>
    BY DEF LoopsOf
  <2>2. CASE Then(<<"unlink", "unhook">>, handler.do, e)
    BY <2>2 DEF Then, StartMoves
  <2>3. CASE Then(EndpointSteps \o <<"rejoin">>, handler.do, e)
    BY <2>3 DEF Then, EndpointSteps, StartMoves
  <2> QED BY <1>3, <2>1, <2>2, <2>3
<1>4. \A e : <<handler.do, e>> \in StartMoves => e \in HandlerSteps
  BY DEF StartMoves, HandlerSteps
<1> QED BY <1>1, <1>2, <1>3, <1>4, NetMoves

\* What follows each step of rebuild.
LEMMA AfterRebuild ==
  ASSUME NetworksTypeOK, Advance, handler.by = "rebuild"
  PROVE  Moves("hash", RebuildMoves)
<1>1. StepsOf(handler.by)[Len(StepsOf(handler.by))] = "hash"
  BY DEF StepsOf, RebuildSteps, Materialize
<1>2. ASSUME NEW e, Then(StepsOf(handler.by), handler.do, e)
      PROVE  <<handler.do, e>> \in RebuildMoves
  BY <1>2 DEF StepsOf, Then, RebuildSteps, Materialize, RebuildMoves
<1>3. LoopsOf(handler.by) = {}
  BY DEF LoopsOf
<1>4. \A e : <<handler.do, e>> \in RebuildMoves => e \in HandlerSteps
  BY DEF RebuildMoves, HandlerSteps
<1> QED BY <1>1, <1>2, <1>3, <1>4, NetMoves

\* What follows each step of rehouse.
LEMMA AfterRehouse ==
  ASSUME NetworksTypeOK, Advance, handler.by = "rehouse"
  PROVE  Moves("rejoin", RehouseMoves)
<1>1. StepsOf(handler.by)[Len(StepsOf(handler.by))] = "rejoin"
  BY DEF StepsOf, RehouseSteps, NamespaceSteps
<1>2. ASSUME NEW e, Then(StepsOf(handler.by), handler.do, e)
      PROVE  <<handler.do, e>> \in RehouseMoves
  BY <1>2 DEF StepsOf, Then, RehouseSteps, NamespaceSteps, RehouseMoves
<1>3. ASSUME NEW p \in LoopsOf(handler.by), NEW e, Then(p, handler.do, e)
      PROVE  <<handler.do, e>> \in RehouseMoves
  <2>1. p = <<"unlink", "unhook">> \/ p = EndpointSteps \o <<"rejoin">>
    BY DEF LoopsOf
  <2>2. CASE Then(<<"unlink", "unhook">>, handler.do, e)
    BY <2>2 DEF Then, RehouseMoves
  <2>3. CASE Then(EndpointSteps \o <<"rejoin">>, handler.do, e)
    BY <2>3 DEF Then, EndpointSteps, RehouseMoves
  <2> QED BY <1>3, <2>1, <2>2, <2>3
<1>4. \A e : <<handler.do, e>> \in RehouseMoves => e \in HandlerSteps
  BY DEF RehouseMoves, HandlerSteps
<1> QED BY <1>1, <1>2, <1>3, <1>4, NetMoves

\* The type of the handler.
HandlerRecords == [by : Handlers \cup {"idle"}, do : HandlerSteps,
                   net : Nets \cup {Nothing}, box : Boxes \cup {Nothing}]

\* The next step is a step.
LEMMA NetHandlerType ==
  ASSUME NetInv, Advance, handler # NoHandler
  PROVE  handler' \in HandlerRecords
<1>1. \/ handler' = NoHandler
      \/ \E e \in HandlerSteps : handler' = [by |-> handler.by, do |-> e, net |-> handler.net,
                                      box |-> handler.box]
  <2>1. handler.by \in Handlers
    BY DEF NetInv, HandlerInv, StateInv, NetworksTypeOK
  <2> USE DEF NetInv, StateInv
  <2>2. CASE handler.by = "createNetwork"
    BY <2>2, AfterCreateNetwork DEF Moves
  <2>3. CASE handler.by = "removeNetwork"
    BY <2>3, AfterRemoveNetwork DEF Moves
  <2>4. CASE handler.by = "connect"
    BY <2>4, AfterConnect DEF Moves
  <2>5. CASE handler.by = "disconnect"
    BY <2>5, AfterDisconnect DEF Moves
  <2>6. CASE handler.by = "create"
    BY <2>6, AfterCreate DEF Moves
  <2>7. CASE handler.by = "clear"
    BY <2>7, AfterClear DEF Moves
  <2>8. CASE handler.by = "delete"
    BY <2>8, AfterDelete DEF Moves
  <2>9. CASE handler.by = "start"
    BY <2>9, AfterStart DEF Moves
  <2>10. CASE handler.by = "rebuild"
    BY <2>10, AfterRebuild DEF Moves
  <2>11. CASE handler.by = "rehouse"
    BY <2>11, AfterRehouse DEF Moves
  <2> QED BY <2>1, <2>2, <2>3, <2>4, <2>5, <2>6, <2>7, <2>8, <2>9, <2>10, <2>11 DEF Handlers
<1>2. handler \in HandlerRecords
  BY DEF NetInv, StateInv, NetworksTypeOK, HandlerRecords
<1> QED BY <1>1, <1>2 DEF HandlerRecords, NoHandler, HandlerSteps

\* What a step does, in terms of what the invariant speaks of.
LEMMA NetStep ==
  ASSUME NetInv, Execute
  PROVE  LET d == handler.do  n == handler.net  b == handler.box IN
    /\ node' = node /\ Possible(handler)
    /\ \A m \in Nets :
       /\ Members(m)' = IF d = "member" /\ m = n THEN Members(m) \cup {b}
                        ELSE IF d = "unmember" /\ m = n THEN Members(m) \ {b}
                        ELSE Members(m)
       /\ Confirmed(m) => (Confirmed(m))' \/ (d = "unrecord" /\ m = n)
       /\ (Confirmed(m))' => Confirmed(m) \/ (d = "hash" /\ m = n)
       /\ netRecord[m] # Nothing => netRecord'[m] # Nothing \/ (d = "unrecord" /\ m = n)
       /\ d = "netRecord" /\ m = n => netRecord'[m] # Nothing /\ ~(Confirmed(m))'
    /\ \A c \in Boxes :
       /\ NetsOf(c)' \subseteq NetsOf(c) \cup (IF d = "endpoint" /\ c = b THEN {n} ELSE {})
       /\ d \notin {"mkdir", "rmrecord", "endpoint", "unendpoint"} => NetsOf(c)' = NetsOf(c)
       /\ Recorded(c) => (Recorded(c))' \/ (d \in {"mkdir", "rmrecord", "rmdir"} /\ c = b)
       /\ d = "record" /\ c = b => (Recorded(c))'
    /\ native' = IF d = "native" THEN native \cup {b}
                 ELSE IF d = "unnative" THEN native \ {b} ELSE native
    /\ task' = IF d = "task" THEN task \cup {b}
               ELSE IF d = "stop" THEN task \ {b} ELSE task
    /\ table' = IF d = "table" THEN table \cup {n}
                ELSE IF d = "untable" THEN table \ {n} ELSE table
    /\ \A m \in Nets :
         bridge'[m] = IF m = n /\ d = "bridge" THEN "bare"
                      ELSE IF m = n /\ d = "own" THEN "owned"
                      ELSE IF m = n /\ d = "unbridge" THEN "none" ELSE bridge[m]
    /\ \A c \in Boxes :
         namespace'[c] = IF c = b /\ d = "netns" THEN "unsaved"
                         ELSE IF c = b /\ d = "identify" THEN "saved"
                         ELSE IF c = b /\ d = "dropns" THEN "none" ELSE namespace[c]
    /\ \A m \in Nets, c \in Boxes :
         link'[m][c] = IF c = b /\ m = n /\ d = "link" THEN "bare"
                       ELSE IF c = b /\ m = n /\ d = "alias" THEN "owned"
                       ELSE IF c = b /\ m = n /\ d = "unlink" THEN "none"
                       ELSE IF c = b /\ d = "dropns" THEN "none" ELSE link[m][c]
<1>1. handler # NoHandler /\ NetworksTypeOK /\ Fits
  BY NetEffects, NetFits DEF NetInv, StateInv
<1> QED BY <1>1, NetEffects, NetRecordSteps, NetBoxSteps, NetKernelSteps

\* A step keeps the disk, containerd and the kernel in agreement.
LEMMA NetStepState ==
  ASSUME NetInv, Execute
  PROVE  StateInv'
<1> DEFINE d == handler.do
           n == handler.net
           b == handler.box
<1>e. handler # NoHandler /\ Advance /\ Possible(handler) /\ node' = node /\ ops' = ops
  BY NetEffects
<1>f. Fits
  BY <1>e, NetFits
<1>i. StateInv /\ NetworksTypeOK
  BY DEF NetInv, StateInv
<1>h. handler' \in HandlerRecords
  BY <1>e, NetHandlerType
<1>1. NetworksTypeOK'
  BY <1>e, <1>f, <1>h, <1>i, NetRecordSteps, NetBoxSteps, NetKernelSteps
  DEF NetworksTypeOK, HandlerRecords
<1>l. ASSUME NEW m \in Nets, NEW c \in Boxes, link'[m][c] # "none"
      PROVE  /\ c \in Members(m) /\ bridge[m] # "none"
             /\ c \in Guests => m \in Internal
             /\ link[m][c] = "none" => d = "link" /\ m = n /\ c = b
  <2>1. CASE link[m][c] # "none"
    BY <2>1, <1>i DEF StateInv, LeftoversAreRecorded, BridgedLinks, GuestsInside
  <2>2. CASE link[m][c] = "none"
    <3>1. d \in {"link", "alias"} /\ m = n /\ c = b
      BY <1>l, <2>2, NetStep
    <3>2. d = "link"
      BY <3>1, <2>2, <1>f DEF Fits
    <3> QED BY <3>1, <3>2, <1>f, <1>e DEF Fits, Possible
  <2> QED BY <2>1, <2>2
<1>2. LeftoversAreRecorded'
  <2>1. ASSUME NEW m \in Nets, bridge'[m] # "none" \/ m \in table'
        PROVE  netRecord'[m] # Nothing
    <3>1. netRecord[m] # Nothing
      BY <2>1, <1>i, <1>f, NetStep DEF StateInv, LeftoversAreRecorded, Fits
    <3>2. ~(d = "unrecord" /\ m = n)
      BY <2>1, <1>f, NetStep DEF Fits
    <3> QED BY <3>1, <3>2, NetStep
  <2>2. ASSUME NEW m \in Nets, NEW c \in Boxes, link'[m][c] # "none"
        PROVE  c \in Members(m)'
    <3>1. ~(d = "unmember" /\ m = n /\ c = b)
      BY <2>2, <1>f, NetStep DEF Fits
    <3> QED BY <2>2, <3>1, <1>l, NetStep
  <2>3. ASSUME NEW c \in Boxes, namespace'[c] # "none" \/ c \in native'
        PROVE  (Recorded(c))'
    <3>1. Recorded(c)
      BY <2>3, <1>i, <1>f, NetStep DEF StateInv, LeftoversAreRecorded, Fits
    <3>2. ~(d \in {"mkdir", "rmrecord", "rmdir"} /\ c = b)
      BY <3>1, <2>3, <1>f, NetStep DEF Fits, Recorded
    <3> QED BY <3>1, <3>2, NetStep
  <2>4. task' \subseteq native'
    BY <1>f, <1>i, NetStep DEF Fits, StateInv, LeftoversAreRecorded
  <2> QED BY <2>1, <2>2, <2>3, <2>4 DEF LeftoversAreRecorded
<1>3. BridgedLinks'
  <2>1. ASSUME NEW m \in Nets, NEW c \in Boxes, link'[m][c] # "none"
        PROVE  bridge'[m] # "none"
    <3>1. ~(d = "unbridge" /\ m = n)
      BY <2>1, <1>l, <1>f DEF Fits
    <3> QED BY <3>1, <2>1, <1>l, NetStep
  <2> QED BY <2>1 DEF BridgedLinks
<1>4. MembersConfirmed'
  <2>1. ASSUME NEW m \in Internal, Members(m)' # {}
        PROVE  (Confirmed(m))'
    <3>0. m \in Nets
      BY NetworksAssumption
    <3>1. Confirmed(m) /\ (Members(m) # {} \/ d = "member")
      BY <2>1, <3>0, <1>i, <1>f, NetStep DEF StateInv, MembersConfirmed, Fits, Usable
    <3>2. ~(d = "unrecord" /\ m = n)
      BY <3>1, <1>f DEF Fits
    <3> QED BY <3>0, <3>1, <3>2, NetStep
  <2> QED BY <2>1 DEF MembersConfirmed
<1>5. GuestsInside'
  <2>1. ASSUME NEW c \in Guests
        PROVE  NetsOf(c)' \subseteq Internal
    BY <1>i, <1>f, NetStep, NetworksAssumption DEF StateInv, GuestsInside, Fits
  <2> QED BY <2>1, <1>l, NetworksAssumption DEF GuestsInside
<1>6. ServedNetworks'
  <2>1. ASSUME node = "up", NEW m \in Nets, (Confirmed(m))', bridge'[m] # "none"
        PROVE  bridge'[m] = "owned" /\ m \in table'
    <3>1. CASE ~Confirmed(m)
      BY <2>1, <3>1, <1>f, NetStep DEF Fits
    <3>2. CASE Confirmed(m)
      <4>1. m = n => d \notin {"bridge", "own", "table"} /\ (d = "untable" => bridge[n] = "none")
        BY <2>1, <3>2, <1>f DEF Fits
      <4> QED BY <2>1, <3>2, <4>1, <1>i, NetStep DEF StateInv, ServedNetworks
    <3> QED BY <3>1, <3>2
  <2> QED BY <2>1, <1>e DEF ServedNetworks
<1>7. GuestBehindFirewall'
  <2>1. ASSUME NEW c \in Guests, c \in task', NEW m \in Nets, link'[m][c] # "none"
        PROVE  m \in Internal /\ bridge'[m] = "owned" /\ m \in table'
    <3>0. c \in Boxes
      BY <2>1, NetworksAssumption
    <3>1. c \in Members(m) /\ bridge[m] # "none" /\ m \in Internal
      BY <3>0, <2>1, <1>l
    <3>2. Confirmed(m)
      BY <3>1, <1>i DEF StateInv, MembersConfirmed
    <3>3. bridge[m] = "owned" /\ m \in table
      <4>1. CASE node = "up"
        BY <3>1, <3>2, <4>1, <1>i DEF StateInv, ServedNetworks
      <4>2. CASE node # "up"
        <5>1. c \in task
          BY <4>2, <2>1, <1>f, NetStep DEF Fits
        <5>2. link[m][c] # "none"
          BY <5>1, <4>2, <3>0, <2>1, <1>l, <1>f DEF Fits
        <5> QED BY <5>1, <5>2, <2>1, <1>i DEF StateInv, GuestBehindFirewall
      <4> QED BY <4>1, <4>2
    <3>4. d \in {"bridge", "own", "table", "untable", "unbridge"} => m # n
      <4>1. CASE node = "up"
        BY <4>1, <3>1, <3>2, <1>f, <1>i DEF Fits
      <4>2. CASE node # "up"
        <5>1. c \in task
          BY <4>2, <2>1, <1>f, NetStep DEF Fits
        <5> QED BY <5>1, <3>1, <1>f DEF Fits
      <4> QED BY <4>1, <4>2
    <3> QED BY <3>1, <3>3, <3>4, NetStep
  <2> QED BY <2>1 DEF GuestBehindFirewall
<1> QED BY <1>1, <1>2, <1>3, <1>4, <1>5, <1>6, <1>7 DEF StateInv

\* An idle engine relies on nothing.
LEMMA NetIdle ==
  ASSUME handler' = NoHandler
  PROVE  HandlerInv'
BY DEF HandlerInv, NoHandler, Creating, Rebuilding, Removing, Joining, Connecting, CreatingBox,
       Leaving, Disconnecting, Clearing, Deleting, Rehousing

\* After each step of createNetwork the next one has what it relies on.
LEMMA NetCreateNetworkStep ==
  ASSUME NetInv, Execute, handler.by = "createNetwork"
  PROVE  HandlerInv'
<1>1. Advance /\ NetworksTypeOK
  BY NetEffects DEF NetInv, StateInv
<1>2. ASSUME NEW e, <<handler.do, e>> \in CreateNetworkMoves,
             handler' = [by |-> handler.by, do |-> e, net |-> handler.net, box |-> handler.box]
      PROVE  HandlerInv'
  <2>1. /\ handler'.by = "createNetwork" /\ handler'.do = e
        /\ handler'.net = handler.net /\ handler'.box = handler.box
    BY <1>2
  <2>2. Creating'
    BY <1>2, <2>1, NetStep DEF CreateNetworkMoves, NetInv, HandlerInv, Creating, Members
  <2> QED BY <2>1, <2>2 DEF HandlerInv,
                Rebuilding, Removing, Joining, Connecting, CreatingBox, Leaving,
                Disconnecting, Clearing, Deleting, Rehousing
<1> QED BY <1>1, <1>2, AfterCreateNetwork, NetIdle DEF Moves

\* After each step of removeNetwork the next one has what it relies on.
LEMMA NetRemoveNetworkStep ==
  ASSUME NetInv, Execute, handler.by = "removeNetwork"
  PROVE  HandlerInv'
<1>1. Advance /\ NetworksTypeOK
  BY NetEffects DEF NetInv, StateInv
<1>2. ASSUME NEW e, <<handler.do, e>> \in RemoveNetworkMoves,
             handler' = [by |-> handler.by, do |-> e, net |-> handler.net, box |-> handler.box]
      PROVE  HandlerInv'
  <2>1. /\ handler'.by = "removeNetwork" /\ handler'.do = e
        /\ handler'.net = handler.net /\ handler'.box = handler.box
    BY <1>2
  <2>2. Removing'
    BY <1>2, <2>1, NetStep DEF RemoveNetworkMoves, NetInv, HandlerInv, Removing
  <2> QED BY <2>1, <2>2 DEF HandlerInv,
                Creating, Rebuilding, Joining, Connecting, CreatingBox, Leaving,
                Disconnecting, Clearing, Deleting, Rehousing
<1> QED BY <1>1, <1>2, AfterRemoveNetwork, NetIdle DEF Moves

\* After each step of the rebuilding of a network the next one has what it relies on.
LEMMA NetRebuildStep ==
  ASSUME NetInv, Execute, handler.by = "rebuild"
  PROVE  HandlerInv'
<1>1. Advance /\ NetworksTypeOK
  BY NetEffects DEF NetInv, StateInv
<1>2. ASSUME NEW e, <<handler.do, e>> \in RebuildMoves,
             handler' = [by |-> handler.by, do |-> e, net |-> handler.net, box |-> handler.box]
      PROVE  HandlerInv'
  <2>1. /\ handler'.by = "rebuild" /\ handler'.do = e
        /\ handler'.net = handler.net /\ handler'.box = handler.box
    BY <1>2
  <2>2. Rebuilding'
    BY <1>2, <2>1, NetStep DEF RebuildMoves, NetInv, HandlerInv, Rebuilding
  <2> QED BY <2>1, <2>2 DEF HandlerInv,
                Creating, Removing, Joining, Connecting, CreatingBox, Leaving,
                Disconnecting, Clearing, Deleting, Rehousing
<1> QED BY <1>1, <1>2, AfterRebuild, NetIdle DEF Moves

\* After each step of connect the next one has what it relies on.
LEMMA NetConnectStep ==
  ASSUME NetInv, Execute, handler.by = "connect"
  PROVE  HandlerInv'
<1>1. Advance /\ NetworksTypeOK
  BY NetEffects DEF NetInv, StateInv
<1>2. ASSUME NEW e, <<handler.do, e>> \in ConnectMoves,
             handler' = [by |-> handler.by, do |-> e, net |-> handler.net, box |-> handler.box]
      PROVE  HandlerInv'
  <2>1. /\ handler'.by = "connect" /\ handler'.do = e
        /\ handler'.net = handler.net /\ handler'.box = handler.box
    BY <1>2
  <2>2. Joining'
    BY <1>2, <2>1, NetStep DEF ConnectMoves, NetInv, HandlerInv, Joining, Connecting, Usable
  <2>3. Connecting'
    BY <1>2, <2>1, NetStep DEF ConnectMoves, NetInv, HandlerInv, Joining, Connecting
  <2> QED BY <2>1, <2>2, <2>3 DEF HandlerInv,
                Creating, Rebuilding, Removing, CreatingBox, Leaving, Disconnecting,
                Clearing, Deleting, Rehousing
<1> QED BY <1>1, <1>2, AfterConnect, NetIdle DEF Moves

\* After each step of create the next one has what it relies on.
LEMMA NetCreateStep ==
  ASSUME NetInv, Execute, handler.by = "create"
  PROVE  HandlerInv'
<1>1. Advance /\ NetworksTypeOK
  BY NetEffects DEF NetInv, StateInv
<1>2. ASSUME NEW e, <<handler.do, e>> \in CreateMoves,
             handler' = [by |-> handler.by, do |-> e, net |-> handler.net, box |-> handler.box]
      PROVE  HandlerInv'
  <2>1. /\ handler'.by = "create" /\ handler'.do = e
        /\ handler'.net = handler.net /\ handler'.box = handler.box
    BY <1>2
  <2>2. Joining'
    BY <1>2, <2>1, NetStep DEF CreateMoves, NetInv, HandlerInv, Joining, CreatingBox, Usable
  <2>3. CreatingBox'
    BY <1>2, <2>1, NetStep DEF CreateMoves, NetInv, HandlerInv, Joining, CreatingBox
  <2> QED BY <2>1, <2>2, <2>3 DEF HandlerInv,
                Creating, Rebuilding, Removing, Connecting, Leaving, Disconnecting,
                Clearing, Deleting, Rehousing
<1> QED BY <1>1, <1>2, AfterCreate, NetIdle DEF Moves

\* After each step of disconnect the next one has what it relies on.
LEMMA NetDisconnectStep ==
  ASSUME NetInv, Execute, handler.by = "disconnect"
  PROVE  HandlerInv'
<1>1. Advance /\ NetworksTypeOK
  BY NetEffects DEF NetInv, StateInv
<1>2. ASSUME NEW e, <<handler.do, e>> \in DisconnectMoves,
             handler' = [by |-> handler.by, do |-> e, net |-> handler.net, box |-> handler.box]
      PROVE  HandlerInv'
  <2>1. /\ handler'.by = "disconnect" /\ handler'.do = e
        /\ handler'.net = handler.net /\ handler'.box = handler.box
    BY <1>2
  <2>2. Leaving'
    BY <1>2, <2>1, NetStep DEF DisconnectMoves, NetInv, HandlerInv, Leaving, Disconnecting
  <2>3. Disconnecting'
    BY <1>2, <2>1, NetStep DEF DisconnectMoves, NetInv, HandlerInv, Leaving, Disconnecting
  <2> QED BY <2>1, <2>2, <2>3 DEF HandlerInv,
                Creating, Rebuilding, Removing, Joining, Connecting, CreatingBox,
                Clearing, Deleting, Rehousing
<1> QED BY <1>1, <1>2, AfterDisconnect, NetIdle DEF Moves

\* After each step of clearIntent the next one has what it relies on.
LEMMA NetClearStep ==
  ASSUME NetInv, Execute, handler.by = "clear"
  PROVE  HandlerInv'
<1>1. Advance /\ NetworksTypeOK
  BY NetEffects DEF NetInv, StateInv
<1>2. ASSUME NEW e, <<handler.do, e>> \in ClearMoves,
             handler' = [by |-> handler.by, do |-> e, net |-> handler.net, box |-> handler.box]
      PROVE  HandlerInv'
  <2>1. /\ handler'.by = "clear" /\ handler'.do = e
        /\ handler'.net = handler.net /\ handler'.box = handler.box
    BY <1>2
  <2>2. Leaving'
    BY <1>2, <2>1, NetStep DEF ClearMoves, NetInv, HandlerInv, Leaving, Clearing
  <2>3. Clearing'
    BY <1>2, <2>1, NetStep DEF ClearMoves, NetInv, HandlerInv, Leaving, Clearing
  <2> QED BY <2>1, <2>2, <2>3 DEF HandlerInv,
                Creating, Rebuilding, Removing, Joining, Connecting, CreatingBox,
                Disconnecting, Deleting, Rehousing
<1> QED BY <1>1, <1>2, AfterClear, NetIdle DEF Moves

\* After each step of DELETE of a container the next one has what it relies on.
LEMMA NetDeleteStep ==
  ASSUME NetInv, Execute, handler.by = "delete"
  PROVE  HandlerInv'
<1>1. Advance /\ NetworksTypeOK
  BY NetEffects DEF NetInv, StateInv
<1>2. ASSUME NEW e, <<handler.do, e>> \in DeleteMoves,
             handler' = [by |-> handler.by, do |-> e, net |-> handler.net, box |-> handler.box]
      PROVE  HandlerInv'
  <2>1. /\ handler'.by = "delete" /\ handler'.do = e
        /\ handler'.net = handler.net /\ handler'.box = handler.box
    BY <1>2
  <2>2. Leaving'
    BY <1>2, <2>1, NetStep DEF DeleteMoves, NetInv, HandlerInv, Leaving, Deleting
  <2>3. Deleting'
    BY <1>2, <2>1, NetStep DEF DeleteMoves, NetInv, HandlerInv, Leaving, Deleting
  <2> QED BY <2>1, <2>2, <2>3 DEF HandlerInv,
                Creating, Rebuilding, Removing, Joining, Connecting, CreatingBox,
                Disconnecting, Clearing, Rehousing
<1> QED BY <1>1, <1>2, AfterDelete, NetIdle DEF Moves

\* After each step of start the next one has what it relies on.
LEMMA NetStartStep ==
  ASSUME NetInv, Execute, handler.by = "start"
  PROVE  HandlerInv'
<1>1. Advance /\ NetworksTypeOK
  BY NetEffects DEF NetInv, StateInv
<1>2. ASSUME NEW e, <<handler.do, e>> \in StartMoves,
             handler' = [by |-> handler.by, do |-> e, net |-> handler.net, box |-> handler.box]
      PROVE  HandlerInv'
  <2>1. /\ handler'.by = "start" /\ handler'.do = e
        /\ handler'.net = handler.net /\ handler'.box = handler.box
    BY <1>2
  <2>a. /\ Rehousing /\ handler.box \in Boxes
        /\ NetsOf(handler.box) \subseteq Nets /\ NetsOf(handler.box)' = NetsOf(handler.box)
    <3>1. Rehousing /\ handler.box \in native /\ NetworksTypeOK
      BY DEF StartMoves, NetInv, HandlerInv, StateInv, Rehousing
    <3>2. handler.box \in Boxes /\ boxRecord[handler.box] \in BoxRecords
      BY <3>1 DEF NetworksTypeOK
    <3>3. boxRecord' = boxRecord
      BY <1>2, NetEffects DEF StartMoves
    <3> QED BY <3>1, <3>2, <3>3, <2>1 DEF NetsOf, BoxRecords
  <2>b. \A n \in Nets : Members(n)' = Members(n)
    BY <1>2, NetStep DEF StartMoves
  <2>c. e = "alias" => link'[handler.net][handler.box] # "none"
    BY <1>2, <2>a, NetStep DEF Rehousing, StartMoves
  <2>d. handler.do # "task" => \A n \in NetsOf(handler.box) : handler.box \in Members(n)
    BY <2>a DEF Rehousing, StartMoves
  <2>e. \A n \in NetsOf(handler.box) : (handler.box \in Members(n))'
    BY <1>2, <2>a, <2>b, <2>d, <2>1 DEF StartMoves
  <2>2. Rehousing'
    <3>1. native' = native /\ task' = task /\ node' = node
      BY <1>2, NetStep DEF StartMoves
    <3> QED BY <1>2, <2>1, <2>a, <2>c, <2>e, <3>1 DEF Rehousing, StartMoves
  <2> QED BY <2>1, <2>2 DEF HandlerInv,
                Creating, Rebuilding, Removing, Joining, Connecting, CreatingBox,
                Leaving, Disconnecting, Clearing, Deleting
<1> QED BY <1>1, <1>2, AfterStart, NetIdle DEF Moves

\* After each step of the rebuilding of a namespace the next one has what it relies on.
LEMMA NetRehouseStep ==
  ASSUME NetInv, Execute, handler.by = "rehouse"
  PROVE  HandlerInv'
<1>1. Advance /\ NetworksTypeOK
  BY NetEffects DEF NetInv, StateInv
<1>2. ASSUME NEW e, <<handler.do, e>> \in RehouseMoves,
             handler' = [by |-> handler.by, do |-> e, net |-> handler.net, box |-> handler.box]
      PROVE  HandlerInv'
  <2>1. /\ handler'.by = "rehouse" /\ handler'.do = e
        /\ handler'.net = handler.net /\ handler'.box = handler.box
    BY <1>2
  <2>a. /\ Rehousing /\ handler.box \in Boxes
        /\ NetsOf(handler.box) \subseteq Nets /\ NetsOf(handler.box)' = NetsOf(handler.box)
    <3>1. Rehousing /\ handler.box \in native /\ NetworksTypeOK
      BY DEF RehouseMoves, NetInv, HandlerInv, StateInv, Rehousing
    <3>2. handler.box \in Boxes /\ boxRecord[handler.box] \in BoxRecords
      BY <3>1 DEF NetworksTypeOK
    <3>3. boxRecord' = boxRecord
      BY <1>2, NetEffects DEF RehouseMoves
    <3> QED BY <3>1, <3>2, <3>3, <2>1 DEF NetsOf, BoxRecords
  <2>b. \A n \in Nets : Members(n)' = Members(n)
    BY <1>2, NetStep DEF RehouseMoves
  <2>c. e = "alias" => link'[handler.net][handler.box] # "none"
    BY <1>2, <2>a, NetStep DEF Rehousing, RehouseMoves
  <2>d. handler.do # "task" => \A n \in NetsOf(handler.box) : handler.box \in Members(n)
    BY <2>a DEF Rehousing, RehouseMoves
  <2>e. \A n \in NetsOf(handler.box) : (handler.box \in Members(n))'
    BY <1>2, <2>a, <2>b, <2>d, <2>1 DEF RehouseMoves
  <2>2. Rehousing'
    <3>1. native' = native /\ task' = task /\ node' = node
      BY <1>2, NetStep DEF RehouseMoves
    <3> QED BY <1>2, <2>1, <2>a, <2>c, <2>e, <3>1 DEF Rehousing, RehouseMoves
  <2> QED BY <2>1, <2>2 DEF HandlerInv,
                Creating, Rebuilding, Removing, Joining, Connecting, CreatingBox,
                Leaving, Disconnecting, Clearing, Deleting
<1> QED BY <1>1, <1>2, AfterRehouse, NetIdle DEF Moves

\* What writes neither disk nor kernel keeps their agreement, if a node that
\* begins to serve has verified its networks.
LEMMA NetSameState ==
  ASSUME StateInv, handler' \in HandlerRecords, node' \in {"down", "opening", "up"},
         ops' \in 0..MaxOps,
         node' = "up" => node = "up" \/ \A n \in Nets : Verified(n),
         UNCHANGED <<netRecord, boxRecord, native, bridge, table, link, namespace, task>>
  PROVE  StateInv'
<1>1. NetworksTypeOK'
  BY DEF StateInv, NetworksTypeOK, HandlerRecords
<1>2. LeftoversAreRecorded' /\ GuestBehindFirewall' /\ BridgedLinks'
  BY DEF StateInv, LeftoversAreRecorded, GuestBehindFirewall, BridgedLinks, Members, Recorded
<1>3. MembersConfirmed' /\ GuestsInside'
  BY NetworksAssumption DEF StateInv, MembersConfirmed, GuestsInside, Members, Confirmed, NetsOf
<1>4. ServedNetworks'
  BY DEF StateInv, ServedNetworks, Confirmed, Verified
<1> QED BY <1>1, <1>2, <1>3, <1>4 DEF StateInv

\* The types, as the actions need them.
LEMMA NetTypes ==
  ASSUME StateInv
  PROVE  /\ handler \in HandlerRecords /\ NoHandler \in HandlerRecords
         /\ node \in {"down", "opening", "up"} /\ ops \in 0..MaxOps
         /\ \A n \in Nets : Members(n) \subseteq Boxes
         /\ \A b \in Boxes : NetsOf(b) \subseteq Nets
         /\ native \subseteq Boxes /\ task \subseteq native
         /\ \A b \in native : Recorded(b)
<1>1. handler \in HandlerRecords /\ NoHandler \in HandlerRecords
  BY DEF StateInv, NetworksTypeOK, HandlerRecords, NoHandler, HandlerSteps
<1>2. \A n \in Nets : Members(n) \subseteq Boxes
  BY DEF StateInv, NetworksTypeOK, Members, NetRecords
<1>3. \A b \in Boxes : NetsOf(b) \subseteq Nets
  BY DEF StateInv, NetworksTypeOK, NetsOf, BoxRecords
<1> QED BY <1>1, <1>2, <1>3 DEF StateInv, NetworksTypeOK, LeftoversAreRecorded

\* A request that is accepted writes nothing yet.
LEMMA NetServe ==
  ASSUME StateInv, NEW by \in Handlers, NEW do \in HandlerSteps, NEW n \in Nets \cup {Nothing},
         NEW b \in Boxes \cup {Nothing}, Serve(by, do, n, b)
  PROVE  StateInv'
<1>1. /\ handler' = [by |-> by, do |-> do, net |-> n, box |-> b]
      /\ ops < MaxOps /\ ops' = ops + 1 /\ node' = node
      /\ UNCHANGED <<netRecord, boxRecord, native, bridge, table, link, namespace, task>>
  BY DEF Serve
<1>2. handler' \in HandlerRecords /\ ops' \in 0..MaxOps
  BY <1>1, NetTypes, NetworksAssumption DEF HandlerRecords
<1> QED BY <1>1, <1>2, NetTypes, NetSameState

\* What the request checks is what the first step of createNetwork relies on.
LEMMA NetCreateNetwork ==
  ASSUME NetInv, NEW n \in Nets, CreateNetwork(n)
  PROVE  NetInv'
<1>1. /\ Serve("createNetwork", "netRecord", n, Nothing)
      /\ handler' = [by |-> "createNetwork", do |-> "netRecord", net |-> n, box |-> Nothing]
      /\ netRecord[n] = Nothing /\ netRecord' = netRecord /\ node = "up" /\ node' = node
  BY DEF CreateNetwork, Serve
<1>2. StateInv'
  BY <1>1, NetServe DEF NetInv, Handlers, HandlerSteps
<1>3. HandlerInv'
  BY <1>1 DEF HandlerInv, Creating, Rebuilding, Removing, Joining, Connecting, CreatingBox,
              Leaving, Disconnecting, Clearing, Deleting, Rehousing
<1> QED BY <1>2, <1>3 DEF NetInv

\* What the request checks is what the first step of removeNetwork relies on.
LEMMA NetRemoveNetwork ==
  ASSUME NetInv, NEW n \in Nets, RemoveNetwork(n)
  PROVE  NetInv'
<1>1. /\ Serve("removeNetwork", "unbridge", n, Nothing)
      /\ handler' = [by |-> "removeNetwork", do |-> "unbridge", net |-> n, box |-> Nothing]
      /\ netRecord[n] # Nothing /\ Members(n) = {} /\ netRecord' = netRecord
      /\ node = "up" /\ node' = node
  BY DEF RemoveNetwork, Serve
<1>2. StateInv'
  BY <1>1, NetServe DEF NetInv, Handlers, HandlerSteps
<1>3. HandlerInv'
  BY <1>1 DEF HandlerInv, Creating, Rebuilding, Removing, Joining, Connecting, CreatingBox,
              Leaving, Disconnecting, Clearing, Deleting, Rehousing, Members
<1> QED BY <1>2, <1>3 DEF NetInv

\* What the request checks is what the first step of create relies on.
LEMMA NetCreateBox ==
  ASSUME NetInv, NEW n \in Nets, NEW b \in Boxes, CreateBox(n, b)
  PROVE  NetInv'
<1>1. /\ Serve("create", "mkdir", n, b) /\ boxRecord[b].at = "none"
      /\ handler' = [by |-> "create", do |-> "mkdir", net |-> n, box |-> b]
      /\ Usable(n) /\ (b \in Guests => n \in Internal)
      /\ netRecord' = netRecord /\ boxRecord' = boxRecord /\ native' = native
      /\ node = "up" /\ node' = node
  BY DEF CreateBox, Serve, MayJoin
<1>2. b \notin native
  BY <1>1, NetTypes DEF NetInv, Recorded
<1>3. StateInv'
  BY <1>1, NetServe DEF NetInv, Handlers, HandlerSteps
<1>4. HandlerInv'
  BY <1>1, <1>2 DEF HandlerInv, Creating, Rebuilding, Removing, Joining, Connecting, CreatingBox,
              Leaving, Disconnecting, Clearing, Deleting, Rehousing, Usable, Confirmed
<1> QED BY <1>3, <1>4 DEF NetInv

\* What the request checks is what the first step of connect relies on.
LEMMA NetConnect ==
  ASSUME NetInv, NEW n \in Nets, NEW b \in Boxes, Connect(n, b)
  PROVE  NetInv'
<1>1. ConnectSteps[1] = "member"
  BY DEF ConnectSteps, EndpointSteps
<1>2. /\ Serve("connect", "member", n, b) /\ Usable(n) /\ (b \in Guests => n \in Internal)
      /\ handler' = [by |-> "connect", do |-> "member", net |-> n, box |-> b]
      /\ netRecord' = netRecord /\ node = "up" /\ node' = node
  BY <1>1 DEF Connect, Serve, MayJoin
<1>3. StateInv'
  BY <1>2, NetServe DEF NetInv, Handlers, HandlerSteps
<1>4. HandlerInv'
  BY <1>2 DEF HandlerInv, Creating, Rebuilding, Removing, Joining, Connecting, CreatingBox,
              Leaving, Disconnecting, Clearing, Deleting, Rehousing, Usable, Confirmed
<1> QED BY <1>3, <1>4 DEF NetInv

\* What the request checks is what the first step of disconnect relies on.
LEMMA NetDisconnect ==
  ASSUME NetInv, NEW n \in Nets, NEW b \in Boxes, Disconnect(n, b)
  PROVE  NetInv'
<1>1. /\ Serve("disconnect", "unlink", n, b) /\ netRecord[n] # Nothing
      /\ handler' = [by |-> "disconnect", do |-> "unlink", net |-> n, box |-> b]
      /\ netRecord' = netRecord /\ node = "up" /\ node' = node
  BY DEF Disconnect, Serve, Members
<1>2. StateInv'
  BY <1>1, NetServe DEF NetInv, Handlers, HandlerSteps
<1>3. HandlerInv'
  BY <1>1 DEF HandlerInv, Creating, Rebuilding, Removing, Joining, Connecting, CreatingBox,
              Leaving, Disconnecting, Clearing, Deleting, Rehousing
<1> QED BY <1>2, <1>3 DEF NetInv

\* What the request checks is what the first step of start relies on.
LEMMA NetStart ==
  ASSUME NetInv, NEW b \in Boxes, Start(b)
  PROVE  NetInv'
<1> DEFINE do == IF b \in Guests THEN "unhook" ELSE "task"
<1>1. /\ Serve("start", do, Nothing, b) /\ b \in native
      /\ handler' = [by |-> "start", do |-> do, net |-> Nothing, box |-> b]
      /\ b \in Guests => \A n \in NetsOf(b) : b \in Members(n)
      /\ netRecord' = netRecord /\ boxRecord' = boxRecord /\ native' = native
      /\ node = "up" /\ node' = node
  BY DEF Start, Serve
<1>2. do \in HandlerSteps /\ "start" \in Handlers
  BY DEF Handlers, HandlerSteps
<1>3. StateInv'
  BY <1>1, <1>2, NetServe DEF NetInv
<1>4. Rehousing'
  BY <1>1 DEF Rehousing, Members, NetsOf
<1>5. HandlerInv'
  BY <1>1, <1>4 DEF HandlerInv, Creating, Rebuilding, Removing, Joining, Connecting, CreatingBox,
              Leaving, Disconnecting, Clearing, Deleting
<1> QED BY <1>3, <1>5 DEF NetInv

\* What the request checks is what the first step of DELETE of a container relies on.
LEMMA NetDelete ==
  ASSUME NetInv, NEW b \in Boxes, Delete(b)
  PROVE  NetInv'
<1>1. /\ Serve("delete", "stop", Nothing, b)
      /\ handler' = [by |-> "delete", do |-> "stop", net |-> Nothing, box |-> b]
      /\ node = "up" /\ node' = node
  BY DEF Delete, Serve
<1>2. StateInv'
  BY <1>1, NetServe DEF NetInv, Handlers, HandlerSteps
<1>3. HandlerInv'
  BY <1>1 DEF HandlerInv, Creating, Rebuilding, Removing, Joining, Connecting, CreatingBox,
              Leaving, Disconnecting, Clearing, Deleting, Rehousing
<1> QED BY <1>2, <1>3 DEF NetInv

\* The loops over the networks of a container.
LEMMA NetNextNetwork ==
  ASSUME NetInv, NextNetwork
  PROVE  NetInv'
<1>1. /\ handler.do \in {"leave", "unhook", "rejoin"} /\ node' = node /\ ops' = ops
      /\ UNCHANGED <<netRecord, boxRecord, native, bridge, table, link, namespace, task>>
  BY DEF NextNetwork
<1>2. handler # NoHandler /\ StateInv /\ handler \in HandlerRecords /\ NetworksTypeOK
  BY <1>1, NetTypes DEF NetInv, StateInv, NoHandler
<1>3. \A n \in Nets : Members(n)' = Members(n)
  BY <1>1 DEF Members
<1>4. \A b \in Boxes : NetsOf(b)' = NetsOf(b) /\ NetsOf(b) \subseteq Nets
  BY <1>1, <1>2, NetTypes DEF NetsOf
<1>b. handler.by \in {"clear", "delete", "start", "rehouse"}
  BY <1>1, <1>2 DEF NetInv, HandlerInv, HandlerRecords, Handlers, Creating, Rebuilding, Removing,
                    Joining, Connecting, CreatingBox, Disconnecting
<1>t. native \subseteq Boxes
  BY <1>2, NetTypes
<1>5. CASE Advance
  <2>1. StateInv'
    BY <1>1, <1>2, <1>5, NetHandlerType, NetTypes, NetSameState DEF NetInv
  <2>2. ASSUME NEW e, handler.by \in {"clear", "delete"}, e = "dropns", handler.do = "leave",
               handler' = [by |-> handler.by, do |-> e, net |-> handler.net, box |-> handler.box]
        PROVE  HandlerInv'
    BY <2>2, <1>1 DEF NetInv, HandlerInv, Creating, Rebuilding, Removing, Joining, Connecting,
         CreatingBox, Leaving, Disconnecting, Clearing, Deleting, Rehousing
  <2>3. ASSUME NEW e,
               <<handler.by, handler.do, e>> \in {<<"start", "unhook", "dropns">>,
                 <<"start", "rejoin", "task">>, <<"rehouse", "unhook", "netns">>},
               handler' = [by |-> handler.by, do |-> e, net |-> handler.net, box |-> handler.box]
        PROVE  HandlerInv'
    <3>1. Rehousing'
      BY <2>3, <1>1 DEF NetInv, HandlerInv, Rehousing, Members, NetsOf
    <3> QED BY <2>3, <3>1 DEF HandlerInv, Creating, Rebuilding, Removing, Joining, Connecting,
          CreatingBox, Leaving, Disconnecting, Clearing, Deleting
  <2>4. handler' = NoHandler => HandlerInv'
    BY NetIdle
  <2>5. CASE handler.by = "clear"
    BY <2>5, <1>1, <1>2, <1>5, <2>1, <2>2, <2>4, AfterClear DEF Moves, ClearMoves, NetInv
  <2>6. CASE handler.by = "delete"
    BY <2>6, <1>1, <1>2, <1>5, <2>1, <2>2, <2>4, AfterDelete DEF Moves, DeleteMoves, NetInv
  <2>7. CASE handler.by = "start"
    BY <2>7, <1>1, <1>2, <1>5, <2>1, <2>3, <2>4, AfterStart DEF Moves, StartMoves, NetInv
  <2>8. CASE handler.by = "rehouse"
    BY <2>8, <1>1, <1>2, <1>5, <2>1, <2>3, <2>4, AfterRehouse DEF Moves, RehouseMoves, NetInv
  <2> QED BY <1>b, <2>5, <2>6, <2>7, <2>8
<1>6. ASSUME NEW n \in Remaining(handler),
             handler' = [handler EXCEPT !.net = n,
                           !.do = IF handler.do = "rejoin" THEN "link" ELSE "unlink"]
      PROVE  NetInv'
  <2> DEFINE e == IF handler.do = "rejoin" THEN "link" ELSE "unlink"
  <2>1. n \in Nets
    BY <1>1, <1>b, <1>4, <1>t DEF Remaining, NetInv, HandlerInv, Rehousing, Clearing, Deleting
  <2>2. handler' = [by |-> handler.by, do |-> e, net |-> n, box |-> handler.box]
    BY <1>2, <1>6 DEF HandlerRecords
  <2>3. handler' \in HandlerRecords
    BY <1>2, <2>1, <2>2 DEF HandlerRecords, HandlerSteps
  <2>4. StateInv'
    BY <1>1, <1>2, <2>3, NetTypes, NetSameState
  <2>5. CASE handler.by \in {"clear", "delete"}
    <3>1. handler.do = "leave" /\ handler.box \in Members(n)
      BY <1>1, <2>5 DEF NetInv, HandlerInv, Clearing, Deleting, Remaining
    <3>2. netRecord[n] # Nothing
      BY <3>1 DEF Members
    <3>3. HandlerInv'
      BY <1>1, <2>1, <2>2, <2>5, <3>1, <3>2 DEF NetInv, HandlerInv, Creating, Rebuilding,
         Removing, Joining, Connecting,
         CreatingBox, Leaving, Disconnecting, Clearing, Deleting, Rehousing
    <3> QED BY <2>4, <3>3 DEF NetInv
  <2>6. CASE handler.by \in {"start", "rehouse"}
    <3>1. handler.do \in {"unhook", "rejoin"} /\ n \in NetsOf(handler.box)
      BY <1>1, <2>6 DEF NetInv, HandlerInv, Rehousing, Remaining
    <3>2. Rehousing'
      BY <1>1, <2>2, <2>6, <3>1 DEF NetInv, HandlerInv, Rehousing, Members, NetsOf
    <3>3. HandlerInv'
      BY <2>2, <2>6, <3>2 DEF HandlerInv, Creating, Rebuilding, Removing, Joining, Connecting,
          CreatingBox, Leaving, Disconnecting, Clearing, Deleting
    <3> QED BY <2>4, <3>3 DEF NetInv
  <2> QED BY <1>b, <2>5, <2>6
<1> QED BY <1>5, <1>6 DEF NextNetwork

\* A step fails, and a creation begins to undo itself.
LEMMA NetFail ==
  ASSUME NetInv, Fail
  PROVE  NetInv'
<1>1. /\ handler # NoHandler /\ ops' = ops /\ node' = IF node = "opening" THEN "down" ELSE node
      /\ UNCHANGED <<netRecord, boxRecord, bridge, table, link, namespace, task>>
      /\ native' # native => handler.do = "native" /\ native' = native \cup {handler.box}
  BY DEF Fail
<1>2. StateInv /\ handler \in HandlerRecords /\ NoHandler \in HandlerRecords
      /\ task \subseteq native
      /\ node \in {"down", "opening", "up"} /\ ops \in 0..MaxOps
  BY NetTypes DEF NetInv
<1>3. CASE handler.by # "create" \/ handler.do \in {"mkdir", "record"}
  <2>1. handler' = NoHandler
    BY <1>3 DEF Fail
  <2>2. handler.do # "native"
    BY <1>1, <1>2, <1>3 DEF NetInv, HandlerInv, HandlerRecords, Handlers, Creating, Rebuilding,
      Removing, Connecting, Disconnecting, Clearing, Deleting, Rehousing
  <2> QED BY <1>1, <1>2, <2>1, <2>2, NetIdle, NetSameState DEF NetInv
<1>4. CASE handler.by = "create" /\ handler.do \notin {"mkdir", "record"}
  <2> DEFINE do == IF handler.box \in native' THEN "unnative" ELSE "leave"
  <2>1. handler.box \in Boxes /\ handler.box \notin native /\ handler.box \notin task
        /\ node = "up" /\ (handler.do = "native" => Recorded(handler.box))
    BY <1>2, <1>4 DEF NetInv, HandlerInv, CreatingBox, Joining
  <2>2. handler' = [by |-> "clear", do |-> do, net |-> handler.net, box |-> handler.box]
    BY <1>2, <1>4 DEF Fail, HandlerRecords
  <2>3. handler' \in HandlerRecords
    BY <1>2, <2>2 DEF HandlerRecords, Handlers, HandlerSteps
  <2>4. StateInv'
    <3>1. CASE native' = native
      BY <1>1, <1>2, <2>3, <3>1, NetSameState
    <3>2. CASE native' # native
      <4>1. native' = native \cup {handler.box} /\ Recorded(handler.box) /\ node' = node
        BY <1>1, <2>1, <3>2
      <4>2. NetworksTypeOK'
        BY <1>1, <1>2, <2>1, <2>3, <4>1 DEF StateInv, NetworksTypeOK, HandlerRecords
      <4>3. LeftoversAreRecorded' /\ GuestBehindFirewall' /\ BridgedLinks'
        BY <1>1, <1>2, <2>1, <4>1 DEF StateInv, LeftoversAreRecorded, GuestBehindFirewall,
          BridgedLinks, Members, Recorded
      <4>4. MembersConfirmed' /\ GuestsInside' /\ ServedNetworks'
        BY <1>1, <1>2, <4>1 DEF StateInv, MembersConfirmed, GuestsInside, ServedNetworks,
          Members, Confirmed, NetsOf
      <4> QED BY <4>2, <4>3, <4>4 DEF StateInv
    <3> QED BY <3>1, <3>2
  <2>5. HandlerInv'
    BY <1>1, <2>1, <2>2 DEF HandlerInv, Creating, Rebuilding, Removing, Joining, Connecting,
          CreatingBox, Leaving, Disconnecting, Clearing, Deleting, Rehousing
  <2> QED BY <2>4, <2>5 DEF NetInv
<1> QED BY <1>3, <1>4

\* Open begins with the next object to reconcile.
LEMMA NetRecover ==
  ASSUME NetInv, Reconcile
  PROVE  NetInv'
<1>1. /\ node = "opening" /\ handler = NoHandler /\ ops' = ops /\ node' = node
      /\ UNCHANGED <<netRecord, boxRecord, native, bridge, table, link, namespace, task>>
  BY DEF Reconcile
<1>2. StateInv /\ task \subseteq native /\ native \subseteq Boxes /\ ops \in 0..MaxOps
  BY NetTypes DEF NetInv
<1> USE DEF HandlerInv, Creating, Rebuilding, Removing, Joining, Connecting,
          CreatingBox, Leaving, Disconnecting, Clearing, Deleting
<1>3. ASSUME NEW b \in Intents,
             handler' = [by |-> "clear", do |-> "leave", net |-> Nothing, box |-> b]
      PROVE  NetInv'
  <2>1. b \in Boxes /\ b \notin native /\ b \notin task
    BY <1>2 DEF Intents
  <2>2. handler' \in HandlerRecords
    BY <1>3, <2>1 DEF HandlerRecords, Handlers, HandlerSteps
  <2>3. HandlerInv'
    BY <1>1, <1>3, <2>1 DEF Rehousing
  <2> QED BY <1>1, <1>2, <2>2, <2>3, NetSameState DEF NetInv
<1>4. ASSUME NEW n \in Unbuilt, Rebuildable(n), NEW d \in {"untable", "bridge"},
             handler' = [by |-> "rebuild", net |-> n, box |-> Nothing, do |-> d]
      PROVE  NetInv'
  <2>1. n \in Nets /\ netRecord[n] # Nothing /\ Members(n) \cap task = {}
    BY <1>4 DEF Unbuilt, Rebuildable
  <2>2. handler' \in HandlerRecords
    BY <1>4, <2>1 DEF HandlerRecords, Handlers, HandlerSteps
  <2>3. netRecord'[n] # Nothing /\ Members(n)' \cap task' = {}
    BY <1>1, <2>1 DEF Members
  <2>4. HandlerInv'
    BY <1>1, <1>4, <2>1, <2>3 DEF Rehousing
  <2> QED BY <1>1, <1>2, <2>2, <2>4, NetSameState DEF NetInv
<1>5. ASSUME NEW b \in Lost, b \in task => namespace[b] # "none",
             \A n \in NetsOf(b) : b \in Members(n),
             handler' = [by |-> "rehouse", do |-> "unhook", net |-> Nothing, box |-> b]
      PROVE  NetInv'
  <2>1. b \in native /\ b \notin task
    BY <1>5 DEF Lost, Homeless
  <2>2. handler' \in HandlerRecords
    BY <1>2, <1>5, <2>1 DEF HandlerRecords, Handlers, HandlerSteps
  <2>3. Rehousing'
    BY <1>1, <1>5, <2>1 DEF Rehousing, Members, NetsOf
  <2>4. HandlerInv'
    BY <1>5, <2>3
  <2> QED BY <1>1, <1>2, <2>2, <2>4, NetSameState DEF NetInv
<1>6. \/ \E b \in Intents :
           handler' = [by |-> "clear", do |-> "leave", net |-> Nothing, box |-> b]
      \/ \E n \in Unbuilt : Rebuildable(n) /\ \E d \in {"untable", "bridge"} :
           handler' = [by |-> "rebuild", net |-> n, box |-> Nothing, do |-> d]
      \/ \E b \in Lost :
           /\ b \in task => namespace[b] # "none"
           /\ \A n \in NetsOf(b) : b \in Members(n)
           /\ handler' = [by |-> "rehouse", do |-> "unhook", net |-> Nothing, box |-> b]
  BY DEF Reconcile
<1> QED BY <1>3, <1>4, <1>5, <1>6

\* The steps that only change what the node does.
LEMMA NetQuiet ==
  ASSUME NetInv, Open \/ Recovered \/ NodeDies \/ UNCHANGED netVars
  PROVE  NetInv'
<1>1. StateInv /\ HandlerInv /\ NoHandler \in HandlerRecords /\ handler \in HandlerRecords
      /\ node \in {"down", "opening", "up"} /\ ops \in 0..MaxOps
  BY NetTypes DEF NetInv
<1>2. UNCHANGED <<netRecord, boxRecord, native, bridge, table, link, namespace, task>>
  BY DEF Open, Recovered, NodeDies, netVars
<1>3. CASE Open
  <2>1. node = "down" /\ handler' = handler /\ ops' \in 0..MaxOps /\ node' = "opening"
    BY <1>1, <1>3, NetworksAssumption DEF Open
  <2>2. handler = NoHandler
    BY <1>1, <2>1 DEF HandlerRecords, Handlers, HandlerInv, Creating, Rebuilding, Removing,
         Joining, Disconnecting, Clearing, Deleting, Rehousing
  <2> QED BY <1>1, <1>2, <2>1, <2>2, NetIdle, NetSameState DEF NetInv
<1>4. CASE Recovered
  <2>1. handler' = NoHandler /\ node' = "up" /\ ops' = ops /\ \A n \in Nets : Verified(n)
    BY <1>4 DEF Recovered
  <2> QED BY <1>1, <1>2, <2>1, NetIdle, NetSameState DEF NetInv
<1>5. CASE NodeDies
  <2>1. handler' = NoHandler /\ node' = "down" /\ ops' = ops
    BY <1>5 DEF NodeDies
  <2> QED BY <1>1, <1>2, <2>1, NetIdle, NetSameState DEF NetInv
<1>6. CASE UNCHANGED netVars
  BY <1>6, <1>1 DEF netVars, NetInv, StateInv, NetworksTypeOK, LeftoversAreRecorded,
    GuestBehindFirewall, BridgedLinks, MembersConfirmed, GuestsInside, ServedNetworks, Members,
    Confirmed, Usable, Recorded, NetsOf, HandlerInv, Creating, Rebuilding, Removing, Joining,
    Connecting, CreatingBox, Leaving, Disconnecting, Clearing, Deleting, Rehousing
<1> QED BY <1>3, <1>4, <1>5, <1>6

\* A reboot takes everything that the records describe, and no record.
LEMMA NetHostReboots ==
  ASSUME NetInv, HostReboots
  PROVE  NetInv'
<1>1. /\ node' = "down" /\ handler' = NoHandler /\ ops' = ops
      /\ bridge' = [n \in Nets |-> "none"] /\ table' = {} /\ task' = {}
      /\ link' = [n \in Nets |-> [b \in Boxes |-> "none"]]
      /\ namespace' = [b \in Boxes |-> "none"]
      /\ netRecord' = netRecord /\ boxRecord' = boxRecord /\ native' = native
  BY DEF HostReboots, onDisk
<1>2. StateInv /\ NoHandler \in HandlerRecords
  BY NetTypes DEF NetInv
<1>3. NetworksTypeOK'
  BY <1>1, <1>2 DEF StateInv, NetworksTypeOK, HandlerRecords, Marks
<1>4. LeftoversAreRecorded' /\ GuestBehindFirewall' /\ BridgedLinks' /\ ServedNetworks'
  BY <1>1, <1>2, NetworksAssumption DEF StateInv, LeftoversAreRecorded, GuestBehindFirewall,
       BridgedLinks, ServedNetworks, Recorded
<1>5. MembersConfirmed'
  BY <1>1, <1>2 DEF StateInv, MembersConfirmed, Members, Confirmed
<1>6. GuestsInside'
  BY <1>1, <1>2, NetworksAssumption DEF StateInv, GuestsInside, NetsOf
<1> QED BY <1>1, <1>3, <1>4, <1>5, <1>6, NetIdle DEF NetInv, StateInv

\* A task may end at any time.
LEMMA NetTaskExits ==
  ASSUME NetInv, NEW b \in Boxes, TaskExits(b)
  PROVE  NetInv'
<1>1. /\ task' = task \ {b} /\ task' \subseteq task
      /\ UNCHANGED <<netRecord, boxRecord, native, bridge, table, link, namespace, handler,
                     node, ops>>
  BY DEF TaskExits, onDisk
<1>2. NetworksTypeOK' /\ LeftoversAreRecorded' /\ GuestBehindFirewall' /\ BridgedLinks'
  BY <1>1 DEF NetInv, StateInv, NetworksTypeOK, LeftoversAreRecorded, GuestBehindFirewall,
       BridgedLinks, Members, Recorded
<1>3. MembersConfirmed' /\ GuestsInside' /\ ServedNetworks'
  BY <1>1 DEF NetInv, StateInv, MembersConfirmed, GuestsInside, ServedNetworks, Members,
       Confirmed, NetsOf
<1>4. HandlerInv'
  BY <1>1 DEF NetInv, HandlerInv, Creating, Rebuilding, Removing, Joining, Connecting,
    CreatingBox, Leaving, Disconnecting, Clearing, Deleting, Rehousing, Members, Confirmed,
    Usable, Recorded, NetsOf
<1> QED BY <1>2, <1>3, <1>4 DEF NetInv, StateInv

\* An empty host.
LEMMA NetInit ==
  ASSUME NetworksInit
  PROVE  NetInv
<1> USE NetworksAssumption, AbsentNetworkAssumption DEF NetworksInit
<1>1. NetworksTypeOK
  BY DEF NetworksTypeOK, Marks, BoxRecords, NoHandler, HandlerSteps
<1>2. LeftoversAreRecorded /\ GuestBehindFirewall /\ BridgedLinks /\ ServedNetworks
  BY DEF LeftoversAreRecorded, GuestBehindFirewall, BridgedLinks, ServedNetworks, Confirmed
<1>3. MembersConfirmed /\ GuestsInside
  BY DEF MembersConfirmed, GuestsInside, Members, NetsOf
<1>4. HandlerInv
  BY DEF HandlerInv, NoHandler, Creating, Rebuilding, Removing, Joining, Connecting,
    CreatingBox, Leaving, Disconnecting, Clearing, Deleting, Rehousing
<1> QED BY <1>1, <1>2, <1>3, <1>4 DEF NetInv, StateInv

\* A step of a handler preserves the invariant.
LEMMA NetExecute ==
  ASSUME NetInv, Execute
  PROVE  NetInv'
<1>1. handler.by \in Handlers
  BY NetEffects DEF NetInv, StateInv, HandlerInv, NetworksTypeOK
<1>2. HandlerInv'
  BY <1>1, NetCreateNetworkStep, NetRemoveNetworkStep, NetRebuildStep, NetConnectStep,
     NetCreateStep, NetDisconnectStep, NetClearStep, NetDeleteStep, NetStartStep,
     NetRehouseStep DEF Handlers
<1> QED BY <1>2, NetStepState DEF NetInv

\* Every step preserves the invariant.
LEMMA NetNext ==
  ASSUME NetInv, [NetworksNext]_netVars
  PROVE  NetInv'
<1>1. CASE \E n \in Nets : CreateNetwork(n) \/ RemoveNetwork(n)
  BY <1>1, NetCreateNetwork, NetRemoveNetwork
<1>2. CASE \E n \in Nets, b \in Boxes : CreateBox(n, b) \/ Connect(n, b) \/ Disconnect(n, b)
  BY <1>2, NetCreateBox, NetConnect, NetDisconnect
<1>3. CASE \E b \in Boxes : Start(b) \/ Delete(b) \/ TaskExits(b)
  BY <1>3, NetStart, NetDelete, NetTaskExits
<1>4. CASE Execute \/ NextNetwork
  BY <1>4, NetExecute, NetNextNetwork
<1>5. CASE Fail \/ Reconcile \/ HostReboots
  BY <1>5, NetFail, NetRecover, NetHostReboots
<1>6. CASE Open \/ Recovered \/ NodeDies \/ UNCHANGED netVars
  BY <1>6, NetQuiet
<1> QED BY <1>1, <1>2, <1>3, <1>4, <1>5, <1>6 DEF NetworksNext

\* The inductive invariant of the networks: records, containerd and kernel
\* agree, and so does the handler under way (network.go, network_recovery.go,
\* intents.go).
THEOREM NetInvariant == NetworksSpec => []NetInv
<1>1. NetworksInit => NetInv
  BY NetInit
<1>2. NetInv /\ [NetworksNext]_netVars => NetInv'
  BY NetNext
<1> QED BY <1>1, <1>2, PTL DEF NetworksSpec

\* Type correctness: records, bridges, veths and handlers are what the types
\* say (network.go networkRecord, backend.go record).
THEOREM NetworksTypeCorrect == NetworksSpec => []NetworksTypeOK
<1>1. NetInv => NetworksTypeOK
  BY DEF NetInv, StateInv
<1> QED BY <1>1, NetInvariant, PTL

\* Whatever step a handler, the node or the host stops at, what containerd or
\* the kernel holds has its record (network.go createNetwork, connect;
\* intents.go cancelCreation).
THEOREM LeftoversAreAlwaysRecorded == NetworksSpec => []LeftoversAreRecorded
<1>1. NetInv => LeftoversAreRecorded
  BY DEF NetInv, StateInv
<1> QED BY <1>1, NetInvariant, PTL

\* A running worker reaches no network but an internal one with its bridge
\* and its nft table (network.go materializeNetwork, verifyNetwork).
THEOREM GuestsStayBehindFirewall == NetworksSpec => []GuestBehindFirewall
<1>1. NetInv => GuestBehindFirewall
  BY DEF NetInv, StateInv
<1> QED BY <1>1, NetInvariant, PTL

\* No step of a node that opens touches a running task's network.
LEMMA NetOpeningStep ==
  ASSUME NetInv, [NetworksNext]_netVars, node = "opening", NEW b \in task \cap task'
  PROVE  /\ namespace'[b] = namespace[b]
         /\ \A n \in Nets : link[n][b] # "none" =>
              /\ link'[n][b] = link[n][b] /\ bridge'[n] = bridge[n]
              /\ (n \in table') = (n \in table)
<1>1. StateInv /\ HandlerInv /\ b \in Boxes /\ handler \in HandlerRecords
  BY NetTypes DEF NetInv
<1>2. CASE Execute
  <2>1. handler.by \in {"clear", "rebuild", "rehouse"}
    BY <1>1, <1>2, NetEffects DEF HandlerRecords, HandlerInv, Handlers, Creating, Removing,
         Joining, Disconnecting, Deleting, Rehousing
  <2>2. CASE handler.by \in {"clear", "rehouse"}
    <3>1. b # handler.box
      BY <1>1, <2>2 DEF HandlerInv, Clearing, Rehousing
    <3>2. handler.do \notin {"bridge", "own", "unbridge", "table", "untable"}
      BY <1>1, <2>2 DEF HandlerInv, Clearing, Rehousing
    <3> QED BY <1>1, <1>2, <3>1, <3>2, NetStep
  <2>3. CASE handler.by = "rebuild"
    <3>1. handler.do \in {"untable", "bridge", "own", "table", "hash"}
          /\ Members(handler.net) \cap task = {}
      BY <1>1, <2>3 DEF HandlerInv, Rebuilding
    <3>2. \A n \in Nets : link[n][b] # "none" => n # handler.net
      BY <1>1, <3>1 DEF StateInv, LeftoversAreRecorded
    <3> QED BY <1>1, <1>2, <3>1, <3>2, NetStep
  <2> QED BY <2>1, <2>2, <2>3
<1>3. CASE ~Execute /\ ~HostReboots
  <2>1. UNCHANGED <<bridge, table, link, namespace>>
    BY <1>3 DEF NetworksNext, CreateNetwork, RemoveNetwork, CreateBox, Connect, Disconnect, Start,
      Delete, Serve, TaskExits, Open, NextNetwork, Fail, Reconcile, Recovered, NodeDies, netVars
  <2> QED BY <2>1
<1>4. CASE HostReboots
  BY <1>4 DEF HostReboots
<1> QED BY <1>2, <1>3, <1>4

\* A node that opens leaves the network of a running task alone (recovery.go
\* recover, network_recovery.go recoverNetworks).
THEOREM RestartsSpareTasks == NetworksSpec => RestartSparesTasks
<1>1. NetInv /\ [NetworksNext]_netVars =>
        [node = "opening" => \A b \in task \cap task' :
           /\ namespace'[b] = namespace[b]
           /\ \A n \in Nets : link[n][b] # "none" =>
                <<link[n][b], bridge[n], n \in table>>' = <<link[n][b], bridge[n], n \in table>>]_netVars
  BY NetOpeningStep
<1> QED BY <1>1, NetInvariant, PTL DEF NetworksSpec, RestartSparesTasks

-----------------------------------------------------------------------------
\* The instance of both ledgers implements the specification of each: a step of
\* it is, for either ledger, a step or a stutter.
THEOREM NodeFollows == NodeSpec => Spec /\ NetworksSpec
<1>1. NodeInit => Init /\ NetworksInit
  BY DEF NodeInit
<1>2. [NodeNext]_nodeVars => [Next]_vars /\ [NetworksNext]_netVars
  <2>1. CASE UNCHANGED nodeVars
    BY <2>1 DEF nodeVars
  <2>2. CASE NodeNext
    BY <2>2 DEF NodeNext
  <2>3. QED BY <2>1, <2>2
<1>3. QED BY <1>1, <1>2, PTL DEF NodeSpec, Spec, NetworksSpec

\* Every variable of the two ledgers has its type.
THEOREM NodeTypeCorrect == NodeSpec => []NodeTypeOK
<1>1. TypeOK /\ NetworksTypeOK <=> NodeTypeOK
  BY DEF NodeTypeOK
<1>2. QED BY <1>1, NodeFollows, TypeCorrect, NetworksTypeCorrect, PTL

\* What a node promises: its limit holds and every envelope has its record, user
\* code runs where it is bound, workers stay behind their firewall, and neither
\* a recovery nor a restart disturbs the living.
THEOREM NodeSafe ==
  NodeSpec =>
    /\ [](Capacity /\ EnvelopesTracked /\ ReleasedIsBound)
    /\ [](GuestBehindFirewall /\ LeftoversAreRecorded)
    /\ RecoverySparesLiving /\ RestartSparesTasks
BY NodeFollows, LimitHolds, EnvelopesKnown, ReleasedStaysBound, LivingAreSpared,
   GuestsStayBehindFirewall, LeftoversAreAlwaysRecorded, RestartsSpareTasks, PTL
=============================================================================
