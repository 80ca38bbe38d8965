--------------------------- MODULE ServicesProofs ---------------------------
(***************************************************************************)
(* The instance of the services that share no state: each of them follows  *)
(* its own specification in it, so that every theorem about one of them    *)
(* holds of the instance that TLC checks.                                  *)
(***************************************************************************)
EXTENDS MCServices, EngineTasksProofs, LoginProofs, WorkerEgressProofs

servicesVars == <<service, vaultVars, tasksVars, egressVars, proxyVars>>

\* Every service starts as its own specification says.
LEMMA ServicesStart ==
  ServicesInit => VaultInit /\ TasksInit /\ EgressInit /\ ProxyInit
  BY DEF ServicesInit

\* A step of the instance is, for each service, a step of it or none.
LEMMA ServicesStep ==
  ASSUME [ServicesNext]_servicesVars
  PROVE  /\ [VaultNext]_vaultVars /\ [TasksNext]_tasksVars
         /\ [EgressNext]_egressVars /\ [ProxyNext]_proxyVars
<1>1. CASE UNCHANGED servicesVars
  BY <1>1 DEF servicesVars
<1>2. CASE ServicesNext
  BY <1>2 DEF ServicesNext
<1>3. QED BY <1>1, <1>2

\* The instance implements the specification of every service.
THEOREM ServicesFollow ==
  ServicesSpec => VaultSpec /\ TasksSpec /\ EgressSpec /\ ProxySpec
<1>1. ServicesInit => VaultInit /\ TasksInit /\ EgressInit /\ ProxyInit
  BY ServicesStart
<1>2. [ServicesNext]_servicesVars =>
        /\ [VaultNext]_vaultVars /\ [TasksNext]_tasksVars
        /\ [EgressNext]_egressVars /\ [ProxyNext]_proxyVars
  BY ServicesStep
<1>3. QED
  BY <1>1, <1>2, PTL
  DEF ServicesSpec, VaultSpec, TasksSpec, EgressSpec, ProxySpec, servicesVars

\* Every variable of every service has its type.
THEOREM ServicesTypeCorrect == ServicesSpec => []ServicesTypeOK
<1>1. VaultSpec => []VaultTypeOK
  <2>1. VaultInv => VaultTypeOK
    BY DEF VaultInv
  <2>2. QED BY <2>1, VaultInvHolds, PTL
<1>2. TasksSpec => []TasksTypeOK
  <2>1. TasksInv => TasksTypeOK
    BY DEF TasksInv
  <2>2. QED BY <2>1, TasksInvHolds, PTL
<1>3. VaultTypeOK /\ TasksTypeOK /\ EgressTypeOK /\ ProxyTypeOK
        <=> ServicesTypeOK
  BY DEF ServicesTypeOK
<1>4. QED
  BY <1>1, <1>2, <1>3, ServicesFollow, EgressTypeCorrect,
     ProxyTypeCorrect, PTL

\* What the services promise, promised by the instance: a login is kept, tokens
\* stay with it and its key is served, a worker stays inside its policy, and a
\* fence, an idle stop and a deletion hold.
THEOREM ServicesSafe ==
  ServicesSpec =>
    /\ [](LoginIsKept /\ TokensStayWithLogin /\ NeverKeyStarved)
    /\ [](WorkerStaysInsidePolicy /\ ExplainedIsEnforced)
    /\ [](QuarantineEndsWork /\ IdleStopSparesWork /\ DeletedLeavesNothing)
    /\ RekeyIsFinal /\ ExitIsOfLatestTask
<1>1. VaultSpec => []LoginIsKept /\ RekeyIsFinal
  BY LoginSurvives, RekeyHolds
<1>2. TasksSpec => /\ []QuarantineEndsWork /\ []IdleStopSparesWork
                   /\ []DeletedLeavesNothing /\ ExitIsOfLatestTask
  BY QuarantineHolds, IdleStopHolds, DeletionHolds, ExitHolds
<1>3. EgressSpec => []WorkerStaysInsidePolicy /\ []ExplainedIsEnforced
  BY PolicyHolds, ExplanationHolds
<1>4. ProxySpec => []TokensStayWithLogin /\ []NeverKeyStarved
  BY TokensKept, KeyDelivered
<1>5. QED
  BY <1>1, <1>2, <1>3, <1>4, ServicesFollow, PTL
=============================================================================
