-------------------------- MODULE ShootFlowProofs --------------------------
(***************************************************************************)
(* Proofs about Infrastructure and Worker together, for every set of keys, *)
(* of network IDs and of disturbances, those under which keys do not       *)
(* converge included.                                                      *)
(***************************************************************************)
EXTENDS ShootFlow, InfrastructureProofs

\* Every step of the flow is one of the infrastructure actuator and its
\* surroundings, or one that they do not see.
LEMMA FlowStep == [FlowNext]_flowVars => [Next]_vars
<1> SUFFICES ASSUME [FlowNext]_flowVars PROVE Next \/ UNCHANGED vars
  BY DEF vars, cloud, api, controller
<1>1. CASE Actuator
  BY <1>1 DEF Actuator, Next
<1>2. CASE Surroundings
  BY <1>2 DEF Surroundings, RotateToUnusedKey, Next, Environment
<1>3. CASE Gardenlet
  BY <1>3 DEF Gardenlet, DeployWorker, DeleteWorker, DeleteInfrastructure, Next, Environment
<1>4. CASE DeleteShoot \/ Work \/ WorkFails \/ MCM
  BY <1>4 DEF DeleteShoot, Work, StartWork, RenderClass, ReportMachines, WaitTimesOut,
       FinishDeletion, WorkFails, MCM, CreateMachines, DeleteMachines
<1>5. CASE UNCHANGED flowVars
  BY <1>5 DEF flowVars
<1> QED
  BY <1>1, <1>2, <1>3, <1>4, <1>5 DEF FlowNext

\* The Infrastructure of the flow is the one of module Infrastructure, so that
\* all its theorems hold next to a Worker, too: gardenlet deploys and deletes
\* the object in an order that the actuator need not know.
THEOREM FlowImplementsInfrastructure == FlowSpec => Spec
<1>1. FlowInit => Init
  BY DEF FlowInit
<1> QED
  BY <1>1, FlowStep, PTL DEF FlowSpec, Spec

\* The variables of the flow keep their types: a class only ever names a key
\* that the Infrastructure has published or that the Worker was given.
THEOREM FlowTypeCorrect == FlowSpec => []FlowTypeOK
<1> DEFINE Types ==
      /\ shoot \in {"present", "deleting"}
      /\ worker \in Workers
      /\ class \in Keys \cup {NoKey}
      /\ machines \in BOOLEAN
      /\ workStep \in {"idle", "render", "machines"}
      /\ workRequest \in Delegates
<1> USE DEF Workers, Delegates
<1>0. NoSpec \in WorkerSpecs
  BY DEF NoSpec, EmptyStatus, Status, WorkerSpecs
<1>a. NoWorker \in Workers
  BY <1>0 DEF NoWorker
<1>b. NoWork \in Delegates
  BY <1>0 DEF NoWork
<1> HIDE DEF Workers, Delegates
<1>1. FlowInit => Types
  BY <1>a, <1>b DEF FlowInit
<1>2. TypeOK /\ Types /\ [FlowNext]_flowVars => Types'
  <2> SUFFICES ASSUME TypeOK, Types, [FlowNext]_flowVars PROVE Types'
    OBVIOUS
  <2> USE DEF delegate, flow
  <2>1. CASE Actuator \/ Surroundings
    BY <2>1 DEF Actuator, Surroundings
  <2>2. CASE DeployWorker
    <3>1. SpecToDeploy \in WorkerSpecs
      BY DEF TypeOK, InfraObjects, SpecToDeploy, WorkerSpecs
    <3> QED
      BY <2>2, <3>1 DEF DeployWorker, Workers
  <2>3. CASE DeleteWorker \/ DeleteInfrastructure \/ DeleteShoot
    BY <2>3 DEF DeleteWorker, DeleteInfrastructure, DeleteShoot, Workers
  <2>4. CASE StartWork
    BY <2>4 DEF StartWork, Workers, Delegates
  <2>5. CASE RenderClass
    <3>1. SSHFingerprint(workRequest.spec) \in Keys \cup {NoKey}
      BY DEF SSHFingerprint, Status, WorkerSpecs, Delegates
    <3> QED
      BY <2>5, <3>1 DEF RenderClass
  <2>6. CASE ReportMachines
    BY <2>6, <1>b DEF ReportMachines, GoIdle, Workers
  <2>7. CASE WaitTimesOut \/ WorkFails
    BY <2>7, <1>b DEF WaitTimesOut, WorkFails, GoIdle
  <2>8. CASE FinishDeletion
    BY <2>8, <1>a, <1>b DEF FinishDeletion, GoIdle
  <2>9. CASE MCM
    BY <2>9 DEF MCM, CreateMachines, DeleteMachines
  <2>10. CASE UNCHANGED flowVars
    BY <2>10 DEF flowVars
  <2> QED
    BY <2>1, <2>2, <2>3, <2>4, <2>5, <2>6, <2>7, <2>8, <2>9, <2>10 DEF FlowNext, Gardenlet, Work
<1>3. FlowTypeOK <=> TypeOK /\ Types
  BY DEF FlowTypeOK
<1> QED
  BY <1>1, <1>2, <1>3, FlowImplementsInfrastructure, TypeCorrect, PTL DEF FlowSpec

KeySteps == {"oldKey", "ensureKey"} \cup AfterKey

\* What the infrastructure controller does to the object and to what it has
\* published
PublishesOnlySuccess ==
    /\ infra'.key = infra.key /\ infra'.networks = infra.networks
    /\ infra'.phase # infra.phase => infra.phase = "deleting" /\ infra'.phase = "gone"
    /\ infra.phase = "present" /\ served' # served => step = "report" /\ served' = infra.status
    /\ infra'.lastOp = "Succeeded" =>
          /\ infra'.status = infra.status
          /\ \/ step = "report" /\ served' = infra.status
             \/ infra.lastOp = "Succeeded" /\ served' = served
    /\ step' \in KeySteps =>
          \/ step = "idle" /\ request'.key = infra.key
          \/ step \in KeySteps /\ request'.key = request.key

LEMMA ActuatorPublishes ==
  ASSUME IInv,
         ReconcileStep \/ RejectReconcile \/ DeleteStep \/ Failure \/ Gone
  PROVE  PublishesOnlySuccess
<1>0. /\ step # "idle" => infra.lastOp = "Processing"
      /\ step \in DeleteSteps => infra.phase = "deleting"
  BY DEF IInv, RequestInv
<1>a. infra \in InfraObjects
  BY DEF IInv, TypeOK
<1> USE <1>0, <1>a DEF AfterKey, DeleteSteps, KeySteps, InfraObjects,
        PublishesOnlySuccess, cloud, api, controller
<1>1. CASE StartReconcile
  BY <1>1 DEF StartReconcile, Begin
<1>2. CASE KeepOldKey
  BY <1>2 DEF KeepOldKey, Continue
<1>3. CASE DeleteOldKey
  BY <1>3 DEF DeleteOldKey, Continue
<1>4. CASE AdoptKey
  BY <1>4 DEF AdoptKey, Continue
<1>5. CASE CreateKey
  BY <1>5 DEF CreateKey, Continue
<1>6. CASE NoNetworkRequested
  BY <1>6 DEF NoNetworkRequested, Continue
<1>7. CASE NetworksUnset
  BY <1>7 DEF NetworksUnset, Forget
<1>8. CASE LocationUnknown
  BY <1>8 DEF LocationUnknown, Failed
<1>9. CASE AdoptNetwork
  BY <1>9 DEF AdoptNetwork, Continue
<1>10. CASE CreateNetwork
  BY <1>10 DEF CreateNetwork, Continue
<1>11. CASE PatchStatus
  BY <1>11 DEF PatchStatus, RecordStatus, Continue
<1>12. CASE ReportSuccess
  BY <1>12 DEF ReportSuccess, Return, Forget
<1>13. CASE CleanupNetwork
  BY <1>13 DEF CleanupNetwork, Continue
<1>14. CASE CleanupKey
  BY <1>14 DEF CleanupKey, Return, Forget
<1>15. CASE RejectReconcile
  BY <1>15 DEF RejectReconcile, Return, Forget
<1>16. CASE StartDelete
  BY <1>16 DEF StartDelete, Begin
<1>17. CASE DeleteUnconfigured
  BY <1>17 DEF DeleteUnconfigured, Remove, Forget
<1>18. CASE DeleteNetwork
  BY <1>18 DEF DeleteNetwork, Continue
<1>19. CASE DeleteKey
  BY <1>19 DEF DeleteKey, Continue
<1>20. CASE Finalize
  BY <1>20 DEF Finalize, Remove, Forget
<1>21. CASE ReconcileFails
  BY <1>21 DEF ReconcileFails, Failed
<1>22. CASE ReportFails
  BY <1>22 DEF ReportFails, Forget
<1>23. CASE DeleteFails
  BY <1>23 DEF DeleteFails, Return, Forget
<1>24. CASE AnswerLost
  BY <1>24 DEF AnswerLost, Failed, RecordStatus
<1>25. CASE DeleteAnswerLost
  BY <1>25 DEF DeleteAnswerLost, Return, Forget
<1>26. CASE CleanupFails
  BY <1>26 DEF CleanupFails, Continue, Return, Forget
<1>27. CASE Crash
  BY <1>27 DEF Crash, Forget
<1>28. CASE Gone
  BY <1>28 DEF Gone, vars
<1> QED
  BY <1>1, <1>2, <1>3, <1>4, <1>5, <1>6, <1>7, <1>8, <1>9, <1>10, <1>11, <1>12, <1>13, <1>14, <1>15, <1>16, <1>17, <1>18, <1>19, <1>20, <1>21, <1>22, <1>23, <1>24, <1>25, <1>26, <1>27, <1>28
     DEF ReconcileStep, DeleteStep, Failure

\* Infrastructure and Worker are deployed and deleted in order, and a Worker only
\* with what was published.
LEMMA OrderStep ==
  IInv /\ FlowTypeOK /\ FlowInv /\ [FlowNext]_flowVars => (OrderInv /\ PublishedInv)'
<1> SUFFICES ASSUME IInv, FlowTypeOK, FlowInv, [FlowNext]_flowVars
             PROVE  (OrderInv /\ PublishedInv)'
  OBVIOUS
<1>0. OrderInv /\ PublishedInv
  BY DEF FlowInv
<1>a. infra \in InfraObjects
  BY DEF IInv, TypeOK
<1>b. step = "report" /\ infra.networks = "workers" => infra.status.network # NoNetwork
  BY DEF IInv, EnsuredInv, AfterNetwork, TypeOK, Status
<1>c. Ready /\ infra.networks = "workers" => infra.status.network # NoNetwork
  BY DEF IInv, SuccessMeansEnsured, Ready
<1> USE <1>0 DEF OrderInv, PublishedInv, delegate, flow
<1>1. CASE Actuator
  <2>1. PublishesOnlySuccess /\ UNCHANGED flow
    BY <1>1, ActuatorPublishes DEF Actuator
  <2> QED
    BY <2>1, <1>b DEF PublishesOnlySuccess
<1>2. CASE Surroundings
  BY <1>2, <1>a DEF Surroundings, RotateToUnusedKey, RotateKey, DisableSSHAccess, CalmDown,
       InfraObjects, cloud, api, controller
<1>3. CASE DeployWorker
  <2>1. infra.phase = "present" /\ served = infra.status
    BY <1>3 DEF DeployWorker, Ready
  <2>2. /\ worker' = [phase |-> "present", spec |-> SpecToDeploy, observed |-> FALSE]
        /\ UNCHANGED <<infra, served, class, workStep, workRequest>>
    BY <1>3 DEF DeployWorker, vars, cloud, api, controller
  <2> QED
    BY <1>3, <1>c, <2>1, <2>2 DEF DeployWorker
<1>4. CASE DeleteInfrastructure
  BY <1>4, <1>a DEF DeleteInfrastructure, RequestDeletion, InfraObjects
<1>5. CASE FinishDeletion
  <2>1. worker' = NoWorker /\ class' = NoKey /\ workStep' = "idle" /\ workRequest' = NoWork
        /\ UNCHANGED <<infra, served>>
    BY <1>5 DEF FinishDeletion, GoIdle, vars, cloud, api
  <2>2. NoWorker.phase = "none"
    BY DEF NoWorker
  <2> QED
    BY <2>1, <2>2
<1>6. CASE DeleteWorker \/ ReportMachines
  BY <1>6 DEF DeleteWorker, ReportMachines, GoIdle, FlowTypeOK, Workers, NoWorker, vars, cloud, api
<1>7. CASE StartWork \/ RenderClass \/ WaitTimesOut \/ WorkFails
  BY <1>7 DEF StartWork, RenderClass, WaitTimesOut, WorkFails, GoIdle, vars, cloud, api
<1>8. CASE DeleteShoot \/ MCM \/ UNCHANGED flowVars
  BY <1>8 DEF DeleteShoot, MCM, CreateMachines, DeleteMachines, flowVars, vars, cloud, api
<1> QED
  BY <1>1, <1>2, <1>3, <1>4, <1>5, <1>6, <1>7, <1>8 DEF FlowNext, Gardenlet, Work

\* A key that the Worker's side knows and the spec names stays the published one.
LEMMA KeyUseStep ==
  IInv /\ FlowInv /\ [FlowNext]_flowVars => KeyUseInv'
<1> SUFFICES ASSUME IInv, FlowInv, [FlowNext]_flowVars PROVE KeyUseInv'
  OBVIOUS
<1>0. OrderInv /\ PublishedInv /\ KeyUseInv
  BY DEF FlowInv
<1>a. infra \in InfraObjects
  BY DEF IInv, TypeOK
<1> USE DEF delegate, flow
<1>1. CASE Actuator
  <2>1. PublishesOnlySuccess /\ UNCHANGED flow
    BY <1>1, ActuatorPublishes DEF Actuator
  <2>2. KeysInUse' = KeysInUse
    BY <2>1 DEF KeysInUse
  <2>3. SUFFICES ASSUME infra.key \in KeysInUse \ {NoKey}
                 PROVE  served'.key = infra.key
                        /\ (step' \in KeySteps => request'.key = infra.key)
    BY <2>1, <2>2, <2>3 DEF KeyUseInv, PublishesOnlySuccess, KeySteps
  <2>4. infra.phase = "present"
    <3>1. worker = NoWorker /\ workRequest = NoWork /\ class = NoKey => KeysInUse = {NoKey}
      BY DEF KeysInUse, NoWorker, NoWork, NoSpec, EmptyStatus
    <3> QED
      BY <1>0, <2>3, <3>1 DEF OrderInv
  <2>5. served.key = infra.key /\ (step \in KeySteps => request.key = infra.key)
    BY <1>0, <2>3 DEF KeyUseInv, KeySteps
  <2>6. step = "report" => infra.status.key = infra.key
    BY <2>5 DEF IInv, EnsuredInv, KeySteps, AfterKey
  <2> QED
    BY <2>1, <2>4, <2>5, <2>6 DEF PublishesOnlySuccess
<1>2. CASE Surroundings
  <2>1. UNCHANGED <<served, step, request, class, worker, workRequest>>
    BY <1>2 DEF Surroundings, RotateToUnusedKey, RotateKey, DisableSSHAccess, CalmDown, controller
  <2>2. infra'.key \in {infra.key, NoKey} \/ infra'.key \notin KeysInUse
    BY <1>2, <1>a DEF Surroundings, RotateToUnusedKey, RotateKey, DisableSSHAccess, CalmDown, api,
         InfraObjects, KeysInUse
  <2> QED
    BY <1>0, <2>1, <2>2 DEF KeyUseInv, KeysInUse
<1>3. CASE DeployWorker
  <2>1. /\ step = "idle"
        /\ served.key = infra.key /\ infra.status.key = infra.key
    BY <1>0, <1>3 DEF DeployWorker, Ready, PublishedInv, IInv, RequestInv
  <2>2. UNCHANGED <<infra, served, step, request>>
    BY <1>3 DEF DeployWorker, vars, cloud, api, controller
  <2> QED
    BY <2>1, <2>2 DEF KeyUseInv, AfterKey
<1>4. CASE DeleteInfrastructure
  <2>1. infra'.key = infra.key /\ UNCHANGED <<served, step, request, class, worker, workRequest>>
    BY <1>4, <1>a DEF DeleteInfrastructure, RequestDeletion, InfraObjects, controller
  <2> QED
    BY <1>0, <2>1 DEF KeyUseInv, KeysInUse
<1>5. CASE /\ UNCHANGED <<infra, served, step, request>>
           /\ KeysInUse' \subseteq KeysInUse \cup {NoKey}
  BY <1>0, <1>5 DEF KeyUseInv
<1>6. CASE DeleteWorker \/ DeleteShoot \/ Work \/ WorkFails \/ MCM \/ UNCHANGED flowVars
  <2>1. UNCHANGED <<infra, served, step, request>>
    BY <1>6 DEF DeleteWorker, DeleteShoot, Work, StartWork, RenderClass, ReportMachines, WaitTimesOut,
         FinishDeletion, WorkFails, MCM, CreateMachines, DeleteMachines, flowVars,
         vars, cloud, api, controller
  <2>2. KeysInUse' \subseteq KeysInUse \cup {NoKey}
    <3> USE DEF KeysInUse
    <3>1. CASE DeleteWorker
      BY <3>1 DEF DeleteWorker
    <3>2. CASE StartWork
      BY <3>2 DEF StartWork
    <3>3. CASE RenderClass
      BY <3>3 DEF RenderClass, SSHFingerprint
    <3>4. CASE ReportMachines
      BY <3>4 DEF ReportMachines, GoIdle, NoWork, NoSpec, EmptyStatus
    <3>5. CASE FinishDeletion
      BY <3>5 DEF FinishDeletion, GoIdle, NoWorker, NoWork, NoSpec, EmptyStatus
    <3>6. CASE WaitTimesOut \/ WorkFails
      BY <3>6 DEF WaitTimesOut, WorkFails, GoIdle, NoWork, NoSpec, EmptyStatus
    <3>7. CASE DeleteShoot \/ MCM \/ UNCHANGED flowVars
      BY <3>7 DEF DeleteShoot, MCM, CreateMachines, DeleteMachines, flowVars
    <3> QED
      BY <1>6, <3>1, <3>2, <3>3, <3>4, <3>5, <3>6, <3>7 DEF Work
  <2> QED
    BY <2>1, <2>2, <1>5
<1> QED
  BY <1>1, <1>2, <1>3, <1>4, <1>6 DEF FlowNext, Gardenlet

\* The inductive invariant of the flow.
THEOREM FlowInvariance == FlowSpec => []FlowInv
<1>1. FlowInit => FlowInv
  <2> SUFFICES ASSUME FlowInit PROVE FlowInv
    OBVIOUS
  <2>1. infra.lastOp = "None"
    BY DEF FlowInit, Init, NewInfra
  <2>2. KeysInUse = {NoKey}
    BY DEF FlowInit, KeysInUse, NoWorker, NoWork, NoSpec, EmptyStatus
  <2>3. worker.phase = "none"
    BY DEF FlowInit, NoWorker
  <2> QED
    BY <2>1, <2>2, <2>3 DEF FlowInit, FlowInv, OrderInv, PublishedInv, KeyUseInv
<1>2. IInv /\ FlowTypeOK /\ FlowInv /\ [FlowNext]_flowVars => FlowInv'
  BY OrderStep, KeyUseStep DEF FlowInv
<1> QED
  BY <1>1, <1>2, FlowTypeCorrect, FlowImplementsInfrastructure, Invariance, PTL DEF FlowSpec

\* The network that a machine class names exists, whatever becomes of the
\* requests for the Infrastructure.
THEOREM NetworkForClasses == FlowSpec => []ClassesHaveNetwork
<1>1. IInv /\ FlowInv => ClassesHaveNetwork
  BY DEF IInv, ServedInv, ServedNetworkKept, FlowInv, OrderInv, PublishedInv, ClassesHaveNetwork
<1> QED
  BY <1>1, FlowInvariance, FlowImplementsInfrastructure, Invariance, PTL

\* Only a rotation that the Worker has not seen yet takes away the key that a
\* machine class names.
THEOREM KeyForClasses == FlowSpec => []KeyMissingOnlyInRotation
<1>1. IInv /\ FlowInv => KeyMissingOnlyInRotation
  <2> SUFFICES ASSUME IInv, FlowInv, class \notin sshKeys \cup {NoKey}, class = infra.key PROVE FALSE
    BY DEF KeyMissingOnlyInRotation
  <2>1. infra.phase = "present"
    BY DEF FlowInv, OrderInv
  <2>2. served.key = infra.key
    BY DEF FlowInv, KeyUseInv, KeysInUse
  <2> QED
    BY <2>1, <2>2 DEF IInv, ServedInv, ServedKeyKept
<1> QED
  BY <1>1, FlowInvariance, FlowImplementsInfrastructure, Invariance, PTL

\* As long as keys rotate in an orderly way, a success finds the one key that it
\* records, although gardenlet deletes and deploys the object for a Worker.
THEOREM FlowConverges ==
  ASSUME OrderlyRotation
  PROVE  FlowSpec => []KeysConverge
BY FlowImplementsInfrastructure, Convergence, PTL

\* The shoot's deletion leaves nothing in the HCloud project: with the Worker before
\* the Infrastructure, and after a success, however often calls fail or crash.
THEOREM FlowClears ==
  ASSUME OrderlyRotation, LastingConfigs
  PROVE  FlowSpec => DeletionLeavesNothing
<1>1. Spec => DeletionLeavesNothing
  BY DeletionClears
<1> QED
  BY <1>1, FlowImplementsInfrastructure, PTL
=============================================================================
