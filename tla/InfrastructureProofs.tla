------------------------ MODULE InfrastructureProofs ------------------------
(***************************************************************************)
(* Proofs about the infrastructure actuator, for every set of keys, of     *)
(* network IDs and of disturbances.                                        *)
(***************************************************************************)
EXTENDS Infrastructure, TLAPS

\* The types alone are not inductive: EnsureSSHPublicKey creates a key only
\* because the empty one was rejected before.
LEMMA TypeAndKey == Spec => [](TypeOK /\ KeyInv)
<1> USE ConstantsAssumption DEF TypeOK, KeyInv, InfraObjects, Status, MethodData, Requests, Steps,
        EmptyStatus, NoMethodData, NoRequest, ConfigKinds, NetworkRequests, KeyID
<1>1. Init => TypeOK /\ KeyInv
  <2> SUFFICES ASSUME Init PROVE TypeOK /\ KeyInv
    OBVIOUS
  <2>1. infra \in InfraObjects
    BY DEF Init, NewInfra
  <2>2. configs \subseteq ConfigKinds
    BY DEF Init
  <2> QED
    BY <2>1, <2>2 DEF Init
<1>2. TypeOK /\ KeyInv /\ [Next]_vars => (TypeOK /\ KeyInv)'
  <2> SUFFICES ASSUME TypeOK, KeyInv, [Next]_vars PROVE (TypeOK /\ KeyInv)'
    OBVIOUS
  <2> USE DEF cloud, api, controller
  <2>1. CASE StartReconcile
    BY <2>1 DEF StartReconcile, Begin, Reconcilable
  <2>2. CASE RejectReconcile
    BY <2>2 DEF RejectReconcile, Return, Forget, Reconcilable, Fault
  <2>3. CASE KeepOldKey
    BY <2>3 DEF KeepOldKey, Continue, KeyRotated
  <2>4. CASE DeleteOldKey
    BY <2>4 DEF DeleteOldKey, Continue, KeyRotated, DropKey
  <2>5. CASE AdoptKey
    BY <2>5 DEF AdoptKey, Continue
  <2>6. CASE CreateKey
    BY <2>6 DEF CreateKey, Continue, AddKey
  <2>7. CASE NoNetworkRequested
    BY <2>7 DEF NoNetworkRequested, Continue
  <2>8. CASE NetworksUnset
    BY <2>8 DEF NetworksUnset, Forget
  <2>9. CASE LocationUnknown
    BY <2>9 DEF LocationUnknown, Failed
  <2>10. CASE AdoptNetwork
    BY <2>10 DEF AdoptNetwork, Continue
  <2>11. CASE CreateNetwork
    BY <2>11 DEF CreateNetwork, Continue, AddNetwork, FreshNetworkIDs
  <2>12. CASE PatchStatus
    BY <2>12 DEF PatchStatus, RecordStatus, Continue
  <2>13. CASE ReportSuccess
    BY <2>13 DEF ReportSuccess, Return, Forget
  <2>14. CASE CleanupNetwork
    BY <2>14 DEF CleanupNetwork, Continue, DropNetwork
  <2>15. CASE CleanupKey
    BY <2>15 DEF CleanupKey, DropKey, Return, Forget
  <2>16. CASE StartDelete
    BY <2>16 DEF StartDelete, Begin
  <2>17. CASE DeleteUnconfigured
    BY <2>17 DEF DeleteUnconfigured, Remove, Forget
  <2>18. CASE DeleteNetwork
    BY <2>18 DEF DeleteNetwork, DropNetwork, Continue
  <2>19. CASE DeleteKey
    BY <2>19 DEF DeleteKey, DropKey, Continue
  <2>20. CASE Finalize
    BY <2>20 DEF Finalize, Remove, Forget
  <2>21. CASE ReconcileFails
    BY <2>21 DEF ReconcileFails, Failed, KeyRotated
  <2>22. CASE ReportFails
    BY <2>22 DEF ReportFails, Forget
  <2>23. CASE DeleteFails
    BY <2>23 DEF DeleteFails, Return, Forget
  <2>24. CASE AnswerLost
    BY <2>24 DEF AnswerLost, Failed, KeyRotated, DropKey, AddKey, AddNetwork, FreshNetworkIDs, RecordStatus
  <2>25. CASE DeleteAnswerLost
    BY <2>25 DEF DeleteAnswerLost, DropNetwork, DropKey, Return, Forget
  <2>26. CASE CleanupFails
    <3>1. CASE step' = "cleanupKey"
      BY <2>26, <3>1 DEF CleanupFails, Continue, Return, Forget
    <3>2. CASE Return("Error")
      BY <2>26, <3>2 DEF CleanupFails, Return, Forget
    <3> QED
      BY <2>26, <3>1, <3>2 DEF CleanupFails, Continue
  <2>27. CASE Crash
    BY <2>27 DEF Crash, Forget
  <2>28. CASE RotateKey
    BY <2>28 DEF RotateKey, FreshKeys
  <2>29. CASE DisableSSHAccess
    BY <2>29 DEF DisableSSHAccess
  <2>30. CASE ChangeConfigs
    BY <2>30 DEF ChangeConfigs
  <2>31. CASE MigrateToNewSeed
    <3>1. infra' \in InfraObjects
      BY <2>31 DEF MigrateToNewSeed
    <3> QED
      BY <2>31, <3>1 DEF MigrateToNewSeed
  <2>32. CASE RequestDeletion
    BY <2>32 DEF RequestDeletion
  <2>33. CASE Recreate
    BY <2>33 DEF Recreate, NewInfra, FreshKeys
  <2>34. CASE CalmDown
    BY <2>34 DEF CalmDown
  <2>35. CASE Gone
    BY <2>35 DEF Gone, vars
  <2>36. CASE UNCHANGED vars
    BY <2>36 DEF vars
  <2> QED
    BY <2>1, <2>2, <2>3, <2>4, <2>5, <2>6, <2>7, <2>8, <2>9, <2>10, <2>11, <2>12, <2>13, <2>14, <2>15, <2>16, <2>17, <2>18, <2>19, <2>20, <2>21, <2>22, <2>23, <2>24, <2>25, <2>26, <2>27, <2>28, <2>29, <2>30, <2>31, <2>32, <2>33, <2>34, <2>35, <2>36
       DEF Next, ReconcileStep, DeleteStep, Failure, Environment
<1> QED
  BY <1>1, <1>2, PTL DEF Spec

\* The variables keep their types: in particular the status only ever holds
\* fingerprints and network IDs, and the cleanup is only ever given the ID of
\* a key (pkg/hcloud/apis/controller/infrastructure.go).
THEOREM TypeCorrect == Spec => []TypeOK
BY TypeAndKey, PTL

\* The parts of the inductive invariant besides the types
Others ==
    RequestInv /\ EnsuredInv /\ RecordedInv /\ OwnNetworkInv /\ ServedInv /\ SuccessMeansEnsured

\* Every step keeps them.
LEMMA OthersStep == IInv /\ TypeOK' /\ [Next]_vars => Others'
<1> SUFFICES ASSUME IInv, TypeOK', [Next]_vars PROVE Others'
  OBVIOUS
<1>0. TypeOK /\ KeyInv /\ Others
  BY DEF IInv, Others
<1> USE ConstantsAssumption DEF Others, RequestInv, EnsuredInv, RecordedInv, OwnNetworkInv, ServedInv,
        ServedNetworkKept, ServedKeyKept, SuccessMeansEnsured, KeyInv, KeyRotated,
        AfterKey, AfterNetwork, DeleteSteps, EmptyStatus, NoMethodData, NoRequest,
        TypeOK, InfraObjects, Status, MethodData, Requests, Steps, cloud, api, controller
<1>1. CASE StartReconcile
  BY <1>0, <1>1 DEF StartReconcile, Begin, Reconcilable
<1>2. CASE RejectReconcile
  BY <1>0, <1>2 DEF RejectReconcile, Return, Forget, Reconcilable, Fault
<1>3. CASE KeepOldKey
  BY <1>0, <1>3 DEF KeepOldKey, Continue, KeyRotated
<1>4. CASE DeleteOldKey
  BY <1>0, <1>4 DEF DeleteOldKey, Continue, KeyRotated, DropKey
<1>5. CASE AdoptKey
  BY <1>0, <1>5 DEF AdoptKey, Continue
<1>6. CASE CreateKey
  BY <1>0, <1>6 DEF CreateKey, Continue, AddKey
<1>7. CASE NoNetworkRequested
  BY <1>0, <1>7 DEF NoNetworkRequested, Continue
<1>8. CASE NetworksUnset
  BY <1>0, <1>8 DEF NetworksUnset, Forget
<1>9. CASE LocationUnknown
  BY <1>0, <1>9 DEF LocationUnknown, Failed
<1>10. CASE AdoptNetwork
  BY <1>0, <1>10 DEF AdoptNetwork, Continue
<1>11. CASE CreateNetwork
  BY <1>0, <1>11 DEF CreateNetwork, Continue, AddNetwork, FreshNetworkIDs
<1>12. CASE PatchStatus
  BY <1>0, <1>12 DEF PatchStatus, RecordStatus, Continue
<1>13. CASE ReportSuccess
  BY <1>0, <1>13 DEF ReportSuccess, Return, Forget
<1>14. CASE CleanupNetwork
  BY <1>0, <1>14 DEF CleanupNetwork, Continue, DropNetwork
<1>15. CASE CleanupKey
  BY <1>0, <1>15 DEF CleanupKey, DropKey, Return, Forget
<1>16. CASE StartDelete
  BY <1>0, <1>16 DEF StartDelete, Begin
<1>17. CASE DeleteUnconfigured
  BY <1>0, <1>17 DEF DeleteUnconfigured, Remove, Forget
<1>18. CASE DeleteNetwork
  BY <1>0, <1>18 DEF DeleteNetwork, DropNetwork, Continue
<1>19. CASE DeleteKey
  BY <1>0, <1>19 DEF DeleteKey, DropKey, Continue
<1>20. CASE Finalize
  BY <1>0, <1>20 DEF Finalize, Remove, Forget
<1>21. CASE ReconcileFails
  BY <1>0, <1>21 DEF ReconcileFails, Failed, KeyRotated
<1>22. CASE ReportFails
  BY <1>0, <1>22 DEF ReportFails, Forget
<1>23. CASE DeleteFails
  BY <1>0, <1>23 DEF DeleteFails, Return, Forget
<1>24. CASE AnswerLost
  BY <1>0, <1>24 DEF AnswerLost, Failed, KeyRotated, DropKey, AddKey, AddNetwork, FreshNetworkIDs, RecordStatus
<1>25. CASE DeleteAnswerLost
  BY <1>0, <1>25 DEF DeleteAnswerLost, DropNetwork, DropKey, Return, Forget
<1>26. CASE CleanupFails
  BY <1>0, <1>26 DEF CleanupFails, Continue, Return, Forget
<1>27. CASE Crash
  BY <1>0, <1>27 DEF Crash, Forget
<1>28. CASE RotateKey
  BY <1>0, <1>28 DEF RotateKey, FreshKeys
<1>29. CASE DisableSSHAccess
  BY <1>0, <1>29 DEF DisableSSHAccess
<1>30. CASE ChangeConfigs
  BY <1>0, <1>30 DEF ChangeConfigs
<1>31. CASE MigrateToNewSeed
  BY <1>0, <1>31 DEF MigrateToNewSeed
<1>32. CASE RequestDeletion
  BY <1>0, <1>32 DEF RequestDeletion
<1>33. CASE Recreate
  BY <1>0, <1>33 DEF Recreate, NewInfra, FreshKeys
<1>34. CASE CalmDown
  BY <1>0, <1>34 DEF CalmDown
<1>35. CASE Gone
  BY <1>0, <1>35 DEF Gone, vars
<1>36. CASE UNCHANGED vars
  BY <1>0, <1>36 DEF vars
<1> QED
  BY <1>1, <1>2, <1>3, <1>4, <1>5, <1>6, <1>7, <1>8, <1>9, <1>10, <1>11, <1>12, <1>13, <1>14, <1>15, <1>16, <1>17, <1>18, <1>19, <1>20, <1>21, <1>22, <1>23, <1>24, <1>25, <1>26, <1>27, <1>28, <1>29, <1>30, <1>31, <1>32, <1>33, <1>34, <1>35, <1>36
     DEF Next, ReconcileStep, DeleteStep, Failure, Environment

\* The inductive invariant holds in every reachable state.
THEOREM Invariance == Spec => []IInv
<1>1. Init => Others
  <2> SUFFICES ASSUME Init PROVE Others
    OBVIOUS
  <2>1. PICK k \in Keys, n \in NetworkRequests : infra = NewInfra(k, n)
    BY DEF Init
  <2>2. infra.phase = "present" /\ infra.lastOp = "None"
    BY <2>1 DEF NewInfra
  <2> QED
    BY <2>1, <2>2, ConstantsAssumption
       DEF Init, Others, RequestInv, EnsuredInv, RecordedInv, OwnNetworkInv, ServedInv,
           ServedNetworkKept, ServedKeyKept, SuccessMeansEnsured, EmptyStatus,
           NoMethodData, NoRequest, AfterKey, AfterNetwork, DeleteSteps, NewInfra
<1>2. IInv <=> TypeOK /\ KeyInv /\ Others
  BY DEF IInv, Others
<1> QED
  BY <1>1, <1>2, TypeAndKey, OthersStep, PTL DEF Spec

\* No failed reconcile and no cleanup takes away the network that machines
\* have been attached to, although both delete it by name.
THEOREM NetworkKept == Spec => []ServedNetworkKept
<1>1. IInv => ServedNetworkKept
  BY DEF IInv, ServedInv
<1> QED
  BY <1>1, Invariance, PTL

\* Only a rotation takes away the key that machines have been given.
THEOREM KeyKept == Spec => []ServedKeyKept
<1>1. IInv => ServedKeyKept
  BY DEF IInv, ServedInv
<1> QED
  BY <1>1, Invariance, PTL

\* After a success the resources that the status records exist.
THEOREM SuccessEnsures == Spec => []SuccessMeansEnsured
<1>1. IInv => SuccessMeansEnsured
  BY DEF IInv
<1> QED
  BY <1>1, Invariance, PTL

\* reconcileOnErrorCleanup only ever deletes the network that the failed
\* reconcile has created.
THEOREM CleanupOwn == Spec => CleanupDeletesOwnNetwork
<1>1. IInv /\ [Next]_vars => [step = "cleanupNetwork" /\ network' # network =>
                                 network = methodData.networkID]_vars
  <2> SUFFICES ASSUME IInv, [Next]_vars, step = "cleanupNetwork", network' # network
               PROVE network = methodData.networkID
    OBVIOUS
  <2>1. methodData.networkID # NoNetwork => network = methodData.networkID
    BY DEF IInv, OwnNetworkInv
  <2>2. CleanupNetwork
    BY DEF Next, ReconcileStep, DeleteStep, Failure, Environment, vars, cloud, api, controller,
           StartReconcile, RejectReconcile, KeepOldKey, DeleteOldKey, AdoptKey, CreateKey,
           NoNetworkRequested, NetworksUnset, LocationUnknown, AdoptNetwork, CreateNetwork,
           PatchStatus, ReportSuccess, CleanupKey, StartDelete, DeleteUnconfigured,
           DeleteNetwork, DeleteKey, Finalize, ReconcileFails, ReportFails, DeleteFails,
           AnswerLost, DeleteAnswerLost, CleanupFails, Crash, RotateKey, DisableSSHAccess,
           ChangeConfigs, MigrateToNewSeed, RequestDeletion, Recreate, CalmDown, Gone
  <2>3. methodData.networkID # NoNetwork
    BY <2>2 DEF CleanupNetwork, cloud
  <2> QED
    BY <2>1, <2>3
<1> QED
  BY <1>1, Invariance, PTL DEF Spec, CleanupDeletesOwnNetwork

\* A network is only lost track of by the five steps that NetworkStaysTracked names.
THEOREM Tracking == Spec => NetworkStaysTracked
<1> DEFINE Untracks == \/ AnswerLost /\ step = "ensureNetwork"
                       \/ CleanupFails \/ Crash \/ MigrateToNewSeed \/ DeleteUnconfigured
<1>1. IInv /\ [Next]_vars => [NetworkTracked => NetworkTracked' \/ Untracks]_vars
  <2> SUFFICES ASSUME IInv, [Next]_vars, NetworkTracked, ~Untracks PROVE NetworkTracked'
    OBVIOUS
  <2>0. TypeOK /\ RequestInv /\ EnsuredInv /\ RecordedInv /\ OwnNetworkInv
    BY DEF IInv
  <2>a. infra \in InfraObjects /\ methodData \in MethodData
    BY <2>0 DEF TypeOK
  <2> USE DEF NetworkTracked, cloud, api, controller, InfraObjects, Status, MethodData
  <2>1. CASE StartReconcile
    BY <2>0, <2>a, <2>1 DEF StartReconcile, RequestInv, RecordedInv, EmptyStatus, NoMethodData, Begin
  <2>2. CASE RejectReconcile
    BY <2>0, <2>a, <2>2 DEF RejectReconcile, RequestInv, RecordedInv, EmptyStatus, NoMethodData, Return, Forget
  <2>3. CASE KeepOldKey
    BY <2>0, <2>a, <2>3 DEF KeepOldKey, Continue
  <2>4. CASE DeleteOldKey
    BY <2>0, <2>a, <2>4 DEF DeleteOldKey, Continue, DropKey
  <2>5. CASE AdoptKey
    BY <2>0, <2>a, <2>5 DEF AdoptKey, Continue
  <2>6. CASE CreateKey
    BY <2>0, <2>a, <2>6 DEF CreateKey, Continue, AddKey
  <2>7. CASE NoNetworkRequested
    BY <2>0, <2>a, <2>7 DEF NoNetworkRequested, Continue
  <2>8. CASE NetworksUnset
    BY <2>0, <2>a, <2>8 DEF NetworksUnset, EnsuredInv, Forget
  <2>9. CASE LocationUnknown
    BY <2>0, <2>a, <2>9 DEF LocationUnknown, Failed
  <2>10. CASE AdoptNetwork
    BY <2>0, <2>a, <2>10 DEF AdoptNetwork, Continue
  <2>11. CASE CreateNetwork
    BY <2>0, <2>a, <2>11 DEF CreateNetwork, Continue, AddNetwork
  <2>12. CASE PatchStatus
    BY <2>0, <2>a, <2>12 DEF PatchStatus, EnsuredInv, RecordedInv, AfterNetwork, OwnNetworkInv, RecordStatus, Continue
  <2>13. CASE ReportSuccess
    BY <2>0, <2>a, <2>13 DEF ReportSuccess, EnsuredInv, OwnNetworkInv, AfterNetwork, Return, Forget
  <2>14. CASE CleanupNetwork
    BY <2>0, <2>a, <2>14 DEF CleanupNetwork, OwnNetworkInv, Continue, DropNetwork
  <2>15. CASE CleanupKey
    BY <2>0, <2>a, <2>15 DEF CleanupKey, DropKey, Return, Forget
  <2>16. CASE StartDelete
    BY <2>0, <2>a, <2>16 DEF StartDelete, Begin
  <2>17. CASE DeleteNetwork
    BY <2>0, <2>a, <2>17 DEF DeleteNetwork, RequestInv, RecordedInv, DeleteSteps, NoMethodData, DropNetwork, Continue
  <2>18. CASE DeleteKey
    BY <2>0, <2>a, <2>18 DEF DeleteKey, RequestInv, DeleteSteps, NoMethodData, DropKey, Continue
  <2>19. CASE Finalize
    BY <2>0, <2>a, <2>19 DEF Finalize, RequestInv, RecordedInv, DeleteSteps, NoMethodData, EmptyStatus, Remove, Forget
  <2>20. CASE ReconcileFails
    BY <2>0, <2>a, <2>20 DEF ReconcileFails, Failed
  <2>21. CASE ReportFails
    BY <2>0, <2>a, <2>21 DEF ReportFails, EnsuredInv, OwnNetworkInv, AfterNetwork, Forget
  <2>22. CASE DeleteFails
    BY <2>0, <2>a, <2>22 DEF DeleteFails, RequestInv, DeleteSteps, NoMethodData, Return, Forget
  <2>23. CASE DeleteAnswerLost
    BY <2>0, <2>a, <2>23 DEF DeleteAnswerLost, RequestInv, RecordedInv, DeleteSteps, NoMethodData, DropNetwork, DropKey, Return, Forget
  <2>24. CASE RotateKey
    BY <2>0, <2>a, <2>24 DEF RotateKey
  <2>25. CASE DisableSSHAccess
    BY <2>0, <2>a, <2>25 DEF DisableSSHAccess
  <2>26. CASE ChangeConfigs
    BY <2>0, <2>a, <2>26 DEF ChangeConfigs
  <2>27. CASE RequestDeletion
    BY <2>0, <2>a, <2>27 DEF RequestDeletion
  <2>28. CASE Recreate
    BY <2>0, <2>a, <2>28 DEF Recreate, RequestInv, RecordedInv, EmptyStatus, NoMethodData, NewInfra
  <2>29. CASE CalmDown
    BY <2>0, <2>a, <2>29 DEF CalmDown
  <2>30. CASE Gone
    BY <2>0, <2>a, <2>30 DEF Gone, vars
  <2>31. CASE AnswerLost
    <3>1. step # "ensureNetwork"
      BY <2>31
    <3>2. step = "patch" => workers = network \/ infra.networks # "workers"
      BY <2>0 DEF EnsuredInv, AfterNetwork
    <3>3. UNCHANGED <<network, methodData>> /\ step' = "cleanupNetwork"
      BY <2>31, <3>1 DEF AnswerLost, Failed, DropKey, AddKey
    <3>4. infra'.status.network \in {infra.status.network, workers} /\ (step # "patch" => infra' = infra)
      BY <2>a, <2>31, <3>1 DEF AnswerLost, RecordStatus
    <3>5. infra.status.network # NoNetwork => infra.networks = "workers"
      BY <2>0 DEF RecordedInv
    <3>6. methodData.networkID # NoNetwork /\ step # "cleanupKey" => network = methodData.networkID
      BY <2>0 DEF OwnNetworkInv
    <3>7. step # "cleanupKey"
      BY <2>31 DEF AnswerLost
    <3> QED
      BY <3>2, <3>3, <3>4, <3>5, <3>6, <3>7
  <2>32. CASE UNCHANGED vars
    BY <2>32 DEF vars
  <2> QED
    BY <2>1, <2>2, <2>3, <2>4, <2>5, <2>6, <2>7, <2>8, <2>9, <2>10, <2>11, <2>12, <2>13, <2>14, <2>15, <2>16, <2>17, <2>18, <2>19, <2>20, <2>21, <2>22, <2>23, <2>24, <2>25, <2>26, <2>27, <2>28, <2>29, <2>30, <2>31, <2>32
       DEF Next, ReconcileStep, DeleteStep, Failure, Environment
<1> QED
  BY <1>1, Invariance, PTL DEF Spec, NetworkStaysTracked

ContractStep == [Contract!Next]_(Contract!vars)

\* Removing a key that is not offered retires it, if it was there at all.
LEMMA DropKeyRetires ==
  ASSUME NEW k, DropKey(k), k # Offer.key \/ k \notin sshKeys, Offer' = Offer
  PROVE  ContractStep
<1>1. CASE k \in sshKeys
  <2>1. k \in sshKeys \ {Offer.key} /\ sshKeys' = sshKeys \ {k}
    BY <1>1 DEF DropKey
  <2>2. Contract!Retire
    BY <2>1 DEF Contract!Retire, DropKey
  <2> QED
    BY <2>2 DEF ContractStep, Contract!Next
<1>2. CASE k \notin sshKeys
  <2>1. sshKeys' = sshKeys
    BY <1>2 DEF DropKey
  <2> QED
    BY <2>1 DEF ContractStep, Contract!vars, DropKey
<1> QED
  BY <1>1, <1>2

LEMMA AddKeyCreates ==
  ASSUME NEW k \in Keys, AddKey(k), Offer' = Offer
  PROVE  ContractStep
<1>1. Contract!Create
  BY DEF Contract!Create, AddKey
<1> QED
  BY <1>1 DEF ContractStep, Contract!Next

\* Removing the network retires it as long as it is not offered.
LEMMA DropNetworkRetires ==
  ASSUME DropNetwork, Offer.network = NoNetwork, Offer' = Offer
  PROVE  ContractStep
<1>1. Contract!Retire
  BY DEF Contract!Retire, DropNetwork
<1> QED
  BY <1>1 DEF ContractStep, Contract!Next

LEMMA AddNetworkCreates ==
  ASSUME NEW id \in NetworkIDs, AddNetwork(id), network = NoNetwork, Offer' = Offer
  PROVE  ContractStep
<1>1. Contract!Create
  BY DEF Contract!Create, AddNetwork, FreshNetworkIDs
<1> QED
  BY <1>1 DEF ContractStep, Contract!Next

\* The actuator implements the contract with those who create the machines:
\* each of its steps creates, retires, publishes or withdraws, or changes
\* nothing that the contract speaks of.
THEOREM Refinement == Spec => ImplementsContract
<1> USE ConstantsAssumption DEF EmptyStatus, Contract!Nothing
<1>1. Init => Contract!Init
  BY DEF Init, NewInfra, Contract!Init, Offer
<1>2. IInv /\ [Next]_vars => [Contract!Next]_(Contract!vars)
  <2> SUFFICES ASSUME IInv, [Next]_vars PROVE ContractStep
    BY DEF ContractStep
  <2> USE DEF TypeOK, InfraObjects, Status, MethodData, Requests,
          cloud, api, controller, Offer, Contract!vars
  <2>0. /\ TypeOK /\ KeyInv /\ RequestInv /\ EnsuredInv /\ OwnNetworkInv
        /\ ServedNetworkKept /\ ServedKeyKept
        /\ infra.phase = "present" /\ served.network # NoNetwork => infra.networks = "workers"
        /\ infra.phase = "gone" => served = EmptyStatus
    BY DEF IInv, ServedInv

  <2>1. CASE StartReconcile
    BY <2>0, <2>1 DEF StartReconcile, Begin, Reconcilable, ContractStep
  <2>2. CASE RejectReconcile
    BY <2>0, <2>2 DEF RejectReconcile, Return, Forget, Reconcilable, Fault, ContractStep
  <2>3. CASE KeepOldKey
    BY <2>0, <2>3 DEF KeepOldKey, Continue, KeyRotated, ContractStep
  <2>4. CASE DeleteOldKey
    <3>1. request.status.key # infra.key
      BY <2>0, <2>4 DEF DeleteOldKey, EnsuredInv
    <3>2. request.status.key # Offer.key
      BY <2>0, <2>4, <3>1 DEF DeleteOldKey, KeyRotated
    <3> QED
      BY <2>4, <3>2, DropKeyRetires DEF DeleteOldKey
  <2>5. CASE AdoptKey
    BY <2>0, <2>5 DEF AdoptKey, Continue, ContractStep
  <2>6. CASE CreateKey
    <3>1. request.key \in Keys
      BY <2>0, <2>6 DEF CreateKey, KeyInv
    <3> QED
      BY <2>6, <3>1, AddKeyCreates DEF CreateKey
  <2>7. CASE NoNetworkRequested
    BY <2>0, <2>7 DEF NoNetworkRequested, Continue, ContractStep
  <2>8. CASE NetworksUnset
    BY <2>0, <2>8 DEF NetworksUnset, Forget, ContractStep
  <2>9. CASE LocationUnknown
    BY <2>0, <2>9 DEF LocationUnknown, Failed, ContractStep
  <2>10. CASE AdoptNetwork
    BY <2>0, <2>10 DEF AdoptNetwork, Continue, ContractStep
  <2>11. CASE CreateNetwork
    BY <2>11, AddNetworkCreates DEF CreateNetwork
  <2>12. CASE PatchStatus
    BY <2>0, <2>12 DEF PatchStatus, RecordStatus, Continue, ContractStep
  <2>13. CASE ReportSuccess
    <3>1. /\ infra' = [infra EXCEPT !.lastOp = "Succeeded"]
          /\ served' = infra.status /\ UNCHANGED <<sshKeys, network>>
      BY <2>13 DEF ReportSuccess, Return
    <3>2. /\ infra.status.key \in sshKeys
          /\ infra.status.network = IF infra.networks = "workers" THEN network ELSE NoNetwork
      BY <2>0, <2>13 DEF ReportSuccess, EnsuredInv, AfterKey, AfterNetwork
    <3>3. Offer'.key \in sshKeys \cup {NoKey}
      BY <3>1, <3>2, <2>0
    <3>4. Offer'.network \in {network, NoNetwork}
      BY <3>1, <3>2, <2>0
    <3>5. Offer.network # NoNetwork => Offer'.network = Offer.network
      BY <3>1, <3>2, <2>0 DEF ServedNetworkKept
    <3>6. Contract!Publish
      BY <3>1, <3>3, <3>4, <3>5 DEF Contract!Publish
    <3> QED
      BY <3>6 DEF ContractStep, Contract!Next
  <2>14. CASE CleanupNetwork
    <3>1. CASE methodData.networkID = NoNetwork
      BY <2>14, <3>1 DEF CleanupNetwork, ContractStep
    <3>2. CASE methodData.networkID # NoNetwork
      <4>1. Offer.network = NoNetwork
        BY <2>0, <2>14, <3>2 DEF CleanupNetwork, OwnNetworkInv
      <4> QED
        BY <2>14, <3>2, <4>1, DropNetworkRetires DEF CleanupNetwork
    <3> QED
      BY <3>1, <3>2
  <2>15. CASE CleanupKey
    <3>1. methodData.sshKeyID \notin sshKeys
      BY <2>0 DEF KeyID
    <3> QED
      BY <2>15, <3>1, DropKeyRetires DEF CleanupKey, Return
  <2>16. CASE StartDelete
    BY <2>0, <2>16 DEF StartDelete, Begin, ContractStep
  <2>17. CASE DeleteUnconfigured
    BY <2>0, <2>17 DEF DeleteUnconfigured, Remove, Forget, ContractStep
  <2>18. CASE DeleteNetwork
    <3>1. Offer.network = NoNetwork
      BY <2>0, <2>18 DEF DeleteNetwork, RequestInv, DeleteSteps
    <3> QED
      BY <2>18, <3>1, DropNetworkRetires DEF DeleteNetwork, ContractStep
  <2>19. CASE DeleteKey
    <3>1. Offer.key = NoKey
      BY <2>0, <2>19 DEF DeleteKey, RequestInv, DeleteSteps
    <3>2. request.status.key # Offer.key \/ request.status.key \notin sshKeys
      BY <2>0, <3>1
    <3> QED
      BY <2>19, <3>2, DropKeyRetires DEF DeleteKey
  <2>20. CASE Finalize
    BY <2>0, <2>20 DEF Finalize, Remove, RequestInv, DeleteSteps, ContractStep
  <2>21. CASE ReconcileFails
    BY <2>0, <2>21 DEF ReconcileFails, Failed, KeyRotated, ContractStep
  <2>22. CASE ReportFails
    BY <2>0, <2>22 DEF ReportFails, Forget, ContractStep
  <2>23. CASE DeleteFails
    BY <2>0, <2>23 DEF DeleteFails, Return, Forget, ContractStep
  <2>24. CASE AnswerLost
    <3>0. Offer' = Offer
      <4>1. infra'.phase = infra.phase /\ infra'.key = infra.key
        BY <2>0, <2>24 DEF AnswerLost, RecordStatus
      <4> QED
        BY <2>24, <4>1 DEF AnswerLost
    <3>1. CASE step = "oldKey" /\ KeyRotated /\ DropKey(request.status.key)
      <4>1. request.status.key # infra.key
        BY <2>0, <3>1 DEF EnsuredInv
      <4>2. request.status.key # Offer.key
        BY <2>0, <3>1, <4>1 DEF KeyRotated
      <4> QED
        BY <3>0, <3>1, <4>2, DropKeyRetires
    <3>2. CASE step = "ensureKey" /\ AddKey(request.key)
      <4>1. request.key \in Keys
        BY <2>0, <3>2 DEF KeyInv
      <4> QED
        BY <3>0, <3>2, <4>1, AddKeyCreates
    <3>3. CASE network = NoNetwork /\ \E id \in NetworkIDs : AddNetwork(id)
      BY <3>0, <3>3, AddNetworkCreates
    <3>4. CASE UNCHANGED cloud
      BY <3>0, <3>4 DEF ContractStep
    <3> QED
      BY <2>24, <3>1, <3>2, <3>3, <3>4 DEF AnswerLost
  <2>25. CASE DeleteAnswerLost
    <3>1. Offer.key = NoKey /\ Offer.network = NoNetwork
      BY <2>0, <2>25 DEF DeleteAnswerLost, RequestInv, DeleteSteps
    <3>2. request.status.key # Offer.key \/ request.status.key \notin sshKeys
      BY <2>0, <3>1
    <3>3. Offer' = Offer
      BY <2>25 DEF DeleteAnswerLost, Return
    <3> QED
      BY <2>25, <3>1, <3>2, <3>3, DropKeyRetires, DropNetworkRetires DEF DeleteAnswerLost
  <2>26. CASE CleanupFails
    BY <2>0, <2>26 DEF CleanupFails, Continue, Return, Forget, ContractStep
  <2>27. CASE Crash
    BY <2>0, <2>27 DEF Crash, Forget, ContractStep
  <2>28. CASE RotateKey
    BY <2>0, <2>28 DEF RotateKey, FreshKeys, ContractStep, Contract!Next, Contract!Withdraw
  <2>29. CASE DisableSSHAccess
    BY <2>0, <2>29 DEF DisableSSHAccess, ContractStep, Contract!Next, Contract!Withdraw
  <2>30. CASE ChangeConfigs
    BY <2>0, <2>30 DEF ChangeConfigs, ContractStep
  <2>31. CASE MigrateToNewSeed
    BY <2>0, <2>31 DEF MigrateToNewSeed, ContractStep
  <2>32. CASE RequestDeletion
    BY <2>0, <2>32 DEF RequestDeletion, ContractStep, Contract!Next, Contract!Withdraw
  <2>33. CASE Recreate
    BY <2>0, <2>33 DEF Recreate, NewInfra, FreshKeys, ContractStep
  <2>34. CASE CalmDown
    BY <2>0, <2>34 DEF CalmDown, ContractStep
  <2>35. CASE Gone
    BY <2>0, <2>35 DEF Gone, vars, ContractStep
  <2>36. CASE UNCHANGED vars
    BY <2>36 DEF vars, ContractStep
  <2> QED
    BY <2>1, <2>2, <2>3, <2>4, <2>5, <2>6, <2>7, <2>8, <2>9, <2>10, <2>11, <2>12, <2>13, <2>14, <2>15, <2>16, <2>17, <2>18, <2>19, <2>20, <2>21, <2>22, <2>23, <2>24, <2>25, <2>26, <2>27, <2>28, <2>29, <2>30, <2>31, <2>32, <2>33, <2>34, <2>35, <2>36
       DEF Next, ReconcileStep, DeleteStep, Failure, Environment
<1> QED
  BY <1>1, <1>2, Invariance, PTL DEF Spec, ImplementsContract, Contract!Spec

-----------------------------------------------------------------------------
(* Keys and networks that nothing records.                                 *)

\* However requests fail, no step of an orderly life adds a key or a network that
\* neither the status nor the request in flight knows.
LEMMA ConvergenceStep ==
  ASSUME OrderlyRotation
  PROVE  IInv /\ ConvergenceInv /\ [Next]_vars => ConvergenceInv'
<1> SUFFICES ASSUME IInv, ConvergenceInv, [Next]_vars PROVE ConvergenceInv'
  OBVIOUS
<1>0. TypeOK /\ RequestInv /\ EnsuredInv
  BY DEF IInv
<1> USE <1>0, ConstantsAssumption
    DEF ConvergenceInv, ReconcileSteps, Steps, DeleteSteps, AfterKey, AfterNetwork, TypeOK, InfraObjects,
        Status, RequestInv, EnsuredInv, cloud, api, controller
<1>1. CASE StartReconcile
  BY <1>1 DEF StartReconcile, Begin, Reconcilable
<1>2. CASE RejectReconcile
  BY <1>2 DEF RejectReconcile, Return, Forget
<1>3. CASE KeepOldKey
  BY <1>3 DEF KeepOldKey, Continue, KeyRotated
<1>4. CASE DeleteOldKey
  BY <1>4 DEF DeleteOldKey, Continue, KeyRotated, DropKey
<1>5. CASE AdoptKey
  BY <1>5 DEF AdoptKey, Continue
<1>6. CASE CreateKey
  BY <1>6 DEF CreateKey, Continue, AddKey
<1>7. CASE NoNetworkRequested
  BY <1>7 DEF NoNetworkRequested, Continue
<1>8. CASE NetworksUnset
  BY <1>8 DEF NetworksUnset, Forget
<1>9. CASE LocationUnknown
  BY <1>9 DEF LocationUnknown, Failed
<1>10. CASE AdoptNetwork
  BY <1>10 DEF AdoptNetwork, Continue
<1>11. CASE CreateNetwork
  BY <1>11 DEF CreateNetwork, Continue, AddNetwork
<1>12. CASE PatchStatus
  BY <1>12 DEF PatchStatus, RecordStatus, Continue
<1>13. CASE ReportSuccess
  BY <1>13 DEF ReportSuccess, Return, Forget
<1>14. CASE CleanupNetwork
  BY <1>14 DEF CleanupNetwork, Continue, DropNetwork
<1>15. CASE CleanupKey
  BY <1>15 DEF CleanupKey, DropKey, Return, Forget
<1>16. CASE StartDelete
  BY <1>16 DEF StartDelete, Begin
<1>17. CASE DeleteUnconfigured
  BY <1>17 DEF DeleteUnconfigured, Remove, Forget
<1>18. CASE DeleteNetwork
  BY <1>18 DEF DeleteNetwork, DropNetwork, Continue
<1>19. CASE DeleteKey
  BY <1>19 DEF DeleteKey, DropKey, Continue
<1>20. CASE Finalize
  BY <1>20 DEF Finalize, Remove, Forget
<1>21. CASE ReconcileFails
  BY <1>21 DEF ReconcileFails, Failed, KeyRotated
<1>22. CASE ReportFails
  BY <1>22 DEF ReportFails, Forget
<1>23. CASE DeleteFails
  BY <1>23 DEF DeleteFails, Return, Forget
<1>24. CASE AnswerLost
  BY <1>24 DEF AnswerLost, Failed, KeyRotated, DropKey, AddKey, AddNetwork, RecordStatus
<1>25. CASE DeleteAnswerLost
  BY <1>25 DEF DeleteAnswerLost, DropNetwork, DropKey, Return, Forget
<1>26. CASE CleanupFails
  BY <1>26 DEF CleanupFails, Continue, Return, Forget
<1>27. CASE Crash
  BY <1>27 DEF Crash, Forget
<1>28. CASE RotateKey
  BY <1>28 DEF RotateKey, Fault, OrderlyRotation
<1>29. CASE DisableSSHAccess
  BY <1>29 DEF DisableSSHAccess
<1>30. CASE ChangeConfigs
  BY <1>30 DEF ChangeConfigs
<1>31. CASE MigrateToNewSeed
  BY <1>31 DEF MigrateToNewSeed, Fault, OrderlyRotation
<1>32. CASE RequestDeletion
  BY <1>32 DEF RequestDeletion
<1>33. CASE Recreate
  BY <1>33 DEF Recreate, Fault, OrderlyRotation
<1>34. CASE CalmDown
  BY <1>34 DEF CalmDown
<1>35. CASE Gone
  BY <1>35 DEF Gone, vars
<1>36. CASE UNCHANGED vars
  BY <1>36 DEF vars
<1> QED
  BY <1>1, <1>2, <1>3, <1>4, <1>5, <1>6, <1>7, <1>8, <1>9, <1>10, <1>11, <1>12, <1>13, <1>14, <1>15, <1>16, <1>17, <1>18, <1>19, <1>20, <1>21, <1>22, <1>23, <1>24, <1>25, <1>26, <1>27, <1>28, <1>29, <1>30, <1>31, <1>32, <1>33, <1>34, <1>35, <1>36
     DEF Next, ReconcileStep, DeleteStep, Failure, Environment

\* What a success finds is what its status records.
LEMMA Converging ==
  ASSUME OrderlyRotation
  PROVE  Spec => []ConvergenceInv
<1>1. Init => ConvergenceInv
  BY ConstantsAssumption
     DEF Init, NewInfra, ConvergenceInv, ReconcileSteps, Steps, DeleteSteps, AfterKey
<1>2. IInv /\ ConvergenceInv /\ [Next]_vars => ConvergenceInv'
  BY ConvergenceStep
<1> QED
  BY <1>1, <1>2, Invariance, PTL DEF Spec

\* As long as keys rotate in an orderly way, a success finds one key, the one it
\* records, whatever failed attempts, crashes and lost answers came before.
THEOREM Convergence ==
  ASSUME OrderlyRotation
  PROVE  Spec => []KeysConverge
<1>1. IInv /\ ConvergenceInv => KeysConverge
  BY DEF IInv, SuccessMeansEnsured, ConvergenceInv, KeysConverge
<1> QED
  BY <1>1, Converging, Invariance, PTL

\* A deletion that knows all there is goes on knowing it, through each failure.
LEMMA ClearingStep ==
  ASSUME OrderlyRotation, LastingConfigs
  PROVE  IInv /\ ClearingInv /\ [Next]_vars => ClearingInv'
<1> SUFFICES ASSUME IInv, ClearingInv, [Next]_vars PROVE ClearingInv'
  OBVIOUS
<1>0. TypeOK /\ RequestInv /\ RecordedInv
  BY DEF IInv
<1> USE <1>0, ConstantsAssumption
    DEF ClearingInv, DeleteSteps, TypeOK, InfraObjects, Status, RequestInv, RecordedInv,
        cloud, api, controller
<1>1. CASE StartReconcile
  BY <1>1 DEF StartReconcile
<1>2. CASE RejectReconcile
  BY <1>2 DEF RejectReconcile
<1>3. CASE KeepOldKey \/ DeleteOldKey
  BY <1>3 DEF KeepOldKey, DeleteOldKey
<1>4. CASE AdoptKey \/ CreateKey
  BY <1>4 DEF AdoptKey, CreateKey
<1>5. CASE NoNetworkRequested \/ NetworksUnset
  BY <1>5 DEF NoNetworkRequested, NetworksUnset
<1>6. CASE LocationUnknown \/ AdoptNetwork \/ CreateNetwork
  BY <1>6 DEF LocationUnknown, AdoptNetwork, CreateNetwork
<1>7. CASE PatchStatus \/ ReportSuccess
  BY <1>7 DEF PatchStatus, ReportSuccess
<1>8. CASE CleanupNetwork \/ CleanupKey \/ CleanupFails
  BY <1>8 DEF CleanupNetwork, CleanupKey, CleanupFails
<1>9. CASE ReconcileFails \/ ReportFails \/ AnswerLost
  BY <1>9 DEF ReconcileFails, ReportFails, AnswerLost
<1>10. CASE StartDelete
  BY <1>10 DEF StartDelete, Begin
<1>11. CASE DeleteUnconfigured
  BY <1>11 DEF DeleteUnconfigured, Remove, Forget
<1>12. CASE DeleteNetwork
  BY <1>12 DEF DeleteNetwork, DropNetwork, Continue
<1>13. CASE DeleteKey
  BY <1>13 DEF DeleteKey, DropKey, Continue
<1>14. CASE Finalize
  BY <1>14 DEF Finalize, Remove, Forget
<1>15. CASE DeleteFails
  BY <1>15 DEF DeleteFails, Return, Forget
<1>16. CASE DeleteAnswerLost
  BY <1>16 DEF DeleteAnswerLost, DropNetwork, DropKey, Return, Forget
<1>17. CASE Crash
  BY <1>17 DEF Crash, Forget
<1>18. CASE RotateKey \/ DisableSSHAccess \/ MigrateToNewSeed \/ RequestDeletion
  BY <1>18 DEF RotateKey, DisableSSHAccess, MigrateToNewSeed, RequestDeletion
<1>19. CASE ChangeConfigs \/ Recreate
  BY <1>19 DEF ChangeConfigs, Recreate, Fault, OrderlyRotation, LastingConfigs
<1>20. CASE CalmDown
  BY <1>20 DEF CalmDown
<1>21. CASE Gone
  BY <1>21 DEF Gone, vars
<1>22. CASE UNCHANGED vars
  BY <1>22 DEF vars
<1> QED
  BY <1>1, <1>2, <1>3, <1>4, <1>5, <1>6, <1>7, <1>8, <1>9, <1>10, <1>11, <1>12, <1>13, <1>14, <1>15, <1>16, <1>17, <1>18, <1>19, <1>20, <1>21, <1>22
     DEF Next, ReconcileStep, DeleteStep, Failure, Environment

\* Without a fault of the configs they all stay.
LEMMA ConfigsLast ==
  ASSUME LastingConfigs
  PROVE  Spec => [](configs = ConfigKinds)
<1>1. Init => configs = ConfigKinds
  BY DEF Init, LastingConfigs
<1>2. configs = ConfigKinds /\ [Next]_vars => (configs = ConfigKinds)'
  <2> SUFFICES ASSUME [Next]_vars PROVE configs' = configs
    OBVIOUS
  <2> USE DEF api
  <2>1. CASE ReconcileStep
    BY <2>1 DEF ReconcileStep, StartReconcile, Begin, KeepOldKey, DeleteOldKey, AdoptKey, CreateKey,
       NoNetworkRequested, NetworksUnset, LocationUnknown, AdoptNetwork, CreateNetwork, PatchStatus,
       RecordStatus, ReportSuccess, Return, CleanupNetwork, CleanupKey
  <2>2. CASE RejectReconcile \/ DeleteStep
    BY <2>2 DEF RejectReconcile, Return, DeleteStep, StartDelete, Begin, DeleteUnconfigured, Remove,
       DeleteNetwork, DeleteKey, Finalize
  <2>3. CASE Failure
    BY <2>3 DEF Failure, ReconcileFails, ReportFails, DeleteFails, Return, AnswerLost, RecordStatus,
       DeleteAnswerLost, CleanupFails, Crash
  <2>4. CASE Environment
    BY <2>4 DEF Environment, RotateKey, DisableSSHAccess, ChangeConfigs, Fault, LastingConfigs,
       MigrateToNewSeed, RequestDeletion, Recreate, CalmDown
  <2>5. CASE Gone \/ UNCHANGED vars
    BY <2>5 DEF Gone, vars
  <2> QED
    BY <2>1, <2>2, <2>3, <2>4, <2>5 DEF Next
<1> QED
  BY <1>1, <1>2, PTL DEF Spec

\* A deletion after a success leaves nothing in the HCloud project, however often
\* its own calls fail, lose their answers or crash.
THEOREM DeletionClears ==
  ASSUME OrderlyRotation, LastingConfigs
  PROVE  Spec => DeletionLeavesNothing
<1>1. /\ IInv /\ ConvergenceInv /\ configs = ConfigKinds
      /\ infra.phase = "deleting" /\ infra.lastOp = "Succeeded"
      => ClearingInv
  BY DEF IInv, RequestInv, ConvergenceInv, ClearingInv, ConfigKinds, ActuatorConfigs
<1>2. IInv /\ ClearingInv /\ [Next]_vars => ClearingInv'
  BY ClearingStep
<1>3. ClearingInv => (infra.phase = "gone" => sshKeys = {} /\ network = NoNetwork)
  BY DEF ClearingInv
<1> QED
  BY <1>1, <1>2, <1>3, Converging, ConfigsLast, Invariance, PTL DEF Spec, DeletionLeavesNothing
=============================================================================
