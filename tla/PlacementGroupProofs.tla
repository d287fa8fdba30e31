------------------------ MODULE PlacementGroupProofs ------------------------
(***************************************************************************)
(* Proofs about the worker delegate and its placement groups, for every    *)
(* set of pools, of group IDs and of disturbances.                         *)
(***************************************************************************)
EXTENDS PlacementGroups, TLAPS

\* Every step keeps the types.
LEMMA TypeStep == TypeOK /\ [Next]_vars => TypeOK'
<1> SUFFICES ASSUME TypeOK, [Next]_vars PROVE TypeOK'
  OBVIOUS
<1> USE ConstantsAssumption DEF TypeOK, Workers, Requests, Steps, GroupOf, NoGroups, PoolSpecs,
        NoPools, PoolKinds, NoRequest, cluster, delegate
<1>1. CASE StartReconcile
  BY <1>1 DEF StartReconcile, Begin
<1>2. CASE Prepare
  BY <1>2 DEF Prepare
<1>3. CASE \E p \in Pools : AdoptGroup(p)
  BY <1>3 DEF AdoptGroup
<1>4. CASE \E p \in Pools : CreateGroup(p)
  BY <1>4 DEF CreateGroup, Add, FreshGroupIDs
<1>5. CASE GroupsEnsured
  BY <1>5 DEF GroupsEnsured
<1>6. CASE PatchGroups
  BY <1>6 DEF PatchGroups, RecordGroups, NewStatus
<1>7. CASE UpdateMachineImagesStatus
  BY <1>7 DEF UpdateMachineImagesStatus
<1>8. CASE ReportSuccess
  BY <1>8 DEF ReportSuccess, Return, Forget
<1>9. CASE DeployMachineClasses
  BY <1>9 DEF DeployMachineClasses, Rendered
<1>10. CASE ImageNotFound
  BY <1>10 DEF ImageNotFound, Return, Forget
<1>11. CASE StartDelete
  BY <1>11 DEF StartDelete, Begin
<1>12. CASE MachinesGone
  BY <1>12 DEF MachinesGone
<1>13. CASE \E p \in Pools : DeleteGroup(p)
  BY <1>13 DEF DeleteGroup, Deleted
<1>14. CASE GroupsDeleted
  BY <1>14 DEF GroupsDeleted
<1>15. CASE Finalize
  BY <1>15 DEF Finalize, Forget
<1>16. CASE ReconcileFails
  BY <1>16 DEF ReconcileFails, Return, Forget
<1>17. CASE AnswerLost
  BY <1>17 DEF AnswerLost, Forget, Add, FreshGroupIDs, RecordGroups, NewStatus, Rendered
<1>18. CASE DeleteFails
  BY <1>18 DEF DeleteFails, Return, Forget, Deleted
<1>19. CASE Crash
  BY <1>19 DEF Crash, Forget
<1>20. CASE ChangePools
  BY <1>20 DEF ChangePools
<1>21. CASE RemoveImage
  BY <1>21 DEF RemoveImage
<1>22. CASE MigrateToNewSeed
  BY <1>22 DEF MigrateToNewSeed
<1>23. CASE RequestDeletion
  BY <1>23 DEF RequestDeletion
<1>24. CASE CalmDown
  BY <1>24 DEF CalmDown
<1>25. CASE Gone
  BY <1>25 DEF Gone, vars
<1>26. CASE UNCHANGED vars
  BY <1>26 DEF vars
<1> QED
  BY <1>1, <1>2, <1>3, <1>4, <1>5, <1>6, <1>7, <1>8, <1>9, <1>10, <1>11, <1>12, <1>13, <1>14, <1>15, <1>16, <1>17, <1>18, <1>19, <1>20, <1>21, <1>22, <1>23, <1>24, <1>25, <1>26
     DEF Next, RequestStep, ReconcileStep, DeleteStep, Failure, Environment

\* The variables keep their types; in particular the status, the machine
\* classes and the loop of EnsurePlacementGroups only hold IDs of groups.
THEOREM TypeCorrect == Spec => []TypeOK
<1>1. Init => TypeOK
  <2> SUFFICES ASSUME Init PROVE TypeOK
    OBVIOUS
  <2> USE ConstantsAssumption DEF Init, GroupOf, NoGroups, PoolSpecs, NoPools, PoolKinds
  <2>1. worker \in Workers
    BY DEF Workers
  <2>2. request \in Requests
    BY DEF Requests, NoRequest
  <2> QED
    BY <2>1, <2>2 DEF TypeOK, Steps
<1> QED
  BY <1>1, TypeStep, PTL DEF Spec

\* A request keeps to its flow.
LEMMA StepInvStep == IInv /\ TypeOK' /\ [Next]_vars => StepInv'
<1> SUFFICES ASSUME IInv, TypeOK', [Next]_vars PROVE StepInv'
  OBVIOUS
<1>0. TypeOK /\ StepInv /\ UseInv /\ ProgressInv /\ PlacedAsRequested
  BY DEF IInv
<1> USE ConstantsAssumption DEF StepInv, UseInv, InUse, Exist, ProgressInv, ReconcileSteps, PlacedAsRequested,
        TypeOK, Workers, Requests, Steps, GroupOf, NoGroups, PoolSpecs, NoPools, PoolKinds,
        NoRequest, cluster, delegate
<1>1. CASE StartReconcile
  BY <1>0, <1>1 DEF StartReconcile, Begin
<1>2. CASE Prepare
  BY <1>0, <1>2 DEF Prepare
<1>3. CASE \E p \in Pools : AdoptGroup(p)
  BY <1>0, <1>3 DEF AdoptGroup
<1>4. CASE \E p \in Pools : CreateGroup(p)
  BY <1>0, <1>4 DEF CreateGroup, Add, FreshGroupIDs
<1>5. CASE GroupsEnsured
  BY <1>0, <1>5 DEF GroupsEnsured
<1>6. CASE PatchGroups
  BY <1>0, <1>6 DEF PatchGroups, RecordGroups, NewStatus
<1>7. CASE UpdateMachineImagesStatus
  BY <1>0, <1>7 DEF UpdateMachineImagesStatus
<1>8. CASE ReportSuccess
  BY <1>0, <1>8 DEF ReportSuccess, Return, Forget
<1>9. CASE DeployMachineClasses
  BY <1>0, <1>9 DEF DeployMachineClasses, Rendered
<1>10. CASE ImageNotFound
  BY <1>0, <1>10 DEF ImageNotFound, Return, Forget
<1>11. CASE StartDelete
  BY <1>0, <1>11 DEF StartDelete, Begin
<1>12. CASE MachinesGone
  BY <1>0, <1>12 DEF MachinesGone
<1>13. CASE \E p \in Pools : DeleteGroup(p)
  BY <1>0, <1>13 DEF DeleteGroup, Deleted
<1>14. CASE GroupsDeleted
  BY <1>0, <1>14 DEF GroupsDeleted
<1>15. CASE Finalize
  BY <1>0, <1>15 DEF Finalize, Forget
<1>16. CASE ReconcileFails
  BY <1>0, <1>16 DEF ReconcileFails, Return, Forget
<1>17. CASE AnswerLost
  BY <1>0, <1>17 DEF AnswerLost, Forget, Add, FreshGroupIDs, RecordGroups, NewStatus, Rendered
<1>18. CASE DeleteFails
  BY <1>0, <1>18 DEF DeleteFails, Return, Forget, Deleted
<1>19. CASE Crash
  BY <1>0, <1>19 DEF Crash, Forget
<1>20. CASE ChangePools
  BY <1>0, <1>20 DEF ChangePools
<1>21. CASE RemoveImage
  BY <1>0, <1>21 DEF RemoveImage
<1>22. CASE MigrateToNewSeed
  BY <1>0, <1>22 DEF MigrateToNewSeed
<1>23. CASE RequestDeletion
  BY <1>0, <1>23 DEF RequestDeletion
<1>24. CASE CalmDown
  BY <1>0, <1>24 DEF CalmDown
<1>25. CASE Gone
  BY <1>0, <1>25 DEF Gone, vars
<1>26. CASE UNCHANGED vars
  BY <1>0, <1>26 DEF vars
<1> QED
  BY <1>1, <1>2, <1>3, <1>4, <1>5, <1>6, <1>7, <1>8, <1>9, <1>10, <1>11, <1>12, <1>13, <1>14, <1>15, <1>16, <1>17, <1>18, <1>19, <1>20, <1>21, <1>22, <1>23, <1>24, <1>25, <1>26
     DEF Next, RequestStep, ReconcileStep, DeleteStep, Failure, Environment

\* No step takes a group away, or brings a stale ID back, while groups are in use.
LEMMA UseInvStep == IInv /\ TypeOK' /\ [Next]_vars => UseInv'
<1> SUFFICES ASSUME IInv, TypeOK', [Next]_vars PROVE UseInv'
  OBVIOUS
<1>0. TypeOK /\ StepInv /\ UseInv /\ ProgressInv /\ PlacedAsRequested
  BY DEF IInv
<1> USE ConstantsAssumption DEF StepInv, UseInv, InUse, Exist, ProgressInv, ReconcileSteps, PlacedAsRequested,
        TypeOK, Workers, Requests, Steps, GroupOf, NoGroups, PoolSpecs, NoPools, PoolKinds,
        NoRequest, cluster, delegate
<1>1. CASE StartReconcile
  BY <1>0, <1>1 DEF StartReconcile, Begin
<1>2. CASE Prepare
  BY <1>0, <1>2 DEF Prepare
<1>3. CASE \E p \in Pools : AdoptGroup(p)
  BY <1>0, <1>3 DEF AdoptGroup
<1>4. CASE \E p \in Pools : CreateGroup(p)
  BY <1>0, <1>4 DEF CreateGroup, Add, FreshGroupIDs
<1>5. CASE GroupsEnsured
  BY <1>0, <1>5 DEF GroupsEnsured
<1>6. CASE PatchGroups
  BY <1>0, <1>6 DEF PatchGroups, RecordGroups, NewStatus
<1>7. CASE UpdateMachineImagesStatus
  BY <1>0, <1>7 DEF UpdateMachineImagesStatus
<1>8. CASE ReportSuccess
  BY <1>0, <1>8 DEF ReportSuccess, Return, Forget
<1>9. CASE DeployMachineClasses
  BY <1>0, <1>9 DEF DeployMachineClasses, Rendered
<1>10. CASE ImageNotFound
  BY <1>0, <1>10 DEF ImageNotFound, Return, Forget
<1>11. CASE StartDelete
  BY <1>0, <1>11 DEF StartDelete, Begin
<1>12. CASE MachinesGone
  BY <1>0, <1>12 DEF MachinesGone
<1>13. CASE \E p \in Pools : DeleteGroup(p)
  BY <1>0, <1>13 DEF DeleteGroup, Deleted
<1>14. CASE GroupsDeleted
  BY <1>0, <1>14 DEF GroupsDeleted
<1>15. CASE Finalize
  BY <1>0, <1>15 DEF Finalize, Forget
<1>16. CASE ReconcileFails
  BY <1>0, <1>16 DEF ReconcileFails, Return, Forget
<1>17. CASE AnswerLost
  BY <1>0, <1>17 DEF AnswerLost, Forget, Add, FreshGroupIDs, RecordGroups, NewStatus, Rendered
<1>18. CASE DeleteFails
  BY <1>0, <1>18 DEF DeleteFails, Return, Forget, Deleted
<1>19. CASE Crash
  BY <1>0, <1>19 DEF Crash, Forget
<1>20. CASE ChangePools
  BY <1>0, <1>20 DEF ChangePools
<1>21. CASE RemoveImage
  BY <1>0, <1>21 DEF RemoveImage
<1>22. CASE MigrateToNewSeed
  BY <1>0, <1>22 DEF MigrateToNewSeed
<1>23. CASE RequestDeletion
  BY <1>0, <1>23 DEF RequestDeletion
<1>24. CASE CalmDown
  BY <1>0, <1>24 DEF CalmDown
<1>25. CASE Gone
  BY <1>0, <1>25 DEF Gone, vars
<1>26. CASE UNCHANGED vars
  BY <1>0, <1>26 DEF vars
<1> QED
  BY <1>1, <1>2, <1>3, <1>4, <1>5, <1>6, <1>7, <1>8, <1>9, <1>10, <1>11, <1>12, <1>13, <1>14, <1>15, <1>16, <1>17, <1>18, <1>19, <1>20, <1>21, <1>22, <1>23, <1>24, <1>25, <1>26
     DEF Next, RequestStep, ReconcileStep, DeleteStep, Failure, Environment

\* The groups found are recorded, and then rendered.
LEMMA ProgressInvStep == IInv /\ TypeOK' /\ [Next]_vars => ProgressInv'
<1> SUFFICES ASSUME IInv, TypeOK', [Next]_vars PROVE ProgressInv'
  OBVIOUS
<1>0. TypeOK /\ StepInv /\ UseInv /\ ProgressInv /\ PlacedAsRequested
  BY DEF IInv
<1> USE ConstantsAssumption DEF StepInv, UseInv, InUse, Exist, ProgressInv, ReconcileSteps, PlacedAsRequested,
        TypeOK, Workers, Requests, Steps, GroupOf, NoGroups, PoolSpecs, NoPools, PoolKinds,
        NoRequest, cluster, delegate
<1>1. CASE StartReconcile
  BY <1>0, <1>1 DEF StartReconcile, Begin
<1>2. CASE Prepare
  BY <1>0, <1>2 DEF Prepare
<1>3. CASE \E p \in Pools : AdoptGroup(p)
  BY <1>0, <1>3 DEF AdoptGroup
<1>4. CASE \E p \in Pools : CreateGroup(p)
  BY <1>0, <1>4 DEF CreateGroup, Add, FreshGroupIDs
<1>5. CASE GroupsEnsured
  BY <1>0, <1>5 DEF GroupsEnsured
<1>6. CASE PatchGroups
  BY <1>0, <1>6 DEF PatchGroups, RecordGroups, NewStatus
<1>7. CASE UpdateMachineImagesStatus
  BY <1>0, <1>7 DEF UpdateMachineImagesStatus
<1>8. CASE ReportSuccess
  BY <1>0, <1>8 DEF ReportSuccess, Return, Forget
<1>9. CASE DeployMachineClasses
  BY <1>0, <1>9 DEF DeployMachineClasses, Rendered
<1>10. CASE ImageNotFound
  BY <1>0, <1>10 DEF ImageNotFound, Return, Forget
<1>11. CASE StartDelete
  BY <1>0, <1>11 DEF StartDelete, Begin
<1>12. CASE MachinesGone
  BY <1>0, <1>12 DEF MachinesGone
<1>13. CASE \E p \in Pools : DeleteGroup(p)
  BY <1>0, <1>13 DEF DeleteGroup, Deleted
<1>14. CASE GroupsDeleted
  BY <1>0, <1>14 DEF GroupsDeleted
<1>15. CASE Finalize
  BY <1>0, <1>15 DEF Finalize, Forget
<1>16. CASE ReconcileFails
  BY <1>0, <1>16 DEF ReconcileFails, Return, Forget
<1>17. CASE AnswerLost
  BY <1>0, <1>17 DEF AnswerLost, Forget, Add, FreshGroupIDs, RecordGroups, NewStatus, Rendered
<1>18. CASE DeleteFails
  BY <1>0, <1>18 DEF DeleteFails, Return, Forget, Deleted
<1>19. CASE Crash
  BY <1>0, <1>19 DEF Crash, Forget
<1>20. CASE ChangePools
  BY <1>0, <1>20 DEF ChangePools
<1>21. CASE RemoveImage
  BY <1>0, <1>21 DEF RemoveImage
<1>22. CASE MigrateToNewSeed
  BY <1>0, <1>22 DEF MigrateToNewSeed
<1>23. CASE RequestDeletion
  BY <1>0, <1>23 DEF RequestDeletion
<1>24. CASE CalmDown
  BY <1>0, <1>24 DEF CalmDown
<1>25. CASE Gone
  BY <1>0, <1>25 DEF Gone, vars
<1>26. CASE UNCHANGED vars
  BY <1>0, <1>26 DEF vars
<1> QED
  BY <1>1, <1>2, <1>3, <1>4, <1>5, <1>6, <1>7, <1>8, <1>9, <1>10, <1>11, <1>12, <1>13, <1>14, <1>15, <1>16, <1>17, <1>18, <1>19, <1>20, <1>21, <1>22, <1>23, <1>24, <1>25, <1>26
     DEF Next, RequestStep, ReconcileStep, DeleteStep, Failure, Environment

\* A success that was reported stays true until the next request.
LEMMA PlacedAsRequestedStep == IInv /\ TypeOK' /\ [Next]_vars => PlacedAsRequested'
<1> SUFFICES ASSUME IInv, TypeOK', [Next]_vars PROVE PlacedAsRequested'
  OBVIOUS
<1>0. TypeOK /\ StepInv /\ UseInv /\ ProgressInv /\ PlacedAsRequested
  BY DEF IInv
<1> USE ConstantsAssumption DEF StepInv, UseInv, InUse, Exist, ProgressInv, ReconcileSteps, PlacedAsRequested,
        TypeOK, Workers, Requests, Steps, GroupOf, NoGroups, PoolSpecs, NoPools, PoolKinds,
        NoRequest, cluster, delegate
<1>1. CASE StartReconcile
  BY <1>0, <1>1 DEF StartReconcile, Begin
<1>2. CASE Prepare
  BY <1>0, <1>2 DEF Prepare
<1>3. CASE \E p \in Pools : AdoptGroup(p)
  BY <1>0, <1>3 DEF AdoptGroup
<1>4. CASE \E p \in Pools : CreateGroup(p)
  BY <1>0, <1>4 DEF CreateGroup, Add, FreshGroupIDs
<1>5. CASE GroupsEnsured
  BY <1>0, <1>5 DEF GroupsEnsured
<1>6. CASE PatchGroups
  BY <1>0, <1>6 DEF PatchGroups, RecordGroups, NewStatus
<1>7. CASE UpdateMachineImagesStatus
  BY <1>0, <1>7 DEF UpdateMachineImagesStatus
<1>8. CASE ReportSuccess
  BY <1>0, <1>8 DEF ReportSuccess, Return, Forget
<1>9. CASE DeployMachineClasses
  BY <1>0, <1>9 DEF DeployMachineClasses, Rendered
<1>10. CASE ImageNotFound
  BY <1>0, <1>10 DEF ImageNotFound, Return, Forget
<1>11. CASE StartDelete
  BY <1>0, <1>11 DEF StartDelete, Begin
<1>12. CASE MachinesGone
  BY <1>0, <1>12 DEF MachinesGone
<1>13. CASE \E p \in Pools : DeleteGroup(p)
  BY <1>0, <1>13 DEF DeleteGroup, Deleted
<1>14. CASE GroupsDeleted
  BY <1>0, <1>14 DEF GroupsDeleted
<1>15. CASE Finalize
  BY <1>0, <1>15 DEF Finalize, Forget
<1>16. CASE ReconcileFails
  BY <1>0, <1>16 DEF ReconcileFails, Return, Forget
<1>17. CASE AnswerLost
  BY <1>0, <1>17 DEF AnswerLost, Forget, Add, FreshGroupIDs, RecordGroups, NewStatus, Rendered
<1>18. CASE DeleteFails
  BY <1>0, <1>18 DEF DeleteFails, Return, Forget, Deleted
<1>19. CASE Crash
  BY <1>0, <1>19 DEF Crash, Forget
<1>20. CASE ChangePools
  BY <1>0, <1>20 DEF ChangePools
<1>21. CASE RemoveImage
  BY <1>0, <1>21 DEF RemoveImage
<1>22. CASE MigrateToNewSeed
  BY <1>0, <1>22 DEF MigrateToNewSeed
<1>23. CASE RequestDeletion
  BY <1>0, <1>23 DEF RequestDeletion
<1>24. CASE CalmDown
  BY <1>0, <1>24 DEF CalmDown
<1>25. CASE Gone
  BY <1>0, <1>25 DEF Gone, vars
<1>26. CASE UNCHANGED vars
  BY <1>0, <1>26 DEF vars
<1> QED
  BY <1>1, <1>2, <1>3, <1>4, <1>5, <1>6, <1>7, <1>8, <1>9, <1>10, <1>11, <1>12, <1>13, <1>14, <1>15, <1>16, <1>17, <1>18, <1>19, <1>20, <1>21, <1>22, <1>23, <1>24, <1>25, <1>26
     DEF Next, RequestStep, ReconcileStep, DeleteStep, Failure, Environment

\* Every reachable state satisfies the inductive invariant.
THEOREM Invariance == Spec => []IInv
<1>1. Init => StepInv /\ UseInv /\ ProgressInv /\ PlacedAsRequested
  BY DEF Init, StepInv, UseInv, Exist, NoGroups, NoRequest, ProgressInv, ReconcileSteps,
     PlacedAsRequested
<1>2. IInv /\ [Next]_vars => IInv'
  <2>1. IInv => TypeOK
    BY DEF IInv
  <2> QED
    BY <2>1, TypeStep, StepInvStep, UseInvStep, ProgressInvStep, PlacedAsRequestedStep DEF IInv
<1>3. Init /\ TypeOK => IInv
  BY <1>1 DEF IInv
<1> QED
  BY <1>2, <1>3, TypeCorrect, PTL DEF Spec

\* As long as there can be machines, every group that a machine class refers to
\* exists, whatever fails, is lost or is retried, and whenever the Worker is
\* deleted, its pools change or its control plane moves.
THEOREM GroupsKept == Spec => []ClassesReferToGroups
<1>1. IInv => ClassesReferToGroups
  BY DEF IInv, UseInv, InUse, Exist, ClassesReferToGroups
<1> QED
  BY <1>1, Invariance, PTL

\* A success means that the machine classes place as the pools of the spec say,
\* and that the provider status records all of their groups.
THEOREM SuccessPlaces == Spec => []PlacedAsRequested
<1>1. IInv => PlacedAsRequested
  BY DEF IInv
<1> QED
  BY <1>1, Invariance, PTL

-----------------------------------------------------------------------------
(* The groups that a deletion has to find.                                 *)

\* What a success has recorded stays recorded until the next request.
LEMMA RecordedStep == IInv /\ RecordedInv /\ [Next]_vars => RecordedInv'
<1> SUFFICES ASSUME IInv, RecordedInv, [Next]_vars PROVE RecordedInv'
  OBVIOUS
<1>0. TypeOK /\ StepInv
  BY DEF IInv
<1>a. step = "report" => \A p \in Pools :
        request.pools[p] = "spread" => worker.status[p] # NoGroup /\ groups[p] = worker.status[p]
  BY <1>0 DEF IInv, ProgressInv, UseInv, InUse, Exist, ReconcileSteps
<1> USE <1>0, <1>a DEF RecordedInv, DeleteSteps, StepInv, TypeOK, Workers, Requests, GroupOf, PoolSpecs, cluster, delegate
<1>1. CASE StartReconcile
  BY <1>1 DEF StartReconcile, Begin
<1>2. CASE Prepare
  BY <1>2 DEF Prepare
<1>3. CASE \E p \in Pools : AdoptGroup(p)
  BY <1>3 DEF AdoptGroup
<1>4. CASE \E p \in Pools : CreateGroup(p)
  BY <1>4 DEF CreateGroup, Add
<1>5. CASE GroupsEnsured
  BY <1>5 DEF GroupsEnsured
<1>6. CASE PatchGroups
  BY <1>6 DEF PatchGroups, RecordGroups
<1>7. CASE UpdateMachineImagesStatus
  BY <1>7 DEF UpdateMachineImagesStatus
<1>8. CASE ReportSuccess
  BY <1>8 DEF ReportSuccess, Return, Forget
<1>9. CASE DeployMachineClasses
  BY <1>9 DEF DeployMachineClasses
<1>10. CASE ImageNotFound
  BY <1>10 DEF ImageNotFound, Return, Forget
<1>11. CASE StartDelete
  BY <1>11 DEF StartDelete, Begin
<1>12. CASE MachinesGone
  BY <1>12 DEF MachinesGone
<1>13. CASE \E p \in Pools : DeleteGroup(p)
  BY <1>13 DEF DeleteGroup, Deleted
<1>14. CASE GroupsDeleted
  BY <1>14 DEF GroupsDeleted
<1>15. CASE Finalize
  BY <1>15 DEF Finalize, Forget
<1>16. CASE ReconcileFails
  BY <1>16 DEF ReconcileFails, Return, Forget
<1>17. CASE AnswerLost
  BY <1>17 DEF AnswerLost, Forget, RecordGroups
<1>18. CASE DeleteFails
  BY <1>18 DEF DeleteFails, Return, Forget, Deleted
<1>19. CASE Crash
  BY <1>19 DEF Crash, Forget
<1>20. CASE ChangePools
  BY <1>20 DEF ChangePools
<1>21. CASE RemoveImage
  BY <1>21 DEF RemoveImage
<1>22. CASE MigrateToNewSeed
  BY <1>22 DEF MigrateToNewSeed
<1>23. CASE RequestDeletion
  BY <1>23 DEF RequestDeletion
<1>24. CASE CalmDown
  BY <1>24 DEF CalmDown
<1>25. CASE Gone
  BY <1>25 DEF Gone, vars
<1>26. CASE UNCHANGED vars
  BY <1>26 DEF vars
<1> QED
  BY <1>1, <1>2, <1>3, <1>4, <1>5, <1>6, <1>7, <1>8, <1>9, <1>10, <1>11, <1>12, <1>13, <1>14, <1>15, <1>16, <1>17, <1>18, <1>19, <1>20, <1>21, <1>22, <1>23, <1>24, <1>25, <1>26
     DEF Next, RequestStep, ReconcileStep, DeleteStep, Failure, Environment

\* A deletion that knows the groups of all pools goes on knowing them, and those
\* it has deleted stay away.
LEMMA ClearingStep == IInv /\ ClearingInv /\ [Next]_vars => ClearingInv'
<1> SUFFICES ASSUME IInv, ClearingInv, [Next]_vars PROVE ClearingInv'
  OBVIOUS
<1>0. TypeOK /\ StepInv
  BY DEF IInv
<1> USE <1>0 DEF ClearingInv, DeleteSteps, StepInv, TypeOK, Workers, Requests, GroupOf, PoolSpecs, cluster, delegate
<1>1. CASE StartReconcile
  BY <1>1 DEF StartReconcile, Begin
<1>2. CASE Prepare
  BY <1>2 DEF Prepare
<1>3. CASE \E p \in Pools : AdoptGroup(p)
  BY <1>3 DEF AdoptGroup
<1>4. CASE \E p \in Pools : CreateGroup(p)
  BY <1>4 DEF CreateGroup, Add
<1>5. CASE GroupsEnsured
  BY <1>5 DEF GroupsEnsured
<1>6. CASE PatchGroups
  BY <1>6 DEF PatchGroups, RecordGroups
<1>7. CASE UpdateMachineImagesStatus
  BY <1>7 DEF UpdateMachineImagesStatus
<1>8. CASE ReportSuccess
  BY <1>8 DEF ReportSuccess, Return, Forget
<1>9. CASE DeployMachineClasses
  BY <1>9 DEF DeployMachineClasses
<1>10. CASE ImageNotFound
  BY <1>10 DEF ImageNotFound, Return, Forget
<1>11. CASE StartDelete
  BY <1>11 DEF StartDelete, Begin
<1>12. CASE MachinesGone
  BY <1>12 DEF MachinesGone
<1>13. CASE \E p \in Pools : DeleteGroup(p)
  BY <1>13 DEF DeleteGroup, Deleted
<1>14. CASE GroupsDeleted
  BY <1>14 DEF GroupsDeleted
<1>15. CASE Finalize
  BY <1>15 DEF Finalize, Forget
<1>16. CASE ReconcileFails
  BY <1>16 DEF ReconcileFails, Return, Forget
<1>17. CASE AnswerLost
  BY <1>17 DEF AnswerLost, Forget, RecordGroups
<1>18. CASE DeleteFails
  BY <1>18 DEF DeleteFails, Return, Forget, Deleted
<1>19. CASE Crash
  BY <1>19 DEF Crash, Forget
<1>20. CASE ChangePools
  BY <1>20 DEF ChangePools
<1>21. CASE RemoveImage
  BY <1>21 DEF RemoveImage
<1>22. CASE MigrateToNewSeed
  BY <1>22 DEF MigrateToNewSeed
<1>23. CASE RequestDeletion
  BY <1>23 DEF RequestDeletion
<1>24. CASE CalmDown
  BY <1>24 DEF CalmDown
<1>25. CASE Gone
  BY <1>25 DEF Gone, vars
<1>26. CASE UNCHANGED vars
  BY <1>26 DEF vars
<1> QED
  BY <1>1, <1>2, <1>3, <1>4, <1>5, <1>6, <1>7, <1>8, <1>9, <1>10, <1>11, <1>12, <1>13, <1>14, <1>15, <1>16, <1>17, <1>18, <1>19, <1>20, <1>21, <1>22, <1>23, <1>24, <1>25, <1>26
     DEF Next, RequestStep, ReconcileStep, DeleteStep, Failure, Environment

\* A deletion after a success leaves no group of a pool, whatever fails, crashes or
\* is lost: PostDeleteHook has a recorded ID for each.
THEOREM DeletionClears == Spec => DeletionLeavesNoGroup
<1>1. Init => RecordedInv
  BY DEF Init, RecordedInv
<1>2. IInv /\ RecordedInv /\ [Next]_vars => RecordedInv'
  BY RecordedStep
<1>3. /\ IInv /\ RecordedInv
      /\ worker.phase = "deleting" /\ worker.lastOp = "Succeeded" /\ applied = worker.pools
      => ClearingInv
  BY DEF IInv, StepInv, RecordedInv, ClearingInv, DeleteSteps
<1>4. IInv /\ ClearingInv /\ [Next]_vars => ClearingInv'
  BY ClearingStep
<1>5. ClearingInv =>
        (worker.phase = "gone" => \A p \in Pools : applied[p] = "spread" => groups[p] = NoGroup)
  BY DEF ClearingInv
<1> QED
  BY <1>1, <1>2, <1>3, <1>4, <1>5, Invariance, PTL DEF Spec, DeletionLeavesNoGroup
=============================================================================
