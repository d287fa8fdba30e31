------------------------- MODULE MachineClassProofs -------------------------
(***************************************************************************)
(* Proofs about node templates, for every set of machine classes, whatever *)
(* an older release has left, and for every set of disturbances.           *)
(***************************************************************************)
EXTENDS MachineClasses, TLAPS

\* Every step keeps the types.
LEMMA TypeStep == TypeOK /\ [Next]_vars => TypeOK'
<1> SUFFICES ASSUME TypeOK, [Next]_vars PROVE TypeOK'
  OBVIOUS
<1> USE ConstantsAssumption DEF TypeOK, Workers, Kinds, Steps, HookSteps, DeployFlow, DeleteFlow,
        cluster, weather, delegate
<1>1. CASE StartReconcile
  BY <1>1 DEF StartReconcile, Begin
<1>2. CASE StartDelete
  BY <1>2 DEF StartDelete, Begin
<1>3. CASE ListClasses
  BY <1>3 DEF ListClasses, ListSteps, Lacking
<1>4. CASE \E c \in Classes : PatchClass(c)
  BY <1>4 DEF PatchClass, PatchSteps, Patched
<1>5. CASE ClassesPatched
  BY <1>5 DEF ClassesPatched, PatchSteps
<1>6. CASE ChecksPass
  BY <1>6 DEF ChecksPass
<1>7. CASE ChecksFail
  BY <1>7 DEF ChecksFail, Return, Forget
<1>8. CASE RenderClasses
  BY <1>8 DEF RenderClasses, RenderSteps, Rendered
<1>9. CASE CannotRender
  BY <1>9 DEF CannotRender, Return, Forget
<1>10. CASE ReportSuccess
  BY <1>10 DEF ReportSuccess, Return, Forget
<1>11. CASE Finalize
  BY <1>11 DEF Finalize, Forget
<1>12. CASE WaitTimesOut
  BY <1>12 DEF WaitTimesOut, Return, Forget
<1>13. CASE MCMStep
  BY <1>13 DEF MCMStep, CreateMachines, DeleteMachines, HasTemplate
<1>14. CASE \E c \in Classes : SyncCache(c)
  BY <1>14 DEF SyncCache
<1>15. CASE CallFails
  BY <1>15 DEF CallFails, Return, Forget, Patched, Rendered, RenderSteps
<1>16. CASE Crash
  BY <1>16 DEF Crash, Forget
<1>17. CASE ChecksChange
  BY <1>17 DEF ChecksChange
<1>18. CASE RenderingChanges
  BY <1>18 DEF RenderingChanges
<1>19. CASE ChangePools
  BY <1>19 DEF ChangePools
<1>20. CASE RequestDeletion
  BY <1>20 DEF RequestDeletion
<1>21. CASE CalmDown
  BY <1>21 DEF CalmDown
<1>22. CASE Gone
  BY <1>22 DEF Gone, vars
<1>23. CASE UNCHANGED vars
  BY <1>23 DEF vars
<1> QED
  BY <1>1, <1>2, <1>3, <1>4, <1>5, <1>6, <1>7, <1>8, <1>9, <1>10, <1>11, <1>12, <1>13, <1>14, <1>15, <1>16, <1>17, <1>18, <1>19, <1>20, <1>21, <1>22, <1>23
     DEF Next, RequestStep, Environment

\* The variables keep their types.
THEOREM TypeCorrect == Spec => []TypeOK
<1>1. Init => TypeOK
  <2> SUFFICES ASSUME Init PROVE TypeOK
    OBVIOUS
  <2> USE ConstantsAssumption DEF Init, Kinds
  <2>1. worker \in Workers
    BY DEF Workers
  <2>2. classes \in [Classes -> Kinds]
    <3>1. {"absent"} \cup Leftovers \subseteq Kinds
      OBVIOUS
    <3>2. \A c \in Classes : classes[c] \in {"absent"} \cup Leftovers
      BY DEF Init
    <3> QED
      BY <3>1, <3>2
  <2>3. machines \subseteq Classes /\ target \subseteq Classes
    OBVIOUS
  <2> QED
    BY <2>1, <2>2, <2>3 DEF TypeOK, Steps
<1> QED
  BY <1>1, TypeStep, PTL DEF Spec

\* No step makes a class bare, so that the cache never misses a bare class.
LEMMA CacheInvStep == TypeOK /\ CacheInv /\ [Next]_vars => CacheInv'
<1> SUFFICES ASSUME TypeOK, CacheInv, [Next]_vars PROVE CacheInv'
  OBVIOUS
<1> USE ConstantsAssumption DEF CacheInv, PatchSteps, TypeOK, Workers, Kinds, Steps, HookSteps, DeployFlow, DeleteFlow,
        cluster, weather, delegate
<1>1. CASE StartReconcile
  BY <1>1 DEF StartReconcile, Begin
<1>2. CASE StartDelete
  BY <1>2 DEF StartDelete, Begin
<1>3. CASE ListClasses
  BY <1>3 DEF ListClasses, ListSteps, Lacking
<1>4. CASE \E c \in Classes : PatchClass(c)
  BY <1>4 DEF PatchClass, PatchSteps, Patched
<1>5. CASE ClassesPatched
  BY <1>5 DEF ClassesPatched, PatchSteps
<1>6. CASE ChecksPass
  BY <1>6 DEF ChecksPass
<1>7. CASE ChecksFail
  BY <1>7 DEF ChecksFail, Return, Forget
<1>8. CASE RenderClasses
  BY <1>8 DEF RenderClasses, RenderSteps, Rendered
<1>9. CASE CannotRender
  BY <1>9 DEF CannotRender, Return, Forget
<1>10. CASE ReportSuccess
  BY <1>10 DEF ReportSuccess, Return, Forget
<1>11. CASE Finalize
  BY <1>11 DEF Finalize, Forget
<1>12. CASE WaitTimesOut
  BY <1>12 DEF WaitTimesOut, Return, Forget
<1>13. CASE MCMStep
  BY <1>13 DEF MCMStep, CreateMachines, DeleteMachines, HasTemplate
<1>14. CASE \E c \in Classes : SyncCache(c)
  BY <1>14 DEF SyncCache
<1>15. CASE CallFails
  BY <1>15 DEF CallFails, Return, Forget, Patched, Rendered, RenderSteps
<1>16. CASE Crash
  BY <1>16 DEF Crash, Forget
<1>17. CASE ChecksChange
  BY <1>17 DEF ChecksChange
<1>18. CASE RenderingChanges
  BY <1>18 DEF RenderingChanges
<1>19. CASE ChangePools
  BY <1>19 DEF ChangePools
<1>20. CASE RequestDeletion
  BY <1>20 DEF RequestDeletion
<1>21. CASE CalmDown
  BY <1>21 DEF CalmDown
<1>22. CASE Gone
  BY <1>22 DEF Gone, vars
<1>23. CASE UNCHANGED vars
  BY <1>23 DEF vars
<1> QED
  BY <1>1, <1>2, <1>3, <1>4, <1>5, <1>6, <1>7, <1>8, <1>9, <1>10, <1>11, <1>12, <1>13, <1>14, <1>15, <1>16, <1>17, <1>18, <1>19, <1>20, <1>21, <1>22, <1>23
     DEF Next, RequestStep, Environment

\* Classes are only removed when their machines are gone.
LEMMA MachinesInvStep == TypeOK /\ MachinesInv /\ [Next]_vars => MachinesInv'
<1> SUFFICES ASSUME TypeOK, MachinesInv, [Next]_vars PROVE MachinesInv'
  OBVIOUS
<1> USE ConstantsAssumption DEF MachinesInv, PatchSteps, TypeOK, Workers, Kinds, Steps, HookSteps, DeployFlow, DeleteFlow,
        cluster, weather, delegate
<1>1. CASE StartReconcile
  BY <1>1 DEF StartReconcile, Begin
<1>2. CASE StartDelete
  BY <1>2 DEF StartDelete, Begin
<1>3. CASE ListClasses
  BY <1>3 DEF ListClasses, ListSteps, Lacking
<1>4. CASE \E c \in Classes : PatchClass(c)
  BY <1>4 DEF PatchClass, PatchSteps, Patched
<1>5. CASE ClassesPatched
  BY <1>5 DEF ClassesPatched, PatchSteps
<1>6. CASE ChecksPass
  BY <1>6 DEF ChecksPass
<1>7. CASE ChecksFail
  BY <1>7 DEF ChecksFail, Return, Forget
<1>8. CASE RenderClasses
  BY <1>8 DEF RenderClasses, RenderSteps, Rendered
<1>9. CASE CannotRender
  BY <1>9 DEF CannotRender, Return, Forget
<1>10. CASE ReportSuccess
  BY <1>10 DEF ReportSuccess, Return, Forget
<1>11. CASE Finalize
  BY <1>11 DEF Finalize, Forget
<1>12. CASE WaitTimesOut
  BY <1>12 DEF WaitTimesOut, Return, Forget
<1>13. CASE MCMStep
  BY <1>13 DEF MCMStep, CreateMachines, DeleteMachines, HasTemplate
<1>14. CASE \E c \in Classes : SyncCache(c)
  BY <1>14 DEF SyncCache
<1>15. CASE CallFails
  BY <1>15 DEF CallFails, Return, Forget, Patched, Rendered, RenderSteps
<1>16. CASE Crash
  BY <1>16 DEF Crash, Forget
<1>17. CASE ChecksChange
  BY <1>17 DEF ChecksChange
<1>18. CASE RenderingChanges
  BY <1>18 DEF RenderingChanges
<1>19. CASE ChangePools
  BY <1>19 DEF ChangePools
<1>20. CASE RequestDeletion
  BY <1>20 DEF RequestDeletion
<1>21. CASE CalmDown
  BY <1>21 DEF CalmDown
<1>22. CASE Gone
  BY <1>22 DEF Gone, vars
<1>23. CASE UNCHANGED vars
  BY <1>23 DEF vars
<1> QED
  BY <1>1, <1>2, <1>3, <1>4, <1>5, <1>6, <1>7, <1>8, <1>9, <1>10, <1>11, <1>12, <1>13, <1>14, <1>15, <1>16, <1>17, <1>18, <1>19, <1>20, <1>21, <1>22, <1>23
     DEF Next, RequestStep, Environment

\* The loop comes to every bare class.
LEMMA BackfillInvStep == TypeOK /\ CacheInv /\ BackfillInv /\ RenderInv /\ [Next]_vars => BackfillInv'
<1> SUFFICES ASSUME TypeOK, CacheInv, BackfillInv, RenderInv, [Next]_vars PROVE BackfillInv'
  OBVIOUS
<1> USE ConstantsAssumption DEF CacheInv, BackfillInv, RenderInv, PatchSteps, TypeOK, Workers, Kinds, Steps, HookSteps, DeployFlow, DeleteFlow,
        cluster, weather, delegate
<1>1. CASE StartReconcile
  BY <1>1 DEF StartReconcile, Begin
<1>2. CASE StartDelete
  BY <1>2 DEF StartDelete, Begin
<1>3. CASE ListClasses
  BY <1>3 DEF ListClasses, ListSteps, Lacking
<1>4. CASE \E c \in Classes : PatchClass(c)
  BY <1>4 DEF PatchClass, PatchSteps, Patched
<1>5. CASE ClassesPatched
  BY <1>5 DEF ClassesPatched, PatchSteps
<1>6. CASE ChecksPass
  BY <1>6 DEF ChecksPass
<1>7. CASE ChecksFail
  BY <1>7 DEF ChecksFail, Return, Forget
<1>8. CASE RenderClasses
  <2>1. step' \in {"list", "deleteList"}
    BY <1>8 DEF RenderClasses, RenderSteps
  <2> QED
    BY <2>1
<1>9. CASE CannotRender
  BY <1>9 DEF CannotRender, Return, Forget
<1>10. CASE ReportSuccess
  BY <1>10 DEF ReportSuccess, Return, Forget
<1>11. CASE Finalize
  BY <1>11 DEF Finalize, Forget
<1>12. CASE WaitTimesOut
  BY <1>12 DEF WaitTimesOut, Return, Forget
<1>13. CASE MCMStep
  BY <1>13 DEF MCMStep, CreateMachines, DeleteMachines, HasTemplate
<1>14. CASE \E c \in Classes : SyncCache(c)
  BY <1>14 DEF SyncCache
<1>15. CASE CallFails
  BY <1>15 DEF CallFails, Return, Forget, Patched, Rendered, RenderSteps
<1>16. CASE Crash
  BY <1>16 DEF Crash, Forget
<1>17. CASE ChecksChange
  BY <1>17 DEF ChecksChange
<1>18. CASE RenderingChanges
  BY <1>18 DEF RenderingChanges
<1>19. CASE ChangePools
  BY <1>19 DEF ChangePools
<1>20. CASE RequestDeletion
  BY <1>20 DEF RequestDeletion
<1>21. CASE CalmDown
  BY <1>21 DEF CalmDown
<1>22. CASE Gone
  BY <1>22 DEF Gone, vars
<1>23. CASE UNCHANGED vars
  BY <1>23 DEF vars
<1> QED
  BY <1>1, <1>2, <1>3, <1>4, <1>5, <1>6, <1>7, <1>8, <1>9, <1>10, <1>11, <1>12, <1>13, <1>14, <1>15, <1>16, <1>17, <1>18, <1>19, <1>20, <1>21, <1>22, <1>23
     DEF Next, RequestStep, Environment

\* What a request has rendered stays rendered until its end.
LEMMA RenderInvStep == TypeOK /\ RenderInv /\ [Next]_vars => RenderInv'
<1> SUFFICES ASSUME TypeOK, RenderInv, [Next]_vars PROVE RenderInv'
  OBVIOUS
<1> USE ConstantsAssumption DEF RenderInv, PatchSteps, TypeOK, Workers, Kinds, Steps, HookSteps, DeployFlow, DeleteFlow,
        cluster, weather, delegate
<1>1. CASE StartReconcile
  BY <1>1 DEF StartReconcile, Begin
<1>2. CASE StartDelete
  BY <1>2 DEF StartDelete, Begin
<1>3. CASE ListClasses
  BY <1>3 DEF ListClasses, ListSteps, Lacking
<1>4. CASE \E c \in Classes : PatchClass(c)
  BY <1>4 DEF PatchClass, PatchSteps, Patched
<1>5. CASE ClassesPatched
  BY <1>5 DEF ClassesPatched, PatchSteps
<1>6. CASE ChecksPass
  BY <1>6 DEF ChecksPass
<1>7. CASE ChecksFail
  BY <1>7 DEF ChecksFail, Return, Forget
<1>8. CASE RenderClasses
  BY <1>8 DEF RenderClasses, RenderSteps, Rendered
<1>9. CASE CannotRender
  BY <1>9 DEF CannotRender, Return, Forget
<1>10. CASE ReportSuccess
  BY <1>10 DEF ReportSuccess, Return, Forget
<1>11. CASE Finalize
  BY <1>11 DEF Finalize, Forget
<1>12. CASE WaitTimesOut
  BY <1>12 DEF WaitTimesOut, Return, Forget
<1>13. CASE MCMStep
  BY <1>13 DEF MCMStep, CreateMachines, DeleteMachines, HasTemplate
<1>14. CASE \E c \in Classes : SyncCache(c)
  BY <1>14 DEF SyncCache
<1>15. CASE CallFails
  BY <1>15 DEF CallFails, Return, Forget, Patched, Rendered, RenderSteps
<1>16. CASE Crash
  BY <1>16 DEF Crash, Forget
<1>17. CASE ChecksChange
  BY <1>17 DEF ChecksChange
<1>18. CASE RenderingChanges
  BY <1>18 DEF RenderingChanges
<1>19. CASE ChangePools
  BY <1>19 DEF ChangePools
<1>20. CASE RequestDeletion
  BY <1>20 DEF RequestDeletion
<1>21. CASE CalmDown
  BY <1>21 DEF CalmDown
<1>22. CASE Gone
  BY <1>22 DEF Gone, vars
<1>23. CASE UNCHANGED vars
  BY <1>23 DEF vars
<1> QED
  BY <1>1, <1>2, <1>3, <1>4, <1>5, <1>6, <1>7, <1>8, <1>9, <1>10, <1>11, <1>12, <1>13, <1>14, <1>15, <1>16, <1>17, <1>18, <1>19, <1>20, <1>21, <1>22, <1>23
     DEF Next, RequestStep, Environment

\* A success that was reported stays true until the next request.
LEMMA SuccessIsRenderedStep == TypeOK /\ RenderInv /\ SuccessIsRendered /\ [Next]_vars => SuccessIsRendered'
<1> SUFFICES ASSUME TypeOK, RenderInv, SuccessIsRendered, [Next]_vars PROVE SuccessIsRendered'
  OBVIOUS
<1> USE ConstantsAssumption DEF RenderInv, SuccessIsRendered, PatchSteps, TypeOK, Workers, Kinds, Steps, HookSteps, DeployFlow, DeleteFlow,
        cluster, weather, delegate
<1>1. CASE StartReconcile
  BY <1>1 DEF StartReconcile, Begin
<1>2. CASE StartDelete
  BY <1>2 DEF StartDelete, Begin
<1>3. CASE ListClasses
  BY <1>3 DEF ListClasses, ListSteps, Lacking
<1>4. CASE \E c \in Classes : PatchClass(c)
  BY <1>4 DEF PatchClass, PatchSteps, Patched
<1>5. CASE ClassesPatched
  BY <1>5 DEF ClassesPatched, PatchSteps
<1>6. CASE ChecksPass
  BY <1>6 DEF ChecksPass
<1>7. CASE ChecksFail
  BY <1>7 DEF ChecksFail, Return, Forget
<1>8. CASE RenderClasses
  BY <1>8 DEF RenderClasses, RenderSteps, Rendered
<1>9. CASE CannotRender
  BY <1>9 DEF CannotRender, Return, Forget
<1>10. CASE ReportSuccess
  BY <1>10 DEF ReportSuccess, Return, Forget
<1>11. CASE Finalize
  BY <1>11 DEF Finalize, Forget
<1>12. CASE WaitTimesOut
  BY <1>12 DEF WaitTimesOut, Return, Forget
<1>13. CASE MCMStep
  BY <1>13 DEF MCMStep, CreateMachines, DeleteMachines, HasTemplate
<1>14. CASE \E c \in Classes : SyncCache(c)
  BY <1>14 DEF SyncCache
<1>15. CASE CallFails
  BY <1>15 DEF CallFails, Return, Forget, Patched, Rendered, RenderSteps
<1>16. CASE Crash
  BY <1>16 DEF Crash, Forget
<1>17. CASE ChecksChange
  BY <1>17 DEF ChecksChange
<1>18. CASE RenderingChanges
  BY <1>18 DEF RenderingChanges
<1>19. CASE ChangePools
  BY <1>19 DEF ChangePools
<1>20. CASE RequestDeletion
  BY <1>20 DEF RequestDeletion
<1>21. CASE CalmDown
  BY <1>21 DEF CalmDown
<1>22. CASE Gone
  BY <1>22 DEF Gone, vars
<1>23. CASE UNCHANGED vars
  BY <1>23 DEF vars
<1> QED
  BY <1>1, <1>2, <1>3, <1>4, <1>5, <1>6, <1>7, <1>8, <1>9, <1>10, <1>11, <1>12, <1>13, <1>14, <1>15, <1>16, <1>17, <1>18, <1>19, <1>20, <1>21, <1>22, <1>23
     DEF Next, RequestStep, Environment

\* Every reachable state satisfies the inductive invariant.
THEOREM Invariance == Spec => []IInv
<1>1. Init => CacheInv /\ MachinesInv /\ BackfillInv /\ RenderInv /\ SuccessIsRendered
  <2> SUFFICES ASSUME Init PROVE CacheInv /\ MachinesInv /\ BackfillInv /\ RenderInv /\ SuccessIsRendered
    OBVIOUS
  <2>1. step = "idle" /\ generated = {} /\ todo = {} /\ worker.lastOp = "None" /\ cache = classes
    BY DEF Init
  <2>2. MachinesInv
    BY DEF Init, MachinesInv
  <2> QED
    BY <2>1, <2>2 DEF CacheInv, BackfillInv, RenderInv, SuccessIsRendered, PatchSteps
<1>2. IInv /\ [Next]_vars => IInv'
  BY TypeStep, CacheInvStep, MachinesInvStep, BackfillInvStep, RenderInvStep,
     SuccessIsRenderedStep DEF IInv
<1>3. Init /\ TypeOK => IInv
  BY <1>1 DEF IInv
<1> QED
  BY <1>2, <1>3, TypeCorrect, PTL DEF Spec

\* A request only waits for machines when every class with machines has a
\* template, or is one that an older release has left without its server type
\* or zone.
THEOREM WaitsForTemplates == Spec => []MCMWorksWhenAwaited
<1>1. IInv => MCMWorksWhenAwaited
  BY DEF IInv, TypeOK, Kinds, MachinesInv, BackfillInv, MCMWorksWhenAwaited, HasTemplate
<1> QED
  BY <1>1, Invariance, PTL

\* After a success the classes in use are as rendered: the stale list of a
\* cache never makes the backfill overwrite them.
THEOREM SuccessRendered == Spec => []SuccessIsRendered
<1>1. IInv => SuccessIsRendered
  BY DEF IInv
<1> QED
  BY <1>1, Invariance, PTL
=============================================================================
