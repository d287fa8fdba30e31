------------------------- MODULE ControlPlaneProofs -------------------------
(***************************************************************************)
(* Proofs about the control plane, for every number of versions of the     *)
(* secret and whatever keys they have, every set of specs, and every set   *)
(* of disturbances.                                                        *)
(***************************************************************************)
EXTENDS ControlPlane, TLAPS

\* The values of the charts, for a spec with a ControlPlaneConfig: their types,
\* and the version of the data that they carry.
LEMMA Values ==
  ASSUME NEW s \in AllSpecs, s.config # Nothing, NEW v \in Versions
  PROVE  /\ ConfigValues(s) \in ConfigMaps
         /\ CCMTemplate(s, v) \in CCMTemplates /\ CCMTemplate(s, v).secret = v
         /\ CSITemplate(s, v) \in CSITemplates /\ CSITemplate(s, v).secret = v
<1>1. s.config \in Zones \cup {NoZone}
  BY DEF AllSpecs
<1>2. Region(s.config) \in Regions
  BY <1>1 DEF Region, Regions
<1>3. s.network \in Networks \cup {Nothing}
  BY DEF AllSpecs
<1> QED
  BY <1>1, <1>2, <1>3
     DEF ConfigValues, ConfigMaps, CCMTemplate, CCMTemplates, CSITemplate, CSITemplates

\* The token for a component
LEMMA TokenType ==
  ASSUME NEW own \in TokenKeys, NEW v \in Versions
  PROVE  TokenFor(own, v) \in Tokens /\ TokenFor(own, v).version = v
BY DEF TokenFor, Tokens, TokenKeys

\* A wanted deployment, at the step that applies it
LEMMA WantedType ==
  ASSUME job \in Jobs, job.spec.config # Nothing
  PROVE  /\ WantedCCM \in Deployments(CCMTemplates)
         /\ WantedCSI \in Deployments(CSITemplates)
         /\ WantedCCM # Nothing /\ WantedCSI # Nothing
         /\ WantedCCM.template = CCMTemplate(job.spec, job.secret)
         /\ WantedCSI.template = CSITemplate(job.spec, job.secret)
         /\ WantedCCM.template.secret = job.secret
         /\ WantedCSI.template.secret = job.secret
         /\ ~job.scaledDown => WantedCCM.replicas = 1 /\ WantedCSI.replicas = 1
<1>1. job.spec \in AllSpecs /\ job.secret \in Versions
  BY DEF Jobs
<1>2. Replicas(job) \in {0, 1} /\ (~job.scaledDown => Replicas(job) = 1)
  BY DEF Replicas
<1> QED
  BY <1>1, <1>2, Values, NothingAssumption DEF WantedCCM, WantedCSI, Deployment, Deployments

\* Versions, wherever they are kept
VersionsAreNumbers ==
    /\ secret \in Int /\ cached \in Int
    /\ job # Nothing => job.secret \in Int
    /\ csiSecret # Nothing => csiSecret.version \in Int
    /\ ccm # Nothing => ccm.template.secret \in Int
    /\ csi # Nothing => csi.template.secret \in Int
    /\ ccmPod # Nothing => ccmPod.template.secret \in Int /\ ccmPod.token.version \in Int
    /\ csiPod # Nothing => csiPod.template.secret \in Int /\ csiPod.token.version \in Int

\* They can be compared.
LEMMA VersionNumbers ==
  ASSUME TypeOK
  PROVE  VersionsAreNumbers
<1> USE DEF Versions
<1>1. secret \in Int /\ cached \in Int /\ (job # Nothing => job.secret \in Int)
  BY DEF TypeOK, Jobs
<1>2. csiSecret # Nothing => csiSecret.version \in Int
  BY DEF TypeOK, Tokens
<1>3. /\ ccm # Nothing => ccm.template.secret \in Int
      /\ csi # Nothing => csi.template.secret \in Int
  BY DEF TypeOK, Deployments, CCMTemplates, CSITemplates
<1>4. /\ ccmPod # Nothing => ccmPod.template.secret \in Int /\ ccmPod.token.version \in Int
      /\ csiPod # Nothing => csiPod.template.secret \in Int /\ csiPod.token.version \in Int
  BY DEF TypeOK, Pods, CCMTemplates, CSITemplates, Tokens
<1> QED
  BY <1>1, <1>2, <1>3, <1>4 DEF VersionsAreNumbers

\* Every step keeps the types.
LEMMA TypeOKStep == TypeOK /\ RequestInv /\ [Next]_vars => TypeOK'
<1> SUFFICES ASSUME TypeOK, RequestInv, [Next]_vars PROVE TypeOK'
  OBVIOUS
<1> USE ConstantsAssumption, NothingAssumption
    DEF RequestInv, TypeOK, Steps, ReconcileFlow, DeleteFlow, ControlPlanes, Jobs,
        inputs, objects, runtime, actuator
<1>1. CASE StartReconcile
  BY <1>1 DEF StartReconcile
<1>2. CASE ApplyConfig
  BY Values, <1>2 DEF ApplyConfig, ConfigGiven
<1>3. CASE ComputeChecksums
  <2>1. job \in Jobs /\ cached \in Versions
    BY <1>3 DEF ComputeChecksums
  <2>2. job' = [job EXCEPT !.secret = cached,
                           !.scaledDown = job.spec.hibernated /\ ~serving]
    BY <1>3 DEF ComputeChecksums
  <2>3. job' \in Jobs
    <3> HIDE DEF Jobs
    <3>1. job.spec \in AllSpecs
      BY <2>1 DEF Jobs
    <3>2. (job.spec.hibernated /\ ~serving) \in BOOLEAN
      OBVIOUS
    <3> QED
      BY <2>1, <2>2, <3>1, <3>2, Zenon DEF Jobs
  <2> HIDE DEF Jobs
  <2> QED
    BY <1>3, <2>3 DEF ComputeChecksums
<1>4. CASE RenderCharts
  BY TokenType, <1>4 DEF RenderCharts, RenderableSeed, TokenKeys
<1>5. CASE ApplyDeployments
  BY WantedType, <1>5 DEF ApplyDeployments
<1>6. CASE ApplyShootCharts
  BY <1>6 DEF ApplyShootCharts, Return, Forget
<1>27. CASE StorageClassesFail
  <2>1. shootCharts' \subseteq ShootCharts
    BY <1>27, Zenon DEF StorageClassesFail, ShootCharts
  <2> QED
    BY <1>27, <2>1 DEF StorageClassesFail, Return, Forget
<1>7. CASE CannotRender
  BY <1>7 DEF CannotRender, Return, Forget
<1>8. CASE StartDelete
  BY <1>8 DEF StartDelete
<1>9. CASE DeleteShootCharts
  BY <1>9 DEF DeleteShootCharts
<1>10. CASE DeleteCharts
  BY <1>10 DEF DeleteCharts, DeletedObjects, Forget
<1>11. CASE RollOutCCM
  BY <1>11 DEF RollOutCCM, ScaledUp, Deployments, Pods, Tokens, TokenKeys
<1>12. CASE RollOutCSI
  BY <1>12 DEF RollOutCSI, ScaledUp, Deployments, Pods, Tokens
<1>13. CASE StopCCM
  BY <1>13 DEF StopCCM
<1>14. CASE StopCSI
  BY <1>14 DEF StopCSI
<1>15. CASE ScaleAPIServer
  BY <1>15 DEF ScaleAPIServer
<1>16. CASE SyncCache
  BY <1>16 DEF SyncCache, Versions
<1>17. CASE CallFails
  <2>1. shootCharts' \subseteq ShootCharts
    BY <1>17 DEF CallFails, objects, ShootCharts
  <2>2. /\ cp' = [cp EXCEPT !.lastOp = "Error"] /\ step' = "idle" /\ job' = Nothing
        /\ UNCHANGED <<inputs, cached, runtime, upToDate>>
    BY <1>17 DEF CallFails, Return, Forget
  <2>3. configMap' \in ConfigMaps \cup {Nothing} /\ csiSecret' \in Tokens \cup {Nothing}
    BY Values, TokenType, <1>17
       DEF CallFails, ConfigGiven, RenderableSeed, TokenKeys
  <2>4. /\ ccm' \in Deployments(CCMTemplates) \cup {Nothing}
        /\ csi' \in Deployments(CSITemplates) \cup {Nothing}
    BY WantedType, <1>17 DEF CallFails
  <2> QED
    BY <2>1, <2>2, <2>3, <2>4
<1>18. CASE Crash
  BY <1>18 DEF Crash, Forget
<1>19. CASE Rotate
  <2>1. secret' \in Versions
    BY <1>19 DEF Rotate, Versions
  <2>2. upToDate' \in BOOLEAN
    BY <1>19 DEF Rotate
  <2>3. UNCHANGED <<cp, spec, keys, calm, cached, objects, runtime, actuator>>
    BY <1>19 DEF Rotate
  <2> HIDE DEF Steps, ControlPlanes, Jobs, RequestInv
  <2> QED
    BY <2>1, <2>2, <2>3
<1>20. CASE ChangeSpec
  <2>1. spec' \in AllSpecs
    BY <1>20 DEF ChangeSpec
  <2>2. upToDate' \in BOOLEAN
    BY <1>20 DEF ChangeSpec
  <2>3. UNCHANGED <<cp, keys, secret, calm, cached, objects, runtime, actuator>>
    BY <1>20 DEF ChangeSpec
  <2> HIDE DEF Steps, ControlPlanes, Jobs, RequestInv
  <2> QED
    BY <2>1, <2>2, <2>3
<1>21. CASE RestartCCM
  BY <1>21 DEF RestartCCM, Pods, Tokens, TokenKeys
<1>22. CASE RestartCSI
  BY <1>22 DEF RestartCSI, Pods, Tokens
<1>23. CASE RequestDeletion
  BY <1>23 DEF RequestDeletion
<1>24. CASE CalmDown
  BY <1>24 DEF CalmDown
<1>25. CASE Gone
  BY <1>25 DEF Gone, vars
<1>26. CASE UNCHANGED vars
  BY <1>26 DEF vars
<1> QED
  BY <1>1, <1>2, <1>3, <1>4, <1>5, <1>6, <1>7, <1>8, <1>9, <1>10, <1>11,
     <1>12, <1>13, <1>14, <1>15, <1>16, <1>17, <1>18, <1>19, <1>20, <1>21,
     <1>22, <1>23, <1>24, <1>25, <1>26, <1>27
     DEF Next, RequestStep, Environment

\* No step makes a reader see older data than it should: versions only grow
\* along the way from the secret to the pods.
LEMMA VersionInvStep == TypeOK /\ RequestInv /\ VersionInv /\ [Next]_vars => VersionInv'
<1> SUFFICES ASSUME TypeOK, RequestInv, VersionInv, [Next]_vars PROVE VersionInv'
  OBVIOUS
<1>0. VersionsAreNumbers
  BY VersionNumbers
<1> USE <1>0 DEF VersionsAreNumbers, VersionInv, inputs, objects, runtime, actuator
<1>1. CASE StartReconcile
  <2>1. job' = [spec |-> spec, secret |-> cached, scaledDown |-> FALSE]
    BY <1>1 DEF StartReconcile
  <2>2. job' \in Jobs
    BY <2>1 DEF TypeOK, Jobs
  <2>3. job' # Nothing /\ job'.secret = cached
    BY <2>1, <2>2, NothingAssumption
  <2> QED
    BY <1>1, <2>3 DEF StartReconcile
<1>2. CASE ApplyConfig
  BY Values, <1>2 DEF ApplyConfig, ConfigGiven
<1>3. CASE ComputeChecksums
  BY <1>3 DEF ComputeChecksums
<1>4. CASE RenderCharts
  <2>1. csiSecret' \in Tokens /\ csiSecret'.version = cached
    BY <1>4, TokenType DEF RenderCharts, TokenKeys, TypeOK
  <2>2. csiSecret' # Nothing
    BY <2>1, NothingAssumption
  <2>3. job # Nothing
    BY <1>4 DEF RenderCharts, RequestInv, ReconcileFlow
  <2> QED
    BY <1>4, <2>1, <2>2, <2>3 DEF RenderCharts
<1>5. CASE ApplyDeployments
  <2>1. job \in Jobs /\ job # Nothing /\ job.spec.config # Nothing
    BY <1>5 DEF ApplyDeployments, RequestInv, ReconcileFlow, TypeOK
  <2>2. ccm'.template.secret = job.secret /\ csi'.template.secret = job.secret
    BY <1>5, <2>1, WantedType DEF ApplyDeployments
  <2> QED
    BY <1>5, <2>1, <2>2 DEF ApplyDeployments
<1>6. CASE ApplyShootCharts
  BY <1>6 DEF ApplyShootCharts, Return, Forget
<1>27. CASE StorageClassesFail
  BY <1>27 DEF StorageClassesFail, Return, Forget
<1>7. CASE CannotRender
  BY <1>7 DEF CannotRender, Return, Forget
<1>8. CASE StartDelete
  BY <1>8 DEF StartDelete
<1>9. CASE DeleteShootCharts
  BY <1>9 DEF DeleteShootCharts
<1>10. CASE DeleteCharts
  BY <1>10 DEF DeleteCharts, DeletedObjects, Forget
<1>11. CASE RollOutCCM
  BY <1>11 DEF RollOutCCM, ScaledUp, Deployments, Pods, Tokens, TokenKeys
<1>12. CASE RollOutCSI
  BY <1>12 DEF RollOutCSI, ScaledUp, Deployments, Pods, Tokens
<1>13. CASE StopCCM
  BY <1>13 DEF StopCCM
<1>14. CASE StopCSI
  BY <1>14 DEF StopCSI
<1>15. CASE ScaleAPIServer
  BY <1>15 DEF ScaleAPIServer
<1>16. CASE SyncCache
  BY <1>16 DEF SyncCache, Versions
<1>17. CASE CallFails
  <2>1. ASSUME step = "charts", csiSecret' = TokenFor("hcloudTokenCSI", cached)
        PROVE  csiSecret' # Nothing /\ csiSecret'.version = cached
    BY <2>1, TokenType, NothingAssumption DEF TokenKeys, TypeOK
  <2>2. ASSUME step = "deployments"
        PROVE  job # Nothing /\ WantedCCM.template.secret = job.secret
                             /\ WantedCSI.template.secret = job.secret
    <3>1. job # Nothing /\ job \in Jobs /\ job.spec.config # Nothing
      BY <2>2 DEF RequestInv, ReconcileFlow, TypeOK
    <3> QED
      BY <3>1, WantedType
  <2>3. step' = "idle" /\ job' = Nothing
    BY <1>17 DEF CallFails, Return, Forget
  <2>4. CASE UNCHANGED objects
    BY <1>17, <2>3, <2>4 DEF CallFails
  <2>5. CASE step = "config" /\ UNCHANGED <<csiSecret, ccm, csi>>
    BY <1>17, <2>3, <2>5 DEF CallFails
  <2>6. CASE /\ step = "charts" /\ csiSecret' = TokenFor("hcloudTokenCSI", cached)
             /\ UNCHANGED <<ccm, csi>>
    BY <1>17, <2>1, <2>3, <2>6 DEF CallFails
  <2>7. CASE /\ step = "deployments" /\ ccm' \in {ccm, WantedCCM} /\ csi' \in {csi, WantedCSI}
             /\ UNCHANGED csiSecret
    BY <1>17, <2>2, <2>3, <2>7 DEF CallFails
  <2>8. CASE /\ step = "deleteCharts" /\ ccm' \in {ccm, Nothing} /\ csi' \in {csi, Nothing}
             /\ UNCHANGED csiSecret
    BY <1>17, <2>3, <2>8 DEF CallFails
  <2>9. CASE step = "shoot" /\ UNCHANGED <<configMap, csiSecret, ccm, csi>>
    BY <1>17, <2>3, <2>9 DEF CallFails
  <2> QED
    BY <1>17, <2>4, <2>5, <2>6, <2>7, <2>8, <2>9 DEF CallFails
<1>18. CASE Crash
  BY <1>18 DEF Crash, Forget
<1>19. CASE Rotate
  BY <1>19 DEF Rotate, Versions
<1>20. CASE ChangeSpec
  BY <1>20 DEF ChangeSpec
<1>21. CASE RestartCCM
  BY <1>21 DEF RestartCCM, Pods, Tokens, TokenKeys
<1>22. CASE RestartCSI
  <2>1. csiPod \in Pods(CSITemplates) /\ csiSecret # Nothing
    BY <1>22 DEF RestartCSI, TypeOK
  <2>2. csiPod'.template = csiPod.template /\ csiPod'.token = csiSecret
    BY <1>22, <2>1 DEF RestartCSI, Pods
  <2>3. UNCHANGED <<secret, cached, job, step, csiSecret, ccm, csi, ccmPod>>
    BY <1>22 DEF RestartCSI
  <2>4. /\ csiPod'.template.secret <= csiPod'.token.version
        /\ csiPod'.token.version = csiSecret.version
    BY <2>1, <2>2, <1>22 DEF RestartCSI
  <2> QED
    BY <2>1, <2>3, <2>4
<1>23. CASE RequestDeletion
  BY <1>23 DEF RequestDeletion
<1>24. CASE CalmDown
  BY <1>24 DEF CalmDown
<1>25. CASE Gone
  BY <1>25 DEF Gone, vars
<1>26. CASE UNCHANGED vars
  BY <1>26 DEF vars
<1> QED
  BY <1>1, <1>2, <1>3, <1>4, <1>5, <1>6, <1>7, <1>8, <1>9, <1>10, <1>11,
     <1>12, <1>13, <1>14, <1>15, <1>16, <1>17, <1>18, <1>19, <1>20, <1>21,
     <1>22, <1>23, <1>24, <1>25, <1>26, <1>27
     DEF Next, RequestStep, Environment

\* A request comes to its steps in order.
LEMMA RequestInvStep == TypeOK /\ RequestInv /\ [Next]_vars => RequestInv'
<1> SUFFICES ASSUME TypeOK, RequestInv, [Next]_vars PROVE RequestInv'
  OBVIOUS
<1> USE ConstantsAssumption, NothingAssumption
    DEF RequestInv, TypeOK, Steps, ReconcileFlow, DeleteFlow, ControlPlanes, Jobs,
        inputs, objects, runtime, actuator
<1>1. CASE StartReconcile
  <2>1. job' \in Jobs
    BY <1>1 DEF StartReconcile
  <2> QED
    BY <1>1, <2>1 DEF StartReconcile
<1>2. CASE ApplyConfig
  BY <1>2 DEF ApplyConfig, ConfigGiven
<1>3. CASE ComputeChecksums
  BY <1>3 DEF ComputeChecksums
<1>4. CASE RenderCharts
  BY <1>4 DEF RenderCharts
<1>5. CASE ApplyDeployments
  BY <1>5 DEF ApplyDeployments
<1>6. CASE ApplyShootCharts
  BY <1>6 DEF ApplyShootCharts, Return, Forget
<1>27. CASE StorageClassesFail
  BY <1>27 DEF StorageClassesFail, Return, Forget
<1>7. CASE CannotRender
  BY <1>7 DEF CannotRender, Return, Forget
<1>8. CASE StartDelete
  BY <1>8 DEF StartDelete
<1>9. CASE DeleteShootCharts
  BY <1>9 DEF DeleteShootCharts
<1>10. CASE DeleteCharts
  BY <1>10 DEF DeleteCharts, DeletedObjects, Forget
<1>11. CASE RollOutCCM
  BY <1>11 DEF RollOutCCM
<1>12. CASE RollOutCSI
  BY <1>12 DEF RollOutCSI
<1>13. CASE StopCCM
  BY <1>13 DEF StopCCM
<1>14. CASE StopCSI
  BY <1>14 DEF StopCSI
<1>15. CASE ScaleAPIServer
  BY <1>15 DEF ScaleAPIServer
<1>16. CASE SyncCache
  BY <1>16 DEF SyncCache
<1>17. CASE CallFails
  BY <1>17 DEF CallFails, Return, Forget
<1>18. CASE Crash
  BY <1>18 DEF Crash, Forget
<1>19. CASE Rotate
  BY <1>19 DEF Rotate
<1>20. CASE ChangeSpec
  BY <1>20 DEF ChangeSpec
<1>21. CASE RestartCCM
  BY <1>21 DEF RestartCCM
<1>22. CASE RestartCSI
  BY <1>22 DEF RestartCSI
<1>23. CASE RequestDeletion
  BY <1>23 DEF RequestDeletion
<1>24. CASE CalmDown
  BY <1>24 DEF CalmDown
<1>25. CASE Gone
  BY <1>25 DEF Gone, vars
<1>26. CASE UNCHANGED vars
  BY <1>26 DEF vars
<1> QED
  BY <1>1, <1>2, <1>3, <1>4, <1>5, <1>6, <1>7, <1>8, <1>9, <1>10, <1>11,
     <1>12, <1>13, <1>14, <1>15, <1>16, <1>17, <1>18, <1>19, <1>20, <1>21,
     <1>22, <1>23, <1>24, <1>25, <1>26, <1>27
     DEF Next, RequestStep, Environment

\* What an up-to-date request has done stays as the spec and the secret are.
LEMMA UpToDateInvStep ==
  TypeOK /\ VersionInv /\ RequestInv /\ UpToDateInv /\ [Next]_vars => UpToDateInv'
<1> SUFFICES ASSUME TypeOK, VersionInv, RequestInv, UpToDateInv, [Next]_vars PROVE UpToDateInv'
  OBVIOUS
<1> USE ConstantsAssumption, NothingAssumption
    DEF VersionInv, RequestInv, UpToDateInv, TokenFor, WantedCCM, WantedCSI, Deployment, Replicas,
        TypeOK, Steps, ReconcileFlow, DeleteFlow, ControlPlanes, Jobs,
        inputs, objects, runtime, actuator
<1>1. CASE StartReconcile
  BY <1>1 DEF StartReconcile
<1>2. CASE ApplyConfig
  BY <1>2 DEF ApplyConfig, ConfigGiven
<1>3. CASE ComputeChecksums
  BY <1>3 DEF ComputeChecksums
<1>4. CASE RenderCharts
  BY <1>4 DEF RenderCharts
<1>5. CASE ApplyDeployments
  BY <1>5 DEF ApplyDeployments
<1>6. CASE ApplyShootCharts
  BY <1>6 DEF ApplyShootCharts, Return, Forget
<1>27. CASE StorageClassesFail
  BY <1>27 DEF StorageClassesFail, Return, Forget
<1>7. CASE CannotRender
  BY <1>7 DEF CannotRender, Return, Forget
<1>8. CASE StartDelete
  BY <1>8 DEF StartDelete
<1>9. CASE DeleteShootCharts
  BY <1>9 DEF DeleteShootCharts
<1>10. CASE DeleteCharts
  BY <1>10 DEF DeleteCharts, DeletedObjects, Forget
<1>11. CASE RollOutCCM
  BY <1>11 DEF RollOutCCM
<1>12. CASE RollOutCSI
  BY <1>12 DEF RollOutCSI
<1>13. CASE StopCCM
  BY <1>13 DEF StopCCM
<1>14. CASE StopCSI
  BY <1>14 DEF StopCSI
<1>15. CASE ScaleAPIServer
  BY <1>15 DEF ScaleAPIServer
<1>16. CASE SyncCache
  BY <1>16 DEF SyncCache, Versions
<1>17. CASE CallFails
  BY <1>17 DEF CallFails, Return, Forget
<1>18. CASE Crash
  BY <1>18 DEF Crash, Forget
<1>19. CASE Rotate
  BY <1>19 DEF Rotate
<1>20. CASE ChangeSpec
  BY <1>20 DEF ChangeSpec
<1>21. CASE RestartCCM
  BY <1>21 DEF RestartCCM
<1>22. CASE RestartCSI
  BY <1>22 DEF RestartCSI
<1>23. CASE RequestDeletion
  BY <1>23 DEF RequestDeletion
<1>24. CASE CalmDown
  BY <1>24 DEF CalmDown
<1>25. CASE Gone
  BY <1>25 DEF Gone, vars
<1>26. CASE UNCHANGED vars
  BY <1>26 DEF vars
<1> QED
  BY <1>1, <1>2, <1>3, <1>4, <1>5, <1>6, <1>7, <1>8, <1>9, <1>10, <1>11,
     <1>12, <1>13, <1>14, <1>15, <1>16, <1>17, <1>18, <1>19, <1>20, <1>21,
     <1>22, <1>23, <1>24, <1>25, <1>26, <1>27
     DEF Next, RequestStep, Environment

\* A success is only reported, and stays true, when everything is applied.
LEMMA SuccessIsDeployedStep ==
  TypeOK /\ VersionInv /\ RequestInv /\ UpToDateInv /\ SuccessIsDeployed /\ [Next]_vars
    => SuccessIsDeployed'
<1> SUFFICES ASSUME TypeOK, VersionInv, RequestInv, UpToDateInv, SuccessIsDeployed, [Next]_vars
             PROVE  SuccessIsDeployed'
  OBVIOUS
<1> USE ConstantsAssumption, NothingAssumption
    DEF VersionInv, RequestInv, UpToDateInv, SuccessIsDeployed, Current, Deployed, TokenFor,
        TypeOK, Steps, ReconcileFlow, DeleteFlow, ControlPlanes, Jobs,
        inputs, objects, runtime, actuator
<1>1. CASE StartReconcile
  BY <1>1 DEF StartReconcile
<1>2. CASE ApplyConfig
  BY <1>2 DEF ApplyConfig, ConfigGiven
<1>3. CASE ComputeChecksums
  BY <1>3 DEF ComputeChecksums
<1>4. CASE RenderCharts
  BY <1>4 DEF RenderCharts
<1>5. CASE ApplyDeployments
  BY <1>5 DEF ApplyDeployments
<1>6. CASE ApplyShootCharts
  <2>1. job \in Jobs /\ job.spec.config # Nothing /\ (job.scaledDown => job.spec.hibernated)
    BY <1>6 DEF ApplyShootCharts
  <2>2. /\ WantedCCM # Nothing /\ WantedCSI # Nothing
        /\ WantedCCM.template = CCMTemplate(job.spec, job.secret)
        /\ WantedCSI.template = CSITemplate(job.spec, job.secret)
        /\ ~job.scaledDown => WantedCCM.replicas = 1 /\ WantedCSI.replicas = 1
    BY <2>1, WantedType
  <2>3. ccm' = ccm /\ csi' = csi /\ configMap' = configMap /\ csiSecret' = csiSecret
        /\ keys' = keys /\ secret' = secret /\ spec' = spec /\ upToDate' = upToDate
        /\ shootCharts' = ShootCharts
    BY <1>6 DEF ApplyShootCharts
  <2>4. SUFFICES ASSUME upToDate PROVE Deployed'
    BY <2>3
  <2>5. /\ job.spec = spec /\ job.secret = secret
        /\ configMap = ConfigValues(spec) /\ csiSecret = TokenFor("hcloudTokenCSI", secret)
        /\ ccm = WantedCCM /\ csi = WantedCSI
    BY <1>6, <2>1, <2>4, NothingAssumption DEF ApplyShootCharts
  <2> QED
    BY <2>1, <2>2, <2>3, <2>5
<1>27. CASE StorageClassesFail
  BY <1>27 DEF StorageClassesFail, Return, Forget
<1>7. CASE CannotRender
  BY <1>7 DEF CannotRender, Return, Forget
<1>8. CASE StartDelete
  BY <1>8 DEF StartDelete
<1>9. CASE DeleteShootCharts
  BY <1>9 DEF DeleteShootCharts
<1>10. CASE DeleteCharts
  BY <1>10 DEF DeleteCharts, DeletedObjects, Forget
<1>11. CASE RollOutCCM
  BY <1>11 DEF RollOutCCM
<1>12. CASE RollOutCSI
  BY <1>12 DEF RollOutCSI
<1>13. CASE StopCCM
  BY <1>13 DEF StopCCM
<1>14. CASE StopCSI
  BY <1>14 DEF StopCSI
<1>15. CASE ScaleAPIServer
  BY <1>15 DEF ScaleAPIServer
<1>16. CASE SyncCache
  BY <1>16 DEF SyncCache
<1>17. CASE CallFails
  BY <1>17 DEF CallFails, Return, Forget
<1>18. CASE Crash
  BY <1>18 DEF Crash, Forget
<1>19. CASE Rotate
  BY <1>19 DEF Rotate
<1>20. CASE ChangeSpec
  BY <1>20 DEF ChangeSpec
<1>21. CASE RestartCCM
  BY <1>21 DEF RestartCCM
<1>22. CASE RestartCSI
  BY <1>22 DEF RestartCSI
<1>23. CASE RequestDeletion
  BY <1>23 DEF RequestDeletion
<1>24. CASE CalmDown
  BY <1>24 DEF CalmDown
<1>25. CASE Gone
  BY <1>25 DEF Gone, vars
<1>26. CASE UNCHANGED vars
  BY <1>26 DEF vars
<1> QED
  BY <1>1, <1>2, <1>3, <1>4, <1>5, <1>6, <1>7, <1>8, <1>9, <1>10, <1>11,
     <1>12, <1>13, <1>14, <1>15, <1>16, <1>17, <1>18, <1>19, <1>20, <1>21,
     <1>22, <1>23, <1>24, <1>25, <1>26, <1>27
     DEF Next, RequestStep, Environment

\* Every reachable state satisfies the inductive invariant: the versions of the
\* data are ordered along the way, and an up-to-date request leaves behind what
\* is current.
THEOREM Invariance == Spec => []IInv
<1>1. Init => IInv
  <2> SUFFICES ASSUME Init PROVE IInv
    OBVIOUS
  <2> USE ConstantsAssumption, NothingAssumption DEF Init, Steps, ReconcileFlow, DeleteFlow
  <2>1. TypeOK
    <3>1. keys \in [Versions -> SUBSET TokenKeys] /\ spec \in AllSpecs
      BY DEF Init
    <3>2. 1 \in Versions
      BY DEF Versions
    <3> QED
      BY <3>1, <3>2 DEF TypeOK, ControlPlanes
  <2>2. VersionInv /\ RequestInv /\ UpToDateInv /\ SuccessIsDeployed
    BY DEF VersionInv, RequestInv, UpToDateInv, SuccessIsDeployed, Current
  <2> QED
    BY <2>1, <2>2 DEF IInv
<1>2. IInv /\ [Next]_vars => IInv'
  BY TypeOKStep, VersionInvStep, RequestInvStep, UpToDateInvStep, SuccessIsDeployedStep DEF IInv
<1> QED
  BY <1>1, <1>2, PTL DEF Spec

\* The variables keep their types.
THEOREM TypeCorrect == Spec => []TypeOK
<1>1. IInv => TypeOK
  BY DEF IInv
<1> QED
  BY <1>1, Invariance, PTL

\* After a success the charts show the spec and the secret as they are.
THEOREM SuccessDeploys == Spec => []SuccessIsDeployed
<1>1. IInv => SuccessIsDeployed
  BY DEF IInv
<1> QED
  BY <1>1, Invariance, PTL

\* After a success with the secret as it is, pods that have been rolled out run
\* with tokens of that secret: their template carries its version, and they
\* have never read older data than that of their template.
THEOREM RotationCompletes == Spec => []RotationReachesPods
<1>1. IInv => RotationReachesPods
  <2> SUFFICES ASSUME IInv, Current PROVE
        /\ RolledOut(ccmPod, ccm) => ccmPod.token.version = secret
        /\ RolledOut(csiPod, csi) => csiPod.token.version = secret
    BY DEF RotationReachesPods
  <2> USE DEF IInv
  <2>1. Deployed
    BY DEF SuccessIsDeployed
  <2>2. ccm.template.secret = secret /\ csi.template.secret = secret
    BY <2>1 DEF Deployed, CCMTemplate, CSITemplate
  <2>3. VersionsAreNumbers
    BY VersionNumbers DEF IInv
  <2> QED
    BY <2>2, <2>3 DEF RolledOut, VersionInv, VersionsAreNumbers
<1> QED
  BY <1>1, Invariance, PTL
=============================================================================
