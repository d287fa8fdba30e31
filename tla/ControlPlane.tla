---------------------------- MODULE ControlPlane ----------------------------
(***************************************************************************)
(* The cloud-controller-manager (CCM) and the CSI controller of a shoot    *)
(* (pkg/controller/controlplane).                                          *)
(*                                                                         *)
(* Gardener's generic actuator applies the charts one after the other with *)
(* the values of this extension's values provider.  Each call reads the    *)
(* secret "cloudprovider" anew, from the cache of the manager, while the   *)
(* user replaces tokens.  Pods read theirs when they start: the CCM from   *)
(* "cloudprovider", the CSI controller from the secret "hcloud-csi" that   *)
(* the chart fills.  That a pod starts again after a change of the secret  *)
(* is up to the checksum in its template.                                  *)
(***************************************************************************)
EXTENDS Integers

CONSTANTS
    MaxVersion,    \* bound on the versions of the secret's data
    Histories,     \* what keys the versions have: functions on Versions
    Specs,         \* what gardenlet writes to Cluster and ControlPlane
    Zones,         \* zones that a ControlPlaneConfig names
    RegionOf,      \* the region in the name of a zone
    ShootRegion,   \* region of the ControlPlane
    Networks,      \* IDs of worker networks
    NoZone,        \* a ControlPlaneConfig without a zone
    Nothing,       \* an object that does not exist
    Disturbances   \* see DisturbanceKinds

DisturbanceKinds ==
    {"callFails",   \* a call fails, or only seems to
     "crash",       \* the controller stops in the middle of a request
     "rotate",      \* the user replaces tokens
     "change",      \* gardenlet writes another spec
     "restart",     \* a container starts again by itself
     "delete"}      \* the shoot is deleted

Versions  == 1..MaxVersion
TokenKeys == {"hcloudToken", "hcloudTokenCCM", "hcloudTokenCSI", "hcloudTokenMCM"}
Regions   == {RegionOf[zone] : zone \in Zones} \cup {ShootRegion}

\* What a CloudProfileConfig says about Docker, or that there is none
DockerDaemonOptions == {"proxy", "registries"}
CloudProfileConfigs == (SUBSET DockerDaemonOptions) \cup {Nothing}

AllSpecs ==
    [config      : Zones \cup {NoZone, Nothing},           \* ControlPlaneConfig
     network     : Networks \cup {Nothing},                \* of InfrastructureStatus
     podNetworks : {"none", "private", "public", "many"},
     hibernated  : BOOLEAN,
     profile     : CloudProfileConfigs]

ASSUME ConstantsAssumption ==
    /\ MaxVersion \in Nat \ {0}
    /\ Histories \subseteq [Versions -> SUBSET TokenKeys]
    /\ Specs \subseteq AllSpecs
    /\ Disturbances \subseteq DisturbanceKinds
    /\ NoZone \notin Zones /\ NoZone # Nothing

ReconcileFlow == {"config", "checksums", "charts", "deployments", "shoot"}
DeleteFlow    == {"deleteShoot", "deleteCharts"}
Steps         == {"idle"} \cup ReconcileFlow \cup DeleteFlow

\* The managed resources with the charts for the shoot
ShootCharts == {"controlplane-shoot", "storageclasses"}

VARIABLES
    cp,          \* API server: the ControlPlane object
    spec,        \* API server: spec of ControlPlane and Cluster
    keys,        \* the keys of each version of the secret's data
    secret,      \* API server: version of the secret "cloudprovider"
    cached,      \* manager: the version its client reads
    configMap,   \* API server: ConfigMap "cloud-provider-config"
    csiSecret,   \* API server: the token in the secret "hcloud-csi"
    ccm, csi,    \* API server: the two Deployments
    shootCharts, \* API server: the managed resources for the shoot
    serving,     \* kube-apiserver of the shoot is up
    ccmPod,      \* the running CCM
    csiPod,      \* the running CSI controller
    step,        \* actuator: what the request in flight does next
    job,         \* actuator: what the request in flight has read
    upToDate,    \* history: a request began with the spec and the secret as
                 \* they are, and neither has changed since
    calm         \* no disturbance happens any more

inputs   == <<spec, keys, secret, calm>>
objects  == <<configMap, csiSecret, ccm, csi, shootCharts>>
runtime  == <<serving, ccmPod, csiPod>>
actuator == <<step, job>>
vars     == <<cp, inputs, cached, objects, runtime, actuator, upToDate>>

Tokens       == [version : Versions, key : TokenKeys]
ConfigMaps   == [region : Regions, zone : Zones \cup {NoZone}]
CCMTemplates == [secret : Versions, region : Regions,
                 network : Networks \cup {Nothing}, routes : BOOLEAN]
CSITemplates == [secret : Versions, region : Regions]
ControlPlanes == [phase  : {"present", "deleting", "gone"},
                  lastOp : {"None", "Processing", "Succeeded", "Error"}]
Deployments(templates) == [replicas : {0, 1}, template : templates]
Pods(templates)        == [template : templates, token : Tokens]
Jobs == [spec : AllSpecs, secret : Versions, scaledDown : BOOLEAN]

ASSUME NothingAssumption ==
    /\ Nothing \notin Jobs
    /\ Nothing \notin Tokens
    /\ Nothing \notin ConfigMaps
    /\ Nothing \notin Deployments(CCMTemplates)
    /\ Nothing \notin Deployments(CSITemplates)
    /\ Nothing \notin Pods(CCMTemplates)
    /\ Nothing \notin Pods(CSITemplates)

TypeOK ==
    /\ cp \in ControlPlanes
    /\ spec \in AllSpecs
    /\ keys \in [Versions -> SUBSET TokenKeys]
    /\ secret \in Versions
    /\ cached \in Versions
    /\ configMap \in ConfigMaps \cup {Nothing}
    /\ csiSecret \in Tokens \cup {Nothing}
    /\ ccm \in Deployments(CCMTemplates) \cup {Nothing}
    /\ csi \in Deployments(CSITemplates) \cup {Nothing}
    /\ shootCharts \subseteq ShootCharts
    /\ serving \in BOOLEAN
    /\ ccmPod \in Pods(CCMTemplates) \cup {Nothing}
    /\ csiPod \in Pods(CSITemplates) \cup {Nothing}
    /\ step \in Steps
    /\ job \in Jobs \cup {Nothing}
    /\ upToDate \in BOOLEAN
    /\ calm \in BOOLEAN

Init ==
    /\ cp = [phase |-> "present", lastOp |-> "None"]
    /\ spec \in Specs
    /\ keys \in Histories
    /\ secret = 1 /\ cached = 1
    /\ configMap = Nothing /\ csiSecret = Nothing /\ ccm = Nothing /\ csi = Nothing
    /\ shootCharts = {}
    /\ serving = FALSE
    /\ ccmPod = Nothing /\ csiPod = Nothing
    /\ step = "idle" /\ job = Nothing
    /\ upToDate = FALSE
    /\ calm = FALSE

-----------------------------------------------------------------------------
(* Credentials (pkg/hcloud/credentials.go)                                 *)

\* ExtractCredentials: the common token, or one for each of the components
Accepted(version) ==
    \/ "hcloudToken" \in keys[version]
    \/ {"hcloudTokenCCM", "hcloudTokenCSI", "hcloudTokenMCM"} \subseteq keys[version]

\* The token that Credentials.CCM and Credentials.CSI return
TokenFor(own, version) ==
    [version |-> version,
     key     |-> IF own \in keys[version] THEN own ELSE "hcloudToken"]

-----------------------------------------------------------------------------
(* Values of the charts                                                    *)

Region(config) == IF config = NoZone THEN ShootRegion ELSE RegionOf[config]

ConfigValues(s) == [region |-> Region(s.config), zone |-> s.config]

\* Node routes need a private pod network.
CCMTemplate(s, checksum) ==
    [secret |-> checksum, region |-> Region(s.config),
     network |-> s.network, routes |-> s.podNetworks = "private"]

CSITemplate(s, checksum) == [secret |-> checksum, region |-> Region(s.config)]

\* Mutant: the components stay up while the shoot is hibernated.
ReplicasAlways(j) == 1

Replicas(j) == IF j.scaledDown THEN 0 ELSE 1

-----------------------------------------------------------------------------
(* Requests                                                                *)

Fault(kind) == ~calm /\ kind \in Disturbances

Forget == step' = "idle" /\ job' = Nothing

Return(op) ==
    /\ Forget
    /\ cp' = [cp EXCEPT !.lastOp = op]

StartReconcile ==
    /\ cp.phase = "present" /\ step = "idle"
    /\ step' = "config"
    /\ job' = [spec |-> spec, secret |-> cached, scaledDown |-> FALSE]
    /\ cp' = [cp EXCEPT !.lastOp = "Processing"]
    /\ upToDate' = (cached = secret)
    /\ UNCHANGED <<inputs, cached, objects, runtime>>

\* GetControlPlaneChartValues does without a ControlPlaneConfig,
\* GetConfigChartValues does not.
ConfigGiven == job.spec.config # Nothing

\* Mutant: the ConfigMap is only written when there is none.
ApplyConfigOnce ==
    /\ step = "config"
    /\ ConfigGiven
    /\ configMap' = IF configMap = Nothing THEN ConfigValues(job.spec) ELSE configMap
    /\ step' = "checksums"
    /\ UNCHANGED <<cp, inputs, cached, csiSecret, ccm, csi, shootCharts, runtime, job, upToDate>>

ApplyConfig ==
    /\ step = "config"
    /\ ConfigGiven
    /\ configMap' = ConfigValues(job.spec)
    /\ step' = "checksums"
    /\ UNCHANGED <<cp, inputs, cached, csiSecret, ccm, csi, shootCharts, runtime, job, upToDate>>

\* Mutant: the checksum is that of newer data than the token will be from.
ComputeChecksumsLive ==
    /\ step = "checksums"
    /\ job' = [job EXCEPT !.secret = secret, !.scaledDown = job.spec.hibernated /\ ~serving]
    /\ step' = "charts"
    /\ UNCHANGED <<cp, inputs, cached, objects, runtime, upToDate>>

\* The components are scaled down once the kube-apiserver is; until then the
\* request counts as done and is repeated.
ComputeChecksums ==
    /\ step = "checksums"
    /\ job' = [job EXCEPT !.secret = cached, !.scaledDown = job.spec.hibernated /\ ~serving]
    /\ step' = "charts"
    /\ UNCHANGED <<cp, inputs, cached, objects, runtime, upToDate>>

\* A second pod network is not supported.
RenderableSeed == Accepted(cached) /\ job.spec.podNetworks # "many"

\* The chart's objects are applied by kind, secrets before deployments.
RenderCharts ==
    /\ step = "charts"
    /\ RenderableSeed
    /\ csiSecret' = TokenFor("hcloudTokenCSI", cached)
    /\ step' = "deployments"
    /\ UNCHANGED <<cp, inputs, cached, configMap, ccm, csi, shootCharts, runtime, job, upToDate>>

Deployment(template) == [replicas |-> Replicas(job), template |-> template]

WantedCCM == Deployment(CCMTemplate(job.spec, job.secret))
WantedCSI == Deployment(CSITemplate(job.spec, job.secret))

ApplyDeployments ==
    /\ step = "deployments"
    /\ ccm' = WantedCCM
    /\ csi' = WantedCSI
    /\ step' = "shoot"
    /\ UNCHANGED <<cp, inputs, cached, configMap, csiSecret, shootCharts, runtime, job, upToDate>>

\* The charts of the shoot itself, and its storage classes, whose file system
\* the CloudProfile names.
CloudProfileGiven == job.spec.profile # Nothing

ApplyShootCharts ==
    /\ step = "shoot"
    /\ Accepted(cached) /\ CloudProfileGiven
    /\ shootCharts' = ShootCharts
    /\ Return("Succeeded")
    /\ UNCHANGED <<inputs, cached, configMap, csiSecret, ccm, csi, runtime, upToDate>>

\* Only the very last call of a request misses the CloudProfile's config.
StorageClassesFail ==
    /\ step = "shoot"
    /\ Accepted(cached) /\ ~CloudProfileGiven
    /\ shootCharts' = shootCharts \cup {"controlplane-shoot"}
    /\ Return("Error")
    /\ UNCHANGED <<inputs, cached, configMap, csiSecret, ccm, csi, runtime, upToDate>>

CannotRender ==
    /\ \/ step = "config" /\ ~ConfigGiven
       \/ step = "charts" /\ ~RenderableSeed
       \/ step = "shoot" /\ ~Accepted(cached)
    /\ Return("Error")
    /\ UNCHANGED <<inputs, cached, objects, runtime, upToDate>>

StartDelete ==
    /\ cp.phase = "deleting" /\ step = "idle"
    /\ step' = "deleteShoot"
    /\ cp' = [cp EXCEPT !.lastOp = "Processing"]
    /\ UNCHANGED <<inputs, cached, objects, runtime, job, upToDate>>

DeleteShootCharts ==
    /\ step = "deleteShoot"
    /\ shootCharts' = {}
    /\ step' = "deleteCharts"
    /\ UNCHANGED <<cp, inputs, cached, configMap, csiSecret, ccm, csi, runtime, job, upToDate>>

\* Mutant: the deployment of the CSI controller is not an object of the chart.
DeletedAllButCSI == configMap' = Nothing /\ ccm' = Nothing /\ UNCHANGED <<csi, csiSecret>>

\* The objects that the charts name; the secret "hcloud-csi" is not one.
DeletedObjects == configMap' = Nothing /\ ccm' = Nothing /\ csi' = Nothing /\ UNCHANGED csiSecret

DeleteCharts ==
    /\ step = "deleteCharts"
    /\ DeletedObjects
    /\ cp' = [cp EXCEPT !.phase = "gone"]
    /\ Forget
    /\ UNCHANGED <<inputs, cached, shootCharts, runtime, upToDate>>

-----------------------------------------------------------------------------
(* The cluster                                                             *)

ScaledUp(deployment) == deployment # Nothing /\ deployment.replicas = 1

RolledOut(pod, deployment) ==
    pod # Nothing /\ deployment # Nothing /\ pod.template = deployment.template

\* The chart gives the CCM the common token; without it the container cannot
\* start, and the pod of the earlier template stays.
RollOutCCM ==
    /\ ScaledUp(ccm) /\ ~RolledOut(ccmPod, ccm)
    /\ "hcloudToken" \in keys[secret]
    /\ ccmPod' = [template |-> ccm.template,
                  token    |-> [version |-> secret, key |-> "hcloudToken"]]
    /\ UNCHANGED <<cp, inputs, cached, objects, serving, csiPod, actuator, upToDate>>

RollOutCSI ==
    /\ ScaledUp(csi) /\ ~RolledOut(csiPod, csi)
    /\ csiSecret # Nothing
    /\ csiPod' = [template |-> csi.template, token |-> csiSecret]
    /\ UNCHANGED <<cp, inputs, cached, objects, serving, ccmPod, actuator, upToDate>>

StopCCM ==
    /\ ccmPod # Nothing /\ ~ScaledUp(ccm)
    /\ ccmPod' = Nothing
    /\ UNCHANGED <<cp, inputs, cached, objects, serving, csiPod, actuator, upToDate>>

StopCSI ==
    /\ csiPod # Nothing /\ ~ScaledUp(csi)
    /\ csiPod' = Nothing
    /\ UNCHANGED <<cp, inputs, cached, objects, serving, ccmPod, actuator, upToDate>>

\* Gardener scales the kube-apiserver of the shoot.
ScaleAPIServer ==
    /\ serving = spec.hibernated
    /\ serving' = ~spec.hibernated
    /\ UNCHANGED <<cp, inputs, cached, objects, ccmPod, csiPod, actuator, upToDate>>

SyncCache ==
    /\ cached < secret
    /\ cached' = cached + 1
    /\ UNCHANGED <<cp, inputs, objects, runtime, actuator, upToDate>>

-----------------------------------------------------------------------------
(* Failures and changes                                                    *)

\* What the call of a step has done when it fails
CallFails ==
    /\ Fault("callFails")
    /\ step # "idle"
    /\ Return("Error")
    /\ \/ UNCHANGED objects
       \/ /\ step = "config" /\ ConfigGiven
          /\ configMap' = ConfigValues(job.spec)
          /\ UNCHANGED <<csiSecret, ccm, csi, shootCharts>>
       \/ /\ step = "charts" /\ RenderableSeed
          /\ csiSecret' = TokenFor("hcloudTokenCSI", cached)
          /\ UNCHANGED <<configMap, ccm, csi, shootCharts>>
       \/ /\ step = "deployments"
          /\ ccm' \in {ccm, WantedCCM} /\ csi' \in {csi, WantedCSI}
          /\ UNCHANGED <<configMap, csiSecret, shootCharts>>
       \/ /\ step = "shoot" /\ Accepted(cached)
          /\ shootCharts' = shootCharts \cup {"controlplane-shoot"}
          /\ UNCHANGED <<configMap, csiSecret, ccm, csi>>
       \/ /\ step = "deleteCharts"
          /\ ccm' \in {ccm, Nothing} /\ csi' \in {csi, Nothing}
          /\ UNCHANGED <<configMap, csiSecret, shootCharts>>
    /\ UNCHANGED <<inputs, cached, runtime, upToDate>>

Crash ==
    /\ Fault("crash")
    /\ step # "idle"
    /\ Forget
    /\ UNCHANGED <<cp, inputs, cached, objects, runtime, upToDate>>

\* The data never becomes again what it was in an earlier version.
Rotate ==
    /\ Fault("rotate")
    /\ secret < MaxVersion
    /\ secret' = secret + 1
    /\ upToDate' = FALSE
    /\ UNCHANGED <<cp, spec, keys, calm, cached, objects, runtime, actuator>>

ChangeSpec ==
    /\ Fault("change")
    /\ cp.phase = "present"
    /\ spec' \in Specs \ {spec}
    /\ upToDate' = FALSE
    /\ UNCHANGED <<cp, keys, secret, calm, cached, objects, runtime, actuator>>

\* A container that starts again reads the secret again.
RestartCCM ==
    /\ Fault("restart")
    /\ ccmPod # Nothing
    /\ ccmPod' = IF "hcloudToken" \in keys[secret]
                 THEN [ccmPod EXCEPT !.token = [version |-> secret, key |-> "hcloudToken"]]
                 ELSE Nothing
    /\ UNCHANGED <<cp, inputs, cached, objects, serving, csiPod, actuator, upToDate>>

RestartCSI ==
    /\ Fault("restart")
    /\ csiPod # Nothing /\ csiSecret # Nothing
    /\ csiPod' = [csiPod EXCEPT !.token = csiSecret]
    /\ UNCHANGED <<cp, inputs, cached, objects, serving, ccmPod, actuator, upToDate>>

RequestDeletion ==
    /\ Fault("delete")
    /\ cp.phase = "present"
    /\ cp' = [cp EXCEPT !.phase = "deleting"]
    /\ UNCHANGED <<inputs, cached, objects, runtime, actuator, upToDate>>

CalmDown ==
    /\ ~calm
    /\ calm' = TRUE
    /\ UNCHANGED <<cp, spec, keys, secret, cached, objects, runtime, actuator, upToDate>>

Gone == cp.phase = "gone" /\ UNCHANGED vars

-----------------------------------------------------------------------------

RequestStep ==
    \/ StartReconcile \/ ApplyConfig \/ ComputeChecksums \/ RenderCharts
    \/ ApplyDeployments \/ ApplyShootCharts \/ StorageClassesFail \/ CannotRender
    \/ StartDelete \/ DeleteShootCharts \/ DeleteCharts

Environment ==
    \/ RollOutCCM \/ RollOutCSI \/ StopCCM \/ StopCSI \/ ScaleAPIServer \/ SyncCache
    \/ CallFails \/ Crash \/ Rotate \/ ChangeSpec \/ RestartCCM \/ RestartCSI
    \/ RequestDeletion \/ CalmDown

Next == RequestStep \/ Environment \/ Gone

Spec == Init /\ [][Next]_vars

\* Gardener reconciles every shoot at least once a day; controllers and kubelets
\* work, and the cache catches up.
Fairness ==
    /\ WF_vars(RequestStep)
    /\ WF_vars(RollOutCCM) /\ WF_vars(RollOutCSI)
    /\ WF_vars(StopCCM) /\ WF_vars(StopCSI)
    /\ WF_vars(ScaleAPIServer) /\ WF_vars(SyncCache)

FairSpec == Spec /\ Fairness

-----------------------------------------------------------------------------
(* Properties.                                                             *)

\* The last request has succeeded, and what it has read is what there is.
Current == cp.lastOp = "Succeeded" /\ upToDate

\* Once a request has succeeded with the secret as it is, pods that have been
\* rolled out run with tokens of that secret, however the cache has lagged
\* between the checksum and the token, and whenever containers have restarted.
RotationReachesPods ==
    Current =>
        /\ RolledOut(ccmPod, ccm) => ccmPod.token.version = secret
        /\ RolledOut(csiPod, csi) => csiPod.token.version = secret

Deployed ==
    /\ configMap = ConfigValues(spec)
    /\ csiSecret = TokenFor("hcloudTokenCSI", secret)
    /\ ccm # Nothing /\ ccm.template = CCMTemplate(spec, secret)
    /\ csi # Nothing /\ csi.template = CSITemplate(spec, secret)
    /\ ~spec.hibernated => ccm.replicas = 1 /\ csi.replicas = 1
    /\ shootCharts = ShootCharts

\* All charts then show one and the same spec and secret: their values are read
\* at different times, by requests that may have failed in between, and from
\* a shoot that may have been woken up.
SuccessIsDeployed == Current => Deployed

-----------------------------------------------------------------------------
(* The inductive invariant.                                                *)

\* The data that a request, a deployment and a pod have seen, in this order,
\* and the token in "hcloud-csi", never older than the data of the checksum.
VersionInv ==
    /\ cached <= secret
    /\ job # Nothing => job.secret <= cached
    /\ csiSecret # Nothing => csiSecret.version <= cached
    /\ step = "deployments" => csiSecret # Nothing /\ job.secret <= csiSecret.version
    /\ ccm # Nothing => ccm.template.secret <= cached
    /\ csi # Nothing => csiSecret # Nothing /\ csi.template.secret <= csiSecret.version
    /\ ccmPod # Nothing =>
          ccmPod.template.secret <= ccmPod.token.version /\ ccmPod.token.version <= secret
    /\ csiPod # Nothing =>
          /\ csiPod.template.secret <= csiPod.token.version
          /\ csiSecret # Nothing /\ csiPod.token.version <= csiSecret.version

\* How far a request has come
RequestInv ==
    /\ job # Nothing <=> step \in ReconcileFlow
    /\ step \in DeleteFlow => cp.phase = "deleting"
    /\ cp.phase = "gone" => step = "idle"
    /\ step # "idle" => cp.lastOp = "Processing"
    /\ job # Nothing =>
          /\ step # "config" => job.spec.config # Nothing
          /\ job.scaledDown => job.spec.hibernated

\* What an up-to-date request has done so far is as the spec and the secret are.
UpToDateInv ==
    upToDate =>
        /\ cached = secret
        /\ job # Nothing => job.spec = spec /\ job.secret = secret
        /\ step \in ReconcileFlow \ {"config"} => configMap = ConfigValues(spec)
        /\ step \in {"deployments", "shoot"} => csiSecret = TokenFor("hcloudTokenCSI", secret)
        /\ step = "shoot" => ccm = WantedCCM /\ csi = WantedCSI

IInv == TypeOK /\ VersionInv /\ RequestInv /\ UpToDateInv /\ SuccessIsDeployed

-----------------------------------------------------------------------------
(* Liveness.                                                               *)

Deployable ==
    /\ spec.config # Nothing /\ spec.profile # Nothing
    /\ spec.podNetworks # "many"
    /\ Accepted(secret)

\* The health check of the two deployments
ControlPlaneHealthy == RolledOut(ccmPod, ccm) /\ RolledOut(csiPod, csi)

\* Once disturbances end, the components run with the last tokens, in the region
\* and with the network of the shoot, and stay so; in a hibernated shoot nothing
\* runs.  The chart makes this need the common token, whatever Credentials.CCM
\* returns.
EventuallyDeployed ==
    [](calm /\ cp.phase = "present" /\ Deployable /\ "hcloudToken" \in keys[secret] =>
         <>[](/\ Deployable /\ Deployed
              /\ IF spec.hibernated
                 THEN ccmPod = Nothing /\ csiPod = Nothing
                 ELSE ControlPlaneHealthy /\ ccmPod.token.version = secret
                                          /\ csiPod.token = csiSecret))

\* A deletion ends, with both components stopped, even if no request could
\* ever be served with the spec and the secret.
EventuallyGone ==
    calm /\ cp.phase = "deleting" ~> cp.phase = "gone" /\ ccmPod = Nothing /\ csiPod = Nothing

\* credentials.go:39: the token Credentials.CCM returns is the one used for the
\* cloud-controller-manager.
CCMUsesItsToken ==
    ccmPod # Nothing => ccmPod.token = TokenFor("hcloudTokenCCM", ccmPod.token.version)
=============================================================================
