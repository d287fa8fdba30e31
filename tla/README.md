# TLA+ models of gardener-extension-provider-hcloud

This directory holds TLA+ specifications of the controllers of this extension, TLC
configurations that check them on small instances, and proofs, checked by TLAPS, that hold
for every value of the constants.  Paths in this document are relative to the repository
(`src/`); `PROJECT.json` maps each definition to the lines it models.

## 1. The system

The extension makes [Gardener](https://gardener.cloud) shoots (Kubernetes clusters) run on
HCloud.  Gardenlet writes one extension object per concern and shoot (`Infrastructure`,
`ControlPlane`, `Worker`, `OperatingSystemConfig`); controllers of the extension, driven by
Gardener's reconcilers and generic actuators, bring the HCloud project and the seed into the
state that these objects ask for, and record what they did in the objects' status.

| Component | State it keeps | Operations | Interacts through |
|---|---|---|---|
| Infrastructure actuator, `pkg/controller/infrastructure` | HCloud SSH key and network; `InfrastructureStatus`; `InfrastructureReconcileMethodData` in the request's context | Reconcile, Restore, Migrate, Delete, `reconcileOnErrorCleanup` | HCloud API by name, fingerprint or ID; provider status, read by Worker and ControlPlane |
| Worker delegate: placement groups, `pkg/controller/worker` | HCloud placement groups; `WorkerStatus` | PreReconcileHook, UpdateMachineImagesStatus, PostDeleteHook | generic actuator; HCloud API by name and by ID; machine classes refer to the groups |
| Worker delegate: machine classes, `pkg/controller/worker/machines.go` | MachineClass objects and their node templates | `backfillNodeTemplates`, DeployMachineClasses, GenerateMachineDeployments | generic actuator; the machine-controller-manager (MCM), which panics on classes without a template; the manager's cache |
| Values provider, `pkg/controller/controlplane` | ConfigMap `cloud-provider-config`, secret `hcloud-csi`, Deployments of CCM and CSI controller, shoot charts | GetConfigChartValues, GetControlPlaneChartValues, GetControlPlaneShootChartValues, GetStorageClassesChartValues | generic actuator; secret `cloudprovider`, read from a cache that lags |
| Credentials, `pkg/hcloud` | none | `ExtractCredentials`, tokens per component | secret `cloudprovider` |
| Control plane webhook, `pkg/webhook/controlplane` | what it adds to operating system configs, Deployments, VPAs, kubelet units and configs | the `Ensure...` mutations | reads the ConfigMap that the values provider writes; runs on every write of such an object, whoever writes it |
| Admission, `pkg/webhook/validator`, `pkg/hcloud/apis/validation` | none | validates Shoot, CloudProfile, SecretBinding | decides which specs the controllers meet |
| Health checks, `pkg/controller/healthcheck` | conditions | reads Deployments and DaemonSets | Gardener's health check library |
| Transcoder, API types, utilities, client registry, `pkg/hcloud/apis` | a map of clients (written by tests only) | decoding, region of a zone, fingerprints | all of the above |
| Commands and registrations, `pkg/cmd`, `register.go` | `DefaultAddOptions` of each package | start-up: flags, config file, options, webhooks, controllers, ready checks | Gardener's controller library; the options pass through package variables |
| Charts, images | none | templates | the generic actuators |

### What is hard, and what makes it correct

* **External resources against a record of them** (infrastructure, placement groups).
  Resources are created one call at a time and recorded at the end.  Calls fail, answers are
  lost, the process stops in between, cleanup races the status patch, a control-plane
  migration empties the status.  Correct means: nothing machines use is deleted, what a
  success has recorded exists, retries converge instead of creating twice, and a deletion
  leaves nothing.
* **Order and retries** (placement groups, machine classes).  Groups go after machines;
  a deletion that is retried renders classes again; a hook runs before checks that may fail
  for days.  Correct means: no class in use refers to a group that is gone, MCM is never left
  with a class it panics on, and no one-off state blocks a request for ever.
* **Reads at different times** (control plane, machine classes).  Clients read from a cache
  that lags, a request reads the same secret several times, pods read it yet another time.
  Correct means: after a rotation completed, no pod runs with old tokens; a backfill that read
  stale classes never stays on top of rendered ones.
* **Things that must happen without an order** (webhook).  Nodes' configs are written before
  the ConfigMap exists; they still have to receive it.
* **Flows that do not know of each other** (Infrastructure and Worker).  The key and the network
  that a machine class names are rotated, cleaned up and deleted in another flow.  Correct means:
  the network outlives the classes, and a key is missing in the window of a rotation only.
* **Long sequences of legal requests** (admission).  The network is made once from the first
  config and found by its name ever after; a deployment is given the size of the whole pool.
  Correct means: no sequence of updates makes these wrong as long as the region keeps its zones,
  and no shoot becomes one that the webhook's checks refuse in each update, its deletion included.
* **Edits on top of edits** (webhook).  An object comes back with what an earlier release put
  into it.  Correct means: each entry once, Gardener's own entries untouched, no write that
  changes nothing rolls pods out.

`PROJECT.json` lists every hazard at its line (`hazards`), with the properties that cover it,
or a note on why none does.

## 2. Modules and plan

| Module | Models | Uses |
|---|---|---|
| `WorkerPrerequisites` | abstract: what the infrastructure controller promises to those who create machines | |
| `Infrastructure` | infrastructure actuator, call by call | INSTANCE `WorkerPrerequisites` (refinement) |
| `ShootFlow` | Infrastructure and Worker of a shoot, in gardenlet's order, with MCM | EXTENDS `Infrastructure` |
| `PlacementGroups` | worker delegate: placement groups, in the flows of the generic actuator | |
| `MachineClasses` | worker delegate: classes, backfill, MCM, cache | |
| `ControlPlane` | charts of CCM, CSI controller and shoot, rotation, hibernation | |
| `NodePreparation` | the webhook's operating system configs next to the control plane | EXTENDS `ControlPlane` |
| `ShootAdmission` | the admission webhook, and networks and machine deployments made of what it admits | |
| `ExtensionProcess` | the start of the extension's process, rollouts of releases | |
| `ObjectMutations` | the webhook's other mutations, through processes of two releases | EXTENDS `ExtensionProcess` |
| `MC...` | instances for TLC | EXTENDS the module they instantiate |
| `...Proofs` | theorems | EXTEND component and `TLAPS` |

What is left, most useful first:

1. Two Workers in one HCloud project whose placement-group names coincide (`shoot--p--a` with a
   pool `b-c`, `shoot--p--a-b` with a pool `c`), and a Worker that is deleted between a
   control-plane migration and the next reconcile: hazards that no property covers.
2. What a Worker and the webhook rely on as abstract specifications of their own, next to
   `WorkerPrerequisites`, with the refinements proved.
3. The process of the admission webhook, and larger instances of the runs under fairness.

Three conventions hold in all modules.  `step` is the program counter of the request in
flight: one call that reads or changes something outside the process is one step, and the
step's name is the next call.  `Disturbances` says which failures and changes an instance
allows; `DisturbanceKinds` explains each.  `calm` is set once by `CalmDown`, after which
nothing is disturbed, so that liveness is stated as "once disturbances end".  Definitions whose
name appears after `Mutant:` are deliberately wrong variants, which nothing uses; replacing
the real definition by one must break the property it is listed with, and does.

## 3. Infrastructure

### State and actions

| Variable | Code |
|---|---|
| `sshKeys` | SSH keys in the HCloud project; a key stands for its fingerprint |
| `network` | the network called `<namespace>-workers`, by its ID |
| `infra` | the object: phase, key and networks of the spec, provider status, last operation |
| `configs` | provider configs that are there and decode (`transcoder`) |
| `step`, `request`, `methodData`, `workers` | the request in flight: what it read, `InfrastructureReconcileMethodData`, the ID `EnsureNetworks` returned |
| `served` | history: what the last success published and the workers were created with |

`StartReconcile` and `RejectReconcile` are `getActuatorConfig` and the first lines of
`reconcile`.  `KeepOldKey`, `DeleteOldKey`, `AdoptKey`, `CreateKey` are `EnsureSSHPublicKey`
(old key, lookup, create).  `NoNetworkRequested`, `NetworksUnset`, `LocationUnknown`,
`AdoptNetwork`, `CreateNetwork` are `EnsureNetworks`.  `PatchStatus` is
`updateProviderStatus`, `ReportSuccess` the reconciler's own status update.  `CleanupNetwork`
and `CleanupKey` are `reconcileOnErrorCleanup`; `StartDelete`, `DeleteUnconfigured`,
`DeleteNetwork`, `DeleteKey`, `Finalize` are `delete` and the removal of the finalizer.
`ForceDelete` and `Migrate` change nothing; Restore is Reconcile on an object with an empty
status (`MigrateToNewSeed`).

`NetworksUnset` is a panic of the code, which gives no error and hence no cleanup.  The SSH
key's numeric ID and its fingerprint are different values (`KeyID`), because the code confuses
them once (see findings).

### Runs

| Run | Distinct states | Question |
|---|---|---|
| `infra_safety` | 494,464 | every disturbance at once: `ServedNetworkKept`, `ServedKeyKept`, `SuccessMeansEnsured`, `CleanupDeletesOwnNetwork`, `NetworkStaysTracked`, and the refinement `ImplementsContract` |
| `infra_cleanup_key` | violation | `FailedReconcileLeavesNoKey` |

`infra_cleanup_key` shows a reconcile of workers that creates the key, fails at the network and
runs both steps of the cleanup to their end: the key that this request created is still there.

Bounds (`infra_safety`): three keys are one that machines use, one that is recorded, and one that the spec has
moved on to, so that a second rotation before the first is recorded happens; two network IDs
are the one in the status and the one just created.  An ID or key that nothing remembers may be used
again, so the bounds do not limit the number of networks or rotations.
Keys and network IDs are symmetric.

`NetworkStaysTracked` names the five ways in which the code loses track of a network: the answer
of its creation is lost, its cleanup fails, the controller crashes, the control plane moves, or
the configs are gone at the deletion.  The next success adopts the network by its name; a
deletion before that leaves it.  No other step, of any interleaving of rejections, failures and
retries, loses one.

`ImplementsContract` maps `keys <- sshKeys`, `net <- network` and `offer <- Offer`, where
`Offer` is what machines may rely on: the network served, and the key served as long as the
spec still names it.  The contract permits removing only what is not offered.

### With the Worker: ShootFlow

`shoot` is whether the shoot is to be there, `worker` the Worker object with the copy of the
Infrastructure's status that gardenlet has put into it, `class` the key that machine classes
name, `machines` whether there are any.  `DeployWorker`, `DeleteWorker` and
`DeleteInfrastructure` are gardenlet's order; `RenderClass` is `generateMachineConfig`, reduced to
the key; `CreateMachines` is MCM, which looks up key and network when it creates a machine.

| Run | Distinct states | Question |
|---|---|---|
| `shoot_flow` | 364,152 | `ClassesHaveNetwork`, `KeyMissingOnlyInRotation`, `KeysConverge`, `DeletionLeavesNothing`, `EventuallyOnCurrentKey`, `EventuallyAllGone` |

The run has every failure and crash, and rotations after a success (`OrderlyDisturbances`).
`KeysConverge` needs that (`OrderlyRotation`), and `DeletionLeavesNothing` also that the configs
stay (`LastingConfigs`): when a key rotates before the last one was
recorded, only the status tells which key is the old one, and the one in between is forgotten.
A deletion without its configs ends early and leaves what there is.
The two properties of machine classes hold in any case (section 9).

Fairness (`FairFlow`): the workqueue hands out an object until it is reconciled or gone, with a
retry after each error, and a controller goes on through its calls (weak fairness of
`ReconcileStep`, `DeleteStep` and `Work`); MCM retries.  Gardenlet polls the Infrastructure,
which is ready between two reconciles and not during one: it finds it ready at some point
(strong fairness of `Gardenlet`).  Nothing is assumed of failures or of users.

## 4. Placement groups

### State and actions

`groups` is the HCloud project, by pool (the name of a group is `<namespace>-<pool>`), `worker`
the object with the pools of its spec and the IDs in its provider status, `classes` the group
that each pool's machine class refers to.  `request` is `w.worker`, `todo` and `found` the loop
of `EnsurePlacementGroups` or `PostDeleteHook`.  A pool is absent, plain, or wants a group.

`Prepare`, `AdoptGroup`, `CreateGroup`, `GroupsEnsured`, `PatchGroups` are `PreReconcileHook`;
`DeployMachineClasses`, `ImageNotFound` and `UpdateMachineImagesStatus` the delegate's calls of
the same name; `MachinesGone`, `DeleteGroup`, `GroupsDeleted` are `PostDeleteHook` after the
generic actuator has removed the machines.  The generic actuator's order of calls is taken
from its use in this repository: the deletion flow runs `DeployMachineClasses` once more.

### Runs

| Run | Distinct states | Question |
|---|---|---|
| `pg` | 1,066,016 | all disturbances: `ClassesReferToGroups`, `PlacedAsRequested`, `EventuallySettled`, `DeletionLeavesNoGroup` |
| `pg_unrecorded` | violation | `GroupsOfPoolsDeleted` |

Bounds: two pools are enough for a loop that stops in between and for a pool that goes while
another stays; two group IDs are one for each name, and an ID nobody remembers may be used again.
Fairness: the workqueue (`WF(RequestStep)`).

`DeletionLeavesNoGroup` starts at a deletion requested while the last operation is a success:
before a first success, or between a migration and the next reconcile, the status names no
groups and the deletion leaves them.

## 5. Machine classes

`classes` gives each class a kind: absent; `bare` (no node template, as an older release wrote it),
`opaque` (bare, and without the fields a template is derived from), `backfilled`, `rendered`.
`cache` is what the delegate's client lists.  `target` are the classes of the machine
deployments, `machines` those that have machines.  `StartReconcile` begins with the hook's
backfill, before the availability checks (`ChecksPass`, `ChecksFail`); `RenderClasses` and the
second backfill follow; a deletion starts with `RenderClasses`.  `ListClasses`, `PatchClass`,
`ClassesPatched` are `backfillNodeTemplates`, one patch at a time.  MCM creates and deletes
machines only while it does not panic (`MCMWorks`).

| Run | Distinct states | Question |
|---|---|---|
| `mc` | 517,440 | all disturbances, lagging cache: `MCMWorksWhenAwaited`, `SuccessIsRendered`, `EventuallyTemplated`, `EventuallyReady`, `EventuallyGone`, `OpaqueBlocksNoRequest` |

Bounds: two classes are one wanted and one of an earlier hash; the theorems about the two
invariants hold for any number.  Fairness: the workqueue, MCM unless it panics, the cache's watch
of each class.

## 6. Control plane and nodes

`ControlPlane` has a request with five calls: ConfigMap (`ApplyConfig`), checksums of the
secret (`ComputeChecksums`), the secret `hcloud-csi` (`RenderCharts`), the Deployments
(`ApplyDeployments`), shoot charts (`ApplyShootCharts`), of which the storage classes fail without
the config of the CloudProfile (`profile`), after all other calls took effect.  Each reads the secret `cloudprovider`
from the cache (`cached`), while the API server has `secret`; both are versions of
the data.  Pods take their tokens when they start or restart (`RollOutCCM`, `RollOutCSI`,
`RestartCCM`, `RestartCSI`): the CCM from the live secret, the CSI controller from
`hcloud-csi`.  Hibernation acts through `scaledDown`, which depends on whether the shoot's
kube-apiserver still serves.  `upToDate` is a history variable: the request began with the
spec and the secret as they are and neither has changed.

`NodePreparation` adds `MutateReconcileOSC` (kubelet's cloud provider config, files and units)
and `MutateProvisionOSC`.  Gardenlet writes these objects at any time relative to the
ControlPlane's request; a missing ConfigMap is not an error.

| Run | Distinct states | Question |
|---|---|---|
| `cp_safety` | 7,495,004 | all disturbances: `RotationReachesPods`, `SuccessIsDeployed` |
| `cp_nodes` | 477,632 | `EventuallyDeployed`, `EventuallyPrepared`, `EventuallyGone`, with the webhook |
| `cp_tokens` | violation | `CCMUsesItsToken` |

Bounds: two versions of the secret are one before and one after a rotation (the proof covers
any number); `TwoVersions` holds the ways the keys can change that the code tells apart; the
specs are a hibernated one, one awake in another zone and with Docker settings, and one whose
CloudProfile has no config; in the
liveness run one without ControlPlaneConfig, which cannot be deployed but must be deletable.
Failures and restarts of containers are left out of the liveness run: they leave states that a
later step of the request, or a rollout, leaves too.
The three remaining kinds of `podNetworks` only change a field of the CCM's template or make
rendering fail; they are left to the proofs, which cover every spec in `AllSpecs`.

Fairness: gardenlet reconciles each shoot at least once a day, so requests keep coming
(`RequestStep`); the Deployment controller rolls out and stops; gardenlet scales the
kube-apiserver; the cache catches up; gardenlet writes operating system configs on each
reconcile of the shoot.

## 7. Admission

`ShootAdmission` has the Shoot and CloudProfile in the garden (`shoot`, `profile`), the copy
that the controllers on the seed work on (`cluster`), the network, and the machine deployments
of each pool (`machines`).  `CreateShoot`, `UpdateShoot` and `UpdateCloudProfile` are requests
that the validators admit: `ValidShootCreation`, `ValidShootUpdate` and `ValidCloudProfile`
follow `validator/shoot.go`, `validator/cloudprofile.go` and the functions of
`pkg/hcloud/apis/validation`.  `EnsureNetworks` and `GenerateMachineConfig` are what the two
controllers make of their copy: the range and zone of the network, and zone and size of each
machine deployment, with `DistributeOverZones` for the surge.

`fields` says which of its fields the shoot validator has been given, and never changes.  The check
against the CloudProfile (`ValidAgainstCloudProfile`) needs a client, and reading the CloudProfile
may fail (`read`); a ControlPlaneConfig (`ValidControlPlane`) is decoded with a decoder.  A field that
is nil is a panic, so the request is not admitted.  As the webhook is registered, `fields` is `{}`;
its test injects a client; both are what `shoot.go` is written for.  All of them are
initial states, so each property holds of what is admitted with any.  With `{}` no shoot is
created or updated any more, and only those from before the webhook reach the controllers.

The CloudProfile changes to any of `Profiles` that `ValidCloudProfile` admits.  That check does not
look at the old CloudProfile, so a region may gain a zone, lose it, or have it replaced.  Three
history variables say what happened since the shoot was made: it is from before the webhook
(`legacy`), its region has lost a zone (`replaced`), a pool has been taken out of it (`dropped`).

| Run | Distinct states | Question |
|---|---|---|
| `admission` | 512,154 | `NetworkAsConfigured`, `AddressesApart`, `GivenZoneHostsRegion`, `PoolTotals`, `SpreadPoolsFit`, `RefusedOnlyUnread`, `DeploymentsStay` |
| `admission_zone` | violation | `EmptyZoneIsThatOfRegion` |

`PoolTotals` and `SpreadPoolsFit` hold as long as `replaced` does not: when the CloudProfile has
replaced [z1] by [z2], a pool in [z1] may be updated to [z1, z2], since `ValidateWorkersUpdate`
wants zones appended, and each of its two deployments gets the minimum and maximum of the
whole pool.  TLC finds both properties violated without their condition (section 12).  Of
`DeploymentsStay` one part needs no condition: a pool that names its zones, and stays in the shoot,
keeps its deployments where they are, whatever the CloudProfile does.

`RefusedOnlyUnread` says when an update is refused that changes nothing or only fills in missing
zones: if and only if the webhook cannot read the CloudProfile, or cannot decode the ControlPlaneConfig.
So the checks themselves leave no shoot stuck, through any sequence of requests; and as the
webhook is registered, it refuses each such update.

A CIDR is a set of addresses with the address it is written with, canonical or not, IPv4 or not;
`Garbage` is what does not parse.  Sixteen addresses hold a network inside, across and outside a
private range, inside and outside the network of the nodes, and overlapping pods and services in
part.  Two locations lie in two network zones, one of them unknown to the extension.  Pools have
the sizes next to the limit of ten servers of a placement group.  The region of most shoots has two zones
to choose from, alone, replaced by the other, or both at once, which the validator refuses; shoots
with and without a ControlPlaneConfig tell the two fields apart.

`LegacyShoots` are shoots from before two checks, which the code provides for
(`infrastructure.go:168`, `machines.go:121`): their pools may lack zones, or their network names
the zone of another region.  What Gardener's own admission does is external: region and
the networks of nodes, pods and services stay (`SamePlace`), and a pool's zones come from the
CloudProfile or were there before (`GardenerAllows`).

## 8. Processes, and objects the webhook edits

`ExtensionProcess` is `RunE` of `pkg/cmd/controller`: `CompleteOptions`, `NewManager`,
`GetGardenCluster`, `ApplySettings` (copying into the `DefaultAddOptions`), `AddWebhooks`,
`ApplyNamespace`, `AddControllers` (which takes the options by value), `Start`, `PassCheck`.  Any
step may fail and ends the process (`Exit`).  A release is installed at any time (`Install`), and
the process of the old one ends before or after the new one is ready (`Stop`), as the
installation chart asks for one replica and lets it be unavailable.

`ObjectMutations` follows one object of the six kinds that the `Ensurer` edits.  Its content is a
list of entries with a name and a value: containers, container policies, feature gates, labels,
flags and unit options, of a set `Texts` that is all strings in the run.  Of the entries that the
webhook edits, a content has no two of one name (`DistinctIn`): containers are told apart by their
names, labels and gates are the keys of maps, a flag is given once.  `EnsureNamed`, `EnsureOption`,
`Without` (delete) and `WithoutEntry` are the edits that Gardener's library offers, `Mutated` what
the `Ensurer` makes of them.  `SamePart` says that two lists have the same entries of Gardener's, in
the same order: there is a bijection between their places that keeps the order.  Gardenlet writes its own content (`Reconcile`), other clients patch what
is stored (`Patch`), and each write goes through a ready process of some release (`Admit`).

| Run | Distinct states | Question |
|---|---|---|
| `webhook` | 302,236 | `MutationTypeOK`, `ControllersConfigured`, `AdmittedComplete`, `GardenersPartKept`, `NoNeedlessChange`, `EventuallyCurrent` |

Bounds: three releases, of which the second cannot start, so that a failed upgrade is repaired by
the next; kubelet minors 22, 23, 98 and 99, on both sides of the two bounds in the code; for each
kind contents with and without an entry that the webhook replaces or removes.  One object is
enough, since the webhook keeps nothing between two requests.  A release that cannot start may be
all that is left, and then nothing happens any more: the run does not check for deadlock.
Fairness: a process works through its start, the rolling update ends old processes, gardenlet
reconciles again and again.

## 9. What is proved

For each component the argument is one inductive invariant, a conjunction of named
parts (`IInv`, `FlowInv`, `ProcessInv`), checked by TLC first and proved with one step per
action.  Properties follow from it.  Type invariants and inductive invariants are theorems and
therefore no properties of the runs, but for `MutationTypeOK`.

| Theorem | Statement |
|---|---|
| `InfrastructureProofs!TypeCorrect`, `Invariance` | `Spec => []TypeOK`, `Spec => []IInv` |
| `NetworkKept`, `KeyKept`, `SuccessEnsures` | `ServedNetworkKept`, `ServedKeyKept`, `SuccessMeansEnsured` |
| `CleanupOwn`, `Tracking` | `CleanupDeletesOwnNetwork`, `NetworkStaysTracked`, action properties |
| `Refinement` | `Spec => ImplementsContract`: initial states map to initial states, each step to a step or a stutter of the contract |
| `Convergence`, `DeletionClears` | `KeysConverge` if `OrderlyRotation`, `DeletionLeavesNothing` if `LastingConfigs` too |
| `ShootFlowProofs!FlowImplementsInfrastructure` | `FlowSpec => Spec`: all of the above holds next to a Worker |
| `FlowTypeCorrect`, `FlowInvariance` | types and inductive invariant of the flow |
| `NetworkForClasses`, `KeyForClasses` | `ClassesHaveNetwork`, `KeyMissingOnlyInRotation`, under all disturbances, those included that the run leaves out |
| `FlowConverges`, `FlowClears` | `KeysConverge` and `DeletionLeavesNothing` of the flow, as its run checks them, under the same two conditions |
| `PlacementGroupProofs!TypeCorrect`, `Invariance`, `GroupsKept`, `SuccessPlaces` | `IInv`, `ClassesReferToGroups`, `PlacedAsRequested` |
| `DeletionClears` | `DeletionLeavesNoGroup`, under all disturbances |
| `MachineClassProofs!TypeCorrect`, `Invariance`, `WaitsForTemplates`, `SuccessRendered` | `IInv`, `MCMWorksWhenAwaited`, `SuccessIsRendered` |
| `ControlPlaneProofs!TypeCorrect`, `Invariance`, `SuccessDeploys`, `RotationCompletes` | `IInv`, `SuccessIsDeployed`, `RotationReachesPods` |
| `NodePreparationProofs!NodesLeaveControlPlane`, `NodeTypeCorrect` | `NodeSpec => Spec`, the types of the webhook's objects |
| `ShootAdmissionProofs!TypeCorrect`, `Invariance` | `TypeOK`, `IInv` |
| `NetworkStaysConfigured`, `AddressesKeptApart`, `ZoneFits`, `NodesStay` | `NetworkAsConfigured`, `AddressesApart`, `GivenZoneHostsRegion`, `DeploymentsStay` |
| `PoolsKeepTheirSize`, `SpreadGroupsFit`, `OnlyUnreadRefused` | `PoolTotals`, `SpreadPoolsFit`, `RefusedOnlyUnread` |
| `ObjectMutationProofs!ProcessTypeCorrect`, `StartConfigures` | `ProcessTypeOK`, `ControllersConfigured` |
| `ProcessesGoOn`, `WebhookProcessConfigured` | `MutationSpec => ProcessSpec`, `ControllersConfigured` next to the objects |
| `MutationTypeCorrect`, `ObjectsComplete`, `GardenersPartSpared`, `NothingRollsOut` | `MutationTypeOK`, `AdmittedComplete`, `GardenersPartKept`, `NoNeedlessChange` |

They hold for every set of keys, IDs, pools, classes, versions, zones, addresses, shoots,
CloudProfiles and releases, for every choice of the webhook's fields, and for every choice of disturbances, under the assumptions that the modules name
(`ConstantsAssumption`, `NothingAssumption`, `ReleasesAssumption`, `ObjectsAssumption`): "none" values differ from real
ones, an SSH key's ID is not a fingerprint, histories and specs are well-formed, shoots from before
the checks of the webhook pass all others.

Why the invariants are not inductive without their other parts:

* *Infrastructure.*  That the network in use survives a failed reconcile needs to know that the
  cleanup acts on a network only if this request created it (`OwnNetworkInv`), that this
  request could only create one when none existed, and so no worker used it (`ServedInv`), and
  that nothing is remembered between requests (`RequestInv`).  `EnsuredInv` carries "what was
  ensured exists" from the call that ensured it to the status.
* *Infrastructure and Worker.*  A Worker is deployed only with what was published
  (`PublishedInv`), the Infrastructure outlives it (`OrderInv`), and so `ServedNetworkKept` and
  `ServedKeyKept` speak of what the classes name.  For the key, `KeyUseInv` adds that a
  reconcile which publishes a stale key runs only while nobody uses the new one.
* *Placement groups.*  IDs are held in four places: class, status, the request's copy, and the
  loop's result.  `UseInv` says that all of them are current as long as machines may exist or a
  reconcile may still create them, and `StepInv` that the groups' deletion comes after.
* *Machine classes.*  The cache may lag but never hides a bare class (`CacheInv`), because no
  class ever becomes bare again; so each bare class is in the loop or is rendered
  (`BackfillInv`), and a class this request rendered is never in the loop (`RenderInv`).
* *Control plane.*  Versions are ordered along the way from API server to pod (`VersionInv`):
  what a request has read is no newer than the cache, a checksum no newer than the token next
  to it, a pod's token no older than its template's checksum.  With `upToDate` the two ends
  are equal, and so is all between.
* *Admission.*  The controllers' copy may be old, but has the networks and the place of the shoot
  as it is (`CopyInv`).  A region has at most one zone, and as long as it keeps its zones, a pool
  is in it or names none (`PlaceInv`), so that a pool is one deployment, and stays there; this part
  has the condition `~replaced`.  `GrowingInv` does not: the zones of a pool only grow, from what
  is deployed over the controllers' copy to what the shoot has.  Of the pools, `PoolInv` says
  that the shoot's are within the webhook's limits and, again with `~replaced`, that each is
  deployed whole, with what `generateMachineConfig` has filled in.
* *Objects.*  That a list is complete is not enough for the next edit: `ObjectInv` adds that the
  webhook's names are distinct, which makes "replace the first" the same as "replace the one", and that
  as long as the kubelet is the one gardenlet wrote for, the object is `Mutated` of what gardenlet
  wrote.  Idempotence of the six mutations then gives `NoNeedlessChange`.

The invariants of what converges hold from some state on or under a condition only:

* `ConvergenceInv`: the project holds at most the recorded key and the one that the spec, or the
  request in flight, adopts; each call of a reconcile narrows that until a success leaves one.  It
  breaks when a key rotates before it was recorded, hence `OrderlyRotation`.
* `ClearingInv` (infrastructure and placement groups): all there is, is recorded, and what a call of
  the deletion has removed stays away.  A deletion that is requested after a success makes it true
  (by `ConvergenceInv`, and by `RecordedInv` for groups), each step keeps it, and at the end it says
  that nothing is left.  So `[](P => []Q)` is proved from one lemma about steps, without a history variable.

Two techniques recur in `ShootAdmissionProofs` and `ObjectMutationProofs`.  A sum over deployments is a
fold, whose value for all lengths needs induction; where a pool is one deployment (`PlaceInv`), the
fold is unfolded once (`OneSum`).  What an edit does to a list is stated by the places of its
entries: one lemma for each edit gives a bijection between the places of Gardener's entries before and
after, and these compose (`SamePart`).

Only model-checked is the liveness under fairness, which is out of the prover's reach:
`EventuallySettled`, `EventuallyTemplated`, `EventuallyReady`, `EventuallyGone` (of classes and of the
control plane), `OpaqueBlocksNoRequest`, `EventuallyDeployed`, `EventuallyPrepared`,
`EventuallyOnCurrentKey`, `EventuallyAllGone` and `EventuallyCurrent`; and the four runs that show where
the code and its comments disagree.  That the shares
of the surge (`SurgeShare`) are in their range is proved for any number of zones; what they add up to only
for one zone, which is all that `PoolTotals` and `SpreadPoolsFit` speak of, and would need induction for more.

## 10. Assumptions

* One request per object at a time, and one active controller process: the workqueue and
  leader election of `cmd/gardener-extension-provider-hcloud`.
* Objects are read fresh when a request begins (`Infrastructure`, `Worker`, `ControlPlane`,
  `Cluster`); the lagging cache is modelled where the code reads lists or secrets in the middle of
  a request (machine classes, the secret `cloudprovider`).
* Names are unique per shoot: nobody else creates or deletes the network, key or groups of a
  shoot.  (Placement-group names can collide, see section 2.)
* HCloud never uses an ID twice as long as someone remembers it; a generated SSH key is new.
* The content of the secret `cloudprovider` is never what it was in an earlier version: with a
  rollback the checksum would return to an old value.
* What Gardener's library does (generic actuators, reconcilers, Deployment controller,
  gardenlet) is modelled from how the code here uses it and marked external in the map.

## 11. Not modelled

* *Control plane:* the ConfigMap's checksum in the CCM's template (it only causes a restart, as the CCM
  gets no cloud config from it), certificates, access secrets, feature gates, cluster IDs, images:
  values of charts, which no step of the code reads again.
* *Webhook:* two methods that nothing calls (`ensureChecksumAnnotations`, `InjectClient`); the text
  of files and units.
* *Machine classes:* hash, labels, fields of a template and the strategy of a deployment; they
  decide nothing in the flows modelled.  Zones and surge are in `ShootAdmission`.
* *Infrastructure:* the subnet, which has the range of the network and is created with it.
* *Admission:* validations that the webhook never calls (`ValidateControlPlaneConfig`,
  `ValidateCloudProfileConfig`, `ValidateInfrastructureConfigSpec`); the process that serves it, which has
  no order among its steps that matters; SecretBindings, whose check has no state.
* *Health checks* beyond the predicate `ControlPlaneHealthy`: they are the library's.
* *Commands:* leader election, the manager, parsing of flags.
* Client registry (written by tests only), scheme registration and generated code, mocks, manifests of
  the installation, documentation: no behaviour of their own.

## 12. Where the code and its comments disagree

Each has a run in which TLC shows the behaviour.

1. `infra_cleanup_key`: `reconcileOnErrorCleanup` (`actuator_reconcile.go:114`) passes the
   SSH key's numeric ID to `EnsureSSHPublicKeyDeleted`, which looks keys up by
   fingerprint; the key that the failed request created stays after its cleanup.  A later success adopts it; if there is
   none, or the key rotates before, it is never removed.
2. `pg_unrecorded`: `PostDeleteHook` marks a pool without a recorded group for deletion and
   then deletes by the zero ID (`actuator_hooks.go:145`), which is ignored; the group of a pool that
   dropped its placement group type stays.
3. `cp_tokens`: `Credentials.CCM` is documented as the CCM's token, but the chart starts the
   CCM with `hcloudToken`; a secret of component tokens only is accepted and leaves the CCM
   unable to start.
4. `admission_zone`: `validation/infrastructure.go:79` says that an empty network zone is resolved
   from the region; `reconcile` takes it from the zone of the ControlPlaneConfig
   (`actuator_reconcile.go:64`), which nothing compares with the region.  A shoot whose control plane zone
   lies in another location gets a network to which its servers cannot attach.

Observations without a run of their own:

* `types_worker.go:31-36` says the status stores the used image versions so that
  reconciliation stays possible; `UpdateMachineImagesStatus` stores `w.machineImages`, which
  nothing sets (the assignment at `machines.go:166` is commented out).  A Worker whose image
  left the CloudProfile, and is no system image either, fails until the image returns, its deletion too.
* `actuator_delete.go:39-41` treats each missing provider config as "nothing was set up", but
  a config removed after a success raises the same error: key and network stay.  The
  refinement holds because the contract lets a shoot in deletion keep its resources.
* `validator/shoot.go:160`: the client is set by `InjectClient` only, which the registered
  webhook never calls; `shoot.go:93` uses a decoder that nothing sets.  As registered, each creation
  or update of a shoot whose InfrastructureConfig decodes ends in a panic, if no earlier
  check refuses it, and is not admitted; with a client, as in the test, the same is true of shoots with a
  ControlPlaneConfig.  `RefusedOnlyUnread` states this next to what the checks promise.
* `validator/cloudprofile.go:38-52` compares nothing with the old CloudProfile.  After a region's
  zone [z1] has been replaced by [z2], an update of a pool from [z1] to [z1, z2] is admitted, although the error
  text at `cloudprofile.go:47` says that several zones per region are not supported.  The pool then
  has twice its size, and a spread pool of seven servers and a surge of three has seventeen in its
  one group of at most ten.  A pool without zones, or one that is taken out of the shoot and put back, moves to
  the new zone.  `PoolTotals`, `SpreadPoolsFit` and `DeploymentsStay` have this as their condition.
* A CloudProfile without a config makes every request for a control plane fail at its last call
  (`valuesprovider.go:310`), and the webhook refuse operating system configs.
* The network's zone is validated only when it changes while it is immutable; a percentage as
  `MaxSurge` counts as zero against the limit of a placement group (`validation/workers.go:56`), and a
  group type other than `spread` gets a spread group without a limit; a network whose first
  address is private passes as private.  `SpreadPoolsFit` and `AddressesApart` say what is left.
* `cmd.go:176-183` adds the garden cluster to the manager before it looks at the error of making
  it; the health check controller is added without the extension classes that the others get.
* With `maxUnavailable: 1` and one replica, a rollout of the extension may leave no webhook: writes
  are refused until the new process is ready (`Stop`).

## 13. Running the checks

`tlc -config MCInfrastructure.cfg MCInfrastructure.tla`, and the same for each configuration;
`tlapm InfrastructureProofs.tla`, and the same for each proof module.  The longest runs
(`pg`, `mc`, `cp_safety`, `cp_nodes`, `admission`) take one to three minutes with two workers.
