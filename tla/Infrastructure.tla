--------------------------- MODULE Infrastructure ---------------------------
(***************************************************************************)
(* The infrastructure actuator (pkg/controller/infrastructure) working on  *)
(* the Infrastructure object of one shoot: it ensures an SSH key and the   *)
(* worker network in the HCloud project, records both in the provider      *)
(* status, cleans up after a failed reconcile and deletes what the status  *)
(* records.                                                                *)
(*                                                                         *)
(* Every call to HCloud or to the API server is one step.  Each may fail   *)
(* before it takes effect, or take effect while its answer is lost, and    *)
(* the process may crash between any two of them.  The workqueue works on  *)
(* one request per object at a time, hence one program counter.            *)
(***************************************************************************)

CONSTANTS
    Keys,          \* SSH public keys; a key stands for its fingerprint too
    NetworkIDs,    \* IDs that HCloud gives to networks (bound: finitely many)
    NoKey,         \* the empty fingerprint, and the SSHKeyID 0
    NoNetwork,     \* no network; a nil NetworkIDs; the NetworkID 0 or -1
    Disturbances   \* what may go wrong or change, see DisturbanceKinds

DisturbanceKinds ==
    {"requestFails",   \* a call of reconcile fails and has no effect
     "responseLost",   \* a call of reconcile takes effect, but seems to fail
     "deleteFails",    \* a call of delete fails, with or without its effect
     "cleanupFails",   \* a call of reconcileOnErrorCleanup fails
     "crash",          \* the controller stops in the middle of a request
     "rotate",         \* a new SSH key once the last one is reconciled
     "rotateEarly",    \* a new SSH key at any time
     "noSSH",          \* SSH access is switched off: no key in the spec
     "config",         \* provider configs appear and disappear
     "migrate",        \* the control plane moves to another seed
     "recreate"}       \* a shoot of the same name is created again

(***************************************************************************)
(* HCloud identifies an SSH key by a number and by a fingerprint.  KeyID   *)
(* is the number; it never is a fingerprint.                               *)
(***************************************************************************)
KeyID(k) == <<"sshKeyID", k>>

ASSUME ConstantsAssumption ==
    /\ NoKey \notin Keys
    /\ NoNetwork \notin NetworkIDs
    /\ \A k \in Keys : KeyID(k) # NoKey /\ KeyID(k) \notin Keys
    /\ Disturbances \subseteq DisturbanceKinds

(***************************************************************************)
(* The provider configs a request depends on: those of the CloudProfile,   *)
(* the Infrastructure and the control plane, and "zone": the control plane *)
(* zone lies in an HCloud location, or the worker network names its zone.  *)
(***************************************************************************)
ConfigKinds == {"cloudProfile", "infrastructure", "controlPlane", "zone"}

ActuatorConfigs == {"cloudProfile", "infrastructure"}

\* infraConfig.Networks: a nil pointer, no CIDR, or a CIDR for the workers
NetworkRequests == {"unset", "empty", "workers"}

Steps == {"idle", "oldKey", "ensureKey", "ensureNetwork", "patch", "report",
          "cleanupNetwork", "cleanupKey",
          "deleteNetwork", "deleteKey", "finalize"}

Status      == [key : Keys \cup {NoKey}, network : NetworkIDs \cup {NoNetwork}]
EmptyStatus == [key |-> NoKey, network |-> NoNetwork]

MethodData  == [sshKeyID  : {KeyID(k) : k \in Keys} \cup {NoKey},
                networkID : NetworkIDs \cup {NoNetwork}]
NoMethodData == [sshKeyID |-> NoKey, networkID |-> NoNetwork]

\* The Infrastructure object as a request read it, and its cluster's zone
Requests  == [key : Keys \cup {NoKey}, status : Status,
              networks : NetworkRequests, zoneKnown : BOOLEAN]
NoRequest == [key |-> NoKey, status |-> EmptyStatus,
              networks |-> "unset", zoneKnown |-> FALSE]

VARIABLES
    sshKeys,    \* HCloud: fingerprints of the project's SSH keys
    network,    \* HCloud: the network named "<namespace>-workers"
    infra,      \* API server: the Infrastructure object
    configs,    \* API server: the provider configs that are set
    step,       \* controller: the call the request in flight makes next
    request,    \* controller: the object the request in flight has read
    methodData, \* controller: InfrastructureReconcileMethodData
    workers,    \* controller: the network ID EnsureNetworks has returned
    served,     \* history: what the last successful reconcile has published
    calm        \* no disturbance happens any more

cloud      == <<sshKeys, network>>
api        == <<infra, configs>>
controller == <<step, request, methodData, workers>>
vars       == <<cloud, api, controller, served, calm>>

InfraObjects ==
    [phase    : {"present", "deleting", "gone"},
     key      : Keys \cup {NoKey},
     networks : NetworkRequests,
     status   : Status,
     lastOp   : {"None", "Processing", "Succeeded", "Error"}]

TypeOK ==
    /\ sshKeys \subseteq Keys
    /\ network \in NetworkIDs \cup {NoNetwork}
    /\ infra \in InfraObjects
    /\ configs \subseteq ConfigKinds
    /\ step \in Steps
    /\ request \in Requests
    /\ methodData \in MethodData
    /\ workers \in NetworkIDs \cup {NoNetwork}
    /\ served \in Status
    /\ calm \in BOOLEAN

-----------------------------------------------------------------------------

Fault(kind) == ~calm /\ kind \in Disturbances

NewInfra(k, n) ==
    [phase |-> "present", key |-> k, networks |-> n,
     status |-> EmptyStatus, lastOp |-> "None"]

Init ==
    /\ sshKeys = {}
    /\ network = NoNetwork
    /\ \E k \in Keys, n \in NetworkRequests : infra = NewInfra(k, n)
    /\ IF "config" \in Disturbances THEN configs \in SUBSET ConfigKinds
                                    ELSE configs = ConfigKinds
    /\ step = "idle"
    /\ request = NoRequest
    /\ methodData = NoMethodData
    /\ workers = NoNetwork
    /\ served = EmptyStatus
    /\ calm = FALSE

-----------------------------------------------------------------------------
(* Requests: how they begin and end.                                       *)

Forget ==
    /\ step' = "idle"
    /\ request' = NoRequest
    /\ methodData' = NoMethodData
    /\ workers' = NoNetwork

\* The request ends; op is what the reconciler reports as last operation.
Return(op) ==
    /\ Forget
    /\ infra' = [infra EXCEPT !.lastOp = op]
    /\ UNCHANGED configs

Begin(first) ==
    /\ step' = first
    /\ request' = [key |-> infra.key, status |-> infra.status,
                   networks |-> infra.networks, zoneKnown |-> "zone" \in configs]
    /\ infra' = [infra EXCEPT !.lastOp = "Processing"]
    /\ UNCHANGED <<methodData, workers, configs>>

\* The request goes on with its next call, or fails and starts to clean up.
Continue(next) == step' = next /\ UNCHANGED request

Failed == step' = "cleanupNetwork" /\ UNCHANGED <<request, methodData, workers>>

\* reconcile: every config is there and the spec names a key.
Reconcilable == configs \ {"zone"} = ConfigKinds \ {"zone"} /\ infra.key # NoKey

\* Reconcile, and Restore on the new seed, which calls Reconcile.
StartReconcile ==
    /\ step = "idle"
    /\ infra.phase = "present"
    /\ Reconcilable
    /\ Begin("oldKey")
    /\ UNCHANGED <<cloud, served, calm>>

\* A config is missing or the secret is unreadable.  Nothing was created, so
\* reconcileOnErrorCleanup has nothing to do.
RejectReconcile ==
    /\ step = "idle"
    /\ infra.phase = "present"
    /\ ~Reconcilable \/ Fault("requestFails")
    /\ Return("Error")
    /\ UNCHANGED <<cloud, served, calm>>

-----------------------------------------------------------------------------
(* EnsureSSHPublicKey and EnsureNetworks.                                  *)

DropKey(fingerprint) == sshKeys' = sshKeys \ {fingerprint} /\ UNCHANGED network
AddKey(k)            == sshKeys' = sshKeys \cup {k} /\ UNCHANGED network
DropNetwork          == network' = NoNetwork /\ UNCHANGED sshKeys

\* An ID no one has seen yet
FreshNetworkIDs ==
    NetworkIDs \ {network, infra.status.network, request.status.network,
                  served.network}

AddNetwork(id) ==
    /\ id \in FreshNetworkIDs
    /\ network' = id
    /\ UNCHANGED sshKeys

\* Mutants: the old key goes on every reconcile, or never.
KeyAlwaysRotated == request.status.key # NoKey
KeyNeverRotated  == FALSE

\* The spec has another key than the one the status records.
KeyRotated == request.status.key \notin {request.key, NoKey}

KeepOldKey ==
    /\ step = "oldKey"
    /\ ~KeyRotated
    /\ Continue("ensureKey")
    /\ UNCHANGED <<cloud, api, methodData, workers, served, calm>>

DeleteOldKey ==
    /\ step = "oldKey"
    /\ KeyRotated
    /\ DropKey(request.status.key)
    /\ Continue("ensureKey")
    /\ UNCHANGED <<api, methodData, workers, served, calm>>

AdoptKey ==
    /\ step = "ensureKey"
    /\ request.key \in sshKeys
    /\ Continue("ensureNetwork")
    /\ UNCHANGED <<cloud, api, methodData, workers, served, calm>>

CreateKey ==
    /\ step = "ensureKey"
    /\ request.key \notin sshKeys
    /\ AddKey(request.key)
    /\ methodData' = [methodData EXCEPT !.sshKeyID = KeyID(request.key)]
    /\ Continue("ensureNetwork")
    /\ UNCHANGED <<api, workers, served, calm>>

NoNetworkRequested ==
    /\ step = "ensureNetwork"
    /\ request.networks = "empty"
    /\ Continue("patch")
    /\ UNCHANGED <<cloud, api, methodData, workers, served, calm>>

\* networks.WorkersConfiguration of a nil pointer: a panic, which leaves the
\* actuator without a cleanup and the last operation as it is.
NetworksUnset ==
    /\ step = "ensureNetwork"
    /\ request.networks = "unset"
    /\ Forget
    /\ UNCHANGED <<cloud, api, served, calm>>

LocationUnknown ==
    /\ step = "ensureNetwork"
    /\ request.networks = "workers"
    /\ ~request.zoneKnown
    /\ Failed
    /\ UNCHANGED <<cloud, api, served, calm>>

\* GetByName finds the network, whoever created it.
AdoptNetwork ==
    /\ step = "ensureNetwork"
    /\ request.networks = "workers" /\ request.zoneKnown
    /\ network # NoNetwork
    /\ workers' = network
    /\ Continue("patch")
    /\ UNCHANGED <<cloud, api, methodData, served, calm>>

CreateNetwork ==
    /\ step = "ensureNetwork"
    /\ request.networks = "workers" /\ request.zoneKnown
    /\ network = NoNetwork
    /\ \E id \in NetworkIDs :
          /\ AddNetwork(id)
          /\ workers' = id
          /\ methodData' = [methodData EXCEPT !.networkID = id]
    /\ Continue("patch")
    /\ UNCHANGED <<api, served, calm>>

-----------------------------------------------------------------------------
(* The provider status, and the end of a reconcile.                        *)

\* Mutants: a network ID that is recorded is kept; so is the whole status.
RecordStatusKeepingID ==
    /\ infra' = [infra EXCEPT !.status = [key |-> request.key,
          network |-> IF @.network # NoNetwork THEN @.network ELSE workers]]
    /\ UNCHANGED configs

RecordStatusOnce ==
    /\ infra' = IF infra.status = EmptyStatus
                THEN [infra EXCEPT !.status = [key |-> request.key, network |-> workers]]
                ELSE infra
    /\ UNCHANGED configs

\* updateProviderStatus with the status reconcile has put together
RecordStatus ==
    /\ infra' = [infra EXCEPT !.status = [key |-> request.key, network |-> workers]]
    /\ UNCHANGED configs

PatchStatus ==
    /\ step = "patch"
    /\ RecordStatus
    /\ Continue("report")
    /\ UNCHANGED <<cloud, methodData, workers, served, calm>>

\* Gardener's reconciler sets the last operation; the workers are deployed
\* with what the status holds from here on.
ReportSuccess ==
    /\ step = "report"
    /\ Return("Succeeded")
    /\ served' = infra.status
    /\ UNCHANGED <<cloud, calm>>

\* Mutant: the cleanup does not ask who has created the network.
CleanupAnyNetwork ==
    /\ step = "cleanupNetwork"
    /\ DropNetwork
    /\ Continue("cleanupKey")
    /\ UNCHANGED <<api, methodData, workers, served, calm>>

\* reconcileOnErrorCleanup: the network is looked up by name.
CleanupNetwork ==
    /\ step = "cleanupNetwork"
    /\ IF methodData.networkID # NoNetwork THEN DropNetwork ELSE UNCHANGED cloud
    /\ Continue("cleanupKey")
    /\ UNCHANGED <<api, methodData, workers, served, calm>>

\* The key is looked up by a fingerprint, for which the code passes its ID.
CleanupKey ==
    /\ step = "cleanupKey"
    /\ DropKey(methodData.sshKeyID)
    /\ Return("Error")
    /\ UNCHANGED <<served, calm>>

-----------------------------------------------------------------------------
(* delete.                                                                 *)

Remove ==
    /\ Forget
    /\ infra' = [infra EXCEPT !.phase = "gone", !.status = EmptyStatus,
                              !.lastOp = "None"]
    /\ served' = EmptyStatus
    /\ UNCHANGED configs

StartDelete ==
    /\ step = "idle"
    /\ infra.phase = "deleting"
    /\ ActuatorConfigs \subseteq configs
    /\ Begin("deleteNetwork")
    /\ UNCHANGED <<cloud, served, calm>>

\* MissingProviderConfig: delete returns without an error, and the finalizer
\* goes.
DeleteUnconfigured ==
    /\ step = "idle"
    /\ infra.phase = "deleting"
    /\ ~(ActuatorConfigs \subseteq configs)
    /\ Remove
    /\ UNCHANGED <<cloud, calm>>

DeleteNetwork ==
    /\ step = "deleteNetwork"
    /\ IF request.status.network # NoNetwork THEN DropNetwork ELSE UNCHANGED cloud
    /\ Continue("deleteKey")
    /\ UNCHANGED <<api, methodData, workers, served, calm>>

\* Mutant: a key that is gone already is an error.
DeleteMissingKeyFails ==
    /\ step = "deleteKey"
    /\ DropKey(request.status.key)
    /\ IF request.status.key \in sshKeys \cup {NoKey}
          THEN Continue("finalize") /\ UNCHANGED <<api, methodData, workers>>
          ELSE Return("Error")
    /\ UNCHANGED <<served, calm>>

DeleteKey ==
    /\ step = "deleteKey"
    /\ DropKey(request.status.key)
    /\ Continue("finalize")
    /\ UNCHANGED <<api, methodData, workers, served, calm>>

\* Gardener's reconciler removes the finalizer, and the object is gone.
Finalize ==
    /\ step = "finalize"
    /\ Remove
    /\ UNCHANGED <<cloud, calm>>

-----------------------------------------------------------------------------
(* Failures.                                                               *)

\* Setting the last operation fails after the actuator has returned.
ReportFails ==
    /\ Fault("requestFails")
    /\ step = "report"
    /\ Forget
    /\ UNCHANGED <<cloud, api, served, calm>>

ReconcileFails ==
    /\ Fault("requestFails")
    /\ step \in {"oldKey", "ensureKey", "ensureNetwork", "patch"}
    /\ step = "oldKey" => KeyRotated
    /\ step = "ensureNetwork" => request.networks = "workers"
    /\ Failed
    /\ UNCHANGED <<cloud, api, served, calm>>

\* Reading the secret, a call of delete, or removing the finalizer fails.
DeleteFails ==
    /\ Fault("deleteFails")
    /\ \/ step = "idle" /\ infra.phase = "deleting" /\ ActuatorConfigs \subseteq configs
       \/ step \in {"deleteNetwork", "deleteKey", "finalize"}
    /\ Return("Error")
    /\ UNCHANGED <<cloud, served, calm>>

\* A call of reconcile takes effect, and its caller sees an error.
AnswerLost ==
    /\ Fault("responseLost")
    /\ \/ step = "oldKey" /\ KeyRotated /\ DropKey(request.status.key) /\ UNCHANGED api
       \/ /\ step = "ensureKey" /\ request.key \notin sshKeys
          /\ AddKey(request.key)
          /\ UNCHANGED api
       \/ /\ step = "ensureNetwork"
          /\ request.networks = "workers" /\ request.zoneKnown
          /\ network = NoNetwork
          /\ \E id \in NetworkIDs : AddNetwork(id)
          /\ UNCHANGED api
       \/ step = "patch" /\ RecordStatus /\ UNCHANGED cloud
    /\ Failed
    /\ UNCHANGED <<served, calm>>

\* The same for a call of delete
DeleteAnswerLost ==
    /\ Fault("deleteFails")
    /\ \/ step = "deleteNetwork" /\ request.status.network # NoNetwork /\ DropNetwork
       \/ step = "deleteKey" /\ DropKey(request.status.key)
    /\ Return("Error")
    /\ UNCHANGED <<served, calm>>

\* Errors of the cleanup are dropped; an unreadable secret ends it at once.
CleanupFails ==
    /\ Fault("cleanupFails")
    /\ \/ step = "cleanupNetwork" /\ Continue("cleanupKey")
          /\ UNCHANGED <<api, methodData, workers>>
       \/ step \in {"cleanupNetwork", "cleanupKey"} /\ Return("Error")
    /\ UNCHANGED <<cloud, served, calm>>

Crash ==
    /\ Fault("crash")
    /\ step # "idle"
    /\ Forget
    /\ UNCHANGED <<cloud, api, served, calm>>

-----------------------------------------------------------------------------
(* What users, operators and Gardener do to the object.                    *)

\* A key pair is generated, so a new key never was in use before.
FreshKeys == Keys \ (sshKeys \cup {infra.key, infra.status.key, served.key,
                                   request.key, request.status.key})

RotateKey ==
    /\ \/ Fault("rotateEarly")
       \/ Fault("rotate") /\ infra.lastOp = "Succeeded"
    /\ infra.phase = "present"
    /\ \E k \in FreshKeys : infra' = [infra EXCEPT !.key = k]
    /\ UNCHANGED <<cloud, configs, controller, served, calm>>

DisableSSHAccess ==
    /\ Fault("noSSH")
    /\ infra.phase = "present"
    /\ infra.key # NoKey
    /\ infra' = [infra EXCEPT !.key = NoKey]
    /\ UNCHANGED <<cloud, configs, controller, served, calm>>

ChangeConfigs ==
    /\ Fault("config")
    /\ \E c \in ConfigKinds :
          configs' = IF c \in configs THEN configs \ {c} ELSE configs \cup {c}
    /\ UNCHANGED <<cloud, infra, controller, served, calm>>

\* Migrate does nothing; the object is created anew on the other seed, where
\* its provider status is empty until Restore.
MigrateToNewSeed ==
    /\ Fault("migrate")
    /\ step = "idle"
    /\ infra.phase = "present"
    /\ infra.lastOp = "Succeeded"
    /\ infra' = [infra EXCEPT !.status = EmptyStatus, !.lastOp = "None"]
    /\ UNCHANGED <<cloud, configs, controller, served, calm>>

RequestDeletion ==
    /\ infra.phase = "present"
    /\ infra' = [infra EXCEPT !.phase = "deleting"]
    /\ UNCHANGED <<cloud, configs, controller, served, calm>>

Recreate ==
    /\ Fault("recreate")
    /\ infra.phase = "gone"
    /\ \E k \in FreshKeys, n \in NetworkRequests : infra' = NewInfra(k, n)
    /\ UNCHANGED <<cloud, configs, controller, served, calm>>

CalmDown ==
    /\ ~calm
    /\ calm' = TRUE
    /\ UNCHANGED <<cloud, api, controller, served>>

\* Nothing is left to do for an object that is gone.
Gone == infra.phase = "gone" /\ step = "idle" /\ UNCHANGED vars

-----------------------------------------------------------------------------

ReconcileStep ==
    \/ StartReconcile
    \/ KeepOldKey \/ DeleteOldKey \/ AdoptKey \/ CreateKey
    \/ NoNetworkRequested \/ NetworksUnset \/ LocationUnknown
    \/ AdoptNetwork \/ CreateNetwork
    \/ PatchStatus \/ ReportSuccess
    \/ CleanupNetwork \/ CleanupKey

DeleteStep ==
    \/ StartDelete \/ DeleteUnconfigured
    \/ DeleteNetwork \/ DeleteKey \/ Finalize

Failure ==
    \/ ReconcileFails \/ ReportFails \/ DeleteFails \/ AnswerLost \/ DeleteAnswerLost
    \/ CleanupFails \/ Crash

Environment ==
    \/ RotateKey \/ DisableSSHAccess \/ ChangeConfigs \/ MigrateToNewSeed
    \/ RequestDeletion \/ Recreate \/ CalmDown

Next == ReconcileStep \/ RejectReconcile \/ DeleteStep \/ Failure \/ Environment \/ Gone

Spec == Init /\ [][Next]_vars

-----------------------------------------------------------------------------
(* Properties.                                                             *)

\* While a shoot lives, no reconcile, failed or not, and no cleanup takes the
\* network away that its workers have been attached to since the last
\* successful reconcile (EnsureNetworksDeleted deletes by name).
ServedNetworkKept ==
    infra.phase = "present" /\ served.network # NoNetwork =>
        network = served.network

\* The key the machines were last given stays in the project as long as the
\* spec still names it: only a rotation removes it (EnsureSSHPublicKey).
ServedKeyKept ==
    infra.phase = "present" /\ served.key = infra.key /\ infra.key # NoKey =>
        infra.key \in sshKeys

\* A last operation that succeeded means that what the status records exists:
\* no lost answer, crash or cleanup leaves the ID of a deleted network behind.
SuccessMeansEnsured ==
    infra.phase = "present" /\ infra.lastOp = "Succeeded" =>
        /\ infra.status.key \in sshKeys
        /\ infra.status.network =
              IF infra.networks = "workers" THEN network ELSE NoNetwork
        /\ infra.networks = "workers" => network # NoNetwork

\* The cleanup deletes by name, yet never another network than the one that
\* the failed reconcile has created (reconcileOnErrorCleanup).
CleanupDeletesOwnNetwork ==
    [][step = "cleanupNetwork" /\ network' # network =>
          network = methodData.networkID]_vars

\* A network is tracked while there is somebody who will still delete it: the
\* status that records it, or the cleanup of the request that has created it.
NetworkTracked ==
    \/ network \in {NoNetwork, infra.status.network}
    \/ network = methodData.networkID /\ step # "cleanupKey"

\* However requests are rejected, fail and are retried, a network is lost track
\* of only where the code cannot help it: the answer of its creation is lost,
\* its cleanup fails, the controller crashes, the control plane moves, or the
\* configs are gone at the deletion (reconcileOnErrorCleanup, delete).
NetworkStaysTracked ==
    [][NetworkTracked =>
          \/ NetworkTracked'
          \/ AnswerLost /\ step = "ensureNetwork"
          \/ CleanupFails \/ Crash \/ MigrateToNewSeed \/ DeleteUnconfigured]_vars

\* Retries adopt the key of the failed attempt: however many attempts fail,
\* crash or lose an answer, a success finds one key, the one recorded.
KeysConverge ==
    infra.phase = "present" /\ infra.lastOp = "Succeeded" =>
        sshKeys = {infra.status.key}

\* Deletion after a success removes everything, however often its own calls
\* fail, lose their answers or crash, and whatever had failed before (delete).
DeletionLeavesNothing ==
    [](infra.phase = "deleting" /\ infra.lastOp = "Succeeded"
          => [](infra.phase = "gone" => sshKeys = {} /\ network = NoNetwork))

\* actuator_reconcile.go:90: reconcileOnErrorCleanup "cleans up a failed
\* reconcile request": when it has gone through, the key that this very request
\* has created is none of the project's any more.
FailedReconcileLeavesNoKey ==
    [][CleanupKey /\ methodData.sshKeyID # NoKey => request.key \notin sshKeys']_vars

Ready ==
    /\ infra.phase = "present"
    /\ infra.lastOp = "Succeeded"
    /\ infra.status.key = infra.key
    /\ infra.key \in sshKeys
    /\ infra.networks = "workers" => network # NoNetwork

\* What the machines of a living shoot may rely on
Offer == [key     |-> IF infra.phase = "present" /\ served.key = infra.key
                         THEN served.key ELSE NoKey,
          network |-> IF infra.phase = "present" THEN served.network ELSE NoNetwork]

Contract == INSTANCE WorkerPrerequisites
                WITH keys <- sshKeys, net <- network, offer <- Offer

\* The actuator keeps its promise to the worker controller: what a successful
\* reconcile has published stays until a rotation or the deletion begins.
ImplementsContract == Contract!Spec

-----------------------------------------------------------------------------
(* The invariant that carries the proofs, as its named parts.              *)

AfterKey     == {"ensureNetwork", "patch", "report"}
AfterNetwork == {"patch", "report"}
DeleteSteps  == {"deleteNetwork", "deleteKey", "finalize"}

\* A reconcile that handles keys has been given one.
KeyInv == step \in {"oldKey", "ensureKey"} => request.key # NoKey

\* Between requests the controller remembers nothing; during one the object
\* is there, in processing, and has the networks the request has read.
RequestInv ==
    /\ step = "idle" =>
          request = NoRequest /\ methodData = NoMethodData /\ workers = NoNetwork
    /\ step # "idle" =>
          /\ infra.phase # "gone"
          /\ infra.lastOp = "Processing"
          /\ request.networks = infra.networks
    /\ step \in DeleteSteps => infra.phase = "deleting" /\ methodData = NoMethodData

\* A request that deletes the old key of a rotation does not read it as new,
\* and past the two ensurers their results exist.
EnsuredInv ==
    /\ step = "oldKey" /\ KeyRotated => request.status.key # infra.key
    /\ step \in {"oldKey", "ensureKey"} => methodData = NoMethodData
    /\ step = "ensureNetwork" => methodData.networkID = NoNetwork
    /\ step \in {"oldKey", "ensureKey", "ensureNetwork"} => workers = NoNetwork
    /\ step \in AfterKey => request.key \in sshKeys
    /\ step \in AfterNetwork =>
          /\ infra.networks # "unset"
          /\ workers = IF infra.networks = "workers" THEN network ELSE NoNetwork
          /\ infra.networks = "workers" => network # NoNetwork
    /\ step = "report" => infra.status = [key |-> request.key, network |-> workers]

\* The network this request has created is the one of that name, and no
\* worker uses it yet.
OwnNetworkInv ==
    methodData.networkID # NoNetwork /\ step # "cleanupKey" =>
        /\ network = methodData.networkID
        /\ infra.networks = "workers"
        /\ infra.phase = "present" => served.network = NoNetwork

ServedInv ==
    /\ ServedNetworkKept
    /\ ServedKeyKept
    /\ infra.phase = "present" /\ served.network # NoNetwork => infra.networks = "workers"
    /\ infra.phase = "gone" => served = EmptyStatus

\* What a status has recorded: only shoots with a worker network record one,
\* a deletion works on the status as it is, and past its first call the
\* recorded network is gone.
RecordedInv ==
    /\ infra.status.network # NoNetwork => infra.networks = "workers"
    /\ infra.phase = "gone" => infra.status = EmptyStatus
    /\ step \in DeleteSteps => request.status = infra.status
    /\ step \in {"deleteKey", "finalize"} /\ infra.status.network # NoNetwork =>
          network = NoNetwork

IInv ==
    /\ TypeOK
    /\ KeyInv
    /\ RequestInv
    /\ EnsuredInv
    /\ RecordedInv
    /\ OwnNetworkInv
    /\ ServedInv
    /\ SuccessMeansEnsured

-----------------------------------------------------------------------------
(* What KeysConverge and DeletionLeavesNothing need in addition.           *)

\* A key rotates only once the last one is recorded, and the status that records
\* it is neither emptied nor that of another life of the shoot.
OrderlyRotation == Disturbances \cap {"rotateEarly", "migrate", "recreate"} = {}

\* Provider configs are there as long as the shoot is.
LastingConfigs == "config" \notin Disturbances

ReconcileSteps == Steps \ (DeleteSteps \cup {"idle"})

\* The project has at most the recorded key and the one that the spec, or the
\* request that began with it, will adopt; a success leaves the recorded one, and
\* the recorded network.
ConvergenceInv ==
    infra.phase # "gone" =>
        /\ network # NoNetwork => infra.networks = "workers"
        /\ infra.lastOp = "Succeeded" =>
              sshKeys \subseteq {infra.status.key} /\ network \in {NoNetwork, infra.status.network}
        /\ step \notin ReconcileSteps /\ infra.key # NoKey =>
              sshKeys \subseteq {infra.status.key, infra.key}
        /\ step \in ReconcileSteps =>
              /\ infra.key \in {request.key, NoKey}
              /\ sshKeys \subseteq {infra.status.key, request.key}
        /\ step \in {"oldKey", "ensureKey", "ensureNetwork", "patch"} => request.status = infra.status
        /\ step \in {"ensureKey"} \cup AfterKey => sshKeys \subseteq {request.key}

\* A deletion that began after a success: all there is is recorded, and what its
\* calls have removed stays away.
ClearingInv ==
    /\ infra.phase # "present"
    /\ step \in {"idle"} \cup DeleteSteps
    /\ ActuatorConfigs \subseteq configs
    /\ sshKeys \subseteq {infra.status.key}
    /\ network \in {NoNetwork, infra.status.network}
    /\ step \in {"deleteKey", "finalize"} => network = NoNetwork
    /\ step = "finalize" \/ infra.phase = "gone" => sshKeys = {}
    /\ infra.phase = "gone" => network = NoNetwork
=============================================================================
