------------------------------ MODULE ShootFlow ------------------------------
(***************************************************************************)
(* Infrastructure and Worker of one shoot, in the order gardenlet deploys  *)
(* and deletes them.  The machine classes name the SSH key by the          *)
(* fingerprint that the Infrastructure's status had when gardenlet copied  *)
(* it into the Worker, and the network by its name (generateMachineConfig).*)
(* MCM looks both up when it creates a machine, at any later time: a       *)
(* rotation, a failed reconcile or a deletion of the Infrastructure may    *)
(* have come in between.                                                   *)
(*                                                                         *)
(* The Infrastructure is the one of module Infrastructure, on one seed, in *)
(* one life of the shoot and with its configs; of a Worker's request only  *)
(* what concerns key and network is kept.                                  *)
(***************************************************************************)
EXTENDS Infrastructure

VARIABLES
    shoot,      \* garden: whether the shoot is to be there
    worker,     \* API server: the Worker object
    class,      \* seed: the sshFingerprint of the machine classes
    machines,   \* HCloud: there are machines
    workStep,   \* worker controller: where the request in flight is
    workRequest \* worker controller: what it has read

delegate == <<class, workStep, workRequest>>
flow     == <<shoot, worker, machines, delegate>>
flowVars == <<vars, flow>>

\* worker.Spec: the public key, and the infrastructureProviderStatus
WorkerSpecs == [publicKey : Keys \cup {NoKey}, status : Status]
Workers     == [phase : {"none", "present", "deleting"}, spec : WorkerSpecs, observed : BOOLEAN]
Delegates   == [deletes : BOOLEAN, spec : WorkerSpecs]

NoSpec   == [publicKey |-> NoKey, status |-> EmptyStatus]
NoWorker == [phase |-> "none", spec |-> NoSpec, observed |-> FALSE]
NoWork   == [deletes |-> FALSE, spec |-> NoSpec]

FlowTypeOK ==
    /\ TypeOK
    /\ shoot \in {"present", "deleting"}
    /\ worker \in Workers
    /\ class \in Keys \cup {NoKey}
    /\ machines \in BOOLEAN
    /\ workStep \in {"idle", "render", "machines"}
    /\ workRequest \in Delegates

FlowInit ==
    /\ Init
    /\ shoot = "present"
    /\ worker = NoWorker
    /\ class = NoKey
    /\ machines = FALSE
    /\ workStep = "idle"
    /\ workRequest = NoWork

-----------------------------------------------------------------------------
(* gardenlet.                                                              *)

SpecToDeploy == [publicKey |-> infra.key, status |-> infra.status]

\* Once the Infrastructure is ready for its present spec, the Worker is given its
\* status.
DeployWorker ==
    /\ shoot = "present"
    /\ Ready
    /\ worker.phase # "deleting"
    /\ worker.phase = "none" \/ worker.spec # SpecToDeploy
    /\ worker' = [phase |-> "present", spec |-> SpecToDeploy, observed |-> FALSE]
    /\ UNCHANGED <<vars, shoot, machines, delegate>>

DeleteShoot ==
    /\ ~calm
    /\ shoot = "present"
    /\ shoot' = "deleting"
    /\ UNCHANGED <<vars, worker, machines, delegate>>

DeleteWorker ==
    /\ shoot = "deleting"
    /\ worker.phase = "present"
    /\ worker' = [worker EXCEPT !.phase = "deleting"]
    /\ UNCHANGED <<vars, shoot, machines, delegate>>

DeleteInfrastructure ==
    /\ shoot = "deleting"
    /\ worker.phase = "none"
    /\ RequestDeletion
    /\ UNCHANGED flow

-----------------------------------------------------------------------------
(* The worker controller.                                                  *)

GoIdle == workStep' = "idle" /\ workRequest' = NoWork

StartWork ==
    /\ workStep = "idle"
    /\ worker.phase # "none"
    /\ ~worker.observed \/ worker.phase = "deleting"
    /\ workStep' = "render"
    /\ workRequest' = [deletes |-> worker.phase = "deleting", spec |-> worker.spec]
    /\ UNCHANGED <<vars, shoot, worker, machines, class>>

\* infraStatus.SSHFingerprint, or that of the Worker's own key
SSHFingerprint(spec) ==
    IF spec.status.key # NoKey THEN spec.status.key ELSE spec.publicKey

\* Mutant: a class that is there is taken as it is, as its name does not tell the key.
RenderClassOnce ==
    /\ workStep = "render"
    /\ class' = IF class # NoKey THEN class ELSE SSHFingerprint(workRequest.spec)
    /\ workStep' = "machines"
    /\ UNCHANGED <<vars, shoot, worker, machines, workRequest>>

\* generateMachineConfig and DeployMachineClasses; a deletion renders, too.
RenderClass ==
    /\ workStep = "render"
    /\ SSHFingerprint(workRequest.spec) # NoKey
    /\ class' = SSHFingerprint(workRequest.spec)
    /\ workStep' = "machines"
    /\ UNCHANGED <<vars, shoot, worker, machines, workRequest>>

ReportMachines ==
    /\ workStep = "machines"
    /\ ~workRequest.deletes
    /\ machines
    /\ worker' = [worker EXCEPT !.observed = (worker.spec = workRequest.spec)]
    /\ GoIdle
    /\ UNCHANGED <<vars, shoot, machines, class>>

WaitTimesOut ==
    /\ workStep = "machines"
    /\ ~workRequest.deletes
    /\ ~machines
    /\ GoIdle
    /\ UNCHANGED <<vars, shoot, worker, machines, class>>

FinishDeletion ==
    /\ workStep = "machines"
    /\ workRequest.deletes
    /\ ~machines
    /\ worker' = NoWorker
    /\ class' = NoKey
    /\ GoIdle
    /\ UNCHANGED <<vars, shoot, machines>>

WorkFails ==
    /\ Fault("requestFails") \/ Fault("crash")
    /\ workStep # "idle"
    /\ GoIdle
    /\ UNCHANGED <<vars, shoot, worker, machines, class>>

-----------------------------------------------------------------------------
(* machine-controller-manager: looks up the key and the network.           *)

CreateMachines ==
    /\ class # NoKey
    /\ ~(workRequest.deletes /\ workStep = "machines")
    /\ class \in sshKeys
    /\ network # NoNetwork
    /\ ~machines
    /\ machines' = TRUE
    /\ UNCHANGED <<vars, shoot, worker, delegate>>

DeleteMachines ==
    /\ workRequest.deletes /\ workStep = "machines"
    /\ machines
    /\ machines' = FALSE
    /\ UNCHANGED <<vars, shoot, worker, delegate>>

-----------------------------------------------------------------------------

Gardenlet == DeployWorker \/ DeleteWorker \/ DeleteInfrastructure

Work == StartWork \/ RenderClass \/ ReportMachines \/ WaitTimesOut \/ FinishDeletion

MCM == CreateMachines \/ DeleteMachines

Actuator == (ReconcileStep \/ RejectReconcile \/ DeleteStep \/ Failure \/ Gone) /\ UNCHANGED flow

\* A rotation generates a key that the worker's side has never seen, either.
RotateToUnusedKey ==
    /\ RotateKey
    /\ \A spec \in {worker.spec, workRequest.spec} :
          infra'.key \notin {class, spec.publicKey, spec.status.key}

Surroundings ==
    (RotateToUnusedKey \/ DisableSSHAccess \/ CalmDown) /\ UNCHANGED flow

FlowNext ==
    \/ Actuator \/ Surroundings
    \/ Gardenlet \/ DeleteShoot \/ Work \/ WorkFails \/ MCM

FlowSpec == FlowInit /\ [][FlowNext]_flowVars

\* Both controllers and MCM retry.  gardenlet waits until it finds the Infrastructure
\* ready, which it is between two reconciles, again and again.
FairFlow ==
    /\ FlowSpec
    /\ WF_flowVars(ReconcileStep /\ UNCHANGED flow)
    /\ WF_flowVars(DeleteStep /\ UNCHANGED flow)
    /\ SF_flowVars(Gardenlet) /\ WF_flowVars(Work) /\ WF_flowVars(MCM)

-----------------------------------------------------------------------------
(* Properties.                                                             *)

\* The network that a machine class names exists from the first rendering until the
\* Worker is gone, so that MCM can attach machines at any time, whatever becomes of
\* the requests for the Infrastructure (networkName, EnsureNetworksDeleted).
ClassesHaveNetwork == class # NoKey /\ infra.networks = "workers" => network # NoNetwork

\* The key that a class names is missing in the window between a rotation and the
\* next rendering, and at no other time (sshFingerprint, EnsureSSHPublicKey).
KeyMissingOnlyInRotation == class \notin sshKeys \cup {NoKey} => class # infra.key

OnCurrentKey == worker.observed /\ class = infra.key /\ class \in sshKeys /\ machines

\* Once nothing is disturbed any more, a shoot whose configs are complete becomes ready,
\* whatever failures, crashes and lost answers have left behind, and the window of a
\* rotation closes: its machine classes name the key of the spec, that key exists, and
\* there are machines, although the name of a class does not depend on the key.
EventuallyOnCurrentKey ==
    calm /\ shoot = "present" /\ configs = ConfigKinds
        /\ infra.key # NoKey /\ infra.networks # "unset"
        ~> Ready /\ (infra.networks = "workers" => OnCurrentKey)

\* A shoot in deletion goes away, Worker first, whichever keys and networks its
\* machine classes still name.
EventuallyAllGone ==
    calm /\ shoot = "deleting" ~> infra.phase = "gone" /\ class = NoKey /\ ~machines

-----------------------------------------------------------------------------
(* The invariant that carries the proofs, as its named parts.              *)

\* The keys that the Worker's side knows
KeysInUse == {class} \cup
    UNION {{spec.publicKey, spec.status.key} : spec \in {worker.spec, workRequest.spec}}

\* The Infrastructure outlives the Worker, and the Worker what is made for it.
OrderInv ==
    /\ worker.phase # "none" => infra.phase = "present"
    /\ worker.phase = "none" => worker = NoWorker /\ class = NoKey /\ workStep = "idle"
    /\ workStep = "idle" => workRequest = NoWork

\* What the Worker was deployed with has been published before.
PublishedInv ==
    /\ infra.phase = "present" /\ infra.lastOp = "Succeeded" => served = infra.status
    /\ worker.phase # "none" /\ infra.networks = "workers" => served.network # NoNetwork

\* A key in use that the spec names is the one published last; a reconcile that
\* does not know it yet began before it was in use.
KeyUseInv ==
    infra.key \in KeysInUse \ {NoKey} =>
        /\ served.key = infra.key
        /\ step \in AfterKey \cup {"oldKey", "ensureKey"} => request.key = infra.key

FlowInv == OrderInv /\ PublishedInv /\ KeyUseInv
=============================================================================
