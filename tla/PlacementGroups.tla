--------------------------- MODULE PlacementGroups --------------------------
(***************************************************************************)
(* The worker delegate (pkg/controller/worker) and the placement groups it *)
(* keeps in the HCloud project: one per pool that asks for one, found by   *)
(* name, recorded in the Worker's provider status by PreReconcileHook,     *)
(* referred to by the machine classes, and deleted by PostDeleteHook.      *)
(*                                                                         *)
(* Gardener's generic actuator drives the delegate, one request per Worker *)
(* at a time.  Every call that changes something is one step; it may fail, *)
(* its answer may be lost, and the process may crash.                      *)
(***************************************************************************)

CONSTANTS
    Pools,         \* names of worker pools
    GroupIDs,      \* IDs that HCloud gives to placement groups (bound)
    NoGroup,       \* no placement group; the ID 0
    Disturbances   \* see DisturbanceKinds

DisturbanceKinds ==
    {"requestFails",   \* a call of the reconcile flow fails
     "responseLost",   \* such a call takes effect, but seems to fail
     "deleteFails",    \* a call of the deletion flow fails, effect or not
     "crash",          \* the controller stops in the middle of a request
     "changePools",    \* pools come and go, and want a group or do not
     "imageRemoved",   \* the pools' image leaves CloudProfile and HCloud
     "migrate",        \* the control plane moves to another seed
     "earlyDeletion"}  \* deletion before a first success

ASSUME ConstantsAssumption ==
    /\ NoGroup \notin GroupIDs
    /\ Disturbances \subseteq DisturbanceKinds

\* A pool of the spec: missing, without a PlacementGroupType, or with one.
\* Any type that is not empty asks for a group of type spread.
PoolKinds == {"absent", "plain", "spread"}

Steps == {"idle", "prepare", "ensure", "patch", "deploy", "images", "report",
          "redeploy", "deleteMachines", "deleteGroups", "finalize"}

GroupOf   == [Pools -> GroupIDs \cup {NoGroup}]
NoGroups  == [p \in Pools |-> NoGroup]
PoolSpecs == [Pools -> PoolKinds]
NoPools   == [p \in Pools |-> "absent"]

VARIABLES
    groups,     \* HCloud: the group named "<namespace>-<pool>"
    worker,     \* API server: the Worker object
    classes,    \* API server: the group each pool's machine class refers to
    machines,   \* there may be machines of these classes
    imageKnown, \* the pools' image is in the CloudProfile or a system image
    step,       \* delegate: the call the request in flight makes next
    request,    \* delegate: w.worker, as the request has read and patched it
    todo,       \* delegate: pools its loop has yet to visit
    found,      \* delegate: placementGroupIDs of EnsurePlacementGroups
    applied,    \* history: the pools of the last successful reconcile
    calm        \* no disturbance happens any more

cluster  == <<groups, worker, classes, machines, imageKnown>>
delegate == <<step, request, todo, found>>
vars     == <<cluster, delegate, applied, calm>>

Workers ==
    [phase   : {"present", "deleting", "gone"},
     pools   : PoolSpecs,
     status  : GroupOf,
     images  : SUBSET Pools,
     lastOp  : {"None", "Processing", "Succeeded", "Error"}]

Requests  == [pools : PoolSpecs, status : GroupOf]
NoRequest == [pools |-> NoPools, status |-> NoGroups]

TypeOK ==
    /\ groups \in GroupOf
    /\ worker \in Workers
    /\ classes \in GroupOf
    /\ machines \in BOOLEAN
    /\ imageKnown \in BOOLEAN
    /\ step \in Steps
    /\ request \in Requests
    /\ todo \subseteq Pools
    /\ found \in GroupOf
    /\ applied \in PoolSpecs
    /\ calm \in BOOLEAN

Init ==
    /\ groups = NoGroups
    /\ \E pools \in PoolSpecs \ {NoPools} :
          worker = [phase |-> "present", pools |-> pools, status |-> NoGroups,
                    images |-> {}, lastOp |-> "None"]
    /\ classes = NoGroups
    /\ machines = FALSE
    /\ imageKnown = TRUE
    /\ step = "idle"
    /\ request = NoRequest
    /\ todo = {}
    /\ found = NoGroups
    /\ applied = NoPools
    /\ calm = FALSE

-----------------------------------------------------------------------------

Fault(kind) == ~calm /\ kind \in Disturbances

Forget ==
    /\ step' = "idle"
    /\ request' = NoRequest
    /\ todo' = {}
    /\ found' = NoGroups

Return(op) ==
    /\ Forget
    /\ worker' = [worker EXCEPT !.lastOp = op]

Begin(first) ==
    /\ step = "idle"
    /\ step' = first
    /\ request' = [pools |-> worker.pools, status |-> worker.status]
    /\ worker' = [worker EXCEPT !.lastOp = "Processing"]
    /\ UNCHANGED <<groups, classes, machines, imageKnown, todo, found, applied, calm>>

StartReconcile == worker.phase = "present" /\ Begin("prepare")

\* Mutant: the groups of pools that want none go first.
PrepareDroppingGroups ==
    /\ step = "prepare"
    /\ step' = "ensure"
    /\ todo' = {p \in Pools : request.pools[p] = "spread"}
    /\ groups' = [p \in Pools |-> IF request.pools[p] = "spread" THEN groups[p] ELSE NoGroup]
    /\ UNCHANGED <<worker, classes, machines, imageKnown, request, found, applied, calm>>

\* PreReconcileHook up to the availability checks.  Its loop over the pools
\* visits those with a PlacementGroupType.
Prepare ==
    /\ step = "prepare"
    /\ step' = "ensure"
    /\ todo' = {p \in Pools : request.pools[p] = "spread"}
    /\ UNCHANGED <<cluster, request, found, applied, calm>>

-----------------------------------------------------------------------------
(* EnsurePlacementGroups.                                                  *)

FreshGroupIDs ==
    GroupIDs \ UNION {{groups[p], classes[p], worker.status[p], request.status[p]} : p \in Pools}

Add(p, id) == groups' = [groups EXCEPT ![p] = id]

AdoptGroup(p) ==
    /\ step = "ensure" /\ p \in todo
    /\ groups[p] # NoGroup
    /\ found' = [found EXCEPT ![p] = groups[p]]
    /\ todo' = todo \ {p}
    /\ UNCHANGED <<cluster, step, request, applied, calm>>

CreateGroup(p) ==
    /\ step = "ensure" /\ p \in todo
    /\ groups[p] = NoGroup
    /\ \E id \in FreshGroupIDs :
          /\ Add(p, id)
          /\ found' = [found EXCEPT ![p] = id]
    /\ todo' = todo \ {p}
    /\ UNCHANGED <<worker, classes, machines, imageKnown, step, request, applied, calm>>

GroupsEnsured ==
    /\ step = "ensure" /\ todo = {}
    /\ step' = "patch"
    /\ UNCHANGED <<cluster, request, todo, found, applied, calm>>

\* Mutant: IDs recorded earlier are kept.
MergedStatus == [p \in Pools |-> IF found[p] # NoGroup THEN found[p] ELSE request.status[p]]

\* The status records the groups of the current pools and no others.
NewStatus == found

RecordGroups == worker' = [worker EXCEPT !.status = NewStatus]

PatchGroups ==
    /\ step = "patch"
    /\ RecordGroups
    /\ request' = [request EXCEPT !.status = NewStatus]
    /\ step' = "deploy"
    /\ UNCHANGED <<groups, classes, machines, imageKnown, todo, found, applied, calm>>

-----------------------------------------------------------------------------
(* Machine classes and the end of a reconcile.                             *)

\* generateMachineConfig and the machineclass chart
Rendered ==
    [p \in Pools |-> IF request.pools[p] = "absent" THEN classes[p] ELSE request.status[p]]

DeployMachineClasses ==
    /\ step \in {"deploy", "redeploy"}
    /\ imageKnown
    /\ classes' = Rendered
    /\ step' = IF step = "deploy" THEN "images" ELSE "deleteMachines"
    /\ UNCHANGED <<groups, worker, machines, imageKnown, request, todo, found, applied, calm>>

\* ErrorMachineImageNotFound, in the flow of a reconcile or of a deletion
ImageNotFound ==
    /\ step \in {"deploy", "redeploy", "images"}
    /\ ~imageKnown
    /\ Return("Error")
    /\ UNCHANGED <<groups, classes, machines, imageKnown, applied, calm>>

\* w.machineImages is never set: the image list of the status stays empty.
\* The machine deployments follow, and with them the machines.
UpdateMachineImagesStatus ==
    /\ step = "images"
    /\ imageKnown
    /\ worker' = [worker EXCEPT !.status = request.status, !.images = {}]
    /\ step' = "report"
    /\ machines' = TRUE
    /\ UNCHANGED <<groups, classes, imageKnown, request, todo, found, applied, calm>>

\* The machines are there, and the machine classes of other pools go.
ReportSuccess ==
    /\ step = "report"
    /\ Return("Succeeded")
    /\ classes' = [p \in Pools |-> IF request.pools[p] = "absent" THEN NoGroup ELSE classes[p]]
    /\ applied' = request.pools
    /\ UNCHANGED <<groups, machines, imageKnown, calm>>

-----------------------------------------------------------------------------
(* Deletion.                                                               *)

StartDelete == worker.phase = "deleting" /\ Begin("redeploy")

MachinesGone ==
    /\ step = "deleteMachines"
    /\ classes' = NoGroups
    /\ machines' = FALSE
    /\ step' = "deleteGroups"
    /\ todo' = {p \in Pools : request.pools[p] # "absent"}
    /\ UNCHANGED <<groups, worker, imageKnown, request, found, applied, calm>>

\* EnsurePlacementGroupDeleted looks the recorded ID up; the ID 0 and an ID
\* that is gone are no error.
Deleted(id) == [p \in Pools |-> IF groups[p] = id THEN NoGroup ELSE groups[p]]

\* Mutant: an ID that is gone is an error.
DeleteGroupStrict(p) ==
    /\ step = "deleteGroups" /\ p \in todo
    /\ \/ request.status[p] = NoGroup
       \/ \E q \in Pools : groups[q] = request.status[p]
    /\ groups' = Deleted(request.status[p])
    /\ todo' = todo \ {p}
    /\ UNCHANGED <<worker, classes, machines, imageKnown, step, request, found, applied, calm>>

\* A pool of PostDeleteHook's loop
DeleteGroup(p) ==
    /\ step = "deleteGroups" /\ p \in todo
    /\ groups' = Deleted(request.status[p])
    /\ todo' = todo \ {p}
    /\ UNCHANGED <<worker, classes, machines, imageKnown, step, request, found, applied, calm>>

\* Mutant: the loop returns before its last pool.
GroupsDeletedEarly ==
    /\ step = "deleteGroups"
    /\ step' = "finalize"
    /\ UNCHANGED <<cluster, request, todo, found, applied, calm>>

GroupsDeleted ==
    /\ step = "deleteGroups" /\ todo = {}
    /\ step' = "finalize"
    /\ UNCHANGED <<cluster, request, todo, found, applied, calm>>

Finalize ==
    /\ step = "finalize"
    /\ Forget
    /\ worker' = [worker EXCEPT !.phase = "gone"]
    /\ UNCHANGED <<groups, classes, machines, imageKnown, applied, calm>>

-----------------------------------------------------------------------------
(* Failures.  A request that fails is retried from its beginning.          *)

ReconcileFails ==
    /\ Fault("requestFails")
    /\ step \in {"prepare", "ensure", "patch", "deploy", "images", "report"}
    /\ Return("Error")
    /\ UNCHANGED <<groups, classes, machines, imageKnown, applied, calm>>

AnswerLost ==
    /\ Fault("responseLost")
    /\ Forget
    /\ \/ /\ step = "ensure"
          /\ \E p \in todo, id \in FreshGroupIDs : groups[p] = NoGroup /\ Add(p, id)
          /\ UNCHANGED <<worker, classes>>
       \/ step = "patch" /\ RecordGroups /\ UNCHANGED <<groups, classes>>
       \/ step = "deploy" /\ imageKnown /\ classes' = Rendered /\ UNCHANGED <<groups, worker>>
    /\ UNCHANGED <<machines, imageKnown, applied, calm>>

DeleteFails ==
    /\ Fault("deleteFails")
    /\ \/ /\ step \in {"redeploy", "deleteMachines", "deleteGroups", "finalize"}
          /\ UNCHANGED groups
       \/ /\ step = "deleteGroups"
          /\ \E p \in todo : groups' = Deleted(request.status[p])
    /\ Return("Error")
    /\ UNCHANGED <<classes, machines, imageKnown, applied, calm>>

Crash ==
    /\ Fault("crash")
    /\ step # "idle"
    /\ Forget
    /\ UNCHANGED <<cluster, applied, calm>>

-----------------------------------------------------------------------------
(* What users, operators and Gardener do.                                  *)

ChangePools ==
    /\ Fault("changePools")
    /\ worker.phase = "present"
    /\ \E p \in Pools, kind \in PoolKinds :
          /\ [worker.pools EXCEPT ![p] = kind] # NoPools
          /\ worker' = [worker EXCEPT !.pools[p] = kind]
    /\ UNCHANGED <<groups, classes, machines, imageKnown, delegate, applied, calm>>

RemoveImage ==
    /\ Fault("imageRemoved")
    /\ imageKnown' = ~imageKnown
    /\ UNCHANGED <<groups, worker, classes, machines, delegate, applied, calm>>

\* The status does not move along; the machines and their classes do.
MigrateToNewSeed ==
    /\ Fault("migrate")
    /\ step = "idle"
    /\ worker.phase = "present" /\ worker.lastOp = "Succeeded"
    /\ worker' = [worker EXCEPT !.status = NoGroups, !.lastOp = "None"]
    /\ UNCHANGED <<groups, classes, machines, imageKnown, delegate, applied, calm>>

RequestDeletion ==
    /\ ~calm
    /\ worker.phase = "present"
    /\ worker.lastOp = "Succeeded" \/ "earlyDeletion" \in Disturbances
    /\ worker' = [worker EXCEPT !.phase = "deleting"]
    /\ UNCHANGED <<groups, classes, machines, imageKnown, delegate, applied, calm>>

CalmDown ==
    /\ ~calm
    /\ calm' = TRUE
    /\ UNCHANGED <<cluster, delegate, applied>>

Gone == worker.phase = "gone" /\ UNCHANGED vars

-----------------------------------------------------------------------------

ReconcileStep ==
    \/ StartReconcile \/ Prepare
    \/ \E p \in Pools : AdoptGroup(p) \/ CreateGroup(p)
    \/ GroupsEnsured \/ PatchGroups
    \/ UpdateMachineImagesStatus \/ ReportSuccess

DeleteStep ==
    \/ StartDelete \/ MachinesGone
    \/ \E p \in Pools : DeleteGroup(p)
    \/ GroupsDeleted \/ Finalize

RequestStep == ReconcileStep \/ DeleteStep \/ DeployMachineClasses \/ ImageNotFound

Failure == ReconcileFails \/ AnswerLost \/ DeleteFails \/ Crash

Environment ==
    \/ ChangePools \/ RemoveImage \/ MigrateToNewSeed \/ RequestDeletion \/ CalmDown

Next == RequestStep \/ Failure \/ Environment \/ Gone

Spec == Init /\ [][Next]_vars

\* The workqueue retries a Worker until it is reconciled or gone.
FairSpec == Spec /\ WF_vars(RequestStep)

-----------------------------------------------------------------------------
(* Properties.                                                             *)

\* As long as there can be machines, no machine class refers to a group that is
\* gone: groups are deleted after the machines only, and no retry, lost answer or
\* request for deletion in the middle of a reconcile brings a stale ID back.  (A
\* deletion that is retried after its first DeleteGroup does render such classes,
\* but has no machines any more.)
ClassesReferToGroups ==
    machines => \A p \in Pools : classes[p] # NoGroup => groups[p] = classes[p]

\* After a success the machine class of each pool places as its spec says, and
\* the status records every group a machine class refers to.
PlacedAsRequested ==
    worker.phase = "present" /\ worker.lastOp = "Succeeded" =>
        /\ \A p \in Pools : applied[p] = "spread" <=> classes[p] # NoGroup
        /\ worker.status = classes

ReconcileSteps == {"prepare", "ensure", "patch", "deploy", "images", "report"}

Exist(ids) == \A p \in Pools : ids[p] # NoGroup => groups[p] = ids[p]

\* The groups are in use until a deletion has removed the machines; until then
\* whatever holds an ID of a group, memory or object, holds a current one.
InUse == worker.phase = "present" \/ machines \/ step \in ReconcileSteps

UseInv ==
    InUse => Exist(classes) /\ Exist(worker.status) /\ Exist(request.status) /\ Exist(found)

\* Which request runs: deletion only of a Worker in deletion, and it comes to
\* the groups after the machines.
StepInv ==
    /\ step # "idle" => worker.lastOp = "Processing"
    /\ step \in {"redeploy", "deleteMachines", "deleteGroups", "finalize"} =>
          worker.phase = "deleting"
    /\ step \in {"deleteGroups", "finalize"} => ~machines

\* How far a reconcile has come: the groups found are those of the pools that
\* ask for one and were visited; then they are recorded, and then rendered.
ProgressInv ==
    /\ step \in {"idle", "prepare"} => found = NoGroups
    /\ step = "ensure" => \A p \in todo : request.pools[p] = "spread"
    /\ step \in ReconcileSteps \ {"prepare"} =>
          \A p \in Pools :
             found[p] # NoGroup <=> request.pools[p] = "spread" /\ p \notin todo
    /\ step \in {"patch", "deploy", "images", "report"} => todo = {}
    /\ step \in {"deploy", "images", "report"} =>
          request.status = found /\ worker.status = found
    /\ step \in {"images", "report"} =>
          \A p \in Pools : request.pools[p] # "absent" => classes[p] = found[p]

\* The inductive invariant
IInv == TypeOK /\ StepInv /\ UseInv /\ ProgressInv /\ PlacedAsRequested

\* Deletion after a success removes the group of every pool, however many of
\* its attempts fail, crash or lose answers, and whatever has been retried
\* before: PostDeleteHook deletes by recorded ID, so that no attempt of a
\* reconcile may leave the group of a current pool unrecorded.
DeletionLeavesNoGroup ==
    [](worker.phase = "deleting" /\ worker.lastOp = "Succeeded" /\ applied = worker.pools
          => [](worker.phase = "gone" =>
                   \A p \in Pools : applied[p] = "spread" => groups[p] = NoGroup))

\* actuator_hooks.go:134: a pool without a group in the status is "marked for
\* deletion", so that no current pool's group stays.
GroupsOfPoolsDeleted ==
    worker.phase = "gone" =>
        \A p \in Pools : worker.pools[p] # "absent" => groups[p] = NoGroup

\* Once nothing is disturbed any more, the Worker becomes ready or goes away.
EventuallySettled ==
    /\ calm /\ imageKnown /\ worker.phase = "present"
           ~> worker.lastOp = "Succeeded" /\ applied = worker.pools
    /\ calm /\ imageKnown /\ worker.phase = "deleting" ~> worker.phase = "gone"

-----------------------------------------------------------------------------
(* What DeletionLeavesNoGroup needs in addition.                           *)

\* After a success the status records the group of each pool that has one.
RecordedInv ==
    worker.phase # "gone" /\ worker.lastOp = "Succeeded" =>
        \A p \in Pools :
            applied[p] = "spread" => worker.status[p] # NoGroup /\ groups[p] = worker.status[p]

DeleteSteps == {"redeploy", "deleteMachines", "deleteGroups", "finalize"}

\* A deletion that began after a success: every group is the recorded one, and
\* each pool that PostDeleteHook has visited has none any more.
ClearingInv ==
    /\ worker.phase # "present"
    /\ step \in {"idle"} \cup DeleteSteps
    /\ step \in DeleteSteps => request = [pools |-> worker.pools, status |-> worker.status]
    /\ \A p \in Pools : applied[p] = "spread" =>
          /\ worker.pools[p] # "absent"
          /\ groups[p] \in {NoGroup, worker.status[p]}
          /\ step = "deleteGroups" /\ p \notin todo => groups[p] = NoGroup
          /\ step = "finalize" \/ worker.phase = "gone" => groups[p] = NoGroup
=============================================================================
