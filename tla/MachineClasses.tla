--------------------------- MODULE MachineClasses ---------------------------
(***************************************************************************)
(* Machine classes and their node templates (pkg/controller/worker).       *)
(*                                                                         *)
(* The machine-controller-manager (MCM) panics on machines of a class      *)
(* without a node template.  Older releases wrote such classes, so the     *)
(* delegate renders the wanted classes with a template and patches one     *)
(* into all the others: before the availability checks of a reconcile, and *)
(* after the rendering of a reconcile or a deletion.  It lists the classes *)
(* from the manager's cache, which lags behind the API server.             *)
(***************************************************************************)

CONSTANTS
    Classes,       \* names of machine classes; each has a worker pool hash
    Leftovers,     \* what an older release has left: "bare", "opaque"
    Disturbances   \* see DisturbanceKinds

DisturbanceKinds ==
    {"callFails",      \* a call fails, or only seems to
     "timeout",        \* waiting for the machines takes too long
     "crash",          \* the controller stops in the middle of a request
     "checksFail",     \* HCloud fails, or a machine type is out of stock
     "renderFails",    \* no image, no user data, no zones
     "changePools"}    \* other pools or another hash

\* A bare class lacks a node template but says its server type and zone; an
\* opaque one does not say those either.
Kinds == {"absent", "bare", "opaque", "backfilled", "rendered"}

ASSUME ConstantsAssumption ==
    /\ Leftovers \subseteq {"bare", "opaque"}
    /\ Disturbances \subseteq DisturbanceKinds

HookSteps   == {"hookList", "hookPatch", "checks"}
DeployFlow  == {"render", "list", "patch", "await"}
DeleteFlow  == {"deleteRender", "deleteList", "deletePatch", "drain"}
Steps       == {"idle"} \cup HookSteps \cup DeployFlow \cup DeleteFlow

VARIABLES
    classes,    \* API server: the kind of each machine class
    cache,      \* manager: the same, as the delegate's client lists it
    target,     \* API server: classes of the machine deployments
    machines,   \* MCM: classes that have machines
    worker,     \* API server: the Worker object
    checksPass, \* the availability checks of PreReconcileHook pass
    renderable, \* generateMachineConfig and the chart succeed
    step,       \* delegate: the call the request in flight makes next
    generated,  \* delegate: w.machineClasses
    todo,       \* delegate: classes that its loop has yet to patch
    calm        \* no disturbance happens any more

cluster  == <<classes, cache, target, machines, worker>>
weather  == <<checksPass, renderable, calm>>
delegate == <<step, generated, todo>>
vars     == <<cluster, weather, delegate>>

Workers ==
    [phase  : {"present", "deleting", "gone"},
     wanted : SUBSET Classes,
     lastOp : {"None", "Processing", "Succeeded", "Error"}]

TypeOK ==
    /\ classes \in [Classes -> Kinds]
    /\ cache \in [Classes -> Kinds]
    /\ target \subseteq Classes
    /\ machines \subseteq Classes
    /\ worker \in Workers
    /\ checksPass \in BOOLEAN
    /\ renderable \in BOOLEAN
    /\ calm \in BOOLEAN
    /\ step \in Steps
    /\ generated \subseteq Classes
    /\ todo \subseteq Classes

\* The upgrade to this release, with a rolling update possibly under way
Init ==
    /\ classes \in [Classes -> {"absent"} \cup Leftovers]
    /\ cache = classes
    /\ machines = {c \in Classes : classes[c] # "absent"}
    /\ target \in SUBSET machines
    /\ \E wanted \in (SUBSET Classes) \ {{}} :
          worker = [phase |-> "present", wanted |-> wanted, lastOp |-> "None"]
    /\ checksPass = TRUE
    /\ renderable = TRUE
    /\ calm = FALSE
    /\ step = "idle"
    /\ generated = {}
    /\ todo = {}

-----------------------------------------------------------------------------

Fault(kind) == ~calm /\ kind \in Disturbances

Forget ==
    /\ step' = "idle"
    /\ generated' = {}
    /\ todo' = {}

Return(op) ==
    /\ Forget
    /\ worker' = [worker EXCEPT !.lastOp = op]

Begin(first) ==
    /\ step = "idle"
    /\ step' = first
    /\ worker' = [worker EXCEPT !.lastOp = "Processing"]
    /\ UNCHANGED <<classes, cache, target, machines, weather, generated, todo>>

\* Mutant: the hook checks first and leaves the backfill to the deployment.
StartReconcileChecksFirst == worker.phase = "present" /\ Begin("checks")

StartReconcile == worker.phase = "present" /\ Begin("hookList")

StartDelete == worker.phase = "deleting" /\ Begin("deleteRender")

-----------------------------------------------------------------------------
(* backfillNodeTemplates                                                   *)

\* Mutant: classes that were rendered a moment ago are not skipped.
LackingAny == {c \in Classes : cache[c] = "bare"}

\* Mutant: only the wanted classes are looked at.
LackingWanted == {c \in generated : cache[c] = "bare"}

\* The loop skips classes that the request has rendered, classes with a
\* template, and those that no template can be derived for.
Lacking == {c \in Classes : cache[c] = "bare"} \ generated

ListSteps == [hookList |-> "hookPatch", list |-> "patch", deleteList |-> "deletePatch"]

\* Mutant: a class that no template can be derived for is an error.
ListClassesStrict ==
    /\ step \in DOMAIN ListSteps
    /\ \/ /\ \E c \in Classes : cache[c] = "opaque"
          /\ Return("Error")
       \/ /\ \A c \in Classes : cache[c] # "opaque"
          /\ step' = ListSteps[step]
          /\ todo' = Lacking
          /\ UNCHANGED <<worker, generated>>
    /\ UNCHANGED <<classes, cache, target, machines, weather>>

ListClasses ==
    /\ step \in DOMAIN ListSteps
    /\ step' = ListSteps[step]
    /\ todo' = Lacking
    /\ UNCHANGED <<cluster, weather, generated>>

\* A class that has gone in the meantime is NotFound and ignored.  The patch
\* takes effect on one that has got a template in the meantime.
Patched(c) == [classes EXCEPT ![c] = IF @ = "absent" THEN @ ELSE "backfilled"]

PatchSteps == [hookPatch |-> "checks", patch |-> "await", deletePatch |-> "drain"]

PatchClass(c) ==
    /\ step \in DOMAIN PatchSteps
    /\ c \in todo
    /\ classes' = Patched(c)
    /\ todo' = todo \ {c}
    /\ UNCHANGED <<cache, target, machines, worker, weather, step, generated>>

\* The machine deployments follow the classes: the wanted ones, or none.
ClassesPatched ==
    /\ step \in DOMAIN PatchSteps
    /\ todo = {}
    /\ step' = PatchSteps[step]
    /\ target' = CASE step = "hookPatch"   -> target
                   [] step = "patch"       -> generated
                   [] step = "deletePatch" -> {}
    /\ UNCHANGED <<classes, cache, machines, worker, weather, generated, todo>>

-----------------------------------------------------------------------------
(* The rest of the two flows.                                              *)

ChecksPass ==
    /\ step = "checks"
    /\ checksPass
    /\ step' = "render"
    /\ UNCHANGED <<cluster, weather, generated, todo>>

ChecksFail ==
    /\ step = "checks"
    /\ ~checksPass
    /\ Return("Error")
    /\ UNCHANGED <<classes, cache, target, machines, weather>>

\* Mutant: a deletion does not come to the backfill.
RenderStepsShort == [render |-> "list", deleteRender |-> "deletePatch"]

RenderSteps == [render |-> "list", deleteRender |-> "deleteList"]

Rendered(names) == [c \in Classes |-> IF c \in names THEN "rendered" ELSE classes[c]]

RenderClasses ==
    /\ step \in DOMAIN RenderSteps
    /\ renderable
    /\ generated' = worker.wanted
    /\ classes' = Rendered(worker.wanted)
    /\ step' = RenderSteps[step]
    /\ UNCHANGED <<cache, target, machines, worker, weather, todo>>

CannotRender ==
    /\ step \in DOMAIN RenderSteps
    /\ ~renderable
    /\ Return("Error")
    /\ UNCHANGED <<classes, cache, target, machines, weather>>

\* The machine deployments are as wanted; other classes are removed.
ReportSuccess ==
    /\ step = "await"
    /\ machines = target
    /\ classes' = [c \in Classes |-> IF c \in target THEN classes[c] ELSE "absent"]
    /\ Return("Succeeded")
    /\ UNCHANGED <<cache, target, machines, weather>>

Finalize ==
    /\ step = "drain"
    /\ machines = {}
    /\ classes' = [c \in Classes |-> "absent"]
    /\ worker' = [worker EXCEPT !.phase = "gone"]
    /\ Forget
    /\ UNCHANGED <<cache, target, machines, weather>>

-----------------------------------------------------------------------------
(* The machine-controller-manager and the cache.                           *)

HasTemplate(c) == classes[c] \in {"backfilled", "rendered"}

\* MCM panics, after every restart again, on a machine of another class.
MCMWorks == \A c \in machines : HasTemplate(c)

CreateMachines(c) ==
    /\ MCMWorks /\ HasTemplate(c)
    /\ c \in target \ machines
    /\ machines' = machines \cup {c}
    /\ UNCHANGED <<classes, cache, target, worker, weather, delegate>>

DeleteMachines(c) ==
    /\ MCMWorks
    /\ c \in machines \ target
    /\ machines' = machines \ {c}
    /\ UNCHANGED <<classes, cache, target, worker, weather, delegate>>

MCMStep == \E c \in Classes : CreateMachines(c) \/ DeleteMachines(c)

SyncCache(c) ==
    /\ cache[c] # classes[c]
    /\ cache' = [cache EXCEPT ![c] = classes[c]]
    /\ UNCHANGED <<classes, target, machines, worker, weather, delegate>>

-----------------------------------------------------------------------------
(* Failures and changes.                                                   *)

CallFails ==
    /\ Fault("callFails")
    /\ step # "idle"
    /\ Return("Error")
    /\ \/ UNCHANGED classes
       \/ \E c \in todo : classes' = Patched(c)
       \/ /\ step \in DOMAIN RenderSteps /\ renderable
          /\ \E names \in SUBSET worker.wanted : classes' = Rendered(names)
    /\ UNCHANGED <<cache, target, machines, weather>>

\* As long as MCM panics, the machines never become as wanted.
WaitTimesOut ==
    /\ step \in {"await", "drain"}
    /\ Fault("timeout") \/ ~MCMWorks
    /\ Return("Error")
    /\ UNCHANGED <<classes, cache, target, machines, weather>>

Crash ==
    /\ Fault("crash")
    /\ step # "idle"
    /\ Forget
    /\ UNCHANGED <<cluster, weather>>

ChecksChange ==
    /\ Fault("checksFail")
    /\ checksPass' = ~checksPass
    /\ UNCHANGED <<cluster, renderable, calm, delegate>>

RenderingChanges ==
    /\ Fault("renderFails")
    /\ renderable' = ~renderable
    /\ UNCHANGED <<cluster, checksPass, calm, delegate>>

\* Gardener's reconciler reads the Worker when a request begins.
ChangePools ==
    /\ Fault("changePools")
    /\ worker.phase = "present" /\ step = "idle"
    /\ \E wanted \in (SUBSET Classes) \ {{}} : worker' = [worker EXCEPT !.wanted = wanted]
    /\ UNCHANGED <<classes, cache, target, machines, weather, delegate>>

RequestDeletion ==
    /\ ~calm
    /\ worker.phase = "present"
    /\ worker' = [worker EXCEPT !.phase = "deleting"]
    /\ UNCHANGED <<classes, cache, target, machines, weather, delegate>>

CalmDown ==
    /\ ~calm
    /\ calm' = TRUE
    /\ UNCHANGED <<cluster, checksPass, renderable, delegate>>

Gone == worker.phase = "gone" /\ UNCHANGED vars

-----------------------------------------------------------------------------

RequestStep ==
    \/ StartReconcile \/ StartDelete
    \/ ListClasses \/ (\E c \in Classes : PatchClass(c)) \/ ClassesPatched
    \/ ChecksPass \/ ChecksFail \/ RenderClasses \/ CannotRender
    \/ ReportSuccess \/ Finalize \/ WaitTimesOut

Environment ==
    \/ MCMStep
    \/ \E c \in Classes : SyncCache(c)
    \/ CallFails \/ Crash
    \/ ChecksChange \/ RenderingChanges \/ ChangePools \/ RequestDeletion \/ CalmDown

Next == RequestStep \/ Environment \/ Gone

Spec == Init /\ [][Next]_vars

\* The workqueue retries the Worker, MCM works unless it panics, and the
\* cache catches up.
FairSpec ==
    /\ Spec
    /\ WF_vars(RequestStep)
    /\ WF_vars(MCMStep)
    /\ \A c \in Classes : WF_vars(SyncCache(c))

-----------------------------------------------------------------------------
(* Properties.                                                             *)

\* When a request waits for machines, MCM can work: every class that has
\* machines has a template by then, whatever the cache has shown, and whichever
\* pool hash, failed attempt or deletion the class stems from.
\* (For an opaque class there is nothing to derive a template from.)
MCMWorksWhenAwaited ==
    step \in {"await", "drain"} =>
        \A c \in machines : HasTemplate(c) \/ classes[c] = "opaque"

\* The cache lags, but no class ever becomes bare again.
CacheInv == \A c \in Classes : classes[c] = "bare" => cache[c] = "bare"

\* Classes with machines stay until the machines are gone.
MachinesInv == \A c \in machines : classes[c] # "absent"

\* How far the backfill has come: past the list every bare class is in the loop
\* or to be rendered, and past the loop there is none.
BackfillInv ==
    /\ step \in DOMAIN PatchSteps => \A c \in Classes : classes[c] = "bare" => c \in todo
    /\ step \in {"checks", "render", "await", "drain"} =>
          \A c \in Classes : classes[c] # "bare"

\* The loop never visits a class that the request has rendered.
RenderInv ==
    /\ step \in {"idle", "deleteRender", "render"} \cup HookSteps => generated = {}
    /\ step \notin DOMAIN PatchSteps => todo = {}
    /\ \A c \in generated : classes[c] = "rendered" /\ c \notin todo
    /\ step = "await" => target = generated
    /\ step # "idle" => worker.lastOp = "Processing"

\* After a success the classes of the machine deployments are as the chart
\* renders them, with the pool's capacity: no backfill, not even one that read
\* a stale cache, has laid the CloudProfile's capacity over it.
SuccessIsRendered ==
    worker.lastOp = "Succeeded" => \A c \in target : classes[c] = "rendered"

\* The inductive invariant
IInv == TypeOK /\ CacheInv /\ MachinesInv /\ BackfillInv /\ RenderInv /\ SuccessIsRendered

\* actuator_hooks.go:36: once the API server answers, existing classes get
\* their templates even if the checks or the rendering fail for good.
EventuallyTemplated ==
    calm /\ worker.phase = "present" ~> \A c \in Classes : classes[c] # "bare"

NothingOpaque == \A c \in Classes : classes[c] # "opaque"

\* No bare class wedges a rolling update for good,
EventuallyReady ==
    calm /\ checksPass /\ renderable /\ NothingOpaque /\ worker.phase = "present"
        ~> worker.lastOp = "Succeeded"

\* or the deletion of a Worker, even one that this release never reconciled.
EventuallyGone ==
    calm /\ renderable /\ NothingOpaque /\ worker.phase = "deleting" ~> worker.phase = "gone"

\* machines.go:424: a class that no template can be derived for does not keep
\* requests from coming to the machines, not even those of a deletion.
OpaqueBlocksNoRequest ==
    /\ calm /\ checksPass /\ renderable /\ worker.phase = "present" ~> step = "await"
    /\ calm /\ renderable /\ worker.phase = "deleting" ~> step = "drain" \/ worker.phase = "gone"
=============================================================================
