-------------------------- MODULE ExtensionProcess --------------------------
(***************************************************************************)
(* The start of the extension's process (pkg/cmd/controller).              *)
(*                                                                         *)
(* A Deployment runs one process of the release that is installed; while a *)
(* new release is rolled out, the process of the old one may go on for a   *)
(* time, or end before the new one is ready.  A process configures itself  *)
(* step by step: flags and config file are read, copied into the           *)
(* DefaultAddOptions of each controller's package, and read from there     *)
(* when the controller is added.  Any step may fail, and the process       *)
(* starts over.                                                            *)
(***************************************************************************)
EXTENDS Integers

CONSTANTS
    MaxRelease,  \* bound on the releases
    Startable,   \* releases whose flags and config file are valid
    Enabled      \* controllers that --disable-controllers leaves

Releases == 1..MaxRelease

\* controllerSwitchOptions
Controllers == {"controlplane", "infrastructure", "worker", "healthcheck", "heartbeat"}

ASSUME ReleasesAssumption ==
    /\ MaxRelease \in Nat \ {0}
    /\ Startable \subseteq Releases
    /\ Enabled \subseteq Controllers

\* What the AddOptions of each package hold
Settings ==
    {"gardenId", "controllerOptions", "ignoreOperationAnnotation", "extensionClasses",
     "gardenCluster", "healthCheckConfig", "heartbeatOptions", "webhookServerNamespace"}

Shared == {"controllerOptions", "ignoreOperationAnnotation", "extensionClasses"}

Needs(controller) ==
    CASE controller = "controlplane"   -> Shared \cup {"gardenId", "webhookServerNamespace"}
      [] controller = "infrastructure" -> Shared \cup {"gardenId"}
      [] controller = "worker"         -> Shared \cup {"gardenCluster"}
      [] controller = "healthcheck"    -> {"controllerOptions", "healthCheckConfig"}
      [] controller = "heartbeat"      -> {"heartbeatOptions"}

\* What the process does next; "stopped": there is none
Stages == {"stopped", "options", "manager", "gardenCluster", "settings",
           "webhooks", "namespace", "controllers", "checks", "started"}

ReadyChecks == {"informer-sync", "webhook-server"}

VARIABLES
    installed,    \* seed: the release that the Deployment names
    stage,        \* processes: what the one of a release does next
    options,      \* processes: settings in the DefaultAddOptions of each package
    controllers,  \* processes: controllers added, by the settings they were added with
    passed,       \* processes: the ready checks that pass
    settled       \* no process fails any more and no release is installed

processVars == <<installed, stage, options, controllers, passed, settled>>

ProcessTypeOK ==
    /\ installed \in Releases
    /\ stage \in [Releases -> Stages]
    /\ options \in [Releases -> [Controllers -> SUBSET Settings]]
    /\ controllers \in [Releases -> SUBSET (Controllers \X SUBSET Settings)]
    /\ passed \in [Releases -> SUBSET ReadyChecks]
    /\ \A r \in Releases : passed[r] # {} => stage[r] = "started"
    /\ settled \in BOOLEAN

NoOptions == [c \in Controllers |-> {}]

ProcessInit ==
    /\ installed = 1
    /\ stage = [r \in Releases |-> IF r = 1 THEN "options" ELSE "stopped"]
    /\ options = [r \in Releases |-> NoOptions]
    /\ controllers = [r \in Releases |-> {}]
    /\ passed = [r \in Releases |-> {}]
    /\ settled = FALSE

Ready(r) == stage[r] = "started" /\ passed[r] = ReadyChecks

-----------------------------------------------------------------------------
(* One step of RunE each                                                   *)

Advance(r, from, to) == stage[r] = from /\ stage' = [stage EXCEPT ![r] = to]

\* The config file of the release exists and decodes.
LoadFromFile(r) == r \in Startable

\* Flags and config file are read, heartbeat options validated.
CompleteOptions(r) ==
    /\ LoadFromFile(r)
    /\ Advance(r, "options", "manager")
    /\ UNCHANGED <<installed, options, controllers, passed, settled>>

NewManager(r) ==
    /\ Advance(r, "manager", "gardenCluster")
    /\ UNCHANGED <<installed, options, controllers, passed, settled>>

GetGardenCluster(r) ==
    /\ Advance(r, "gardenCluster", "settings")
    /\ UNCHANGED <<installed, options, controllers, passed, settled>>

\* The packages that each setting is copied to before the webhooks are added
PackagesGiven(setting) ==
    CASE setting = "gardenId"          -> {"controlplane", "infrastructure"}
      [] setting = "controllerOptions" -> Controllers \ {"heartbeat"}
      [] setting \in {"ignoreOperationAnnotation", "extensionClasses"}
                                       -> {"controlplane", "infrastructure", "worker"}
      [] setting = "gardenCluster"     -> {"worker"}
      [] setting = "healthCheckConfig" -> {"healthcheck"}
      [] setting = "heartbeatOptions"  -> {"heartbeat"}
      [] OTHER                         -> {}

Applied == [c \in Controllers |-> {s \in Settings : c \in PackagesGiven(s)}]

ApplySettings(r) ==
    /\ Advance(r, "settings", "webhooks")
    /\ options' = [options EXCEPT ![r] = Applied]
    /\ UNCHANGED <<installed, controllers, passed, settled>>

AddWebhooks(r) ==
    /\ Advance(r, "webhooks", "namespace")
    /\ UNCHANGED <<installed, options, controllers, passed, settled>>

\* The server knows its namespace only once the webhooks have been added.
ApplyNamespace(r) ==
    /\ Advance(r, "namespace", "controllers")
    /\ options' = [options EXCEPT ![r]["controlplane"] = @ \cup {"webhookServerNamespace"}]
    /\ UNCHANGED <<installed, controllers, passed, settled>>

\* Mutant: controllers are added as soon as there is a manager for them.
AddControllersEarly(r) ==
    /\ stage[r] \in {"webhooks", "controllers"}
    /\ stage' = [stage EXCEPT ![r] = IF @ = "webhooks" THEN "namespace" ELSE "checks"]
    /\ controllers' = [controllers EXCEPT ![r] = {<<c, options[r][c]>> : c \in Enabled}]
    /\ UNCHANGED <<installed, options, passed, settled>>

\* AddToManager of each package: DefaultAddOptions are passed by value.
AddControllers(r) ==
    /\ Advance(r, "controllers", "checks")
    /\ controllers' = [controllers EXCEPT ![r] = {<<c, options[r][c]>> : c \in Enabled}]
    /\ UNCHANGED <<installed, options, passed, settled>>

\* The ready checks are added and the manager starts.
Start(r) ==
    /\ Advance(r, "checks", "started")
    /\ UNCHANGED <<installed, options, controllers, passed, settled>>

PassCheck(r) ==
    /\ stage[r] = "started"
    /\ \E check \in ReadyChecks \ passed[r] :
           passed' = [passed EXCEPT ![r] = @ \cup {check}]
    /\ UNCHANGED <<installed, stage, options, controllers, settled>>

Configure(r) ==
    \/ CompleteOptions(r) \/ NewManager(r) \/ GetGardenCluster(r)
    \/ ApplySettings(r) \/ AddWebhooks(r) \/ ApplyNamespace(r) \/ AddControllers(r)
    \/ Start(r) \/ PassCheck(r)

-----------------------------------------------------------------------------
(* Kubernetes                                                              *)

\* Mutant: the checks of a process that ended still count.
ForgetButChecks(r, next) ==
    /\ stage' = [stage EXCEPT ![r] = next]
    /\ options' = [options EXCEPT ![r] = NoOptions]
    /\ controllers' = [controllers EXCEPT ![r] = {}]
    /\ UNCHANGED passed

\* The memory of a process that starts from the beginning, or ends
Forget(r, next) ==
    /\ stage' = [stage EXCEPT ![r] = next]
    /\ options' = [options EXCEPT ![r] = NoOptions]
    /\ controllers' = [controllers EXCEPT ![r] = {}]
    /\ passed' = [passed EXCEPT ![r] = {}]

\* A step returned an error, or the process crashed: the container restarts.
Exit(r) ==
    /\ ~settled
    /\ stage[r] \notin {"stopped", "options"}
    /\ Forget(r, "options")
    /\ UNCHANGED <<installed, settled>>

Install ==
    /\ ~settled
    /\ installed < MaxRelease
    /\ installed' = installed + 1
    /\ stage' = [stage EXCEPT ![installed + 1] = "options"]
    /\ UNCHANGED <<options, controllers, passed, settled>>

\* The rolling update need not wait for the new process: with one replica,
\* maxUnavailable = 1 lets it end the old one at once.
Stop(r) ==
    /\ r # installed /\ stage[r] # "stopped"
    /\ Forget(r, "stopped")
    /\ UNCHANGED <<installed, settled>>

Settle ==
    /\ ~settled
    /\ settled' = TRUE
    /\ UNCHANGED <<installed, stage, options, controllers, passed>>

ProcessNext ==
    \/ \E r \in Releases : Configure(r) \/ Exit(r) \/ Stop(r)
    \/ Install \/ Settle

ProcessSpec == ProcessInit /\ [][ProcessNext]_processVars

-----------------------------------------------------------------------------

\* DefaultAddOptions are variables of the packages, copied when a controller is
\* added: what cmd.go writes later, or not at all, is lost, and the controller
\* runs on zero values.  No process runs a controller without all its settings,
\* however often the start failed before.
ControllersConfigured ==
    \A r \in Releases :
        /\ \A added \in controllers[r] : Needs(added[1]) \subseteq added[2]
        /\ stage[r] = "started" => {added[1] : added \in controllers[r]} = Enabled
=============================================================================
