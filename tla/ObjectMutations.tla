--------------------------- MODULE ObjectMutations ---------------------------
(***************************************************************************)
(* What the control plane webhook makes of Deployments, VPAs and the       *)
(* kubelet of a shoot (pkg/webhook/controlplane/ensurer.go).               *)
(*                                                                         *)
(* One object is followed through its life.  Gardenlet writes it anew with *)
(* its own content; other clients patch it as it is stored.  The API       *)
(* server sends every write through a ready process of the extension, of   *)
(* the old release or the new one while a rollout lasts, and refuses it    *)
(* when none answers.  What the webhook writes on top of an object it has  *)
(* already completed, perhaps in another release, is the question here.    *)
(*                                                                         *)
(* The content of an object is the list the webhook edits: containers,     *)
(* container policies, feature gates, labels, flags and options of a unit, *)
(* each entry with a name and a value.                                     *)
(***************************************************************************)
EXTENDS ExtensionProcess, SequencesExt

CONSTANTS
    Texts,     \* names and values of entries
    ImageOf,   \* image of the machine controller, by release
    Contents,  \* what gardenlet writes, by kind of object: sets of contents
    Kubelets,  \* minor versions of the kubelet that the shoot goes through
    Nothing    \* an object that does not exist

Kinds == {"machine-controller-manager", "machine-controller-manager-vpa", "kube-apiserver",
          "kube-controller-manager", "kubelet.service", "kubelet-config"}

Entries == [name : Texts, value : Texts]

Entry(name, value) == [name |-> name, value |-> value]

\* What the webhook edits, by name or as a whole
Provider        == "provider-hcloud"
PublicNetworks  == "to-public-networks"
PrivateNetworks == "to-private-networks"
BlockedCIDRs    == "to-blocked-cidrs"
CloudProvider   == "--cloud-provider="
AttachDetach    == "enableControllerAttachDetach"
Hostname        == Entry("ExecStartPre", "hostnamectl")
NoNodeInfo      == Entry("CSINodeInfo", "false")
NoDriverRegistry == Entry("CSIDriverRegistry", "false")
RemovedGates    == {"VolumeSnapshotDataSource", "CSINodeInfo", "CSIDriverRegistry"}

\* The entries the webhook is responsible for, by kind of object
ManagedIn(k, e) ==
    CASE k \in {"machine-controller-manager", "machine-controller-manager-vpa"} -> e.name = Provider
      [] k = "kube-apiserver"          -> e \in {NoNodeInfo, NoDriverRegistry}
      [] k = "kube-controller-manager" -> e.name \in {PublicNetworks, PrivateNetworks, BlockedCIDRs}
      [] k = "kubelet.service"         -> e.name = CloudProvider \/ e = Hostname
      [] k = "kubelet-config"          -> e.name \in RemovedGates \cup {AttachDetach}

\* Of those, no two have the same name: containers are told apart by theirs, labels
\* and gates are the keys of maps, a flag is given once.
DistinctIn(k, content) ==
    \A i, j \in DOMAIN content :
        ManagedIn(k, content[i]) /\ ManagedIn(k, content[j]) /\ content[i].name = content[j].name
            => i = j

ASSUME ObjectsAssumption ==
    /\ {Provider, PublicNetworks, PrivateNetworks, CloudProvider, AttachDetach,
        "ExecStartPre", "hostnamectl", "policy", "allowed", "external", "true"} \subseteq Texts
    /\ ImageOf \in [Releases -> Texts]
    /\ DOMAIN Contents = Kinds
    /\ \A k \in Kinds : \A content \in Contents[k] :
          content \in Seq(Entries) /\ DistinctIn(k, content)
    /\ Kubelets \subseteq Nat
    /\ Nothing \notin Releases /\ Nothing \notin Seq(Entries)
    /\ \A k \in Kinds : Nothing \notin [content : Contents[k], kubelet : Kubelets]

VARIABLES
    kind,     \* the object's kind
    kubelet,  \* Cluster: minor version of the shoot's kubelet
    intent,   \* gardenlet: what it writes
    object,   \* API server: content of the object
    base,     \* history: what gardenlet last wrote, for which kubelet
    writer    \* history: the release that admitted the last write

objectVars == <<kind, kubelet, intent, object, base, writer>>
allVars    == <<processVars, objectVars>>

MutationTypeOK ==
    /\ ProcessTypeOK
    /\ kind \in Kinds
    /\ kubelet \in Kubelets
    /\ intent \in Contents[kind]
    /\ base \in [content : Contents[kind], kubelet : Kubelets] \cup {Nothing}
    /\ writer \in Releases \cup {Nothing}
    /\ object \in Seq(Entries) \cup {Nothing}
    /\ object = Nothing <=> writer = Nothing
    /\ object = Nothing <=> base = Nothing

MutationInit ==
    /\ ProcessInit
    /\ kind \in Kinds
    /\ kubelet \in Kubelets
    /\ intent \in Contents[kind]
    /\ object = Nothing /\ base = Nothing /\ writer = Nothing

-----------------------------------------------------------------------------
(* Editing a list                                                          *)

\* Mutant: an entry that is there is left as it is.
EnsureNamedOnce(content, entry) ==
    IF \E i \in DOMAIN content : content[i].name = entry.name
    THEN content
    ELSE Append(content, entry)

\* EnsureContainerWithName and the like: replace the entry in its place, or
\* append it.
EnsureNamed(content, entry) ==
    IF \E i \in DOMAIN content : content[i].name = entry.name
    THEN [content EXCEPT ![SelectInSeq(content, LAMBDA e : e.name = entry.name)] = entry]
    ELSE Append(content, entry)

\* Mutant: the option is appended without a look at those there are.
EnsureOptionAgain(content, entry) == Append(content, entry)

\* EnsureUnitOption: options of a unit may have the same name.
EnsureOption(content, entry) ==
    IF Contains(content, entry) THEN content ELSE Append(content, entry)

\* delete, of a key
Without(content, name) == RemoveFirstMatch(content, LAMBDA e : e.name = name)

\* EnsureNoStringWithPrefixContains removes the first that is equal.
WithoutEntry(content, entry) == RemoveFirst(content, entry)

-----------------------------------------------------------------------------
(* The Ensurer                                                             *)

EnsureMachineControllerManagerDeployment(content, release) ==
    EnsureNamed(content, Entry(Provider, ImageOf[release]))

EnsureMachineControllerManagerVPA(content) == EnsureNamed(content, Entry(Provider, "policy"))

EnsureKubeAPIServerCommandLineArgs(content) ==
    WithoutEntry(WithoutEntry(content, NoNodeInfo), NoDriverRegistry)

\* Mutant: the label that Gardener sets is not removed.
KeepBlockedCIDRs(content) ==
    EnsureNamed(EnsureNamed(content, Entry(PublicNetworks, "allowed")),
                Entry(PrivateNetworks, "allowed"))

EnsureKubeControllerManagerAnnotations(content) ==
    EnsureNamed(EnsureNamed(Without(content, BlockedCIDRs),
                            Entry(PublicNetworks, "allowed")),
                Entry(PrivateNetworks, "allowed"))

EnsureKubeletCommandLineArgs(content) ==
    IF kubelet < 99 THEN EnsureNamed(content, Entry(CloudProvider, "external")) ELSE content

EnsureKubeletServiceUnitOptions(content) ==
    EnsureOption(EnsureKubeletCommandLineArgs(content), Hostname)

\* Mutant: all of the gates are dropped.
DropAllGates(content) == <<>>

WithoutGates(content) ==
    Without(Without(Without(content, "VolumeSnapshotDataSource"), "CSINodeInfo"), "CSIDriverRegistry")

EnsureKubeletConfiguration(content) ==
    IF kubelet < 23 THEN EnsureNamed(WithoutGates(content), Entry(AttachDetach, "true"))
                    ELSE WithoutGates(content)

Mutated(content, release) ==
    CASE kind = "machine-controller-manager" ->
             EnsureMachineControllerManagerDeployment(content, release)
      [] kind = "machine-controller-manager-vpa" -> EnsureMachineControllerManagerVPA(content)
      [] kind = "kube-apiserver"                 -> EnsureKubeAPIServerCommandLineArgs(content)
      [] kind = "kube-controller-manager"        -> EnsureKubeControllerManagerAnnotations(content)
      [] kind = "kubelet.service"                -> EnsureKubeletServiceUnitOptions(content)
      [] kind = "kubelet-config"                 -> EnsureKubeletConfiguration(content)

-----------------------------------------------------------------------------
(* Writes                                                                  *)

\* A write with this content, answered by a process of the release
Admit(content, release) ==
    /\ Ready(release)
    /\ object' = Mutated(content, release)
    /\ writer' = release

\* Gardenlet writes its own content.
Reconcile ==
    /\ \E release \in Releases : Admit(intent, release)
    /\ base' = [content |-> intent, kubelet |-> kubelet]
    /\ UNCHANGED <<processVars, kind, kubelet, intent>>

\* Another client patches the object, in a part the webhook does not look at.
Patch ==
    /\ object # Nothing
    /\ \E release \in Releases : Admit(object, release)
    /\ UNCHANGED <<processVars, kind, kubelet, intent, base>>

\* The shoot changes, and may be upgraded.
ChangeShoot ==
    /\ ~settled
    /\ kubelet' \in {version \in Kubelets : version >= kubelet}
    /\ intent' \in Contents[kind]
    /\ UNCHANGED <<processVars, kind, object, base, writer>>

WriteStep == Reconcile \/ Patch \/ ChangeShoot

MutationNext == (ProcessNext /\ UNCHANGED objectVars) \/ WriteStep

MutationSpec == MutationInit /\ [][MutationNext]_allVars

\* A process works through its start; the rolling update ends old processes;
\* gardenlet reconciles shoots again and again.
MutationFairSpec ==
    /\ MutationSpec
    /\ \A r \in Releases :
           /\ WF_allVars(Configure(r) /\ UNCHANGED objectVars)
           /\ WF_allVars(Stop(r) /\ UNCHANGED objectVars)
    /\ WF_allVars(Reconcile)

-----------------------------------------------------------------------------

Managed(e) == ManagedIn(kind, e)

\* The entries the webhook puts there, and those it takes away
Required(release) ==
    CASE kind = "machine-controller-manager"     -> {Entry(Provider, ImageOf[release])}
      [] kind = "machine-controller-manager-vpa" -> {Entry(Provider, "policy")}
      [] kind = "kube-apiserver"                 -> {}
      [] kind = "kube-controller-manager"        ->
             {Entry(PublicNetworks, "allowed"), Entry(PrivateNetworks, "allowed")}
      [] kind = "kubelet.service" ->
             {Hostname} \cup (IF kubelet < 99 THEN {Entry(CloudProvider, "external")} ELSE {})
      [] kind = "kubelet-config" ->
             IF kubelet < 23 THEN {Entry(AttachDetach, "true")} ELSE {}

Forbidden(e) ==
    \/ kind = "kube-apiserver" /\ e \in {NoNodeInfo, NoDriverRegistry}
    \/ kind = "kube-controller-manager" /\ e.name = BlockedCIDRs
    \/ kind = "kubelet-config" /\ e.name \in RemovedGates

CompleteWith(content, release) ==
    /\ \A required \in Required(release) :
           \E i \in DOMAIN content :
               {j \in DOMAIN content : Managed(content[j]) /\ content[j].name = required.name} = {i}
                   /\ content[i] = required
    /\ \A i \in DOMAIN content : ~Forbidden(content[i])

\* ensurer.go:84: a write may carry what an earlier release put into the object.
\* Every object has just once what the release that admitted it puts there, and
\* nothing it removes.
AdmittedComplete == object # Nothing => CompleteWith(object, writer)

\* Where Gardener's own entries are, and that two lists have the same of them, in the
\* same order
Own(content) == {i \in DOMAIN content : ~Managed(content[i])}

SamePart(one, other) ==
    \E f \in [Own(one) -> Own(other)] :
        /\ \A i \in Own(one) : other[f[i]] = one[i]
        /\ \A i, j \in Own(one) : i < j => f[i] < f[j]
        /\ \A k \in Own(other) : \E i \in Own(one) : f[i] = k

\* Replacing by name and removing by value must spare what Gardener put there:
\* its own containers, policies, gates, labels, flags and ExecStartPre commands,
\* in their order.
GardenersPartKept == object # Nothing => SamePart(object, base.content)

\* A changed pod template rolls pods out, a changed unit restarts kubelets.  As
\* long as neither Gardener's content nor the release changes, no write of
\* whomever changes the object.
NoNeedlessChange ==
    [][object # Nothing /\ base' = base /\ writer' = writer => object' = object]_allVars

\* Rollouts of the extension and of the shoot end well: when nothing fails any
\* more and the release can start, the object becomes, and stays, what Gardener
\* and the installed release want, without leftovers of earlier ones.
EventuallyCurrent ==
    [](settled /\ installed \in Startable =>
         <>[](/\ object # Nothing /\ base = [content |-> intent, kubelet |-> kubelet]
              /\ CompleteWith(object, installed)
              /\ \A i \in DOMAIN object :
                     Managed(object[i]) =>
                         object[i] \in Required(installed) \cup ToSet(intent)))

\* The inductive invariant: as long as the shoot's kubelet is the one that gardenlet
\* last wrote the object for, the object is what the last release makes of that.
ObjectInv ==
    object # Nothing =>
        /\ DistinctIn(kind, object)
        /\ CompleteWith(object, writer)
        /\ SamePart(object, base.content)
        /\ base.kubelet <= kubelet
        /\ base.kubelet = kubelet => object = Mutated(base.content, writer)
=============================================================================
