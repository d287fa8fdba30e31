-------------------------- MODULE NodePreparation --------------------------
(***************************************************************************)
(* What the control plane webhook adds to the operating system configs of  *)
(* the nodes (pkg/webhook/controlplane), next to the control plane.        *)
(*                                                                         *)
(* Gardenlet writes these objects in the same flow as the ControlPlane, in *)
(* any order, and the webhook completes them on the way to the API server. *)
(* The ConfigMap it reads is the one the config chart of the control plane *)
(* writes, and may be missing or out of date.                              *)
(***************************************************************************)
EXTENDS ControlPlane

Files == {"http-proxy.conf", "merge-docker-json.sh"}
Units == {"merge-docker-json.service"}

VARIABLES
    reconcileOSC,  \* API server: OperatingSystemConfig with purpose reconcile
    provisionOSC   \* API server: the files of the one with purpose provision

nodeVars == <<reconcileOSC, provisionOSC>>
allVars  == <<vars, nodeVars>>

NodeTypeOK ==
    /\ TypeOK
    /\ reconcileOSC \in [kubelet : ConfigMaps \cup {Nothing}, files : SUBSET Files, units : SUBSET Units]
    /\ provisionOSC \subseteq {"gardener-containerd-pin"}

NodeInit ==
    /\ Init
    /\ reconcileOSC = [kubelet |-> Nothing, files |-> {}, units |-> {}]
    /\ provisionOSC = {}

-----------------------------------------------------------------------------

FilesFor(profile) ==
    (IF "proxy" \in profile THEN {"http-proxy.conf"} ELSE {})
        \cup (IF "registries" \in profile THEN {"merge-docker-json.sh"} ELSE {})

UnitsFor(profile) == IF "registries" \in profile THEN Units ELSE {}

\* Mutant: the webhook only fills in what it has not filled in before.
KubeletConfigOnce ==
    IF reconcileOSC.kubelet = Nothing THEN configMap ELSE reconcileOSC.kubelet

\* A ConfigMap that does not exist yet is no error: the kubelet gets no config.
KubeletConfig == configMap

\* Gardenlet sends its own content anew; the webhook adds to it.  Without the
\* CloudProfile's config it fails, and the API server refuses the object.
MutateReconcileOSC ==
    /\ cp.phase = "present"
    /\ spec.profile # Nothing
    /\ reconcileOSC' = [kubelet |-> KubeletConfig,
                        files   |-> FilesFor(spec.profile),
                        units   |-> UnitsFor(spec.profile)]
    /\ UNCHANGED <<vars, provisionOSC>>

MutateProvisionOSC ==
    /\ cp.phase = "present"
    /\ provisionOSC' = {"gardener-containerd-pin"}
    /\ UNCHANGED <<vars, reconcileOSC>>

NodeStep == MutateReconcileOSC \/ MutateProvisionOSC

NodeNext == (Next /\ UNCHANGED nodeVars) \/ NodeStep

NodeSpec == NodeInit /\ [][NodeNext]_allVars

\* Gardenlet writes the operating system configs whenever it reconciles a shoot.
NodeFairSpec ==
    /\ NodeSpec
    /\ Fairness
    /\ WF_allVars(MutateReconcileOSC) /\ WF_allVars(MutateProvisionOSC)

-----------------------------------------------------------------------------

\* ensurer.go:208 lets an operating system config pass while the ConfigMap is
\* missing.  Once disturbances end, nodes still get the region and the zone of
\* the shoot, the same that the CCM has, and the files and units for Docker go
\* with the CloudProfile.
EventuallyPrepared ==
    [](calm /\ cp.phase = "present" /\ Deployable =>
         <>[](/\ Deployable /\ ccm # Nothing
              /\ reconcileOSC = [kubelet |-> ConfigValues(spec),
                                 files   |-> FilesFor(spec.profile),
                                 units   |-> UnitsFor(spec.profile)]
              /\ reconcileOSC.kubelet.region = ccm.template.region
              /\ provisionOSC = {"gardener-containerd-pin"}))
=============================================================================
