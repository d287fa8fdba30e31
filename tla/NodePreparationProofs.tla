----------------------- MODULE NodePreparationProofs -----------------------
(***************************************************************************)
(* Proofs about the operating system configs that the webhook completes,   *)
(* for every history of the secret and every set of specs.                 *)
(***************************************************************************)
EXTENDS NodePreparation, ControlPlaneProofs

\* The webhook only reads what the control plane's controller writes, so that all
\* theorems about the ControlPlane hold next to the operating system configs, too.
THEOREM NodesLeaveControlPlane == NodeSpec => Spec
<1>1. NodeInit => Init
  BY DEF NodeInit
<1>2. [NodeNext]_allVars => [Next]_vars
  BY DEF NodeNext, NodeStep, MutateReconcileOSC, MutateProvisionOSC, allVars
<1> QED
  BY <1>1, <1>2, PTL DEF NodeSpec, Spec

\* The webhook's objects keep their types: an operating system config has the
\* kubelet's config of some ConfigMap or none, and only the files and units of
\* the webhook.
THEOREM NodeTypeCorrect == NodeSpec => []NodeTypeOK
<1> DEFINE Types ==
      /\ reconcileOSC \in [kubelet : ConfigMaps \cup {Nothing}, files : SUBSET Files, units : SUBSET Units]
      /\ provisionOSC \subseteq {"gardener-containerd-pin"}
<1>1. NodeInit => Types
  BY DEF NodeInit
<1>2. TypeOK /\ Types /\ [NodeNext]_allVars => Types'
  <2> SUFFICES ASSUME TypeOK, Types, [NodeNext]_allVars PROVE Types'
    OBVIOUS
  <2>1. CASE MutateReconcileOSC
    <3>1. configMap \in ConfigMaps \cup {Nothing}
      BY DEF TypeOK
    <3>2. FilesFor(spec.profile) \subseteq Files /\ UnitsFor(spec.profile) \subseteq Units
      BY DEF FilesFor, UnitsFor, Files
    <3> QED
      BY <2>1, <3>1, <3>2 DEF MutateReconcileOSC, KubeletConfig
  <2>2. CASE MutateProvisionOSC
    BY <2>2 DEF MutateProvisionOSC
  <2>3. CASE UNCHANGED nodeVars
    BY <2>3 DEF nodeVars
  <2> QED
    BY <2>1, <2>2, <2>3 DEF NodeNext, NodeStep, allVars
<1>3. NodeTypeOK <=> TypeOK /\ Types
  BY DEF NodeTypeOK
<1> QED
  BY <1>1, <1>2, <1>3, NodesLeaveControlPlane, TypeCorrect, PTL DEF NodeSpec
=============================================================================
