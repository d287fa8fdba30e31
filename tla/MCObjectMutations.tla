------------------------- MODULE MCObjectMutations -------------------------
(* Three releases, of which the second cannot start, and one object.        *)
EXTENDS ObjectMutations

MCTexts == STRING

MCImageOf == <<"image-1", "image-2", "image-3">>

MCStartable == {1, 3}

\* Nothing is switched off.
MCEnabled == Controllers

MCContents ==
    [k \in Kinds |->
        CASE k = "machine-controller-manager" -> {<<Entry("machine-controller-manager", "gardener")>>}
          [] k = "machine-controller-manager-vpa" ->
                 {<<>>, <<Entry("machine-controller-manager", "policy")>>}
          [] k = "kube-apiserver" ->
                 {<<Entry("CSINodeInfo", "false"), Entry("Other", "true"), Entry("CSIDriverRegistry", "false")>>,
                  <<Entry("CSINodeInfo", "true")>>}
          [] k = "kube-controller-manager" ->
                 {<<Entry("role", "controller-manager"), Entry(BlockedCIDRs, "allowed")>>,
                  <<Entry(PublicNetworks, "denied"), Entry("role", "controller-manager")>>}
          [] k = "kubelet.service" ->
                 {<<Entry("ExecStartPre", "copy"), Entry("--v=", "2")>>,
                  <<Entry(CloudProvider, "hcloud"), Entry("--v=", "2")>>}
          [] k = "kubelet-config" ->
                 {<<Entry("CSINodeInfo", "true"), Entry("Other", "true")>>,
                  <<Entry("enableControllerAttachDetach", "false")>>}]
=============================================================================
