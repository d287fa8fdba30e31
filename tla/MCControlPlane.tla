--------------------------- MODULE MCControlPlane ---------------------------
(***************************************************************************)
(* The control plane of a shoot on small instances: a few versions of the  *)
(* secret, with the histories of keys that make a difference, and a few    *)
(* specs, among them ones that cannot be deployed.                         *)
(***************************************************************************)
EXTENDS ControlPlane, TLC

CONSTANTS hel1dc2, net1

MCZones    == {hel1dc2}
MCNetworks == {net1}
MCRegionOf == hel1dc2 :> "hel1"

Everything    == DisturbanceKinds
\* Without failures and restarts of containers: they leave what a later step does
Changes       == {"rotate", "change", "delete"}

Common     == {"hcloudToken"}
Components == {"hcloudTokenCCM", "hcloudTokenCSI", "hcloudTokenMCM"}

\* A CSI token joins the common one; a secret that lacks too much gets complete;
\* the common token gives way to tokens of the components.
TwoVersions ==
    {<<Common, Common \cup {"hcloudTokenCSI"}>>,
     <<{"hcloudTokenCSI"}, Common \cup Components>>,
     <<Common, Components>>}
Completed == {<<{"hcloudTokenCSI"}, Common \cup Components>>}

Plain     == [config |-> NoZone, network |-> net1, podNetworks |-> "private",
              hibernated |-> FALSE, profile |-> {}]
Asleep    == [Plain EXCEPT !.hibernated = TRUE]
InZone    == [Plain EXCEPT !.config = hel1dc2, !.profile = {"proxy", "registries"}]
NoConfig  == [Plain EXCEPT !.config = Nothing, !.profile = Nothing]
NoProfile == [Plain EXCEPT !.profile = Nothing]

\* A shoot that falls asleep and wakes up elsewhere, or with a CloudProfile that
\* lacks its config
MCSpecs   == {Asleep, InZone, NoProfile}
LiveSpecs == {Asleep, InZone, NoConfig}
=============================================================================
