---------------------------- MODULE ShootAdmission ----------------------------
(***************************************************************************)
(* What the admission webhook (pkg/webhook/validator) lets into the        *)
(* garden, and what the controllers make of it: the range and zone of the  *)
(* worker network, and the machine deployments of the worker pools.        *)
(*                                                                         *)
(* The network is made from the first config that reaches a seed, and from *)
(* then on found by its name, whatever the config says (EnsureNetworks);   *)
(* each machine deployment is given the size of its whole pool             *)
(* (generateMachineConfig).  That both fit the shoot as it is now is up to *)
(* the webhook, over every sequence of updates of shoot and CloudProfile.  *)
(* Between an update and the copies that the controllers work on, shoot    *)
(* and CloudProfile may change again.  A CloudProfile is checked by        *)
(* itself: it may lose a zone that a shoot is in, or get another for it.   *)
(***************************************************************************)
EXTENDS Integers, Sequences, Functions

CONSTANTS
    Submissions,     \* shoots that users create, or update theirs to
    Profiles,        \* CloudProfiles that operators create, or update theirs to
    LegacyShoots,    \* shoots from before the webhook checked network zones
                     \* and required zones of pools
    Addresses,       \* IP addresses
    PrivateRanges,   \* the three private IPv4 ranges: sets of addresses
    Locations,       \* HCloud's locations; Gardener calls them regions
    NetworkZones,    \* HCloud's network zones
    HostedIn,        \* the network zone of each location
    KnownLocations,  \* locations that the extension knows
    KnownZones,      \* network zones that the extension knows
    Zones,           \* availability zones
    LocationOf,      \* the location in the name of an availability zone
    Pools,           \* names of worker pools
    MaxNumber,       \* bound on minimum, maximum and surge of a pool
    Garbage,         \* what does not parse or decode
    Nothing          \* a field that is not set, an object that does not exist

(***************************************************************************)
(* A CIDR that parses is a block of addresses; its first address is where  *)
(* the block begins.  A canonical CIDR is written with that address.       *)
(***************************************************************************)
Blocks  == [block : SUBSET Addresses, first : Addresses,
            canonical : BOOLEAN, ipv4 : BOOLEAN]
CIDRs   == Blocks \cup {Garbage, Nothing}  \* Nothing: nil or empty

Configurations == [cidr : CIDRs, zone : NetworkZones \cup {Nothing}]

\* infraConfig.Networks; Garbage: the whole InfrastructureConfig is missing or
\* does not decode
Networks == [configuration : Configurations \cup {Nothing}, workers : CIDRs]

\* An IntOrString; a percentage has the IntVal 0.
Surges == [percent : BOOLEAN, value : 0 .. MaxNumber]

WorkerPools ==
    [zones   : Seq(Zones),
     minimum : 0 .. MaxNumber,
     maximum : 0 .. MaxNumber,
     surge   : Surges,
     group   : {"", "spread", "other", Garbage}]   \* PlacementGroupType

ControlPlaneConfigs == [zone : Zones \cup {Nothing}]

Shoots ==
    [region       : Locations,
     nodes        : CIDRs,
     pods         : CIDRs,
     services     : CIDRs,
     networks     : Networks \cup {Nothing, Garbage},
     controlPlane : ControlPlaneConfigs \cup {Nothing, Garbage},
     workers      : [Pools -> WorkerPools \cup {Nothing}]]

PoolsOf(s) == {p \in Pools : s.workers[p] # Nothing}

CloudProfiles == [Locations -> Seq(Zones)]

Clusters       == [shoot : Shoots, profile : CloudProfiles]
WorkerNetworks == [range : Blocks, zone : NetworkZones]

MachineDeployments == [zone : Zones, minimum : 0 .. MaxNumber, maximum : 0 .. MaxNumber,
                       surge : 0 .. MaxNumber]
PoolMachines == [pool : WorkerPools, deployments : Seq(MachineDeployments) \ {<<>>}]

\* What the shoot validator may have been given.  As it is registered, it has
\* neither: only its test injects a client, and nothing sets the decoder.
ValidatorFields == {"client", "decoder"}

VARIABLES
    fields,      \* webhook: the fields of the shoot validator that are set
    profile,     \* garden: the zones of each region in the CloudProfile
    shoot,       \* garden: the Shoot
    legacy,      \* history: the shoot is from before the webhook
    replaced,    \* history: its region has lost a zone since it was created
    dropped,     \* history: pools that have been removed from it
    cluster,     \* seed: what gardenlet has copied for the controllers
    network,     \* HCloud: the network "<namespace>-workers"
    machines     \* seed: the machine deployments of each pool

history == <<legacy, replaced, dropped>>
garden  == <<profile, shoot, history>>
vars    == <<fields, garden, cluster, network, machines>>

NoMachines == [p \in Pools |-> Nothing]

-----------------------------------------------------------------------------
(* Networks (validation/infrastructure.go and shoot.go)                    *)

\* Workers counts only without a WorkersConfiguration.
WorkersCIDR(networks) ==
    IF networks.configuration # Nothing THEN networks.configuration.cidr
                                        ELSE networks.workers

\* networkZoneOf
NetworkZoneOf(networks) ==
    IF networks \in {Nothing, Garbage} THEN Nothing
    ELSE IF networks.configuration = Nothing THEN Nothing
    ELSE networks.configuration.zone

IsSubset(inner, outer) == inner.block \subseteq outer.block

\* Mutant: only a network inside the other one overlaps it.
OverlapInside(one, other) == IsSubset(one, other)

Overlap(one, other) == one.block \cap other.block # {}

\* validatePrivateIPv4Range asks for the first address only.
PrivateIPv4Range(cidr) == \E range \in PrivateRanges : cidr.first \in range

\* Only servers of the worker network are nodes.
WorkersWithinNodes(nodes, cidr) == nodes \in Blocks => IsSubset(cidr, nodes)

\* ValidateInfrastructureConfig
ValidNetworks(s) ==
    /\ s.networks # Nothing
    /\ NetworkZoneOf(s.networks) \in KnownZones \cup {Nothing}
    /\ LET cidr == WorkersCIDR(s.networks)
       IN  /\ cidr \in Blocks
           /\ cidr.canonical
           /\ cidr.ipv4
           /\ PrivateIPv4Range(cidr)
           /\ WorkersWithinNodes(s.nodes, cidr)
           /\ \A other \in {s.pods, s.services} \cap Blocks : ~Overlap(cidr, other)

\* ValidateShootNetworking
ValidNodes(s) == s.nodes \in Blocks

\* Mutant: the zone is checked on every update.
ZoneFitsRegionAlways(oldNetworks, s) ==
    LET zone == NetworkZoneOf(s.networks)
    IN  zone # Nothing /\ s.region \in KnownLocations => zone = HostedIn[s.region]

\* Mutant: without an old config nothing is compared.
ZoneFitsRegionOnUpdate(oldNetworks, s) ==
    oldNetworks # Nothing => ZoneFitsRegionAlways(oldNetworks, s)

\* ValidateInfrastructureConfigAgainstCloudProfile: only a zone that is new has
\* to host the region, and only a region that is known.
ZoneFitsRegion(oldNetworks, s) ==
    LET zone == NetworkZoneOf(s.networks)
    IN  zone \notin {Nothing, NetworkZoneOf(oldNetworks)} /\ s.region \in KnownLocations =>
            zone = HostedIn[s.region]

-----------------------------------------------------------------------------
(* Worker pools (validation/workers.go)                                    *)

\* worker.MaxSurge.IntVal
IntVal(surge) == IF surge.percent THEN 0 ELSE surge.value

\* Mutant: servers that an update adds are not counted.
FitsGroupWithoutSurge(pool) == pool.group = "spread" => pool.maximum <= 10

FitsGroup(pool) == pool.group = "spread" => pool.maximum + IntVal(pool.surge) <= 10

\* ValidateWorkers, for one of the pools.  A provider config that does not decode
\* ends the request with a panic, so that it is not admitted either.
ValidPool(pool) ==
    /\ pool.zones # <<>>
    /\ pool.maximum # 0 => pool.minimum # 0
    /\ IsInjective(pool.zones)
    /\ pool.group # Garbage
    /\ FitsGroup(pool)

ValidWorkers(s) == \A p \in PoolsOf(s) : ValidPool(s.workers[p])

\* ShouldEnforceImmutability and ValidateImmutableField: zones are only appended.
ZonesAppended(old, new) ==
    Len(old) <= Len(new) /\ \A i \in 1 .. Len(old) : new[i] = old[i]

\* Mutant: the zones of pools may change.
ValidWorkersUpdateUnchecked(old, new) == TRUE

\* ValidateWorkersUpdate
ValidWorkersUpdate(old, new) ==
    \A p \in PoolsOf(old) \cap PoolsOf(new) :
        ZonesAppended(old.workers[p].zones, new.workers[p].zones)

-----------------------------------------------------------------------------
(* The webhook (webhook/validator)                                         *)

Decodes(s) == s.networks # Garbage

\* validateAgainstCloudProfile: without a client the request ends with a panic,
\* and it fails if the CloudProfile cannot be read.
ValidAgainstCloudProfile(read, oldNetworks, s) ==
    "client" \in fields /\ read /\ ZoneFitsRegion(oldNetworks, s)

\* Without a decoder, decoding a ControlPlaneConfig is a panic, too.
ValidControlPlane(s) ==
    s.controlPlane # Nothing => "decoder" \in fields /\ s.controlPlane # Garbage

ValidShoot(s) ==
    ValidNodes(s) /\ ValidNetworks(s) /\ ValidControlPlane(s) /\ ValidWorkers(s)

ValidShootCreation(read, s) ==
    Decodes(s) /\ ValidAgainstCloudProfile(read, Nothing, s) /\ ValidShoot(s)

\* Mutant: the networks of a shoot may change.
SameNetworksUnchecked(old, new) == TRUE

\* ValidateInfrastructureConfigUpdate
SameNetworks(old, new) == new.networks = old.networks

ValidShootUpdate(read, old, new) ==
    /\ Decodes(new) /\ Decodes(old)
    /\ SameNetworks(old, new)
    /\ ValidAgainstCloudProfile(read, old.networks, new)
    /\ ValidWorkersUpdate(old, new)
    /\ ValidShoot(new)

\* Mutant: regions may have any number of zones.
ValidCloudProfileAny(p) == TRUE

\* The validator of CloudProfiles, which does not look at the old one
ValidCloudProfile(p) == \A region \in Locations : Len(p[region]) <= 1

\* A shoot from before the checks of network zones and of pools without zones
LegacyShoot(s) ==
    /\ Decodes(s)
    /\ ValidNodes(s) /\ ValidNetworks(s) /\ s.controlPlane # Garbage
    /\ \A p \in PoolsOf(s) :
          ValidPool([s.workers[p] EXCEPT !.zones = IF @ = <<>> THEN <<Nothing>> ELSE @])

ASSUME ConstantsAssumption ==
    /\ MaxNumber \in Nat
    /\ Submissions \subseteq Shoots /\ LegacyShoots \subseteq Shoots
    /\ Profiles \subseteq CloudProfiles
    /\ HostedIn \in [Locations -> NetworkZones]
    /\ LocationOf \in [Zones -> Locations]
    /\ KnownLocations \subseteq Locations /\ KnownZones \subseteq NetworkZones
    /\ Nothing \notin NetworkZones \cup Zones \cup Blocks \cup {Garbage}
    /\ Garbage \notin Blocks \cup Networks \cup ControlPlaneConfigs
    /\ Nothing \notin ControlPlaneConfigs \cup Configurations \cup Networks \cup Shoots \cup WorkerPools
    /\ Nothing \notin Clusters \cup WorkerNetworks \cup PoolMachines
    /\ \A s \in LegacyShoots : LegacyShoot(s)

-----------------------------------------------------------------------------
(* The garden.  GardenerAllows is what Gardener's own admission says: a    *)
(* pool's zones are those of the CloudProfile, or those that it had.       *)

GardenerAllows(new, oldZones) ==
    \A p \in PoolsOf(new) :
        /\ new.workers[p].minimum <= new.workers[p].maximum
        /\ Range(new.workers[p].zones) \subseteq
              Range(profile[new.region]) \cup oldZones[p]

ZonesOf(s) == [p \in Pools |-> IF p \in PoolsOf(s) THEN Range(s.workers[p].zones) ELSE {}]

NoZones == [p \in Pools |-> {}]

Init ==
    /\ fields \in SUBSET ValidatorFields
    /\ profile \in {p \in Profiles : ValidCloudProfile(p)}
    /\ shoot \in {s \in LegacyShoots : GardenerAllows(s, NoZones)} \cup {Nothing}
    /\ legacy = (shoot # Nothing)
    /\ replaced = FALSE
    /\ dropped = {}
    /\ cluster = Nothing
    /\ network = Nothing
    /\ machines = NoMachines

CreateShoot ==
    /\ shoot = Nothing
    /\ \E s \in Submissions, read \in BOOLEAN :
          /\ ValidShootCreation(read, s)
          /\ GardenerAllows(s, NoZones)
          /\ shoot' = s
    /\ legacy' = FALSE
    /\ replaced' = FALSE
    /\ dropped' = {}
    /\ UNCHANGED <<fields, profile, cluster, network, machines>>

\* Gardener keeps the region and the networks of nodes, pods and services.
SamePlace(one, other) ==
    /\ one.region = other.region
    /\ one.nodes = other.nodes /\ one.pods = other.pods /\ one.services = other.services

UpdateShoot ==
    /\ shoot # Nothing
    /\ \E s \in Submissions, read \in BOOLEAN :
          /\ SamePlace(s, shoot)
          /\ ValidShootUpdate(read, shoot, s)
          /\ GardenerAllows(s, ZonesOf(shoot))
          /\ shoot' = s
          /\ dropped' = dropped \cup (PoolsOf(shoot) \ PoolsOf(s))
    /\ UNCHANGED <<fields, profile, legacy, replaced, cluster, network, machines>>

KeepsZones(old, new, region) == Range(old[region]) \subseteq Range(new[region])

UpdateCloudProfile ==
    /\ \E p \in Profiles :
          /\ ValidCloudProfile(p)
          /\ profile' = p
          /\ replaced' = (replaced \/ (shoot # Nothing /\ ~KeepsZones(profile, p, shoot.region)))
    /\ UNCHANGED <<fields, shoot, legacy, dropped, cluster, network, machines>>

-----------------------------------------------------------------------------
(* The seed.                                                               *)

\* gardenlet copies shoot and CloudProfile for the controllers.
StartReconcile ==
    /\ shoot # Nothing
    /\ cluster' = [shoot |-> shoot, profile |-> profile]
    /\ UNCHANGED <<fields, garden, network, machines>>

\* An empty zone is that of the control plane's location.
ZoneToCreate(s) ==
    IF NetworkZoneOf(s.networks) # Nothing THEN NetworkZoneOf(s.networks)
    ELSE IF s.controlPlane.zone # Nothing THEN HostedIn[LocationOf[s.controlPlane.zone]]
    ELSE Nothing

\* EnsureNetworks: a network of that name is taken as it is.  reconcile gets there
\* with a ControlPlaneConfig only.
EnsureNetworks ==
    /\ cluster # Nothing
    /\ network = Nothing
    /\ cluster.shoot.controlPlane \in ControlPlaneConfigs
    /\ cluster.shoot.networks \notin {Nothing, Garbage}
    /\ WorkersCIDR(cluster.shoot.networks) \in Blocks
    /\ ZoneToCreate(cluster.shoot) # Nothing
    /\ network' = [range |-> WorkersCIDR(cluster.shoot.networks),
                   zone  |-> ZoneToCreate(cluster.shoot)]
    /\ UNCHANGED <<fields, garden, cluster, machines>>

\* poolZones
PoolZones(pool) ==
    IF pool.zones # <<>> THEN pool.zones ELSE cluster.profile[cluster.shoot.region]

\* DistributeOverZones of a number; a percentage is one of each deployment.
SurgeShare(surge, i, n) ==
    IF surge.percent THEN surge.value
    ELSE surge.value \div n + (IF i <= surge.value % n THEN 1 ELSE 0)

Deployment(pool, zones, i) ==
    [zone    |-> zones[i],
     minimum |-> pool.minimum,
     maximum |-> pool.maximum,
     surge   |-> SurgeShare(pool.surge, i, Len(zones))]

Deployments(pool) ==
    [i \in DOMAIN PoolZones(pool) |-> Deployment(pool, PoolZones(pool), i)]

\* No pools, or a pool that is nowhere, is an error.
Places(s) ==
    PoolsOf(s) # {} /\ \A p \in PoolsOf(s) : PoolZones(s.workers[p]) # <<>>

\* generateMachineConfig, once the infrastructure is there
GenerateMachineConfig ==
    /\ cluster # Nothing
    /\ network # Nothing
    /\ Places(cluster.shoot)
    /\ machines' =
          [p \in Pools |->
              IF p \in PoolsOf(cluster.shoot)
              THEN [pool        |-> cluster.shoot.workers[p],
                    deployments |-> Deployments(cluster.shoot.workers[p])]
              ELSE Nothing]
    /\ UNCHANGED <<fields, garden, cluster, network>>

\* Worker, Infrastructure and at last the shoot go away.
DeleteShoot ==
    /\ shoot # Nothing
    /\ shoot' = Nothing
    /\ cluster' = Nothing
    /\ network' = Nothing
    /\ machines' = NoMachines
    /\ UNCHANGED <<fields, profile, history>>

Next ==
    \/ CreateShoot \/ UpdateShoot \/ UpdateCloudProfile
    \/ StartReconcile \/ EnsureNetworks \/ GenerateMachineConfig \/ DeleteShoot

Spec == Init /\ [][Next]_vars

-----------------------------------------------------------------------------
(* Properties.                                                             *)

TypeOK ==
    /\ fields \subseteq ValidatorFields
    /\ profile \in CloudProfiles
    /\ shoot \in Shoots \cup {Nothing}
    /\ legacy \in BOOLEAN
    /\ replaced \in BOOLEAN
    /\ dropped \subseteq Pools
    /\ cluster \in Clusters \cup {Nothing}
    /\ network \in WorkerNetworks \cup {Nothing}
    /\ machines \in [Pools -> PoolMachines \cup {Nothing}]

\* The network that machines are attached to has the range, and the zone if there
\* is one, of the config as it is now, though it is only ever made once and then
\* found by its name (EnsureNetworks).
NetworkAsConfigured ==
    network # Nothing =>
        /\ shoot # Nothing
        /\ network.range = WorkersCIDR(shoot.networks)
        /\ NetworkZoneOf(shoot.networks) # Nothing => network.zone = NetworkZoneOf(shoot.networks)

\* The addresses of nodes are none of pods or services, lie in the network that
\* Gardener knows as that of the nodes, and begin in a private range.
AddressesApart ==
    network # Nothing =>
        /\ network.range.ipv4 /\ PrivateIPv4Range(network.range)
        /\ network.range.block \subseteq shoot.nodes.block
        /\ \A other \in {shoot.pods, shoot.services} \cap Blocks :
              network.range.block \cap other.block = {}

\* A network zone that is given lets the servers of the region attach, once the
\* webhook has seen the shoot's creation and as far as it knows the region.
GivenZoneHostsRegion ==
    network # Nothing /\ ~legacy /\ shoot.region \in KnownLocations
        /\ NetworkZoneOf(shoot.networks) # Nothing =>
            network.zone = HostedIn[shoot.region]

PlacedPools == {p \in Pools : machines[p] # Nothing}

\* All deployments of a pool together have its size, although each is given the
\* minimum and maximum of the whole pool: no sequence of updates leaves a pool in two
\* places unless the CloudProfile has replaced the zone of the shoot's region.  (Then
\* the pool may name the old zone and the new one, and has twice its size.)
PoolTotals ==
    ~replaced => \A p \in PlacedPools :
        LET parts == machines[p].deployments
        IN  /\ SumFunction([i \in DOMAIN parts |-> parts[i].minimum]) = machines[p].pool.minimum
            /\ SumFunction([i \in DOMAIN parts |-> parts[i].maximum]) = machines[p].pool.maximum

\* Where a spread group is asked for by that name and the surge is a number, HCloud
\* can place all of a pool's servers, those of a rolling update included, under the
\* same condition: the webhook counts them once for each pool.
SpreadPoolsFit ==
    ~replaced => \A p \in PlacedPools :
        LET parts == machines[p].deployments
        IN  machines[p].pool.group = "spread" /\ ~machines[p].pool.surge.percent =>
                SumFunction([i \in DOMAIN parts |-> parts[i].maximum + parts[i].surge]) <= 10

\* The inductive invariant
CopyInv ==
    cluster # Nothing =>
        /\ shoot # Nothing
        /\ SamePlace(cluster.shoot, shoot)
        /\ SameNetworks(cluster.shoot, shoot)

AdmittedInv ==
    shoot # Nothing =>
        /\ Decodes(shoot) /\ ValidNodes(shoot) /\ ValidNetworks(shoot)
        /\ shoot.controlPlane # Garbage
        /\ ~legacy => ZoneFitsRegion(Nothing, shoot)

NetworkInv ==
    network # Nothing =>
        /\ cluster # Nothing
        /\ network.range = WorkersCIDR(cluster.shoot.networks)
        /\ NetworkZoneOf(cluster.shoot.networks) # Nothing =>
                network.zone = NetworkZoneOf(cluster.shoot.networks)

\* Unless a zone of the shoot's region is replaced, what the region gains, it had not;
\* a pool is where the region is, or has no zones.
HasPlace(zones) == zones \in {<<>>, profile[shoot.region]}

PlaceInv ==
    /\ ValidCloudProfile(profile)
    /\ ~replaced =>
          /\ shoot # Nothing =>
                \A p \in PoolsOf(shoot) : HasPlace(shoot.workers[p].zones)
          /\ cluster # Nothing =>
                /\ HasPlace(cluster.profile[shoot.region])
                /\ \A p \in PoolsOf(cluster.shoot) : HasPlace(cluster.shoot.workers[p].zones)
          /\ \A p \in PlacedPools :
                /\ shoot # Nothing
                /\ Len(profile[shoot.region]) = 1
                /\ Len(machines[p].deployments) = 1
                /\ machines[p].deployments[1].zone = profile[shoot.region][1]

\* Whatever happens to the CloudProfile, the zones of a pool that stays in the shoot
\* only grow, from those that it is deployed with over the controllers' copy to those
\* that the shoot has now.
GrowingInv ==
    /\ cluster # Nothing =>
          \A p \in PoolsOf(cluster.shoot) \ dropped :
              /\ p \in PoolsOf(shoot)
              /\ ZonesAppended(cluster.shoot.workers[p].zones, shoot.workers[p].zones)
    /\ \A p \in PlacedPools :
          /\ cluster # Nothing
          /\ p \notin dropped =>
                /\ p \in PoolsOf(cluster.shoot)
                /\ ZonesAppended(machines[p].pool.zones, cluster.shoot.workers[p].zones)
          /\ machines[p].pool.zones # <<>> =>
                [i \in DOMAIN machines[p].deployments |-> machines[p].deployments[i].zone]
                    = machines[p].pool.zones

IInv == CopyInv /\ AdmittedInv /\ NetworkInv /\ PlaceInv /\ GrowingInv

WithZones(s) ==
    [s EXCEPT !.workers = [p \in Pools |->
        IF p \in PoolsOf(s) /\ @[p].zones = <<>>
        THEN [@[p] EXCEPT !.zones = profile[s.region]] ELSE @[p]]]

\* The webhook can read what it decides on.
CanRead(read, s) ==
    "client" \in fields /\ read /\ (s.controlPlane # Nothing => "decoder" \in fields)

\* Whatever a shoot and the CloudProfile have been through, an update that changes
\* nothing, or fills in zones that are missing, is refused for one reason only: that the
\* webhook cannot read the CloudProfile or decode the ControlPlaneConfig (shoot.go:93,
\* shoot.go:160).  As it is registered it never can, and refuses every update; what it
\* checks of a shoot leaves none that can be neither updated nor deleted
\* (infrastructure.go:168, machines.go:121).
RefusedOnlyUnread ==
    shoot # Nothing /\ (legacy => profile[shoot.region] # <<>>) =>
        /\ \A read \in BOOLEAN :
              ValidShootUpdate(read, shoot, WithZones(shoot)) <=> CanRead(read, shoot)
        /\ GardenerAllows(WithZones(shoot), ZonesOf(shoot))

\* What PoolTotals, SpreadPoolsFit and RefusedOnlyUnread need in addition: pools are as
\* the webhook and Gardener left them, but that those of an old shoot may lack zones, and
\* the one deployment of a pool has the pool's numbers.
AdmittedPool(pool) ==
    /\ pool.minimum <= pool.maximum
    /\ pool.maximum # 0 => pool.minimum # 0
    /\ pool.zones # <<>> => IsInjective(pool.zones)
    /\ pool.group # Garbage
    /\ FitsGroup(pool)

WholePool(pool, part) ==
    /\ part.minimum = pool.minimum
    /\ part.maximum = pool.maximum
    /\ part.surge = pool.surge.value

PoolInv ==
    /\ shoot # Nothing =>
          \A p \in PoolsOf(shoot) :
              /\ AdmittedPool(shoot.workers[p])
              /\ ~legacy => shoot.workers[p].zones # <<>>
    /\ cluster # Nothing =>
          \A p \in PoolsOf(cluster.shoot) : FitsGroup(cluster.shoot.workers[p])
    /\ \A p \in PlacedPools :
          /\ FitsGroup(machines[p].pool)
          /\ ~replaced => WholePool(machines[p].pool, machines[p].deployments[1])

\* While a pool stays, its deployments stay, in their zones: neither zones that are
\* filled in nor a zone that the CloudProfile gains move its nodes (poolZones).  With a
\* zone replaced that still holds of pools that name their zones and that no update has
\* taken out of the shoot.
DeploymentsStay ==
    [][\A p \in PlacedPools \cap PlacedPools' :
          ~replaced \/ (machines[p].pool.zones # <<>> /\ p \notin dropped) =>
              \A i \in DOMAIN machines[p].deployments :
                  /\ i \in DOMAIN machines'[p].deployments
                  /\ machines'[p].deployments[i].zone = machines[p].deployments[i].zone]_vars

\* infrastructure.go:79: an empty zone is resolved from the region.
EmptyZoneIsThatOfRegion ==
    network # Nothing /\ NetworkZoneOf(shoot.networks) = Nothing =>
        network.zone = HostedIn[shoot.region]
=============================================================================
