------------------------ MODULE ShootAdmissionProofs ------------------------
(***************************************************************************)
(* Proofs about ShootAdmission, for all sets of addresses, locations,      *)
(* zones, pools and submitted shoots.  Only what the webhook itself has    *)
(* admitted, or what Gardener's admission keeps, is used; nothing is       *)
(* assumed of how often the controllers' copy is renewed.                  *)
(***************************************************************************)
EXTENDS ShootAdmission, SequenceTheorems, TLAPS

\* A pool whose zones are distinct and known has none or those of its region, which
\* the webhook keeps to one (workers.go:48, cloudprofile.go:46).
LEMMA OnePlace ==
    ASSUME NEW zones \in Seq(Zones), NEW known \in Seq(Zones),
           Len(known) <= 1,
           zones # <<>> => IsInjective(zones),
           Range(zones) \subseteq Range(known)
    PROVE  zones \in {<<>>, known}
<1>1. SUFFICES ASSUME zones # <<>>
               PROVE  zones = known
    OBVIOUS
<1>2. Len(zones) \in Nat /\ Len(known) \in Nat /\ Len(zones) # 0
    BY <1>1, EmptySeq
<1>3. \A i \in DOMAIN zones : \E j \in DOMAIN known : zones[i] = known[j]
    <2>1. \A i \in DOMAIN zones : zones[i] \in Range(zones)
        BY DEF Range
    <2>2. \A z \in Range(known) : \E j \in DOMAIN known : z = known[j]
        BY DEF Range
    <2>3. QED
        BY <2>1, <2>2
<1>4. 1 \in DOMAIN zones
    BY <1>2
<1>5. \A j \in DOMAIN known : j = 1
    OBVIOUS
<1>6. \A i \in DOMAIN zones : i = 1
    BY <1>1, <1>3, <1>4, <1>5 DEF IsInjective
<1>7. Len(zones) = 1 /\ Len(known) = 1
    <2>1. 1 \in DOMAIN known
        BY <1>3, <1>4, <1>5
    <2>2. CASE Len(zones) >= 2
        <3>1. 2 \in DOMAIN zones
            BY <1>2, <2>2
        <3>2. QED
            BY <1>6, <3>1
    <2>3. \A n \in Nat : n # 0 => n >= 2 \/ n = 1
        OBVIOUS
    <2>4. QED
        BY <1>2, <2>1, <2>2, <2>3
<1>8. zones[1] = known[1]
    BY <1>3, <1>4, <1>5
<1>9. QED
    BY <1>7, <1>8

\* The fields of a shoot keep their types.
LEMMA ShootFields ==
    ASSUME NEW s \in Shoots
    PROVE  /\ s.region \in Locations
           /\ s.networks \in Networks \cup {Nothing, Garbage}
           /\ s.controlPlane \in ControlPlaneConfigs \cup {Nothing, Garbage}
           /\ \A p \in PoolsOf(s) : s.workers[p] \in WorkerPools
BY DEF Shoots, PoolsOf

\* A network zone is one of HCloud's, or none is given (networkZoneOf).
LEMMA ZoneType ==
    ASSUME NEW networks \in Networks \cup {Nothing, Garbage}
    PROVE  NetworkZoneOf(networks) \in NetworkZones \cup {Nothing}
BY ConstantsAssumption DEF NetworkZoneOf, Networks, Configurations

\* Admitted pools lie where their region is (ValidateWorkers, Gardener's admission).
LEMMA PlacedPool ==
    ASSUME NEW s \in Shoots, NEW p \in PoolsOf(s),
           profile \in CloudProfiles, ValidCloudProfile(profile),
           NEW old, Range(s.workers[p].zones) \subseteq Range(profile[s.region]) \cup old,
           old \subseteq Range(profile[s.region]),
           s.workers[p].zones # <<>> => ValidPool(s.workers[p])
    PROVE  s.workers[p].zones \in {<<>>, profile[s.region]}
<1>1. s.workers[p].zones \in Seq(Zones)
    BY ShootFields DEF WorkerPools
<1>2. profile[s.region] \in Seq(Zones) /\ Len(profile[s.region]) <= 1
    BY ShootFields DEF CloudProfiles, ValidCloudProfile
<1>3. s.workers[p].zones # <<>> => IsInjective(s.workers[p].zones)
    BY DEF ValidPool
<1>4. QED
    BY <1>1, <1>2, <1>3, OnePlace

\* A network that is created lies in one of HCloud's zones (EnsureNetworks).
LEMMA ZoneToCreateType ==
    ASSUME NEW s \in Shoots, s.controlPlane \in ControlPlaneConfigs
    PROVE  ZoneToCreate(s) \in NetworkZones \cup {Nothing}
BY ShootFields, ZoneType, ConstantsAssumption DEF ZoneToCreate, ControlPlaneConfigs

\* A region that keeps its zones keeps its one zone, or had none.
LEMMA KeptZones ==
    ASSUME NEW p \in CloudProfiles, profile \in CloudProfiles,
           ValidCloudProfile(p), ValidCloudProfile(profile),
           NEW region \in Locations, KeepsZones(profile, p, region)
    PROVE  profile[region] \in {<<>>, p[region]}
<1>1. profile[region] \in Seq(Zones) /\ p[region] \in Seq(Zones)
    BY DEF CloudProfiles
<1>2. Len(profile[region]) <= 1 /\ Len(p[region]) <= 1
    BY DEF ValidCloudProfile
<1>3. IsInjective(profile[region])
    BY <1>1, <1>2 DEF IsInjective
<1>4. QED
    BY <1>1, <1>2, <1>3, OnePlace DEF KeepsZones

\* What is appended to a list is appended to what it was appended to.
LEMMA AppendedTwice ==
    ASSUME NEW a \in Seq(Zones), NEW b \in Seq(Zones), NEW c \in Seq(Zones),
           ZonesAppended(a, b), ZonesAppended(b, c)
    PROVE  ZonesAppended(a, c)
BY DEF ZonesAppended

LEMMA AppendedToItself ==
    ASSUME NEW a \in Seq(Zones)
    PROVE  ZonesAppended(a, a)
BY DEF ZonesAppended

\* The zones of a pool are a list of zones, be they its own or those of the region.
LEMMA ZonesType ==
    ASSUME NEW s \in Shoots, NEW p \in PoolsOf(s)
    PROVE  s.workers[p].zones \in Seq(Zones)
BY ShootFields DEF WorkerPools

-----------------------------------------------------------------------------
(* The inductive invariant.                                                *)

Inv == TypeOK /\ IInv

\* A shoot from before the webhook, or none, and nothing in the seed yet
LEMMA InitInv == Init => Inv
<1> SUFFICES ASSUME Init PROVE Inv
    OBVIOUS
<1>1. profile \in CloudProfiles /\ ValidCloudProfile(profile)
    BY ConstantsAssumption DEF Init
<1>2. shoot # Nothing => shoot \in Shoots /\ LegacyShoot(shoot) /\ GardenerAllows(shoot, NoZones)
    BY ConstantsAssumption DEF Init
<1>3. TypeOK
    BY <1>1, <1>2, ConstantsAssumption DEF Init, TypeOK, NoMachines
<1>4. AdmittedInv
    BY <1>2 DEF Init, AdmittedInv, LegacyShoot
<1>5. ASSUME shoot # Nothing, NEW p \in PoolsOf(shoot)
      PROVE  HasPlace(shoot.workers[p].zones)
    <2>1. p \in Pools /\ p \in DOMAIN NoZones /\ NoZones[p] = {}
        BY DEF PoolsOf, NoZones
    <2>2. Range(shoot.workers[p].zones) \subseteq Range(profile[shoot.region]) \cup {}
        BY <1>2, <1>5, <2>1 DEF GardenerAllows
    <2>3. shoot.workers[p].zones # <<>> => ValidPool(shoot.workers[p])
        <3>1. ValidPool([shoot.workers[p] EXCEPT !.zones = IF @ = <<>> THEN <<Nothing>> ELSE @])
            BY <1>2, <1>5 DEF LegacyShoot
        <3>2. shoot.workers[p] \in WorkerPools
            BY <1>2, <1>5, ShootFields
        <3>3. shoot.workers[p].zones # <<>> =>
                [shoot.workers[p] EXCEPT !.zones = IF @ = <<>> THEN <<Nothing>> ELSE @] = shoot.workers[p]
            BY <3>2 DEF WorkerPools
        <3>4. QED
            BY <3>1, <3>3
    <2>4. QED
        BY <1>1, <1>2, <1>5, <2>2, <2>3, PlacedPool DEF HasPlace
<1>6. PlaceInv /\ GrowingInv
    BY <1>1, <1>5 DEF Init, PlaceInv, GrowingInv, PlacedPools, NoMachines
<1>7. QED
    BY <1>3, <1>4, <1>6 DEF Init, Inv, IInv, CopyInv, NetworkInv

\* An admitted shoot that Gardener allows has its pools where its region is.
LEMMA AdmittedPlaces ==
    ASSUME Inv, NEW s \in Shoots, ValidShoot(s), NEW old,
           GardenerAllows(s, old),
           \A p \in PoolsOf(s) : old[p] \subseteq Range(profile[s.region])
    PROVE  \A p \in PoolsOf(s) : s.workers[p].zones \in {<<>>, profile[s.region]}
<1> TAKE p \in PoolsOf(s)
<1>1. Range(s.workers[p].zones) \subseteq Range(profile[s.region]) \cup old[p]
    BY DEF GardenerAllows
<1>2. ValidPool(s.workers[p])
    BY DEF ValidShoot, ValidWorkers
<1>3. QED
    BY <1>1, <1>2, PlacedPool DEF Inv, TypeOK, IInv, PlaceInv

\* The zones that a pool had are those of its region, if none has been replaced.
LEMMA ZonesKnown ==
    ASSUME Inv, ~replaced, shoot # Nothing, NEW p
    PROVE  p \in Pools => ZonesOf(shoot)[p] \subseteq Range(profile[shoot.region])
<1> HAVE p \in Pools
<1>1. CASE p \notin PoolsOf(shoot)
    BY <1>1 DEF ZonesOf
<1>2. CASE p \in PoolsOf(shoot)
    <2>1. HasPlace(shoot.workers[p].zones)
        BY <1>2 DEF Inv, IInv, PlaceInv
    <2>2. Range(<<>>) = {}
        BY DEF Range
    <2>3. QED
        BY <1>2, <2>1, <2>2 DEF ZonesOf, HasPlace
<1>3. QED
    BY <1>1, <1>2

LEMMA CreateShootInv == Inv /\ CreateShoot => Inv'
<1> SUFFICES ASSUME Inv, CreateShoot PROVE Inv'
    OBVIOUS
<1> USE DEF Inv, IInv
<1>1. PICK s \in Submissions, read \in BOOLEAN :
        ValidShootCreation(read, s) /\ GardenerAllows(s, NoZones) /\ shoot' = s
    BY DEF CreateShoot
<1>2. s \in Shoots /\ s # Nothing
    BY ConstantsAssumption
<1>3. cluster = Nothing /\ network = Nothing /\ PlacedPools = {}
    BY DEF CreateShoot, CopyInv, NetworkInv, GrowingInv
<1>4. TypeOK'
    BY <1>1, <1>2 DEF CreateShoot, TypeOK
<1>5. CopyInv' /\ NetworkInv'
    BY <1>3 DEF CreateShoot, CopyInv, NetworkInv
<1>6. AdmittedInv'
    BY <1>1, ConstantsAssumption DEF CreateShoot, AdmittedInv, ValidShootCreation,
       ValidAgainstCloudProfile, ValidShoot, ValidControlPlane
<1>7. \A p \in PoolsOf(s) : s.workers[p].zones \in {<<>>, profile[s.region]}
    <2>1. \A p \in PoolsOf(s) : NoZones[p] \subseteq Range(profile[s.region])
        BY DEF PoolsOf, NoZones
    <2>2. QED
        BY <1>1, <1>2, <2>1, AdmittedPlaces DEF ValidShootCreation
<1>8. PlacedPools' = PlacedPools /\ cluster' = cluster /\ profile' = profile
    BY DEF CreateShoot, PlacedPools
<1>9. PlaceInv' /\ GrowingInv'
    BY <1>1, <1>3, <1>7, <1>8 DEF PlaceInv, GrowingInv, HasPlace
<1>10. QED
    BY <1>4, <1>5, <1>6, <1>9

LEMMA UpdateShootInv == Inv /\ UpdateShoot => Inv'
<1> SUFFICES ASSUME Inv, UpdateShoot PROVE Inv'
    OBVIOUS
<1> USE DEF Inv, IInv
<1>1. PICK s \in Submissions, read \in BOOLEAN :
        /\ SamePlace(s, shoot) /\ ValidShootUpdate(read, shoot, s)
        /\ GardenerAllows(s, ZonesOf(shoot)) /\ shoot' = s
        /\ dropped' = dropped \cup (PoolsOf(shoot) \ PoolsOf(s))
    BY DEF UpdateShoot
<1>2. s \in Shoots /\ s # Nothing /\ shoot \in Shoots /\ shoot # Nothing
    BY ConstantsAssumption DEF UpdateShoot, TypeOK
<1>3. TypeOK'
    BY <1>1, <1>2 DEF UpdateShoot, TypeOK, PoolsOf
<1>4. CopyInv'
    BY <1>1, <1>2 DEF UpdateShoot, CopyInv, SamePlace, SameNetworks, ValidShootUpdate
<1>5. NetworkInv'
    BY DEF UpdateShoot, NetworkInv
<1>6. AdmittedInv'
    <2>1. ~legacy => ZoneFitsRegion(Nothing, s)
        BY <1>1, <1>2 DEF AdmittedInv, ZoneFitsRegion, SamePlace, SameNetworks, ValidShootUpdate
    <2>2. QED
        BY <1>1, <2>1, ConstantsAssumption
           DEF UpdateShoot, AdmittedInv, ValidShootUpdate, ValidShoot, ValidControlPlane
<1>7. s.region = shoot.region
    BY <1>1 DEF SamePlace
<1>8. ASSUME ~replaced
      PROVE  \A p \in PoolsOf(s) : s.workers[p].zones \in {<<>>, profile[s.region]}
    <2>1. \A p \in PoolsOf(s) : ZonesOf(shoot)[p] \subseteq Range(profile[s.region])
        BY <1>2, <1>7, <1>8, ZonesKnown DEF PoolsOf
    <2>2. QED
        BY <1>1, <1>2, <2>1, AdmittedPlaces DEF ValidShootUpdate
<1>9. PlaceInv'
    BY <1>1, <1>2, <1>7, <1>8 DEF UpdateShoot, PlaceInv, PlacedPools, HasPlace
<1>10. GrowingInv'
    <2>1. ASSUME cluster # Nothing, NEW p \in PoolsOf(cluster.shoot), p \notin dropped'
          PROVE  /\ p \in PoolsOf(s)
                 /\ ZonesAppended(cluster.shoot.workers[p].zones, s.workers[p].zones)
        <3>1. /\ p \in PoolsOf(shoot)
              /\ ZonesAppended(cluster.shoot.workers[p].zones, shoot.workers[p].zones)
            BY <1>1, <2>1 DEF GrowingInv
        <3>2. p \in PoolsOf(s)
            BY <1>1, <2>1, <3>1
        <3>3. ZonesAppended(shoot.workers[p].zones, s.workers[p].zones)
            BY <1>1, <3>1, <3>2 DEF ValidShootUpdate, ValidWorkersUpdate
        <3>4. cluster.shoot \in Shoots
            BY <2>1 DEF TypeOK, Clusters
        <3>5. QED
            BY <1>2, <2>1, <3>1, <3>2, <3>3, <3>4, ZonesType, AppendedTwice
    <2>2. cluster' = cluster /\ machines' = machines /\ PlacedPools' = PlacedPools
        BY DEF UpdateShoot, PlacedPools
    <2>3. QED
        BY <1>1, <2>1, <2>2 DEF GrowingInv
<1>11. QED
    BY <1>3, <1>4, <1>5, <1>6, <1>9, <1>10

\* What has a place keeps it, unless the region loses a zone: the validator keeps each
\* region to one (cloudprofile.go:46).
LEMMA UpdateCloudProfileInv == Inv /\ UpdateCloudProfile => Inv'
<1> SUFFICES ASSUME Inv, UpdateCloudProfile PROVE Inv'
    OBVIOUS
<1> USE DEF Inv, IInv
<1>1. PICK p \in Profiles :
        /\ ValidCloudProfile(p)
        /\ profile' = p
        /\ replaced' = (replaced \/ (shoot # Nothing /\ ~KeepsZones(profile, p, shoot.region)))
    BY DEF UpdateCloudProfile
<1>2. p \in CloudProfiles
    BY ConstantsAssumption
<1>3. TypeOK'
    BY <1>1, <1>2 DEF UpdateCloudProfile, TypeOK
<1>4. CopyInv' /\ AdmittedInv' /\ NetworkInv'
    BY DEF UpdateCloudProfile, CopyInv, AdmittedInv, NetworkInv
<1>5. ASSUME ~replaced', shoot # Nothing
      PROVE  ~replaced /\ profile[shoot.region] \in {<<>>, p[shoot.region]}
    <2>1. shoot.region \in Locations
        BY <1>5, ShootFields DEF TypeOK
    <2>2. ~replaced /\ KeepsZones(profile, p, shoot.region)
        BY <1>1, <1>5
    <2>3. QED
        BY <1>1, <1>2, <2>1, <2>2, KeptZones DEF TypeOK, PlaceInv
<1>6. PlacedPools' = PlacedPools /\ machines' = machines /\ cluster' = cluster
      /\ shoot' = shoot /\ dropped' = dropped
    BY DEF UpdateCloudProfile, PlacedPools
<1>7. PlaceInv'
    <2>1. ValidCloudProfile(profile')
        BY <1>1
    <2>2. ASSUME ~replaced', shoot # Nothing
          PROVE  /\ \A q \in PoolsOf(shoot) : HasPlace(shoot.workers[q].zones)'
                 /\ cluster # Nothing =>
                      /\ HasPlace(cluster.profile[shoot.region])'
                      /\ \A q \in PoolsOf(cluster.shoot) : HasPlace(cluster.shoot.workers[q].zones)'
                 /\ \A q \in PlacedPools :
                      /\ Len(profile'[shoot.region]) = 1
                      /\ Len(machines[q].deployments) = 1
                      /\ machines[q].deployments[1].zone = profile'[shoot.region][1]
        <3>1. ~replaced /\ profile[shoot.region] \in {<<>>, p[shoot.region]}
            BY <1>5, <2>2
        <3>2. \A zones : HasPlace(zones) => HasPlace(zones)'
            BY <1>1, <1>6, <3>1 DEF HasPlace
        <3>3. /\ \A q \in PoolsOf(shoot) : HasPlace(shoot.workers[q].zones)
              /\ cluster # Nothing =>
                   /\ HasPlace(cluster.profile[shoot.region])
                   /\ \A q \in PoolsOf(cluster.shoot) : HasPlace(cluster.shoot.workers[q].zones)
            BY <2>2, <3>1 DEF PlaceInv
        <3>4. ASSUME NEW q \in PlacedPools
              PROVE  /\ Len(profile'[shoot.region]) = 1
                     /\ Len(machines[q].deployments) = 1
                     /\ machines[q].deployments[1].zone = profile'[shoot.region][1]
            <4>1. /\ Len(profile[shoot.region]) = 1
                  /\ Len(machines[q].deployments) = 1
                  /\ machines[q].deployments[1].zone = profile[shoot.region][1]
                BY <3>1 DEF PlaceInv
            <4>2. Len(<<>>) = 0
                OBVIOUS
            <4>3. profile[shoot.region] = p[shoot.region]
                BY <3>1, <4>1, <4>2
            <4>4. QED
                BY <1>1, <4>1, <4>3
        <3>5. QED
            BY <3>2, <3>3, <3>4, <1>6 DEF HasPlace
    <2>3. ~replaced' => PlacedPools = {} \/ shoot # Nothing
        BY DEF GrowingInv, CopyInv
    <2>4. cluster # Nothing => shoot # Nothing
        BY DEF CopyInv
    <2>5. QED
        BY <1>6, <2>1, <2>2, <2>3, <2>4 DEF PlaceInv, HasPlace
<1>8. GrowingInv'
    BY <1>6 DEF GrowingInv
<1>9. QED
    BY <1>3, <1>4, <1>7, <1>8

LEMMA StartReconcileInv == Inv /\ StartReconcile => Inv'
<1> SUFFICES ASSUME Inv, StartReconcile PROVE Inv'
    OBVIOUS
<1> USE DEF Inv, IInv, StartReconcile
<1>1. shoot \in Shoots /\ shoot # Nothing /\ profile \in CloudProfiles
    BY DEF TypeOK
<1>2. cluster' # Nothing /\ cluster'.shoot = shoot /\ cluster'.profile = profile
    <2>1. [shoot |-> shoot, profile |-> profile] # Nothing
        BY <1>1, ConstantsAssumption DEF Clusters
    <2>2. QED
        BY <2>1
<1>3. TypeOK'
    BY <1>1 DEF TypeOK, Clusters, garden, history
<1>4. CopyInv'
    BY <1>1, <1>2 DEF CopyInv, garden, SamePlace, SameNetworks
<1>5. AdmittedInv'
    BY DEF AdmittedInv, garden, history
<1>6. NetworkInv'
    BY <1>2 DEF NetworkInv, CopyInv, SameNetworks
<1>7. PlaceInv'
    BY <1>1, <1>2 DEF PlaceInv, PlacedPools, HasPlace, garden, history
<1>8. GrowingInv'
    <2>1. \A p \in PoolsOf(shoot) :
             ZonesAppended(shoot.workers[p].zones, shoot.workers[p].zones)
        BY <1>1, ZonesType, AppendedToItself
    <2>2. ASSUME NEW p \in PlacedPools, p \notin dropped
          PROVE  /\ p \in PoolsOf(shoot)
                 /\ ZonesAppended(machines[p].pool.zones, shoot.workers[p].zones)
        <3>1. /\ cluster # Nothing
              /\ p \in PoolsOf(cluster.shoot)
              /\ ZonesAppended(machines[p].pool.zones, cluster.shoot.workers[p].zones)
            BY <2>2 DEF GrowingInv
        <3>2. /\ p \in PoolsOf(shoot)
              /\ ZonesAppended(cluster.shoot.workers[p].zones, shoot.workers[p].zones)
            BY <2>2, <3>1 DEF GrowingInv
        <3>3. machines[p].pool.zones \in Seq(Zones)
            BY DEF TypeOK, PlacedPools, PoolMachines, WorkerPools
        <3>4. cluster.shoot \in Shoots
            BY <3>1 DEF TypeOK, Clusters
        <3>5. QED
            BY <1>1, <3>1, <3>2, <3>3, <3>4, ZonesType, AppendedTwice
    <2>3. PlacedPools' = PlacedPools /\ machines' = machines /\ dropped' = dropped /\ shoot' = shoot
        BY DEF PlacedPools, garden, history
    <2>4. QED
        BY <1>2, <2>1, <2>2, <2>3 DEF GrowingInv
<1>9. QED
    BY <1>3, <1>4, <1>5, <1>6, <1>7, <1>8

LEMMA EnsureNetworksInv == Inv /\ EnsureNetworks => Inv'
<1> SUFFICES ASSUME Inv, EnsureNetworks PROVE Inv'
    OBVIOUS
<1> USE DEF Inv, IInv, EnsureNetworks
<1> DEFINE range == WorkersCIDR(cluster.shoot.networks)
           zone  == ZoneToCreate(cluster.shoot)
<1>1. cluster.shoot \in Shoots
    BY DEF TypeOK, Clusters
<1>2. range \in Blocks /\ zone \in NetworkZones
    BY <1>1, ZoneToCreateType
<1>3. network' \in WorkerNetworks /\ network'.range = range /\ network'.zone = zone
    BY <1>2 DEF WorkerNetworks
<1>4. TypeOK'
    BY <1>3 DEF TypeOK, garden, history
<1>5. CopyInv' /\ AdmittedInv'
    BY DEF CopyInv, AdmittedInv, garden, history
<1>6. NetworkInv'
    BY <1>3 DEF NetworkInv, ZoneToCreate
<1>7. PlaceInv' /\ GrowingInv'
    BY DEF PlaceInv, GrowingInv, PlacedPools, HasPlace, garden, history
<1>8. QED
    BY <1>4, <1>5, <1>6, <1>7

\* A pool is put where its region is, whether or not it says so (poolZones), if the
\* region has kept its zones.
LEMMA PoolZonesPlace ==
    ASSUME Inv, ~replaced, cluster # Nothing, NEW p \in PoolsOf(cluster.shoot),
           PoolZones(cluster.shoot.workers[p]) # <<>>
    PROVE  /\ PoolZones(cluster.shoot.workers[p]) = profile[shoot.region]
           /\ profile[shoot.region] \in Seq(Zones)
           /\ Len(profile[shoot.region]) = 1
<1> DEFINE zones == cluster.shoot.workers[p].zones
<1>1. shoot # Nothing /\ cluster.shoot.region = shoot.region /\ shoot.region \in Locations
    BY ShootFields DEF Inv, IInv, CopyInv, SamePlace, TypeOK
<1>2. zones \in {<<>>, profile[shoot.region]}
    BY DEF Inv, IInv, PlaceInv, HasPlace
<1>3. cluster.profile[shoot.region] \in {<<>>, profile[shoot.region]}
    BY <1>1 DEF Inv, IInv, PlaceInv, HasPlace
<1>4. PoolZones(cluster.shoot.workers[p]) = profile[shoot.region]
    BY <1>1, <1>2, <1>3 DEF PoolZones
<1>5. profile[shoot.region] \in Seq(Zones) /\ Len(profile[shoot.region]) <= 1
    BY <1>1 DEF Inv, IInv, PlaceInv, TypeOK, CloudProfiles, ValidCloudProfile
<1>6. Len(profile[shoot.region]) \in Nat \ {0}
    BY <1>4, <1>5, EmptySeq
<1>7. \A n \in Nat \ {0} : n <= 1 => n = 1
    OBVIOUS
<1>8. QED
    BY <1>4, <1>5, <1>6, <1>7

\* Each deployment gets a part of the surge, and no more than all of it, however many
\* zones there are (DistributeOverZones).
LEMMA SurgeShareType ==
    ASSUME NEW surge \in Surges, NEW n \in Nat \ {0}, NEW i \in Nat \ {0}
    PROVE  SurgeShare(surge, i, n) \in 0 .. MaxNumber
<1> DEFINE v == surge.value
<1>1. v \in 0 .. MaxNumber /\ MaxNumber \in Nat
    BY ConstantsAssumption DEF Surges
<1>2. ASSUME NEW a \in Nat
      PROVE  a \div n \in Nat /\ a % n \in Nat /\ a = n * (a \div n) + (a % n)
    OBVIOUS
<1>3. \A q \in Nat : q <= n * q
    OBVIOUS
<1>4. v \div n + (IF i <= v % n THEN 1 ELSE 0) \in 0 .. v
    <2>1. v \in Nat
        BY <1>1
    <2>2. v \div n \in Nat /\ v % n \in Nat /\ v = n * (v \div n) + (v % n)
        BY <1>2, <2>1
    <2>3. v \div n <= n * (v \div n)
        BY <1>3, <2>2
    <2> HIDE DEF v
    <2>4. QED
        BY <2>1, <2>2, <2>3
<1>5. QED
    BY <1>1, <1>4 DEF SurgeShare

\* A pool that is somewhere has deployments, one for each of its zones.
LEMMA DeploymentsType ==
    ASSUME Inv, cluster # Nothing, NEW p \in PoolsOf(cluster.shoot),
           PoolZones(cluster.shoot.workers[p]) # <<>>
    PROVE  LET parts == Deployments(cluster.shoot.workers[p])
               zones == PoolZones(cluster.shoot.workers[p])
           IN  /\ parts \in Seq(MachineDeployments) \ {<<>>}
               /\ Len(parts) = Len(zones)
               /\ DOMAIN parts = DOMAIN zones
               /\ \A i \in DOMAIN zones : parts[i].zone = zones[i]
<1> DEFINE pool  == cluster.shoot.workers[p]
           zones == PoolZones(pool)
<1>1. cluster.shoot \in Shoots /\ cluster.profile \in CloudProfiles
    BY DEF Inv, TypeOK, Clusters
<1>2. pool \in WorkerPools
    BY <1>1, ShootFields
<1>3. zones \in Seq(Zones)
    <2>1. cluster.profile[cluster.shoot.region] \in Seq(Zones)
        BY <1>1, ShootFields DEF CloudProfiles
    <2>2. pool.zones \in Seq(Zones)
        BY <1>2 DEF WorkerPools
    <2>3. QED
        BY <2>1, <2>2 DEF PoolZones
<1> HIDE DEF zones
<1>4. Len(zones) \in Nat \ {0} /\ DOMAIN zones = 1 .. Len(zones)
    <2>1. zones # <<>>
        BY DEF zones
    <2>2. QED
        BY <1>3, <2>1, EmptySeq
<1>5. ASSUME NEW i \in DOMAIN zones
      PROVE  Deployment(pool, zones, i) \in MachineDeployments
    <2>1. SurgeShare(pool.surge, i, Len(zones)) \in 0 .. MaxNumber
        <3>1. pool.surge \in Surges
            BY <1>2 DEF WorkerPools
        <3>2. i \in Nat \ {0}
            BY <1>4
        <3>3. QED
            BY <1>4, <3>1, <3>2, SurgeShareType
    <2>2. pool.minimum \in 0 .. MaxNumber /\ pool.maximum \in 0 .. MaxNumber
        BY <1>2 DEF WorkerPools
    <2>3. zones[i] \in Zones
        BY <1>3
    <2>4. QED
        BY <2>1, <2>2, <2>3 DEF Deployment, MachineDeployments
<1>6. Deployments(pool) = [i \in 1 .. Len(zones) |-> Deployment(pool, zones, i)]
    BY <1>4 DEF Deployments, zones
<1>7. Deployments(pool) \in Seq(MachineDeployments) /\ Len(Deployments(pool)) = Len(zones)
    BY <1>4, <1>5, <1>6
<1>8. Deployments(pool) # <<>>
    BY <1>4, <1>7
<1>9. \A i \in DOMAIN zones : Deployments(pool)[i].zone = zones[i]
    BY <1>4, <1>6 DEF Deployment
<1>10. DOMAIN Deployments(pool) = DOMAIN zones
    BY <1>4, <1>6
<1>11. QED
    BY <1>7, <1>8, <1>9, <1>10 DEF zones

LEMMA GenerateMachineConfigInv == Inv /\ GenerateMachineConfig => Inv'
<1> SUFFICES ASSUME Inv, GenerateMachineConfig PROVE Inv'
    OBVIOUS
<1> USE DEF Inv, IInv
<1>1. cluster # Nothing /\ shoot # Nothing /\ cluster \in Clusters
    BY DEF GenerateMachineConfig, CopyInv, TypeOK
<1>2. \A p \in Pools :
        machines'[p] = IF p \in PoolsOf(cluster.shoot)
                       THEN [pool        |-> cluster.shoot.workers[p],
                             deployments |-> Deployments(cluster.shoot.workers[p])]
                       ELSE Nothing
    BY DEF GenerateMachineConfig
<1>3. ASSUME NEW p \in PoolsOf(cluster.shoot)
      PROVE  LET parts == machines'[p].deployments
                 pool  == cluster.shoot.workers[p]
             IN  /\ machines'[p] \in PoolMachines
                 /\ machines'[p].pool = pool
                 /\ ~replaced =>
                      /\ Len(parts) = 1
                      /\ parts[1].zone = profile[shoot.region][1]
                      /\ Len(profile[shoot.region]) = 1
                 /\ pool.zones # <<>> => [i \in DOMAIN parts |-> parts[i].zone] = pool.zones
    <2> DEFINE pool  == cluster.shoot.workers[p]
               parts == Deployments(pool)
               zones == PoolZones(pool)
    <2>1. zones # <<>>
        BY DEF GenerateMachineConfig, Places
    <2>2. pool \in WorkerPools
        BY <1>1, ShootFields DEF Clusters
    <2>3. machines'[p] = [pool |-> pool, deployments |-> parts]
        BY <1>2 DEF PoolsOf
    <2>4. /\ parts \in Seq(MachineDeployments) \ {<<>>}
          /\ Len(parts) = Len(zones)
          /\ DOMAIN parts = DOMAIN zones
          /\ \A i \in DOMAIN zones : parts[i].zone = zones[i]
        BY <1>1, <2>1, DeploymentsType
    <2>5. machines'[p] \in PoolMachines
        BY <2>2, <2>3, <2>4 DEF PoolMachines
    <2>6. ASSUME ~replaced
          PROVE  /\ Len(parts) = 1
                 /\ parts[1].zone = profile[shoot.region][1]
                 /\ Len(profile[shoot.region]) = 1
        <3>1. /\ zones = profile[shoot.region]
              /\ zones \in Seq(Zones) /\ Len(zones) = 1
            BY <1>1, <2>1, <2>6, PoolZonesPlace
        <3>2. 1 \in DOMAIN zones
            BY <3>1
        <3> HIDE DEF zones, parts
        <3>3. QED
            BY <2>4, <3>1, <3>2
    <2>7. ASSUME pool.zones # <<>>
          PROVE  [i \in DOMAIN parts |-> parts[i].zone] = pool.zones
        <3>1. zones = pool.zones /\ pool.zones \in Seq(Zones)
            BY <2>2, <2>7 DEF PoolZones, WorkerPools
        <3>2. pool.zones = [i \in DOMAIN zones |-> zones[i]]
            BY <3>1
        <3> HIDE DEF zones, parts, pool
        <3>3. QED
            BY <2>4, <3>2
    <2> HIDE DEF parts, pool
    <2>8. QED
        BY <2>3, <2>5, <2>6, <2>7 DEF pool
<1>4. machines' \in [Pools -> PoolMachines \cup {Nothing}]
    BY <1>2, <1>3 DEF GenerateMachineConfig
<1>5. PlacedPools' \subseteq PoolsOf(cluster.shoot)
    BY <1>2 DEF PlacedPools
<1>6. TypeOK'
    BY <1>4 DEF GenerateMachineConfig, TypeOK, garden, history
<1>7. CopyInv' /\ AdmittedInv' /\ NetworkInv'
    BY DEF GenerateMachineConfig, CopyInv, AdmittedInv, NetworkInv, garden, history
<1>8. PlaceInv'
    BY <1>1, <1>3, <1>5 DEF GenerateMachineConfig, PlaceInv, HasPlace, garden, history
<1>9. GrowingInv'
    <2>1. \A p \in PoolsOf(cluster.shoot) :
             ZonesAppended(cluster.shoot.workers[p].zones, cluster.shoot.workers[p].zones)
        BY <1>1, ZonesType, AppendedToItself DEF Clusters
    <2>2. cluster' = cluster /\ dropped' = dropped /\ shoot' = shoot
        BY DEF GenerateMachineConfig, garden, history
    <2>3. QED
        BY <1>1, <1>3, <1>5, <2>1, <2>2 DEF GrowingInv
<1>10. QED
    BY <1>6, <1>7, <1>8, <1>9

LEMMA DeleteShootInv == Inv /\ DeleteShoot => Inv'
BY DEF Inv, IInv, DeleteShoot, TypeOK, CopyInv, AdmittedInv, NetworkInv, PlaceInv,
       GrowingInv, PlacedPools, NoMachines, HasPlace, history

LEMMA StepInv == Inv /\ [Next]_vars => Inv'
<1>1. Inv /\ UNCHANGED vars => Inv'
    BY DEF Inv, IInv, vars, garden, history, TypeOK, CopyInv, AdmittedInv, NetworkInv,
           PlaceInv, GrowingInv, PlacedPools, HasPlace
<1>2. QED
    BY <1>1, CreateShootInv, UpdateShootInv, UpdateCloudProfileInv, StartReconcileInv,
       EnsureNetworksInv, GenerateMachineConfigInv, DeleteShootInv DEF Next

-----------------------------------------------------------------------------
(* Theorems.                                                               *)

LEMMA Inductive == Spec => []Inv
BY InitInv, StepInv, PTL DEF Spec

\* The variables keep their types: a pool that has machines at all has a deployment
\* (generateMachineConfig).
THEOREM TypeCorrect == Spec => []TypeOK
<1>1. Inv => TypeOK
    BY DEF Inv
<1>2. QED
    BY <1>1, Inductive, PTL

\* The inductive invariant: the controllers' copy has the networks of the shoot, all
\* of them admitted; the zones of a pool only grow from what is deployed to what the
\* shoot has (ValidateWorkersUpdate), and no pool is in two places unless the
\* CloudProfile has replaced a zone of the shoot's region.
THEOREM Invariance == Spec => []IInv
<1>1. Inv => IInv
    BY DEF Inv
<1>2. QED
    BY <1>1, Inductive, PTL

\* It follows from the invariant that the copy has the shoot's networks.
LEMMA Configured == Inv => NetworkAsConfigured
BY DEF Inv, IInv, CopyInv, NetworkInv, NetworkAsConfigured, SameNetworks

\* The network found by its name (EnsureNetworks) is the one the shoot configures.
THEOREM NetworkStaysConfigured == Spec => []NetworkAsConfigured
BY Configured, Inductive, PTL

\* The addresses of nodes are apart from those of pods and services, and private
\* (ValidateInfrastructureConfig).
THEOREM AddressesKeptApart == Spec => []AddressesApart
<1>1. Inv => AddressesApart
    <2> SUFFICES ASSUME Inv, network # Nothing PROVE AddressesApart
        BY DEF AddressesApart
    <2>1. shoot # Nothing /\ network.range = WorkersCIDR(shoot.networks)
        BY Configured DEF NetworkAsConfigured
    <2>2. ValidNodes(shoot) /\ ValidNetworks(shoot)
        BY <2>1 DEF Inv, IInv, AdmittedInv
    <2>3. QED
        BY <2>1, <2>2 DEF AddressesApart, ValidNodes, ValidNetworks, WorkersWithinNodes,
                          IsSubset, Overlap
<1>2. QED
    BY <1>1, Inductive, PTL

\* A network zone that is given hosts the region (ValidateInfrastructureConfigAgainst-
\* CloudProfile), but for shoots from before that check.
THEOREM ZoneFits == Spec => []GivenZoneHostsRegion
<1>1. Inv => GivenZoneHostsRegion
    <2> SUFFICES ASSUME Inv, network # Nothing, ~legacy, shoot.region \in KnownLocations,
                        NetworkZoneOf(shoot.networks) # Nothing
                 PROVE  network.zone = HostedIn[shoot.region]
        BY DEF GivenZoneHostsRegion
    <2>1. shoot # Nothing /\ network.zone = NetworkZoneOf(shoot.networks)
        BY Configured DEF NetworkAsConfigured
    <2>2. ZoneFitsRegion(Nothing, shoot)
        BY <2>1 DEF Inv, IInv, AdmittedInv
    <2>3. NetworkZoneOf(Nothing) = Nothing
        BY DEF NetworkZoneOf
    <2>4. QED
        BY <2>1, <2>2, <2>3 DEF ZoneFitsRegion
<1>2. QED
    BY <1>1, Inductive, PTL

\* A pool that stays has its deployments where they were: all pools as long as the
\* region keeps its zones (poolZones), and whatever the CloudProfile does, those that
\* name their zones and stay in the shoot (ValidateWorkersUpdate).
THEOREM NodesStay == Spec => DeploymentsStay
<1> DEFINE Stay ==
        \A p \in PlacedPools \cap PlacedPools' :
            ~replaced \/ (machines[p].pool.zones # <<>> /\ p \notin dropped) =>
                \A i \in DOMAIN machines[p].deployments :
                    /\ i \in DOMAIN machines'[p].deployments
                    /\ machines'[p].deployments[i].zone = machines[p].deployments[i].zone
<1>1. Inv /\ Inv' /\ [Next]_vars => [Stay]_vars
    <2> SUFFICES ASSUME Inv, Inv', [Next]_vars, NEW p \in PlacedPools, p \in PlacedPools',
                        ~replaced \/ (machines[p].pool.zones # <<>> /\ p \notin dropped),
                        NEW i \in DOMAIN machines[p].deployments
                 PROVE  /\ i \in DOMAIN machines'[p].deployments
                        /\ machines'[p].deployments[i].zone = machines[p].deployments[i].zone
        OBVIOUS
    <2>1. CASE UNCHANGED machines
        BY <2>1
    <2>2. CASE GenerateMachineConfig
        <3> DEFINE old == machines[p]
                   new == machines'[p]
        <3>1. old \in PoolMachines /\ new \in PoolMachines
            BY DEF Inv, TypeOK, PlacedPools
        <3>2. /\ old.deployments \in Seq(MachineDeployments)
              /\ new.deployments \in Seq(MachineDeployments)
              /\ old.pool.zones \in Seq(Zones) /\ new.pool.zones \in Seq(Zones)
            BY <3>1 DEF PoolMachines, WorkerPools
        <3>3. CASE ~replaced
            <4>1. /\ Len(old.deployments) = 1
                  /\ old.deployments[1].zone = profile[shoot.region][1]
                  /\ Len(new.deployments) = 1
                  /\ new.deployments[1].zone = profile[shoot.region][1]
                BY <2>2, <3>3 DEF Inv, IInv, PlaceInv, GenerateMachineConfig, garden, history
            <4>2. DOMAIN old.deployments = {1} /\ DOMAIN new.deployments = {1}
                BY <3>2, <4>1
            <4>3. QED
                BY <4>1, <4>2
        <3>4. CASE old.pool.zones # <<>> /\ p \notin dropped
            <4>1. /\ cluster # Nothing /\ p \in PoolsOf(cluster.shoot)
                  /\ ZonesAppended(old.pool.zones, cluster.shoot.workers[p].zones)
                BY <3>4 DEF Inv, IInv, GrowingInv
            <4>2. new.pool = cluster.shoot.workers[p]
                BY <2>2, <4>1 DEF GenerateMachineConfig, PoolsOf
            <4>3. /\ Len(old.pool.zones) <= Len(new.pool.zones)
                  /\ \A j \in 1 .. Len(old.pool.zones) : new.pool.zones[j] = old.pool.zones[j]
                BY <4>1, <4>2 DEF ZonesAppended
            <4>4. new.pool.zones # <<>>
                <5>1. Len(old.pool.zones) # 0 /\ Len(old.pool.zones) \in Nat
                    BY <3>2, <3>4, EmptySeq
                <5>2. Len(<<>>) = 0
                    OBVIOUS
                <5>3. QED
                    BY <3>2, <4>3, <5>1, <5>2
            <4>5. /\ [j \in DOMAIN old.deployments |-> old.deployments[j].zone] = old.pool.zones
                  /\ [j \in DOMAIN new.deployments |-> new.deployments[j].zone] = new.pool.zones
                BY <3>4, <4>4 DEF Inv, IInv, GrowingInv
            <4>6. /\ DOMAIN old.deployments = 1 .. Len(old.pool.zones)
                  /\ DOMAIN new.deployments = 1 .. Len(new.pool.zones)
                BY <3>2, <4>5
            <4>7. i \in DOMAIN new.deployments
                BY <3>2, <4>3, <4>6
            <4>8. old.deployments[i].zone = old.pool.zones[i] /\ new.deployments[i].zone = new.pool.zones[i]
                BY <4>5, <4>7
            <4>9. QED
                BY <4>3, <4>6, <4>7, <4>8
        <3>5. QED
            BY <3>3, <3>4
    <2>3. CASE DeleteShoot
        BY <2>3 DEF DeleteShoot, PlacedPools, NoMachines
    <2>4. QED
        BY <2>1, <2>2, <2>3 DEF Next, vars, CreateShoot, UpdateShoot, UpdateCloudProfile,
           StartReconcile, EnsureNetworks
<1>2. QED
    BY <1>1, Inductive, PTL DEF Spec, DeploymentsStay

-----------------------------------------------------------------------------
(* The numbers of pools: how many servers a pool may have, and that no shoot *)
(* is one that the webhook would not take back.                              *)

\* Which zones a pool has does not matter to what is kept of it.
LEMMA LegacyPool ==
    ASSUME NEW pool \in WorkerPools,
           ValidPool([pool EXCEPT !.zones = IF @ = <<>> THEN <<Nothing>> ELSE @]),
           pool.minimum <= pool.maximum
    PROVE  AdmittedPool(pool)
<1> DEFINE filled == [pool EXCEPT !.zones = IF @ = <<>> THEN <<Nothing>> ELSE @]
<1>1. /\ filled.minimum = pool.minimum /\ filled.maximum = pool.maximum
      /\ filled.group = pool.group /\ filled.surge = pool.surge
      /\ pool.zones # <<>> => filled.zones = pool.zones
    BY DEF WorkerPools
<1>2. QED
    BY <1>1 DEF ValidPool, AdmittedPool, FitsGroup

\* What the webhook and Gardener admit (ValidateWorkers)
LEMMA AdmittedPools ==
    ASSUME NEW s, ValidShoot(s), NEW old, GardenerAllows(s, old), NEW p \in PoolsOf(s)
    PROVE  AdmittedPool(s.workers[p]) /\ s.workers[p].zones # <<>>
BY DEF ValidShoot, ValidWorkers, ValidPool, GardenerAllows, AdmittedPool

LEMMA InitPool == Init => PoolInv
<1> SUFFICES ASSUME Init PROVE PoolInv
    OBVIOUS
<1>1. ASSUME shoot # Nothing, NEW p \in PoolsOf(shoot)
      PROVE  AdmittedPool(shoot.workers[p]) /\ legacy
    <2>1. shoot \in Shoots /\ LegacyShoot(shoot) /\ GardenerAllows(shoot, NoZones) /\ legacy
        BY <1>1, ConstantsAssumption DEF Init
    <2>2. shoot.workers[p] \in WorkerPools
        BY <2>1, ShootFields
    <2>3. /\ ValidPool([shoot.workers[p] EXCEPT !.zones = IF @ = <<>> THEN <<Nothing>> ELSE @])
          /\ shoot.workers[p].minimum <= shoot.workers[p].maximum
        BY <2>1 DEF LegacyShoot, GardenerAllows
    <2>4. QED
        BY <2>1, <2>2, <2>3, LegacyPool
<1>2. PlacedPools = {} /\ cluster = Nothing
    BY DEF Init, PlacedPools, NoMachines
<1>3. QED
    BY <1>1, <1>2 DEF PoolInv

\* With one deployment, that has the numbers of the whole pool (generateMachineConfig).
LEMMA DeploymentWhole ==
    ASSUME Inv, ~replaced, cluster # Nothing, NEW p \in PoolsOf(cluster.shoot),
           PoolZones(cluster.shoot.workers[p]) # <<>>
    PROVE  WholePool(cluster.shoot.workers[p], Deployments(cluster.shoot.workers[p])[1])
<1> DEFINE pool  == cluster.shoot.workers[p]
           zones == profile[shoot.region]
<1>1. PoolZones(pool) = zones /\ zones \in Seq(Zones) /\ Len(zones) = 1
    BY PoolZonesPlace
<1>2. pool.surge.value \in Nat
    <2>1. pool \in WorkerPools /\ MaxNumber \in Nat
        BY ShootFields, ConstantsAssumption DEF Inv, TypeOK, Clusters
    <2>2. pool.surge \in Surges
        BY <2>1 DEF WorkerPools
    <2>3. QED
        BY <2>1, <2>2 DEF Surges
<1>3. \A n \in Nat : n \div 1 = n /\ n % 1 = 0
    OBVIOUS
<1>4. SurgeShare(pool.surge, 1, 1) = pool.surge.value
    BY <1>2, <1>3 DEF SurgeShare
<1>5. 1 \in DOMAIN zones
    BY <1>1
<1>6. Deployments(pool)[1] = Deployment(pool, zones, 1)
    BY <1>1, <1>5 DEF Deployments
<1>7. QED
    BY <1>1, <1>4, <1>6 DEF Deployment, WholePool

LEMMA PoolStep == Inv /\ PoolInv /\ [Next]_vars => PoolInv'
<1> SUFFICES ASSUME Inv, PoolInv, [Next]_vars PROVE PoolInv'
    OBVIOUS
<1>1. CASE CreateShoot
    <2>1. PICK s \in Submissions, read \in BOOLEAN :
            ValidShoot(s) /\ GardenerAllows(s, NoZones) /\ shoot' = s
        BY <1>1 DEF CreateShoot, ValidShootCreation
    <2>2. cluster = Nothing /\ PlacedPools = {}
        BY <1>1 DEF CreateShoot, Inv, IInv, CopyInv, GrowingInv
    <2>3. cluster' = cluster /\ PlacedPools' = PlacedPools
        BY <1>1 DEF CreateShoot, PlacedPools
    <2>4. QED
        BY <2>1, <2>2, <2>3, AdmittedPools DEF PoolInv
<1>2. CASE UpdateShoot
    <2>1. PICK s \in Submissions, read \in BOOLEAN :
            ValidShoot(s) /\ GardenerAllows(s, ZonesOf(shoot)) /\ shoot' = s
        BY <1>2 DEF UpdateShoot, ValidShootUpdate
    <2>2. \A p \in PoolsOf(s) : AdmittedPool(s.workers[p]) /\ s.workers[p].zones # <<>>
        BY <2>1, AdmittedPools
    <2>3. cluster' = cluster /\ machines' = machines /\ replaced' = replaced
        BY <1>2 DEF UpdateShoot
    <2>4. QED
        BY <2>1, <2>2, <2>3 DEF PoolInv, PlacedPools
<1>3. CASE UpdateCloudProfile
    <2>1. ~replaced' => ~replaced
        BY <1>3 DEF UpdateCloudProfile
    <2>2. QED
        BY <1>3, <2>1 DEF UpdateCloudProfile, PoolInv, PlacedPools
<1>4. CASE StartReconcile
    <2>1. shoot # Nothing /\ cluster'.shoot = shoot
        BY <1>4 DEF StartReconcile
    <2>2. \A p \in PoolsOf(shoot) : FitsGroup(shoot.workers[p])
        BY <2>1 DEF PoolInv, AdmittedPool
    <2>3. QED
        BY <1>4, <2>1, <2>2 DEF StartReconcile, PoolInv, PlacedPools, garden, history
<1>5. CASE EnsureNetworks
    BY <1>5 DEF EnsureNetworks, PoolInv, PlacedPools, garden, history
<1>6. CASE GenerateMachineConfig
    <2>1. ASSUME NEW p \in Pools, machines'[p] # Nothing
          PROVE  /\ FitsGroup(machines'[p].pool)
                 /\ ~replaced => WholePool(machines'[p].pool, machines'[p].deployments[1])
        <3>1. cluster # Nothing /\ p \in PoolsOf(cluster.shoot)
            BY <1>6, <2>1 DEF GenerateMachineConfig
        <3>2. machines'[p] = [pool        |-> cluster.shoot.workers[p],
                              deployments |-> Deployments(cluster.shoot.workers[p])]
            BY <1>6, <3>1 DEF GenerateMachineConfig
        <3>3. PoolZones(cluster.shoot.workers[p]) # <<>>
            BY <1>6, <3>1 DEF GenerateMachineConfig, Places
        <3>4. FitsGroup(cluster.shoot.workers[p])
            BY <3>1 DEF PoolInv
        <3>5. QED
            BY <3>1, <3>2, <3>3, <3>4, DeploymentWhole
    <2>2. QED
        BY <1>6, <2>1 DEF GenerateMachineConfig, PoolInv, PlacedPools, garden, history
<1>7. CASE DeleteShoot
    BY <1>7 DEF DeleteShoot, PoolInv, PlacedPools, NoMachines
<1>8. CASE UNCHANGED vars
    BY <1>8 DEF vars, garden, history, PoolInv, PlacedPools
<1>9. QED
    BY <1>1, <1>2, <1>3, <1>4, <1>5, <1>6, <1>7, <1>8 DEF Next

LEMMA PoolsKept == Spec => [](Inv /\ PoolInv)
BY InitInv, InitPool, StepInv, PoolStep, PTL DEF Spec

\* The sum over one deployment is that deployment's number.  SumFunction folds by a
\* function on the subsets of the domain, which is chosen: here there is one.
LEMMA OneSum ==
    ASSUME NEW f, DOMAIN f = {1}, f[1] \in Int
    PROVE  SumFunction(f) = f[1]
<1> DEFINE Folds(iter) ==
             iter = [s \in SUBSET {1} |->
                       IF s = {} THEN 0
                       ELSE LET x == CHOOSE x \in s : TRUE IN f[x] + iter[s \ {x}]]
           sum  == [s \in SUBSET {1} |-> IF s = {} THEN 0 ELSE f[1]]
           fold == CHOOSE iter : Folds(iter)
<1>1. (CHOOSE x \in {1} : TRUE) = 1
    OBVIOUS
<1>2. Folds(sum)
    <2>1. \A s \in SUBSET {1} : s = {} \/ s = {1}
        OBVIOUS
    <2>2. sum[{1}] = f[1] /\ sum[{1} \ {1}] = 0
        BY SMT
    <2>3. ASSUME NEW s \in SUBSET {1}
          PROVE  sum[s] = IF s = {} THEN 0
                          ELSE LET x == CHOOSE x \in s : TRUE IN f[x] + sum[s \ {x}]
        <3>1. CASE s = {}
            BY <3>1
        <3>2. CASE s = {1}
            <4> HIDE DEF sum
            <4>1. sum[{1}] = f[1] + sum[{1} \ {1}]
                BY <2>2
            <4>2. sum[{1}] = f[CHOOSE x \in {1} : TRUE] + sum[{1} \ {CHOOSE x \in {1} : TRUE}]
                BY <1>1, <4>1, Zenon
            <4>3. QED
                BY <3>2, <4>2, Zenon
        <3>3. QED
            BY <2>1, <3>1, <3>2
    <2>4. QED
        BY <2>3
<1> HIDE DEF sum
<1>3. Folds(fold)
    <2> HIDE DEF Folds
    <2>1. QED
        BY <1>2
<1>4. SumFunction(f) = fold[{1}]
    BY DEF SumFunction, SumFunctionOnSet, FoldFunctionOnSet, MapThenFoldSet
<1>5. fold[{1}] = f[1]
    <2>1. fold = [s \in SUBSET {1} |->
                    IF s = {} THEN 0
                    ELSE LET x == CHOOSE x \in s : TRUE IN f[x] + fold[s \ {x}]]
        BY <1>3
    <2> HIDE DEF fold
    <2>2. fold[{}] = 0
        BY <2>1
    <2>3. fold[{1}] = f[1] + fold[{1} \ {1}]
        BY <1>1, <2>1
    <2>4. {1} \ {1} = {}
        OBVIOUS
    <2>5. fold[{1}] = f[1] + 0
        BY <2>2, <2>3, <2>4, Zenon
    <2>6. QED
        BY <2>5
<1>6. QED
    BY <1>4, <1>5

\* Where a pool is placed it has one deployment, with numbers, if no zone is replaced.
LEMMA OneDeployment ==
    ASSUME Inv, PoolInv, ~replaced, NEW p \in PlacedPools
    PROVE  LET pool  == machines[p].pool
               parts == machines[p].deployments
           IN  /\ pool \in WorkerPools
               /\ DOMAIN parts = {1}
               /\ WholePool(pool, parts[1])
               /\ FitsGroup(pool)
               /\ pool.minimum \in Nat /\ pool.maximum \in Nat /\ pool.surge.value \in Nat
<1>1. machines[p] \in PoolMachines
    BY DEF Inv, TypeOK, PlacedPools
<1>2. machines[p].pool \in WorkerPools /\ machines[p].deployments \in Seq(MachineDeployments)
    BY <1>1 DEF PoolMachines
<1>3. Len(machines[p].deployments) = 1
    BY DEF Inv, IInv, PlaceInv
<1>4. DOMAIN machines[p].deployments = {1}
    BY <1>2, <1>3
<1>5. /\ machines[p].pool.minimum \in Nat /\ machines[p].pool.maximum \in Nat
      /\ machines[p].pool.surge.value \in Nat
    <2>1. MaxNumber \in Nat
        BY ConstantsAssumption
    <2>2. machines[p].pool.surge \in Surges
        BY <1>2 DEF WorkerPools
    <2>3. machines[p].pool.surge.value \in 0 .. MaxNumber
        BY <2>2 DEF Surges
    <2>4. machines[p].pool.minimum \in 0 .. MaxNumber /\ machines[p].pool.maximum \in 0 .. MaxNumber
        BY <1>2 DEF WorkerPools
    <2>5. QED
        BY <2>1, <2>3, <2>4
<1>6. QED
    BY <1>2, <1>4, <1>5 DEF PoolInv

\* The deployments of a pool add up to the pool (generateMachineConfig gives each the
\* size of the whole), through every sequence of updates that replaces no zone of the
\* shoot's region in the CloudProfile.
THEOREM PoolsKeepTheirSize == Spec => []PoolTotals
<1>1. Inv /\ PoolInv => PoolTotals
    <2> SUFFICES ASSUME Inv, PoolInv, ~replaced, NEW p \in PlacedPools
                 PROVE  LET parts == machines[p].deployments
                        IN  /\ SumFunction([i \in DOMAIN parts |-> parts[i].minimum]) = machines[p].pool.minimum
                            /\ SumFunction([i \in DOMAIN parts |-> parts[i].maximum]) = machines[p].pool.maximum
        BY DEF PoolTotals
    <2> DEFINE parts == machines[p].deployments
               least == [i \in DOMAIN parts |-> parts[i].minimum]
               most  == [i \in DOMAIN parts |-> parts[i].maximum]
    <2>1. /\ DOMAIN parts = {1} /\ WholePool(machines[p].pool, parts[1])
          /\ machines[p].pool.minimum \in Nat /\ machines[p].pool.maximum \in Nat
        BY OneDeployment
    <2>2. /\ DOMAIN least = {1} /\ least[1] = machines[p].pool.minimum
          /\ DOMAIN most = {1} /\ most[1] = machines[p].pool.maximum
        BY <2>1 DEF WholePool
    <2> HIDE DEF least, most
    <2>3. least[1] \in Int /\ most[1] \in Int
        BY <2>1, <2>2
    <2>4. SumFunction(least) = least[1] /\ SumFunction(most) = most[1]
        BY <2>2, <2>3, OneSum
    <2>5. QED
        BY <2>2, <2>4 DEF least, most
<1>2. QED
    BY <1>1, PoolsKept, PTL

\* A spread group is never asked for more servers than it takes, during rolling
\* updates neither (ValidateWorkers counts ten for the pool), unless a zone of the region
\* is replaced, so that the pool may have two deployments.
THEOREM SpreadGroupsFit == Spec => []SpreadPoolsFit
<1>1. Inv /\ PoolInv => SpreadPoolsFit
    <2> SUFFICES ASSUME Inv, PoolInv, ~replaced, NEW p \in PlacedPools,
                        machines[p].pool.group = "spread", ~machines[p].pool.surge.percent
                 PROVE  LET parts == machines[p].deployments
                        IN  SumFunction([i \in DOMAIN parts |-> parts[i].maximum + parts[i].surge]) <= 10
        BY DEF SpreadPoolsFit
    <2> DEFINE pool  == machines[p].pool
               parts == machines[p].deployments
               most  == [i \in DOMAIN parts |-> parts[i].maximum + parts[i].surge]
    <2>1. /\ DOMAIN parts = {1} /\ WholePool(pool, parts[1]) /\ FitsGroup(pool)
          /\ pool.maximum \in Nat /\ pool.surge.value \in Nat
        BY OneDeployment
    <2>2. DOMAIN most = {1} /\ most[1] = pool.maximum + pool.surge.value
        BY <2>1 DEF WholePool
    <2>3. pool.maximum + pool.surge.value <= 10
        BY <2>1 DEF FitsGroup, IntVal
    <2> HIDE DEF most
    <2>4. most[1] \in Int
        BY <2>1, <2>2
    <2>5. SumFunction(most) = most[1]
        BY <2>2, <2>4, OneSum
    <2>6. SumFunction(most) <= 10
        BY <2>2, <2>3, <2>5
    <2>7. QED
        BY <2>6 DEF most
<1>2. QED
    BY <1>1, PoolsKept, PTL

\* Filling in the zones of a pool changes nothing else of it.
LEMMA FilledPool ==
    ASSUME Inv, shoot # Nothing, NEW p \in PoolsOf(shoot)
    PROVE  LET pool   == shoot.workers[p]
               filled == WithZones(shoot).workers[p]
           IN  /\ filled # Nothing
               /\ filled.minimum = pool.minimum /\ filled.maximum = pool.maximum
               /\ filled.group = pool.group /\ filled.surge = pool.surge
               /\ filled.zones = IF pool.zones = <<>> THEN profile[shoot.region] ELSE pool.zones
<1> DEFINE pool   == shoot.workers[p]
           filled == WithZones(shoot).workers[p]
<1>1. shoot \in Shoots /\ pool \in WorkerPools /\ p \in Pools
    BY ShootFields DEF Inv, TypeOK, PoolsOf
<1>2. filled = IF pool.zones = <<>> THEN [pool EXCEPT !.zones = profile[shoot.region]] ELSE pool
    BY <1>1 DEF WithZones, Shoots
<1>3. profile[shoot.region] \in Seq(Zones)
    BY <1>1, ShootFields DEF Inv, TypeOK, CloudProfiles
<1>4. CASE pool.zones = <<>>
    <2>1. [pool EXCEPT !.zones = profile[shoot.region]] \in WorkerPools
        BY <1>1, <1>3 DEF WorkerPools
    <2>2. filled # Nothing
        BY <1>2, <1>4, <2>1, ConstantsAssumption
    <2>3. QED
        BY <1>1, <1>2, <1>4, <2>2 DEF WorkerPools
<1>5. CASE pool.zones # <<>>
    BY <1>1, <1>2, <1>5, ConstantsAssumption
<1>6. QED
    BY <1>4, <1>5

\* Filling in zones changes no other part of the shoot, nor the set of its pools.
LEMMA FilledShoot ==
    ASSUME Inv, shoot # Nothing
    PROVE  LET filled == WithZones(shoot)
           IN  /\ filled.region = shoot.region /\ filled.networks = shoot.networks
               /\ filled.nodes = shoot.nodes
               /\ filled.pods = shoot.pods /\ filled.services = shoot.services
               /\ filled.controlPlane = shoot.controlPlane
               /\ PoolsOf(filled) = PoolsOf(shoot)
<1>1. shoot \in Shoots
    BY DEF Inv, TypeOK
<1>2. ASSUME NEW p \in Pools
      PROVE  p \in PoolsOf(shoot) <=> WithZones(shoot).workers[p] # Nothing
    <2>1. CASE p \in PoolsOf(shoot)
        BY <2>1, FilledPool
    <2>2. CASE p \notin PoolsOf(shoot)
        <3>1. WithZones(shoot).workers[p] = shoot.workers[p]
            BY <1>1, <2>2 DEF WithZones, Shoots
        <3>2. QED
            BY <2>2, <3>1 DEF PoolsOf
    <2>3. QED
        BY <2>1, <2>2
<1>3. PoolsOf(WithZones(shoot)) = PoolsOf(shoot)
    BY <1>2 DEF PoolsOf
<1>4. QED
    BY <1>1, <1>3 DEF WithZones, Shoots

\* The webhook takes every shoot back, with missing zones filled in, if and only if it
\* can read the CloudProfile and decode the ControlPlaneConfig (shoot.go:93, shoot.go:160):
\* what it has admitted stays admissible however the CloudProfile changes, and without a
\* client, as it is registered, it refuses every update.
THEOREM OnlyUnreadRefused == Spec => []RefusedOnlyUnread
<1>1. ASSUME Inv, PoolInv, shoot # Nothing, legacy => profile[shoot.region] # <<>>
      PROVE  /\ \A read \in BOOLEAN :
                    ValidShootUpdate(read, shoot, WithZones(shoot)) <=> CanRead(read, shoot)
             /\ GardenerAllows(WithZones(shoot), ZonesOf(shoot))
    <2> DEFINE filled == WithZones(shoot)
               place  == profile[shoot.region]
    <2>1. /\ filled.region = shoot.region /\ filled.networks = shoot.networks
          /\ filled.nodes = shoot.nodes
          /\ filled.pods = shoot.pods /\ filled.services = shoot.services
          /\ filled.controlPlane = shoot.controlPlane
          /\ PoolsOf(filled) = PoolsOf(shoot)
        BY <1>1, FilledShoot
    <2>2. place \in Seq(Zones) /\ Len(place) <= 1
        BY <1>1, ShootFields DEF Inv, IInv, PlaceInv, TypeOK, CloudProfiles, ValidCloudProfile
    <2>3. IsInjective(place)
        BY <2>2 DEF IsInjective
    <2>4. ASSUME NEW p \in PoolsOf(shoot)
          PROVE  /\ ValidPool(filled.workers[p])
                 /\ ZonesAppended(shoot.workers[p].zones, filled.workers[p].zones)
                 /\ filled.workers[p].minimum <= filled.workers[p].maximum
                 /\ Range(filled.workers[p].zones)
                       \subseteq Range(place) \cup Range(shoot.workers[p].zones)
        <3> DEFINE pool == shoot.workers[p]
        <3>1. /\ filled.workers[p].minimum = pool.minimum /\ filled.workers[p].maximum = pool.maximum
              /\ filled.workers[p].group = pool.group /\ filled.workers[p].surge = pool.surge
              /\ filled.workers[p].zones = IF pool.zones = <<>> THEN place ELSE pool.zones
            BY <1>1, FilledPool
        <3>2. AdmittedPool(pool) /\ (~legacy => pool.zones # <<>>)
            BY <1>1 DEF PoolInv
        <3>3. pool.zones = <<>> => place # <<>>
            BY <1>1, <3>2
        <3>4. ValidPool(filled.workers[p])
            BY <2>3, <3>1, <3>2, <3>3 DEF ValidPool, AdmittedPool, FitsGroup
        <3>5. pool.zones \in Seq(Zones)
            BY <1>1, ZonesType DEF Inv, TypeOK
        <3>6. ZonesAppended(pool.zones, filled.workers[p].zones)
            BY <2>2, <3>1, <3>5 DEF ZonesAppended
        <3>7. QED
            BY <3>1, <3>2, <3>4, <3>6 DEF AdmittedPool
    <2>5. Decodes(shoot) /\ ValidNodes(shoot) /\ ValidNetworks(shoot) /\ shoot.controlPlane # Garbage
        BY <1>1 DEF Inv, IInv, AdmittedInv
    <2>6. /\ Decodes(filled) /\ ValidNodes(filled) /\ ValidNetworks(filled) /\ ValidWorkers(filled)
        BY <2>1, <2>4, <2>5 DEF ValidNodes, ValidNetworks, ValidWorkers, Decodes
    <2>7. ValidWorkersUpdate(shoot, filled)
        BY <2>4 DEF ValidWorkersUpdate
    <2>8. ZoneFitsRegion(shoot.networks, filled) /\ SameNetworks(shoot, filled)
        BY <2>1 DEF ZoneFitsRegion, SameNetworks
    <2>9. GardenerAllows(filled, ZonesOf(shoot))
        <3>1. \A p \in PoolsOf(shoot) : ZonesOf(shoot)[p] = Range(shoot.workers[p].zones)
            BY DEF ZonesOf, PoolsOf
        <3>2. QED
            BY <2>1, <2>4, <3>1 DEF GardenerAllows
    <2>10. ValidControlPlane(filled) <=> (shoot.controlPlane # Nothing => "decoder" \in fields)
        BY <2>1, <2>5 DEF ValidControlPlane
    <2>11. ASSUME NEW read \in BOOLEAN
           PROVE  ValidShootUpdate(read, shoot, filled) <=> CanRead(read, shoot)
        BY <2>5, <2>6, <2>7, <2>8, <2>10
           DEF ValidShootUpdate, ValidShoot, ValidAgainstCloudProfile, CanRead
    <2>12. QED
        BY <2>9, <2>11
<1>2. Inv /\ PoolInv => RefusedOnlyUnread
    BY <1>1 DEF RefusedOnlyUnread
<1>3. QED
    BY <1>2, PoolsKept, PTL
=============================================================================
