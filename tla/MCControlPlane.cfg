SPECIFICATION Spec
CONSTANTS
    MaxVersion = 2
    Histories <- TwoVersions
    Specs <- MCSpecs
    Zones <- MCZones
    RegionOf <- MCRegionOf
    ShootRegion = "nbg1"
    Networks <- MCNetworks
    NoZone = NoZone
    Nothing = Nothing
    hel1dc2 = hel1dc2
    net1 = net1
    Disturbances <- Everything
INVARIANTS
    RotationReachesPods
    SuccessIsDeployed
