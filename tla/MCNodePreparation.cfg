SPECIFICATION NodeFairSpec
CONSTANTS
    MaxVersion = 2
    Histories <- Completed
    Specs <- LiveSpecs
    Zones <- MCZones
    RegionOf <- MCRegionOf
    ShootRegion = "nbg1"
    Networks <- MCNetworks
    NoZone = NoZone
    Nothing = Nothing
    hel1dc2 = hel1dc2
    net1 = net1
    Disturbances <- Changes
PROPERTIES
    EventuallyDeployed
    EventuallyPrepared
    EventuallyGone
