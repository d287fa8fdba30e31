SPECIFICATION Spec
CONSTANTS
    fsn = fsn
    ash = ash
    euCentral = euCentral
    usEast = usEast
    fsnDC = fsnDC
    otherDC = otherDC
    ashDC = ashDC
    p1 = p1
    p2 = p2
    Submissions <- AllSubmissions
    Profiles <- AllProfiles
    LegacyShoots <- OldShoots
    Addresses <- AllAddresses
    PrivateRanges <- Private
    Locations = {fsn, ash}
    NetworkZones = {euCentral, usEast}
    HostedIn <- InZone
    KnownLocations = {fsn}
    KnownZones = {euCentral, usEast}
    Zones = {fsnDC, otherDC, ashDC}
    LocationOf <- InLocation
    Pools = {p1, p2}
    MaxNumber = 13
    Garbage = Garbage
    Nothing = Nothing
INVARIANTS
    NetworkAsConfigured
    AddressesApart
    GivenZoneHostsRegion
    PoolTotals
    SpreadPoolsFit
    
PROPERTIES
    DeploymentsStay
