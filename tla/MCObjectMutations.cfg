SPECIFICATION MutationFairSpec
CONSTANTS
    MaxRelease = 3
    Startable <- MCStartable
    Enabled <- MCEnabled
    Texts <- MCTexts
    ImageOf <- MCImageOf
    Contents <- MCContents
    Kubelets = {22, 23, 98, 99}
    Nothing = Nothing
INVARIANTS
    MutationTypeOK
    ControllersConfigured
    AdmittedComplete
    GardenersPartKept
PROPERTIES
    NoNeedlessChange
    EventuallyCurrent
\* A release that cannot start, alone, may be all that is left.
CHECK_DEADLOCK FALSE
