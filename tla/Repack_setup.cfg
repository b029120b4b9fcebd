SPECIFICATION FairSpec
CONSTANTS
    Layers = 2
    MaxVersions = 2
    MaxDeaths = 1
    MaxStuck = 1
    MaxHand = 1
    Together = TRUE
INVARIANTS
    ServesWholeFile
    GateHonest
PROPERTIES
    CancelledIsGone
    RetriesSucceed
