SPECIFICATION Spec
CHECK_DEADLOCK FALSE
CONSTANTS
    Feature <- MCFeature
    FlagText <- MCFlagText
    TrueSpelling <- MCTrueSpelling
    Text <- MCText
    Extra <- MCExtra
    NoExtra = "none"
    OwnFeature = "virt"
    Wish <- MCWish
    Deleted = Deleted
    Garbage = Garbage
    NoWish = NoWish
    NoValues = NoValues
    MaxWishes = 2
    MaxFaults = 2
    MaxCrashes = 1
PROPERTIES
    EnabledGetsReady
    SettingsFollow
    KubeVirtStops
    InstallsOnlyWhatWasWished
    HealthyLeftAlone
INVARIANT
    TypeOK
