SPECIFICATION Spec
CHECK_DEADLOCK FALSE
CONSTANTS
    Feature <- MCFeature
    FlagText <- MCFlagText
    TrueSpelling <- MCTrueSpelling
    Text <- MCText
    Extra <- MCExtra
    NoExtra = "none"
    Call = {1, 2}
    MaxRuns = 2
    OwnFeature = "argocd"
    DefaultVersion = "7.8.7"
    Wish <- MCWish
    Deleted = Deleted
    Garbage = Garbage
    NoCall = NoCall
    NoWish = NoWish
    NoValues = NoValues
    MaxWishes = 2
    MaxFaults = 1
    MaxCrashes = 1
PROPERTIES
    ReleaseFollowsWish
    NamespaceGoes
    ValuesFollowWish
    NoUpgradeInPlace
    ReleaseWasWished
INVARIANTS
    TypeOK
    NamespaceOutlivesRelease
