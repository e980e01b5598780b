SPECIFICATION Spec
CHECK_DEADLOCK FALSE
CONSTANTS
    Feature <- MCFeature
    FlagText <- MCFlagText
    TrueSpelling <- MCTrueSpelling
    Text <- MCText
    Extra <- MCExtra
    NoExtra = "none"
    OwnFeature = "virt"
    Wish <- MCWishManaged
    Deleted = Deleted
    Garbage = Garbage
    NoWish = NoWish
    NoValues = NoValues
    MaxWishes = 1
    MaxFaults = 0
    MaxCrashes = 0
PROPERTY
    FreshClusterGetsReady
