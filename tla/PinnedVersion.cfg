SPECIFICATION Spec
CONSTANTS
    Resource = {c1}
    Feature <- MCFeature
    FlagText <- MCFlagText
    TrueSpelling <- MCTrueSpelling
    Text <- MCText
    Extra <- MCExtra
    NoExtra = "none"
    UserDocument <- MCUserDocument
    UserSpec <- MCUserSpec
    Absent = Absent
    Garbage = Garbage
    Partial = Partial
    NoDocument = NoDocument
    NoResource = NoResource
    MaxUserSteps = 2
    MaxResyncs = 0
    MaxFaults = 0
    MaxCrashes = 0
    MaxCmVersions = 20
PROPERTY
    PinnedVersionKept
