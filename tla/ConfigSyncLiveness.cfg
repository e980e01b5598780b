SPECIFICATION Spec
CONSTANTS
    Resource = {c1}
    Feature <- MCFeature
    FlagText <- MCFlagText
    TrueSpelling <- MCTrueSpelling
    Text <- MCText
    Extra <- MCExtra
    NoExtra = "none"
    UserDocument <- MCInstalled
    UserSpec <- MCUserSpec
    Absent = Absent
    Garbage = Garbage
    Partial = Partial
    NoDocument = NoDocument
    NoResource = NoResource
    MaxUserSteps = 2
    MaxResyncs = 0
    MaxFaults = 1
    MaxCrashes = 1
    MaxCmVersions = 20
PROPERTIES
    FileReachesConfigMap
    ResourceReachesFile
    ResourceAdoptsFile
    ImplementsMirror
