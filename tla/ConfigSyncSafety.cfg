SPECIFICATION Spec
CONSTANTS
    Resource = {c1, c2}
    Feature <- MCFeature
    FlagText <- MCFlagText
    TrueSpelling <- MCTrueSpelling
    Text <- MCText
    Extra <- MCExtra
    NoExtra = "none"
    UserDocument <- MCUserDocument
    UserSpec <- MCUserSpec
    Absent = Absent
    Garbage = Garbage
    Partial = Partial
    NoDocument = NoDocument
    NoResource = NoResource
    MaxUserSteps = 2
    MaxResyncs = 1
    MaxFaults = 1
    MaxCrashes = 1
    MaxCmVersions = 4
SYMMETRY ResourceSymmetry
INVARIANTS
    TypeOK
    OperatorOnlyAdopts
    ConfigMapProvenance
    NoRepeatedUpdate
    FileProvenance
    IInv
PROPERTY
    WritesInOrder
