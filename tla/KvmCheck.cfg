SPECIFICATION Spec
CONSTANTS
    Node = {n1, n2}
    MaxFaults = 1
    MaxStops = 1
    MaxCrashes = 1
    MaxEvents = 2
PROPERTIES
    EmulationFits
    DaemonSetGoes
INVARIANTS
    TypeOK
    NativeOnlyWithKvm
    EmulationOnlyWithout
