SPECIFICATION Spec
CHECK_DEADLOCK FALSE
CONSTANTS
    Object = {a, b}
    Empty = Empty
    Malformed = Malformed
    MaxDocs = 3
    MaxCalls = 3
    MaxFaults = 3
PROPERTIES
    AppliedInTheEnd
    CallsEnd
    CreatedInOrder
INVARIANTS
    TypeOK
    OkMeansDone
