SPECIFICATION Spec
CONSTANTS
    Outputs <- MCOutputs
    Capacity = 2
    Buffer = 2
INVARIANTS
    OutputComplete
    NoChildLeft
PROPERTY
    CallEnds
