SPECIFICATION Spec
CONSTANTS
    MinIndex = 0
    MaxIndex = 4
    MaxSize = 3
    Modulus = 8
INVARIANTS
    EachIterationOnce
PROPERTIES
    ImplementsRangeQueue
