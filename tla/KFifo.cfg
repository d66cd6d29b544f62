SPECIFICATION Spec
CONSTANTS
    b0 = b0
    b1 = b1
    Byte <- MCByte
    Size = 4
    Wrap = 8
    MaxLen = 2
INVARIANTS
    TypeOK
    Occupancy
    CopiesIntact
PROPERTY IsByteQueue
