SPECIFICATION FairSpec
CONSTANTS
    Objects = {o1, o2, o3, o4, o5, o6}
    NoObject = NoObject
    Cap = 2
    MaxSends = 3
    MaxRestarts = 1
INVARIANTS
    TypeOK
    NothingLostWhileUp
    GivenInOrder
PROPERTY ImplementsFifo
CHECK_DEADLOCK FALSE
