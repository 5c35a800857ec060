SPECIFICATION Spec
CONSTANTS
    Conns = {c1, c2}
    NoConn = NoConn
    QueueCap = 1
    MaxId = 2
    MaxReads = 2
SYMMETRY ConnSymmetry
INVARIANTS
    TypeOK
    ClientsAreChannels
    OneWriteAtATime
    SentInOrder
