SPECIFICATION HttpSpec
CONSTANTS
    Conns = {c1}
    NoConn = NoConn
    QueueCap = 1
    MaxId = 1
    MaxReads = 2
    Sessions = {s1, s2}
    MaxRequests = 3
INVARIANTS
    SessionTypeOK
    OneHandlerPending
PROPERTIES
    BuffersDrain
    ImplementsConversation
