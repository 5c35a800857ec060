SPECIFICATION FairSpec
CONSTANTS
    MaxSends = 4
    MaxReads = 2
INVARIANTS
    TypeOK
    BufferOutlivesWrite
PROPERTY LossIsNoticed
