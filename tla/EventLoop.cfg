SPECIFICATION FairSpec
CONSTANTS
    Programs <- MCPrograms
    MaxTasks = 3
    neededInputCount = 3
    maxProcessCount = 2
INVARIANTS
    TypeOK
    TasksInOrder
    InputsMatchWaits
PROPERTY GameEnds
