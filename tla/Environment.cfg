SPECIFICATION Spec
CONSTANTS
    Names = {"l", "x"}
    Elems = {TRUE}
    ListIds = {l1}
    Nodes <- MCNodes
    NodeType <- MCNodeType
    DataSize <- MCDataSize
    LoopVar <- MCLoopVar
    ListVar <- MCListVar
    NextNode <- MCNextNode
    ChildNode <- MCChildNode
    TimerSpecs <- MCTimers
    NullNode = NullNode
    Unbound = Unbound
    NoList = NoList
    NoFlag = NoFlag
    NoTimer = NoTimer
    MaxDepth = 3
    MaxLen = 2
    MaxTime = 1
INVARIANTS
    TypeOK
    GlobalScopeStays
    NoShadowing
    FlagOutlivesScope
    UnwindingEnds
    JumpMatchesUnwinding
CHECK_DEADLOCK FALSE
