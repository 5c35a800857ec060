SPECIFICATION WalkSpec
CONSTANTS
    Names = {"rounds", "players", "x", "y"}
    Elems = {e1, e2}
    l1 = l1
    l2 = l2
    ListIds = {l1, l2}
    Nodes <- MCNodes
    NodeType <- MCNodeType
    DataSize <- MCDataSize
    LoopVar <- MCLoopVar
    ListVar <- MCListVar
    NextNode <- MCNextNode
    ChildNode <- MCChildNode
    TimerSpecs = {}
    NullNode = NullNode
    Unbound = Unbound
    NoList = NoList
    NoFlag = NoFlag
    NoTimer = NoTimer
    MaxDepth = 3
    MaxLen = 2
    MaxTime = 0
    Root = "a"
    Globals <- MCGlobals
    Contents <- MCContents
    MaxGiven = 3
INVARIANT ElementsVisitedOnce
PROPERTY RulesEnd
