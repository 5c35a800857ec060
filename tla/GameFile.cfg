SPECIFICATION FileSpec
CONSTANTS
    SizeOfVariant = 7
    IntTexts = {"0", "1", "2", "4", "20"}
    Files <- MCFiles
    Expressions <- MCExpressions
    Height <- MCHeight
    Terms <- MCTerms
    Depth <- MCDepth
    Items <- MCItems
    Nesting <- MCNesting
    Stacks <- MCStacks
INVARIANTS
    SettingsAsWritten
    RulesAsWritten
    PrintsEveryRule
    EvaluatesAsWritten
CHECK_DEADLOCK FALSE
