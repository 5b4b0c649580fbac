SPECIFICATION Spec
CONSTANTS
    Functions <- BasicFunctions
    FFS = "ffs"
    VIDEO = "video"
    NoFunction = "-"
    EmptyName = ""
    AliasLists <- MCAliasLists
    FunctionLists <- AllLists
    IsDwc3 = TRUE
    MaxDepth = 2
INVARIANTS TypeOK IndInv DepthBalanced BindingsExact PullupExact
