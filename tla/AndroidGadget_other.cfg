SPECIFICATION FairSpec
CONSTANTS
    Functions <- AllFunctions
    FFS = "ffs"
    VIDEO = "video"
    NoFunction = "-"
    EmptyName = ""
    AliasLists <- MCAliasLists
    FunctionLists <- VideoLists
    IsDwc3 = FALSE
    MaxDepth = 2
INVARIANT FreedConfigsDetached
PROPERTY CallbacksReturn
