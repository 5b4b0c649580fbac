SPECIFICATION Spec
CONSTANTS
    Functions <- BasicFunctions
    FFS = "ffs"
    VIDEO = "video"
    NoFunction = "-"
    EmptyName = ""
    AliasLists <- MCAliasLists
    FunctionLists <- PlainLists
    IsDwc3 = TRUE
    MaxDepth = 2
INVARIANT DisableNeverAdds
