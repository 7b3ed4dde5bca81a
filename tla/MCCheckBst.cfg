CONSTANTS
    None = None
    Values <- MCInnerValues
    MaxSize <- MCMaxSize
    MaxNodes <- MCMaxNodes
    InitSizes <- MCInitSizes
SPECIFICATION Spec
INVARIANT CheckBstDecidesBst
PROPERTY InsertKeepsBst
