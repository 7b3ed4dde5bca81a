CONSTANTS
    None = None
    Values <- MCBoundaryValues
    MaxSize <- MCMaxSize
    MaxNodes <- MCMaxNodes
    InitSizes <- MCInitSizes
SPECIFICATION Spec
INVARIANT CheckBstDecidesBst
