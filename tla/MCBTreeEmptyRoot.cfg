CONSTANTS
    None = None
    Values <- MCValues
    RootData <- MCRootDataWithNone
    MaxNodes <- MCMaxNodes
SPECIFICATION Spec
INVARIANT InorderIsSortedKeys
