CONSTANTS
    Values <- MCValues
    MaxNodes <- MCMaxNodes
SPECIFICATION Spec
INVARIANT MergedHoldsAllValues
CHECK_DEADLOCK FALSE
