CONSTANTS
    Values <- MCValues
    MaxNodes <- MCMaxNodes
SPECIFICATION Spec
INVARIANT NeverCrashes
CHECK_DEADLOCK FALSE
