CONSTANTS
    Values <- MCValues
    MaxNodes <- MCMaxNodes
SPECIFICATION Spec
INVARIANT LinkedPartIsMerge
INVARIANT MergedIsPrefixOfMerge
CHECK_DEADLOCK FALSE
