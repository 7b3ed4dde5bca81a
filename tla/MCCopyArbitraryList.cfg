CONSTANTS
    d1 = d1
    d2 = d2
    None = None
    NoCopy = NoCopy
    Values <- MCValues
    MaxLen = 3
    MinLen = 1
SPECIFICATION Spec
INVARIANT RemapFrontier
PROPERTY CopyRefinesAbstract
PROPERTY Terminates
CHECK_DEADLOCK FALSE
