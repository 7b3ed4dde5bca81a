CONSTANTS
    d1 = d1
    d2 = d2
    None = None
    NoCopy = NoCopy
    Values <- MCValues
    MaxLen = 3
    MinLen = 0
SPECIFICATION Spec
PROPERTY CopyRefinesAbstract
CHECK_DEADLOCK FALSE
