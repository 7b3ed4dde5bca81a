CONSTANTS
    a = a
    b = b
    None = None
    Alphabet <- MCAlphabet
    MaxLen = 4
    MaxWord = 2
SPECIFICATION Spec
INVARIANT AgreesWithHeader
CHECK_DEADLOCK FALSE
