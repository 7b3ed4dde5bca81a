CONSTANTS
    a = a
    b = b
    c = c
    Vertices <- MCVertices
    Start = a
SPECIFICATION Spec
INVARIANT EachVertexOnce
CHECK_DEADLOCK FALSE
