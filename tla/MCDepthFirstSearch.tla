------------------------- MODULE MCDepthFirstSearch -------------------------
(* Model-checking instance of DepthFirstSearch: every graph on three       *)
(* vertices, searched from a.                                             *)
EXTENDS DepthFirstSearch

CONSTANTS a, b, c
MCVertices == {a, b, c}
=============================================================================
