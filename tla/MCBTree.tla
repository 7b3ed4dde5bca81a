------------------------------- MODULE MCBTree -------------------------------
(* Model-checking instance of BTree: small integers, a bounded arena.      *)
EXTENDS BTree

MCValues == 1..5
MCMaxNodes == 4
\* Node(3), as the driver of b_tree.py builds it, or any other value.
MCRootData == MCValues
\* Node(None), the empty tree Node.insert also accepts.
MCRootDataWithNone == MCValues \cup {None}
=============================================================================
