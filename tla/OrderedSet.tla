------------------------------ MODULE OrderedSet ------------------------------
(***************************************************************************)
(* What the BST of tree/b_tree.py promises, without nodes: an ascending   *)
(* sequence of distinct values.  Node(d) starts it with one value, and    *)
(* insert(v) puts v in its place unless it is already there.             *)
(***************************************************************************)
EXTENDS Integers, Sequences

CONSTANT Values     \* the values that may be inserted

VARIABLE elems      \* the values held, ascending
vars == <<elems>>

\* s with v placed after the smaller and before the larger values; a
\* value equal to v is dropped, so v is held once.
OrderedInsert(s, v) ==
    SelectSeq(s, LAMBDA x : x < v) \o <<v>> \o SelectSeq(s, LAMBDA x : x > v)

\* Node(d): one value.
Init == \E d \in Values : elems = <<d>>

\* Node.insert(v).
Add(v) == elems' = OrderedInsert(elems, v)

Next == \E v \in Values : Add(v)

Spec == Init /\ [][Next]_vars

=============================================================================
