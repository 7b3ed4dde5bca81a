----------------------------- MODULE BinaryTrees -----------------------------
(***************************************************************************)
(* The arena both tree classes of tree/ live in (b_tree.Node and          *)
(* bin_tree.BinTree have the same fields data, left, right).  The Python  *)
(* object graph is represented as an arena: node 1 is the root object the *)
(* driver constructs, nodes 2..size are the objects created by insert, in *)
(* creation order.  A tree is a record holding the value of every node    *)
(* (None where none was given), its left and right links (Nil for a       *)
(* missing child) and the number of nodes allocated.                      *)
(***************************************************************************)
EXTENDS Integers, Sequences, SequencesExt

CONSTANTS
    Values,     \* the integers a driver may insert
    None,       \* Python's None as a node value
    MaxNodes    \* bound on the node objects an insert may allocate

Nil == 0                      \* a missing left/right child
Nodes == 1..MaxNodes
Root == 1

ASSUME None \notin Values

Trees == [data : [Nodes -> Values \cup {None}],
          left : [Nodes -> Nodes \cup {Nil}],
          right : [Nodes -> Nodes \cup {Nil}],
          size : 1..MaxNodes]

\* Node(d) / BinTree(d): a single root object, no children (__init__).
NewTree(d) == [data |-> [n \in Nodes |-> IF n = Root THEN d ELSE None],
               left |-> [n \in Nodes |-> Nil],
               right |-> [n \in Nodes |-> Nil],
               size |-> 1]

\* The shape of the subtree at n, as nested <<left, value, right>> tuples.
RECURSIVE Shape(_, _)
Shape(t, n) ==
    <<IF t.left[n] = Nil THEN <<>> ELSE Shape(t, t.left[n]),
      t.data[n],
      IF t.right[n] = Nil THEN <<>> ELSE Shape(t, t.right[n])>>

\* The values held in the subtree at n.
RECURSIVE SubtreeValues(_, _)
SubtreeValues(t, n) ==
    IF n = Nil THEN {}
    ELSE {t.data[n]} \cup SubtreeValues(t, t.left[n])
                    \cup SubtreeValues(t, t.right[n])

(***************************************************************************)
(* Every tree of k nodes a caller can link together from BinTree objects  *)
(* (their left/right fields are public), with values from V: node m > 1   *)
(* hangs on one side of a node created before it, no side taken twice.    *)
(***************************************************************************)
LinkedTrees(k, V) ==
    LET Sides == (1..k) \X {"left", "right"}
        Links == {p \in [2..k -> Sides] :
                    \A m \in 2..k : p[m][1] < m /\ \A j \in 2..k : j # m => p[j] # p[m]}
        Child(p, n, side) ==
            IF \E m \in 2..k : p[m] = <<n, side>>
            THEN CHOOSE m \in 2..k : p[m] = <<n, side>> ELSE Nil
    IN  {[data |-> [n \in Nodes |-> IF n <= k THEN d[n] ELSE None],
          left |-> [n \in Nodes |-> IF n <= k THEN Child(p, n, "left") ELSE Nil],
          right |-> [n \in Nodes |-> IF n <= k THEN Child(p, n, "right") ELSE Nil],
          size |-> k] : p \in Links, d \in [1..k -> V]}
=============================================================================
