-------------------------------- MODULE BTree --------------------------------
(***************************************************************************)
(* The binary search tree of tree/b_tree.py (class Node), on the arena of *)
(* BinaryTrees.  Every operation is a pure operator on a tree record; the *)
(* state machine at the end is the driver: a root, then any inserts.      *)
(***************************************************************************)
EXTENDS BinaryTrees

CONSTANT RootData   \* the values Node(...) may be constructed with

ASSUME RootData \subseteq Values \cup {None}

(***************************************************************************)
(* Node.insert descends from node n: the result says where the value      *)
(* lands, "self" (the root was Node(None)), a new "left" or "right" leaf  *)
(* under .node, or "dup" when an equal value is met (no branch taken).    *)
(***************************************************************************)
RECURSIVE InsertPoint(_, _, _)
InsertPoint(t, n, v) ==
    CASE t.data[n] = None -> [node |-> n, side |-> "self"]
      [] v < t.data[n] -> IF t.left[n] = Nil
                          THEN [node |-> n, side |-> "left"]
                          ELSE InsertPoint(t, t.left[n], v)
      [] v > t.data[n] -> IF t.right[n] = Nil
                          THEN [node |-> n, side |-> "right"]
                          ELSE InsertPoint(t, t.right[n], v)
      [] OTHER -> [node |-> n, side |-> "dup"]

\* Can insert(v) complete without allocating past MaxNodes?
CanInsert(t, v) ==
    InsertPoint(t, Root, v).side \in {"left", "right"} => t.size < MaxNodes

\* The tree after root.insert(v): a new Node(v) linked on the chosen side.
Insert(t, v) ==
    LET p == InsertPoint(t, Root, v)
        k == t.size + 1
    IN  CASE p.side = "self" -> [t EXCEPT !.data[p.node] = v]
          [] p.side = "left" -> [t EXCEPT !.data[k] = v, !.left[p.node] = k,
                                          !.size = k]
          [] p.side = "right" -> [t EXCEPT !.data[k] = v, !.right[p.node] = k,
                                           !.size = k]
          [] OTHER -> t

\* Node.findValue: TRUE when it prints "is found".
RECURSIVE FindValue(_, _, _)
\* A plausible bug: a greater value searched on the left.
FindValueWrongSide(t, n, v) ==
    CASE t.data[n] = None -> FALSE
      [] v < t.data[n] -> t.left[n] # Nil /\ FindValue(t, t.left[n], v)
      [] v > t.data[n] -> t.left[n] # Nil /\ FindValue(t, t.left[n], v)
      [] OTHER -> TRUE

FindValue(t, n, v) ==
    CASE t.data[n] = None -> FALSE
      [] v < t.data[n] -> t.left[n] # Nil /\ FindValue(t, t.left[n], v)
      [] v > t.data[n] -> t.right[n] # Nil /\ FindValue(t, t.right[n], v)
      [] OTHER -> TRUE

RECURSIVE InorderTraversal(_, _)
\* A plausible bug: the right subtree listed before the node and its left.
InorderRightFirst(t, n) ==
    (IF t.right[n] = Nil THEN <<>> ELSE InorderTraversal(t, t.right[n]))
        \o (IF t.left[n] = Nil THEN <<>> ELSE InorderTraversal(t, t.left[n]))
        \o <<t.data[n]>>

\* `if self.left:` ... `if self.right:` guard each recursive call.
InorderTraversal(t, n) ==
    (IF t.left[n] = Nil THEN <<>> ELSE InorderTraversal(t, t.left[n]))
        \o <<t.data[n]>>
        \o (IF t.right[n] = Nil THEN <<>> ELSE InorderTraversal(t, t.right[n]))

RECURSIVE PreorderTraversal(_, _)
\* A plausible bug: the root emitted after the left subtree.
PreorderRootLate(t, n) ==
    (IF t.left[n] = Nil THEN <<>> ELSE PreorderTraversal(t, t.left[n]))
        \o <<t.data[n]>>
        \o (IF t.right[n] = Nil THEN <<>> ELSE PreorderTraversal(t, t.right[n]))

PreorderTraversal(t, n) ==
    <<t.data[n]>>
        \o (IF t.left[n] = Nil THEN <<>> ELSE PreorderTraversal(t, t.left[n]))
        \o (IF t.right[n] = Nil THEN <<>> ELSE PreorderTraversal(t, t.right[n]))

RECURSIVE PostorderTraversal(_, _)
PostorderTraversal(t, n) ==
    (IF t.left[n] = Nil THEN <<>> ELSE PostorderTraversal(t, t.left[n]))
        \o (IF t.right[n] = Nil THEN <<>> ELSE PostorderTraversal(t, t.right[n]))
        \o <<t.data[n]>>

(***************************************************************************)
(* The driver of b_tree.py: a root object, then any sequence of inserts.  *)
(* keys is a history variable: the values ever given to the tree.         *)
(***************************************************************************)
VARIABLES tree, keys
vars == <<tree, keys>>

Init ==
    \E d \in RootData :
        /\ tree = NewTree(d)
        /\ keys = IF d = None THEN {} ELSE {d}

\* root.insert(v), for any value, while the arena has room for it.
NodeInsert(v) ==
    /\ CanInsert(tree, v)
    /\ tree' = Insert(tree, v)
    /\ keys' = keys \cup {v}

Next == \E v \in Values : NodeInsert(v)

Spec == Init /\ [][Next]_vars

-----------------------------------------------------------------------------
TypeOK ==
    /\ tree \in Trees
    /\ keys \subseteq Values

\* The tree rebuilt by inserting the values of s, in order, into Node(s[1]).
BuildTree(s) == FoldLeft(Insert, NewTree(Head(s)), Tail(s))

(***************************************************************************)
(* Properties (spec section 8).                                            *)
(***************************************************************************)

\* After any sequence of Node.insert calls, inorderTraversal lists exactly
\* the distinct values inserted, ascending; Node(None) counts as empty.
InorderIsSortedKeys ==
    InorderTraversal(tree, Root) = SetToSortSeq(keys, <)

(***************************************************************************)
(* Refinement: read through inorderTraversal, the tree is an OrderedSet,  *)
(* and every Node.insert is an OrderedSet Add of the same value.          *)
(***************************************************************************)
Abstract == INSTANCE OrderedSet WITH elems <- InorderTraversal(tree, Root)

\* The tree implements OrderedSet: Node(d) starts the ascending sequence
\* <<d>>, and each insert(v) places v between the smaller and the larger
\* values already read by inorderTraversal, or changes nothing when v is
\* there: no value is lost, duplicated or put out of order.
RefinesOrderedSet == Abstract!Spec

\* findValue reports "found" exactly for the values that were inserted.
FindValueIffInserted ==
    \A v \in Values : FindValue(tree, Root, v) <=> v \in keys

\* preorderTraversal, and postorderTraversal read backwards, each list the
\* values in an order that rebuilds the very same tree through insert.
TraversalsRebuildTree ==
    tree.data[Root] # None =>
        /\ Shape(BuildTree(PreorderTraversal(tree, Root)), Root)
                = Shape(tree, Root)
        /\ Shape(BuildTree(Reverse(PostorderTraversal(tree, Root))), Root)
                = Shape(tree, Root)

=============================================================================
