------------------------------- MODULE BinTree -------------------------------
(***************************************************************************)
(* tree/bin_tree.py, class BinTree: the tree check_binary_search_tree.py  *)
(* and level_order_trasversal.py build.  Its insert differs from          *)
(* b_tree.Node.insert: no Node(None) case, and the equality test comes    *)
(* first, with "greater" as the else branch.                              *)
(***************************************************************************)
EXTENDS BinaryTrees

\* BinTree.insert from node n: a new "left"/"right" leaf under .node, or
\* "dup" for the early return on an equal value.
RECURSIVE BinTreeInsertPoint(_, _, _)
\* A plausible bug: the `data == self.data` early return dropped.
BinTreeInsertPointNoDup(t, n, v) ==
    IF v < t.data[n]
    THEN IF t.left[n] = Nil THEN [node |-> n, side |-> "left"]
         ELSE BinTreeInsertPoint(t, t.left[n], v)
    ELSE IF t.right[n] = Nil THEN [node |-> n, side |-> "right"]
         ELSE BinTreeInsertPoint(t, t.right[n], v)

BinTreeInsertPoint(t, n, v) ==
    CASE v = t.data[n] -> [node |-> n, side |-> "dup"]
      [] v < t.data[n] -> IF t.left[n] = Nil
                          THEN [node |-> n, side |-> "left"]
                          ELSE BinTreeInsertPoint(t, t.left[n], v)
      [] OTHER -> IF t.right[n] = Nil
                  THEN [node |-> n, side |-> "right"]
                  ELSE BinTreeInsertPoint(t, t.right[n], v)

\* Does tree.insert(v) fit in the arena?
BinTreeCanInsert(t, v) ==
    BinTreeInsertPoint(t, Root, v).side # "dup" => t.size < MaxNodes

\* The tree after tree.insert(v): BinTree(v) linked on the chosen side.
BinTreeInsert(t, v) ==
    LET p == BinTreeInsertPoint(t, Root, v)
        k == t.size + 1
    IN  IF p.side = "dup" THEN t
        ELSE [t EXCEPT !.data[k] = v, !.size = k,
                       ![p.side][p.node] = k]
=============================================================================
