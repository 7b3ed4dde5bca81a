------------------------------ MODULE CheckBst ------------------------------
(***************************************************************************)
(* tree/check_binary_search_tree.py: check_bst decides whether a BinTree  *)
(* is a binary search tree by carrying an open interval (min, max) down   *)
(* the tree, starting from (-sys.maxsize-1, sys.maxsize).                 *)
(*                                                                         *)
(* check_bst takes any BinTree, so the tree starts as any tree a caller   *)
(* can link together (LinkedTrees) and then takes any BinTree.insert.     *)
(***************************************************************************)
EXTENDS BinTree

CONSTANTS
    MaxSize,    \* sys.maxsize, scaled down; Python ints go beyond it
    InitSizes   \* the numbers of nodes of the linked starting trees

ASSUME InitSizes \subseteq 1..MaxNodes

\* check_bst_with_value: an empty subtree is valid; a value on or outside
\* the bounds fails; otherwise both subtrees, with the bound tightened.
RECURSIVE check_bst_with_value(_, _, _, _)
\* A plausible bug: each node compared with its parent only (the bounds
\* not carried down).
check_bst_local(t, n, min, max) ==
    IF n = Nil THEN TRUE
    ELSE /\ ~(t.data[n] <= min \/ t.data[n] >= max)
         /\ check_bst_with_value(t, t.left[n], -MaxSize - 1, t.data[n])
         /\ check_bst_with_value(t, t.right[n], t.data[n], MaxSize)

check_bst_with_value(t, n, min, max) ==
    IF n = Nil THEN TRUE
    ELSE /\ ~(t.data[n] <= min \/ t.data[n] >= max)
         /\ check_bst_with_value(t, t.left[n], min, t.data[n])
         /\ check_bst_with_value(t, t.right[n], t.data[n], max)

check_bst(t) == check_bst_with_value(t, Root, -MaxSize - 1, MaxSize)

VARIABLE tree
vars == <<tree>>

Init == tree \in UNION {LinkedTrees(k, Values) : k \in InitSizes}

\* tree.insert(v) on the current tree, BST or not.
Insert(v) ==
    /\ BinTreeCanInsert(tree, v)
    /\ tree' = BinTreeInsert(tree, v)

Next == \E v \in Values : Insert(v)

Spec == Init /\ [][Next]_vars

-----------------------------------------------------------------------------
TypeOK == tree \in Trees

\* The definition the file's header comment gives: every node is greater
\* than all values of its left subtree and smaller than all of its right.
IsBst(t) ==
    \A n \in 1..t.size :
        /\ \A x \in SubtreeValues(t, t.left[n]) : x < t.data[n]
        /\ \A x \in SubtreeValues(t, t.right[n]) : x > t.data[n]

\* check_bst returns True exactly for binary search trees, also when the
\* violation sits below a grandchild (a local parent/child test misses it).
CheckBstDecidesBst == check_bst(tree) = IsBst(tree)

\* BinTree.insert never turns a binary search tree into one that is not.
InsertKeepsBst == [][IsBst(tree) => IsBst(tree')]_vars

=============================================================================
