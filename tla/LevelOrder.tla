----------------------------- MODULE LevelOrder -----------------------------
(***************************************************************************)
(* tree/level_order_trasversal.py, level_order_traversal(root): a         *)
(* breadth-first walk with two deques.  current_queue and next_queue are  *)
(* aliases of queues[level_number % 2] and queues[(level_number+1) % 2];  *)
(* the roles swap when the current deque runs empty.  One step of the     *)
(* model is one iteration of the while loop.  The result string is kept   *)
(* as its tokens: the value of each node, and Sep for each ";\n".         *)
(***************************************************************************)
EXTENDS BinaryTrees

CONSTANTS
    Sep,        \* the ";\n" closing a level in the result string
    InitSizes   \* the numbers of nodes of the trees given to the function

ASSUME InitSizes \subseteq 1..MaxNodes /\ Sep \notin Values

VARIABLES
    tree,       \* the BinTree objects
    root,       \* the argument: Root, or Nil for None
    queues,     \* queues[0], queues[1]: deques of nodes
    level,      \* level_number
    result,     \* the tokens of the result string, or None
    pc          \* "start", "loop" (the while loop) or "done" (returned)
vars == <<tree, root, queues, level, result, pc>>

CurQ == queues[level % 2]           \* current_queue
NextQ == queues[(level + 1) % 2]    \* next_queue

Init ==
    /\ tree \in UNION {LinkedTrees(k, Values) : k \in InitSizes}
    /\ root \in {Root, Nil}
    /\ queues = [i \in 0..1 |-> <<>>]
    /\ level = 0
    /\ result = <<>>
    /\ pc = "start"

\* `if root == None: return`: the function returns None.
ReturnNone ==
    /\ pc = "start" /\ root = Nil
    /\ result' = None
    /\ pc' = "done"
    /\ UNCHANGED <<tree, root, queues, level>>

\* result = "", current_queue.append(root), level_number = 0.
Begin ==
    /\ pc = "start" /\ root # Nil
    /\ queues' = [queues EXCEPT ![0] = <<root>>]
    /\ result' = <<>>
    /\ pc' = "loop"
    /\ UNCHANGED <<tree, root, level>>

\* Plausible bugs: the right child queued first; the children queued on
\* current_queue.
VisitRightFirst ==
    /\ pc = "loop" /\ CurQ # <<>>
    /\ LET temp == Head(CurQ)
           kids == SelectSeq(<<tree.right[temp], tree.left[temp]>>,
                             LAMBDA c : c # Nil)
           cur == Tail(CurQ)
           drained == cur = <<>>
       IN  /\ queues' = [queues EXCEPT ![level % 2] = cur,
                                       ![(level + 1) % 2] = @ \o kids]
           /\ level' = IF drained THEN level + 1 ELSE level
           /\ result' = result \o <<tree.data[temp]>>
                               \o (IF drained THEN <<Sep>> ELSE <<>>)
    /\ UNCHANGED <<tree, root, pc>>

VisitIntoCurrent ==
    /\ pc = "loop" /\ CurQ # <<>>
    /\ LET temp == Head(CurQ)
           kids == SelectSeq(<<tree.left[temp], tree.right[temp]>>,
                             LAMBDA c : c # Nil)
           cur == Tail(CurQ)
           drained == cur = <<>>
       IN  /\ queues' = [queues EXCEPT ![level % 2] = cur \o kids]
           /\ level' = IF drained THEN level + 1 ELSE level
           /\ result' = result \o <<tree.data[temp]>>
                               \o (IF drained THEN <<Sep>> ELSE <<>>)
    /\ UNCHANGED <<tree, root, pc>>

\* One iteration: popleft, record the value, append the non-None children
\* to next_queue; if current_queue is now empty, close the level and swap.
Visit ==
    /\ pc = "loop" /\ CurQ # <<>>
    /\ LET temp == Head(CurQ)
           kids == SelectSeq(<<tree.left[temp], tree.right[temp]>>,
                             LAMBDA c : c # Nil)
           cur == Tail(CurQ)
           drained == cur = <<>>
       IN  /\ queues' = [queues EXCEPT ![level % 2] = cur,
                                       ![(level + 1) % 2] = @ \o kids]
           /\ level' = IF drained THEN level + 1 ELSE level
           /\ result' = result \o <<tree.data[temp]>>
                               \o (IF drained THEN <<Sep>> ELSE <<>>)
    /\ UNCHANGED <<tree, root, pc>>

\* `while current_queue:` fails: return result.
Return ==
    /\ pc = "loop" /\ CurQ = <<>>
    /\ pc' = "done"
    /\ UNCHANGED <<tree, root, queues, level, result>>

Next == ReturnNone \/ Begin \/ Visit \/ Return

Spec == Init /\ [][Next]_vars

-----------------------------------------------------------------------------
TypeOK ==
    /\ tree \in Trees
    /\ root \in {Root, Nil}
    /\ queues \in [0..1 -> Seq(Nodes)]
    /\ level \in 0..MaxNodes
    /\ result \in Seq(Values \cup {Sep}) \cup {None}
    /\ pc \in {"start", "loop", "done"}

\* Reference: the nodes d edges below the root, and the nodes in preorder.
RECURSIVE NodesAtDepth(_, _)
NodesAtDepth(t, d) ==
    IF d = 0 THEN {Root}
    ELSE {c \in {t.left[n] : n \in NodesAtDepth(t, d - 1)}
                \cup {t.right[n] : n \in NodesAtDepth(t, d - 1)} : c # Nil}

RECURSIVE PreorderNodes(_, _)
PreorderNodes(t, n) ==
    IF n = Nil THEN <<>>
    ELSE <<n>> \o PreorderNodes(t, t.left[n]) \o PreorderNodes(t, t.right[n])

\* The values of each level, left to right, each level closed by Sep.
Levels(t) ==
    LET height == CHOOSE h \in 0..MaxNodes : NodesAtDepth(t, h + 1) = {}
        row(d) == SelectSeq(PreorderNodes(t, Root),
                            LAMBDA n : n \in NodesAtDepth(t, d))
    IN  FlattenSeq([d \in 1..height + 1 |->
                       [i \in 1..Len(row(d - 1)) |-> t.data[row(d - 1)[i]]]
                       \o <<Sep>>])

\* A returned result lists every level of the tree, top down, each level
\* left to right and closed by ";\n": the deque swap loses and reorders
\* nothing.
ResultIsLevelOrder ==
    (pc = "done" /\ root # Nil) => result = Levels(tree)

\* While the loop runs, current_queue holds only nodes of depth
\* level_number and next_queue only nodes one level deeper.
QueuesHoldAdjacentLevels ==
    pc = "loop" =>
        /\ \A i \in DOMAIN CurQ : CurQ[i] \in NodesAtDepth(tree, level)
        /\ \A i \in DOMAIN NextQ : NextQ[i] \in NodesAtDepth(tree, level + 1)

=============================================================================
