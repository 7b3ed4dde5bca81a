-------------------------- MODULE DepthFirstSearch --------------------------
(***************************************************************************)
(* graph/deep_search_priority.py, dfs(graph, start, visited): recursive   *)
(* depth-first search over a dict of successor sets.  The recursion is    *)
(* an explicit call stack; a frame keeps the set `graph[start] - visited` *)
(* the for loop iterates, evaluated once when the loop starts, and a step *)
(* is one call, one loop iteration or one return.                         *)
(***************************************************************************)
EXTENDS Integers, Sequences, FiniteSets

CONSTANTS
    Vertices,   \* the keys of the graph dict
    Start       \* the vertex dfs is first called on

ASSUME Start \in Vertices

G == INSTANCE Graphs

VARIABLES
    graph,      \* the dict: vertex -> set of successors
    visited,    \* the visited set shared by all calls
    stack,      \* the frames of the active calls, innermost last
    calls,      \* calls[v]: how often dfs(graph, v, ...) ran (print(start))
    pc          \* "start", "run" or "done" (the outer call returned)
vars == <<graph, visited, stack, calls, pc>>

Init ==
    /\ graph \in [Vertices -> SUBSET Vertices]
    /\ visited = {}
    /\ stack = <<>>
    /\ calls = [v \in Vertices |-> 0]
    /\ pc = "start"

\* A plausible bug: the snapshot taken before visited.add(start).
EnterSnapshotEarly(v, st) ==
    /\ visited' = visited \cup {v}
    /\ calls' = [calls EXCEPT ![v] = @ + 1]
    /\ stack' = Append(st, [node |-> v, todo |-> graph[v] \ visited])

\* The body of dfs(graph, v, visited) up to its loop: visited.add(v),
\* print(v), and the snapshot graph[v] - visited the loop will walk; the
\* new frame goes on top of the caller's frames st.
Enter(v, st) ==
    /\ visited' = visited \cup {v}
    /\ calls' = [calls EXCEPT ![v] = @ + 1]
    /\ stack' = Append(st, [node |-> v, todo |-> graph[v] \ visited'])

\* The driver's dfs(gdict, 'a'): `visited is None`, so a fresh set.
Call ==
    /\ pc = "start"
    /\ Enter(Start, stack)
    /\ pc' = "run"
    /\ UNCHANGED graph

\* One iteration of `for next in graph[start] - visited`: the next element
\* of the snapshot, in the set's iteration order (hash-seed dependent, so
\* any), is called whether or not a deeper call has visited it since.
Recurse ==
    /\ pc = "run" /\ stack[Len(stack)].todo # {}
    /\ \E nx \in stack[Len(stack)].todo :
          Enter(nx, [stack EXCEPT ![Len(stack)].todo = @ \ {nx}])
    /\ UNCHANGED <<graph, pc>>

\* A plausible bug: a call returning before its loop is done.
ReturnEarly ==
    /\ pc = "run"
    /\ stack' = SubSeq(stack, 1, Len(stack) - 1)
    /\ pc' = IF Len(stack) = 1 THEN "done" ELSE "run"
    /\ UNCHANGED <<graph, visited, calls>>

\* The loop is exhausted: `return visited` to the caller.
Return ==
    /\ pc = "run" /\ stack[Len(stack)].todo = {}
    /\ stack' = SubSeq(stack, 1, Len(stack) - 1)
    /\ pc' = IF Len(stack) = 1 THEN "done" ELSE "run"
    /\ UNCHANGED <<graph, visited, calls>>

Next == Call \/ Recurse \/ Return

Spec == Init /\ [][Next]_vars

-----------------------------------------------------------------------------
TypeOK ==
    /\ graph \in [Vertices -> SUBSET Vertices]
    /\ visited \subseteq Vertices
    /\ stack \in Seq([node : Vertices, todo : SUBSET Vertices])
    /\ calls \in [Vertices -> Nat]
    /\ pc \in {"start", "run", "done"}

AsGraph == [node |-> Vertices, edge |-> {<<u, w>> \in Vertices \X Vertices : w \in graph[u]}]

\* The set dfs returns is exactly the vertices reachable from start.
VisitedIsReachable ==
    pc = "done" => visited = {Start} \cup G!Descendants(AsGraph, Start)

\* The vertices of the active calls are distinct: the recursion is at most
\* as deep as the graph has vertices, though the snapshot of the loop may
\* be stale.
StackVerticesDistinct ==
    \A i, j \in DOMAIN stack : i # j => stack[i].node # stack[j].node

\* dfs runs once per vertex: the visited set keeps it from entering (and
\* printing) a vertex twice.
EachVertexOnce == \A v \in Vertices : calls[v] <= 1

=============================================================================
