----------------------------- MODULE MergeSorted -----------------------------
(***************************************************************************)
(* amz/merge_sorted_list.py: two LList objects built by LList.append in   *)
(* ascending order (the driver's list2 and list3), then                   *)
(* merge_sorted(list2, list3), which relinks the nodes of both lists in   *)
(* place and returns the LList whose head is smaller.  One step of the    *)
(* model is one append call or one iteration of the merge loop.           *)
(***************************************************************************)
EXTENDS Integers, Sequences, SequencesExt

CONSTANTS
    Values,     \* the integers appended
    MaxNodes    \* bound on the Node objects of both lists together

Nil == 0
Nodes == 1..MaxNodes
Lists == {1, 2}     \* head1, head2: the two LList objects

VARIABLES
    data, nxt,  \* Node.data and Node.next of the allocated nodes
    size,       \* nodes allocated
    head,       \* head[i]: LList.head of list i
    nl,         \* nl[1], nl[2]: the merge cursors nl_1 and nl_2
    nextNode,   \* the last node linked into the merged list
    merged,     \* the list returned as mergedHead
    pc,         \* "build", "loop", "done" or "crash"
    given       \* history: the values of both lists when merge_sorted is called
vars == <<data, nxt, size, head, nl, nextNode, merged, pc, given>>

\* The values of the list starting at node n, following .next.
RECURSIVE Walk(_, _)
Walk(f, n) == IF n = Nil THEN <<>> ELSE <<data[n]>> \o Walk(f, f[n])

Init ==
    /\ data = [n \in Nodes |-> 0]
    /\ nxt = [n \in Nodes |-> Nil]
    /\ size = 0
    /\ head = [i \in Lists |-> Nil]
    /\ nl = [i \in Lists |-> Nil]
    /\ nextNode = Nil
    /\ merged = 1
    /\ pc = "build"
    /\ given = [i \in Lists |-> <<>>]

\* The `while n is not None: last = n; n = n.next` walk of LList.append.
RECURSIVE LastNode(_)
LastNode(n) == IF nxt[n] = Nil THEN n ELSE LastNode(nxt[n])

\* list_i.append(v): a new Node(v) becomes the head of an empty list, or is
\* linked after the last node.  The driver appends in ascending order.
LListAppend(i, v) ==
    /\ pc = "build" /\ size < MaxNodes
    /\ head[i] # Nil => v >= data[LastNode(head[i])]
    /\ LET nn == size + 1 IN
       /\ data' = [data EXCEPT ![nn] = v]
       /\ size' = nn
       /\ IF head[i] = Nil
          THEN head' = [head EXCEPT ![i] = nn] /\ UNCHANGED nxt
          ELSE nxt' = [nxt EXCEPT ![LastNode(head[i])] = nn] /\ UNCHANGED head
    /\ UNCHANGED <<nl, nextNode, merged, given>>
    /\ pc' = "build"

\* list_i.insert(v): Node(v, head) becomes the head.  A list built this way
\* is ascending when the driver inserts in descending order.
LListInsert(i, v) ==
    /\ pc = "build" /\ size < MaxNodes
    /\ head[i] # Nil => v <= data[head[i]]
    /\ data' = [data EXCEPT ![size + 1] = v]
    /\ nxt' = [nxt EXCEPT ![size + 1] = head[i]]
    /\ head' = [head EXCEPT ![i] = size + 1]
    /\ size' = size + 1
    /\ UNCHANGED <<nl, nextNode, merged, pc, given>>

\* A plausible bug: the larger head starts the merged list.
StartLargerHead ==
    /\ pc = "build"
    /\ IF head[1] = Nil \/ head[2] = Nil
       THEN pc' = "crash" /\ UNCHANGED <<nl, nextNode, merged>>
       ELSE LET m == IF data[head[1]] > data[head[2]] THEN 1 ELSE 2
            IN  /\ merged' = m
                /\ nl' = [head EXCEPT ![m] = nxt[head[m]]]
                /\ nextNode' = head[m]
                /\ pc' = "loop"
    /\ given' = [i \in Lists |-> Walk(nxt, head[i])]
    /\ UNCHANGED <<data, nxt, size, head>>

\* merge_sorted(list1, list2) up to the loop: nl_1.data on an empty list
\* raises AttributeError; otherwise the smaller head (list 2 on a tie)
\* starts the merged list and its cursor advances.
Start ==
    /\ pc = "build"
    /\ IF head[1] = Nil \/ head[2] = Nil
       THEN pc' = "crash" /\ UNCHANGED <<nl, nextNode, merged>>
       ELSE LET m == IF data[head[1]] < data[head[2]] THEN 1 ELSE 2
            IN  /\ merged' = m
                /\ nl' = [head EXCEPT ![m] = nxt[head[m]]]
                /\ nextNode' = head[m]
                /\ pc' = "loop"
    /\ given' = [i \in Lists |-> Walk(nxt, head[i])]
    /\ UNCHANGED <<data, nxt, size, head>>

\* A plausible bug: the comparison of the loop reversed.
LinkLarger ==
    /\ pc = "loop" /\ nl[1] # Nil /\ nl[2] # Nil
    /\ LET m == IF data[nl[1]] > data[nl[2]] THEN 1 ELSE 2
       IN  /\ nxt' = [nxt EXCEPT ![nextNode] = nl[m]]
           /\ nl' = [nl EXCEPT ![m] = nxt[nl[m]]]
           /\ nextNode' = nl[m]
    /\ UNCHANGED <<data, size, head, merged, pc, given>>

\* One iteration of `while nl_1 is not None and nl_2 is not None`:
\* nextNode.next = the smaller cursor (nl_2 on a tie), which advances.
Link ==
    /\ pc = "loop" /\ nl[1] # Nil /\ nl[2] # Nil
    /\ LET m == IF data[nl[1]] < data[nl[2]] THEN 1 ELSE 2
       IN  /\ nxt' = [nxt EXCEPT ![nextNode] = nl[m]]
           /\ nl' = [nl EXCEPT ![m] = nxt[nl[m]]]
           /\ nextNode' = nl[m]
    /\ UNCHANGED <<data, size, head, merged, pc, given>>

\* The loop ends; `nextNode = nl_2` (or nl_1) only rebinds the local
\* name, and mergedHead is returned.
Return ==
    /\ pc = "loop" /\ (nl[1] = Nil \/ nl[2] = Nil)
    /\ pc' = "done"
    /\ UNCHANGED <<data, nxt, size, head, nl, nextNode, merged, given>>

Next == (\E i \in Lists, v \in Values : LListAppend(i, v) \/ LListInsert(i, v))
          \/ Start \/ Link \/ Return

Spec == Init /\ [][Next]_vars

-----------------------------------------------------------------------------
TypeOK ==
    /\ data \in [Nodes -> Values \cup {0}]
    /\ nxt \in [Nodes -> Nodes \cup {Nil}]
    /\ size \in 0..MaxNodes
    /\ head \in [Lists -> Nodes \cup {Nil}]
    /\ nl \in [Lists -> Nodes \cup {Nil}]
    /\ nextNode \in Nodes \cup {Nil}
    /\ merged \in Lists
    /\ pc \in {"build", "loop", "done", "crash"}
    /\ given \in [Lists -> Seq(Values)]

\* The values both lists held before the merge, sorted: what the docstring
\* says the merged list holds.  The appended values never change, so they
\* are all values of the allocated nodes.
AllValuesSorted == SortSeq([n \in 1..size |-> data[n]], <)

\* The nodes of the list starting at n, and the values from n up to and
\* including node last.
RECURSIVE NodesFrom(_)
NodesFrom(n) == IF n = Nil THEN {} ELSE {n} \cup NodesFrom(nxt[n])

RECURSIVE WalkTo(_, _)
WalkTo(n, last) == IF n = last THEN <<data[n]>> ELSE <<data[n]>> \o WalkTo(nxt[n], last)

\* The sorted values of a set of nodes.
SortedValues(S) == SortSeq(LET s == SetToSeq(S) IN [k \in DOMAIN s |-> data[s[k]]], <)

\* In the loop, the merged list from its head to nextNode holds exactly the
\* nodes the cursors have passed, in ascending order, and they are the
\* smallest values of both lists: no node left behind a cursor is smaller.
LinkedPartIsMerge ==
    pc = "loop" =>
        LET linked == WalkTo(head[merged], nextNode)
        IN  /\ linked = SortedValues((1..size) \ (NodesFrom(nl[1]) \cup NodesFrom(nl[2])))
            /\ IsPrefix(linked, AllValuesSorted)

\* The list merge_sorted returns is the start of the sorted merge of both
\* lists: nothing out of order, no cycle, though maybe not all of it.
MergedIsPrefixOfMerge ==
    pc = "done" => IsPrefix(Walk(nxt, head[merged]), AllValuesSorted)

(***************************************************************************)
(* The version kept in merge_sorted's docstring, on the values of the two *)
(* lists: an empty list returns the other; else the smaller head (head1   *)
(* on a tie) is linked next; when one list runs out, mergedTail.next      *)
(* takes the rest of the other.                                           *)
(***************************************************************************)
RECURSIVE merge_sorted_doc(_, _)
merge_sorted_doc(s1, s2) ==
    CASE s1 = <<>> -> s2
      [] s2 = <<>> -> s1
      [] Head(s1) <= Head(s2) -> <<Head(s1)>> \o merge_sorted_doc(Tail(s1), s2)
      [] OTHER -> <<Head(s2)>> \o merge_sorted_doc(s1, Tail(s2))

\* merge_sorted returns the list its own docstring version returns for the
\* same two lists: every value of both, sorted.
MergedHoldsAllValues ==
    pc = "done" => Walk(nxt, head[merged]) = merge_sorted_doc(given[1], given[2])

\* merge_sorted returns for lists the driver can build, the empty one too
\* ("if one of the lists is empty then other is the merged list").
NeverCrashes == pc # "crash"

=============================================================================
