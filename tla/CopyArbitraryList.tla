--------------------------- MODULE CopyArbitraryList ---------------------------
(***************************************************************************)
(* amz/copy_arbitrary_list.py on an arena of nodes.  Node k has data[k],  *)
(* nxt[k] (Node.next) and arbi[k] (Node.arbiNode), Nil for None; alloc   *)
(* counts the Node objects created.  The driver builds one ArbiList with  *)
(* insert and append, then calls copy_arbitrary_list once: its two loops  *)
(* are the actions Pass1 and Pass2, one iteration per step.               *)
(***************************************************************************)
EXTENDS Naturals, Sequences, SequencesExt

CONSTANTS Values,   \* node data
          None,     \* the None copy_arbitrary_list returns for an empty list
          MaxLen,   \* most nodes the driver puts in the list
          MinLen,   \* fewest nodes in the list when the copy is called
          NoCopy    \* the abstract copy before the function returns

Nil == 0
Nodes == 1..2 * MaxLen       \* the list and its copy

VARIABLES data, nxt, arbi, alloc, head, nhead, n, nn, dd, ret, pc
vars == <<data, nxt, arbi, alloc, head, nhead, n, nn, dd, ret, pc>>

\* The nodes from h along next; the fuel only matters for a cyclic list.
RECURSIVE Walk(_, _)
Walk(h, fuel) == IF h = Nil \/ fuel = 0 THEN <<>>
                 ELSE <<h>> \o Walk(nxt[h], fuel - 1)
Chain(h) == Walk(h, 2 * MaxLen)

\* Node(d, a) at the next free slot.
NewNode(d, a) ==
    /\ data' = [data EXCEPT ![alloc + 1] = d]
    /\ arbi' = [arbi EXCEPT ![alloc + 1] = a]
    /\ alloc' = alloc + 1

\* ArbiList.append of node k to the list headed by h: the new head and next.
AppendTo(h, k) ==
    IF h = Nil THEN [head |-> k, next |-> nxt]
    ELSE [head |-> h, next |-> [nxt EXCEPT ![Last(Chain(h))] = k]]

Init ==
    /\ data = [k \in Nodes |-> Nil] /\ arbi = [k \in Nodes |-> Nil]
    /\ nxt = [k \in Nodes |-> Nil]  /\ dd = [k \in Nodes |-> Nil]
    /\ alloc = 0 /\ head = Nil /\ nhead = Nil /\ n = Nil /\ nn = Nil
    /\ ret = Nil /\ pc = "build"

\* A plausible bug: the new node never linked to the old head.
ListInsertNoLink(d, a) ==
    NewNode(d, a) /\ head' = alloc + 1 /\ UNCHANGED nxt

\* ArbiList.insert: both branches leave nn.next = the old head, head = nn.
ListInsert(d, a) ==
    NewNode(d, a) /\ head' = alloc + 1 /\ nxt' = [nxt EXCEPT ![alloc + 1] = head]

ListAppend(d, a) ==
    LET r == AppendTo(head, alloc + 1)
    IN  NewNode(d, a) /\ head' = r.head /\ nxt' = r.next

\* copy_arbitrary_list(list) up to its first loop; None for an empty list.
CopyStart ==
    /\ pc = "build" /\ Len(Chain(head)) >= MinLen
    /\ n' = head
    /\ IF head = Nil THEN pc' = "done" /\ ret' = None
                     ELSE pc' = "pass1" /\ ret' = ret
    /\ UNCHANGED <<data, nxt, arbi, alloc, head, nhead, nn, dd>>

\* One iteration of the first loop: append a copy of n that still points
\* to the old arbiNode, store dd[n] = nn, move on.
Pass1 ==
    LET r == AppendTo(nhead, alloc + 1)
    IN  /\ pc = "pass1" /\ n # Nil
        /\ NewNode(data[n], arbi[n]) /\ nhead' = r.head /\ nxt' = r.next
        /\ dd' = [dd EXCEPT ![n] = alloc + 1]
        /\ n' = nxt[n]
        /\ UNCHANGED <<head, nn, ret, pc>>

EndPass1 ==
    /\ pc = "pass1" /\ n = Nil
    /\ nn' = nhead /\ pc' = "pass2"
    /\ UNCHANGED <<data, nxt, arbi, alloc, head, nhead, n, dd, ret>>

\* A plausible bug: the remapping assignment left out.
Pass2NoRemap ==
    /\ pc = "pass2" /\ nn # Nil
    /\ nn' = nxt[nn]
    /\ UNCHANGED <<data, nxt, arbi, alloc, head, nhead, n, dd, ret, pc>>

\* A plausible bug: `nn = nn.next` indented into the if.
Pass2AdvanceInsideIf ==
    /\ pc = "pass2" /\ nn # Nil /\ arbi[nn] # Nil
    /\ \/ dd[arbi[nn]] = Nil /\ pc' = "keyerror" /\ UNCHANGED <<arbi, nn>>
       \/ dd[arbi[nn]] # Nil /\ nn' = nxt[nn]
          /\ arbi' = [arbi EXCEPT ![nn] = dd[arbi[nn]]] /\ UNCHANGED pc
    /\ UNCHANGED <<data, nxt, alloc, head, nhead, n, dd, ret>>

\* One iteration of the second loop: arbiNode := dd[arbiNode], a KeyError
\* when the old node is not a key of dd.
Pass2 ==
    /\ pc = "pass2" /\ nn # Nil
    /\ \/ arbi[nn] = Nil /\ nn' = nxt[nn] /\ UNCHANGED <<arbi, pc>>
       \/ arbi[nn] # Nil /\ dd[arbi[nn]] = Nil /\ pc' = "keyerror"
          /\ UNCHANGED <<arbi, nn>>
       \/ arbi[nn] # Nil /\ dd[arbi[nn]] # Nil /\ nn' = nxt[nn]
          /\ arbi' = [arbi EXCEPT ![nn] = dd[arbi[nn]]] /\ UNCHANGED pc
    /\ UNCHANGED <<data, nxt, alloc, head, nhead, n, dd, ret>>

Return ==
    /\ pc = "pass2" /\ nn = Nil
    /\ ret' = nhead /\ pc' = "done"
    /\ UNCHANGED <<data, nxt, arbi, alloc, head, nhead, n, nn, dd>>

\* The driver's calls; arbiNode is None or a node of the list (line 6).
Build ==
    /\ pc = "build" /\ alloc < MaxLen
    /\ \E d \in Values, a \in {Nil} \cup ToSet(Chain(head)) :
          ListInsert(d, a) \/ ListAppend(d, a)
    /\ UNCHANGED <<nhead, n, nn, dd, ret, pc>>

Next == Build \/ CopyStart \/ Pass1 \/ EndPass1 \/ Pass2 \/ Return

\* The driver runs straight through on one thread and nothing blocks.
Spec == Init /\ [][Next]_vars /\ WF_vars(Next)

-----------------------------------------------------------------------------
TypeOK ==
    /\ data \in [Nodes -> Values \cup {Nil}]
    /\ nxt \in [Nodes -> {Nil} \cup Nodes] /\ arbi \in [Nodes -> {Nil} \cup Nodes]
    /\ dd \in [Nodes -> {Nil} \cup Nodes] /\ alloc \in 0..2 * MaxLen
    /\ {head, nhead, n, nn} \subseteq {Nil} \cup Nodes
    /\ ret \in {Nil, None} \cup Nodes
    /\ pc \in {"build", "pass1", "pass2", "done", "keyerror"}

\* Position of node x in the node sequence s: 0 for None, -1 outside s.
PosIn(s, x) ==
    IF x = Nil THEN 0
    ELSE LET p == SelectInSeq(s, LAMBDA y : y = x) IN IF p = 0 THEN -1 ELSE p

\* The list headed by h as ArbiListCopy sees it.
Entries(h) ==
    LET s == Chain(h)
    IN  [i \in 1..Len(s) |-> [data |-> data[s[i]], arbi |-> PosIn(s, arbi[s[i]])]]

Abs == INSTANCE ArbiListCopy
         WITH list <- Entries(head),
              copy <- IF pc # "done" THEN NoCopy
                      ELSE IF ret = None THEN None ELSE Entries(ret)

\* The arena implements the abstract list: insert and append change the
\* original as the positional spec says, the two copy loops leave it alone,
\* and the returned list equals it entry for entry, every arbiNode pointing
\* inside the copy at the same position.
CopyRefinesAbstract == Abs!Spec

\* Loop invariant of the second loop (lines 71-76): the copy has the
\* original's length and data, dd pairs the nodes position by position, the
\* copies before nn already point into the copy and those from nn on still
\* point into the original.
RemapFrontier ==
    pc = "pass2" =>
      LET o == Chain(head)
          c == Chain(nhead)
          fixed == IF nn = Nil THEN Len(c) ELSE SelectInSeq(c, LAMBDA y : y = nn) - 1
      IN  /\ Len(c) = Len(o)
          /\ \A i \in 1..Len(o) :
                /\ dd[o[i]] = c[i] /\ data[c[i]] = data[o[i]]
                /\ arbi[c[i]] = IF i <= fixed /\ arbi[o[i]] # Nil
                                THEN dd[arbi[o[i]]] ELSE arbi[o[i]]

\* copy_arbitrary_list returns: neither loop runs forever nor raises KeyError.
Terminates == <>(pc = "done")

=============================================================================
