----------------------------- MODULE ArbiListCopy -----------------------------
(***************************************************************************)
(* What amz/copy_arbitrary_list.py promises, without pointers.  A list is *)
(* a sequence of entries; an entry's arbi is the position in the same     *)
(* list of the node its arbiNode refers to, 0 for None.  copy_arbitrary_  *)
(* list(list) yields, once, a list equal entry for entry to the original. *)
(***************************************************************************)
EXTENDS Naturals, Sequences

CONSTANTS Values,   \* the data the driver stores
          NoCopy    \* copy before copy_arbitrary_list has returned

VARIABLES list, copy
vars == <<list, copy>>

\* A position after one node was put in front of the list.
Shift(p) == IF p = 0 THEN 0 ELSE p + 1

Init == list = <<>> /\ copy = NoCopy

\* ArbiList.insert(d, a): a new first entry, every position moves by one.
InsertEntry(d, a) ==
    /\ copy = NoCopy
    /\ list' = <<[data |-> d, arbi |-> Shift(a)]>>
                  \o [i \in DOMAIN list |-> [list[i] EXCEPT !.arbi = Shift(@)]]
    /\ UNCHANGED copy

\* ArbiList.append(d, a): a new last entry.
AppendEntry(d, a) ==
    /\ copy = NoCopy
    /\ list' = list \o <<[data |-> d, arbi |-> a]>>
    /\ UNCHANGED copy

\* copy_arbitrary_list(list) returns a list with the same entries.
Copy ==
    /\ copy = NoCopy
    /\ copy' = list
    /\ UNCHANGED list

Next ==
    \/ \E d \in Values, a \in 0..Len(list) : InsertEntry(d, a) \/ AppendEntry(d, a)
    \/ Copy

Spec == Init /\ [][Next]_vars

=============================================================================
