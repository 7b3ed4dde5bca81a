----------------------------- MODULE AllSubsets -----------------------------
(***************************************************************************)
(* amz/find_all_subsets.py: get_all_subsets(v, sets) appends to sets, for *)
(* each i below 2^len(v), the list of v[j] whose bit j of i is set.  One  *)
(* action per iteration of each of its two loops.                        *)
(***************************************************************************)
EXTENDS Integers, Sequences, SequencesExt, Bitwise

CONSTANTS Values, MaxLen

\* A plausible bug: the mask shifted one bit too far.
get_bit_shifted(num, bit) == IF (2^(bit + 1)) & num = 0 THEN 0 ELSE 1

\* (1 << bit) & num, as 0 or 1.
get_bit(num, bit) == IF (2^bit) & num = 0 THEN 0 ELSE 1

VARIABLES v, sets, st, i, j, pc
vars == <<v, sets, st, i, j, pc>>

\* v is the caller's integer set: a list without repeats.
Init ==
    /\ v \in {s \in BoundedSeq(Values, MaxLen) : Len(s) = Cardinality(ToSet(s))}
    /\ sets = <<>> /\ st = <<>> /\ i = 0 /\ j = 0 /\ pc = "outer"

\* for i in range(0, subsets_count): st = []
Outer ==
    /\ pc = "outer" /\ i < 2^Len(v)
    /\ st' = <<>> /\ j' = 0 /\ pc' = "inner"
    /\ UNCHANGED <<v, sets, i>>

\* for j in range(0, len(v)): if get_bit(i, j) == 1: st.append(v[j])
Inner ==
    /\ pc = "inner" /\ j < Len(v)
    /\ st' = IF get_bit(i, j) = 1 THEN Append(st, v[j + 1]) ELSE st
    /\ j' = j + 1
    /\ UNCHANGED <<v, sets, i, pc>>

\* sets.append(st), on to the next i
EndInner ==
    /\ pc = "inner" /\ j = Len(v)
    /\ sets' = Append(sets, st) /\ i' = i + 1 /\ pc' = "outer"
    /\ UNCHANGED <<v, st, j>>

Return ==
    /\ pc = "outer" /\ i = 2^Len(v)
    /\ pc' = "done"
    /\ UNCHANGED <<v, sets, st, i, j>>

Next == Outer \/ Inner \/ EndInner \/ Return

Spec == Init /\ [][Next]_vars /\ WF_vars(Next)

-----------------------------------------------------------------------------
TypeOK ==
    /\ v \in BoundedSeq(Values, MaxLen) /\ st \in BoundedSeq(Values, MaxLen)
    /\ sets \in Seq(BoundedSeq(Values, MaxLen))
    /\ i \in 0..2^MaxLen /\ j \in 0..MaxLen /\ pc \in {"outer", "inner", "done"}

\* s lists some of the elements of v, in the order they have in v.
InOrderOf(s) ==
    \E idx \in SUBSET (1..Len(v)) :
        s = [x \in 1..Cardinality(idx) |-> v[SetToSortSeq(idx, <)[x]]]

\* get_all_subsets returns, and then sets holds every subset of v exactly
\* once (2^len(v) entries, no two alike), each listed in v's order.
ListsEverySubsetOnce ==
    <>[](/\ pc = "done"
         /\ Len(sets) = 2^Len(v)
         /\ {ToSet(s) : s \in ToSet(sets)} = SUBSET ToSet(v)
         /\ \A s \in ToSet(sets) : InOrderOf(s))

=============================================================================
