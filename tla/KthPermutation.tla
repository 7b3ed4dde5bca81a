---------------------------- MODULE KthPermutation ----------------------------
(***************************************************************************)
(* amz/find_kth_permutation.py.  Each recursive call of                   *)
(* find_kth_permutation(v, k) is one Step: it picks v[(k-1)//count],      *)
(* deletes it from the caller's list v and lowers k.  The result string   *)
(* is the sequence of picked values (the driver's values are digits, so   *)
(* str() and concatenation lose nothing).  Python indexes a negative      *)
(* position from the end and raises IndexError past either end.           *)
(***************************************************************************)
EXTENDS Integers, Sequences, SequencesExt

CONSTANTS Values, MaxLen

RECURSIVE factorial(_)
factorial(n) == IF n = 0 \/ n = 1 THEN 1 ELSE n * factorial(n - 1)

VARIABLES v, k, result, pc, v0, k0   \* v0, k0: the arguments of the first call
vars == <<v, k, result, pc, v0, k0>>

Init ==
    /\ v \in BoundedSeq(Values, MaxLen)
    /\ k \in 0..factorial(Len(v)) + 1
    /\ result = <<>> /\ pc = "call" /\ v0 = v /\ k0 = k

\* count = factorial(n - 1) for the current v.
Count == factorial(Len(v) - 1)

\* One call on a non-empty v with selected = sel; deletes says whether
\* `del v[selected]` runs.
StepWith(sel, deletes) ==
    /\ pc = "call" /\ v # <<>>
    /\ LET at == IF sel < 0 THEN Len(v) + sel + 1 ELSE sel + 1  \* v[sel]
       IN  IF at \in 1..Len(v)
           THEN /\ result' = Append(result, v[at])
                /\ v' = IF deletes THEN RemoveAt(v, at) ELSE v
                /\ k' = k - Count * sel
                /\ UNCHANGED pc
           ELSE pc' = "indexerror" /\ UNCHANGED <<v, k, result>>
    /\ UNCHANGED <<v0, k0>>

\* A plausible bug: the block index taken as k // count.
StepNoMinusOne == StepWith(k \div Count, TRUE)

\* A plausible bug: the picked value not deleted from v.
StepNoDelete == StepWith((k - 1) \div Count, FALSE)

Step == StepWith((k - 1) \div Count, TRUE)

\* `if not v: return result`
Return ==
    /\ pc = "call" /\ v = <<>>
    /\ pc' = "done"
    /\ UNCHANGED <<v, k, result, v0, k0>>

Next == Step \/ Return

Spec == Init /\ [][Next]_vars

-----------------------------------------------------------------------------
\* `del v[selected]` works on the caller's own list: after every call,
\* and after an IndexError, the values picked so far and the values left
\* in v are together the values the caller passed, repeats counted.
\* Since the calls return only on an empty v, the caller's list ends as []
\* (the driver rebuilds v before its second call, lines 44-46).
PickedPlusLeftIsArgument == ToBag(result \o v) = ToBag(v0)

\* p comes before q in lexicographic order.
LexBefore(p, q) ==
    \E i \in 1..Len(p) : SubSeq(p, 1, i - 1) = SubSeq(q, 1, i - 1) /\ p[i] < q[i]

\* The orderings of the positions 1..n, in lexicographic order.
LexPermutations(n) ==
    SortSeq(SetToSeq({p \in [1..n -> 1..n] : ToSet(p) = 1..n}), LexBefore)

\* For every k from 1 to len(v)!, the call returns, without IndexError, the
\* values of v in the k-th ordering of their positions; repeated values
\* included, over the caller's list v that the calls delete from.
KthIsLexicographic ==
    k0 \in 1..factorial(Len(v0)) =>
        /\ pc # "indexerror"
        /\ pc = "done" =>
             result = [i \in 1..Len(v0) |-> v0[LexPermutations(Len(v0))[k0][i]]]

=============================================================================
