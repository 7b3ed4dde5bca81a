---------------------------- MODULE FindSumOfTwo ----------------------------
(***************************************************************************)
(* amz/find_sum_of_2intergers.py: find_sum_of_two(A, val), one action per *)
(* iteration of its loop over A.  used_v is the list of the elements      *)
(* already passed; an element is tested against it before it is added.    *)
(***************************************************************************)
EXTENDS Integers, Sequences, SequencesExt

CONSTANTS Values,   \* the integers in A
          Targets,  \* the values of val
          MaxLen    \* longest A

VARIABLES A, val, used_v, i, ret, pc
vars == <<A, val, used_v, i, ret, pc>>

Init ==
    /\ A \in BoundedSeq(Values, MaxLen) /\ val \in Targets
    /\ used_v = <<>> /\ i = 1 /\ ret = FALSE /\ pc = "loop"

\* A plausible bug: a appended to used_v before the test, so an element
\* can pair with itself.
IterateAppendFirst ==
    /\ pc = "loop" /\ i <= Len(A)
    /\ IF val - A[i] \in ToSet(Append(used_v, A[i]))
       THEN ret' = TRUE /\ pc' = "done" /\ UNCHANGED <<used_v, i>>
       ELSE used_v' = Append(used_v, A[i]) /\ i' = i + 1 /\ UNCHANGED <<ret, pc>>
    /\ UNCHANGED <<A, val>>

\* Lines 21-25: return True when val - a was seen, else remember a.
Iterate ==
    /\ pc = "loop" /\ i <= Len(A)
    /\ IF val - A[i] \in ToSet(used_v)
       THEN ret' = TRUE /\ pc' = "done" /\ UNCHANGED <<used_v, i>>
       ELSE used_v' = Append(used_v, A[i]) /\ i' = i + 1 /\ UNCHANGED <<ret, pc>>
    /\ UNCHANGED <<A, val>>

\* Line 27: the loop ran out.
Exit ==
    /\ pc = "loop" /\ i > Len(A)
    /\ ret' = FALSE /\ pc' = "done"
    /\ UNCHANGED <<A, val, used_v, i>>

Next == Iterate \/ Exit

Spec == Init /\ [][Next]_vars

-----------------------------------------------------------------------------
\* The docstring's question: two integers of the array, at two different
\* positions, whose sum is val.
HasPair(s, v) == \E j, k \in 1..Len(s) : j < k /\ s[j] + s[k] = v

\* find_sum_of_two answers the docstring's question: True exactly when two
\* elements at different positions add up to val, so a value half of val
\* counts only when it occurs twice.
FindsPair == pc = "done" => (ret <=> HasPair(A, val))

=============================================================================
