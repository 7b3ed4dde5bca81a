---------------------------- MODULE CheckMonotonic ----------------------------
(***************************************************************************)
(* base/check_monotonic.py: check_monotonic(inputInt) is one expression,  *)
(* two all() over the adjacent pairs; the state machine is one call.      *)
(***************************************************************************)
EXTENDS Integers, Sequences, SequencesExt

CONSTANTS Values,   \* the integers of the list
          MaxLen,   \* longest list
          None      \* the result before the call returns

\* all(cmp(inputInt[i], inputInt[i+1]) for i in range(len(inputInt)-1))
AllPairs(s, cmp(_, _)) == \A i \in 0..Len(s) - 2 : cmp(s[i + 1], s[i + 2])

\* A plausible bug: range(len(inputInt) - 2), the last pair never tested.
check_monotonic_short(s) ==
    \/ \A i \in 0..Len(s) - 3 : s[i + 1] <= s[i + 2]
    \/ \A i \in 0..Len(s) - 3 : s[i + 1] >= s[i + 2]

check_monotonic(s) ==
    AllPairs(s, LAMBDA x, y : x <= y) \/ AllPairs(s, LAMBDA x, y : x >= y)

VARIABLES inputInt, ret
vars == <<inputInt, ret>>

Init == inputInt \in BoundedSeq(Values, MaxLen) /\ ret = None

Call ==
    /\ ret = None
    /\ ret' = check_monotonic(inputInt)
    /\ UNCHANGED inputInt

Next == Call

Spec == Init /\ [][Next]_vars

-----------------------------------------------------------------------------
Ascending(s) == s = SortSeq(s, <)

\* check_monotonic returns True exactly for a list that, sorted ascending,
\* is itself or its reverse: the empty list, one element and equal
\* neighbours included.
IsMonotonic ==
    ret # None => (ret <=> Ascending(inputInt) \/ Ascending(Reverse(inputInt)))

=============================================================================
