----------------------------- MODULE FindMissing -----------------------------
(***************************************************************************)
(* amz/find_missing.py: find_missing(input) subtracts sum(input) from     *)
(* n*(n+1)/2 with n = len(input) + 1.  `/` is float division; n*(n+1) is *)
(* even and, at these bounds, far below 2^53, so the float is exact and    *)
(* compares equal to the integer modelled here.                           *)
(***************************************************************************)
EXTENDS Integers, Sequences, SequencesExt

CONSTANTS MaxN,     \* largest n
          None      \* the result before the call returns

\* sum(input)
Total(s) == FoldSeq(+, 0, s)

\* A plausible bug: n = len(input), the missing number left out of n.
find_missing_short(input) ==
    LET n == Len(input) IN (n * (n + 1)) \div 2 - Total(input)

find_missing(input) ==
    LET n == Len(input) + 1 IN (n * (n + 1)) \div 2 - Total(input)

VARIABLES input, x, ret    \* x: the number left out of input
vars == <<input, x, ret>>

\* The docstring's input: 1..n in any order, all present but one.
Init ==
    /\ \E n \in 1..MaxN : x \in 1..n /\ input \in SetToSeqs((1..n) \ {x})
    /\ ret = None

Call ==
    /\ ret = None
    /\ ret' = find_missing(input)
    /\ UNCHANGED <<input, x>>

Next == Call

Spec == Init /\ [][Next]_vars

-----------------------------------------------------------------------------
\* find_missing returns the one number of 1..n absent from input, whichever
\* it is (1 and n included) and whatever the order of input.
FindsMissing == ret # None => ret = x

=============================================================================
