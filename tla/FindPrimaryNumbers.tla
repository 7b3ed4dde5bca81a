-------------------------- MODULE FindPrimaryNumbers --------------------------
(***************************************************************************)
(* base/find_primary_number.py: find_primary_numbers(n), trial division   *)
(* with Python's for ... else: the else branch (append i) runs only when  *)
(* the inner loop ends without a break.  One action per iteration of each *)
(* loop.                                                                  *)
(***************************************************************************)
EXTENDS Integers, Sequences, SequencesExt

CONSTANT MaxN   \* largest n

VARIABLES n, pn, i, k, pc
vars == <<n, pn, i, k, pc>>

Init == n \in 0..MaxN /\ pn = <<1>> /\ i = 2 /\ k = 2 /\ pc = "outer"

\* Line 8: for i in range(2, n).
Outer ==
    /\ pc = "outer" /\ i < n
    /\ k' = 2 /\ pc' = "inner"
    /\ UNCHANGED <<n, pn, i>>

Return ==
    /\ pc = "outer" /\ i >= n
    /\ pc' = "done"
    /\ UNCHANGED <<n, pn, i, k>>

\* A plausible bug: the loop bound range(2, i + 1), which tests i % i.
InnerToI ==
    /\ pc = "inner" /\ k <= i
    /\ IF i % k = 0
       THEN i' = i + 1 /\ pc' = "outer" /\ UNCHANGED k
       ELSE k' = k + 1 /\ UNCHANGED <<i, pc>>
    /\ UNCHANGED <<n, pn>>

\* Lines 9-11: for k in range(2, i), break on a divisor.
Inner ==
    /\ pc = "inner" /\ k < i
    /\ IF i % k = 0
       THEN i' = i + 1 /\ pc' = "outer" /\ UNCHANGED k
       ELSE k' = k + 1 /\ UNCHANGED <<i, pc>>
    /\ UNCHANGED <<n, pn>>

\* Lines 14-15: the inner loop ended without a break.
Else ==
    /\ pc = "inner" /\ k >= i
    /\ pn' = Append(pn, i) /\ i' = i + 1 /\ pc' = "outer"
    /\ UNCHANGED <<n, k>>

Next == Outer \/ Return \/ Inner \/ Else

Spec == Init /\ [][Next]_vars

-----------------------------------------------------------------------------
\* p has no factorisation into two numbers both above 1.
IsPrime(p) == p > 1 /\ ~\E a, b \in 2..p : a * b = p

\* The primes below m, ascending.
PrimesBelow(m) == SelectSeq([p \in 1..m - 1 |-> p], IsPrime)

\* Between iterations of the outer loop, pn after its first element lists
\* exactly the primes below i in ascending order: no composite slips
\* through the for-else and no prime is skipped.
PrimesBelowCursor ==
    pc \in {"outer", "done"} => Tail(pn) = PrimesBelow(i)

\* The docstring: find_primary_numbers(n) returns all the prime numbers
\* less than n.
ReturnsPrimesBelowN == pc = "done" => pn = PrimesBelow(n)

=============================================================================
