------------------------- MODULE BinarySearchRotated -------------------------
(***************************************************************************)
(* amz/binary_search_rotated.py, binary_search_rotated(arr, key): binary  *)
(* search in a sorted array rotated by an unknown amount.  One step of    *)
(* the model is one iteration of the while loop.  Indices are the code's  *)
(* 0-based ones; arr[i] of the code is At(i).                             *)
(***************************************************************************)
EXTENDS Integers, Sequences, SequencesExt

CONSTANTS
    Values,     \* the integers in the array
    Keys,       \* the keys searched for
    MaxLen,     \* bound on the array length
    Distinct    \* TRUE: arrays of distinct values only

VARIABLES arr, key, start, end, ret, pc
vars == <<arr, key, start, end, ret, pc>>

At(i) == arr[i + 1]

\* The inputs: every rotation of every ascending array (strictly
\* ascending when Distinct) of up to MaxLen values.
Sorted(s) == \A i \in 1..Len(s) - 1 : IF Distinct THEN s[i] < s[i + 1]
                                                  ELSE s[i] <= s[i + 1]
Rotations(s) == {SubSeq(s, r + 1, Len(s)) \o SubSeq(s, 1, r) : r \in 0..Len(s)}
Inputs == UNION {Rotations(s) : s \in {s \in BoundedSeq(Values, MaxLen) : Sorted(s)}}

Init ==
    /\ arr \in Inputs
    /\ key \in Keys
    /\ start = 0
    /\ end = Len(arr) - 1
    /\ ret = -1
    /\ pc = IF 0 > Len(arr) - 1 THEN "done" ELSE "loop"   \* `if start > end: return -1`

\* Plausible bugs: the rotated right half searched on the left; start
\* not moved past mid.
IterateWrongSide ==
    /\ pc = "loop" /\ start <= end
    /\ LET mid == start + (end - start) \div 2
           a == At(start)  m == At(mid)  z == At(end)
       IN  IF m = key THEN ret' = mid /\ pc' = "done" /\ UNCHANGED <<start, end>>
           ELSE IF a <= m /\ key <= m /\ key >= a
                THEN end' = mid - 1 /\ UNCHANGED <<start, ret, pc>>
           ELSE IF m <= z /\ key >= m /\ key <= z
                THEN start' = mid + 1 /\ UNCHANGED <<end, ret, pc>>
           ELSE IF a <= m /\ m <= z /\ key > z
                THEN start' = mid + 1 /\ UNCHANGED <<end, ret, pc>>
           ELSE IF z <= m
                THEN end' = mid - 1 /\ UNCHANGED <<start, ret, pc>>
           ELSE IF a >= m
                THEN end' = mid - 1 /\ UNCHANGED <<start, ret, pc>>
           ELSE ret' = -1 /\ pc' = "done" /\ UNCHANGED <<start, end>>
    /\ UNCHANGED <<arr, key>>

IterateNoAdvance ==
    /\ pc = "loop" /\ start <= end
    /\ LET mid == start + (end - start) \div 2
           a == At(start)  m == At(mid)  z == At(end)
       IN  IF m = key THEN ret' = mid /\ pc' = "done" /\ UNCHANGED <<start, end>>
           ELSE IF a <= m /\ key <= m /\ key >= a
                THEN end' = mid - 1 /\ UNCHANGED <<start, ret, pc>>
           ELSE IF m <= z /\ key >= m /\ key <= z
                THEN start' = mid /\ UNCHANGED <<end, ret, pc>>
           ELSE IF a <= m /\ m <= z /\ key > z
                THEN start' = mid + 1 /\ UNCHANGED <<end, ret, pc>>
           ELSE IF z <= m
                THEN start' = mid + 1 /\ UNCHANGED <<end, ret, pc>>
           ELSE IF a >= m
                THEN end' = mid - 1 /\ UNCHANGED <<start, ret, pc>>
           ELSE ret' = -1 /\ pc' = "done" /\ UNCHANGED <<start, end>>
    /\ UNCHANGED <<arr, key>>

\* One iteration: `mid` and the if/elif chain, in the code's order.
Iterate ==
    /\ pc = "loop" /\ start <= end
    /\ LET mid == start + (end - start) \div 2
           a == At(start)  m == At(mid)  z == At(end)
       IN  IF m = key THEN ret' = mid /\ pc' = "done" /\ UNCHANGED <<start, end>>
           ELSE IF a <= m /\ key <= m /\ key >= a
                THEN end' = mid - 1 /\ UNCHANGED <<start, ret, pc>>
           ELSE IF m <= z /\ key >= m /\ key <= z
                THEN start' = mid + 1 /\ UNCHANGED <<end, ret, pc>>
           ELSE IF a <= m /\ m <= z /\ key > z
                THEN start' = mid + 1 /\ UNCHANGED <<end, ret, pc>>
           ELSE IF z <= m
                THEN start' = mid + 1 /\ UNCHANGED <<end, ret, pc>>
           ELSE IF a >= m
                THEN end' = mid - 1 /\ UNCHANGED <<start, ret, pc>>
           ELSE ret' = -1 /\ pc' = "done" /\ UNCHANGED <<start, end>>
    /\ UNCHANGED <<arr, key>>

\* `while start <= end` fails: return -1.
Exhausted ==
    /\ pc = "loop" /\ start > end
    /\ pc' = "done"
    /\ UNCHANGED <<arr, key, start, end, ret>>

Next == Iterate \/ Exhausted

Spec == Init /\ [][Next]_vars /\ WF_vars(Next)

-----------------------------------------------------------------------------
TypeOK ==
    /\ arr \in Seq(Values) /\ key \in Keys
    /\ start \in 0..MaxLen + 1 /\ end \in -1..MaxLen - 1
    /\ ret \in -1..MaxLen - 1 /\ pc \in {"loop", "done"}

\* The search returns an index holding the key, and -1 only when the key is
\* nowhere in the array.
FindsKey ==
    pc = "done" =>
        IF ret = -1 THEN \A i \in DOMAIN arr : arr[i] # key
        ELSE At(ret) = key

\* The loop ends.
Terminates == <>(pc = "done")

=============================================================================
