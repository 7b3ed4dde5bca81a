--------------------------- MODULE FindMaxMinIndex ---------------------------
(***************************************************************************)
(* amz/find_max_min_index.py: find_low_index and find_high_index, binary  *)
(* searches for the first and the last index of key in an ascending array *)
(* with repeats.  Both run on the same input, one loop iteration per      *)
(* step each; they share nothing, so their steps interleave freely.       *)
(* Python's int(x / 2) truncates toward zero, which Half models.          *)
(***************************************************************************)
EXTENDS Integers, Sequences, SequencesExt

CONSTANTS
    Values,     \* the integers in the array
    Keys,       \* the keys searched for
    MaxLen      \* bound on the array length

Searches == {"low", "high"}

VARIABLES arr, key, low, high, mid, ret, pc
vars == <<arr, key, low, high, mid, ret, pc>>

At(i) == arr[i + 1]
\* int(x / 2) for an integer x: true division, then truncation toward 0.
Half(x) == IF x >= 0 THEN x \div 2 ELSE -((-x) \div 2)

Ascending(s) == \A i \in 1..Len(s) - 1 : s[i] <= s[i + 1]

Init ==
    /\ arr \in {s \in BoundedSeq(Values, MaxLen) : Ascending(s)}
    /\ key \in Keys
    /\ low = [s \in Searches |-> 0]
    /\ high = [s \in Searches |-> Len(arr) - 1]
    /\ mid = [s \in Searches |-> Half(Len(arr) - 1)]
    /\ ret = [s \in Searches |-> -1]
    /\ pc = [s \in Searches |-> "loop"]

\* Plausible bugs: find_low_index moving right on equality; mid one past
\* the midpoint; high not moved below mid.
StepLowInclusive(s) ==
    /\ pc[s] = "loop" /\ low[s] <= high[s]
    /\ LET goRight == IF s = "low" THEN At(mid[s]) <= key ELSE At(mid[s]) <= key
           lo == IF goRight THEN mid[s] + 1 ELSE low[s]
           hi == IF goRight THEN high[s] ELSE mid[s] - 1
       IN  /\ low' = [low EXCEPT ![s] = lo]
           /\ high' = [high EXCEPT ![s] = hi]
           /\ mid' = [mid EXCEPT ![s] = lo + Half(hi - lo)]
    /\ UNCHANGED <<arr, key, ret, pc>>

StepMidPastMiddle(s) ==
    /\ pc[s] = "loop" /\ low[s] <= high[s]
    /\ LET goRight == IF s = "low" THEN At(mid[s]) < key ELSE At(mid[s]) <= key
           lo == IF goRight THEN mid[s] + 1 ELSE low[s]
           hi == IF goRight THEN high[s] ELSE mid[s] - 1
       IN  /\ low' = [low EXCEPT ![s] = lo]
           /\ high' = [high EXCEPT ![s] = hi]
           /\ mid' = [mid EXCEPT ![s] = lo + Half(hi - lo) + 1]
    /\ UNCHANGED <<arr, key, ret, pc>>

StepHighStuck(s) ==
    /\ pc[s] = "loop" /\ low[s] <= high[s]
    /\ LET goRight == IF s = "low" THEN At(mid[s]) < key ELSE At(mid[s]) <= key
           lo == IF goRight THEN mid[s] + 1 ELSE low[s]
           hi == IF goRight THEN high[s] ELSE mid[s]
       IN  /\ low' = [low EXCEPT ![s] = lo]
           /\ high' = [high EXCEPT ![s] = hi]
           /\ mid' = [mid EXCEPT ![s] = lo + Half(hi - lo)]
    /\ UNCHANGED <<arr, key, ret, pc>>

\* One iteration of the loop of search s: low moves past mid while the
\* element there is below the key (find_low_index) or at most the key
\* (find_high_index); else high moves below mid; mid is recomputed.
Step(s) ==
    /\ pc[s] = "loop" /\ low[s] <= high[s]
    /\ LET goRight == IF s = "low" THEN At(mid[s]) < key ELSE At(mid[s]) <= key
           lo == IF goRight THEN mid[s] + 1 ELSE low[s]
           hi == IF goRight THEN high[s] ELSE mid[s] - 1
       IN  /\ low' = [low EXCEPT ![s] = lo]
           /\ high' = [high EXCEPT ![s] = hi]
           /\ mid' = [mid EXCEPT ![s] = lo + Half(hi - lo)]
    /\ UNCHANGED <<arr, key, ret, pc>>

\* find_low_index after its loop: low is the answer if it holds the key.
LowResult ==
    /\ pc["low"] = "loop" /\ low["low"] > high["low"]
    /\ ret' = [ret EXCEPT !["low"] =
                 IF low["low"] < Len(arr) /\ At(low["low"]) = key
                 THEN low["low"] ELSE -1]
    /\ pc' = [pc EXCEPT !["low"] = "done"]
    /\ UNCHANGED <<arr, key, low, high, mid>>

\* find_high_index after its loop: -1 if high fell off the front, else high
\* if it holds the key.
HighResult ==
    /\ pc["high"] = "loop" /\ low["high"] > high["high"]
    /\ ret' = [ret EXCEPT !["high"] =
                 IF high["high"] = -1 THEN -1
                 ELSE IF high["high"] < Len(arr) /\ At(high["high"]) = key
                 THEN high["high"] ELSE -1]
    /\ pc' = [pc EXCEPT !["high"] = "done"]
    /\ UNCHANGED <<arr, key, low, high, mid>>

Next == (\E s \in Searches : Step(s)) \/ LowResult \/ HighResult

Spec == Init /\ [][Next]_vars /\ WF_vars(Next)

-----------------------------------------------------------------------------
TypeOK ==
    /\ arr \in Seq(Values) /\ key \in Keys
    /\ low \in [Searches -> 0..MaxLen] /\ high \in [Searches -> -1..MaxLen - 1]
    /\ mid \in [Searches -> -1..MaxLen] /\ ret \in [Searches -> -1..MaxLen - 1]
    /\ pc \in [Searches -> {"loop", "done"}]

Indices(k) == {i \in 0..Len(arr) - 1 : At(i) = k}

\* Together the two searches bracket the key: find_low_index returns its
\* first index, find_high_index its last, both -1 exactly when it is absent.
BracketsKey ==
    pc = [s \in Searches |-> "done"] =>
        IF Indices(key) = {} THEN ret = [s \in Searches |-> -1]
        ELSE /\ ret["low"] = Min(Indices(key))
             /\ ret["high"] = Max(Indices(key))

\* While a loop runs, mid is the midpoint of [low, high] and never indexes
\* outside the array (arr[mid] raises no IndexError).
MidInBounds ==
    \A s \in Searches :
        (pc[s] = "loop" /\ low[s] <= high[s]) => mid[s] \in 0..Len(arr) - 1

\* Both searches return.
Terminates == <>(pc = [s \in Searches |-> "done"])

=============================================================================
