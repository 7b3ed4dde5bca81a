----------------------------- MODULE CoinChange -----------------------------
(***************************************************************************)
(* amz/change_coins.py: solve_coin_change(denominations, amount) fills    *)
(* solution[0..amount] one denomination at a time.  One action per        *)
(* iteration of each loop.                                                *)
(***************************************************************************)
EXTENDS Integers, Sequences, SequencesExt

CONSTANTS Coins,      \* the denominations a caller may pass
          MaxLen,     \* most denominations in one call
          MaxAmount

\* Ways to pay a with any number of each coin of ds, order ignored.
RECURSIVE Ways(_, _)
Ways(ds, a) ==
    IF a = 0 THEN 1
    ELSE IF ds = <<>> THEN 0
    ELSE Ways(Front(ds), a)
         + (IF Last(ds) <= a THEN Ways(ds, a - Last(ds)) ELSE 0)

VARIABLES denominations, amount, solution, d, i, ret, pc
vars == <<denominations, amount, solution, d, i, ret, pc>>

\* Lines 7-8: solution = [0] * (amount + 1); solution[0] = 1.
Init ==
    /\ denominations \in
          {s \in BoundedSeq(Coins, MaxLen) : Len(s) = Cardinality(ToSet(s))}
    /\ amount \in 0..MaxAmount
    /\ solution = [x \in 0..amount |-> IF x = 0 THEN 1 ELSE 0]
    /\ d = 1 /\ i = 0 /\ ret = 0 /\ pc = "outer"

\* for den in denominations: for i in range(den, amount + 1)
Outer ==
    /\ pc = "outer" /\ d <= Len(denominations)
    /\ i' = denominations[d] /\ pc' = "inner"
    /\ UNCHANGED <<denominations, amount, solution, d, ret>>

\* A plausible bug: `=` written for `+=`.
InnerAssigns ==
    /\ pc = "inner" /\ i <= amount
    /\ solution' = [solution EXCEPT ![i] = solution[i - denominations[d]]]
    /\ i' = i + 1
    /\ UNCHANGED <<denominations, amount, d, ret, pc>>

\* solution[i] += solution[i - den]
Inner ==
    /\ pc = "inner" /\ i <= amount
    /\ solution' = [solution EXCEPT ![i] = @ + solution[i - denominations[d]]]
    /\ i' = i + 1
    /\ UNCHANGED <<denominations, amount, d, ret, pc>>

EndInner ==
    /\ pc = "inner" /\ i > amount
    /\ d' = d + 1 /\ pc' = "outer"
    /\ UNCHANGED <<denominations, amount, solution, i, ret>>

\* return solution[len(solution) - 1]
Return ==
    /\ pc = "outer" /\ d > Len(denominations)
    /\ ret' = solution[amount] /\ pc' = "done"
    /\ UNCHANGED <<denominations, amount, solution, d, i>>

Next == Outer \/ Inner \/ EndInner \/ Return

Spec == Init /\ [][Next]_vars /\ WF_vars(Next)

-----------------------------------------------------------------------------
TypeOK ==
    /\ amount \in 0..MaxAmount /\ solution \in [0..amount -> Nat]
    /\ d \in 1..MaxLen + 1 /\ i \in 0..MaxAmount + Max(Coins) /\ ret \in Nat
    /\ pc \in {"outer", "inner", "done"}

\* The table's meaning at every step: an entry left of i counts the ways
\* with the denominations up to the current one, an entry from i on those
\* with the ones before it; the returned value counts the ways with all.
CountsWays ==
    /\ \A x \in 0..amount :
          solution[x] = Ways(SubSeq(denominations, 1,
                                    IF pc = "inner" /\ x < i THEN d ELSE d - 1), x)
    /\ pc = "done" => ret = Ways(denominations, amount)

=============================================================================
