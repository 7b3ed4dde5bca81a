----------------------------- MODULE ReplaceNone -----------------------------
(***************************************************************************)
(* base/replace_none.py: replace_none_with_recent(val), one action per    *)
(* iteration of its loop.  valid is the last value that was not None, 0   *)
(* before there is one.                                                   *)
(***************************************************************************)
EXTENDS Integers, Sequences, SequencesExt

CONSTANTS Values,   \* the integers of val
          MaxLen,   \* longest val
          None

VARIABLES val, res, valid, i, pc
vars == <<val, res, valid, i, pc>>

Init ==
    /\ val \in BoundedSeq(Values \cup {None}, MaxLen)
    /\ res = <<>> /\ valid = 0 /\ i = 1 /\ pc = "loop"

\* A plausible bug: `valid = v` left out.
StepKeepsValid ==
    /\ pc = "loop" /\ i <= Len(val)
    /\ res' = Append(res, IF val[i] = None THEN valid ELSE val[i])
    /\ i' = i + 1
    /\ UNCHANGED <<val, valid, pc>>

\* Lines 6-11: None becomes valid; any other value is kept and remembered.
Step ==
    /\ pc = "loop" /\ i <= Len(val)
    /\ IF val[i] = None
       THEN res' = Append(res, valid) /\ UNCHANGED valid
       ELSE res' = Append(res, val[i]) /\ valid' = val[i]
    /\ i' = i + 1
    /\ UNCHANGED <<val, pc>>

Return ==
    /\ pc = "loop" /\ i > Len(val)
    /\ pc' = "done"
    /\ UNCHANGED <<val, res, valid, i>>

Next == Step \/ Return

Spec == Init /\ [][Next]_vars

-----------------------------------------------------------------------------
\* The value of the nearest position before j that holds a value, 0 when
\* none does.
Recent(s, j) ==
    LET before == {k \in 1..j - 1 : s[k] # None}
    IN  IF before = {} THEN 0 ELSE s[Max(before)]

\* The returned list is val with each None replaced by the most recent
\* value before it (0 when none precedes it), however many Nones are in a
\* row, and every other position left as it was.
ReplacesWithRecent ==
    pc = "done" =>
        /\ Len(res) = Len(val)
        /\ \A j \in 1..Len(val) :
              res[j] = IF val[j] = None THEN Recent(val, j) ELSE val[j]

=============================================================================
