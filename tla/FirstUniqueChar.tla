--------------------------- MODULE FirstUniqueChar ---------------------------
(***************************************************************************)
(* base/find_first_unique_char.py: a loop counting each character into    *)
(* the dict frequ, then a loop over the indices returning the first whose *)
(* character was counted once.  frequ is a function whose DOMAIN is the   *)
(* dict's keys.  i is the first loop's position (1-based) and then the    *)
(* second loop's index (0-based, as in range(len(strInput))).            *)
(***************************************************************************)
EXTENDS Integers, Sequences, SequencesExt

CONSTANTS Alphabet,  \* the characters
          MaxLen     \* longest input string

VARIABLES strInput, frequ, i, ret, pc
vars == <<strInput, frequ, i, ret, pc>>

Init ==
    /\ strInput \in BoundedSeq(Alphabet, MaxLen)
    /\ frequ = [c \in {} |-> 0] /\ i = 1 /\ ret = -1 /\ pc = "count"

\* A plausible bug: a new key starts at 0 instead of 1.
CountFromZero ==
    /\ pc = "count" /\ i <= Len(strInput)
    /\ LET c == strInput[i]
       IN  frequ' = IF c \notin DOMAIN frequ THEN frequ @@ (c :> 0)
                    ELSE [frequ EXCEPT ![c] = @ + 1]
    /\ i' = i + 1
    /\ UNCHANGED <<strInput, ret, pc>>

\* Lines 7-12: frequ[c] = 1 for a new key, else frequ[c] += 1.
Count ==
    /\ pc = "count" /\ i <= Len(strInput)
    /\ LET c == strInput[i]
       IN  frequ' = IF c \notin DOMAIN frequ THEN frequ @@ (c :> 1)
                    ELSE [frequ EXCEPT ![c] = @ + 1]
    /\ i' = i + 1
    /\ UNCHANGED <<strInput, ret, pc>>

EndCount ==
    /\ pc = "count" /\ i > Len(strInput)
    /\ i' = 0 /\ pc' = "scan"
    /\ UNCHANGED <<strInput, frequ, ret>>

\* Lines 14-16: one index of the second loop.
Scan ==
    /\ pc = "scan" /\ i < Len(strInput)
    /\ IF frequ[strInput[i + 1]] = 1
       THEN ret' = i /\ pc' = "done" /\ UNCHANGED i
       ELSE i' = i + 1 /\ UNCHANGED <<ret, pc>>
    /\ UNCHANGED <<strInput, frequ>>

\* Line 18: no character occurs once.
NotFound ==
    /\ pc = "scan" /\ i >= Len(strInput)
    /\ ret' = -1 /\ pc' = "done"
    /\ UNCHANGED <<strInput, frequ, i>>

Next == Count \/ EndCount \/ Scan \/ NotFound

Spec == Init /\ [][Next]_vars

-----------------------------------------------------------------------------
\* How often c occurs in s.
Occurrences(s, c) == Cardinality({k \in 1..Len(s) : s[k] = c})

\* The file's header: the index of the first character that does not
\* repeat anywhere in the string, -1 if there is none.
FirstUnique(s) ==
    LET u == {k \in 1..Len(s) : Occurrences(s, s[k]) = 1}
    IN  IF u = {} THEN -1 ELSE Min(u) - 1

\* find_first_unique_char returns the index of the first non-repeating
\* character, counting a repeat after the index as well as before it.
ReturnsFirstUnique == pc = "done" => ret = FirstUnique(strInput)

=============================================================================
