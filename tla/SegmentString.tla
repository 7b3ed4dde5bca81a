---------------------------- MODULE SegmentString ----------------------------
(***************************************************************************)
(* string/segment_string.py: check_segment_string(s, dictionary), one     *)
(* action per iteration of its loop over the split point i.  Strings are  *)
(* sequences over a small alphabet; the dictionary is any set of words.   *)
(***************************************************************************)
EXTENDS Naturals, Sequences, SequencesExt

CONSTANTS Alphabet,  \* the characters
          MaxLen,    \* longest input string
          MaxWord,   \* longest dictionary word
          None       \* what a Python function returns without a return

Strings == BoundedSeq(Alphabet, MaxLen)
Words == BoundedSeq(Alphabet, MaxWord) \ {<<>>}

\* s[i:] in Python: the characters after the first i.
Rest(str, i) == SubSeq(str, i + 1, Len(str))

\* The function kept in the file's docstring (lines 10-18): it also tries
\* to segment the second part recursively.
RECURSIVE can_segment_string(_, _)
can_segment_string(str, dict) ==
    \E i \in 1..Len(str) :
        /\ SubSeq(str, 1, i) \in dict
        /\ \/ Rest(str, i) = <<>>
           \/ Rest(str, i) \in dict
           \/ can_segment_string(Rest(str, i), dict)

VARIABLES s, dictionary, i, ret, pc
vars == <<s, dictionary, i, ret, pc>>

Init ==
    /\ s \in Strings /\ dictionary \in SUBSET Words
    /\ i = 1 /\ ret = FALSE /\ pc = "loop"

\* A plausible bug: the test of the first word left out.
IterateNoFirstCheck ==
    /\ pc = "loop" /\ i <= Len(s)
    /\ IF Rest(s, i) = <<>> \/ Rest(s, i) \in dictionary
       THEN ret' = TRUE /\ pc' = "done" /\ UNCHANGED i
       ELSE i' = i + 1 /\ UNCHANGED <<ret, pc>>
    /\ UNCHANGED <<s, dictionary>>

\* One iteration: first = s[:i]; return True when it is a word and the
\* rest is empty or a word.
Iterate ==
    /\ pc = "loop" /\ i <= Len(s)
    /\ IF /\ SubSeq(s, 1, i) \in dictionary
          /\ Rest(s, i) = <<>> \/ Rest(s, i) \in dictionary
       THEN ret' = TRUE /\ pc' = "done" /\ UNCHANGED i
       ELSE i' = i + 1 /\ UNCHANGED <<ret, pc>>
    /\ UNCHANGED <<s, dictionary>>

Exit ==
    /\ pc = "loop" /\ i > Len(s)
    /\ ret' = FALSE /\ pc' = "done"
    /\ UNCHANGED <<s, dictionary, i>>

Next == Iterate \/ Exit

Spec == Init /\ [][Next]_vars

-----------------------------------------------------------------------------
TypeOK ==
    /\ s \in Strings /\ dictionary \in SUBSET Words
    /\ i \in 1..MaxLen + 1 /\ ret \in BOOLEAN /\ pc \in {"loop", "done"}

\* Whenever check_segment_string answers True, the string really is a
\* concatenation of dictionary words.
TrueIsSound == pc = "done" /\ ret => can_segment_string(s, dictionary)

\* The file's header describes the recursive segmentation: the function
\* should answer it for every string.
AgreesWithHeader == pc = "done" => ret = can_segment_string(s, dictionary)

=============================================================================
