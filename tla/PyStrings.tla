------------------------------ MODULE PyStrings ------------------------------
(***************************************************************************)
(* Python's str.split() on a string modelled as a sequence of characters, *)
(* Space standing for ' ' (the only whitespace the scripts produce).      *)
(***************************************************************************)
EXTENDS Integers, Sequences, SequencesExt

CONSTANT Space      \* ' '

\* A plausible bug: sentence.split(' '), which yields an empty word between
\* two adjacent spaces and at either end.
split_on_space(s) ==
    FoldLeft(LAMBDA ws, c : IF c = Space THEN Append(ws, <<>>)
                            ELSE [ws EXCEPT ![Len(ws)] = Append(@, c)],
             <<<<>>>>, s)

\* str.split(): the maximal runs of characters other than spaces.
RECURSIVE split(_)
split(s) ==
    IF s = <<>> THEN <<>>
    ELSE IF Head(s) = Space THEN split(Tail(s))
    ELSE LET n == CHOOSE n \in 1..Len(s) :
                      /\ \A i \in 1..n : s[i] # Space
                      /\ n = Len(s) \/ s[n + 1] = Space
         IN  <<SubSeq(s, 1, n)>> \o split(SubSeq(s, n + 1, Len(s)))

=============================================================================
