--------------------------- MODULE MatchUnmatchWords ---------------------------
(***************************************************************************)
(* base/find_match_unmatch_words.py: find_match_unmatch_words(s1, s2)     *)
(* splits both sentences into sets of words and returns the sorted words  *)
(* of set1 ^ set2 and of set1 & set2.  Letters are small integers, so     *)
(* sorted() can compare words the way Python compares strings.            *)
(***************************************************************************)
EXTENDS PyStrings

CONSTANTS Letters,  \* the characters of words, ordered as integers
          MaxLen,   \* longest sentence
          None      \* the result before the call returns

\* Python's str <: the first differing character decides, and a proper
\* prefix is the smaller.
RECURSIVE StrLess(_, _)
StrLess(a, b) ==
    CASE b = <<>> -> FALSE
      [] a = <<>> -> TRUE
      [] Head(a) # Head(b) -> Head(a) < Head(b)
      [] OTHER -> StrLess(Tail(a), Tail(b))

\* sorted(list(S)) for a set of words.
sorted(S) == SetToSortSeq(S, StrLess)

\* A plausible bug: set1 | set2 for the words in one sentence only.
find_match_unmatch_words_union(sentence1, sentence2) ==
    LET set1 == ToSet(split(sentence1))
        set2 == ToSet(split(sentence2))
    IN  <<sorted(set1 \cup set2), sorted(set1 \cap set2)>>

\* Lines 8-12: set(sentence.split()) for each, then ^ and &, sorted.
find_match_unmatch_words(sentence1, sentence2) ==
    LET set1 == ToSet(split(sentence1))
        set2 == ToSet(split(sentence2))
    IN  <<sorted((set1 \ set2) \cup (set2 \ set1)), sorted(set1 \cap set2)>>

VARIABLES sentence1, sentence2, ret
vars == <<sentence1, sentence2, ret>>

Init ==
    /\ sentence1 \in BoundedSeq(Letters \cup {Space}, MaxLen)
    /\ sentence2 \in BoundedSeq(Letters \cup {Space}, MaxLen)
    /\ ret = None

Call ==
    /\ ret = None
    /\ ret' = find_match_unmatch_words(sentence1, sentence2)
    /\ UNCHANGED <<sentence1, sentence2>>

Next == Call

Spec == Init /\ [][Next]_vars

-----------------------------------------------------------------------------
\* w stands in s between spaces or the ends of s.
Occurs(w, s) ==
    \E i \in 1..Len(s) - Len(w) + 1 :
        /\ SubSeq(s, i, i + Len(w) - 1) = w
        /\ i = 1 \/ s[i - 1] = Space
        /\ i + Len(w) - 1 = Len(s) \/ s[i + Len(w)] = Space

\* The non-empty runs of letters of either sentence.
Words ==
    {w \in UNION {{SubSeq(s, i, j) : i, j \in 1..Len(s)} : s \in {sentence1, sentence2}} :
        w # <<>> /\ \A k \in DOMAIN w : w[k] # Space}

\* The first list holds, ascending and once each, the words of exactly one
\* sentence, the second those of both; repeats within a sentence and runs
\* of several spaces change nothing.
SplitsAndCompares ==
    ret # None =>
        /\ ToSet(ret[1]) = {w \in Words : Occurs(w, sentence1) # Occurs(w, sentence2)}
        /\ ToSet(ret[2]) = {w \in Words : Occurs(w, sentence1) /\ Occurs(w, sentence2)}
        /\ \A r \in 1..2 : \A i \in 1..Len(ret[r]) - 1 : StrLess(ret[r][i], ret[r][i + 1])

=============================================================================
