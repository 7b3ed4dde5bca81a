--------------------------- MODULE AverageWordLength ---------------------------
(***************************************************************************)
(* base/average_word_length.py: average_word_length(sentence) replaces    *)
(* each of "?.,!;" by a space, splits on whitespace and returns           *)
(* round(total letters / words, 2).  A sentence is a sequence of          *)
(* characters: letters, the punctuation the loop replaces, and Space.     *)
(* The result is kept in hundredths; a sentence without a word raises     *)
(* ZeroDivisionError.  The two prints are output only.                    *)
(***************************************************************************)
EXTENDS PyStrings

CONSTANTS Letters,          \* characters that are part of words
          Punctuation,      \* the characters of "?.,!;"
          MaxLen,           \* longest sentence
          None,             \* the result before the call returns
          ZeroDivisionError

Chars == Letters \cup Punctuation \cup {Space}

\* Lines 8-9: for c in "?.,!;": sentence = sentence.replace(c, ' ').
Unpunctuate(s) == [i \in DOMAIN s |-> IF s[i] \in Punctuation THEN Space ELSE s[i]]

\* round(a / b, 2) in hundredths: the nearest, a tie to the even one.
Round2(a, b) ==
    LET q == (100 * a) \div b
        r == (100 * a) % b
    IN  IF 2 * r > b \/ (2 * r = b /\ q % 2 = 1) THEN q + 1 ELSE q

\* Lines 7-14: the division raises on an empty word list.
average_word_length(sentence) ==
    LET words == split(Unpunctuate(sentence))   \* line 10
        total == FoldSeq(LAMBDA w, acc : Len(w) + acc, 0, words)
    IN  IF words = <<>> THEN ZeroDivisionError ELSE Round2(total, Len(words))

VARIABLES sentence, ret
vars == <<sentence, ret>>

Init == sentence \in BoundedSeq(Chars, MaxLen) /\ ret = None

Call ==
    /\ ret = None
    /\ ret' = average_word_length(sentence)
    /\ UNCHANGED sentence

Next == Call

Spec == Init /\ [][Next]_vars

-----------------------------------------------------------------------------
\* Positions holding a letter, and those where a word starts.
LetterCount == Cardinality({i \in DOMAIN sentence : sentence[i] \in Letters})
WordStarts ==
    Cardinality({i \in DOMAIN sentence :
                    sentence[i] \in Letters /\ (i = 1 \/ sentence[i - 1] \notin Letters)})

\* average_word_length returns the letters per word, rounded, where a word
\* is a maximal run of letters however many spaces and punctuation marks
\* separate it from the next; a sentence of punctuation and spaces only
\* raises ZeroDivisionError.
AveragesWords ==
    ret # None =>
        ret = IF WordStarts = 0 THEN ZeroDivisionError
              ELSE Round2(LetterCount, WordStarts)

=============================================================================
