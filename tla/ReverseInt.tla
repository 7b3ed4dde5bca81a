------------------------------ MODULE ReverseInt ------------------------------
(***************************************************************************)
(* base/reverse_int.py: reverse_integer(input) goes through the decimal   *)
(* string.  str() is modelled as the sequence of digits, preceded by the  *)
(* model value Minus for a negative number; int() reads such a sequence   *)
(* back, leading zeros included.                                          *)
(***************************************************************************)
EXTENDS Integers, Sequences, SequencesExt

CONSTANTS MaxAbs,   \* largest |input|
          Minus,    \* the character '-'
          None      \* the result before the call returns

\* The decimal digits of m >= 0, most significant first; str(0) = "0".
RECURSIVE Digits(_)
Digits(m) == IF m < 10 THEN <<m>> ELSE Digits(m \div 10) \o <<m % 10>>

str(x) == IF x < 0 THEN <<Minus>> \o Digits(-x) ELSE Digits(x)

\* int() of a string of digits.
int(ds) == FoldLeft(LAMBDA acc, d : 10 * acc + d, 0, ds)

\* s[:stop:-1]: the characters from the last down to index stop + 1.
SliceBack(s, stop) == [j \in 1..Len(s) - 1 - stop |-> s[Len(s) + 1 - j]]

\* A plausible bug: res[:1:-1], which also drops the first digit.
reverse_integer_short(input) ==
    LET res == str(input)
    IN  IF res[1] = Minus THEN -int(SliceBack(res, 1)) ELSE int(Reverse(res))

\* Lines 7-14: int('-' + res[:0:-1]) for a negative input, else
\* int(res[::-1]).
reverse_integer(input) ==
    LET res == str(input)
    IN  IF res[1] = Minus THEN -int(SliceBack(res, 0)) ELSE int(Reverse(res))

VARIABLES input, ret
vars == <<input, ret>>

Init == input \in -MaxAbs..MaxAbs /\ ret = None

Call ==
    /\ ret = None
    /\ ret' = reverse_integer(input)
    /\ UNCHANGED input

Next == Call

Spec == Init /\ [][Next]_vars

-----------------------------------------------------------------------------
\* The digits of m >= 0 reversed, by arithmetic alone.
RECURSIVE RevDigits(_, _)
RevDigits(m, acc) ==
    IF m = 0 THEN acc ELSE RevDigits(m \div 10, 10 * acc + (m % 10))

\* reverse_integer keeps the sign and reverses the digits of |input|: the
\* slicing around the '-' drops the sign and no digit, and trailing zeros
\* of input vanish as leading zeros of the result.
ReversesDigits ==
    ret # None =>
        ret = IF input < 0 THEN -RevDigits(-input, 0) ELSE RevDigits(input, 0)

=============================================================================
