---------------------------- MODULE BalancedBraces ----------------------------
(***************************************************************************)
(* amz/print_balanced_brace.py.  print_all_braces_rec recurses with one   *)
(* list `output` shared by every call: a call appends a brace, recurses,  *)
(* and pops it.  The recursion is an explicit stack of frames            *)
(* [left, right, at], `at` being where the frame resumes.  Open and Close *)
(* stand for the characters '{' and '}'.  result holds list objects: a   *)
(* copy is its contents, OutputList is the shared list itself.           *)
(***************************************************************************)
EXTENDS Integers, Sequences, SequencesExt

CONSTANTS MaxN, Open, Close,
          OutputList   \* the list object `output`, as an element of result

VARIABLES n, output, result, stack
vars == <<n, output, result, stack>>

Frame(l, r) == [left |-> l, right |-> r, at |-> "check"]
Top == Last(stack)
\* The top frame, to resume at a.
Resume(a) == [stack EXCEPT ![Len(stack)].at = a]

\* print_all_braces(n): output = [], result = [], the first call.
Init ==
    /\ n \in 0..MaxN
    /\ output = <<>> /\ result = <<>> /\ stack = <<Frame(0, 0)>>

\* A plausible bug: only the left count tested before copying.
CheckLeftOnly ==
    /\ stack # <<>> /\ Top.at = "check"
    /\ result' = IF Top.left >= n THEN Append(result, output) ELSE result
    /\ stack' = Resume("left")
    /\ UNCHANGED <<n, output>>

\* A plausible bug: result.append(output) without copy.copy, which puts
\* the shared list itself into result.
CheckNoCopy ==
    /\ stack # <<>> /\ Top.at = "check"
    /\ result' = IF Top.left >= n /\ Top.right >= n
                 THEN Append(result, OutputList) ELSE result
    /\ stack' = Resume("left")
    /\ UNCHANGED <<n, output>>

\* Lines 17-18: a full string is copied into result.
Check ==
    /\ stack # <<>> /\ Top.at = "check"
    /\ result' = IF Top.left >= n /\ Top.right >= n
                 THEN Append(result, output) ELSE result
    /\ stack' = Resume("left")
    /\ UNCHANGED <<n, output>>

\* Lines 20-22: output += '{' and the call with left_count + 1.
Left ==
    /\ stack # <<>> /\ Top.at = "left"
    /\ IF Top.left < n
       THEN /\ output' = Append(output, Open)
            /\ stack' = Append(Resume("right"), Frame(Top.left + 1, Top.right))
       ELSE stack' = Resume("right") /\ UNCHANGED output
    /\ UNCHANGED <<n, result>>

\* Lines 25-27: output += '}' and the call with right_count + 1.
Right ==
    /\ stack # <<>> /\ Top.at = "right"
    /\ IF Top.right < Top.left
       THEN /\ output' = Append(output, Close)
            /\ stack' = Append(Resume("end"), Frame(Top.left, Top.right + 1))
       ELSE stack' = Resume("end") /\ UNCHANGED output
    /\ UNCHANGED <<n, result>>

\* A plausible bug: the caller's output.pop() left out.
ReturnNoPop ==
    /\ stack # <<>> /\ Top.at = "end"
    /\ stack' = Front(stack)
    /\ UNCHANGED <<n, output, result>>

\* A call returns, and its caller runs output.pop() (lines 23, 28).
Return ==
    /\ stack # <<>> /\ Top.at = "end"
    /\ stack' = Front(stack)
    /\ output' = IF Len(stack) > 1 THEN Front(output) ELSE output
    /\ UNCHANGED <<n, result>>

Next == Check \/ Left \/ Right \/ Return

Spec == Init /\ [][Next]_vars /\ WF_vars(Next)

-----------------------------------------------------------------------------
Braces == {Open, Close}
Frames == [left : 0..MaxN, right : 0..MaxN, at : {"check", "left", "right", "end"}]

TypeOK ==
    /\ n \in 0..MaxN /\ output \in Seq(Braces) /\ Len(output) <= 2 * MaxN
    /\ result \in Seq(Seq(Braces))
    /\ stack \in Seq(Frames) /\ Len(stack) <= 2 * MaxN + 1

\* The shared list always spells the braces of the calls on the stack:
\* one brace per call below the top, '{' exactly where the callee has
\* one more left brace than its caller.
OutputFollowsStack ==
    stack # <<>> =>
        /\ Len(output) = Len(stack) - 1
        /\ \A i \in 1..Len(output) :
              output[i] = IF stack[i + 1].left > stack[i].left THEN Open ELSE Close

\* Rank of a brace in the order the code tries them.
Rank(c) == IF c = Open THEN 0 ELSE 1
Before(p, q) ==
    \E i \in 1..Len(p) : SubSeq(p, 1, i - 1) = SubSeq(q, 1, i - 1)
                         /\ Rank(p[i]) < Rank(q[i])
\* The strings of n '{' and n '}' in which no prefix closes more than it opens.
Balanced(m) ==
    {s \in [1..2 * m -> Braces] :
        \A i \in 0..2 * m :
            LET c(x) == Cardinality({j \in 1..i : s[j] = x})
            IN  c(Close) <= c(Open) /\ (i = 2 * m => c(Open) = m)}

\* The strings result holds, read as the caller reads them.
Strings == [i \in DOMAIN result |->
               IF result[i] = OutputList THEN output ELSE result[i]]

\* print_all_braces returns, and then result lists every balanced string of
\* n pairs once, '{' tried before '}', each entry a list of its own that
\* the later pushes and pops on output do not change.
ResultIsAllBalanced ==
    <>[](/\ stack = <<>> /\ ToSet(Strings) = Balanced(n)
         /\ \A i \in 1..Len(result) - 1 : Before(Strings[i], Strings[i + 1]))

=============================================================================
