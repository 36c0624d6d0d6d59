------------------------------ MODULE LineSpec -------------------------------
(***************************************************************************)
(* What readline promises its caller: the line the user composed by typing *)
(* characters at its end and erasing them from its end, at most MaxLine    *)
(* characters of it, or no line when the console fails.  Readline keeps    *)
(* the line in a static C buffer; Monitor shows that it implements this.   *)
(***************************************************************************)
EXTENDS Naturals, Sequences

CONSTANTS Char, MaxLine

VARIABLES
  editing,   \* a line is being read
  line,      \* the line so far
  answer     \* {the line handed to the caller}, or {}

vars == <<editing, line, answer>>

Init == ~editing /\ line = << >> /\ answer = {}

Begin  == ~editing /\ editing' /\ line' = << >> /\ answer' = {}
Type   == /\ editing /\ Len(line) < MaxLine
          /\ \E c \in Char : line' = Append(line, c)
          /\ UNCHANGED <<editing, answer>>
Erase  == /\ editing /\ line # << >>
          /\ line' = SubSeq(line, 1, Len(line) - 1)
          /\ UNCHANGED <<editing, answer>>
Finish == editing /\ ~editing' /\ answer' = {line} /\ line' = << >>
Fail   == editing /\ ~editing' /\ answer' = {} /\ line' = << >>
Take   == ~editing /\ answer' = {} /\ UNCHANGED <<editing, line>>

Next == Begin \/ Type \/ Erase \/ Finish \/ Fail \/ Take

Spec == Init /\ [][Next]_vars
=============================================================================
