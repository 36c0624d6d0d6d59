---------------------------- MODULE MonitorProofs ----------------------------
(***************************************************************************)
(* For every buffer size, character set, MAXARGS and command table: the    *)
(* screen shows the line that is kept, readline implements LineSpec, parse *)
(* stays on the line and finds the arguments that were typed, and the      *)
(* command that runs is the one the line names.  All rest on the last      *)
(* character of buf, which stays '\0' (LastNul), and on what parse leaves  *)
(* of the line.                                                            *)
(***************************************************************************)
EXTENDS Monitor, TLAPS, SequenceTheorems, WellFoundedInduction

\* No character is ever stored in the last cell, so every string in buf ends.
LastNul == buf[BUFSIZE - 1] = NUL

\* The line being read is made of printable characters.
LineInv == reading => \A k \in 0..(i - 1) : buf[k] \in Printable

\* The monitor waits while readline runs; parse finds the end of the line.
ControlInv ==
  /\ reading => pc = "readline"
  /\ ~reading => i = 0 /\ cursor = 0
  /\ pc \in {"prompt", "readline", "command"} => p = 0
  /\ pc \in {"space", "arg"} =>
       /\ p <= Len(line)
       /\ Len(line) \in Cells
       /\ buf[Len(line)] = NUL

IInv == TypeOK /\ LastNul /\ LineInv /\ ControlInv /\ EchoMatches

USE BufAssumption, CharAssumption, MonitorAssumption

------------------------------------------------------------------------------
(***************************************************************************)
(* C strings.                                                              *)
(***************************************************************************)
\* A non-empty set of natural numbers has a least element.
LEMMA LeastNat ==
  ASSUME NEW T, T \subseteq Nat, T # {}
  PROVE  \E m \in T : \A y \in T : m <= y
<1>1. PICK m \in T : \A y \in T : ~ (<<y, m>> \in OpToRel(<, Nat))
  BY NatLessThanWellFounded, WFMin
<1>2. \A y \in T : ~ (y < m)
  BY <1>1 DEF OpToRel
<1>3. QED
  BY <1>2

\* A string that starts in a buffer whose last cell is '\0' ends in it.
LEMMA StringEnds ==
  ASSUME NEW b \in [Cells -> Printable \cup {NUL}], b[BUFSIZE - 1] = NUL
  PROVE  \E k \in 0..(BUFSIZE - 1 - 0) :
            b[0 + k] = NUL /\ \A j \in 0..(k - 1) : b[0 + j] # NUL
<1> DEFINE T == {k \in Cells : b[k] = NUL}
<1>1. BUFSIZE - 1 \in T /\ T \subseteq Nat
  BY DEF Cells
<1>2. PICK m \in T : \A y \in T : m <= y
  BY <1>1, LeastNat
<1>3. m \in 0..(BUFSIZE - 1) /\ b[m] = NUL
  BY DEF Cells
<1>4. \A j \in 0..(m - 1) : b[j] # NUL
  BY <1>2, <1>3 DEF Cells
<1>5. QED
  BY <1>3, <1>4

\* The string at the start of the buffer: its length and its characters.
LEMMA StringAtStart ==
  ASSUME NEW b \in [Cells -> Printable \cup {NUL}], b[BUFSIZE - 1] = NUL
  PROVE  /\ CString(b, 0) \in Seq(Printable)
         /\ Len(CString(b, 0)) \in Cells
         /\ b[Len(CString(b, 0))] = NUL
<1> DEFINE P(k) == b[0 + k] = NUL /\ \A j \in 0..(k - 1) : b[0 + j] # NUL
           len == CHOOSE k \in 0..(BUFSIZE - 1 - 0) : P(k)
<1>1. len \in 0..(BUFSIZE - 1 - 0) /\ P(len)
  BY StringEnds
<1>2. CString(b, 0) = [k \in 1..len |-> b[0 + k - 1]]
  BY DEF CString
<1> HIDE DEF len
<1>3. \A k \in 1..len : b[0 + k - 1] \in Printable
  <2> SUFFICES ASSUME NEW k \in 1..len PROVE b[0 + k - 1] \in Printable
    OBVIOUS
  <2>1. k - 1 \in Cells /\ k - 1 \in 0..(len - 1) /\ 0 + k - 1 = k - 1 /\ 0 + (k - 1) = k - 1
    BY <1>1 DEF Cells
  <2>2. QED
    BY <1>1, <2>1
<1>4. CString(b, 0) \in Seq(Printable) /\ Len(CString(b, 0)) = len
  <2>1. len \in Nat
    BY <1>1 DEF Cells
  <2>2. CString(b, 0) \in [1..len -> Printable]
    BY <1>2, <1>3
  <2>3. CString(b, 0) \in Seq(Printable)
    BY <2>1, <2>2, SeqDef
  <2>4. 1..len = 1..Len(CString(b, 0)) /\ Len(CString(b, 0)) \in Nat
    BY <2>2, <2>3, LenProperties
  <2>5. QED
    BY <2>1, <2>3, <2>4
<1>5. QED
  BY <1>1, <1>4 DEF Cells

\* A string is determined by its first '\0'.
LEMMA StringIs ==
  ASSUME NEW b \in [Cells -> Printable \cup {NUL}], NEW n \in Cells,
         b[n] = NUL, \A j \in 0..(n - 1) : b[j] \in Printable
  PROVE  CString(b, 0) = [k \in 1..n |-> b[k - 1]]
<1> DEFINE P(k) == b[0 + k] = NUL /\ \A j \in 0..(k - 1) : b[0 + j] # NUL
           len == CHOOSE k \in 0..(BUFSIZE - 1 - 0) : P(k)
<1>1. n \in 0..(BUFSIZE - 1 - 0) /\ P(n)
  BY DEF Cells
<1>2. \A k \in 0..(BUFSIZE - 1 - 0) : P(k) => k = n
  <2> SUFFICES ASSUME NEW k \in 0..(BUFSIZE - 1 - 0), P(k) PROVE k = n
    OBVIOUS
  <2>1. ~(k < n)
    BY <1>1 DEF Cells
  <2>2. ~(n < k)
    BY <1>1 DEF Cells
  <2>3. QED
    BY <2>1, <2>2, <1>1
<1>3. len \in 0..(BUFSIZE - 1 - 0) /\ P(len)
  BY <1>1
<1>4. len = n
  BY <1>2, <1>3
<1>5. CString(b, 0) = [k \in 1..len |-> b[0 + k - 1]]
  BY DEF CString
<1>6. \A k \in 1..n : 0 + k - 1 = k - 1
  BY DEF Cells
<1> HIDE DEF len
<1>7. QED
  BY <1>4, <1>5, <1>6

------------------------------------------------------------------------------
(***************************************************************************)
(* The invariant.                                                          *)
(***************************************************************************)
LEMMA InitInv == Init => IInv
<1> SUFFICES ASSUME Init PROVE IInv
  OBVIOUS
<1>1. reading \in BOOLEAN /\ ~reading
  BY Zenon DEF Init, ReadlineInit
<1>2. argv \in [Args -> Cells] /\ p \in Cells /\ i \in Cells
  BY DEF Init, ReadlineInit, NoArgs, Args, Cells
<1>3. TypeOK
  BY <1>1, <1>2 DEF Init, ReadlineInit, TypeOK, ReadlineTypeOK, Cells
<1>4. LastNul /\ LineInv /\ ControlInv /\ EchoMatches
  BY <1>1 DEF Init, ReadlineInit, LastNul, LineInv, ControlInv, EchoMatches, Cells
<1>5. QED
  BY <1>3, <1>4 DEF IInv

LEMMA KeyStep == ASSUME IInv, Key PROVE IInv'
<1> USE DEF IInv, TypeOK, ReadlineTypeOK, LastNul, LineInv, ControlInv, EchoMatches, Cells,
            monitorVars
<1>1. CASE ReadError
  <2>1. reading' \in BOOLEAN /\ ~reading'
    BY <1>1, Zenon DEF ReadError, Leave
  <2>2. QED
    BY <1>1, <2>1 DEF Key, ReadError, Leave, Blank
<1>2. CASE ReadChar
  BY <1>2 DEF Key, ReadChar
<1>3. CASE DropChar
  BY <1>3 DEF Key, DropChar, readlineVars
<1>4. CASE ReadBackspace
  BY <1>4 DEF Key, ReadBackspace
<1>5. CASE ReadNewline
  <2>1. reading' \in BOOLEAN /\ ~reading'
    BY <1>5, Zenon DEF ReadNewline, Leave
  <2>2. QED
    BY <1>5, <2>1 DEF Key, ReadNewline, Leave, Blank
<1>6. QED
  BY <1>1, <1>2, <1>3, <1>4, <1>5 DEF Key, ReadKey

LEMMA ParseStep == ASSUME IInv, Parse PROVE IInv'
<1> USE DEF IInv, TypeOK, ReadlineTypeOK, LastNul, LineInv, ControlInv, EchoMatches, Cells
<1>0. pc \in {"space", "arg"} /\ ~reading
  BY DEF Parse, SkipSpace, ParseEnds, SaveArg, ScanArg
<1>1. CASE SkipSpace
  <2>1. buf[p] # NUL
    BY <1>1 DEF SkipSpace
  <2>2. p # Len(line) /\ p # BUFSIZE - 1
    BY <1>0, <2>1
  <2>3. QED
    BY <1>0, <1>1, <2>2 DEF SkipSpace
<1>2. CASE ParseEnds
  BY <1>0, <1>2 DEF ParseEnds, readlineVars
<1>3. CASE SaveArg
  <2>1. argc' \in 0..MAXARGS /\ argv' \in [Args -> Cells]
    <3>1. CASE argc < MAXARGS
      <4>1. argc \in Args /\ argc + 1 \in 0..MAXARGS
        BY <3>1 DEF Args
      <4>2. argv' = [argv EXCEPT ![argc] = p] /\ argc' = argc + 1
        BY <1>3, <3>1 DEF SaveArg
      <4>3. QED
        BY <4>1, <4>2
    <3>2. CASE ~(argc < MAXARGS)
      BY <1>3, <3>2 DEF SaveArg
    <3>3. QED
      BY <3>1, <3>2
  <2>2. QED
    BY <1>0, <1>3, <2>1 DEF SaveArg, readlineVars
<1>4. CASE ScanArg
  <2>1. CASE buf[p] \notin WHITESPACE \cup {NUL}
    <3>1. p # Len(line) /\ p # BUFSIZE - 1
      BY <1>0, <2>1
    <3>2. QED
      BY <1>0, <1>4, <2>1, <3>1 DEF ScanArg, readlineVars
  <2>2. CASE ~(buf[p] \notin WHITESPACE \cup {NUL})
    BY <1>0, <1>4, <2>2 DEF ScanArg, readlineVars
  <2>3. QED
    BY <2>1, <2>2
<1>5. QED
  BY <1>1, <1>2, <1>3, <1>4 DEF Parse

LEMMA ReturnedStep == ASSUME IInv, Returned PROVE IInv'
<1> USE DEF IInv, TypeOK, ReadlineTypeOK, LastNul, LineInv, ControlInv, EchoMatches, Cells,
            readlineVars
<1>1. CASE ret = "NULL"
  BY <1>1 DEF Returned
<1>2. CASE ret # "NULL"
  <2>1. /\ CString(buf, 0) \in Seq(Printable)
        /\ Len(CString(buf, 0)) \in Cells
        /\ buf[Len(CString(buf, 0))] = NUL
    BY StringAtStart
  <2>2. PICK s : s = CString(buf, 0)
    OBVIOUS
  <2>3. /\ pc = "readline" /\ ~reading
        /\ pc' = "space" /\ line' = s
        /\ UNCHANGED <<p, argc, argv, depth, ran, readlineVars>>
    BY <1>2, <2>2 DEF Returned
  <2>4. QED
    BY <2>1, <2>2, <2>3
<1>3. QED
  BY <1>1, <1>2

LEMMA Inductive == IInv /\ [Next]_vars => IInv'
<1> SUFFICES ASSUME IInv, [Next]_vars PROVE IInv'
  OBVIOUS
<1> USE DEF IInv, TypeOK, ReadlineTypeOK, LastNul, LineInv, ControlInv, EchoMatches, Cells,
            readlineVars
<1>1. CASE Prompt
  <2>1. reading' \in BOOLEAN
    BY <1>1, Zenon DEF Prompt, CallReadline
  <2>2. i = 0 /\ cursor = 0
    BY <1>1 DEF Prompt, CallReadline
  <2>3. QED
    BY <1>1, <2>1, <2>2 DEF Prompt, CallReadline
<1>2. CASE runcmd
  <2>1. ran' \in 0..Len(Commands)
    <3> DEFINE M == Matching(Arg(0))
    <3>1. M \subseteq DOMAIN Commands /\ DOMAIN Commands = 1..Len(Commands) /\ Len(Commands) \in Nat
      BY DEF Matching
    <3>2. CASE M = {}
      BY <1>2, <3>1, <3>2 DEF runcmd
    <3>3. CASE M # {}
      <4>0. M \subseteq 1..Len(Commands) /\ M \subseteq Nat
        BY <3>1
      <4>1. \E c \in M : \A d \in M : c <= d
        <5> HIDE DEF M
        <5>1. QED
          BY <3>3, <4>0, LeastNat
      <4> DEFINE m == CHOOSE c \in M : \A d \in M : c <= d
      <4>2. m \in M
        <5> HIDE DEF M
        <5>1. QED
          BY <4>1
      <4>3. ran' = 0 \/ ran' = m
        BY <1>2, <3>3 DEF runcmd
      <4> HIDE DEF m, M
      <4>4. QED
        BY <3>1, <4>0, <4>2, <4>3
    <3>4. QED
      BY <3>2, <3>3
  <2>2. argv' \in [Args -> Cells]
    BY <1>2 DEF runcmd, NoArgs
  <2>3. line' \in Seq(Printable)
    BY <1>2 DEF runcmd
  <2>4. pc = "run" /\ pc' \in {"prompt", "command"} /\ p' = 0 /\ argc' = 0
        /\ UNCHANGED <<depth, readlineVars>>
    BY <1>2 DEF runcmd
  <2>5. QED
    BY <2>1, <2>2, <2>3, <2>4
<1>3. CASE mon_info \/ mon_backtrace
  <2>1. /\ pc = "command" /\ pc' = "prompt" /\ line' = << >> /\ ran' = 0
        /\ UNCHANGED <<p, argc, argv, readlineVars>>
    BY <1>3 DEF mon_info, mon_backtrace, print_stackframe, AtPrompt
  <2>2. depth' \in 0..MaxDepth
    BY <1>3 DEF mon_info, mon_backtrace, print_stackframe
  <2>3. 0 \in 0..Len(Commands)
    OBVIOUS
  <2>4. QED
    BY <2>1, <2>2, <2>3
<1>4. CASE Undefined
  BY <1>4 DEF Undefined, vars, monitorVars
<1>5. CASE UNCHANGED vars
  BY <1>5 DEF vars, monitorVars
<1>6. QED
  BY <1>1, <1>2, <1>3, <1>4, <1>5, KeyStep, ParseStep, ReturnedStep DEF Next, Command

\* TypeOK in every behaviour.
THEOREM TypeCorrect == Spec => []TypeOK
<1>1. IInv => TypeOK
  BY DEF IInv
<1>2. QED
  BY InitInv, Inductive, <1>1, PTL DEF Spec

\* The screen shows the line that is kept (readline).
THEOREM EchoIsFaithful == Spec => []EchoMatches
<1>1. IInv => EchoMatches
  BY DEF IInv
<1>2. QED
  BY InitInv, Inductive, <1>1, PTL DEF Spec

\* parse never moves past the end of the line.
THEOREM ParserStops == Spec => []ParserOnLine
<1>1. IInv => ParserOnLine
  BY DEF IInv, ControlInv, ParserOnLine
<1>2. QED
  BY InitInv, Inductive, <1>1, PTL DEF Spec

------------------------------------------------------------------------------
(***************************************************************************)
(* The refinement.  AbsLine and AbsAnswer are what Abstract substitutes.   *)
(***************************************************************************)
AbsLine   == IF reading THEN [k \in 1..i |-> buf[k - 1]] ELSE << >>
AbsAnswer == IF pc = "readline" /\ ~reading /\ ret = "buf" THEN {CString(buf, 0)} ELSE {}

LEMMA AbsLineIsSeq ==
  ASSUME IInv, reading
  PROVE  AbsLine \in Seq(Printable) /\ Len(AbsLine) = i
<1>1. i \in Nat /\ \A k \in 1..i : buf[k - 1] \in Printable
  BY DEF IInv, TypeOK, ReadlineTypeOK, LineInv, Cells
<1>2. AbsLine \in [1..i -> Printable]
  BY <1>1 DEF AbsLine
<1>3. AbsLine \in Seq(Printable)
  BY <1>1, <1>2, SeqDef
<1>4. 1..i = 1..Len(AbsLine) /\ Len(AbsLine) \in Nat
  BY <1>2, <1>3, LenProperties
<1>5. QED
  BY <1>1, <1>3, <1>4

LEMMA KeyRefines == IInv /\ Key => [Abstract!Next]_(Abstract!vars)
<1> SUFFICES ASSUME IInv, Key PROVE [Abstract!Next]_(Abstract!vars)
  OBVIOUS
<1> USE DEF Abstract!vars
<1>0. reading /\ pc = "readline" /\ pc' = "readline" /\ AbsAnswer = {}
  BY DEF Key, ReadKey, ReadError, ReadChar, DropChar, ReadBackspace, ReadNewline, IInv,
         ControlInv, AbsAnswer, monitorVars
<1>1. CASE ReadError
  <2>1. ~reading' /\ ret' = "NULL"
    BY <1>1, Zenon DEF ReadError, Leave
  <2>2. AbsLine' = << >> /\ AbsAnswer' = {}
    BY <2>1 DEF AbsLine, AbsAnswer
  <2>3. Abstract!Fail
    BY <1>0, <2>1, <2>2 DEF Abstract!Fail, AbsLine, AbsAnswer
  <2>4. QED
    BY <2>3 DEF Abstract!Next
<1>2. CASE ReadChar
  <2>1. PICK c \in Printable : buf' = [buf EXCEPT ![i] = c] /\ i' = i + 1
    BY <1>2 DEF ReadChar
  <2>2. i \in Nat /\ i < BUFSIZE - 1 /\ reading' /\ buf \in [Cells -> Printable \cup {NUL}]
    BY <1>0, <1>2 DEF ReadChar, IInv, TypeOK, ReadlineTypeOK, Cells
  <2>3. AbsLine \in Seq(Printable) /\ Len(AbsLine) = i
    BY <1>0, AbsLineIsSeq
  <2>4. AbsLine' = Append(AbsLine, c)
    <3>1. AbsLine' = [k \in 1..(i + 1) |-> buf'[k - 1]]
      BY <2>1, <2>2 DEF AbsLine
    <3>2. AbsLine = [k \in 1..i |-> buf[k - 1]]
      BY <1>0 DEF AbsLine
    <3>3. \A k \in 1..(i + 1) : buf'[k - 1] = IF k = i + 1 THEN c ELSE buf[k - 1]
      BY <2>1, <2>2 DEF Cells
    <3>4. \A k \in 1..i : AbsLine[k] = buf[k - 1]
      BY <2>2, <3>2
    <3>5. /\ Append(AbsLine, c) \in [1..(i + 1) -> Printable]
          /\ \A k \in 1..i : Append(AbsLine, c)[k] = AbsLine[k]
          /\ Append(AbsLine, c)[i + 1] = c
      <4>1. PICK s \in Seq(Printable) : s = AbsLine
        BY <2>3
      <4>2. /\ Append(s, c) \in Seq(Printable)
            /\ Len(Append(s, c)) = i + 1
            /\ \A k \in 1..i : Append(s, c)[k] = s[k]
            /\ Append(s, c)[i + 1] = c
        BY <2>2, <2>3, <4>1, AppendProperties
      <4>3. Append(s, c) \in [1..(i + 1) -> Printable]
        BY <4>2, LenProperties
      <4>4. QED
        BY <4>1, <4>2, <4>3
    <3>6. \A k \in 1..(i + 1) : Append(AbsLine, c)[k] = buf'[k - 1]
      <4>1. \A k \in 1..(i + 1) : k # i + 1 => k \in 1..i
        BY <2>2
      <4>2. QED
        BY <3>3, <3>4, <3>5, <4>1
    <3>7. QED
      BY <3>1, <3>5, <3>6
  <2>5. AbsAnswer' = {}
    BY <2>2 DEF AbsAnswer
  <2>6. Abstract!Type
    BY <1>0, <2>2, <2>3, <2>4, <2>5 DEF Abstract!Type, AbsLine, AbsAnswer
  <2>7. QED
    BY <2>6 DEF Abstract!Next
<1>3. CASE DropChar
  BY <1>0, <1>3 DEF DropChar, readlineVars, AbsLine, AbsAnswer
<1>4. CASE ReadBackspace
  <2>1. /\ i \in Nat /\ i > 0 /\ i' = i - 1 /\ buf' = buf
        /\ reading'
    BY <1>0, <1>4 DEF ReadBackspace, IInv, TypeOK, ReadlineTypeOK, Cells
  <2>2. AbsLine \in Seq(Printable) /\ Len(AbsLine) = i
    BY <1>0, AbsLineIsSeq
  <2>3. AbsLine' = SubSeq(AbsLine, 1, Len(AbsLine) - 1)
    <3>1. AbsLine' = [k \in 1..(i - 1) |-> buf[k - 1]]
      BY <2>1 DEF AbsLine
    <3>2. AbsLine = [k \in 1..i |-> buf[k - 1]]
      BY <1>0 DEF AbsLine
    <3>3. SubSeq(AbsLine, 1, i - 1) = [k \in 1..(i - 1) |-> AbsLine[k]]
      BY <2>1, <2>2
    <3>4. \A k \in 1..(i - 1) : AbsLine[k] = buf[k - 1]
      BY <2>1, <3>2
    <3>5. QED
      BY <2>2, <3>1, <3>3, <3>4
  <2>4. AbsLine # << >>
    BY <2>1, <2>2
  <2>5. AbsAnswer' = {}
    BY <2>1 DEF AbsAnswer
  <2>6. Abstract!Erase
    BY <1>0, <2>1, <2>3, <2>4, <2>5 DEF Abstract!Erase, AbsLine, AbsAnswer
  <2>7. QED
    BY <2>6 DEF Abstract!Next
<1>5. CASE ReadNewline
  <2>1. ~reading' /\ ret' = "buf" /\ buf' = [buf EXCEPT ![i] = NUL]
    BY <1>5, Zenon DEF ReadNewline, Leave
  <2>2. /\ i \in Cells /\ buf \in [Cells -> Printable \cup {NUL}]
        /\ \A k \in 0..(i - 1) : buf[k] \in Printable
    BY <1>0 DEF IInv, TypeOK, ReadlineTypeOK, LineInv
  <2>3. PICK b : b = buf'
    OBVIOUS
  <2>4. /\ b \in [Cells -> Printable \cup {NUL}] /\ b[i] = NUL
        /\ \A k \in 0..(i - 1) : b[k] = buf[k]
    BY <2>1, <2>2, <2>3 DEF Cells
  <2>5. CString(b, 0) = [k \in 1..i |-> b[k - 1]]
    BY <2>2, <2>4, StringIs
  <2>6. \A k \in 1..i : b[k - 1] = buf[k - 1]
    BY <2>2, <2>4 DEF Cells
  <2>7. CString(b, 0) = AbsLine
    BY <1>0, <2>5, <2>6 DEF AbsLine
  <2>8. AbsLine' = << >> /\ AbsAnswer' = {AbsLine}
    <3>1. AbsLine' = << >>
      BY <2>1 DEF AbsLine
    <3>2. AbsAnswer' = {CString(b, 0)}
      BY <1>0, <2>1, <2>3 DEF AbsAnswer, CString
    <3>3. QED
      BY <2>7, <3>1, <3>2
  <2>9. Abstract!Finish
    BY <1>0, <2>1, <2>8 DEF Abstract!Finish, AbsLine, AbsAnswer
  <2>10. QED
    BY <2>9 DEF Abstract!Next
<1>6. QED
  BY <1>1, <1>2, <1>3, <1>4, <1>5 DEF Key, ReadKey

LEMMA StepRefines == IInv /\ [Next]_vars => [Abstract!Next]_(Abstract!vars)
<1> SUFFICES ASSUME IInv, [Next]_vars PROVE [Abstract!Next]_(Abstract!vars)
  OBVIOUS
<1> USE DEF Abstract!vars
<1>1. CASE Prompt
  <2>1. ~reading /\ reading' /\ pc = "prompt"
    BY <1>1, Zenon DEF Prompt, CallReadline
  <2>2. i' = 0
    BY <1>1, <2>1 DEF Prompt, CallReadline, IInv, ControlInv
  <2>3. AbsLine' = << >> /\ AbsAnswer' = {}
    BY <2>1, <2>2 DEF AbsLine, AbsAnswer
  <2>4. Abstract!Begin
    BY <2>1, <2>3 DEF Abstract!Begin, AbsLine, AbsAnswer
  <2>5. QED
    BY <2>4 DEF Abstract!Next
<1>2. CASE Key
  BY <1>2, KeyRefines DEF Abstract!vars
<1>3. CASE Returned
  <2>1. ~reading /\ reading' = reading /\ pc' # "readline"
    BY <1>3 DEF Returned, readlineVars
  <2>2. AbsLine = << >> /\ AbsLine' = << >> /\ AbsAnswer' = {}
    BY <2>1 DEF AbsLine, AbsAnswer
  <2>3. Abstract!Take
    BY <2>1, <2>2 DEF Abstract!Take, AbsLine, AbsAnswer
  <2>4. QED
    BY <2>3 DEF Abstract!Next
<1>4. CASE Parse \/ Command
  <2>1. pc # "readline" /\ pc' # "readline" /\ reading' = reading
    BY <1>4 DEF Parse, SkipSpace, ParseEnds, SaveArg, ScanArg, Command, runcmd,
       mon_info, mon_backtrace, print_stackframe, AtPrompt, readlineVars
  <2>2. ~reading /\ ~reading'
    BY <2>1 DEF IInv, ControlInv
  <2>3. /\ AbsLine = << >> /\ AbsLine' = << >>
        /\ AbsAnswer = {} /\ AbsAnswer' = {}
    BY <2>1, <2>2 DEF AbsLine, AbsAnswer
  <2>4. QED
    BY <2>1, <2>3 DEF AbsLine, AbsAnswer
<1>5. CASE Undefined \/ UNCHANGED vars
  <2>1. UNCHANGED vars
    BY <1>5 DEF Undefined
  <2>2. UNCHANGED <<reading, buf, i, ret, pc>>
    BY <2>1 DEF vars, readlineVars, monitorVars
  <2>3. AbsLine' = AbsLine /\ AbsAnswer' = AbsAnswer
    BY <2>2 DEF AbsLine, AbsAnswer, CString
  <2>4. QED
    BY <2>2, <2>3 DEF AbsLine, AbsAnswer
<1>6. QED
  BY <1>1, <1>2, <1>3, <1>4, <1>5 DEF Next

\* readline implements the line editor: every line the monitor is given is the
\* one that was composed, and no other key sequence changes it.
THEOREM Refinement == Spec => RefinesLineSpec
<1>1. Init => Abstract!Init
  BY Zenon DEF Init, ReadlineInit, Abstract!Init
<1>2. QED
  BY InitInv, Inductive, <1>1, StepRefines, PTL
     DEF Spec, RefinesLineSpec, Abstract!Spec

------------------------------------------------------------------------------
(***************************************************************************)
(* What parse finds and what runcmd runs.  parse works in place, so the    *)
(* invariant relates both halves of buf to the line: what lies before the  *)
(* pointer is cut, what lies after it is as it was typed.                  *)
(***************************************************************************)
\* A position that parse has passed: it has saved the argument that begins there.
Passed(a) == a < p \/ (pc = "arg" /\ a = p)

\* What parse has done to the line, and what it has found in it.
Cut ==
  /\ p <= Len(line) /\ Len(line) \in Cells /\ buf[Len(line)] = NUL
  /\ \A k \in 0..(Len(line) - 1) :
       buf[k] = IF k < p /\ line[k + 1] \in WHITESPACE THEN NUL ELSE line[k + 1]

Found ==
  /\ \A k \in 0..(argc - 1) : argv[k] \in Starts(line) /\ Passed(argv[k])
  /\ \A a \in Starts(line) : Passed(a) => \E k \in 0..(argc - 1) : argv[k] = a
  /\ \A j, k \in 0..(argc - 1) : j < k => argv[j] < argv[k]

\* Where parse looks for an argument, one begins if it is not whitespace.
Boundary == p = 0 \/ p = Len(line) \/ line[p] \in WHITESPACE \/ line[p + 1] \in WHITESPACE

ParseInv ==
  /\ pc \in {"space", "arg", "run"} => Cut /\ Found
  /\ pc = "space" => Boundary
  /\ pc = "run" => p = Len(line)
  /\ pc \in {"prompt", "readline", "command"} => argc = 0
  /\ pc = "command" => Starts(line) # {} /\ Commands[ran] = Name(line)

------------------------------------------------------------------------------
(***************************************************************************)
(* Strings and arguments.                                                  *)
(***************************************************************************)
\* The characters of the buffer b from a up to n, those of the line s.
Chars(b, a, n) == [k \in 1..(n - a) |-> b[a + k - 1]]
Text(s, a, n)  == [k \in 1..(n - a) |-> s[a + k]]

\* The string at address a is what lies before the first '\0' from there on.
LEMMA StringFrom ==
  ASSUME NEW b \in [Cells -> Printable \cup {NUL}], NEW a \in Cells, NEW n \in Cells, a <= n,
         b[n] = NUL, \A j \in a..(n - 1) : b[j] # NUL
  PROVE  CString(b, a) = Chars(b, a, n)
<1> DEFINE P(k) == b[a + k] = NUL /\ \A j \in 0..(k - 1) : b[a + j] # NUL
           len == CHOOSE k \in 0..(BUFSIZE - 1 - a) : P(k)
<1>1. n - a \in 0..(BUFSIZE - 1 - a) /\ a + (n - a) = n
  BY DEF Cells
<1>2. \A j \in 0..(n - a - 1) : a + j \in a..(n - 1)
  BY DEF Cells
<1>3. P(n - a)
  BY <1>1, <1>2
<1>4. \A k \in 0..(BUFSIZE - 1 - a) : P(k) => k = n - a
  <2> SUFFICES ASSUME NEW k \in 0..(BUFSIZE - 1 - a), P(k) PROVE k = n - a
    OBVIOUS
  <2>1. ~(k < n - a)
    <3>1. k < n - a => a + k \in a..(n - 1)
      BY DEF Cells
    <3>2. QED
      BY <3>1
  <2>2. ~(n - a < k)
    <3>1. n - a < k => n - a \in 0..(k - 1)
      BY <1>1 DEF Cells
    <3>2. QED
      BY <1>1, <3>1
  <2>3. QED
    BY <1>1, <2>1, <2>2 DEF Cells
<1>5. len = n - a
  <2>1. len \in 0..(BUFSIZE - 1 - a) /\ P(len)
    BY <1>1, <1>3
  <2>2. QED
    BY <1>4, <2>1
<1>6. CString(b, a) = [k \in 1..len |-> b[a + k - 1]]
  BY DEF CString
<1> HIDE DEF len
<1>7. QED
  BY <1>5, <1>6 DEF Chars

\* The line that readline returns is in the buffer, character by character.
LEMMA StringChars ==
  ASSUME NEW b \in [Cells -> Printable \cup {NUL}], b[BUFSIZE - 1] = NUL
  PROVE  \A k \in 0..(Len(CString(b, 0)) - 1) : b[k] = CString(b, 0)[k + 1]
<1>1. PICK n \in 0..(BUFSIZE - 1 - 0) : b[0 + n] = NUL /\ \A j \in 0..(n - 1) : b[0 + j] # NUL
  BY StringEnds
<1>2. n \in Cells /\ 0 \in Cells /\ 0 <= n /\ b[n] = NUL /\ \A j \in 0..(n - 1) : b[j] # NUL
  BY <1>1 DEF Cells
<1>3. CString(b, 0) = [k \in 1..(n - 0) |-> b[0 + k - 1]]
  <2>1. \A j \in 0..(n - 1) : b[j] # NUL
    BY <1>2
  <2>2. PICK a \in Cells : a = 0 /\ a <= n /\ \A j \in a..(n - 1) : b[j] # NUL
    BY <1>2, <2>1
  <2>3. CString(b, a) = Chars(b, a, n)
    BY <1>2, <2>2, StringFrom
  <2>4. QED
    BY <2>2, <2>3 DEF Chars
<1>4. PICK s : s = CString(b, 0)
  OBVIOUS
<1>5. s \in Seq(Printable) /\ DOMAIN s = 1..n
  BY <1>2, <1>3, <1>4, StringAtStart DEF Cells
<1>6. Len(s) = n
  BY <1>2, <1>5, LenProperties DEF Cells
<1>7. \A k \in 0..(n - 1) : s[k + 1] = b[k]
  <2> SUFFICES ASSUME NEW k \in 0..(n - 1) PROVE s[k + 1] = b[k]
    OBVIOUS
  <2>1. k + 1 \in 1..(n - 0) /\ 0 + (k + 1) - 1 = k
    BY <1>2 DEF Cells
  <2>2. QED
    BY <1>3, <1>4, <2>1
<1>8. QED
  BY <1>4, <1>6, <1>7

\* Every argument ends, at whitespace or with the line, and Token is its text.
LEMMA TokenIs ==
  ASSUME NEW s \in Seq(Printable), NEW a \in Starts(s)
  PROVE  \E e \in (a + 1)..Len(s) :
            /\ e = Len(s) \/ s[e + 1] \in WHITESPACE
            /\ \A k \in (a + 1)..e : s[k] \notin WHITESPACE
            /\ Token(s, a) = Text(s, a, e)
<1> DEFINE End(e) == /\ e = Len(s) \/ s[e + 1] \in WHITESPACE
                     /\ \A k \in (a + 1)..e : s[k] \notin WHITESPACE
           T == {e \in (a + 1)..Len(s) : e = Len(s) \/ s[e + 1] \in WHITESPACE}
           end == CHOOSE e \in (a + 1)..Len(s) : End(e)
<1>1. a \in Nat /\ a < Len(s) /\ Len(s) \in Nat /\ s[a + 1] \notin WHITESPACE
  BY DEF Starts
<1>2. Len(s) \in T /\ T \subseteq Nat
  BY <1>1
<1>3. PICK m \in T : \A y \in T : m <= y
  BY <1>2, LeastNat
<1>4. m \in (a + 1)..Len(s) /\ End(m)
  <2>1. m \in (a + 1)..Len(s) /\ (m = Len(s) \/ s[m + 1] \in WHITESPACE)
    BY <1>3
  <2>2. ASSUME NEW k \in (a + 1)..m PROVE s[k] \notin WHITESPACE
    <3>1. CASE k = a + 1
      BY <1>1, <3>1
    <3>2. CASE k # a + 1
      <4>1. k - 1 \in (a + 1)..Len(s) /\ k - 1 < m /\ (k - 1) + 1 = k /\ k - 1 # Len(s)
        BY <1>1, <2>1, <2>2, <3>2
      <4>2. k - 1 \in T => m <= k - 1
        BY <1>3
      <4>3. ~(m <= k - 1)
        BY <1>1, <2>1, <4>1
      <4>4. QED
        BY <4>1, <4>2, <4>3
    <3>3. QED
      BY <3>1, <3>2
  <2>3. QED
    BY <2>1, <2>2
<1>5. end \in (a + 1)..Len(s) /\ End(end)
  <2> HIDE DEF End
  <2>1. QED
    BY <1>4
<1>6. Token(s, a) = SubSeq(s, a + 1, end)
  BY DEF Token
<1>7. PICK e : e = end
  OBVIOUS
<1> HIDE DEF end
<1>8. e \in (a + 1)..Len(s) /\ End(e) /\ Token(s, a) = SubSeq(s, a + 1, e)
  BY <1>5, <1>6, <1>7
<1>9. SubSeq(s, a + 1, e) = [k \in 1..(e - a) |-> s[a + k]]
  <2>1. PICK t : t = SubSeq(s, a + 1, e)
    OBVIOUS
  <2>2. /\ t \in Seq(Printable) /\ Len(t) = e - a
        /\ \A k \in 1..(e - a) : t[k] = s[a + k]
    <3>1. /\ a + 1 \in Int /\ e \in Int /\ a + 1 <= e
          /\ \A j \in (a + 1)..e : s[j] \in Printable
      BY <1>1, <1>8
    <3>2. /\ t \in Seq(Printable) /\ Len(t) = e - (a + 1) + 1
          /\ \A k \in 1..(e - (a + 1) + 1) : t[k] = s[(a + 1) + k - 1]
      BY <2>1, <3>1, SubSeqProperties
    <3>3. e - (a + 1) + 1 = e - a /\ \A k \in 1..(e - a) : (a + 1) + k - 1 = a + k
      BY <1>1, <3>1
    <3>4. QED
      BY <3>2, <3>3
  <2>3. DOMAIN t = 1..(e - a)
    BY <2>2, LenProperties
  <2>4. t = [k \in DOMAIN t |-> t[k]]
    BY <2>2, LenProperties
  <2>5. QED
    BY <2>1, <2>2, <2>3, <2>4
<1>10. QED
  BY <1>8, <1>9 DEF Text

------------------------------------------------------------------------------
(***************************************************************************)
(* The invariant.                                                          *)
(***************************************************************************)
LEMMA InitParse == Init => ParseInv
BY DEF Init, ParseInv

\* Steps of readline, and the prompt, do not touch the parser.
LEMMA WaitKeeps ==
  ASSUME IInv, ParseInv, Prompt \/ Key
  PROVE  ParseInv'
<1>1. pc' = "readline" /\ argc' = argc /\ pc \in {"prompt", "readline"}
  BY DEF Prompt, Key, ReadKey, ReadError, ReadChar, DropChar, ReadBackspace, ReadNewline,
         monitorVars, IInv, ControlInv
<1>2. QED
  BY <1>1 DEF ParseInv

LEMMA ReturnedParses == ASSUME IInv, ParseInv, Returned PROVE ParseInv'
<1>1. CASE ret = "NULL"
  BY <1>1 DEF Returned, ParseInv
<1>2. CASE ret # "NULL"
  <2>1. buf \in [Cells -> Printable \cup {NUL}] /\ buf[BUFSIZE - 1] = NUL
    BY DEF IInv, TypeOK, ReadlineTypeOK, LastNul
  <2>2. PICK s : s = CString(buf, 0)
    OBVIOUS
  <2>3. /\ s \in Seq(Printable) /\ Len(s) \in Cells /\ buf[Len(s)] = NUL
        /\ \A k \in 0..(Len(s) - 1) : buf[k] = s[k + 1]
    BY <2>1, <2>2, StringAtStart, StringChars
  <2>4. /\ pc' = "space" /\ line' = s /\ buf' = buf
        /\ p' = 0 /\ argc' = 0
    BY <1>2, <2>2 DEF Returned, ParseInv, IInv, ControlInv, readlineVars
  <2>5. Cut'
    <3>1. 0 <= Len(s) /\ \A k \in 0..(Len(s) - 1) : ~(k < 0)
      BY <2>3 DEF Cells
    <3>2. \A k \in 0..(Len(s) - 1) :
            buf'[k] = IF k < 0 /\ s[k + 1] \in WHITESPACE THEN NUL ELSE s[k + 1]
      BY <2>3, <2>4, <3>1
    <3>3. buf'[Len(s)] = NUL
      BY <2>3, <2>4
    <3>4. QED
      BY <2>3, <2>4, <3>1, <3>2, <3>3 DEF Cut
  <2>6. Found'
    BY <2>4 DEF Found, Passed, Starts
  <2>7. QED
    BY <2>4, <2>5, <2>6 DEF ParseInv, Boundary
<1>3. QED
  BY <1>1, <1>2

\* What the parser knows at any of its steps.
LEMMA AtPointer ==
  ASSUME IInv, ParseInv, Parse
  PROVE  /\ pc \in {"space", "arg"} /\ Cut /\ Found
         /\ p \in Nat /\ Len(line) \in Nat /\ line \in Seq(Printable)
         /\ p < Len(line) => buf[p] = line[p + 1] /\ line[p + 1] \in Printable
         /\ p = Len(line) => buf[p] = NUL
         /\ argc \in Nat /\ buf \in [Cells -> Printable \cup {NUL}]
<1>1. pc \in {"space", "arg"}
  BY DEF Parse, SkipSpace, ParseEnds, SaveArg, ScanArg
<1>2. Cut /\ Found
  BY <1>1 DEF ParseInv
<1>3. /\ p \in Nat /\ line \in Seq(Printable) /\ argc \in Nat
      /\ buf \in [Cells -> Printable \cup {NUL}]
  BY DEF IInv, TypeOK, ReadlineTypeOK, Cells
<1>4. Len(line) \in Nat /\ \A k \in 1..Len(line) : line[k] \in Printable
  BY <1>3
<1>5. p < Len(line) => p \in 0..(Len(line) - 1) /\ p + 1 \in 1..Len(line)
  BY <1>3, <1>4
<1>6. QED
  BY <1>1, <1>2, <1>3, <1>4, <1>5 DEF Cut

LEMMA SkipParses == ASSUME IInv, ParseInv, SkipSpace PROVE ParseInv'
<1>1. /\ pc = "space" /\ Cut /\ Found /\ p \in Nat /\ Len(line) \in Nat
      /\ p < Len(line) => buf[p] = line[p + 1]
      /\ p = Len(line) => buf[p] = NUL
      /\ argc \in Nat /\ buf \in [Cells -> Printable \cup {NUL}]
  BY AtPointer DEF Parse, SkipSpace
<1>2. /\ buf[p] \in WHITESPACE /\ buf' = [buf EXCEPT ![p] = NUL] /\ p' = p + 1
      /\ UNCHANGED <<pc, argc, argv, line>>
  BY DEF SkipSpace
<1>3. p < Len(line) /\ line[p + 1] \in WHITESPACE
  BY <1>1, <1>2 DEF Cut
<1>4. Cut'
  <2>1. Len(line) \in Cells /\ p \in Cells /\ p # Len(line) /\ p + 1 <= Len(line)
    BY <1>1, <1>3 DEF Cut, Cells
  <2>2. \A k \in 0..(Len(line) - 1) :
          buf'[k] = IF k < p + 1 /\ line[k + 1] \in WHITESPACE THEN NUL ELSE line[k + 1]
    <3> SUFFICES ASSUME NEW k \in 0..(Len(line) - 1)
                 PROVE  buf'[k] = IF k < p + 1 /\ line[k + 1] \in WHITESPACE
                                    THEN NUL ELSE line[k + 1]
      OBVIOUS
    <3>1. k \in Cells
      BY <2>1 DEF Cells
    <3>2. CASE k = p
      BY <1>1, <1>2, <1>3, <3>1, <3>2
    <3>3. CASE k # p
      <4>1. buf'[k] = buf[k] /\ (k < p + 1 <=> k < p)
        BY <1>1, <1>2, <3>1, <3>3
      <4>2. QED
        BY <1>1, <4>1 DEF Cut
    <3>4. QED
      BY <3>2, <3>3
  <2>3. buf'[Len(line)] = NUL
    BY <1>1, <1>2, <2>1 DEF Cut
  <2>4. QED
    BY <1>2, <2>1, <2>2, <2>3 DEF Cut
<1>5. Found'
  <2>1. p \notin Starts(line)
    BY <1>3 DEF Starts
  <2>2. \A a \in Starts(line) : a \in Nat /\ (a < p + 1 <=> a < p \/ a = p)
    BY <1>1 DEF Starts
  <2>3. \A a \in Starts(line) : Passed(a)' <=> Passed(a)
    BY <1>1, <1>2, <2>1, <2>2 DEF Passed
  <2>4. Starts(line)' = Starts(line)
    BY <1>2 DEF Starts
  <2>5. QED
    BY <1>1, <1>2, <2>3, <2>4 DEF Found
<1>6. Boundary'
  BY <1>1, <1>2, <1>3 DEF Boundary
<1>7. QED
  BY <1>1, <1>2, <1>4, <1>5, <1>6 DEF ParseInv

LEMMA EndParses == ASSUME IInv, ParseInv, ParseEnds PROVE ParseInv'
<1>1. /\ pc = "space" /\ Cut /\ Found /\ p \in Nat /\ Len(line) \in Nat
      /\ p < Len(line) => buf[p] = line[p + 1] /\ line[p + 1] \in Printable
  BY AtPointer DEF Parse, ParseEnds
<1>2. /\ buf[p] = NUL /\ pc' = "run" /\ UNCHANGED <<p, argc, argv, line, buf>>
  BY DEF ParseEnds, readlineVars
<1>3. p = Len(line)
  BY <1>1, <1>2 DEF Cut
<1>4. Cut' /\ Found'
  BY <1>1, <1>2 DEF Cut, Found, Passed, Starts
<1>5. QED
  BY <1>2, <1>3, <1>4 DEF ParseInv

LEMMA SaveParses == ASSUME IInv, ParseInv, SaveArg PROVE ParseInv'
<1>1. /\ pc = "space" /\ Cut /\ Found /\ p \in Nat /\ Len(line) \in Nat /\ argc \in Nat
      /\ p < Len(line) => buf[p] = line[p + 1]
      /\ p = Len(line) => buf[p] = NUL
  BY AtPointer DEF Parse, SaveArg
<1>2. buf[p] \notin WHITESPACE \cup {NUL} /\ UNCHANGED <<p, line, buf>>
  BY DEF SaveArg, readlineVars
<1>3. CASE argc < MAXARGS
  <2>1. pc' = "arg" /\ argv' = [argv EXCEPT ![argc] = p] /\ argc' = argc + 1
    BY <1>3 DEF SaveArg
  <2>2. p < Len(line) /\ line[p + 1] \notin WHITESPACE
    BY <1>1, <1>2 DEF Cut
  <2>3. p = 0 \/ line[p] \in WHITESPACE
    BY <1>1, <2>2 DEF ParseInv, Boundary
  <2>4. p \in Starts(line)
    BY <1>1, <2>2, <2>3 DEF Starts
  <2>5. argv \in [Args -> Cells] /\ argc \in Args /\ 0..argc \subseteq Args
    BY <1>1, <1>3 DEF IInv, TypeOK, Args
  <2>6. argv'[argc] = p /\ \A k \in 0..(argc - 1) : argv'[k] = argv[k]
    BY <1>1, <2>1, <2>5
  <2>7. Starts(line)' = Starts(line) /\ \A a : Passed(a)' <=> a < p \/ a = p
    BY <1>2, <2>1 DEF Starts, Passed
  <2>8. \A a : Passed(a) <=> a < p
    BY <1>1 DEF Passed
  <2>9. \A k \in 0..(argc' - 1) : k = argc \/ k \in 0..(argc - 1)
    BY <1>1, <2>1
  <2>10. \A k \in 0..(argc - 1) : argv[k] \in Starts(line) /\ argv[k] < p
    BY <1>1, <2>8 DEF Found
  <2>11. Found'
    <3>1. \A k \in 0..(argc' - 1) : argv'[k] \in Starts(line) /\ (argv'[k] < p \/ argv'[k] = p)
      BY <2>4, <2>6, <2>9, <2>10
    <3>2. ASSUME NEW a \in Starts(line), a < p \/ a = p
          PROVE  \E k \in 0..(argc' - 1) : argv'[k] = a
      <4>1. CASE a = p
        BY <1>1, <2>1, <2>6, <4>1
      <4>2. CASE a < p
        <5>1. PICK k \in 0..(argc - 1) : argv[k] = a
          BY <1>1, <2>8, <4>2 DEF Found
        <5>2. k \in 0..(argc' - 1)
          BY <1>1, <2>1
        <5>3. QED
          BY <2>6, <5>1, <5>2
      <4>3. QED
        BY <3>2, <4>1, <4>2
    <3>3. ASSUME NEW j \in 0..(argc' - 1), NEW k \in 0..(argc' - 1), j < k
          PROVE  argv'[j] < argv'[k]
      <4>1. j \in 0..(argc - 1)
        BY <1>1, <2>1, <3>3
      <4>2. CASE k = argc
        BY <2>6, <2>10, <4>1, <4>2
      <4>3. CASE k \in 0..(argc - 1)
        BY <1>1, <2>6, <3>3, <4>1, <4>3 DEF Found
      <4>4. QED
        BY <2>9, <4>2, <4>3
    <3>4. QED
      BY <2>7, <3>1, <3>2, <3>3 DEF Found
  <2>12. Cut'
    BY <1>1, <1>2 DEF Cut
  <2>13. QED
    BY <2>1, <2>11, <2>12 DEF ParseInv
<1>4. CASE ~(argc < MAXARGS)
  BY <1>4 DEF SaveArg, ParseInv
<1>5. QED
  BY <1>3, <1>4

LEMMA ScanParses == ASSUME IInv, ParseInv, ScanArg PROVE ParseInv'
<1>1. /\ pc = "arg" /\ Cut /\ Found /\ p \in Nat /\ Len(line) \in Nat
      /\ p < Len(line) => buf[p] = line[p + 1]
      /\ p = Len(line) => buf[p] = NUL
  BY AtPointer DEF Parse, ScanArg
<1>2. UNCHANGED <<argc, argv, line, buf>> /\ Starts(line)' = Starts(line)
  BY DEF ScanArg, readlineVars, Starts
<1>3. \A a \in Starts(line) : a \in Nat /\ (Passed(a) <=> a < p + 1)
  BY <1>1 DEF Passed, Starts
<1>4. CASE buf[p] \notin WHITESPACE \cup {NUL}
  <2>1. p' = p + 1 /\ pc' = "arg"
    BY <1>1, <1>4 DEF ScanArg
  <2>2. p < Len(line) /\ line[p + 1] \notin WHITESPACE
    BY <1>1, <1>4 DEF Cut
  <2>3. Cut'
    <3>1. \A k \in 0..(Len(line) - 1) :
            (k < p + 1 /\ line[k + 1] \in WHITESPACE) <=> (k < p /\ line[k + 1] \in WHITESPACE)
      BY <1>1, <2>2
    <3>2. p + 1 <= Len(line)
      BY <1>1, <2>2
    <3>3. QED
      BY <1>1, <1>2, <2>1, <3>1, <3>2 DEF Cut
  <2>4. p + 1 \notin Starts(line)
    BY <1>1, <2>2 DEF Starts
  <2>5. \A a \in Starts(line) : Passed(a)' <=> Passed(a)
    BY <1>1, <1>3, <2>1, <2>4 DEF Passed
  <2>6. Found'
    BY <1>1, <1>2, <2>5 DEF Found
  <2>7. QED
    BY <2>1, <2>3, <2>6 DEF ParseInv
<1>5. CASE ~(buf[p] \notin WHITESPACE \cup {NUL})
  <2>1. p' = p /\ pc' = "space"
    BY <1>1, <1>5 DEF ScanArg
  <2>2. p = Len(line) \/ line[p + 1] \in WHITESPACE
    <3>1. p < Len(line) => line[p + 1] \in WHITESPACE
      <4>1. p < Len(line) => line[p + 1] \in Printable
        BY AtPointer DEF Parse
      <4>2. QED
        BY <1>1, <1>5, <4>1
    <3>2. QED
      BY <1>1, <3>1 DEF Cut
  <2>3. p \notin Starts(line)
    BY <1>1, <2>2 DEF Starts
  <2>4. \A a \in Starts(line) : Passed(a)' <=> Passed(a)
    BY <1>1, <1>3, <2>1, <2>3 DEF Passed
  <2>5. Cut' /\ Found' /\ Boundary'
    BY <1>1, <1>2, <2>1, <2>2, <2>4 DEF Cut, Found, Boundary
  <2>6. QED
    BY <2>1, <2>5 DEF ParseInv
<1>6. QED
  BY <1>4, <1>5

------------------------------------------------------------------------------
(***************************************************************************)
(* What runcmd finds in argv.                                              *)
(***************************************************************************)
\* Each string in argv is an argument of the line, whole.
LEMMA ArgIsToken ==
  ASSUME IInv, ParseInv, pc = "run", NEW a \in Starts(line)
  PROVE  CString(buf, a) = Token(line, a)
<1>1. Cut /\ p = Len(line)
  BY DEF ParseInv
<1>2. /\ line \in Seq(Printable) /\ buf \in [Cells -> Printable \cup {NUL}]
      /\ Len(line) \in Cells /\ Len(line) \in Nat
  BY <1>1 DEF IInv, TypeOK, ReadlineTypeOK, Cut
<1>3. PICK e \in (a + 1)..Len(line) :
        /\ e = Len(line) \/ line[e + 1] \in WHITESPACE
        /\ \A k \in (a + 1)..e : line[k] \notin WHITESPACE
        /\ Token(line, a) = Text(line, a, e)
  BY <1>2, TokenIs
<1>4. a \in Nat /\ a < Len(line) /\ a \in Cells /\ e \in Cells /\ a <= e
  BY <1>2, <1>3 DEF Starts, Cells
<1>5. \A k \in 0..(Len(line) - 1) : line[k + 1] \in Printable
  BY <1>2
<1>6. \A j \in a..(e - 1) : buf[j] = line[j + 1] /\ buf[j] # NUL
  <2> SUFFICES ASSUME NEW j \in a..(e - 1) PROVE buf[j] = line[j + 1] /\ buf[j] # NUL
    OBVIOUS
  <2>1. j \in 0..(Len(line) - 1) /\ j + 1 \in (a + 1)..e
    BY <1>2, <1>3, <1>4
  <2>2. buf[j] = line[j + 1]
    BY <1>1, <1>3, <2>1 DEF Cut
  <2>3. QED
    BY <1>5, <2>1, <2>2
<1>7. buf[e] = NUL
  <2>1. CASE e = Len(line)
    BY <1>1, <2>1 DEF Cut
  <2>2. CASE e # Len(line)
    <3>1. e \in 0..(Len(line) - 1) /\ e < p /\ line[e + 1] \in WHITESPACE
      BY <1>1, <1>2, <1>3, <1>4, <2>2
    <3>2. QED
      BY <1>1, <3>1 DEF Cut
  <2>3. QED
    BY <2>1, <2>2
<1>8. CString(buf, a) = Chars(buf, a, e)
  <2>1. PICK b \in [Cells -> Printable \cup {NUL}] : b = buf
    BY <1>2
  <2>2. b[e] = NUL /\ \A j \in a..(e - 1) : b[j] # NUL
    BY <1>6, <1>7, <2>1
  <2>3. CString(b, a) = Chars(b, a, e)
    BY <1>4, <2>2, StringFrom
  <2>4. CString(b, a) = CString(buf, a) /\ Chars(b, a, e) = Chars(buf, a, e)
    BY <2>1 DEF CString, Chars
  <2>5. QED
    BY <2>1, <2>3, <2>4
<1>9. \A k \in 1..(e - a) : buf[a + k - 1] = line[a + k]
  <2> SUFFICES ASSUME NEW k \in 1..(e - a) PROVE buf[a + k - 1] = line[a + k]
    OBVIOUS
  <2>1. a + k - 1 \in a..(e - 1) /\ (a + k - 1) + 1 = a + k
    BY <1>4
  <2>2. QED
    BY <1>6, <2>1
<1>10. QED
  BY <1>3, <1>8, <1>9 DEF Chars, Text

\* argv[0] is the first argument typed; a line without one leaves argv empty.
LEMMA FirstArg ==
  ASSUME IInv, ParseInv, pc = "run"
  PROVE  /\ argc = 0 <=> Starts(line) = {}
         /\ argc # 0 => Arg(0) = Name(line)
<1>1. Found /\ p = Len(line) /\ argc \in Nat /\ Len(line) \in Nat
  BY DEF ParseInv, Cut, IInv, TypeOK
<1>2. \A a \in Starts(line) : a \in Nat /\ Passed(a)
  BY <1>1 DEF Starts, Passed
<1>3. argc = 0 => Starts(line) = {}
  BY <1>1, <1>2 DEF Found
<1>4. ASSUME argc # 0
      PROVE  Starts(line) # {} /\ Arg(0) = Name(line)
  <2>1. 0 \in 0..(argc - 1) /\ argv[0] \in Starts(line)
    BY <1>1, <1>4 DEF Found
  <2>2. \A c \in Starts(line) : argv[0] <= c
    <3> SUFFICES ASSUME NEW c \in Starts(line) PROVE argv[0] <= c
      OBVIOUS
    <3>1. PICK k \in 0..(argc - 1) : argv[k] = c
      BY <1>1, <1>2 DEF Found
    <3>2. CASE k = 0
      BY <1>2, <2>1, <3>1, <3>2
    <3>3. CASE k # 0
      <4>1. 0 < k
        BY <1>1, <3>1, <3>3
      <4>2. argv[0] < argv[k]
        BY <1>1, <2>1, <3>1, <4>1 DEF Found
      <4>3. QED
        BY <1>2, <2>1, <3>1, <4>2
    <3>4. QED
      BY <3>2, <3>3
  <2>3. \A a \in Starts(line) : (\A c \in Starts(line) : a <= c) => a = argv[0]
    BY <1>2, <2>1, <2>2
  <2>4. (CHOOSE a \in Starts(line) : \A c \in Starts(line) : a <= c) = argv[0]
    BY <2>1, <2>2, <2>3
  <2>5. Name(line) = Token(line, argv[0])
    BY <2>4, Zenon DEF Name
  <2>6. Arg(0) = Token(line, argv[0])
    BY <2>1, ArgIsToken DEF Arg
  <2>7. QED
    BY <2>1, <2>5, <2>6
<1>5. QED
  BY <1>3, <1>4

\* The command that is found bears the name, and none is only if none does.
LEMMA RunFinds ==
  ASSUME IInv, ParseInv, runcmd
  PROVE  /\ ran' # 0 => Starts(line) # {} /\ Commands[ran'] = Name(line)
         /\ ran' = 0 /\ Starts(line) # {} => \A c \in DOMAIN Commands : Commands[c] # Name(line)
<1> DEFINE M == Matching(Arg(0))
<1>1. /\ pc = "run"
      /\ ran' = IF argc = 0 THEN 0
                ELSE IF M = {} THEN 0 ELSE CHOOSE c \in M : \A d \in M : c <= d
  BY DEF runcmd
<1>2. M = {c \in DOMAIN Commands : Commands[c] = Arg(0)}
  BY DEF Matching
<1>3. DOMAIN Commands = 1..Len(Commands) /\ Len(Commands) \in Nat
  OBVIOUS
<1>4. (argc = 0 <=> Starts(line) = {}) /\ (argc # 0 => Arg(0) = Name(line))
  BY <1>1, FirstArg
<1>5. ASSUME M # {}
      PROVE  (CHOOSE c \in M : \A d \in M : c <= d) \in M
  <2>1. M \subseteq Nat
    BY <1>2, <1>3
  <2> HIDE DEF M
  <2>2. \E c \in M : \A d \in M : c <= d
    BY <1>5, <2>1, LeastNat
  <2>3. QED
    BY <2>2
<1>6. CASE argc = 0 \/ M = {}
  BY <1>1, <1>2, <1>4, <1>6
<1>7. CASE argc # 0 /\ M # {}
  <2>1. ran' \in M
    <3> HIDE DEF M
    <3>1. QED
      BY <1>1, <1>5, <1>7
  <2>2. QED
    BY <1>2, <1>3, <1>4, <1>7, <2>1
<1>8. QED
  BY <1>6, <1>7

LEMMA CommandParses == ASSUME IInv, ParseInv, Command PROVE ParseInv'
<1>1. CASE runcmd
  <2>1. /\ pc' = IF ran' = 0 THEN "prompt" ELSE "command"
        /\ argc' = 0 /\ (ran' # 0 => line' = line)
    BY <1>1 DEF runcmd
  <2>2. CASE ran' = 0
    BY <2>1, <2>2 DEF ParseInv
  <2>3. CASE ran' # 0
    <3>1. pc' = "command" /\ line' = line /\ argc' = 0
      BY <2>1, <2>3
    <3>2. Starts(line)' = Starts(line) /\ Name(line)' = Name(line)
      BY <3>1 DEF Starts, Name, Token
    <3>3. Starts(line) # {} /\ Commands[ran'] = Name(line)
      BY <1>1, <2>3, RunFinds
    <3>4. QED
      BY <3>1, <3>2, <3>3 DEF ParseInv
  <2>4. QED
    BY <2>2, <2>3
<1>2. CASE mon_info \/ mon_backtrace
  <2>1. pc = "command" /\ pc' = "prompt" /\ argc' = argc
    BY <1>2 DEF mon_info, mon_backtrace, print_stackframe, AtPrompt
  <2>2. QED
    BY <2>1 DEF ParseInv
<1>3. QED
  BY <1>1, <1>2 DEF Command

LEMMA ParseInductive == IInv /\ ParseInv /\ [Next]_vars => ParseInv'
<1> SUFFICES ASSUME IInv, ParseInv, [Next]_vars PROVE ParseInv'
  OBVIOUS
<1>1. CASE Parse
  BY <1>1, SkipParses, EndParses, SaveParses, ScanParses DEF Parse
<1>2. CASE Undefined \/ UNCHANGED vars
  <2>1. UNCHANGED <<pc, p, argc, argv, line, ran, buf>>
    BY <1>2 DEF Undefined, vars, monitorVars, readlineVars
  <2>2. Starts(line)' = Starts(line) /\ Name(line)' = Name(line)
    BY <2>1 DEF Starts, Name, Token
  <2>3. QED
    BY <2>1, <2>2 DEF ParseInv, Cut, Found, Passed, Boundary
<1>3. QED
  BY <1>1, <1>2, WaitKeeps, ReturnedParses, CommandParses DEF Next

\* parse hands runcmd exactly the arguments of the line, in order.
THEOREM ArgumentsAreTokens == Spec => []ArgsAreTokens
<1>1. IInv /\ ParseInv => ArgsAreTokens
  <2> SUFFICES ASSUME IInv, ParseInv, pc = "run"
               PROVE  /\ {argv[k] : k \in 0..(argc - 1)} = Starts(line)
                      /\ \A j, k \in 0..(argc - 1) : j < k => argv[j] < argv[k]
                      /\ \A k \in 0..(argc - 1) : Arg(k) = Token(line, argv[k])
    BY DEF ArgsAreTokens
  <2>1. Found /\ p = Len(line)
    BY DEF ParseInv
  <2>2. \A a \in Starts(line) : Passed(a)
    BY <2>1 DEF Starts, Passed
  <2>3. {argv[k] : k \in 0..(argc - 1)} = Starts(line)
    BY <2>1, <2>2 DEF Found
  <2>4. \A k \in 0..(argc - 1) : Arg(k) = Token(line, argv[k])
    BY <2>1, ArgIsToken DEF Found, Arg
  <2>5. QED
    BY <2>1, <2>3, <2>4 DEF Found
<1>2. QED
  BY InitInv, Inductive, InitParse, ParseInductive, <1>1, PTL DEF Spec

\* The command that runs is the one the line names, and only a backtrace that
\* was typed starts a monitor inside the monitor.
THEOREM CommandsAreTyped == Spec => CommandIsTyped
<1> DEFINE A == /\ pc = "run" /\ Starts(line) # {} =>
                     IF ran' = 0 THEN \A c \in DOMAIN Commands : Commands[c] # Name(line)
                                 ELSE Commands[ran'] = Name(line)
                /\ depth' >= depth
                /\ depth' # depth => Starts(line) # {} /\ Name(line) = Commands[Backtrace]
<1>1. IInv /\ ParseInv /\ [Next]_vars => [A]_vars
  <2> SUFFICES ASSUME IInv, ParseInv, Next PROVE A
    OBVIOUS
  <2>1. CASE runcmd
    <3>1. depth' = depth /\ depth \in Nat
      BY <2>1 DEF runcmd, IInv, TypeOK
    <3>2. QED
      BY <2>1, <3>1, RunFinds
  <2>2. CASE mon_backtrace
    <3>1. /\ pc = "command" /\ ran = Backtrace /\ depth \in Nat
          /\ depth' = IF depth < MaxDepth THEN depth + 1 ELSE depth
      BY <2>2 DEF mon_backtrace, print_stackframe, IInv, TypeOK
    <3>2. Starts(line) # {} /\ Commands[Backtrace] = Name(line)
      BY <3>1 DEF ParseInv
    <3>3. depth' >= depth
      BY <3>1
    <3>4. QED
      BY <3>1, <3>2, <3>3
  <2>3. CASE Prompt \/ Key \/ Returned \/ Parse \/ mon_info \/ Undefined
    <3>1. pc # "run" /\ depth' = depth /\ depth \in Nat
      BY <2>3 DEF Prompt, Key, ReadKey, ReadError, ReadChar, DropChar, ReadBackspace,
         ReadNewline, Returned, Parse, SkipSpace, ParseEnds, SaveArg, ScanArg, mon_info,
         Undefined, vars, monitorVars, IInv, TypeOK, ControlInv
    <3>2. QED
      BY <3>1
  <2>4. QED
    BY <2>1, <2>2, <2>3 DEF Next, Command
<1>2. QED
  BY InitInv, Inductive, InitParse, ParseInductive, <1>1, PTL DEF Spec, CommandIsTyped
=============================================================================
