------------------------------- MODULE Monitor -------------------------------
(***************************************************************************)
(* The kernel monitor (kern/debug/kmonitor.c) over readline: a line is     *)
(* read, split in place into arguments by parse, and the command its first *)
(* argument names is run by runcmd.  The monitor runs with interrupts off, *)
(* nothing else touches buf, and it never ends: no command returns -1, and *)
(* "backtrace" panics, which starts a monitor inside the monitor.          *)
(***************************************************************************)
EXTENDS Readline

CONSTANTS
  MAXARGS,     \* 16 in kmonitor.c
  WHITESPACE,  \* the characters of " \t\n\r" a line can contain
  Commands,    \* commands[]: the sequence of the command names
  Backtrace,   \* the index in it of "backtrace"
  MaxDepth     \* bound: deeper monitors are no longer told apart

ASSUME MonitorAssumption ==
  /\ MAXARGS \in Nat \ {0} /\ WHITESPACE \subseteq Printable
  /\ Commands \in Seq(Seq(Printable)) /\ Backtrace \in DOMAIN Commands
  /\ MaxDepth \in Nat

VARIABLES
  pc,        \* "prompt", "readline", in parse "space" or "arg", "run",
             \* "command", or "undefined" once argv[MAXARGS] has been written
  p,         \* parse's pointer into buf
  argc, argv,
  depth,     \* monitors that wait for a monitor inside them
  line,      \* history: the line that is being run
  ran        \* history: index of the command just run, 0 if there was none

monitorVars == <<pc, p, argc, argv, depth, line, ran>>
vars == <<readlineVars, monitorVars>>

Args == 0..(MAXARGS - 1)
NoArgs == [k \in Args |-> 0]

TypeOK ==
  /\ ReadlineTypeOK
  /\ pc \in {"prompt", "readline", "space", "arg", "run", "command", "undefined"}
  /\ p \in Cells /\ argc \in 0..MAXARGS /\ argv \in [Args -> Cells]
  /\ depth \in 0..MaxDepth
  /\ line \in Seq(Printable) /\ ran \in 0..Len(Commands)

Init ==
  /\ ReadlineInit
  /\ pc = "prompt"
  /\ p = 0 /\ argc = 0 /\ argv = NoArgs
  /\ depth = 0 /\ line = << >> /\ ran = 0

\* readline("K> ")
Prompt ==
  /\ pc = "prompt"
  /\ CallReadline
  /\ pc' = "readline"
  /\ UNCHANGED <<p, argc, argv, depth, line, ran>>

Key == ReadKey /\ UNCHANGED monitorVars

\* if (buf != NULL) runcmd(buf, tf)
Returned ==
  /\ pc = "readline" /\ ~reading
  /\ IF ret = "NULL" THEN pc' = "prompt" /\ UNCHANGED line
                     ELSE pc' = "space" /\ line' = CString(buf, 0)
  /\ UNCHANGED <<p, argc, argv, depth, ran, readlineVars>>

------------------------------------------------------------------------------
(***************************************************************************)
(* parse: whitespace is overwritten with '\0', the addresses of the        *)
(* arguments go to argv.  The check on MAXARGS only prints.                *)
(***************************************************************************)
\* Mutant of SkipSpace: the whitespace is not overwritten.
SkipSpace_Keep ==
  /\ pc = "space" /\ buf[p] \in WHITESPACE
  /\ p' = p + 1
  /\ UNCHANGED <<pc, argc, argv, depth, line, ran, readlineVars>>

\* while (*buf != '\0' && strchr(WHITESPACE, *buf) != NULL) *buf++ = '\0'
SkipSpace ==
  /\ pc = "space" /\ buf[p] \in WHITESPACE
  /\ buf' = [buf EXCEPT ![p] = NUL]
  /\ p' = p + 1
  /\ UNCHANGED <<pc, argc, argv, depth, line, ran, reading, i, ret, screen, cursor>>

\* Mutant of ParseEnds: the end of the buffer is looked for, not of the line.
ParseEnds_Buffer ==
  /\ pc = "space" /\ buf[p] = NUL
  /\ IF p < BUFSIZE - 1 THEN p' = p + 1 /\ UNCHANGED pc ELSE pc' = "run" /\ UNCHANGED p
  /\ UNCHANGED <<argc, argv, depth, line, ran, readlineVars>>

\* if (*buf == '\0') break
ParseEnds ==
  /\ pc = "space" /\ buf[p] = NUL
  /\ pc' = "run"
  /\ UNCHANGED <<p, argc, argv, depth, line, ran, readlineVars>>

\* argv[argc++] = buf
SaveArg ==
  /\ pc = "space" /\ buf[p] \notin WHITESPACE \cup {NUL}
  /\ IF argc < MAXARGS
       THEN pc' = "arg" /\ argv' = [argv EXCEPT ![argc] = p] /\ argc' = argc + 1
       ELSE pc' = "undefined" /\ UNCHANGED <<argv, argc>>
  /\ UNCHANGED <<p, depth, line, ran, readlineVars>>

\* Mutant of ScanArg: buf is not advanced.
ScanArg_Stuck ==
  /\ pc = "arg"
  /\ IF buf[p] \notin WHITESPACE \cup {NUL} THEN UNCHANGED <<p, pc>>
                                            ELSE pc' = "space" /\ UNCHANGED p
  /\ UNCHANGED <<argc, argv, depth, line, ran, readlineVars>>

\* while (*buf != '\0' && strchr(WHITESPACE, *buf) == NULL) buf++
ScanArg ==
  /\ pc = "arg"
  /\ IF buf[p] \notin WHITESPACE \cup {NUL} THEN p' = p + 1 /\ UNCHANGED pc
                                            ELSE pc' = "space" /\ UNCHANGED p
  /\ UNCHANGED <<argc, argv, depth, line, ran, readlineVars>>

------------------------------------------------------------------------------
Arg(k) == CString(buf, argv[k])

\* Mutant of Matching: the names are compared up to the length of the argument.
Matching_Prefix(name) ==
  {c \in DOMAIN Commands : /\ Len(Commands[c]) >= Len(name)
                           /\ SubSeq(Commands[c], 1, Len(name)) = name}

Matching(name) == {c \in DOMAIN Commands : Commands[c] = name}

\* The first command whose name is argv[0], if there is one, is called.
runcmd ==
  /\ pc = "run"
  /\ ran' = IF argc = 0 THEN 0
            ELSE IF Matching(Arg(0)) = {} THEN 0
            ELSE CHOOSE c \in Matching(Arg(0)) : \A d \in Matching(Arg(0)) : c <= d
  /\ pc' = IF ran' = 0 THEN "prompt" ELSE "command"
  /\ p' = 0 /\ argc' = 0 /\ argv' = NoArgs
  /\ line' = IF ran' = 0 THEN << >> ELSE line
  /\ UNCHANGED <<depth, readlineVars>>

\* Back at the prompt, of this monitor or of another.
AtPrompt == pc' = "prompt" /\ line' = << >> /\ ran' = 0

\* mon_help and mon_kerninfo print and return 0.
mon_info ==
  /\ pc = "command" /\ ran # Backtrace
  /\ AtPrompt
  /\ UNCHANGED <<p, argc, argv, depth, readlineVars>>

\* panic("Not Implemented!"), which does not return: while (1) kmonitor(NULL)
print_stackframe ==
  /\ depth' = IF depth < MaxDepth THEN depth + 1 ELSE depth
  /\ AtPrompt

mon_backtrace ==
  /\ pc = "command" /\ ran = Backtrace
  /\ print_stackframe
  /\ UNCHANGED <<p, argc, argv, readlineVars>>

Parse   == SkipSpace \/ ParseEnds \/ SaveArg \/ ScanArg
Command == runcmd \/ mon_info \/ mon_backtrace

\* Whatever the write past argv does, it is not modelled further.
Undefined == pc = "undefined" /\ UNCHANGED vars

Next == Prompt \/ Key \/ Returned \/ Parse \/ Command \/ Undefined

Spec == Init /\ [][Next]_vars

\* The hart executes the monitor; the user need not type.
FairSpec == Spec /\ WF_vars(Prompt \/ Returned \/ Parse \/ Command)

------------------------------------------------------------------------------
(***************************************************************************)
(* Properties.                                                             *)
(***************************************************************************)
\* Positions at which an argument of the line s begins, counted from 0, and
\* where the argument that begins at a ends.
Starts(s) == {a \in 0..(Len(s) - 1) : s[a + 1] \notin WHITESPACE /\ (a = 0 \/ s[a] \in WHITESPACE)}
Token(s, a) ==
  LET end == CHOOSE e \in (a + 1)..Len(s) :
               /\ e = Len(s) \/ s[e + 1] \in WHITESPACE
               /\ \A k \in (a + 1)..e : s[k] \notin WHITESPACE
  IN  SubSeq(s, a + 1, end)

\* parse hands runcmd exactly the whitespace-separated arguments of the line,
\* in order, each a string of its own, although it works in place on a static
\* buffer that still holds the ends of longer, earlier lines.
ArgsAreTokens ==
  pc = "run" =>
    /\ {argv[k] : k \in 0..(argc - 1)} = Starts(line)
    /\ \A j, k \in 0..(argc - 1) : j < k => argv[j] < argv[k]
    /\ \A k \in 0..(argc - 1) : Arg(k) = Token(line, argv[k])

\* The name on the line s: its first argument.
Name(s) == Token(s, CHOOSE a \in Starts(s) : \A c \in Starts(s) : a <= c)

\* The command that runs is the one the line names: the first whose name is
\* the first argument typed, whole.  No monitor ends, and one is started inside
\* another by a backtrace that was typed, and by nothing else (kmonitor.c:121).
CommandIsTyped ==
  [][/\ pc = "run" /\ Starts(line) # {} =>
          IF ran' = 0 THEN \A c \in DOMAIN Commands : Commands[c] # Name(line)
                      ELSE Commands[ran'] = Name(line)
     /\ depth' >= depth
     /\ depth' # depth => Starts(line) # {} /\ Name(line) = Commands[Backtrace]]_vars

\* parse never moves past the end of the line.
ParserOnLine == pc \in {"space", "arg"} => p <= Len(line)

\* Every line that was entered is answered, and the monitor asks for the next.
LinesAnswered == pc = "space" ~> pc \in {"prompt", "undefined"}

\* A line of more than MAXARGS arguments is refused: "Too many arguments
\* (max %d)" (kmonitor.c:46).
ArgvInBounds == pc # "undefined"

\* readline implements the line editor of LineSpec.
Abstract ==
  INSTANCE LineSpec WITH
    Char    <- Printable,
    MaxLine <- BUFSIZE - 1,
    editing <- reading,
    line    <- IF reading THEN [k \in 1..i |-> buf[k - 1]] ELSE << >>,
    answer  <- IF pc = "readline" /\ ~reading /\ ret = "buf" THEN {CString(buf, 0)} ELSE {}
RefinesLineSpec == Abstract!Spec
=============================================================================
