------------------------------ MODULE Readline -------------------------------
(***************************************************************************)
(* readline (kern/libs/readline.c): reads characters from the console into *)
(* the static buffer buf, echoes them, and obeys the backspace key.  The   *)
(* console below getchar (kern/libs/stdio.c, kern/driver/console.c) is the *)
(* firmware's: a character, nothing (0, and getchar asks again) or an      *)
(* error (negative).  The screen is the text after the last prompt on the  *)
(* user's terminal: a character overwrites the cell under the cursor, a    *)
(* backspace moves the cursor left and erases nothing.                     *)
(***************************************************************************)
EXTENDS Naturals, Sequences

CONSTANTS
  BUFSIZE,   \* 1024 in readline.c
  Printable, \* characters from ' ' up
  NUL,       \* '\0'
  Backspace, \* '\b'
  Newlines,  \* '\n' and '\r'
  Controls   \* the other characters below ' '

ASSUME BufAssumption  == BUFSIZE \in Nat \ {0}
ASSUME CharAssumption == NUL \notin Printable

VARIABLES
  reading,   \* readline is running
  buf,       \* static char buf[BUFSIZE]
  i,         \* length of the line so far, 0 outside readline
  ret,       \* what the last call returned: "NULL" or "buf"
  screen,    \* the terminal's cells from the end of the prompt on
  cursor     \* the cell the next character goes to

readlineVars == <<reading, buf, i, ret, screen, cursor>>

Cells == 0..(BUFSIZE - 1)

ReadlineTypeOK ==
  /\ reading \in BOOLEAN
  /\ buf \in [Cells -> Printable \cup {NUL}]
  /\ i \in Cells
  /\ ret \in {"NULL", "buf"}
  /\ screen \in [Cells -> Printable \cup {NUL}]
  /\ cursor \in Nat

ReadlineInit ==
  /\ reading = FALSE
  /\ buf = [k \in Cells |-> NUL]
  /\ i = 0
  /\ ret = "NULL"
  /\ screen = [k \in Cells |-> NUL]
  /\ cursor = 0

Blank == [k \in Cells |-> NUL]

\* cprintf("%s", prompt);  int i = 0
CallReadline ==
  /\ ~reading
  /\ reading' = TRUE
  /\ UNCHANGED <<buf, i, ret, screen, cursor>>

Leave == reading' = FALSE /\ i' = 0 /\ screen' = Blank /\ cursor' = 0

\* if (c < 0) return NULL
ReadError ==
  /\ reading
  /\ Leave
  /\ ret' = "NULL"
  /\ UNCHANGED buf

\* Mutant of ReadChar: an overlong line is echoed to the end, but not stored.
ReadChar_EchoAll ==
  /\ reading
  /\ \E c \in Printable :
        /\ screen' = [screen EXCEPT ![cursor] = c] /\ cursor' = cursor + 1
        /\ IF i < BUFSIZE - 1 THEN buf' = [buf EXCEPT ![i] = c] /\ i' = i + 1
                              ELSE UNCHANGED <<buf, i>>
  /\ cursor < BUFSIZE
  /\ UNCHANGED <<reading, ret>>

\* Mutant of ReadChar: i < BUFSIZE.
ReadChar_NoRoom ==
  /\ reading
  /\ i < BUFSIZE
  /\ \E c \in Printable :
        /\ buf' = [buf EXCEPT ![i] = c] /\ i' = i + 1
        /\ screen' = [screen EXCEPT ![cursor] = c] /\ cursor' = cursor + 1
  /\ UNCHANGED <<reading, ret>>

\* c >= ' ' && i < BUFSIZE - 1: cputchar(c); buf[i++] = c
ReadChar ==
  /\ reading
  /\ i < BUFSIZE - 1
  /\ \E c \in Printable :
        /\ buf' = [buf EXCEPT ![i] = c] /\ i' = i + 1
        /\ screen' = [screen EXCEPT ![cursor] = c] /\ cursor' = cursor + 1
  /\ UNCHANGED <<reading, ret>>

\* Every other character, and one that does not fit, is dropped unechoed.
DropChar ==
  /\ reading
  /\ \E c \in Printable \cup Controls \cup {Backspace} :
        \/ c \in Printable /\ i >= BUFSIZE - 1
        \/ c = Backspace /\ i = 0
        \/ c \in Controls
  /\ UNCHANGED readlineVars

\* c == '\b' && i > 0: cputchar(c); i--
ReadBackspace ==
  /\ reading
  /\ i > 0
  /\ i' = i - 1 /\ cursor' = cursor - 1
  /\ UNCHANGED <<reading, buf, ret, screen>>

\* Mutant of ReadNewline: the line is not terminated.
ReadNewline_Unterminated ==
  /\ reading
  /\ Newlines # {} /\ Leave
  /\ ret' = "buf"
  /\ UNCHANGED buf

\* c == '\n' || c == '\r': cputchar(c); buf[i] = '\0'; return buf
ReadNewline ==
  /\ reading
  /\ Newlines # {} /\ Leave
  /\ buf' = [buf EXCEPT ![i] = NUL]
  /\ ret' = "buf"

ReadKey == ReadError \/ ReadChar \/ DropChar \/ ReadBackspace \/ ReadNewline

\* The C string that starts at address a of buffer b.
CString(b, a) ==
  LET len == CHOOSE k \in 0..(BUFSIZE - 1 - a) :
               b[a + k] = NUL /\ \A j \in 0..(k - 1) : b[a + j] # NUL
  IN  [k \in 1..len |-> b[a + k - 1]]

\* What the user sees left of the cursor is the line that is kept, whatever
\* was typed, erased, dropped or overwritten before.
EchoMatches ==
  reading => cursor = i /\ \A k \in 0..(i - 1) : screen[k] = buf[k]
=============================================================================
