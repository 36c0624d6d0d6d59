------------------------------ MODULE SprintBuf ------------------------------
(***************************************************************************)
(* vsnprintf's side of the formatter (libs/printfmt.c): struct sprintbuf   *)
(* and sprintputch, the function through which vprintfmt prints every      *)
(* character.  Pointers into the buffer are offsets from its start.        *)
(***************************************************************************)
EXTENDS Integers, Sequences

CONSTANTS
  Char,   \* characters that are printed
  NUL,    \* '\0'
  Junk,   \* what the caller's buffer holds before the call
  Sizes   \* the sizes a caller passes, 0 included

ASSUME BufAssumption == Sizes \subseteq Nat /\ NUL # Junk

VARIABLES
  str,    \* the caller's buffer
  size,   \* its size, as the caller states it
  null,   \* the caller passes NULL for str
  buf,    \* b.buf: the first unused cell
  cnt,    \* b.cnt
  phase,  \* "call", "open" (vprintfmt runs) or "closed"
  ret,    \* the value returned
  text    \* every character printed so far (history)

bufVars == <<str, size, null, buf, cnt, phase, ret, text>>

E_INVAL == 3
ebuf    == size - 1
Cells   == 0..ebuf

BufTypeOK ==
  /\ size \in Nat /\ null \in BOOLEAN
  /\ str \in [Cells -> Char \cup {NUL, Junk}]
  /\ phase \in {"call", "open", "closed"}
  /\ phase # "call" /\ ret # -E_INVAL => buf \in Cells
  /\ cnt \in Nat /\ ret \in Int
  /\ text \in Seq(Char)

BufInit ==
  /\ size \in Sizes
  /\ null \in BOOLEAN
  /\ str = [k \in Cells |-> Junk]
  /\ buf = 0 /\ cnt = 0
  /\ phase = "call"
  /\ ret = 0
  /\ text = <<>>

Refused == null \/ buf > ebuf

Open ==
  /\ phase = "call"
  /\ IF Refused THEN phase' = "closed" /\ ret' = -E_INVAL
                ELSE phase' = "open" /\ UNCHANGED ret
  /\ UNCHANGED <<str, size, null, buf, cnt, text>>

\* Mutant of sprintputch: the last cell is not kept for the '\0'.
sprintputch_Full(ch) ==
  /\ phase = "open"
  /\ cnt' = cnt + 1
  /\ IF buf <= ebuf THEN str' = [str EXCEPT ![buf] = ch] /\ buf' = buf + 1
                    ELSE UNCHANGED <<str, buf>>
  /\ text' = Append(text, ch)
  /\ UNCHANGED <<size, null, phase, ret>>

\* Mutant of sprintputch: only the characters that fit are counted.
sprintputch_Stored(ch) ==
  /\ phase = "open"
  /\ IF buf < ebuf THEN str' = [str EXCEPT ![buf] = ch] /\ buf' = buf + 1
                        /\ cnt' = cnt + 1
                   ELSE UNCHANGED <<str, buf, cnt>>
  /\ text' = Append(text, ch)
  /\ UNCHANGED <<size, null, phase, ret>>

\* Every character is counted; those that leave room for the '\0' are stored.
sprintputch(ch) ==
  /\ phase = "open"
  /\ cnt' = cnt + 1
  /\ IF buf < ebuf THEN str' = [str EXCEPT ![buf] = ch] /\ buf' = buf + 1
                   ELSE UNCHANGED <<str, buf>>
  /\ text' = Append(text, ch)
  /\ UNCHANGED <<size, null, phase, ret>>

\* *b.buf = '\0';  return b.cnt
Close ==
  /\ phase = "open"
  /\ str' = [str EXCEPT ![buf] = NUL]
  /\ ret' = cnt
  /\ phase' = "closed"
  /\ UNCHANGED <<size, null, buf, cnt, text>>

BufNext == Open \/ Close \/ \E ch \in Char : sprintputch(ch)

BufSpec == BufInit /\ [][BufNext]_bufVars

------------------------------------------------------------------------------
Least(a, b) == IF a <= b THEN a ELSE b

\* vsnprintf returns "the number of characters which would be generated ...
\* excluding the trailing '\0'" (printfmt.c:322); the buffer holds as many of
\* them as leave a cell for the '\0', and the '\0' after them; the cells behind
\* it are the caller's.  With no room at all nothing is written.
BufferContract ==
  phase = "closed" =>
    IF null \/ size = 0
    THEN ret = -E_INVAL /\ str = [k \in Cells |-> Junk]
    ELSE LET kept == Least(Len(text), size - 1)
         IN  /\ ret = Len(text)
             /\ str = [k \in Cells |-> IF k < kept THEN text[k + 1]
                                       ELSE IF k = kept THEN NUL ELSE Junk]
=============================================================================
