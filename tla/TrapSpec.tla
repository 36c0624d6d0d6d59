------------------------------ MODULE TrapSpec ------------------------------
(***************************************************************************)
(* What the trap entry and exit code promises to the code it interrupts:   *)
(* a trap suspends the running context, whatever runs until the trap       *)
(* returns cannot touch a suspended context, and the return resumes the    *)
(* most recently suspended context exactly as it was.  How contexts are    *)
(* kept (memory frames, sscratch, sepc, the sstatus stack) is left to      *)
(* TrapEntry, which implements this specification.                         *)
(***************************************************************************)
EXTENDS Naturals, Sequences

VARIABLES code,   \* the running context: [pc, sp, x, sie, priv]
          susp    \* the suspended contexts, oldest first

vars == <<code, susp>>

Init == susp = << >> /\ code.priv = "S"

\* The processor stops the running context and starts the trap entry code,
\* in supervisor mode with interrupts disabled.
Take ==
  /\ susp' = Append(susp, code)
  /\ code'.priv = "S"
  /\ ~code'.sie

\* The running context computes.  Only the code that no trap interrupted may
\* enable interrupts.
Work ==
  /\ code'.priv = "S"
  /\ susp # << >> => ~code'.sie
  /\ UNCHANGED susp

\* The trap returns to the context it interrupted.
Return ==
  /\ susp # << >>
  /\ code' = susp[Len(susp)]
  /\ susp' = SubSeq(susp, 1, Len(susp) - 1)

Next == Take \/ Work \/ Return

Spec == Init /\ [][Next]_vars
=============================================================================
