------------------------------- MODULE Console ------------------------------
(***************************************************************************)
(* The console's side of the formatter (kern/libs/stdio.c): cputch, the    *)
(* function through which vprintfmt prints for cprintf, and the character  *)
(* the firmware is sent.                                                   *)
(***************************************************************************)
EXTENDS Naturals, Sequences

VARIABLES
  screen,   \* the characters sent to the firmware
  shown     \* cnt of vcprintf and cputs

consVars == <<screen, shown>>

ConsInit == screen = <<>> /\ shown = 0

\* sbi_console_putchar((unsigned char)c)
cons_putc(c) == screen' = Append(screen, c)

cputch(c) ==
  /\ cons_putc(c)
  /\ shown' = shown + 1
=============================================================================
