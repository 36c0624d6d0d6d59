------------------------------ MODULE TrapFrame ------------------------------
(***************************************************************************)
(* The trapframe as trapentry.S stores it and as C reads it.               *)
(*                                                                         *)
(* SAVE_ALL stores register i in slot i, a register (REGBYTES) apart;      *)
(* struct trapframe (kern/trap/trap.h) is made of uintptr_t, which         *)
(* libs/defs.h makes 32 bits wide whatever the register width is.  The     *)
(* Makefile builds for riscv64.                                            *)
(*                                                                         *)
(* A 32-bit word is [neg, low]: bit 31 and the 31 bits below it.  A slot   *)
(* is the sequence of its 32-bit words, least significant first.           *)
(***************************************************************************)
EXTENDS Integers, Sequences

CONSTANT XLEN    \* register width in bits, 32 or 64

ASSUME XlenAssumption == XLEN \in {32, 64}

REGBYTES == XLEN \div 8
SizeofUintptr == 4

SlotA7    == 17
SlotCause == 35
Slots     == {SlotA7, SlotCause}   \* the slots whose contents C code acts on

\* Field k of struct trapframe, read from the frame: the word at byte 4 * k.
CField(frame, k) ==
  LET byte == SizeofUintptr * k
  IN  frame[byte \div REGBYTES][(byte % REGBYTES) \div SizeofUintptr + 1]

\* The words of scause for a trap: the interrupt flag is the top bit of the
\* register.
CauseReg(interrupt, code) ==
  IF XLEN = 32 THEN <<[neg |-> interrupt, low |-> code]>>
               ELSE <<[neg |-> FALSE, low |-> code], [neg |-> interrupt, low |-> 0]>>

\* What a7 may hold when a trap is taken: a small number, of either sign.
MaxLow == 2147483647
Small(negative) == [neg |-> negative, low |-> IF negative THEN MaxLow ELSE 0]
A7Regs == {[i \in 1..(XLEN \div 32) |-> Small(negative)] : negative \in BOOLEAN}

\* The frames SAVE_ALL may leave for a trap, as far as C code looks at them.
Frames(interrupt, code) ==
  {[k \in Slots |-> IF k = SlotCause THEN CauseReg(interrupt, code) ELSE a7] : a7 \in A7Regs}

------------------------------------------------------------------------------
(***************************************************************************)
(* trap_dispatch, interrupt_handler and exception_handler (kern/trap/      *)
(* trap.c) as the reaction they choose.  Every reaction but "timer" only   *)
(* prints, or does nothing.                                                *)
(***************************************************************************)
IRQ_U_SOFT  == 0
IRQ_S_SOFT  == 1
IRQ_S_TIMER == 5
IRQ_S_EXT   == 9
IRQ_M_EXT   == 11
CAUSE_MISALIGNED_FETCH == 0
CAUSE_MACHINE_ECALL    == 11
KnownInterrupts == IRQ_U_SOFT..IRQ_M_EXT
KnownExceptions == CAUSE_MISALIGNED_FETCH..CAUSE_MACHINE_ECALL

\* switch ((tf->cause << 1) >> 1)
InterruptReaction(code) ==
  IF code = IRQ_S_TIMER THEN "timer"
  ELSE IF code \in KnownInterrupts THEN "message" ELSE "print_trapframe"

\* switch (tf->cause)
ExceptionReaction(code) ==
  IF code \in KnownExceptions THEN "ignore" ELSE "print_trapframe"

\* if ((intptr_t)tf->cause < 0)
Reaction(cause) ==
  IF cause.neg THEN InterruptReaction(cause.low) ELSE ExceptionReaction(cause.low)
=============================================================================
