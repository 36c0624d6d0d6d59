------------------------------ MODULE TrapEntry ------------------------------
(***************************************************************************)
(* kern/trap/trapentry.S on one RISC-V hart: SAVE_ALL, the call of trap(), *)
(* RESTORE_ALL and sret, over the supervisor CSRs and a word-addressed     *)
(* kernel stack.  Traps may nest: an exception may be raised by the kernel *)
(* code the handler runs, and an interrupt arrives at ANY instruction at   *)
(* which the hart accepts one.                                             *)
(*                                                                         *)
(* Addresses count register-sized words (REGBYTES in riscv.h), so          *)
(* "k*REGBYTES(sp)" is the word sp + k and addi sp,-36*REGBYTES moves sp   *)
(* by 36.  A word is untyped: registers and memory hold whatever was put   *)
(* in them.                                                                *)
(*                                                                         *)
(* The assembly does the same for both register widths.  The C code that   *)
(* reads the frame does not: its fields are uintptr_t, 32 bits in every    *)
(* build (libs/defs.h:57), so what it shows depends on XLEN (TrapFrame).   *)
(***************************************************************************)
EXTENDS Naturals, Sequences

CONSTANTS
  XLEN,      \* register width in bits, 32 or 64
  XRegs,     \* numbers of the general registers in view, sp (x2) excluded
  RegFiles,  \* register contents the kernel's C code may leave
  Traps,     \* traps: records [cause, badvaddr]
  Junk,      \* what memory and sscratch hold before the kernel writes them
  CSlots,    \* words of stack the C frames of one context use
  StackTop   \* words in the boot stack (KSTACKSIZE)

C == INSTANCE TrapFrame   \* how C code lays out the fields of the frame

S0 == 8      \* s0 to s4 as register numbers: SAVE_ALL moves the CSRs
S1 == 9      \* through them after their own values are stored
S2 == 18
S3 == 19
S4 == 20

SlotZero     == 0
SlotSp       == 2
SlotStatus   == 32
SlotEpc      == 33
SlotBadvaddr == 34
SlotCause    == 35
FrameSlots   == 36

ASSUME WidthAssumption == XLEN \in {32, 64}
ASSUME RegAssumption ==
  {S0, S1, S2, S3, S4} \subseteq XRegs /\ XRegs \subseteq (1..31) \ {SlotSp}
ASSUME FileAssumption  == \A f \in RegFiles : f = [i \in XRegs |-> f[i]]
ASSUME StackAssumption == CSlots \in Nat /\ StackTop \in Nat /\ StackTop >= CSlots

VARIABLES
  pc,        \* where the hart executes: see PCs
  sp, x,     \* stack pointer and the other general registers
  sstatus,   \* [SIE, SPIE, SPP]
  priv,      \* privilege mode, "S" or "U"
  sepc, sbadaddr, scause, sscratch,
  mem,       \* the boot stack, word by word
  ctx,       \* history: the contexts interrupted and not yet resumed,
  traps      \* and the traps that interrupted them

vars == <<pc, sp, x, sstatus, priv, sepc, sbadaddr, scause, sscratch, mem, ctx, traps>>

Addr == 0..(StackTop - 1)

PCs == {"boot", "main", "alltraps", "savegprs", "readcsrs", "storecsrs",
        "calltrap", "handler", "trapret", "restgprs", "sret"}

CCode == {"main", "handler"}   \* compiled kernel code, outside trapentry.S

Context == [pc |-> pc, sp |-> sp, x |-> x, sie |-> sstatus.SIE, priv |-> priv]

TypeOK ==
  /\ pc \in PCs
  /\ sp \in 0..StackTop
  /\ DOMAIN x = XRegs
  /\ sstatus \in [SIE : BOOLEAN, SPIE : BOOLEAN, SPP : {"S", "U"}]
  /\ priv \in {"S", "U"}
  /\ DOMAIN mem = Addr

------------------------------------------------------------------------------
(***************************************************************************)
(* Boot.  kern_entry loads sp with bootstacktop; idt_init clears sscratch  *)
(* and points stvec at __alltraps.  The firmware enters with interrupts    *)
(* off, and no trap is taken before stvec is set.                          *)
(***************************************************************************)
Init ==
  /\ pc = "boot"
  /\ sp = StackTop
  /\ x \in RegFiles
  /\ sstatus = [SIE |-> FALSE, SPIE |-> FALSE, SPP |-> "U"]
  /\ priv = "S"
  /\ sepc = Junk /\ sbadaddr = Junk /\ scause = Junk /\ sscratch = Junk
  /\ mem = [a \in Addr |-> Junk]
  /\ ctx = << >>
  /\ traps = << >>

IdtInit ==
  /\ pc = "boot"
  /\ sscratch' = 0
  /\ sp' = StackTop - CSlots
  /\ pc' = "main"
  /\ UNCHANGED <<x, sstatus, priv, sepc, sbadaddr, scause, mem, ctx, traps>>

------------------------------------------------------------------------------
(***************************************************************************)
(* The hart.  StackRoom bounds the nesting: the code never checks the      *)
(* stack, and a trap that would overflow it is outside the model.          *)
(***************************************************************************)
StackRoom == sp >= FrameSlots + CSlots

HwTrap(trap) ==
  /\ StackRoom
  /\ sepc' = pc
  /\ sbadaddr' = trap.badvaddr
  /\ scause' = trap.cause
  /\ sstatus' = [SIE |-> FALSE, SPIE |-> sstatus.SIE, SPP |-> priv]
  /\ priv' = "S"
  /\ pc' = "alltraps"
  /\ ctx' = Append(ctx, Context)
  /\ traps' = Append(traps, trap)
  /\ UNCHANGED <<sp, x, sscratch, mem>>

\* An interrupt is accepted between any two instructions while SIE is set.
Interrupt ==
  /\ pc # "boot"
  /\ sstatus.SIE
  /\ \E trap \in Traps : HwTrap(trap)

\* C code raises an exception.  The instructions of trapentry.S do not: they
\* only touch the stack and the CSRs.
Exception ==
  /\ pc \in CCode
  /\ \E trap \in Traps : HwTrap(trap)

------------------------------------------------------------------------------
(***************************************************************************)
(* The C code: kern_init's, and trap()'s.  Its effect on the registers is  *)
(* arbitrary.  The ABI has it return with the sp it was called with, and   *)
(* it writes neither below its own frames nor to a trapframe.              *)
(***************************************************************************)
RunCode ==
  /\ pc \in CCode
  /\ x' \in RegFiles
  /\ UNCHANGED <<pc, sp, sstatus, priv, sepc, sbadaddr, scause, sscratch, mem, ctx, traps>>

\* The macros of riscv.h: csrrs and csrrc with one bit of the register.
set_csr(csr, bit)   == [csr EXCEPT ![bit] = TRUE]
clear_csr(csr, bit) == [csr EXCEPT ![bit] = FALSE]

\* intr_enable and intr_disable: only kern_init enables interrupts.
SetSIE ==
  /\ pc = "main"
  /\ sstatus' \in {set_csr(sstatus, "SIE"), clear_csr(sstatus, "SIE")}
  /\ UNCHANGED <<pc, sp, x, priv, sepc, sbadaddr, scause, sscratch, mem, ctx, traps>>

------------------------------------------------------------------------------
(***************************************************************************)
(* SAVE_ALL, __alltraps.                                                   *)
(***************************************************************************)
\* Mutant of SaveSp: a frame without room for the CSRs.
SaveSp_SmallFrame ==
  /\ pc = "alltraps"
  /\ sscratch' = sp
  /\ sp' = sp - SlotStatus
  /\ pc' = "savegprs"
  /\ UNCHANGED <<x, sstatus, priv, sepc, sbadaddr, scause, mem, ctx, traps>>

\* csrw sscratch, sp;  addi sp, sp, -36 * REGBYTES
SaveSp ==
  /\ pc = "alltraps"
  /\ sscratch' = sp
  /\ sp' = sp - FrameSlots
  /\ pc' = "savegprs"
  /\ UNCHANGED <<x, sstatus, priv, sepc, sbadaddr, scause, mem, ctx, traps>>

\* Mutant of SaveGprs: the STORE of s2 is missing.
SaveGprs_NoS2 ==
  /\ pc = "savegprs"
  /\ mem' = [a \in Addr |-> IF a = sp THEN 0
                              ELSE IF a - sp \in XRegs \ {S2} THEN x[a - sp] ELSE mem[a]]
  /\ pc' = "readcsrs"
  /\ UNCHANGED <<sp, x, sstatus, priv, sepc, sbadaddr, scause, sscratch, ctx, traps>>

\* STORE xi, i*REGBYTES(sp) for every register but x2; x0 is always zero
SaveGprs ==
  /\ pc = "savegprs"
  /\ mem' = [a \in Addr |-> IF a = sp THEN 0
                              ELSE IF a - sp \in XRegs THEN x[a - sp] ELSE mem[a]]
  /\ pc' = "readcsrs"
  /\ UNCHANGED <<sp, x, sstatus, priv, sepc, sbadaddr, scause, sscratch, ctx, traps>>

\* csrrw s0, sscratch, x0;  csrr s1, sstatus;  csrr s2, sepc;
\* csrr s3, sbadaddr;  csrr s4, scause
ReadCsrs ==
  /\ pc = "readcsrs"
  /\ x' = [x EXCEPT ![S0] = sscratch, ![S1] = sstatus, ![S2] = sepc,
                     ![S3] = sbadaddr, ![S4] = scause]
  /\ sscratch' = 0
  /\ pc' = "storecsrs"
  /\ UNCHANGED <<sp, sstatus, priv, sepc, sbadaddr, scause, mem, ctx, traps>>

\* Mutant of StoreCsrs: epc and cause stored in each other's slots.
StoreCsrs_Swapped ==
  /\ pc = "storecsrs"
  /\ mem' = [mem EXCEPT ![sp + SlotSp]       = x[S0],
                        ![sp + SlotStatus]   = x[S1],
                        ![sp + SlotEpc]      = x[S4],
                        ![sp + SlotBadvaddr] = x[S3],
                        ![sp + SlotCause]    = x[S2]]
  /\ pc' = "calltrap"
  /\ UNCHANGED <<sp, x, sstatus, priv, sepc, sbadaddr, scause, sscratch, ctx, traps>>

\* STORE s0, 2(sp);  STORE s1, 32(sp);  STORE s2, 33(sp);  STORE s3, 34(sp);
\* STORE s4, 35(sp)
StoreCsrs ==
  /\ pc = "storecsrs"
  /\ mem' = [mem EXCEPT ![sp + SlotSp]       = x[S0],
                        ![sp + SlotStatus]   = x[S1],
                        ![sp + SlotEpc]      = x[S2],
                        ![sp + SlotBadvaddr] = x[S3],
                        ![sp + SlotCause]    = x[S4]]
  /\ pc' = "calltrap"
  /\ UNCHANGED <<sp, x, sstatus, priv, sepc, sbadaddr, scause, sscratch, ctx, traps>>

\* move a0, sp;  jal trap: trap() and what it calls take their frames
CallTrap ==
  /\ pc = "calltrap"
  /\ sp' = sp - CSlots
  /\ pc' = "handler"
  /\ UNCHANGED <<x, sstatus, priv, sepc, sbadaddr, scause, sscratch, mem, ctx, traps>>

\* Mutant of TrapReturns: trap() returns with its frames still on the stack.
TrapReturns_Unbalanced ==
  /\ pc = "handler"
  /\ pc' = "trapret"
  /\ UNCHANGED <<sp, x, sstatus, priv, sepc, sbadaddr, scause, sscratch, mem, ctx, traps>>

\* trap() returns: "sp should be the same as before"
TrapReturns ==
  /\ pc = "handler"
  /\ sp' = sp + CSlots
  /\ pc' = "trapret"
  /\ UNCHANGED <<x, sstatus, priv, sepc, sbadaddr, scause, sscratch, mem, ctx, traps>>

------------------------------------------------------------------------------
(***************************************************************************)
(* __trapret: RESTORE_ALL, sret.                                           *)
(***************************************************************************)
\* Mutants of RestoreCsrs: csrw sstatus, or csrw sepc, is missing.
RestoreCsrs_NoStatus ==
  /\ pc = "trapret"
  /\ x' = [x EXCEPT ![S1] = mem[sp + SlotStatus], ![S2] = mem[sp + SlotEpc]]
  /\ sepc' = mem[sp + SlotEpc]
  /\ pc' = "restgprs"
  /\ UNCHANGED <<sp, sstatus, priv, sbadaddr, scause, sscratch, mem, ctx, traps>>

RestoreCsrs_NoEpc ==
  /\ pc = "trapret"
  /\ x' = [x EXCEPT ![S1] = mem[sp + SlotStatus], ![S2] = mem[sp + SlotEpc]]
  /\ sstatus' = mem[sp + SlotStatus]
  /\ pc' = "restgprs"
  /\ UNCHANGED <<sp, sepc, priv, sbadaddr, scause, sscratch, mem, ctx, traps>>

\* LOAD s1, 32(sp);  LOAD s2, 33(sp);  csrw sstatus, s1;  csrw sepc, s2
RestoreCsrs ==
  /\ pc = "trapret"
  /\ x' = [x EXCEPT ![S1] = mem[sp + SlotStatus], ![S2] = mem[sp + SlotEpc]]
  /\ sstatus' = mem[sp + SlotStatus]
  /\ sepc' = mem[sp + SlotEpc]
  /\ pc' = "restgprs"
  /\ UNCHANGED <<sp, priv, sbadaddr, scause, sscratch, mem, ctx, traps>>

\* LOAD xi, i*REGBYTES(sp) for every register, "restore sp last"
RestoreGprs ==
  /\ pc = "restgprs"
  /\ x' = [i \in XRegs |-> mem[sp + i]]
  /\ sp' = mem[sp + SlotSp]
  /\ pc' = "sret"
  /\ UNCHANGED <<sstatus, priv, sepc, sbadaddr, scause, sscratch, mem, ctx, traps>>

\* sret: pops the privilege and interrupt-enable stack of sstatus
Sret ==
  /\ pc = "sret"
  /\ pc' = sepc
  /\ priv' = sstatus.SPP
  /\ sstatus' = [SIE |-> sstatus.SPIE, SPIE |-> TRUE, SPP |-> "U"]
  /\ ctx' = SubSeq(ctx, 1, Len(ctx) - 1)
  /\ traps' = SubSeq(traps, 1, Len(traps) - 1)
  /\ UNCHANGED <<sp, x, sepc, sbadaddr, scause, sscratch, mem>>

------------------------------------------------------------------------------
(***************************************************************************)
(* What trap.c shows of the trapframe at address f.  The fields of struct  *)
(* pushregs and struct trapframe are numbered in the order of their        *)
(* declaration; each is uintptr_t, 32 bits wide, so field k lies at byte   *)
(* 4 * k of the frame (C!CField), whereas SAVE_ALL stores register k at    *)
(* byte k * REGBYTES.  On a 64-bit hart C code reads halves of registers,  *)
(* and what it takes for field k is a half of register k \div 2.           *)
(***************************************************************************)
pushregs ==
  [zero |-> 0, ra |-> 1, sp |-> 2, gp |-> 3, tp |-> 4, t0 |-> 5, t1 |-> 6, t2 |-> 7,
   s0 |-> 8, s1 |-> 9, a0 |-> 10, a1 |-> 11, a2 |-> 12, a3 |-> 13, a4 |-> 14,
   a5 |-> 15, a6 |-> 16, a7 |-> 17, s2 |-> 18, s3 |-> 19, s4 |-> 20, s5 |-> 21,
   s6 |-> 22, s7 |-> 23, s8 |-> 24, s9 |-> 25, s10 |-> 26, s11 |-> 27, t3 |-> 28,
   t4 |-> 29, t5 |-> 30, t6 |-> 31]
trapframe == [status |-> 32, epc |-> 33, badvaddr |-> 34, cause |-> 35]

\* A register's word as memory holds it: its 32-bit words, the lower first.
Half(word, h) == [word |-> word, half |-> h]
Words(word) == IF XLEN = 32 THEN <<word>> ELSE <<Half(word, 0), Half(word, 1)>>

\* Field k of the frame at f, as C code reads it.
Field(f, k) == C!CField([slot \in 0..(FrameSlots - 1) |-> Words(mem[f + slot])], k)

\* Mutant of print_regs: s2 is printed where s1 should be.
print_regs_Twice(gpr) ==
  [name \in DOMAIN pushregs |-> Field(gpr, pushregs[IF name = "s1" THEN "s2" ELSE name])]

print_regs(gpr) == [name \in DOMAIN pushregs |-> Field(gpr, pushregs[name])]

print_trapframe(f) ==
  [gpr |-> print_regs(f), status |-> Field(f, trapframe.status),
   epc |-> Field(f, trapframe.epc), badvaddr |-> Field(f, trapframe.badvaddr),
   cause |-> Field(f, trapframe.cause)]

\* (tf->status & SSTATUS_SPP) != 0, the word read being an sstatus
trap_in_kernel(f) == Field(f, trapframe.status).SPP = "S"

------------------------------------------------------------------------------
Next ==
  \/ IdtInit \/ RunCode \/ SetSIE \/ Interrupt \/ Exception
  \/ SaveSp \/ SaveGprs \/ ReadCsrs \/ StoreCsrs \/ CallTrap
  \/ TrapReturns \/ RestoreCsrs \/ RestoreGprs \/ Sret

Spec == Init /\ [][Next]_vars

------------------------------------------------------------------------------
(***************************************************************************)
(* Properties.                                                             *)
(***************************************************************************)
Depth == Len(ctx)
Top == ctx[Depth]
TopTrap == traps[Depth]
Frame(k) == ctx[k].sp - FrameSlots
SavedStatus(c) == [SIE |-> FALSE, SPIE |-> c.sie, SPP |-> c.priv]

\* The frame at address f holds the context c and what is known of the trap
\* that interrupted it.
FrameHolds(f, c, trap) ==
  /\ mem[f + SlotZero] = 0
  /\ \A i \in XRegs : mem[f + i] = c.x[i]
  /\ mem[f + SlotSp] = c.sp
  /\ mem[f + SlotEpc] = c.pc
  /\ mem[f + SlotStatus] = SavedStatus(c)
  /\ mem[f + SlotBadvaddr] = trap.badvaddr
  /\ mem[f + SlotCause] = trap.cause

\* sret resumes the interrupted context: program counter, stack pointer,
\* every general register, interrupt-enable bit and privilege are what they
\* were when the trap was taken, however many traps were taken and returned
\* from in between (SAVE_ALL, RESTORE_ALL).
ContextRestored ==
  [][pc = "sret" =>
       [pc |-> pc', sp |-> sp', x |-> x', sie |-> sstatus'.SIE, priv |-> priv'] = Top]_vars

\* While trap() runs, the trapframe it was given describes its own trap and
\* the context that trap interrupted, even after nested traps have
\* overwritten scause, sbadaddr, sepc and sstatus.
HandlerSeesItsTrap ==
  pc = "handler" => FrameHolds(sp + CSlots, Top, TopTrap)

\* The frames of all the suspended contexts are intact, not only the last.
\* The frame of a context lies right below its stack pointer.
SuspendedFramesIntact ==
  \A k \in 1..(Depth - 1) : FrameHolds(Frame(k), ctx[k], traps[k])

\* The kernel never leaves supervisor mode, although every sret clears SPP:
\* RESTORE_ALL puts the saved sstatus back first.  And sscratch is zero
\* whenever C code runs, as idt_init and SAVE_ALL set it for code that would
\* tell a trap from the kernel by it (trapentry.S:42, trap.c:27).
StaysInSupervisor == priv = "S" /\ (pc \in CCode => sscratch = 0)

\* The RISC-V calling convention's names of the registers, x0 first.
Abi == <<"zero", "ra", "sp", "gp", "tp", "t0", "t1", "t2", "s0", "s1", "a0", "a1", "a2",
         "a3", "a4", "a5", "a6", "a7", "s2", "s3", "s4", "s5", "s6", "s7", "s8", "s9",
         "s10", "s11", "t3", "t4", "t5", "t6">>

\* What a handler reports of its trap is true: print_trapframe shows every
\* register of the interrupted context under its own name, where it was
\* interrupted and by what, and trap_in_kernel says yes, however deep the trap
\* is nested (trap.c:34-81, with the names of trap.h:6-47).  This holds where a
\* register is as wide as uintptr_t, that is for XLEN = 32.  On the 64-bit target
\* of the Makefile it does not: there what is printed as ra is a half of x0.
ReportIsTrue ==
  pc = "handler" =>
    LET f      == sp + CSlots
        report == print_trapframe(f)
    IN  /\ \A i \in XRegs : report.gpr[Abi[i + 1]] = Top.x[i]
        /\ report.gpr.zero = 0 /\ report.gpr.sp = Top.sp
        /\ report.epc = Top.pc
        /\ report.cause = TopTrap.cause /\ report.badvaddr = TopTrap.badvaddr
        /\ report.status = SavedStatus(Top)
        /\ trap_in_kernel(f)

\* No interrupt is accepted from the first instruction of __alltraps to sret,
\* nor in the handler.
NoInterruptInTrap == Depth > 0 => ~sstatus.SIE

\* The invariant the proofs rest on.  Chain: the suspended contexts lie one
\* frame and one C stack below each other, the first is kern_init's.  AtPc:
\* how far the frame of the newest trap is written or read back.
Chain ==
  /\ Len(traps) = Depth
  /\ Depth = 0 <=> pc \in {"boot", "main"}
  /\ \A k \in 1..Depth :
        /\ ctx[k].priv = "S"
        /\ ctx[k].sp >= FrameSlots + CSlots
        /\ IF k = 1 THEN ctx[k].pc = "main" /\ ctx[k].sp = StackTop - CSlots
                    ELSE /\ ctx[k].pc = "handler" /\ ~ctx[k].sie
                         /\ ctx[k].sp = Frame(k - 1) - CSlots
  /\ \A j, k \in 1..Depth : j < k => ctx[k].sp + CSlots <= Frame(j)

GprsSaved == /\ mem[Frame(Depth) + SlotZero] = 0
             /\ \A i \in XRegs : mem[Frame(Depth) + i] = Top.x[i]
FrameSaved == FrameHolds(Frame(Depth), Top, TopTrap)
CsrsOfTrap == /\ sepc = Top.pc /\ sstatus = SavedStatus(Top)
              /\ scause = TopTrap.cause /\ sbadaddr = TopTrap.badvaddr

AtPc ==
  /\ priv = "S"
  /\ pc = "boot" => ~sstatus.SIE
  /\ pc = "main" => sp = StackTop - CSlots
  /\ pc \in {"savegprs", "readcsrs", "storecsrs", "calltrap", "trapret", "restgprs"}
       => sp = Frame(Depth)
  /\ pc = "alltraps" => sp = Top.sp /\ x = Top.x /\ CsrsOfTrap
  /\ pc = "savegprs" => sscratch = Top.sp /\ x = Top.x /\ CsrsOfTrap
  /\ pc = "readcsrs" => sscratch = Top.sp /\ GprsSaved /\ CsrsOfTrap
  /\ pc = "storecsrs" => /\ GprsSaved
                         /\ x[S0] = Top.sp /\ x[S1] = SavedStatus(Top)
                         /\ x[S2] = Top.pc
                         /\ x[S3] = TopTrap.badvaddr /\ x[S4] = TopTrap.cause
  /\ pc = "handler" => sp = Frame(Depth) - CSlots
  /\ pc \in {"calltrap", "handler", "trapret", "restgprs"} => FrameSaved
  /\ pc \in {"restgprs", "sret"} => sstatus = SavedStatus(Top) /\ sepc = Top.pc
  /\ pc = "sret" => sp = Top.sp /\ x = Top.x
  /\ pc \notin {"boot", "savegprs", "readcsrs"} => sscratch = 0

TrapInv == Chain /\ AtPc /\ NoInterruptInTrap /\ SuspendedFramesIntact

\* The trap code implements the stack discipline of TrapSpec.
Abstract == INSTANCE TrapSpec WITH code <- Context, susp <- ctx
RefinesTrapSpec == Abstract!Spec
=============================================================================
