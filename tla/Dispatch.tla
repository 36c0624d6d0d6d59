------------------------------ MODULE Dispatch -------------------------------
(***************************************************************************)
(* Which traps come back: the dispatch of trap.c on a hart that runs       *)
(* kernel code with interrupts enabled.  The code is a loop of             *)
(* instructions, some of which raise an exception; an interrupt stays      *)
(* pending until something clears it; C sees the trapframe of TrapFrame,   *)
(* for either register width.  TrapEntry shows that a trap changes nothing *)
(* else: here it is one step, and so is its return.                        *)
(*                                                                         *)
(* Time is counted in instructions of the loop.  Handling a trap takes     *)
(* none: the handler is taken to be short beside a timebase above zero.    *)
(***************************************************************************)
EXTENDS Integers

CONSTANTS
  LoopLen,    \* instructions in the loop
  Timebases,  \* what clock_init may compute: sbi_timebase() / 500
  Faults      \* the exceptions an instruction may raise

None == -1    \* an instruction that raises no exception

ASSUME DispatchAssumption ==
  /\ LoopLen \in Nat /\ LoopLen >= 2
  /\ Timebases \subseteq Nat
  /\ Faults \subseteq Nat

VARIABLES
  xlen,       \* register width of the build
  timebase,   \* clock.c
  raises,     \* the exception each instruction of the loop raises, or None
  sie,        \* the interrupts enabled, as the firmware left them
  sip,        \* the interrupts pending
  armed, left,\* the timer, and the counts until it goes off
  pc,         \* "code", "dispatch", "timer" (interrupt_handler), "trapret"
  at,         \* the next instruction of the loop
  epc,        \* tf->epc
  tf          \* the other fields of the trapframe

build == <<xlen, timebase, raises, sie>>
vars  == <<build, sip, armed, left, pc, at, epc, tf>>

Frame32 == INSTANCE TrapFrame WITH XLEN <- 32
Frame64 == INSTANCE TrapFrame WITH XLEN <- 64

SOFT  == 1    \* IRQ_S_SOFT, IRQ_S_TIMER and IRQ_S_EXT: the bits of sip and sie
TIMER == 5
EXT   == 9
Sip   == {SOFT, TIMER, EXT}
Loop  == 1..LoopLen
Frames(interrupt, code) == IF xlen = 32 THEN Frame32!Frames(interrupt, code)
                                        ELSE Frame64!Frames(interrupt, code)
Reaction(f) == IF xlen = 32 THEN Frame32!Reaction(Frame32!CField(f, Frame32!SlotCause))
                            ELSE Frame64!Reaction(Frame64!CField(f, Frame64!SlotCause))

TypeOK ==
  /\ xlen \in {32, 64} /\ timebase \in Timebases
  /\ raises \in [Loop -> Faults \cup {None}]
  /\ sie \subseteq Sip /\ sip \subseteq Sip
  /\ armed \in BOOLEAN /\ left \in 0..timebase
  /\ pc \in {"code", "dispatch", "timer", "trapret"}
  /\ at \in Loop /\ epc \in Loop

\* After intr_enable.
Init ==
  /\ xlen \in {32, 64} /\ timebase \in Timebases
  /\ raises \in [Loop -> Faults \cup {None}]
  /\ sie \in SUBSET Sip
  /\ sip = {} /\ armed = TRUE /\ left = timebase
  /\ pc = "code" /\ at = 1 /\ epc = 1
  /\ tf \in Frames(FALSE, 0)

------------------------------------------------------------------------------
(***************************************************************************)
(* The hart and its environment.                                           *)
(***************************************************************************)
Due     == armed /\ left = 0
Taken   == sip \cap sie        \* the interrupts the hart would take now
Passes(n) == IF n = 0 THEN 0 ELSE n - 1
Succ(i) == IF i = LoopLen THEN 1 ELSE i + 1

\* The firmware raises the timer interrupt in time ...
Fire ==
  /\ Due
  /\ sip' = sip \cup {TIMER} /\ armed' = FALSE
  /\ UNCHANGED <<build, left, pc, at, epc, tf>>

\* ... and someone else may send one of the others at any time.
Raise ==
  /\ \E irq \in Sip \ {TIMER} : sip' = sip \cup {irq}
  /\ UNCHANGED <<build, armed, left, pc, at, epc, tf>>

\* One instruction of the loop, when no interrupt is to be taken before it.
Step ==
  /\ pc = "code" /\ Taken = {} /\ ~Due
  /\ raises[at] = None
  /\ at' = Succ(at)
  /\ left' = Passes(left)
  /\ UNCHANGED <<build, sip, armed, pc, epc, tf>>

Trap(interrupt, code) ==
  /\ epc' = at
  /\ tf' \in Frames(interrupt, code)
  /\ pc' = "dispatch"
  /\ UNCHANGED <<build, sip, armed, at>>

Exception ==
  /\ pc = "code" /\ Taken = {} /\ ~Due
  /\ raises[at] # None
  /\ left' = Passes(left)
  /\ Trap(FALSE, raises[at])

\* External interrupts go before software interrupts, and these before the timer.
Interrupt ==
  /\ pc = "code"
  /\ \E irq \in Taken : /\ irq = SOFT  => EXT \notin Taken
                        /\ irq = TIMER => Taken = {TIMER}
                        /\ Trap(TRUE, irq)
  /\ UNCHANGED left

------------------------------------------------------------------------------
(***************************************************************************)
(* trap.c.  Only the case IRQ_S_TIMER does anything; tf->epc is left alone *)
(* in every case, and so is sip but for what sbi_set_timer clears.         *)
(***************************************************************************)
\* Mutant of trap_dispatch: exceptions return behind the instruction.
trap_dispatch_Skip ==
  /\ pc = "dispatch"
  /\ pc' = IF Reaction(tf) = "timer" THEN "timer" ELSE "trapret"
  /\ epc' = IF Reaction(tf) = "ignore" THEN Succ(epc) ELSE epc
  /\ UNCHANGED <<build, sip, armed, left, at, tf>>

trap_dispatch ==
  /\ pc = "dispatch"
  /\ pc' = IF Reaction(tf) = "timer" THEN "timer" ELSE "trapret"
  /\ UNCHANGED <<build, sip, armed, left, at, epc, tf>>

\* Mutant of clock_set_next_event: the pending interrupt is acknowledged, but
\* the timer is not set.
clock_set_next_event_Ack ==
  /\ pc = "timer"
  /\ sip' = sip \ {TIMER}
  /\ pc' = "trapret"
  /\ UNCHANGED <<build, armed, left, at, epc, tf>>

\* Mutant of clock_set_next_event: one count too many.
clock_set_next_event_Late ==
  /\ pc = "timer"
  /\ sip' = sip \ {TIMER} /\ armed' = TRUE /\ left' = timebase + 1
  /\ pc' = "trapret"
  /\ UNCHANGED <<build, at, epc, tf>>

\* sbi_set_timer(get_cycles() + timebase)
clock_set_next_event ==
  /\ pc = "timer"
  /\ sip' = sip \ {TIMER} /\ armed' = TRUE /\ left' = timebase
  /\ pc' = "trapret"
  /\ UNCHANGED <<build, at, epc, tf>>

\* RESTORE_ALL and sret
TrapReturn ==
  /\ pc = "trapret"
  /\ at' = epc /\ pc' = "code"
  /\ UNCHANGED <<build, sip, armed, left, epc, tf>>

Hart == Step \/ Exception \/ Interrupt \/ trap_dispatch \/ clock_set_next_event \/ TrapReturn
Next == Hart \/ Fire \/ Raise
Spec == Init /\ [][Next]_vars

\* The hart executes, and the firmware raises a timer that is due.
FairSpec == Spec /\ WF_vars(Hart) /\ WF_vars(Fire)

------------------------------------------------------------------------------
(***************************************************************************)
(* Properties.                                                             *)
(***************************************************************************)
\* The interrupts no case of interrupt_handler acknowledges; with 64-bit
\* registers it does not even recognise the timer.
Unanswered == IF xlen = 32 THEN {SOFT, EXT} ELSE Sip

\* The trap that is taken next is one the kernel does not answer, or the clock
\* is due again as soon as it is set.
Storm ==
  \/ Taken \cap Unanswered # {}
  \/ raises[at] # None
  \/ xlen = 32 /\ timebase = 0 /\ TIMER \in sie

\* A trap that is not answered is taken for ever, and the code it interrupts
\* never executes another instruction: a known exception returns to the
\* instruction that raised it (trap.c:138), a software interrupt stays pending
\* (trap.c:89), a timebase of 0 is always over (clock.c:35), and on riscv64 the
\* timer itself is not recognised (trap.c:170).
StormIsFinal == [][Storm => Storm' /\ at' = at]_vars

\* Nothing else stops the kernel: without such a trap the interrupted code
\* runs on, whatever the timer does, and the clock goes on ticking if its
\* interrupt is enabled.
RunsUnlessStorm ==
  <>Storm \/ ([]<><<Step>>_vars /\ (TIMER \in sie => []<>(pc = "timer")))
=============================================================================
