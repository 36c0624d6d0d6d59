------------------------------- MODULE Kernel --------------------------------
(***************************************************************************)
(* The kernel of lab1 on one hart: kern_init, the clock driver, the trap   *)
(* dispatch, the tick count and panic, composed with the firmware's timer  *)
(* (Sbi) and the C view of the trapframe (TrapFrame).  TrapEntry shows     *)
(* what trapentry.S does instruction by instruction; here a trap is one    *)
(* step and so is its return.                                              *)
(***************************************************************************)
EXTENDS TrapFrame, Sbi

CONSTANTS
  SBI_TIMEBASE,  \* what the firmware's sbi_timebase() answers
  TICK_NUM,      \* 100 in trap.c
  TicksMod,      \* number of values of size_t: 2^32 on the machine
  Builds,        \* values DEBUG_GRADE may have: the ways the kernel is built
  BootSTIE,      \* values sie.STIE may have when the firmware enters the kernel
  Garbage        \* values ticks may have before .bss is cleared

ASSUME KernelAssumption ==
  /\ SBI_TIMEBASE \in Nat /\ TICK_NUM \in Nat \ {0} /\ TicksMod \in Nat \ {0}
  /\ Builds \subseteq BOOLEAN /\ BootSTIE \subseteq BOOLEAN
  /\ Garbage \subseteq 0..(TicksMod - 1)

VARIABLES
  DEBUG_GRADE, \* whether the kernel is built for grading; never changes
  pc,        \* the next step of the running code: see PCs
  epc, SPIE, \* what sepc and sstatus keep for the return from the trap
  SIE, STIE, \* interrupt enables: sstatus.SIE, sie.STIE
  stvec,     \* "firmware" until idt_init
  timebase,  \* clock.c: counts between two timer interrupts
  n,         \* the value of get_cycles() in clock_set_next_event
  ticks,     \* clock.c: volatile size_t ticks
  is_panic,  \* panic.c
  tf,        \* the trapframe of the trap being handled
  counted,   \* history: timer interrupts counted since the boot
  printed    \* history: calls of print_ticks

kernelVars == <<DEBUG_GRADE, pc, epc, SPIE, SIE, STIE, stvec, timebase, n, ticks,
                is_panic, tf, counted, printed>>
vars == <<kernelVars, sbiVars>>

Boot     == {"clear_bss", "idt_init", "clock_init", "b_cycles", "b_set", "zero_ticks",
             "intr_enable"}
Handler  == {"dispatch", "h_cycles", "h_set", "h_count", "print_ticks", "trapret"}
PanicPCs == {"panic", "panic_msg", "panic_dead", "kmonitor"}
PCs == Boot \cup {"idle"} \cup Handler \cup PanicPCs

NoFrame == [k \in Slots |-> << >>]

TypeOK ==
  /\ SbiTypeOK
  /\ DEBUG_GRADE \in Builds
  /\ pc \in PCs /\ epc \in PCs
  /\ SIE \in BOOLEAN /\ SPIE \in BOOLEAN /\ STIE \in BOOLEAN
  /\ stvec \in {"firmware", "alltraps"}
  /\ timebase \in Nat /\ n \in 0..MaxTime
  /\ ticks \in 0..(TicksMod - 1)
  /\ is_panic \in BOOLEAN
  /\ DOMAIN tf = Slots
  /\ counted \in Nat /\ printed \in Nat

Init ==
  /\ SbiInit
  /\ DEBUG_GRADE \in Builds
  /\ pc = "clear_bss" /\ epc = "idle"
  /\ SIE = FALSE /\ SPIE = FALSE
  /\ STIE \in BootSTIE
  /\ stvec = "firmware"
  /\ ticks \in Garbage
  /\ is_panic \in BOOLEAN
  /\ timebase = 0 /\ n = 0
  /\ tf = NoFrame
  /\ counted = 0 /\ printed = 0

Goto(from, to) == pc = from /\ pc' = to

------------------------------------------------------------------------------
(***************************************************************************)
(* kern_init and clock_init.                                               *)
(***************************************************************************)
\* Mutant of ClearBss: is_panic is not cleared.
ClearBss_KeepPanic ==
  /\ Goto("clear_bss", "idt_init")
  /\ ticks' = 0 /\ timebase' = 0
  /\ UNCHANGED <<DEBUG_GRADE, epc, SPIE, SIE, STIE, stvec, n, is_panic, tf, counted,
                 printed, sbiVars>>

\* memset(edata, 0, end - edata)
ClearBss ==
  /\ Goto("clear_bss", "idt_init")
  /\ ticks' = 0 /\ is_panic' = FALSE /\ timebase' = 0
  /\ UNCHANGED <<DEBUG_GRADE, epc, SPIE, SIE, STIE, stvec, n, tf, counted, printed,
                 sbiVars>>

idt_init ==
  /\ Goto("idt_init", "clock_init")
  /\ stvec' = "alltraps"
  /\ UNCHANGED <<DEBUG_GRADE, epc, SPIE, SIE, STIE, timebase, n, ticks, is_panic, tf,
                 counted, printed, sbiVars>>

\* Mutant of clock_init: interrupts are enabled here, before the first event.
clock_init_Early ==
  /\ Goto("clock_init", "b_cycles")
  /\ timebase' = SBI_TIMEBASE \div 500
  /\ SIE' = TRUE
  /\ UNCHANGED <<DEBUG_GRADE, epc, SPIE, STIE, stvec, n, ticks, is_panic, tf, counted,
                 printed, sbiVars>>

\* timebase = sbi_timebase() / 500
clock_init ==
  /\ Goto("clock_init", "b_cycles")
  /\ timebase' = SBI_TIMEBASE \div 500
  /\ UNCHANGED <<DEBUG_GRADE, epc, SPIE, SIE, STIE, stvec, n, ticks, is_panic, tf,
                 counted, printed, sbiVars>>

\* ticks = 0
ZeroTicks ==
  /\ Goto("zero_ticks", "intr_enable")
  /\ ticks' = 0
  /\ UNCHANGED <<DEBUG_GRADE, epc, SPIE, SIE, STIE, stvec, timebase, n, is_panic, tf,
                 counted, printed, sbiVars>>

intr_enable ==
  /\ Goto("intr_enable", "idle")
  /\ SIE' = TRUE
  /\ UNCHANGED <<DEBUG_GRADE, epc, SPIE, STIE, stvec, timebase, n, ticks, is_panic,
                 tf, counted, printed, sbiVars>>

\* while (1);
idle == pc = "idle" /\ UNCHANGED vars

------------------------------------------------------------------------------
(***************************************************************************)
(* clock_set_next_event: sbi_set_timer(get_cycles() + timebase), called by *)
(* clock_init and by the timer interrupt.  Time passes between the read of *)
(* the counter and the arming of the timer.                                *)
(***************************************************************************)
get_cycles ==
  /\ Goto("b_cycles", "b_set") \/ Goto("h_cycles", "h_set")
  /\ n' = mtime
  /\ UNCHANGED <<DEBUG_GRADE, epc, SPIE, SIE, STIE, stvec, timebase, ticks, is_panic,
                 tf, counted, printed, sbiVars>>

\* Mutant of set_timer: the rate is not divided.
set_timer_Slow ==
  /\ Goto("b_set", "zero_ticks") \/ Goto("h_set", "h_count")
  /\ sbi_set_timer(n + SBI_TIMEBASE)
  /\ UNCHANGED <<DEBUG_GRADE, epc, SPIE, SIE, STIE, stvec, timebase, n, ticks,
                 is_panic, tf, counted, printed>>

\* Mutant of set_timer: the next event is counted from the last one asked for,
\* so that late interrupts are followed by early ones.
set_timer_CatchUp ==
  /\ Goto("b_set", "zero_ticks") \/ Goto("h_set", "h_count")
  /\ sbi_set_timer(mtimecmp + timebase)
  /\ UNCHANGED <<DEBUG_GRADE, epc, SPIE, SIE, STIE, stvec, timebase, n, ticks,
                 is_panic, tf, counted, printed>>

set_timer ==
  /\ Goto("b_set", "zero_ticks") \/ Goto("h_set", "h_count")
  /\ sbi_set_timer(n + timebase)
  /\ UNCHANGED <<DEBUG_GRADE, epc, SPIE, SIE, STIE, stvec, timebase, n, ticks,
                 is_panic, tf, counted, printed>>

------------------------------------------------------------------------------
(***************************************************************************)
(* The timer interrupt.                                                    *)
(***************************************************************************)
\* The hart accepts the interrupt and runs SAVE_ALL.
TimerTrap ==
  /\ STIP /\ STIE /\ SIE
  /\ stvec = "alltraps"
  /\ epc' = pc /\ SPIE' = SIE /\ SIE' = FALSE
  /\ pc' = "dispatch"
  /\ tf' \in Frames(TRUE, IRQ_S_TIMER)
  /\ UNCHANGED <<DEBUG_GRADE, STIE, stvec, timebase, n, ticks, is_panic, counted,
                 printed, sbiVars>>

\* Mutant of trap_dispatch: the timer case does not set the next event.
trap_dispatch_NoRearm ==
  /\ pc = "dispatch"
  /\ pc' = IF Reaction(CField(tf, SlotCause)) = "timer" THEN "h_count" ELSE "trapret"
  /\ UNCHANGED <<DEBUG_GRADE, epc, SPIE, SIE, STIE, stvec, timebase, n, ticks,
                 is_panic, tf, counted, printed, sbiVars>>

\* Mutant of trap_dispatch: the timer case is missing.
trap_dispatch_NoTimer ==
  /\ Goto("dispatch", "trapret")
  /\ UNCHANGED <<DEBUG_GRADE, epc, SPIE, SIE, STIE, stvec, timebase, n, ticks,
                 is_panic, tf, counted, printed, sbiVars>>

trap_dispatch ==
  /\ pc = "dispatch"
  /\ pc' = IF Reaction(CField(tf, SlotCause)) = "timer" THEN "h_cycles" ELSE "trapret"
  /\ UNCHANGED <<DEBUG_GRADE, epc, SPIE, SIE, STIE, stvec, timebase, n, ticks,
                 is_panic, tf, counted, printed, sbiVars>>

\* Mutant of CountTick: ticks does not wrap.
CountTick_Wide ==
  /\ pc = "h_count"
  /\ ticks' = ticks + 1
  /\ counted' = counted + 1
  /\ pc' = IF ticks' % TICK_NUM = 0 THEN "print_ticks" ELSE "trapret"
  /\ UNCHANGED <<DEBUG_GRADE, epc, SPIE, SIE, STIE, stvec, timebase, n, is_panic, tf,
                 printed, sbiVars>>

\* Mutant of CountTick: ticks starts again at each print.
CountTick_Restart ==
  /\ pc = "h_count"
  /\ ticks' = (ticks + 1) % TICK_NUM
  /\ counted' = counted + 1
  /\ pc' = IF ticks' = 0 THEN "print_ticks" ELSE "trapret"
  /\ UNCHANGED <<DEBUG_GRADE, epc, SPIE, SIE, STIE, stvec, timebase, n, is_panic, tf,
                 printed, sbiVars>>

\* Mutant of CountTick: ticks++ instead of ++ticks.
CountTick_Post ==
  /\ pc = "h_count"
  /\ ticks' = (ticks + 1) % TicksMod
  /\ counted' = counted + 1
  /\ pc' = IF ticks % TICK_NUM = 0 THEN "print_ticks" ELSE "trapret"
  /\ UNCHANGED <<DEBUG_GRADE, epc, SPIE, SIE, STIE, stvec, timebase, n, is_panic, tf,
                 printed, sbiVars>>

\* if (++ticks % TICK_NUM == 0) print_ticks()
CountTick ==
  /\ pc = "h_count"
  /\ ticks' = (ticks + 1) % TicksMod
  /\ counted' = counted + 1
  /\ pc' = IF ticks' % TICK_NUM = 0 THEN "print_ticks" ELSE "trapret"
  /\ UNCHANGED <<DEBUG_GRADE, epc, SPIE, SIE, STIE, stvec, timebase, n, is_panic, tf,
                 printed, sbiVars>>

\* Mutant of print_ticks: no panic at the end of a graded run.
print_ticks_NoPanic ==
  /\ Goto("print_ticks", "trapret")
  /\ printed' = printed + 1
  /\ UNCHANGED <<DEBUG_GRADE, epc, SPIE, SIE, STIE, stvec, timebase, n, ticks,
                 is_panic, tf, counted, sbiVars>>

print_ticks ==
  /\ Goto("print_ticks", IF DEBUG_GRADE THEN "panic" ELSE "trapret")
  /\ printed' = printed + 1
  /\ UNCHANGED <<DEBUG_GRADE, epc, SPIE, SIE, STIE, stvec, timebase, n, ticks,
                 is_panic, tf, counted, sbiVars>>

\* RESTORE_ALL and sret
TrapReturn ==
  /\ pc = "trapret"
  /\ pc' = epc /\ SIE' = SPIE /\ SPIE' = TRUE
  /\ tf' = NoFrame
  /\ UNCHANGED <<DEBUG_GRADE, epc, STIE, stvec, timebase, n, ticks, is_panic, counted,
                 printed, sbiVars>>

------------------------------------------------------------------------------
(***************************************************************************)
(* __panic and the monitor it ends in.                                     *)
(***************************************************************************)
\* Mutant of panic: a panic inside a panic is treated like the first.
panic_NoCheck ==
  /\ Goto("panic", "panic_msg")
  /\ is_panic' = TRUE
  /\ UNCHANGED <<DEBUG_GRADE, epc, SPIE, SIE, STIE, stvec, timebase, n, ticks, tf,
                 counted, printed, sbiVars>>

\* if (is_panic) goto panic_dead;  is_panic = 1
panic ==
  /\ Goto("panic", IF is_panic THEN "panic_dead" ELSE "panic_msg")
  /\ is_panic' = TRUE
  /\ UNCHANGED <<DEBUG_GRADE, epc, SPIE, SIE, STIE, stvec, timebase, n, ticks, tf,
                 counted, printed, sbiVars>>

\* The message is printed on the console.
PanicMessage ==
  /\ Goto("panic_msg", "panic_dead")
  /\ UNCHANGED <<DEBUG_GRADE, epc, SPIE, SIE, STIE, stvec, timebase, n, ticks,
                 is_panic, tf, counted, printed, sbiVars>>

\* panic_dead: intr_disable()
intr_disable ==
  /\ Goto("panic_dead", "kmonitor")
  /\ SIE' = FALSE
  /\ UNCHANGED <<DEBUG_GRADE, epc, SPIE, STIE, stvec, timebase, n, ticks, is_panic,
                 tf, counted, printed, sbiVars>>

\* while (1) kmonitor(NULL): a command returns to the prompt, but "backtrace"
\* panics again.
kmonitor ==
  /\ pc = "kmonitor"
  /\ pc' \in {"kmonitor", "panic"}
  /\ UNCHANGED <<DEBUG_GRADE, epc, SPIE, SIE, STIE, stvec, timebase, n, ticks,
                 is_panic, tf, counted, printed, sbiVars>>

------------------------------------------------------------------------------
Instruction ==
  \/ ClearBss \/ idt_init \/ clock_init \/ ZeroTicks \/ intr_enable \/ idle
  \/ get_cycles \/ set_timer
  \/ TimerTrap \/ trap_dispatch \/ CountTick \/ print_ticks \/ TrapReturn
  \/ panic \/ PanicMessage \/ intr_disable \/ kmonitor

Firmware == (AdvanceTime \/ Fire) /\ UNCHANGED kernelVars

Next == Instruction \/ Firmware

Spec == Init /\ [][Next]_vars

\* The hart executes instructions, time passes and the firmware reacts.
Fairness == WF_vars(Instruction) /\ WF_vars(Fire /\ UNCHANGED kernelVars)
                                 /\ WF_vars(AdvanceTime /\ UNCHANGED kernelVars)
FairSpec == Spec /\ Fairness

------------------------------------------------------------------------------
(***************************************************************************)
(* Properties.                                                             *)
(***************************************************************************)
\* Every expiry of the timer is counted once: those the kernel has not
\* counted are pending, or between sbi_set_timer and ++ticks.
Uncounted == (IF STIP THEN 1 ELSE 0) + (IF pc = "h_count" THEN 1 ELSE 0)

NoTickLost == fires = counted + Uncounted

\* Once clock_init has reset it, ticks is the number of timer interrupts
\* counted, modulo 2^32: nothing else writes it (clock.c, trap.c).
TicksAreCounted ==
  pc \notin Boot => ticks = counted % TicksMod

\* print_ticks is called once every TICK_NUM interrupts, as long as ticks has
\* not wrapped.
PrintsEveryTickNum ==
  counted < TicksMod /\ pc # "print_ticks" => printed = counted \div TICK_NUM

\* The clock never runs fast: an expiry comes at least timebase counts after
\* the one before it.
TimerSpaced ==
  [][fires' # fires /\ fires > 0 => mtime >= lastFire + timebase]_vars

\* Once set up the timer is never forgotten: it is armed, and due no later
\* than timebase counts from now, or its interrupt is pending.
TimerAlwaysDue ==
  pc \notin Boot \/ pc \in {"zero_ticks", "intr_enable"}
    => STIP \/ (armed /\ mtimecmp <= mtime + timebase)

\* No interrupt is accepted before the trap vector and the clock are set up,
\* nor while one is being handled, nor after a panic.
InterruptsOnlyWhenIdle == SIE => pc = "idle" /\ stvec = "alltraps" /\ ~is_panic

\* A panic is final: ticks stay as they are and the kernel stays in panic.  One
\* inside it, of the monitor's backtrace, prints no message of its own, so that
\* the message on the screen is that of the first (panic.c:13-15).
PanicIsFinal ==
  [][(pc \in PanicPCs) => /\ pc' \in PanicPCs
                          /\ UNCHANGED <<ticks, SIE>>
                          /\ is_panic => is_panic'
                          /\ is_panic /\ pc' = "panic_msg" => pc = "panic_msg"]_vars

\* The handler always answers the timer: a pending interrupt is cleared by
\* re-arming the timer, unless the kernel has panicked.
TimerServed == STIP ~> (~STIP \/ is_panic)

\* A kernel built for grading stops at its first print: exactly TICK_NUM
\* interrupts are counted, the message is printed once (print_ticks,
\* tools/grade.sh:347-350) ...
GradedRunPrintsOnce ==
  DEBUG_GRADE => printed <= 1 /\ counted <= TICK_NUM /\ (is_panic /\ pc \in PanicPCs => printed = 1)

\* ... and once the timer has gone off TICK_NUM times the run ends in the
\* monitor.
GradedRunEnds == DEBUG_GRADE /\ fires >= TICK_NUM ~> pc = "kmonitor"

\* trap_dispatch acts on the type of trap that occurred: a timer interrupt
\* reaches clock_set_next_event (trap.c:168).  With 64-bit registers the C code
\* takes the upper half of a7 for the cause.
DispatchByType == [][pc = "dispatch" => pc' \in {"dispatch", "h_cycles"}]_vars

\* clock_init enables IRQ_TIMER (clock.c:28-30).
ClockInitEnablesTimer == pc \notin Boot => STIE

------------------------------------------------------------------------------
(***************************************************************************)
(* The invariant behind the properties.                                    *)
(***************************************************************************)
BeforeTimer == {"clear_bss", "idt_init", "clock_init", "b_cycles", "b_set"}

\* The timer is off until clock_init arms it; afterwards it is armed or its
\* interrupt is pending, never both; it stays pending until the handler
\* re-arms it.
TimerInv ==
  /\ pc \in BeforeTimer => ~armed /\ ~STIP /\ fires = 0
  /\ pc \notin BeforeTimer => (armed <=> ~STIP)
  /\ pc \in {"h_cycles", "h_set"} => STIP
  /\ pc = "dispatch" => STIP

\* The counter value the handler read is recent: not older than the expiry.
ClockInv ==
  /\ pc \in {"b_set", "h_set"} => n <= mtime
  /\ pc = "h_set" => lastFire <= n
  /\ lastFire <= mtime
  /\ armed => mtimecmp <= mtime + timebase
  /\ armed /\ fires > 0 => lastFire + timebase <= mtimecmp

\* Interrupts are on in the idle loop and nowhere else.
ControlInv ==
  /\ SIE <=> pc = "idle"
  /\ pc \notin {"clear_bss", "idt_init"} => stvec = "alltraps"
  /\ pc \in Handler => epc = "idle" /\ SPIE
  /\ is_panic => pc \in PanicPCs \cup {"clear_bss"}

KernelInv == TimerInv /\ ClockInv /\ ControlInv /\ NoTickLost
=============================================================================
