---------------------------- MODULE KernelProofs -----------------------------
(***************************************************************************)
(* KernelInv is inductive for every firmware frequency, tick count, width  *)
(* of ticks and of the registers, and every bound on time.                 *)
(***************************************************************************)
EXTENDS Kernel, TLAPS

IInv == TypeOK /\ KernelInv

USE XlenAssumption, MaxTimeAssumption, KernelAssumption

LEMMA TimebaseNat == SBI_TIMEBASE \div 500 \in Nat
  OBVIOUS

\* ticks keeps its width when it wraps.
LEMMA TickWidth == \A t \in 0..(TicksMod - 1) : (t + 1) % TicksMod \in 0..(TicksMod - 1)
  OBVIOUS

LEMMA ZeroTicksInRange == 0 \in 0..(TicksMod - 1)
  OBVIOUS

LEMMA InitInv == Init => IInv
<1> SUFFICES ASSUME Init PROVE IInv
  OBVIOUS
<1>1. armed \in BOOLEAN /\ STIP \in BOOLEAN /\ SIE \in BOOLEAN /\ SPIE \in BOOLEAN
  BY Zenon DEF Init, SbiInit
<1>2. STIE \in BOOLEAN
  BY DEF Init
<1>3. TypeOK
  BY <1>1, <1>2, ZeroTicksInRange DEF Init, SbiInit, TypeOK, SbiTypeOK, PCs, Boot, NoFrame
<1>4. KernelInv
  BY DEF Init, SbiInit, KernelInv, TimerInv, ClockInv, ControlInv, NoTickLost, Uncounted,
         BeforeTimer, Handler, PanicPCs
<1>5. QED
  BY <1>3, <1>4 DEF IInv

LEMMA TypeStep == TypeOK /\ ClockInv /\ [Next]_vars => TypeOK'
<1> SUFFICES ASSUME TypeOK, ClockInv, [Next]_vars PROVE TypeOK'
  OBVIOUS
<1> USE DEF TypeOK, SbiTypeOK, PCs, Boot, Handler, PanicPCs, Goto, kernelVars, sbiVars
<1>1. CASE ClearBss
  <2>1. is_panic' \in BOOLEAN
    BY <1>1, Zenon DEF ClearBss
  <2>2. QED
    BY <1>1, <2>1, ZeroTicksInRange DEF ClearBss
<1>2. CASE idt_init
  BY <1>2 DEF idt_init
<1>3. CASE clock_init
  BY <1>3, TimebaseNat DEF clock_init
<1>4. CASE ZeroTicks
  BY <1>4 DEF ZeroTicks
<1>5. CASE intr_enable
  BY <1>5 DEF intr_enable
<1>6. CASE idle
  BY <1>6 DEF idle, vars
<1>7. CASE get_cycles
  BY <1>7 DEF get_cycles
<1>8. CASE set_timer
  <2>1. STIP' \in BOOLEAN
    BY <1>8, Zenon DEF set_timer, sbi_set_timer
  <2>2. QED
    BY <1>8, <2>1 DEF set_timer, sbi_set_timer
<1>9. CASE TimerTrap
  <2>1. DOMAIN tf' = Slots
    BY <1>9 DEF TimerTrap, Frames
  <2>2. QED
    BY <1>9, <2>1 DEF TimerTrap
<1>10. CASE trap_dispatch
  BY <1>10 DEF trap_dispatch
<1>11. CASE CountTick
  BY <1>11, TickWidth DEF CountTick
<1>12. CASE print_ticks
  BY <1>12 DEF print_ticks
<1>13. CASE TrapReturn
  BY <1>13 DEF TrapReturn, NoFrame
<1>14. CASE panic
  <2>1. is_panic' \in BOOLEAN
    BY <1>14, Zenon DEF panic
  <2>2. QED
    BY <1>14, <2>1 DEF panic
<1>15. CASE intr_disable
  <2>1. SIE' \in BOOLEAN
    BY <1>15, Zenon DEF intr_disable
  <2>2. QED
    BY <1>15, <2>1 DEF intr_disable
<1>16. CASE PanicMessage \/ kmonitor
  BY <1>16 DEF PanicMessage, kmonitor
<1>17. CASE Firmware
  <2>1. CASE Fire /\ UNCHANGED kernelVars
    <3>1. armed' \in BOOLEAN
      BY <2>1, Zenon DEF Fire
    <3>2. QED
      BY <2>1, <3>1 DEF Fire
  <2>2. CASE AdvanceTime /\ UNCHANGED kernelVars
    BY <2>2 DEF AdvanceTime
  <2>3. QED
    BY <1>17, <2>1, <2>2 DEF Firmware
<1>18. CASE UNCHANGED vars
  BY <1>18 DEF vars
<1>19. QED
  BY <1>1, <1>2, <1>3, <1>4, <1>5, <1>6, <1>7, <1>8, <1>9, <1>10, <1>11, <1>12, <1>13, <1>14, <1>15, <1>16, <1>17, <1>18 DEF Next, Instruction

------------------------------------------------------------------------------
\* Where the handler's steps lead.
LEMMA HandlerMoves ==
  ASSUME IInv
  PROVE  /\ TimerTrap => pc = "idle" /\ pc' = "dispatch" /\ STIP
         /\ trap_dispatch => pc = "dispatch" /\ pc' \in {"h_cycles", "trapret"}
         /\ CountTick => pc = "h_count" /\ pc' \in {"print_ticks", "trapret"}
         /\ print_ticks => pc = "print_ticks" /\ pc' \in {"panic", "trapret"}
         /\ TrapReturn => pc = "trapret" /\ pc' = "idle" /\ SIE'
<1>1. TimerTrap => pc = "idle" /\ pc' = "dispatch" /\ STIP
  BY DEF IInv, KernelInv, ControlInv, TimerTrap
<1>2. trap_dispatch => pc = "dispatch" /\ pc' \in {"h_cycles", "trapret"}
  BY DEF trap_dispatch
<1>3. CountTick => pc = "h_count" /\ pc' \in {"print_ticks", "trapret"}
  BY DEF CountTick
<1>4. print_ticks => pc = "print_ticks" /\ pc' \in {"panic", "trapret"}
  BY DEF print_ticks, Goto
<1>5. TrapReturn => pc = "trapret" /\ pc' = "idle" /\ SIE'
  BY DEF TrapReturn, IInv, KernelInv, ControlInv, Handler
<1>6. QED
  BY <1>1, <1>2, <1>3, <1>4, <1>5

\* The timer is off, armed or pending.
LEMMA TimerStep == IInv /\ [Next]_vars => TimerInv'
<1> SUFFICES ASSUME IInv, [Next]_vars PROVE TimerInv'
  OBVIOUS
<1> USE DEF IInv, KernelInv, TimerInv
<1> USE DEF Goto, Boot, BeforeTimer, Handler, PanicPCs, kernelVars, sbiVars
<1>1. CASE ClearBss \/ idt_init \/ clock_init
  BY <1>1 DEF ClearBss, idt_init, clock_init
<1>2. CASE ZeroTicks \/ intr_enable \/ idle
  BY <1>2 DEF ZeroTicks, intr_enable, idle, vars
<1>3. CASE get_cycles
  BY <1>3 DEF get_cycles, TypeOK, SbiTypeOK
<1>4. CASE set_timer
  BY <1>4 DEF set_timer, sbi_set_timer, TypeOK, SbiTypeOK
<1>5. CASE TimerTrap
  BY <1>5, HandlerMoves DEF TimerTrap
<1>6. CASE trap_dispatch
  BY <1>6, HandlerMoves DEF trap_dispatch
<1>7. CASE CountTick
  BY <1>7, HandlerMoves DEF CountTick, TypeOK, SbiTypeOK
<1>8. CASE print_ticks
  BY <1>8, HandlerMoves DEF print_ticks
<1>9. CASE TrapReturn
  BY <1>9, HandlerMoves DEF TrapReturn
<1>10. CASE panic \/ PanicMessage \/ intr_disable \/ kmonitor
  BY <1>10 DEF panic, PanicMessage, intr_disable, kmonitor
<1>11. CASE Firmware
  BY <1>11 DEF Firmware, AdvanceTime, Fire, TypeOK, SbiTypeOK
<1>12. CASE UNCHANGED vars
  BY <1>12 DEF vars
<1>13. QED
  BY <1>1, <1>2, <1>3, <1>4, <1>5, <1>6, <1>7, <1>8, <1>9, <1>10, <1>11, <1>12 DEF Next, Instruction

\* Due times lie a timebase after the expiry before.
LEMMA ClockStep == IInv /\ [Next]_vars => ClockInv'
<1> SUFFICES ASSUME IInv, [Next]_vars PROVE ClockInv'
  OBVIOUS
<1> USE DEF IInv, KernelInv, TimerInv, ClockInv
<1> USE DEF Goto, Boot, BeforeTimer, Handler, PanicPCs, kernelVars, sbiVars
<1>1. CASE ClearBss \/ idt_init \/ clock_init
  BY <1>1 DEF ClearBss, idt_init, clock_init
<1>2. CASE ZeroTicks \/ intr_enable \/ idle
  BY <1>2 DEF ZeroTicks, intr_enable, idle, vars
<1>3. CASE get_cycles
  BY <1>3 DEF get_cycles, TypeOK, SbiTypeOK
<1>4. CASE set_timer
  BY <1>4 DEF set_timer, sbi_set_timer, TypeOK, SbiTypeOK
<1>5. CASE TimerTrap
  BY <1>5, HandlerMoves DEF TimerTrap
<1>6. CASE trap_dispatch
  BY <1>6, HandlerMoves DEF trap_dispatch
<1>7. CASE CountTick
  BY <1>7, HandlerMoves DEF CountTick, TypeOK, SbiTypeOK
<1>8. CASE print_ticks
  BY <1>8, HandlerMoves DEF print_ticks
<1>9. CASE TrapReturn
  BY <1>9, HandlerMoves DEF TrapReturn
<1>10. CASE panic \/ PanicMessage \/ intr_disable \/ kmonitor
  BY <1>10 DEF panic, PanicMessage, intr_disable, kmonitor
<1>11. CASE Firmware
  BY <1>11 DEF Firmware, AdvanceTime, Fire, TypeOK, SbiTypeOK
<1>12. CASE UNCHANGED vars
  BY <1>12 DEF vars
<1>13. QED
  BY <1>1, <1>2, <1>3, <1>4, <1>5, <1>6, <1>7, <1>8, <1>9, <1>10, <1>11, <1>12 DEF Next, Instruction

\* Interrupts are on in the idle loop and nowhere else.
LEMMA ControlStep == IInv /\ [Next]_vars => ControlInv'
<1> SUFFICES ASSUME IInv, [Next]_vars PROVE ControlInv'
  OBVIOUS
<1> USE DEF IInv, KernelInv, ControlInv
<1> USE DEF Goto, Boot, BeforeTimer, Handler, PanicPCs, kernelVars, sbiVars
<1>1. CASE ClearBss \/ idt_init \/ clock_init
  BY <1>1 DEF ClearBss, idt_init, clock_init
<1>2. CASE ZeroTicks \/ intr_enable \/ idle
  BY <1>2 DEF ZeroTicks, intr_enable, idle, vars
<1>3. CASE get_cycles
  BY <1>3 DEF get_cycles, TypeOK, SbiTypeOK
<1>4. CASE set_timer
  BY <1>4 DEF set_timer, sbi_set_timer, TypeOK, SbiTypeOK
<1>5. CASE TimerTrap
  BY <1>5, HandlerMoves DEF TimerTrap
<1>6. CASE trap_dispatch
  BY <1>6, HandlerMoves DEF trap_dispatch
<1>7. CASE CountTick
  BY <1>7, HandlerMoves DEF CountTick, TypeOK, SbiTypeOK
<1>8. CASE print_ticks
  BY <1>8, HandlerMoves DEF print_ticks
<1>9. CASE TrapReturn
  BY <1>9, HandlerMoves DEF TrapReturn
<1>10. CASE panic \/ PanicMessage \/ intr_disable \/ kmonitor
  BY <1>10 DEF panic, PanicMessage, intr_disable, kmonitor
<1>11. CASE Firmware
  BY <1>11 DEF Firmware, AdvanceTime, Fire, TypeOK, SbiTypeOK
<1>12. CASE UNCHANGED vars
  BY <1>12 DEF vars
<1>13. QED
  BY <1>1, <1>2, <1>3, <1>4, <1>5, <1>6, <1>7, <1>8, <1>9, <1>10, <1>11, <1>12 DEF Next, Instruction

\* Every expiry is counted or about to be.
LEMMA TickStep == IInv /\ [Next]_vars => NoTickLost'
<1> SUFFICES ASSUME IInv, [Next]_vars PROVE NoTickLost'
  OBVIOUS
<1> USE DEF IInv, KernelInv, TimerInv, NoTickLost, Uncounted
<1> USE DEF Goto, Boot, BeforeTimer, Handler, PanicPCs, kernelVars, sbiVars
<1>1. CASE ClearBss \/ idt_init \/ clock_init
  BY <1>1 DEF ClearBss, idt_init, clock_init
<1>2. CASE ZeroTicks \/ intr_enable \/ idle
  BY <1>2 DEF ZeroTicks, intr_enable, idle, vars
<1>3. CASE get_cycles
  BY <1>3 DEF get_cycles, TypeOK, SbiTypeOK
<1>4. CASE set_timer
  BY <1>4 DEF set_timer, sbi_set_timer, TypeOK, SbiTypeOK
<1>5. CASE TimerTrap
  BY <1>5, HandlerMoves DEF TimerTrap
<1>6. CASE trap_dispatch
  BY <1>6, HandlerMoves DEF trap_dispatch
<1>7. CASE CountTick
  BY <1>7, HandlerMoves DEF CountTick, TypeOK, SbiTypeOK
<1>8. CASE print_ticks
  BY <1>8, HandlerMoves DEF print_ticks
<1>9. CASE TrapReturn
  BY <1>9, HandlerMoves DEF TrapReturn
<1>10. CASE panic \/ PanicMessage \/ intr_disable \/ kmonitor
  BY <1>10 DEF panic, PanicMessage, intr_disable, kmonitor
<1>11. CASE Firmware
  BY <1>11 DEF Firmware, AdvanceTime, Fire, TypeOK, SbiTypeOK
<1>12. CASE UNCHANGED vars
  BY <1>12 DEF vars
<1>13. QED
  BY <1>1, <1>2, <1>3, <1>4, <1>5, <1>6, <1>7, <1>8, <1>9, <1>10, <1>11, <1>12 DEF Next, Instruction

------------------------------------------------------------------------------
LEMMA SpecIInv == Spec => []IInv
<1>1. IInv /\ [Next]_vars => IInv'
  BY TypeStep, TimerStep, ClockStep, ControlStep, TickStep DEF IInv, KernelInv
<1>2. QED
  BY InitInv, <1>1, PTL DEF Spec

\* The variables of kernel, timer and trapframe keep their types; ticks keeps
\* to 32 bits.
THEOREM TypeCorrect == Spec => []TypeOK
<1>1. IInv => TypeOK
  BY DEF IInv
<1>2. QED
  BY <1>1, SpecIInv, PTL

\* The inductive invariant of the kernel.
THEOREM KernelInvHolds == Spec => []KernelInv
<1>1. IInv => KernelInv
  BY DEF IInv
<1>2. QED
  BY <1>1, SpecIInv, PTL

\* No expiry of the timer is lost or counted twice.
THEOREM NoTickIsLost == Spec => []NoTickLost
<1>1. IInv => NoTickLost
  BY DEF IInv, KernelInv
<1>2. QED
  BY <1>1, SpecIInv, PTL

\* After clock_init the timer is armed within a timebase, or pending.
THEOREM TimerNeverForgotten == Spec => []TimerAlwaysDue
<1>1. IInv => TimerAlwaysDue
  BY DEF IInv, KernelInv, TimerInv, ClockInv, TimerAlwaysDue, BeforeTimer, Boot, TypeOK, SbiTypeOK
<1>2. QED
  BY <1>1, SpecIInv, PTL

\* Interrupts are accepted in the idle loop only, after set-up, never after a
\* panic.
THEOREM InterruptsGuarded == Spec => []InterruptsOnlyWhenIdle
<1>1. IInv => InterruptsOnlyWhenIdle
  BY DEF IInv, KernelInv, ControlInv, InterruptsOnlyWhenIdle, PanicPCs
<1>2. QED
  BY <1>1, SpecIInv, PTL

\* Two expiries are at least a timebase apart.
THEOREM Spacing == Spec => TimerSpaced
<1>1. ASSUME IInv, [Next]_vars
      PROVE  [fires' # fires /\ fires > 0 => mtime >= lastFire + timebase]_vars
  <2>1. SUFFICES ASSUME Next, fires' # fires, fires > 0
                 PROVE  mtime >= lastFire + timebase
    BY <1>1
  <2>2. Fire
    BY <2>1 DEF Next, Instruction, Firmware, AdvanceTime, ClearBss, idt_init, clock_init,
         ZeroTicks, intr_enable, idle, vars, get_cycles, set_timer, sbi_set_timer, TimerTrap,
         trap_dispatch, CountTick, print_ticks, TrapReturn, panic, PanicMessage, intr_disable,
         kmonitor, sbiVars
  <2>3. armed /\ mtime >= mtimecmp /\ lastFire + timebase <= mtimecmp
    BY <1>1, <2>1, <2>2 DEF Fire, IInv, KernelInv, ClockInv
  <2>4. QED
    BY <1>1, <2>3 DEF IInv, TypeOK, SbiTypeOK
<1>2. QED
  BY <1>1, SpecIInv, PTL DEF Spec, TimerSpaced

\* Once in __panic the kernel stays there: ticks and SIE no longer change, and
\* a panic inside it prints no message.
THEOREM PanicFinal == Spec => PanicIsFinal
<1>1. ASSUME IInv, [Next]_vars
      PROVE  [(pc \in PanicPCs) => /\ pc' \in PanicPCs
                                   /\ UNCHANGED <<ticks, SIE>>
                                   /\ is_panic => is_panic'
                                   /\ is_panic /\ pc' = "panic_msg"
                                        => pc = "panic_msg"]_vars
  <2>1. SUFFICES ASSUME pc \in PanicPCs, Next
                 PROVE  /\ pc' \in PanicPCs
                        /\ UNCHANGED <<ticks, SIE>>
                        /\ is_panic => is_panic'
                        /\ is_panic /\ pc' = "panic_msg" => pc = "panic_msg"
    BY <1>1
  <2>2. ~SIE /\ SIE \in BOOLEAN
    BY <1>1, <2>1 DEF IInv, KernelInv, ControlInv, TypeOK, PanicPCs
  <2>3. CASE panic \/ PanicMessage \/ kmonitor
    BY <2>3 DEF panic, PanicMessage, kmonitor, Goto, PanicPCs
  <2>4. CASE intr_disable
    <3>1. SIE' = SIE
      BY <2>2, <2>4, Zenon DEF intr_disable
    <3>2. QED
      BY <3>1, <2>4 DEF intr_disable, Goto, PanicPCs
  <2>5. CASE Firmware
    BY <2>1, <2>5 DEF Firmware, kernelVars
  <2>6. ~(TimerTrap \/ trap_dispatch \/ CountTick \/ print_ticks \/ TrapReturn)
    BY <2>1, <2>2 DEF TimerTrap, trap_dispatch, CountTick, print_ticks, TrapReturn, Goto, PanicPCs
  <2>7. ~(ClearBss \/ idt_init \/ clock_init \/ ZeroTicks \/ intr_enable \/ idle
             \/ get_cycles \/ set_timer)
    BY <2>1 DEF ClearBss, idt_init, clock_init, ZeroTicks, intr_enable, idle, get_cycles,
         set_timer, Goto, PanicPCs
  <2>8. QED
    BY <2>1, <2>3, <2>4, <2>5, <2>6, <2>7 DEF Next, Instruction
<1>2. QED
  BY <1>1, SpecIInv, PTL DEF Spec, PanicIsFinal
------------------------------------------------------------------------------
(***************************************************************************)
(* Counting.  TickInv: until it wraps, ticks is the number of interrupts   *)
(* counted, and the print of a multiple of TICK_NUM is not forgotten.      *)
(* GradeInv: a graded kernel leaves its idle loop for ever at the first    *)
(* print.                                                                  *)
(***************************************************************************)
TickInv ==
  /\ pc \in Boot => counted = 0 /\ printed = 0
  /\ pc = "intr_enable" => ticks = 0
  /\ TicksAreCounted
  /\ counted < TicksMod =>
       printed = counted \div TICK_NUM - (IF pc = "print_ticks" THEN 1 ELSE 0)

GradeInv ==
  DEBUG_GRADE =>
    /\ pc \notin PanicPCs \cup {"print_ticks"} => counted < TICK_NUM /\ counted < TicksMod
    /\ printed = IF pc \in PanicPCs THEN 1 ELSE 0
    /\ counted <= TICK_NUM

LEMMA SmallMod == ASSUME NEW m \in Nat \ {0}, NEW k \in 0..(m - 1) PROVE k % m = k
OBVIOUS

LEMMA QuotientAndRest ==
  ASSUME NEW m \in Nat \ {0}, NEW q \in Nat, NEW r \in 0..(m - 1)
  PROVE  (m * q + r) % m = r
OBVIOUS

\* Counting modulo m.
LEMMA SuccMod ==
  ASSUME NEW m \in Nat \ {0}, NEW c \in Nat
  PROVE  ((c % m) + 1) % m = (c + 1) % m
<1> DEFINE q == c \div m
           r == c % m
<1>1. c = m * q + r /\ r \in 0..(m - 1) /\ q \in Nat
  OBVIOUS
<1> HIDE DEF q, r
<1>2. CASE r + 1 < m
  <2>1. c + 1 = m * q + (r + 1) /\ r + 1 \in 0..(m - 1)
    BY <1>1, <1>2
  <2>2. (c + 1) % m = r + 1
    BY <1>1, <2>1, QuotientAndRest
  <2>3. QED
    BY <2>1, <2>2, SmallMod DEF r
<1>3. CASE r + 1 = m
  <2>1. c + 1 = m * (q + 1) + 0 /\ 0 \in 0..(m - 1) /\ q + 1 \in Nat
    BY <1>1, <1>3
  <2>2. (c + 1) % m = 0
    BY <2>1, QuotientAndRest
  <2>3. m % m = 0
    OBVIOUS
  <2>4. QED
    BY <1>3, <2>2, <2>3 DEF r
<1>4. QED
  BY <1>1, <1>2, <1>3

\* A print falls due when the quotient grows.
LEMMA SuccDiv ==
  ASSUME NEW m \in Nat \ {0}, NEW c \in Nat
  PROVE  /\ (c + 1) % m = 0 => (c + 1) \div m = (c \div m) + 1
         /\ (c + 1) % m # 0 => (c + 1) \div m = c \div m
OBVIOUS

LEMMA CountStep ==
  ASSUME IInv, TickInv, CountTick
  PROVE  TickInv'
<1>1. counted' = counted + 1 /\ ticks' = (ticks + 1) % TicksMod /\ printed' = printed
      /\ counted \in Nat /\ pc = "h_count" /\ ticks = counted % TicksMod
      /\ pc' = IF ticks' % TICK_NUM = 0 THEN "print_ticks" ELSE "trapret"
  BY DEF CountTick, TickInv, TicksAreCounted, IInv, TypeOK, Boot
<1>2. ticks' = counted' % TicksMod
  BY <1>1, SuccMod
<1>3. ASSUME counted' < TicksMod
      PROVE  printed' = counted' \div TICK_NUM - (IF pc' = "print_ticks" THEN 1 ELSE 0)
  <2>1. counted < TicksMod /\ counted' \in 0..(TicksMod - 1)
    BY <1>1, <1>3
  <2>2. ticks' = counted + 1
    BY <1>1, <1>2, <2>1, SmallMod
  <2>3. counted \div TICK_NUM \in Nat
    BY <1>1
  <2>4. printed = counted \div TICK_NUM - (IF pc = "print_ticks" THEN 1 ELSE 0)
    BY <2>1 DEF TickInv
  <2>5. printed = counted \div TICK_NUM
    BY <1>1, <2>3, <2>4
  <2>6. (counted + 1) % TICK_NUM = 0 => (counted + 1) \div TICK_NUM = counted \div TICK_NUM + 1
    BY <1>1, SuccDiv
  <2>7. (counted + 1) % TICK_NUM # 0 => (counted + 1) \div TICK_NUM = counted \div TICK_NUM
    BY <1>1, SuccDiv
  <2>8. QED
    BY <1>1, <2>2, <2>3, <2>5, <2>6, <2>7
<1>4. pc' \notin Boot
  BY <1>1 DEF Boot
<1>5. QED
  BY <1>2, <1>3, <1>4 DEF TickInv, TicksAreCounted, Boot

LEMMA TickInit == Init => TickInv /\ GradeInv
<1>1. 0 % TicksMod = 0 /\ 0 \div TICK_NUM = 0
  OBVIOUS
<1>2. QED
  BY <1>1 DEF Init, TickInv, GradeInv, TicksAreCounted, Boot, PanicPCs

LEMMA TickInvStep == IInv /\ TickInv /\ [Next]_vars => TickInv'
<1> SUFFICES ASSUME IInv, TickInv, [Next]_vars PROVE TickInv'
  OBVIOUS
<1> USE DEF TickInv, TicksAreCounted, Goto, Boot
<1>0. 0 % TicksMod = 0
  OBVIOUS
<1>1. CASE ClearBss \/ idt_init \/ clock_init
  BY <1>1 DEF ClearBss, idt_init, clock_init
<1>2. CASE ZeroTicks \/ intr_enable \/ idle
  BY <1>0, <1>2 DEF ZeroTicks, intr_enable, idle, vars, kernelVars
<1>3. CASE get_cycles \/ set_timer
  BY <1>3 DEF get_cycles, set_timer
<1>4. CASE TimerTrap \/ trap_dispatch
  BY <1>4, HandlerMoves DEF TimerTrap, trap_dispatch
<1>5. CASE CountTick
  BY <1>5, CountStep
<1>6. CASE print_ticks
  BY <1>6, HandlerMoves DEF print_ticks, IInv, TypeOK
<1>7. CASE TrapReturn
  BY <1>7, HandlerMoves DEF TrapReturn
<1>8. CASE panic \/ PanicMessage \/ intr_disable \/ kmonitor
  BY <1>8 DEF panic, PanicMessage, intr_disable, kmonitor
<1>9. CASE Firmware \/ UNCHANGED vars
  BY <1>9 DEF Firmware, kernelVars, vars
<1>10. QED
  BY <1>1, <1>2, <1>3, <1>4, <1>5, <1>6, <1>7, <1>8, <1>9 DEF Next, Instruction

\* A kernel stays the build it is.
LEMMA SameBuild == [Next]_vars => UNCHANGED DEBUG_GRADE
BY DEF Next, Instruction, Firmware, kernelVars, vars, ClearBss, idt_init, clock_init,
       ZeroTicks, intr_enable, idle, get_cycles, set_timer, TimerTrap, trap_dispatch,
       CountTick, print_ticks, TrapReturn, panic, PanicMessage, intr_disable, kmonitor

LEMMA GradeStep == IInv /\ TickInv /\ GradeInv /\ [Next]_vars => GradeInv'
<1> SUFFICES ASSUME IInv, TickInv, GradeInv, [Next]_vars, DEBUG_GRADE PROVE GradeInv'
  BY SameBuild DEF GradeInv
<1> USE DEF GradeInv, Goto, PanicPCs
<1>1. CASE ClearBss \/ idt_init \/ clock_init
  BY <1>1 DEF ClearBss, idt_init, clock_init
<1>2. CASE ZeroTicks \/ intr_enable \/ idle
  BY <1>2 DEF ZeroTicks, intr_enable, idle, vars, kernelVars
<1>3. CASE get_cycles \/ set_timer
  BY <1>3 DEF get_cycles, set_timer
<1>4. CASE TimerTrap \/ trap_dispatch
  BY <1>4, HandlerMoves DEF TimerTrap, trap_dispatch
<1>5. CASE CountTick
  <2>1. /\ pc = "h_count" /\ counted' = counted + 1 /\ printed' = printed /\ counted \in Nat
        /\ pc' = IF ticks' % TICK_NUM = 0 THEN "print_ticks" ELSE "trapret"
    BY <1>5 DEF CountTick, IInv, TypeOK
  <2>2. counted < TICK_NUM /\ counted < TicksMod
    BY <2>1
  <2>3. TickInv'
    BY <1>5, CountStep
  <2>4. ticks' = counted' % TicksMod
    BY <2>1, <2>3 DEF TickInv, TicksAreCounted, Boot
  <2>5. CASE counted' = TicksMod
    <3>1. ticks' % TICK_NUM = 0
      <4>1. TicksMod % TicksMod = 0 /\ 0 % TICK_NUM = 0
        OBVIOUS
      <4>2. QED
        BY <2>4, <2>5, <4>1
    <3>2. QED
      BY <2>1, <2>2, <3>1
  <2>6. CASE counted' # TicksMod
    <3>1. counted' \in 0..(TicksMod - 1)
      BY <2>1, <2>2, <2>6
    <3>2. ticks' = counted'
      BY <2>4, <3>1, SmallMod
    <3>3. counted' = TICK_NUM => ticks' % TICK_NUM = 0
      <4>1. TICK_NUM % TICK_NUM = 0
        OBVIOUS
      <4>2. QED
        BY <3>2, <4>1
    <3>4. QED
      BY <2>1, <2>2, <3>1, <3>3
  <2>7. QED
    BY <2>5, <2>6
<1>6. CASE print_ticks
  BY <1>6 DEF print_ticks
<1>7. CASE TrapReturn
  BY <1>7, HandlerMoves DEF TrapReturn
<1>8. CASE panic \/ PanicMessage \/ intr_disable \/ kmonitor
  BY <1>8 DEF panic, PanicMessage, intr_disable, kmonitor
<1>9. CASE Firmware \/ UNCHANGED vars
  BY <1>9 DEF Firmware, kernelVars, vars
<1>10. QED
  BY <1>1, <1>2, <1>3, <1>4, <1>5, <1>6, <1>7, <1>8, <1>9 DEF Next, Instruction

LEMMA SpecTickInv == Spec => [](IInv /\ TickInv /\ GradeInv)
<1>1. Init => IInv /\ TickInv /\ GradeInv
  BY InitInv, TickInit
<1>2. IInv /\ TickInv /\ GradeInv /\ [Next]_vars => TickInv' /\ GradeInv'
  BY TickInvStep, GradeStep
<1>3. QED
  BY <1>1, <1>2, SpecIInv, PTL DEF Spec

\* After the boot ticks is the number of interrupts counted, modulo its width.
THEOREM TicksCounted == Spec => []TicksAreCounted
<1>1. TickInv => TicksAreCounted
  BY DEF TickInv
<1>2. QED
  BY <1>1, SpecTickInv, PTL

\* As long as ticks has not wrapped, every TICK_NUMth interrupt is announced
\* once, and no other.
THEOREM PrintsAreRegular == Spec => []PrintsEveryTickNum
<1>1. IInv /\ TickInv => PrintsEveryTickNum
  BY DEF TickInv, PrintsEveryTickNum, IInv, TypeOK
<1>2. QED
  BY <1>1, SpecTickInv, PTL

\* A graded kernel counts TICK_NUM interrupts at most and prints once.
THEOREM GradedRunCounts == Spec => []GradedRunPrintsOnce
<1>1. GradeInv => GradedRunPrintsOnce
  BY DEF GradeInv, GradedRunPrintsOnce
<1>2. QED
  BY <1>1, SpecTickInv, PTL
=============================================================================
