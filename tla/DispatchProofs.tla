--------------------------- MODULE DispatchProofs ----------------------------
(***************************************************************************)
(* The kernel never gets out of a trap it does not answer, for every loop, *)
(* timebase, set of exceptions and register width.  DispatchInv: a trap    *)
(* knows the instruction it interrupted, a timer that is not armed has     *)
(* gone off, and with 64-bit registers the timer is never recognised.      *)
(***************************************************************************)
EXTENDS Dispatch, TLAPS

DispatchInv ==
  /\ TypeOK
  /\ pc # "code" => epc = at
  /\ ~armed => TIMER \in sip
  /\ pc = "dispatch" =>
       \E interrupt \in BOOLEAN, code \in Nat : tf \in Frames(interrupt, code)
  /\ pc = "timer" => xlen = 32

USE DispatchAssumption

------------------------------------------------------------------------------
\* With 64-bit registers C reads the cause out of the upper half of a7, and
\* finds the timer's in none of the values compiled code leaves there.
LEMMA NoTimer64 ==
  ASSUME NEW interrupt \in BOOLEAN, NEW code \in Nat,
         NEW f \in Frame64!Frames(interrupt, code)
  PROVE  Frame64!Reaction(Frame64!CField(f, Frame64!SlotCause)) # "timer"
<1>1. PICK negative \in BOOLEAN :
        f[17] = [i \in 1..2 |-> Frame64!Small(negative)]
  <2>1. PICK a7 \in Frame64!A7Regs :
          f = [k \in Frame64!Slots |->
                 IF k = Frame64!SlotCause THEN Frame64!CauseReg(interrupt, code) ELSE a7]
    BY DEF Frame64!Frames
  <2>2. 17 \in Frame64!Slots /\ 17 # Frame64!SlotCause
    BY DEF Frame64!Slots, Frame64!SlotA7, Frame64!SlotCause
  <2>3. f[17] = a7
    BY <2>1, <2>2
  <2>4. 64 \div 32 = 2
    OBVIOUS
  <2>5. QED
    BY <2>3, <2>4 DEF Frame64!A7Regs
<1>2. Frame64!CField(f, Frame64!SlotCause) = f[17][2]
  BY DEF Frame64!CField, Frame64!SizeofUintptr, Frame64!REGBYTES, Frame64!SlotCause
<1>3. f[17][2] = Frame64!Small(negative)
  BY <1>1
<1>4. QED
  BY <1>2, <1>3 DEF Frame64!Small, Frame64!MaxLow, Frame64!Reaction,
     Frame64!InterruptReaction, Frame64!ExceptionReaction, Frame64!IRQ_S_TIMER

LEMMA InitInv == Init => DispatchInv
BY DEF Init, DispatchInv, TypeOK, Sip, Loop

------------------------------------------------------------------------------
\* The hart and its environment.
LEMMA EnvironmentInv ==
  ASSUME DispatchInv, Fire \/ Raise
  PROVE  DispatchInv'
<1>1. armed' \in BOOLEAN
  BY Zenon DEF DispatchInv, TypeOK, Fire, Raise
<1>2. sip' \subseteq Sip /\ (~armed' => TIMER \in sip')
  BY DEF DispatchInv, TypeOK, Fire, Raise, Sip
<1>3. UNCHANGED <<build, left, pc, at, epc, tf>>
  BY DEF Fire, Raise
<1>4. QED
  BY <1>1, <1>2, <1>3 DEF DispatchInv, TypeOK, build, Frames

LEMMA StepInv ==
  ASSUME DispatchInv, Step
  PROVE  DispatchInv'
BY DEF DispatchInv, TypeOK, Step, Succ, Passes, build, Loop

LEMMA TrapInv ==
  ASSUME DispatchInv, Exception \/ Interrupt
  PROVE  DispatchInv'
<1>1. \E interrupt \in BOOLEAN, code \in Nat :
        Trap(interrupt, code) /\ left' \in 0..timebase
  <2>1. CASE Exception
    <3>1. raises[at] \in Faults \cup {None} /\ raises[at] # None
      BY <2>1 DEF DispatchInv, TypeOK, Exception
    <3>2. raises[at] \in Nat /\ FALSE \in BOOLEAN
      BY <3>1
    <3>3. left' \in 0..timebase
      BY <2>1 DEF DispatchInv, TypeOK, Exception, Passes
    <3>4. QED
      BY <2>1, <3>2, <3>3 DEF Exception
  <2>2. CASE Interrupt
    <3>1. PICK irq \in Taken : Trap(TRUE, irq)
      BY <2>2 DEF Interrupt
    <3>2. irq \in Nat
      BY <3>1 DEF DispatchInv, TypeOK, Taken, Sip, SOFT, TIMER, EXT
    <3>3. QED
      BY <2>2, <3>1, <3>2 DEF DispatchInv, TypeOK, Interrupt
  <2>3. QED
    BY <2>1, <2>2
<1>2. PICK interrupt \in BOOLEAN, code \in Nat :
        Trap(interrupt, code) /\ left' \in 0..timebase
  BY <1>1
<1>3. TypeOK'
  BY <1>2 DEF DispatchInv, TypeOK, Trap, build
<1>4. tf' \in Frames(interrupt, code)'
  BY <1>2 DEF Trap, Frames, build
<1>5. QED
  BY <1>2, <1>3, <1>4 DEF DispatchInv, Trap

------------------------------------------------------------------------------
\* The handler.
LEMMA HandlerInv ==
  ASSUME DispatchInv, trap_dispatch \/ clock_set_next_event \/ TrapReturn
  PROVE  DispatchInv'
<1>1. CASE trap_dispatch
  <2>1. pc' = "timer" => xlen = 32
    BY <1>1, NoTimer64 DEF DispatchInv, TypeOK, trap_dispatch, Frames, Reaction
  <2>2. QED
    BY <1>1, <2>1 DEF DispatchInv, TypeOK, trap_dispatch, build
<1>2. CASE clock_set_next_event
  BY <1>2 DEF DispatchInv, TypeOK, clock_set_next_event, build
<1>3. CASE TrapReturn
  BY <1>3 DEF DispatchInv, TypeOK, TrapReturn, build
<1>4. QED
  BY <1>1, <1>2, <1>3

LEMMA NextInv == DispatchInv /\ [Next]_vars => DispatchInv'
<1> SUFFICES ASSUME DispatchInv, [Next]_vars PROVE DispatchInv'
  OBVIOUS
<1>1. CASE UNCHANGED vars
  BY <1>1 DEF DispatchInv, TypeOK, vars, build, Frames
<1>2. CASE Next
  BY <1>2, EnvironmentInv, StepInv, TrapInv, HandlerInv DEF Next, Hart
<1>3. QED
  BY <1>1, <1>2

LEMMA SpecInv == Spec => []DispatchInv
BY InitInv, NextInv, PTL DEF Spec

------------------------------------------------------------------------------
\* The state of the dispatch keeps its types, for every loop and timebase.
THEOREM TypeCorrect == Spec => []TypeOK
<1>1. DispatchInv => TypeOK
  BY DEF DispatchInv
<1>2. QED
  BY <1>1, SpecInv, PTL

\* A trap the kernel does not answer is taken for ever: the interrupted code
\* never executes another instruction.
THEOREM StormNeverEnds == Spec => StormIsFinal
<1>1. ASSUME DispatchInv, [Next]_vars, Storm
      PROVE  Storm' /\ at' = at
  <2>1. CASE UNCHANGED vars
    BY <1>1, <2>1 DEF Storm, Taken, Unanswered, vars, build
  <2>2. CASE Fire \/ Raise
    BY <1>1, <2>2 DEF Storm, Taken, Unanswered, Fire, Raise, build
  <2>3. ~Step
    BY <1>1 DEF DispatchInv, TypeOK, Storm, Step, Taken, Due
  <2>4. CASE Exception \/ Interrupt
    BY <1>1, <2>4 DEF Storm, Taken, Unanswered, Exception, Interrupt, Trap, build
  <2>5. CASE trap_dispatch \/ TrapReturn
    BY <1>1, <2>5 DEF DispatchInv, Storm, Taken, Unanswered, trap_dispatch, TrapReturn, build
  <2>6. CASE clock_set_next_event
    BY <1>1, <2>6 DEF DispatchInv, Storm, Taken, Unanswered, clock_set_next_event, build,
       SOFT, TIMER, EXT
  <2>7. QED
    BY <1>1, <2>1, <2>2, <2>3, <2>4, <2>5, <2>6 DEF Next, Hart
<1>2. DispatchInv /\ [Next]_vars => [Storm => Storm' /\ at' = at]_vars
  BY <1>1
<1>3. QED
  BY <1>2, SpecInv, PTL DEF Spec, StormIsFinal
=============================================================================
