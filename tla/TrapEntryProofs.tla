--------------------------- MODULE TrapEntryProofs ---------------------------
(***************************************************************************)
(* TrapInv is inductive, for every size of the stack and of the C frames,  *)
(* every register set and every nesting the stack has room for.  From it   *)
(* follow the properties of TrapEntry and the refinement of TrapSpec.      *)
(***************************************************************************)
EXTENDS TrapEntry, SequenceTheorems, TLAPS

\* Everything a register or a word of memory may hold.
Word == {Junk} \cup Nat \cup PCs
          \cup {t.cause : t \in Traps} \cup {t.badvaddr : t \in Traps}
          \cup [SIE : BOOLEAN, SPIE : BOOLEAN, SPP : {"S", "U"}]
          \cup {f[i] : f \in RegFiles, i \in XRegs}

RegFile == [XRegs -> Word]

Contexts == [pc : PCs, sp : 0..StackTop, x : RegFile, sie : BOOLEAN, priv : {"S", "U"}]

TypeInv ==
  /\ pc \in PCs
  /\ sp \in 0..StackTop
  /\ x \in RegFile
  /\ sstatus \in [SIE : BOOLEAN, SPIE : BOOLEAN, SPP : {"S", "U"}]
  /\ priv \in {"S", "U"}
  /\ sepc \in Word /\ sbadaddr \in Word /\ scause \in Word /\ sscratch \in Word
  /\ mem \in [Addr -> Word]
  /\ ctx \in Seq(Contexts)
  /\ traps \in Seq(Traps)

IInv == TypeInv /\ TrapInv

USE RegAssumption, StackAssumption

\* What the registers contain after boot and after any C code is a word.
LEMMA RegFilesAreRegFile == RegFiles \subseteq RegFile
<1>1. SUFFICES ASSUME NEW f \in RegFiles
               PROVE  f \in RegFile
  OBVIOUS
<1>2. f = [i \in XRegs |-> f[i]]
  BY FileAssumption
<1>3. \A i \in XRegs : f[i] \in Word
  BY DEF Word
<1>4. QED
  BY <1>2, <1>3 DEF RegFile

\* Pushing a suspended context leaves the older ones where they are.
LEMMA Push ==
  ASSUME NEW S, NEW s \in Seq(S), NEW e \in S
  PROVE  /\ Append(s, e) \in Seq(S)
         /\ Len(Append(s, e)) = Len(s) + 1
         /\ Append(s, e)[Len(s) + 1] = e
         /\ \A k \in 1..Len(s) : Append(s, e)[k] = s[k]
  OBVIOUS

\* Popping it does too.
LEMMA Pop ==
  ASSUME NEW S, NEW s \in Seq(S), Len(s) > 0
  PROVE  /\ SubSeq(s, 1, Len(s) - 1) \in Seq(S)
         /\ Len(SubSeq(s, 1, Len(s) - 1)) = Len(s) - 1
         /\ \A k \in 1..(Len(s) - 1) : SubSeq(s, 1, Len(s) - 1)[k] = s[k]
<1>1. Len(s) - 1 \in Nat
  BY LenProperties
<1>2. ASSUME NEW n \in Nat, \A i \in 1..n : s[i] \in S
      PROVE  SubSeq(s, 1, n) \in Seq(S) /\ Len(SubSeq(s, 1, n)) = n
  BY <1>2, SubSeqProperties
<1>3. ASSUME NEW k \in 1..(Len(s) - 1)
      PROVE  SubSeq(s, 1, Len(s) - 1)[k] = s[k]
  OBVIOUS
<1>4. \A i \in 1..(Len(s) - 1) : s[i] \in S
  BY ElementOfSeq, LenProperties
<1>5. QED
  BY <1>1, <1>2, <1>3, <1>4

LEMMA InitInv == Init => IInv
<1> SUFFICES ASSUME Init PROVE IInv
  OBVIOUS
<1>1. TypeInv
  BY RegFilesAreRegFile DEF Init, TypeInv, PCs, Word, Addr
<1>2. Chain
  BY DEF Init, Chain, Depth
<1>3. AtPc /\ NoInterruptInTrap /\ SuspendedFramesIntact
  BY DEF Init, AtPc, NoInterruptInTrap, SuspendedFramesIntact, Depth
<1>4. QED
  BY <1>1, <1>2, <1>3 DEF IInv, TrapInv

------------------------------------------------------------------------------
\* Steps that neither push nor pop a context nor write memory leave the
\* suspended frames alone.
LEMMA FramesUntouched ==
  ASSUME SuspendedFramesIntact, UNCHANGED <<mem, ctx, traps>>
  PROVE  SuspendedFramesIntact'
  BY DEF SuspendedFramesIntact, FrameHolds, Depth, Frame, SavedStatus

\* Chain speaks of the suspended contexts, and of pc only to tell whether
\* there is one.
LEMMA ChainUntouched ==
  ASSUME Chain, UNCHANGED <<ctx, traps>>,
         pc' \in {"boot", "main"} <=> pc \in {"boot", "main"}
  PROVE  Chain'
  BY DEF Chain, Depth, Frame

\* The newest suspended context and its trap exist and are typed.
LEMMA TopTyped ==
  ASSUME IInv, Depth # 0
  PROVE  /\ Depth \in Nat \ {0} /\ Depth \in 1..Depth
         /\ Top \in Contexts
         /\ Top.priv = "S"
         /\ Top.sp \in Nat /\ Top.sp >= FrameSlots + CSlots /\ Top.sp <= StackTop
         /\ TopTrap \in Traps
         /\ Frame(Depth) = Top.sp - FrameSlots
         /\ Frame(Depth) \in Nat
         /\ \A i \in 0..(FrameSlots - 1) : Frame(Depth) + i \in Addr
<1>1. Depth \in Nat \ {0} /\ Depth \in 1..Depth
  BY DEF IInv, TypeInv, Depth
<1>2. Top \in Contexts /\ TopTrap \in Traps
  BY <1>1, ElementOfSeq DEF IInv, TypeInv, TrapInv, Chain, Top, TopTrap, Depth
<1>3. Top.priv = "S" /\ Top.sp >= FrameSlots + CSlots
  BY <1>1 DEF IInv, TrapInv, Chain, Top
<1>4. Top.sp \in 0..StackTop
  BY <1>2 DEF Contexts
<1>5. Frame(Depth) = Top.sp - FrameSlots
  BY DEF Frame, Top
<1>6. QED
  BY <1>1, <1>2, <1>3, <1>4, <1>5 DEF FrameSlots, Addr

------------------------------------------------------------------------------
LEMMA SuspendedTyped ==
  ASSUME IInv
  PROVE  Depth \in Nat /\ \A k \in 1..Depth : ctx[k] \in Contexts /\ ctx[k].sp \in Nat
<1>1. ctx \in Seq(Contexts)
  BY DEF IInv, TypeInv
<1>2. Depth \in Nat /\ \A k \in 1..Depth : ctx[k] \in Contexts
  BY <1>1, ElementOfSeq, LenProperties DEF Depth
<1>3. QED
  BY <1>2 DEF Contexts

LEMMA IdtInitInv == IInv /\ IdtInit => IInv'
<1> SUFFICES ASSUME IInv, IdtInit PROVE IInv'
  OBVIOUS
<1>1. TypeInv'
  BY DEF IInv, TypeInv, IdtInit, PCs, Word
<1>2. Chain'
  BY ChainUntouched DEF IInv, TrapInv, IdtInit
<1>3. AtPc'
  BY DEF IInv, TrapInv, AtPc, IdtInit
<1>4. NoInterruptInTrap'
  BY DEF IInv, TrapInv, NoInterruptInTrap, IdtInit, Depth
<1>5. SuspendedFramesIntact'
  BY FramesUntouched DEF IInv, TrapInv, IdtInit
<1>6. QED
  BY <1>1, <1>2, <1>3, <1>4, <1>5 DEF IInv, TrapInv

\* Taking a trap from C code: the interrupted context becomes the newest
\* suspended one, one C stack below the frame of the one before it.
LEMMA HwTrapInv ==
  ASSUME IInv, pc \in CCode, NEW trap \in Traps, HwTrap(trap)
  PROVE  IInv'
<1>1. Context \in Contexts
  BY DEF Context, Contexts, IInv, TypeInv
<1>2. /\ Depth \in Nat /\ Len(traps) = Depth /\ Depth' = Depth + 1
      /\ ctx' \in Seq(Contexts) /\ traps' \in Seq(Traps)
      /\ Len(traps') = Depth'
      /\ Top' = Context /\ TopTrap' = trap
      /\ \A k \in 1..Depth : ctx'[k] = ctx[k] /\ traps'[k] = traps[k]
  <2>1. ctx \in Seq(Contexts) /\ traps \in Seq(Traps) /\ Len(traps) = Depth
    BY DEF IInv, TypeInv, TrapInv, Chain
  <2>2. ctx' = Append(ctx, Context) /\ traps' = Append(traps, trap)
    BY DEF HwTrap
  <2>3. Len(ctx) \in Nat
    BY <2>1, LenProperties
  <2>4. QED
    BY <1>1, <2>1, <2>2, <2>3, Push DEF Depth, Top, TopTrap
<1>3. Context.sp = sp /\ Context.pc = pc /\ Context.priv = "S" /\ Context.sie = sstatus.SIE
  BY DEF Context, IInv, TrapInv, AtPc
<1>4. TypeInv'
  <2>1. sbadaddr' \in Word /\ scause' \in Word
    BY DEF HwTrap, Word
  <2>2. sepc' \in Word
    BY DEF HwTrap, Word, IInv, TypeInv
  <2>3. QED
    BY <1>2, <2>1, <2>2 DEF IInv, TypeInv, HwTrap, PCs
<1>5. Depth # 0 => pc = "handler" /\ ~sstatus.SIE /\ sp = Frame(Depth) - CSlots
  BY DEF IInv, TrapInv, Chain, AtPc, NoInterruptInTrap, CCode
<1>6. Depth = 0 => pc = "main" /\ sp = StackTop - CSlots
  BY DEF IInv, TrapInv, Chain, AtPc, CCode
<1>7. Chain'
  <2>1. ASSUME NEW k \in 1..Depth'
        PROVE  /\ ctx'[k].priv = "S"
               /\ ctx'[k].sp >= FrameSlots + CSlots
               /\ IF k = 1 THEN ctx'[k].pc = "main" /\ ctx'[k].sp = StackTop - CSlots
                           ELSE /\ ctx'[k].pc = "handler" /\ ~ctx'[k].sie
                                /\ ctx'[k].sp = Frame(k - 1)' - CSlots
    <3>1. CASE k = Depth'
      <4>1. ctx'[k] = Context
        BY <3>1, <1>2 DEF Top
      <4>2. sp >= FrameSlots + CSlots
        BY DEF HwTrap, StackRoom
      <4>3. k = 1 <=> Depth = 0
        BY <3>1, <1>2
      <4>4. Depth # 0 => k - 1 = Depth /\ Frame(k - 1)' = Frame(Depth)
        BY <3>1, <1>2 DEF Frame
      <4>5. QED
        BY <4>1, <4>2, <4>3, <4>4, <1>3, <1>5, <1>6
    <3>2. CASE k # Depth'
      <4>1. k \in 1..Depth /\ ctx'[k] = ctx[k]
        BY <3>2, <1>2
      <4>2. k # 1 => Frame(k - 1)' = Frame(k - 1)
        BY <4>1, <1>2 DEF Frame
      <4>3. QED
        BY <4>1, <4>2 DEF IInv, TrapInv, Chain
    <3>3. QED
      BY <3>1, <3>2
  <2>2. ASSUME NEW j \in 1..Depth', NEW k \in 1..Depth', j < k
        PROVE  ctx'[k].sp + CSlots <= Frame(j)'
    <3>1. j \in 1..Depth /\ Frame(j)' = Frame(j) /\ ctx[j].sp \in Nat
      BY <2>2, <1>2, SuspendedTyped DEF Frame
    <3>2. CASE k = Depth'
      <4>1. ctx'[k].sp = sp
        BY <3>2, <1>2, <1>3 DEF Top
      <4>2. sp = Frame(Depth) - CSlots /\ sp \in Nat
        BY <3>1, <1>5 DEF IInv, TypeInv
      <4>3. j = Depth \/ (j < Depth /\ ctx[Depth].sp + CSlots <= Frame(j))
        BY <3>1, <1>2 DEF IInv, TrapInv, Chain
      <4>4. ctx[Depth].sp \in Nat
        BY <3>1, <1>2, SuspendedTyped
      <4>5. QED
        BY <4>1, <4>2, <4>3, <4>4, <3>1 DEF Frame, FrameSlots
    <3>3. CASE k # Depth'
      <4>1. k \in 1..Depth /\ ctx'[k] = ctx[k]
        BY <3>3, <1>2
      <4>2. ctx[k].sp + CSlots <= Frame(j)
        <5>1. \A a, b \in 1..Depth : a < b => ctx[b].sp + CSlots <= Frame(a)
          BY DEF IInv, TrapInv, Chain
        <5>2. QED
          BY <2>2, <3>1, <4>1, <5>1
      <4>3. QED
        BY <3>1, <4>1, <4>2
    <3>4. QED
      BY <3>2, <3>3
  <2>3. Len(traps') = Depth' /\ (Depth' = 0 <=> pc' \in {"boot", "main"})
    BY <1>2 DEF HwTrap
  <2>4. QED
    BY <2>1, <2>2, <2>3 DEF Chain
<1>8. AtPc'
  BY <1>2, <1>3 DEF HwTrap, AtPc, CsrsOfTrap, SavedStatus, Context, IInv, TrapInv, CCode
<1>9. NoInterruptInTrap'
  BY DEF HwTrap, NoInterruptInTrap
<1>10. SuspendedFramesIntact'
  <2>1. \A k \in 1..(Depth' - 1) :
           k \in 1..Depth /\ ctx'[k] = ctx[k] /\ traps'[k] = traps[k]
    BY <1>2
  <2>4. mem' = mem
    BY DEF HwTrap
  <2>2. Depth # 0 => FrameHolds(Frame(Depth), ctx[Depth], traps[Depth])
    BY <1>5 DEF IInv, TrapInv, AtPc, FrameSaved, Top, TopTrap
  <2>3. \A k \in 1..Depth : FrameHolds(Frame(k), ctx[k], traps[k])
    BY <2>2, <1>2 DEF IInv, TrapInv, SuspendedFramesIntact
  <2>5. QED
    BY <2>1, <2>3, <2>4 DEF SuspendedFramesIntact, FrameHolds, Frame, SavedStatus
<1>11. QED
  BY <1>4, <1>7, <1>8, <1>9, <1>10 DEF IInv, TrapInv

------------------------------------------------------------------------------
\* The C code of kern_init and of trap().
LEMMA RunCodeInv == IInv /\ RunCode => IInv'
<1> SUFFICES ASSUME IInv, RunCode PROVE IInv'
  OBVIOUS
<1>1. TypeInv'
  BY RegFilesAreRegFile DEF IInv, TypeInv, RunCode
<1>2. Chain'
  BY ChainUntouched DEF IInv, TrapInv, RunCode
<1>3. AtPc'
  BY DEF IInv, TrapInv, AtPc, RunCode, CCode, FrameSaved, FrameHolds, Frame, Top,
         TopTrap, Depth, SavedStatus
<1>4. NoInterruptInTrap'
  BY DEF IInv, TrapInv, NoInterruptInTrap, RunCode, Depth
<1>5. SuspendedFramesIntact'
  BY FramesUntouched DEF IInv, TrapInv, RunCode
<1>6. QED
  BY <1>1, <1>2, <1>3, <1>4, <1>5 DEF IInv, TrapInv

LEMMA SetSIEInv == IInv /\ SetSIE => IInv'
<1> SUFFICES ASSUME IInv, SetSIE PROVE IInv'
  OBVIOUS
<1>1. TypeInv'
  BY DEF IInv, TypeInv, SetSIE, set_csr, clear_csr
<1>2. Chain'
  BY ChainUntouched DEF IInv, TrapInv, SetSIE
<1>3. AtPc'
  BY DEF IInv, TrapInv, AtPc, SetSIE
<1>4. NoInterruptInTrap'
  BY DEF IInv, TrapInv, NoInterruptInTrap, SetSIE, Depth, Chain
<1>5. SuspendedFramesIntact'
  BY FramesUntouched DEF IInv, TrapInv, SetSIE
<1>6. QED
  BY <1>1, <1>2, <1>3, <1>4, <1>5 DEF IInv, TrapInv

------------------------------------------------------------------------------
\* In the trap path there is a suspended context.
LEMMA InTrapDepth ==
  ASSUME IInv, pc \notin {"boot", "main"}
  PROVE  Depth # 0
  BY DEF IInv, TrapInv, Chain

LEMMA SaveSpInv == IInv /\ SaveSp => IInv'
<1> SUFFICES ASSUME IInv, SaveSp PROVE IInv'
  OBVIOUS
<1>0. Depth # 0 /\ sp = Top.sp
  BY InTrapDepth DEF SaveSp, IInv, TrapInv, AtPc
<1>1. sp' = Frame(Depth) /\ sp' \in 0..StackTop
  BY <1>0, TopTyped DEF SaveSp, FrameSlots
<1>2. TypeInv'
  BY <1>1 DEF IInv, TypeInv, SaveSp, PCs, Word
<1>3. Chain'
  BY ChainUntouched DEF IInv, TrapInv, SaveSp
<1>4. AtPc'
  BY <1>1, <1>0 DEF IInv, TrapInv, AtPc, SaveSp, CsrsOfTrap, SavedStatus, Top, TopTrap,
                    Frame, Depth
<1>5. NoInterruptInTrap'
  BY DEF IInv, TrapInv, NoInterruptInTrap, SaveSp, Depth
<1>6. SuspendedFramesIntact'
  BY FramesUntouched DEF IInv, TrapInv, SaveSp
<1>7. QED
  BY <1>2, <1>3, <1>4, <1>5, <1>6 DEF IInv, TrapInv

\* A store into the newest frame leaves every older frame as it was: they lie
\* above the stack pointer of the context the newest trap interrupted.
LEMMA StoreKeepsOlderFrames ==
  ASSUME IInv, Depth # 0, UNCHANGED <<ctx, traps>>,
         \A a \in Addr : a >= Top.sp => mem'[a] = mem[a]
  PROVE  SuspendedFramesIntact'
<1>1. SUFFICES ASSUME NEW k \in 1..(Depth - 1)
               PROVE  FrameHolds(Frame(k), ctx[k], traps[k])'
  BY DEF SuspendedFramesIntact, Depth
<1>2. Depth \in Nat /\ k \in 1..Depth /\ Depth \in 1..Depth /\ k < Depth
  BY SuspendedTyped, TopTyped
<1>3. Top.sp + CSlots <= Frame(k)
  BY <1>2 DEF IInv, TrapInv, Chain, Top
<1>4. ctx[k].sp \in 0..StackTop /\ ctx[k].sp >= FrameSlots + CSlots
  BY <1>2, SuspendedTyped DEF IInv, TrapInv, Chain, Contexts
<1>5. \A i \in 0..(FrameSlots - 1) : Frame(k) + i \in Addr /\ Frame(k) + i >= Top.sp
  BY <1>2, <1>3, <1>4, TopTyped DEF Frame, Addr, FrameSlots
<1>6. \A i \in 0..(FrameSlots - 1) : mem'[Frame(k) + i] = mem[Frame(k) + i]
  BY <1>5
<1>7. XRegs \subseteq 0..(FrameSlots - 1)
  BY DEF FrameSlots
<1>8. FrameHolds(Frame(k), ctx[k], traps[k])
  BY DEF IInv, TrapInv, SuspendedFramesIntact
<1>9. \A i \in XRegs : mem'[Frame(k) + i] = ctx[k].x[i]
  BY <1>6, <1>7, <1>8 DEF FrameHolds
<1>10. /\ mem'[Frame(k) + SlotZero] = 0
       /\ mem'[Frame(k) + SlotSp] = ctx[k].sp
       /\ mem'[Frame(k) + SlotEpc] = ctx[k].pc
       /\ mem'[Frame(k) + SlotStatus] = SavedStatus(ctx[k])
       /\ mem'[Frame(k) + SlotBadvaddr] = traps[k].badvaddr
       /\ mem'[Frame(k) + SlotCause] = traps[k].cause
  BY <1>6, <1>8 DEF FrameHolds, FrameSlots, SlotZero, SlotSp, SlotEpc, SlotStatus,
                    SlotBadvaddr, SlotCause
<1>11. ctx'[k] = ctx[k] /\ traps'[k] = traps[k] /\ Frame(k)' = Frame(k)
  BY DEF Frame
<1>12. QED
  BY <1>9, <1>10, <1>11 DEF FrameHolds, SavedStatus

LEMMA SaveGprsInv == IInv /\ SaveGprs => IInv'
<1> SUFFICES ASSUME IInv, SaveGprs PROVE IInv'
  OBVIOUS
<1>0. /\ Depth # 0 /\ sp = Frame(Depth) /\ x = Top.x /\ sscratch = Top.sp /\ CsrsOfTrap
      /\ x \in RegFile
  BY InTrapDepth DEF SaveGprs, IInv, TrapInv, AtPc, TypeInv
<1>1. TypeInv'
  <2>1. 0 \in Word
    BY DEF Word
  <2>2. QED
    BY <2>1 DEF IInv, TypeInv, SaveGprs, PCs, RegFile
<1>2. Chain'
  BY ChainUntouched DEF IInv, TrapInv, SaveGprs
<1>3. GprsSaved'
  <2>1. \A i \in XRegs : i \in 0..(FrameSlots - 1)
    BY DEF FrameSlots
  <2>2. \A i \in XRegs : sp + i \in Addr /\ (sp + i) - sp = i
    <3>1. sp \in Nat /\ \A i \in XRegs : i \in Nat
      BY DEF IInv, TypeInv
    <3>2. \A i \in XRegs : sp + i \in Addr
      BY <1>0, <2>1, TopTyped
    <3>3. ASSUME NEW i \in XRegs
          PROVE  (sp + i) - sp = i
      <4>1. i \in Nat /\ sp \in Nat
        BY <3>1
      <4>2. QED
        BY <4>1
    <3>4. QED
      BY <3>2, <3>3
  <2>3. \A i \in XRegs : sp + i # sp
    BY DEF IInv, TypeInv
  <2>4. \A i \in XRegs : mem'[sp + i] = x[i]
    BY <2>2, <2>3 DEF SaveGprs
  <2>5. mem'[sp + SlotZero] = 0
    <3>1. sp + 0 = sp /\ sp + 0 \in Addr
      BY <1>0, TopTyped DEF IInv, TypeInv, FrameSlots
    <3>2. QED
      BY <3>1 DEF SaveGprs, SlotZero
  <2>6. QED
    BY <2>4, <2>5, <1>0 DEF SaveGprs, GprsSaved, Frame, Top, Depth
<1>4. AtPc'
  BY <1>0, <1>3 DEF IInv, TrapInv, AtPc, SaveGprs, CsrsOfTrap, SavedStatus, Top, TopTrap,
                    Frame, Depth
<1>5. NoInterruptInTrap'
  BY DEF IInv, TrapInv, NoInterruptInTrap, SaveGprs, Depth
<1>6. SuspendedFramesIntact'
  <2>1. \A a \in Addr : a >= Top.sp => a # sp /\ a - sp \notin XRegs
    BY <1>0, TopTyped DEF FrameSlots, Addr
  <2>2. \A a \in Addr : a >= Top.sp => mem'[a] = mem[a]
    BY <2>1 DEF SaveGprs
  <2>3. QED
    BY <1>0, <2>2, StoreKeepsOlderFrames DEF SaveGprs
<1>7. QED
  BY <1>1, <1>2, <1>4, <1>5, <1>6 DEF IInv, TrapInv

LEMMA ReadCsrsInv == IInv /\ ReadCsrs => IInv'
<1> SUFFICES ASSUME IInv, ReadCsrs PROVE IInv'
  OBVIOUS
<1>0. /\ Depth # 0 /\ sp = Frame(Depth) /\ GprsSaved /\ sscratch = Top.sp /\ CsrsOfTrap
      /\ x \in RegFile
  BY InTrapDepth DEF ReadCsrs, IInv, TrapInv, AtPc, TypeInv
<1>1. TypeInv'
  <2>1. sstatus \in Word
    BY DEF IInv, TypeInv, Word
  <2>2. x' \in RegFile
    BY <1>0, <2>1 DEF ReadCsrs, RegFile, IInv, TypeInv
  <2>3. 0 \in Word
    BY DEF Word
  <2>4. QED
    BY <2>2, <2>3 DEF IInv, TypeInv, ReadCsrs, PCs
<1>2. Chain'
  BY ChainUntouched DEF IInv, TrapInv, ReadCsrs
<1>3. /\ x'[S0] = Top.sp /\ x'[S1] = SavedStatus(Top)
      /\ x'[S2] = Top.pc /\ x'[S3] = TopTrap.badvaddr /\ x'[S4] = TopTrap.cause
  BY <1>0 DEF ReadCsrs, CsrsOfTrap, RegFile, S0, S1, S2, S3, S4
<1>4. AtPc'
  BY <1>0, <1>3 DEF IInv, TrapInv, AtPc, ReadCsrs, GprsSaved, SavedStatus, Top, TopTrap,
                    Frame, Depth
<1>5. NoInterruptInTrap'
  BY DEF IInv, TrapInv, NoInterruptInTrap, ReadCsrs, Depth
<1>6. SuspendedFramesIntact'
  BY FramesUntouched DEF IInv, TrapInv, ReadCsrs
<1>7. QED
  BY <1>1, <1>2, <1>4, <1>5, <1>6 DEF IInv, TrapInv

LEMMA StoreCsrsInv == IInv /\ StoreCsrs => IInv'
<1> SUFFICES ASSUME IInv, StoreCsrs PROVE IInv'
  OBVIOUS
<1>0. /\ Depth # 0 /\ sp = Frame(Depth) /\ GprsSaved /\ sscratch = 0
      /\ x \in RegFile /\ mem \in [Addr -> Word]
      /\ x[S0] = Top.sp /\ x[S1] = SavedStatus(Top) /\ x[S2] = Top.pc
      /\ x[S3] = TopTrap.badvaddr /\ x[S4] = TopTrap.cause
  BY InTrapDepth DEF StoreCsrs, IInv, TrapInv, AtPc, TypeInv
<1>1. TypeInv'
  BY <1>0 DEF IInv, TypeInv, StoreCsrs, PCs, RegFile
<1>2. Chain'
  BY ChainUntouched DEF IInv, TrapInv, StoreCsrs
<1>3. \A i \in 0..(FrameSlots - 1) : sp + i \in Addr
  BY <1>0, TopTyped
<1>4. sp \in Nat
  BY DEF IInv, TypeInv
<1>5. \A a \in Addr : mem'[a] = IF a = sp + 35 THEN x[S4]
                                 ELSE IF a = sp + 34 THEN x[S3]
                                 ELSE IF a = sp + 33 THEN x[S2]
                                 ELSE IF a = sp + 32 THEN x[S1]
                                 ELSE IF a = sp + 2 THEN x[S0] ELSE mem[a]
  BY <1>0, <1>4 DEF StoreCsrs, SlotSp, SlotStatus, SlotEpc, SlotBadvaddr, SlotCause
<1>6. FrameSaved'
  <2>1. /\ sp + 0 \in Addr /\ sp + 2 \in Addr /\ sp + 32 \in Addr
        /\ sp + 33 \in Addr /\ sp + 34 \in Addr /\ sp + 35 \in Addr
    BY <1>3 DEF FrameSlots
  <2>2. /\ mem'[sp + 2] = x[S0] /\ mem'[sp + 32] = x[S1]
        /\ mem'[sp + 33] = x[S2] /\ mem'[sp + 34] = x[S3] /\ mem'[sp + 35] = x[S4]
        /\ mem'[sp + 0] = mem[sp + 0]
    BY <1>4, <1>5, <2>1
  <2>3. ASSUME NEW i \in XRegs
        PROVE  mem'[sp + i] = mem[sp + i]
    <3>1. i \in 0..(FrameSlots - 1) /\ i \notin {2, 32, 33, 34, 35}
      BY DEF FrameSlots, SlotSp
    <3>2. sp + i \in Addr
      BY <3>1, <1>3
    <3>3. sp + i \notin {sp + 2, sp + 32, sp + 33, sp + 34, sp + 35}
      BY <3>1, <1>4
    <3>4. QED
      BY <3>2, <3>3, <1>5
  <2>4. QED
    BY <2>2, <2>3, <1>0 DEF StoreCsrs, FrameSaved, FrameHolds, GprsSaved, SavedStatus,
                            Frame, Top, TopTrap, Depth, SlotZero, SlotSp, SlotStatus,
                            SlotEpc, SlotBadvaddr, SlotCause
<1>7. AtPc'
  BY <1>0, <1>6 DEF IInv, TrapInv, AtPc, StoreCsrs, Frame, Depth
<1>8. NoInterruptInTrap'
  BY DEF IInv, TrapInv, NoInterruptInTrap, StoreCsrs, Depth
<1>9. SuspendedFramesIntact'
  <2>1. \A a \in Addr : a >= Top.sp => mem'[a] = mem[a]
    <3>1. Top.sp \in Nat /\ Top.sp = sp + 36
      BY <1>0, <1>4, TopTyped DEF FrameSlots
    <3>2. ASSUME NEW a \in Addr, a >= Top.sp
          PROVE  a \notin {sp + 2, sp + 32, sp + 33, sp + 34, sp + 35}
      BY <1>4, <3>1, <3>2 DEF Addr
    <3>3. QED
      BY <3>2, <1>5
  <2>2. QED
    BY <1>0, <2>1, StoreKeepsOlderFrames DEF StoreCsrs
<1>10. QED
  BY <1>1, <1>2, <1>7, <1>8, <1>9 DEF IInv, TrapInv

------------------------------------------------------------------------------
LEMMA CallTrapInv == IInv /\ CallTrap => IInv'
<1> SUFFICES ASSUME IInv, CallTrap PROVE IInv'
  OBVIOUS
<1>0. Depth # 0 /\ sp = Frame(Depth) /\ FrameSaved
  BY InTrapDepth DEF CallTrap, IInv, TrapInv, AtPc
<1>1. sp' \in 0..StackTop
  BY <1>0, TopTyped DEF CallTrap, FrameSlots
<1>2. TypeInv'
  BY <1>1 DEF IInv, TypeInv, CallTrap, PCs
<1>3. Chain'
  BY ChainUntouched DEF IInv, TrapInv, CallTrap
<1>4. AtPc'
  BY <1>0 DEF IInv, TrapInv, AtPc, CallTrap, FrameSaved, FrameHolds, SavedStatus, Top,
              TopTrap, Frame, Depth
<1>5. NoInterruptInTrap'
  BY DEF IInv, TrapInv, NoInterruptInTrap, CallTrap, Depth
<1>6. SuspendedFramesIntact'
  BY FramesUntouched DEF IInv, TrapInv, CallTrap
<1>7. QED
  BY <1>2, <1>3, <1>4, <1>5, <1>6 DEF IInv, TrapInv

LEMMA TrapReturnsInv == IInv /\ TrapReturns => IInv'
<1> SUFFICES ASSUME IInv, TrapReturns PROVE IInv'
  OBVIOUS
<1>0. Depth # 0 /\ sp = Frame(Depth) - CSlots /\ FrameSaved
  BY InTrapDepth DEF TrapReturns, IInv, TrapInv, AtPc
<1>1. sp' = Frame(Depth) /\ sp' \in 0..StackTop
  BY <1>0, TopTyped DEF TrapReturns, FrameSlots
<1>2. TypeInv'
  BY <1>1 DEF IInv, TypeInv, TrapReturns, PCs
<1>3. Chain'
  BY ChainUntouched DEF IInv, TrapInv, TrapReturns
<1>4. AtPc'
  BY <1>0, <1>1 DEF IInv, TrapInv, AtPc, TrapReturns, FrameSaved, FrameHolds, SavedStatus,
                    Top, TopTrap, Frame, Depth
<1>5. NoInterruptInTrap'
  BY DEF IInv, TrapInv, NoInterruptInTrap, TrapReturns, Depth
<1>6. SuspendedFramesIntact'
  BY FramesUntouched DEF IInv, TrapInv, TrapReturns
<1>7. QED
  BY <1>2, <1>3, <1>4, <1>5, <1>6 DEF IInv, TrapInv

LEMMA RestoreCsrsInv == IInv /\ RestoreCsrs => IInv'
<1> SUFFICES ASSUME IInv, RestoreCsrs PROVE IInv'
  OBVIOUS
<1>0. Depth # 0 /\ sp = Frame(Depth) /\ FrameSaved /\ sscratch = 0
  BY InTrapDepth DEF RestoreCsrs, IInv, TrapInv, AtPc
<1>1. sstatus' = SavedStatus(Top) /\ sepc' = Top.pc
  BY <1>0 DEF RestoreCsrs, FrameSaved, FrameHolds
<1>2. /\ Top.pc \in PCs
      /\ SavedStatus(Top) \in [SIE : BOOLEAN, SPIE : BOOLEAN, SPP : {"S", "U"}]
  BY <1>0, TopTyped DEF Contexts, SavedStatus
<1>3. TypeInv'
  <2>1. x' \in RegFile
    <3>1. SavedStatus(Top) \in Word /\ Top.pc \in Word
      BY <1>2 DEF Word
    <3>2. x \in RegFile
      BY DEF IInv, TypeInv
    <3>3. x' = [x EXCEPT ![S1] = SavedStatus(Top), ![S2] = Top.pc]
      BY <1>0 DEF RestoreCsrs, FrameSaved, FrameHolds
    <3>4. QED
      BY <3>1, <3>2, <3>3 DEF RegFile
  <2>2. sepc' \in Word
    BY <1>1, <1>2 DEF Word
  <2>3. QED
    BY <1>1, <1>2, <2>1, <2>2 DEF IInv, TypeInv, RestoreCsrs, PCs
<1>4. Chain'
  BY ChainUntouched DEF IInv, TrapInv, RestoreCsrs
<1>5. AtPc'
  BY <1>0, <1>1 DEF IInv, TrapInv, AtPc, RestoreCsrs, FrameSaved, FrameHolds, SavedStatus,
                    Top, TopTrap, Frame, Depth
<1>6. NoInterruptInTrap'
  BY <1>1 DEF NoInterruptInTrap, SavedStatus
<1>7. SuspendedFramesIntact'
  BY FramesUntouched DEF IInv, TrapInv, RestoreCsrs
<1>8. QED
  BY <1>3, <1>4, <1>5, <1>6, <1>7 DEF IInv, TrapInv

LEMMA RestoreGprsInv == IInv /\ RestoreGprs => IInv'
<1> SUFFICES ASSUME IInv, RestoreGprs PROVE IInv'
  OBVIOUS
<1>0. /\ Depth # 0 /\ sp = Frame(Depth) /\ FrameSaved /\ sscratch = 0
      /\ sstatus = SavedStatus(Top) /\ sepc = Top.pc
  BY InTrapDepth DEF RestoreGprs, IInv, TrapInv, AtPc
<1>1. x' = Top.x /\ sp' = Top.sp
  <2>1. Top.x = [i \in XRegs |-> Top.x[i]]
    BY <1>0, TopTyped DEF Contexts, RegFile
  <2>2. QED
    BY <1>0, <2>1 DEF RestoreGprs, FrameSaved, FrameHolds
<1>2. TypeInv'
  <2>1. x' \in RegFile /\ sp' \in 0..StackTop
    BY <1>0, <1>1, TopTyped DEF Contexts
  <2>2. QED
    BY <2>1 DEF IInv, TypeInv, RestoreGprs, PCs
<1>3. Chain'
  BY ChainUntouched DEF IInv, TrapInv, RestoreGprs
<1>4. AtPc'
  BY <1>0, <1>1 DEF IInv, TrapInv, AtPc, RestoreGprs, SavedStatus, Top, Depth
<1>5. NoInterruptInTrap'
  BY DEF IInv, TrapInv, NoInterruptInTrap, RestoreGprs, Depth
<1>6. SuspendedFramesIntact'
  BY FramesUntouched DEF IInv, TrapInv, RestoreGprs
<1>7. QED
  BY <1>2, <1>3, <1>4, <1>5, <1>6 DEF IInv, TrapInv

------------------------------------------------------------------------------
\* What sret resumes is the newest suspended context.
LEMMA SretResumes ==
  ASSUME IInv, Sret
  PROVE  /\ Depth # 0
         /\ pc' = Top.pc /\ sp' = Top.sp /\ x' = Top.x
         /\ sstatus'.SIE = Top.sie /\ priv' = Top.priv
  BY InTrapDepth DEF Sret, IInv, TrapInv, AtPc, SavedStatus

LEMMA SretInv == IInv /\ Sret => IInv'
<1> SUFFICES ASSUME IInv, Sret PROVE IInv'
  OBVIOUS
<1>0. /\ Depth \in Nat \ {0} /\ Depth \in 1..Depth
      /\ pc' = Top.pc /\ sp' = Top.sp /\ x' = Top.x
      /\ sstatus'.SIE = Top.sie /\ priv' = "S" /\ sscratch' = 0
      /\ UNCHANGED mem
  BY SretResumes, TopTyped DEF Sret, IInv, TrapInv, AtPc
<1>1. /\ Depth' = Depth - 1 /\ Len(traps') = Depth'
      /\ ctx' \in Seq(Contexts) /\ traps' \in Seq(Traps)
      /\ \A k \in 1..(Depth - 1) : ctx'[k] = ctx[k] /\ traps'[k] = traps[k]
  <2>1. /\ ctx \in Seq(Contexts) /\ traps \in Seq(Traps)
        /\ Len(ctx) = Depth /\ Len(traps) = Depth
    BY DEF IInv, TypeInv, TrapInv, Chain, Depth
  <2>2. /\ ctx' = SubSeq(ctx, 1, Len(ctx) - 1)
        /\ traps' = SubSeq(traps, 1, Len(traps) - 1)
    BY DEF Sret
  <2>3. Len(ctx) > 0 /\ Len(traps) > 0
    BY <1>0, <2>1
  <2>4. /\ ctx' \in Seq(Contexts) /\ Len(ctx') = Len(ctx) - 1
        /\ \A k \in 1..(Len(ctx) - 1) : ctx'[k] = ctx[k]
    BY <2>1, <2>2, <2>3, Pop
  <2>5. /\ traps' \in Seq(Traps) /\ Len(traps') = Len(traps) - 1
        /\ \A k \in 1..(Len(traps) - 1) : traps'[k] = traps[k]
    BY <2>1, <2>2, <2>3, Pop
  <2>6. QED
    BY <2>1, <2>4, <2>5 DEF Depth
<1>2. TypeInv'
  <2>1. x' \in RegFile /\ sp' \in 0..StackTop /\ pc' \in PCs /\ Top.sie \in BOOLEAN
    BY <1>0, TopTyped DEF Contexts
  <2>2. sstatus' \in [SIE : BOOLEAN, SPIE : BOOLEAN, SPP : {"S", "U"}]
    BY DEF Sret, IInv, TypeInv
  <2>3. QED
    BY <1>0, <1>1, <2>1, <2>2 DEF IInv, TypeInv, Sret
<1>3. Depth = 1 => Top.pc = "main" /\ Top.sp = StackTop - CSlots
  BY <1>0 DEF IInv, TrapInv, Chain, Top
<1>4. Depth # 1 => /\ Top.pc = "handler" /\ ~Top.sie /\ Depth - 1 \in 1..(Depth - 1)
                   /\ Top.sp = Frame(Depth - 1) - CSlots
  BY <1>0 DEF IInv, TrapInv, Chain, Top
<1>5. Chain'
  <2>1. Depth' = 0 <=> pc' \in {"boot", "main"}
    BY <1>0, <1>1, <1>3, <1>4
  <2>2. \A k \in 1..Depth' : /\ k \in 1..Depth /\ ctx'[k] = ctx[k] /\ Frame(k)' = Frame(k)
                             /\ k # 1 => Frame(k - 1)' = Frame(k - 1)
    BY <1>0, <1>1 DEF Frame
  <2>3. ASSUME NEW k \in 1..Depth'
        PROVE  /\ ctx'[k].priv = "S"
               /\ ctx'[k].sp >= FrameSlots + CSlots
               /\ IF k = 1 THEN ctx'[k].pc = "main" /\ ctx'[k].sp = StackTop - CSlots
                           ELSE /\ ctx'[k].pc = "handler" /\ ~ctx'[k].sie
                                /\ ctx'[k].sp = Frame(k - 1)' - CSlots
    BY <2>2 DEF Chain, IInv, TrapInv
  <2>4. \A j, k \in 1..Depth' : j < k => ctx'[k].sp + CSlots <= Frame(j)'
    BY <2>2 DEF Chain, IInv, TrapInv
  <2>5. QED
    BY <1>1, <2>1, <2>3, <2>4 DEF Chain
<1>6. Depth # 1 => /\ Depth' \in 1..(Depth - 1) /\ Frame(Depth)' = Frame(Depth - 1)
                   /\ FrameSaved'
  <2>1. SUFFICES ASSUME Depth # 1
                 PROVE  /\ Depth' \in 1..(Depth - 1) /\ Frame(Depth)' = Frame(Depth - 1)
                        /\ FrameSaved'
    OBVIOUS
  <2>2. Depth' = Depth - 1 /\ Depth' \in 1..(Depth - 1)
    BY <2>1, <1>0, <1>1
  <2>3. Top' = ctx[Depth - 1] /\ TopTrap' = traps[Depth - 1]
    BY <2>2, <1>1 DEF Top, TopTrap
  <2>4. Frame(Depth)' = Frame(Depth - 1)
    BY <2>2, <1>1 DEF Frame
  <2>5. FrameHolds(Frame(Depth - 1), ctx[Depth - 1], traps[Depth - 1])
    BY <2>2 DEF IInv, TrapInv, SuspendedFramesIntact
  <2>6. QED
    BY <2>2, <2>3, <2>4, <2>5, <1>0 DEF FrameSaved, FrameHolds, SavedStatus
<1>7. AtPc'
  BY <1>0, <1>1, <1>3, <1>4, <1>6 DEF AtPc
<1>8. NoInterruptInTrap'
  BY <1>0, <1>1, <1>4 DEF NoInterruptInTrap
<1>9. SuspendedFramesIntact'
  <2>1. \A k \in 1..(Depth' - 1) :
           k \in 1..(Depth - 1) /\ ctx'[k] = ctx[k] /\ traps'[k] = traps[k]
    BY <1>0, <1>1
  <2>2. QED
    BY <1>0, <2>1 DEF IInv, TrapInv, SuspendedFramesIntact, FrameHolds, Frame, SavedStatus
<1>10. QED
  BY <1>2, <1>5, <1>7, <1>8, <1>9 DEF IInv, TrapInv

------------------------------------------------------------------------------
\* Interrupts and exceptions are only taken from C code: everywhere else on
\* the trap path interrupts are off.
LEMMA TrapsFromCCode ==
  ASSUME IInv, Interrupt \/ Exception
  PROVE  pc \in CCode /\ \E trap \in Traps : HwTrap(trap)
<1>1. CASE Exception
  BY <1>1 DEF Exception
<1>2. CASE Interrupt
  <2>1. Depth = 0 /\ pc # "boot"
    BY <1>2 DEF Interrupt, IInv, TrapInv, NoInterruptInTrap, Depth, TypeInv
  <2>2. QED
    BY <1>2, <2>1 DEF Interrupt, IInv, TrapInv, Chain, CCode
<1>3. QED
  BY <1>1, <1>2

LEMMA StutterInv == IInv /\ UNCHANGED vars => IInv'
<1> SUFFICES ASSUME IInv, UNCHANGED vars PROVE IInv'
  OBVIOUS
<1>1. TypeInv'
  BY DEF IInv, TypeInv, vars
<1>2. Chain' /\ SuspendedFramesIntact'
  BY ChainUntouched, FramesUntouched DEF IInv, TrapInv, vars
<1>3. AtPc' /\ NoInterruptInTrap'
  BY DEF IInv, TrapInv, AtPc, NoInterruptInTrap, vars, CsrsOfTrap, GprsSaved, FrameSaved,
         FrameHolds, SavedStatus, Top, TopTrap, Frame, Depth
<1>4. QED
  BY <1>1, <1>2, <1>3 DEF IInv, TrapInv

LEMMA NextInv == IInv /\ [Next]_vars => IInv'
<1> SUFFICES ASSUME IInv, [Next]_vars PROVE IInv'
  OBVIOUS
<1>1. CASE Interrupt \/ Exception
  BY <1>1, TrapsFromCCode, HwTrapInv
<1>2. CASE IdtInit \/ RunCode \/ SetSIE
  BY <1>2, IdtInitInv, RunCodeInv, SetSIEInv
<1>3. CASE SaveSp \/ SaveGprs \/ ReadCsrs \/ StoreCsrs \/ CallTrap
  BY <1>3, SaveSpInv, SaveGprsInv, ReadCsrsInv, StoreCsrsInv, CallTrapInv
<1>4. CASE TrapReturns \/ RestoreCsrs \/ RestoreGprs \/ Sret
  BY <1>4, TrapReturnsInv, RestoreCsrsInv, RestoreGprsInv, SretInv
<1>5. CASE UNCHANGED vars
  BY <1>5, StutterInv
<1>6. QED
  BY <1>1, <1>2, <1>3, <1>4, <1>5 DEF Next

LEMMA SpecIInv == Spec => []IInv
  BY InitInv, NextInv, PTL DEF Spec

\* The state of the hart, of the frames and of the suspended contexts is
\* typed in every reachable state (trapentry.S).
THEOREM TypeCorrect == Spec => []TypeOK
<1>1. IInv => TypeOK
  BY DEF IInv, TypeInv, TypeOK, RegFile
<1>2. QED
  BY <1>1, SpecIInv, PTL

\* The inductive invariant: the chain of frames, and how far the newest one
\* is written or read back at every instruction of trapentry.S.
THEOREM TrapInvHolds == Spec => []TrapInv
<1>1. IInv => TrapInv
  BY DEF IInv
<1>2. QED
  BY <1>1, SpecIInv, PTL

\* The trapframe that trap() works on stays that of its own trap.
THEOREM HandlerFrame == Spec => []HandlerSeesItsTrap
<1>1. IInv => HandlerSeesItsTrap
  <2> SUFFICES ASSUME IInv, pc = "handler" PROVE FrameHolds(sp + CSlots, Top, TopTrap)
    BY DEF HandlerSeesItsTrap
  <2>1. Depth # 0 /\ sp = Frame(Depth) - CSlots /\ FrameSaved
    BY InTrapDepth DEF IInv, TrapInv, AtPc
  <2>2. sp + CSlots = Frame(Depth)
    BY <2>1, TopTyped
  <2>3. QED
    BY <2>1, <2>2 DEF FrameSaved
<1>2. QED
  BY <1>1, SpecIInv, PTL

\* No nested trap damages the frame of a context that is still suspended.
THEOREM OlderFrames == Spec => []SuspendedFramesIntact
<1>1. IInv => SuspendedFramesIntact
  BY DEF IInv, TrapInv
<1>2. QED
  BY <1>1, SpecIInv, PTL

\* The kernel stays in supervisor mode, and sscratch is zero in C code.
THEOREM Supervisor == Spec => []StaysInSupervisor
<1>1. IInv => StaysInSupervisor
  BY DEF IInv, TrapInv, AtPc, StaysInSupervisor, CCode
<1>2. QED
  BY <1>1, SpecIInv, PTL

\* Each field of struct pushregs lies where SAVE_ALL stores the register that
\* the calling convention gives the field's name.
LEMMA FieldOffsets ==
  ASSUME NEW i \in 0..31
  PROVE  Abi[i + 1] \in DOMAIN pushregs /\ pushregs[Abi[i + 1]] = i
BY DEF Abi, pushregs

\* Where registers are as wide as uintptr_t the fields lie where SAVE_ALL
\* stores the registers.
LEMMA FieldIsWord ==
  ASSUME XLEN = 32, NEW f \in Nat, NEW k \in 0..(FrameSlots - 1)
  PROVE  Field(f, k) = mem[f + k]
<1>1. C!REGBYTES = 4 /\ C!SizeofUintptr = 4
  BY DEF C!REGBYTES, C!SizeofUintptr
<1>2. k \in Nat
  BY DEF FrameSlots
<1>3. (4 * k) \div 4 = k /\ (4 * k) % 4 = 0 /\ 0 \div 4 = 0
  BY <1>2
<1>4. Field(f, k) = [slot \in 0..(FrameSlots - 1) |-> Words(mem[f + slot])][k][1]
  BY <1>1, <1>3 DEF Field, C!CField
<1>5. QED
  BY <1>4 DEF Words

\* Where registers are as wide as uintptr_t, print_trapframe shows the
\* interrupted context register by register, and what interrupted it.
THEOREM Report ==
  ASSUME XLEN = 32
  PROVE  Spec => []ReportIsTrue
<1>1. ASSUME IInv, pc = "handler"
      PROVE  ReportIsTrue
  <2> DEFINE f == sp + CSlots
             report == print_trapframe(f)
  <2>1. Depth # 0 /\ sp = Frame(Depth) - CSlots /\ FrameSaved
    BY <1>1, InTrapDepth DEF IInv, TrapInv, AtPc
  <2>2. f = Frame(Depth) /\ f \in Nat /\ FrameHolds(f, Top, TopTrap)
    BY <1>1, <2>1, TopTyped DEF FrameSaved
  <2> HIDE DEF f
  <2>3. /\ report.gpr = print_regs(f)
        /\ report.status = Field(f, SlotStatus)
        /\ report.epc = Field(f, SlotEpc)
        /\ report.badvaddr = Field(f, SlotBadvaddr)
        /\ report.cause = Field(f, SlotCause)
    BY DEF print_trapframe, trapframe, SlotStatus, SlotEpc, SlotBadvaddr, SlotCause
  <2>4. \A k \in 0..(FrameSlots - 1) : Field(f, k) = mem[f + k]
    BY <2>2, FieldIsWord
  <2>5. \A k \in 0..31 : print_regs(f)[Abi[k + 1]] = mem[f + k]
    <3>1. \A k \in 0..31 : k \in 0..(FrameSlots - 1)
      BY DEF FrameSlots
    <3>2. QED
      BY <2>4, <3>1, FieldOffsets DEF print_regs
  <2>6. ASSUME NEW i \in XRegs
        PROVE  report.gpr[Abi[i + 1]] = Top.x[i]
    BY <2>2, <2>3, <2>5 DEF FrameHolds
  <2>7. report.gpr.zero = 0 /\ report.gpr.sp = Top.sp
    <3>1. Abi[0 + 1] = "zero" /\ Abi[2 + 1] = "sp"
      BY DEF Abi
    <3>2. print_regs(f)["zero"] = mem[f + SlotZero] /\ print_regs(f)["sp"] = mem[f + SlotSp]
      BY <2>5, <3>1 DEF SlotZero, SlotSp
    <3>3. QED
      BY <2>2, <2>3, <3>2 DEF FrameHolds
  <2>8. /\ Field(f, SlotStatus) = SavedStatus(Top) /\ Field(f, SlotEpc) = Top.pc
        /\ Field(f, SlotBadvaddr) = TopTrap.badvaddr /\ Field(f, SlotCause) = TopTrap.cause
    <3>1. {SlotStatus, SlotEpc, SlotBadvaddr, SlotCause} \subseteq 0..(FrameSlots - 1)
      BY DEF FrameSlots, SlotStatus, SlotEpc, SlotBadvaddr, SlotCause
    <3>2. QED
      BY <2>2, <2>4, <3>1 DEF FrameHolds
  <2>9. trap_in_kernel(f)
    <3>1. Top.priv = "S"
      BY <1>1, <2>1, TopTyped
    <3>2. Field(f, SlotStatus).SPP = "S"
      BY <2>8, <3>1 DEF SavedStatus
    <3>3. QED
      BY <3>2 DEF trap_in_kernel, trapframe, SlotStatus
  <2>10. QED
    BY <2>3, <2>6, <2>7, <2>8, <2>9 DEF ReportIsTrue, f
<1>2. IInv => ReportIsTrue
  BY <1>1 DEF ReportIsTrue
<1>3. QED
  BY <1>2, SpecIInv, PTL

\* sret resumes exactly the context the trap interrupted.
THEOREM Restores == Spec => ContextRestored
<1>1. ASSUME IInv, [Next]_vars
      PROVE  [pc = "sret" =>
               [pc |-> pc', sp |-> sp', x |-> x', sie |-> sstatus'.SIE, priv |-> priv']
                 = Top]_vars
  <2>1. SUFFICES ASSUME pc = "sret", Next, vars' # vars
                 PROVE  [pc |-> pc', sp |-> sp', x |-> x', sie |-> sstatus'.SIE,
                         priv |-> priv'] = Top
    BY <1>1
  <2>2. Sret
    <3>1. ~(Interrupt \/ Exception)
      BY <1>1, <2>1, TrapsFromCCode DEF CCode
    <3>2. QED
      BY <2>1, <3>1 DEF Next, IdtInit, RunCode, SetSIE, SaveSp, SaveGprs, ReadCsrs,
           StoreCsrs, CallTrap, TrapReturns, RestoreCsrs, RestoreGprs, CCode
  <2>3. Top \in Contexts
    BY <1>1, <2>2, SretResumes, TopTyped
  <2>4. QED
    BY <1>1, <2>2, <2>3, SretResumes DEF Contexts
<1>2. QED
  BY <1>1, SpecIInv, PTL DEF Spec, ContextRestored

------------------------------------------------------------------------------
\* A step that takes no trap and returns from none is a step of the running
\* context.
LEMMA WorkStep ==
  ASSUME IInv, IInv', UNCHANGED ctx
  PROVE  Abstract!Work
<1>1. Context'.priv = "S" /\ Context'.sie = sstatus'.SIE
  BY DEF IInv, TrapInv, AtPc, Context
<1>2. ctx # << >> => Depth # 0
  BY DEF IInv, TypeInv, Depth
<1>3. Depth # 0 => ~sstatus'.SIE
  BY DEF IInv, TrapInv, NoInterruptInTrap, Depth
<1>4. QED
  BY <1>1, <1>2, <1>3 DEF Abstract!Work

\* Every step of the trap code is a step of TrapSpec.
LEMMA StepRefines == IInv /\ IInv' /\ [Next]_vars => [Abstract!Next]_Abstract!vars
<1> SUFFICES ASSUME IInv, IInv', [Next]_vars PROVE Abstract!Next
  OBVIOUS
<1>1. CASE Interrupt \/ Exception
  <2>1. ctx' = Append(ctx, Context)
    BY <1>1, TrapsFromCCode DEF HwTrap
  <2>2. Context'.priv = "S" /\ ~Context'.sie
    BY <1>1, TrapsFromCCode DEF HwTrap, Context
  <2>3. QED
    BY <2>1, <2>2 DEF Abstract!Next, Abstract!Take
<1>2. CASE Sret
  <2>1. Context' = Top
    <3>1. Top \in Contexts
      BY <1>2, SretResumes, TopTyped
    <3>2. QED
      BY <1>2, <3>1, SretResumes DEF Context, Contexts
  <2>2. ctx # << >> /\ ctx' = SubSeq(ctx, 1, Len(ctx) - 1)
    BY <1>2, SretResumes DEF Sret, Depth
  <2>3. QED
    BY <2>1, <2>2 DEF Abstract!Next, Abstract!Return, Top, Depth
<1>3. CASE ~(Interrupt \/ Exception \/ Sret)
  <2>1. UNCHANGED ctx
    BY <1>3 DEF Next, vars, IdtInit, RunCode, SetSIE, SaveSp, SaveGprs, ReadCsrs,
         StoreCsrs, CallTrap, TrapReturns, RestoreCsrs, RestoreGprs
  <2>2. QED
    BY <2>1, WorkStep DEF Abstract!Next
<1>4. QED
  BY <1>1, <1>2, <1>3

\* The trap code keeps what TrapSpec promises to interrupted code.
THEOREM Refinement == Spec => RefinesTrapSpec
<1>1. Init => Abstract!Init
  BY DEF Init, Abstract!Init, Context
<1>2. QED
  BY <1>1, StepRefines, SpecIInv, PTL DEF Spec, RefinesTrapSpec, Abstract!Spec
=============================================================================
