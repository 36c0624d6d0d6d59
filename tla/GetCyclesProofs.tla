--------------------------- MODULE GetCyclesProofs ---------------------------
(***************************************************************************)
(* ReadInv is inductive for every size of the counter's halves, and gives  *)
(* the exactness and monotonicity of get_cycles for both register widths.  *)
(***************************************************************************)
EXTENDS GetCycles, TLAPS

IInv == TypeOK /\ ReadInv

USE XlensAssumption, LoSizeAssumption

\* A tick moves the counter to a later time.
LEMMA TickLater ==
  ASSUME TypeOK, Tick
  PROVE  time' \in Times /\ time \preceq time' /\ time.hi <= time'.hi
<1>1. time \in Times
  BY DEF TypeOK
<1>2. CASE time.lo < LoSize - 1
  BY <1>1, <1>2 DEF Tick, Times, \preceq
<1>3. CASE ~(time.lo < LoSize - 1)
  BY <1>1, <1>3 DEF Tick, Times, \preceq
<1>4. QED
  BY <1>2, <1>3

\* The order of times is transitive and total on the halves in range.
LEMMA Transitive ==
  ASSUME NEW a \in Times, NEW b \in Times, NEW c \in Times, a \preceq b, b \preceq c
  PROVE  a \preceq c
  BY DEF Times, \preceq

LEMMA Reflexive == ASSUME NEW a \in Times PROVE a \preceq a
  BY DEF Times, \preceq

LEMMA InitInv == Init => IInv
  BY DEF Init, IInv, TypeOK, ReadInv, Times, Zero, \preceq

LEMMA TickInv == IInv /\ Tick => IInv'
<1> SUFFICES ASSUME IInv, Tick PROVE IInv'
  OBVIOUS
<1>1. time' \in Times /\ time \preceq time' /\ time.hi <= time'.hi
  BY TickLater DEF IInv
<1>2. TypeOK'
  BY <1>1 DEF IInv, TypeOK, Tick
<1>3. time \in Times /\ result \in Times /\ entry \in Times /\ atLo \in Times
  BY DEF IInv, TypeOK
<1>4. result' \preceq time' /\ entry' \preceq time' /\ atLo' \preceq time'
  BY <1>1, <1>3, Transitive DEF IInv, ReadInv, Tick
<1>5. time.hi \in Nat /\ time'.hi \in Nat /\ entry.hi \in Nat
  BY <1>1, <1>3 DEF Times
<1>6. ReadInv'
  BY <1>1, <1>4, <1>5 DEF IInv, ReadInv, TypeOK, Tick, \preceq
<1>7. QED
  BY <1>2, <1>6 DEF IInv

LEMMA CallInv == IInv /\ Call => IInv'
  BY DEF IInv, TypeOK, ReadInv, Call, Times, \preceq

LEMMA Rdtime64Inv == IInv /\ Rdtime64 => IInv'
  BY DEF IInv, TypeOK, ReadInv, Rdtime64, Times, \preceq

LEMMA RdtimehInv == IInv /\ Rdtimeh => IInv'
  BY DEF IInv, TypeOK, ReadInv, Rdtimeh, Times, \preceq

LEMMA RdtimeInv == IInv /\ Rdtime => IInv'
  BY DEF IInv, TypeOK, ReadInv, Rdtime, Times, \preceq

LEMMA Rdtimeh2Inv == IInv /\ Rdtimeh2 => IInv'
  BY DEF IInv, TypeOK, ReadInv, Rdtimeh2, Times, \preceq

LEMMA RetryInv == IInv /\ Retry => IInv'
  BY DEF IInv, TypeOK, ReadInv, Retry, Times, \preceq

\* The two reads of the high half agree, so the counter's high half was the
\* same when lo was read: the pair is the counter's value at that instant.
LEMMA ReturnIsAtLo ==
  ASSUME IInv, Return
  PROVE  result' = atLo
<1>1. hi = tmp /\ hi <= atLo.hi /\ atLo.hi <= tmp /\ lo = atLo.lo
  BY DEF IInv, ReadInv, Return
<1>2. hi = atLo.hi
  BY <1>1 DEF IInv, TypeOK, Times
<1>3. atLo = [hi |-> atLo.hi, lo |-> atLo.lo]
  BY DEF IInv, TypeOK, Times
<1>4. QED
  BY <1>1, <1>2, <1>3 DEF Return

LEMMA ReturnInv == IInv /\ Return => IInv'
<1> SUFFICES ASSUME IInv, Return PROVE IInv'
  OBVIOUS
<1>1. result' = atLo
  BY ReturnIsAtLo
<1>2. QED
  BY <1>1 DEF IInv, TypeOK, ReadInv, Return, Times, \preceq

LEMMA NextInv == IInv /\ [Next]_vars => IInv'
<1> SUFFICES ASSUME IInv, [Next]_vars PROVE IInv'
  OBVIOUS
<1>1. CASE UNCHANGED vars
  BY <1>1 DEF vars, IInv, TypeOK, ReadInv
<1>2. CASE Next
  BY <1>2, TickInv, CallInv, Rdtime64Inv, RdtimehInv, RdtimeInv, Rdtimeh2Inv, RetryInv,
     ReturnInv DEF Next, Read
<1>3. QED
  BY <1>1, <1>2

LEMMA SpecIInv == Spec => []IInv
  BY InitInv, NextInv, PTL DEF Spec

\* The reader's variables are typed: each half of a result fits its width.
THEOREM TypeCorrect == Spec => []TypeOK
<1>1. IInv => TypeOK
  BY DEF IInv
<1>2. QED
  BY <1>1, SpecIInv, PTL

\* The loop of get_cycles repeats at most once per carry of the counter.
THEOREM RetryBound == Spec => []RetriesPaid
<1>1. IInv => RetriesPaid
  BY DEF IInv, TypeOK, ReadInv, RetriesPaid, Times
<1>2. QED
  BY <1>1, SpecIInv, PTL

\* get_cycles returns the value the counter had when lo was read, between the
\* call and the return.
THEOREM ExactRead == Spec => ReadIsExact
<1>1. ASSUME IInv, [Next]_vars
      PROVE  [pc # "idle" /\ pc' = "idle"
                => result' = atLo' /\ entry \preceq result' /\ result' \preceq time]_vars
  <2>1. CASE Rdtime64
    BY <1>1, <2>1, Reflexive DEF IInv, TypeOK, ReadInv, Rdtime64
  <2>2. CASE Return
    <3>1. result' = atLo /\ atLo' = atLo
      BY <1>1, <2>2, ReturnIsAtLo DEF Return
    <3>2. entry \preceq atLo /\ atLo \preceq time
      BY <1>1, <2>2 DEF IInv, ReadInv, Return
    <3>3. QED
      BY <3>1, <3>2
  <2>3. CASE ~(Rdtime64 \/ Return)
    BY <1>1, <2>3 DEF Next, vars, Read, Tick, Call, Rdtimeh, Rdtime, Rdtimeh2, Retry
  <2>4. QED
    BY <2>1, <2>2, <2>3
<1>2. QED
  BY <1>1, SpecIInv, PTL DEF Spec, ReadIsExact

\* Time read by successive calls never runs backwards.
THEOREM Monotone == Spec => NeverBackwards
<1>1. ASSUME IInv, [Next]_vars
      PROVE  [result \preceq result']_vars
  <2>1. result \in Times /\ entry \in Times /\ time \in Times /\ atLo \in Times
    BY <1>1 DEF IInv, TypeOK
  <2>2. CASE Rdtime64
    BY <1>1, <2>2 DEF IInv, ReadInv, Rdtime64
  <2>3. CASE Return
    <3>1. result' = atLo
      BY <1>1, <2>3, ReturnIsAtLo
    <3>2. result \preceq entry /\ entry \preceq atLo
      BY <1>1, <2>3 DEF IInv, ReadInv, Return
    <3>3. QED
      BY <3>1, <3>2, <2>1, Transitive
  <2>4. CASE ~(Rdtime64 \/ Return)
    <3>1. result' = result
      BY <1>1, <2>4 DEF Next, vars, Read, Tick, Call, Rdtimeh, Rdtime, Rdtimeh2, Retry
    <3>2. QED
      BY <3>1, <2>1, Reflexive
  <2>5. QED
    BY <2>2, <2>3, <2>4
<1>2. QED
  BY <1>1, SpecIInv, PTL DEF Spec, NeverBackwards
=============================================================================
