------------------------------ MODULE GetCycles ------------------------------
(***************************************************************************)
(* get_cycles of kern/driver/clock.c: a read of the 64-bit time counter    *)
(* that the machine advances meanwhile.  Compiled for 64-bit registers it  *)
(* is one rdtime; for 32-bit registers it is the loop                      *)
(*     1: rdtimeh hi;  rdtime lo;  rdtimeh tmp;  bne hi, tmp, 1b           *)
(* over the two halves of the counter.  The counter may advance by any     *)
(* amount between two instructions.                                        *)
(***************************************************************************)
EXTENDS Naturals

CONSTANTS
  Xlens,     \* the register widths in view
  LoSize,    \* number of values of the low half: 2^32 on the machine
  MaxHi      \* bound on the high half

ASSUME XlensAssumption  == Xlens \subseteq {32, 64}
ASSUME LoSizeAssumption == LoSize \in Nat \ {0} /\ MaxHi \in Nat

VARIABLES
  time,      \* the machine's counter, [hi, lo]
  pc,        \* next instruction of the caller: "idle" outside get_cycles
  hi, lo, tmp,
  result,    \* what the last call returned
  entry,     \* history: the counter when the call began
  atLo,      \* history: the counter when lo was last read
  retries    \* history: times the loop of this call was repeated

vars == <<time, pc, hi, lo, tmp, result, entry, atLo, retries>>

Times == [hi : 0..MaxHi, lo : 0..(LoSize - 1)]

\* The order of the 64-bit values hi * 2^32 + lo.
a \preceq b == a.hi < b.hi \/ (a.hi = b.hi /\ a.lo <= b.lo)

Zero == [hi |-> 0, lo |-> 0]

Init ==
  /\ time = Zero
  /\ pc = "idle"
  /\ hi = 0 /\ lo = 0 /\ tmp = 0
  /\ result = Zero /\ entry = Zero /\ atLo = Zero
  /\ retries = 0

\* The machine's counter counts.  A counter at its bound stops.
Tick ==
  /\ time' = IF time.lo < LoSize - 1 THEN [time EXCEPT !.lo = @ + 1]
                                     ELSE [hi |-> time.hi + 1, lo |-> 0]
  /\ time'.hi <= MaxHi
  /\ UNCHANGED <<pc, hi, lo, tmp, result, entry, atLo, retries>>

Call ==
  /\ pc = "idle"
  /\ \E xlen \in Xlens : pc' = IF xlen = 64 THEN "rdtime64" ELSE "rdtimeh"
  /\ entry' = time
  /\ retries' = 0
  /\ UNCHANGED <<time, hi, lo, tmp, result, atLo>>

\* rdtime n;  return n
Rdtime64 ==
  /\ pc = "rdtime64"
  /\ result' = time
  /\ atLo' = time
  /\ pc' = "idle"
  /\ UNCHANGED <<time, hi, lo, tmp, entry, retries>>

Rdtimeh ==
  /\ pc = "rdtimeh"
  /\ hi' = time.hi
  /\ pc' = "rdtime"
  /\ UNCHANGED <<time, lo, tmp, result, entry, atLo, retries>>

Rdtime ==
  /\ pc = "rdtime"
  /\ lo' = time.lo
  /\ atLo' = time
  /\ pc' = "rdtimeh2"
  /\ UNCHANGED <<time, hi, tmp, result, entry, retries>>

Rdtimeh2 ==
  /\ pc = "rdtimeh2"
  /\ tmp' = time.hi
  /\ pc' = "bne"
  /\ UNCHANGED <<time, hi, lo, result, entry, atLo, retries>>

\* Mutant of Retry: the loop repeats when the halves agree (beq).
Retry_Beq ==
  /\ pc = "bne" /\ hi = tmp
  /\ pc' = "rdtimeh"
  /\ retries' = retries + 1
  /\ UNCHANGED <<time, hi, lo, tmp, result, entry, atLo>>

\* bne hi, tmp, 1b;  return ((uint64_t)hi << 32) | lo
Retry ==
  /\ pc = "bne" /\ hi # tmp
  /\ pc' = "rdtimeh"
  /\ retries' = retries + 1
  /\ UNCHANGED <<time, hi, lo, tmp, result, entry, atLo>>

\* Mutant of Return: no comparison of the two high halves.
Return_Unchecked ==
  /\ pc = "bne"
  /\ result' = [hi |-> hi, lo |-> lo]
  /\ pc' = "idle"
  /\ UNCHANGED <<time, hi, lo, tmp, entry, atLo, retries>>

\* Mutant of Return: (lo << 32) | hi.
Return_Swapped ==
  /\ pc = "bne" /\ hi = tmp
  /\ result' = [hi |-> lo, lo |-> hi]
  /\ pc' = "idle"
  /\ UNCHANGED <<time, hi, lo, tmp, entry, atLo, retries>>

Return ==
  /\ pc = "bne" /\ hi = tmp
  /\ result' = [hi |-> hi, lo |-> lo]
  /\ pc' = "idle"
  /\ UNCHANGED <<time, hi, lo, tmp, entry, atLo, retries>>

Read == Rdtime64 \/ Rdtimeh \/ Rdtime \/ Rdtimeh2 \/ Retry \/ Return

Next == Tick \/ Call \/ Read

Spec == Init /\ [][Next]_vars

------------------------------------------------------------------------------
TypeOK ==
  /\ time \in Times
  /\ pc \in {"idle", "rdtime64", "rdtimeh", "rdtime", "rdtimeh2", "bne"}
  /\ hi \in 0..MaxHi /\ lo \in 0..(LoSize - 1) /\ tmp \in 0..MaxHi
  /\ result \in Times /\ entry \in Times /\ atLo \in Times
  /\ retries \in Nat

\* A call that returns gives a value the counter had during the call, at the
\* instant lo was read, although the halves are read one after the other and
\* the counter may carry in between.
ReadIsExact ==
  [][pc # "idle" /\ pc' = "idle" => result' = atLo' /\ entry \preceq result' /\ result' \preceq time]_vars

\* Successive calls never see time run backwards: a result is followed only by
\* results that are not earlier.
NeverBackwards == [][result \preceq result']_vars

\* The loop ends: each repetition is paid for by a carry into the high half
\* since the call began, so it runs at most twice in any call shorter than
\* 2^32 counts.
RetriesPaid == pc # "idle" => retries <= time.hi - entry.hi

------------------------------------------------------------------------------
\* The invariant behind the properties.
ReadInv ==
  /\ result \preceq time /\ entry \preceq time /\ atLo \preceq time
  /\ result \preceq entry \/ pc = "idle"
  /\ pc \in {"rdtime", "rdtimeh2", "bne"} => entry.hi <= hi /\ hi <= time.hi
  /\ pc \in {"rdtimeh2", "bne"} => entry \preceq atLo /\ lo = atLo.lo /\ hi <= atLo.hi
  /\ pc = "bne" => atLo.hi <= tmp /\ tmp <= time.hi
  /\ pc \in {"rdtime64", "rdtimeh"} => retries <= time.hi - entry.hi
  /\ pc \in {"rdtime", "rdtimeh2", "bne"} => retries <= hi - entry.hi
=============================================================================
