--------------------------- MODULE StringLibProofs ---------------------------
(***************************************************************************)
(* For every memory: the copying functions of string.c leave at the        *)
(* destination what the source held at the call, whatever the overlap that *)
(* memmove meets, and those that only read return what their comments      *)
(* promise, but for strtol's prefix "0X".  The invariant of the copies,    *)
(* IInv, says which bytes are done (Progress) and that the byte read next  *)
(* is still the old one (Position); that of all calls, SInv, adds what a   *)
(* scan has passed (Looking) and what strtol has made of the digits so far *)
(* (Converting).                                                           *)
(***************************************************************************)
EXTENDS StringLib, NumeralProofs

\* The bytes already written: below d on the way up, from d on on the way down.
Written == IF pc = "down" THEN d..(dst + n - 1)
           ELSE IF pc = "return" THEN Region(dst, Extent)
           ELSE dst..(d - 1)

\* The bytes written are final, the others untouched.
Progress ==
  \A a \in Addr : mem[a] = IF a \in Written THEN Result(a - dst) ELSE old[a]

\* Where the two pointers are.
Position ==
  /\ pc = "call" => d = dst /\ s = src /\ left = n
  /\ pc \in {"up", "down"} => dst <= d
  /\ pc = "up" /\ fn # "strcpy" => left = n - (d - dst)
  /\ pc = "up" /\ fn \in Blocks \cup {"strcpy"} => s = src + (d - dst)
  /\ pc = "up" /\ fn = "memmove" => ~(src < dst /\ src + n > dst)
  /\ pc = "up" /\ fn = "strcpy" =>
       \A i \in 0..(d - dst - 1) : src + i \in Addr /\ old[src + i] # NUL
  /\ pc = "up" /\ fn = "strncpy" =>
       /\ s - src \in 0..(d - dst)
       /\ \A i \in 0..(s - src - 1) : src + i \in Addr /\ old[src + i] # NUL
       /\ s < src + (d - dst) => s \in Addr /\ old[s] = NUL
  /\ pc = "down" => fn = "memmove" /\ src < dst /\ left = d - dst /\ s = src + left

\* What Legal said of the arguments at the call.
Accepted ==
  /\ fn \in Copying
  /\ dst + n <= MemSize
  /\ fn \in Blocks => src + n <= MemSize
  /\ fn = "memcpy" => Apart(dst, n, src, n)
  /\ fn = "strcpy" => \E k \in Addr : /\ IsLength(old, src, k)
                                      /\ dst + k < MemSize
                                      /\ Apart(dst, k + 1, src, k + 1)
  /\ fn = "strncpy" => \A j \in FirstBytes(old, src, n) :
                          src + j \in Addr /\ src + j \notin Region(dst, n)

IInv == CopyTypeOK /\ Accepted /\ Position /\ Progress

USE MemAssumption

------------------------------------------------------------------------------
\* A string has one length.
LEMMA LengthUnique ==
  ASSUME NEW m, NEW p \in Addr, NEW k \in Addr, NEW l \in Addr,
         IsLength(m, p, k), IsLength(m, p, l)
  PROVE  k = l
<1>1. CASE k < l
  <2>1. k \in 0..(l - 1)
    BY <1>1 DEF Addr
  <2>2. QED
    BY <2>1 DEF IsLength
<1>2. CASE l < k
  <2>1. l \in 0..(k - 1)
    BY <1>2 DEF Addr
  <2>2. QED
    BY <2>1 DEF IsLength
<1>3. QED
  BY <1>1, <1>2 DEF Addr

\* A string of k characters is copied with its '\0'.
LEMMA StringExtent ==
  ASSUME CopyTypeOK, fn = "strcpy",
         NEW k \in Addr, IsLength(old, src, k)
  PROVE  Extent = k + 1
<1>1. PICK l : l = CHOOSE x \in Addr : IsLength(old, src, x)
  OBVIOUS
<1>2. l \in Addr /\ IsLength(old, src, l)
  BY <1>1
<1>3. l = k
  BY <1>2, LengthUnique DEF CopyTypeOK
<1>4. QED
  BY <1>1, <1>3 DEF Extent

\* The arguments, and so the result asked for, do not change.
LEMMA SameCall ==
  ASSUME UNCHANGED args
  PROVE  /\ Extent' = Extent
         /\ \A j : Result(j)' = Result(j)
         /\ Accepted' = Accepted
BY DEF args, Extent, Result, Accepted, IsLength, FirstBytes, Apart, Region

\* A byte written with its final value is one more byte done.
LEMMA OneByte ==
  ASSUME NEW x \in Addr, IInv, UNCHANGED args,
         mem' = [mem EXCEPT ![x] = Result(x - dst)],
         Written' = Written \cup {x}
  PROVE  Progress'
<1>1. mem \in [Addr -> Byte]
  BY DEF IInv, CopyTypeOK
<1>2. \A a \in Addr : mem[a] = IF a \in Written THEN Result(a - dst) ELSE old[a]
  BY DEF IInv, Progress
<1>3. \A a \in Addr :
         mem'[a] = IF a \in Written \cup {x} THEN Result(a - dst) ELSE old[a]
  BY <1>1, <1>2
<1>4. QED
  BY <1>3, SameCall DEF Progress, args

LEMMA InitIInv == CopyInit => IInv
<1> SUFFICES ASSUME CopyInit PROVE IInv
  OBVIOUS
<1>1. CopyTypeOK
  BY DEF CopyInit, CopyTypeOK, Pointer, Legal, Addr
<1>2. Accepted
  BY DEF CopyInit, Accepted, Legal
<1>3. Position
  BY DEF CopyInit, Position
<1>4. Progress
  <2>1. Written = dst..(dst - 1)
    BY DEF CopyInit, Written
  <2>2. \A a \in Addr : a \notin Written
    BY <2>1 DEF CopyInit, Addr
  <2>3. QED
    BY <2>2 DEF CopyInit, Progress
<1>5. QED
  BY <1>1, <1>2, <1>3, <1>4 DEF IInv

------------------------------------------------------------------------------
(***************************************************************************)
(* Every step, an action at a time: where the pointers are, and that the   *)
(* byte written is the one the result asks for.                            *)
(***************************************************************************)
LEMMA StepEnter == IInv /\ Enter => IInv'
<1> SUFFICES ASSUME IInv, Enter PROVE IInv'
  OBVIOUS
<1>1. CopyTypeOK'
  BY DEF IInv, CopyTypeOK, Enter, args
<1>2. Accepted'
  BY SameCall DEF IInv, Enter
<1>3. Position'
  BY DEF IInv, CopyTypeOK, Accepted, Position, Enter, args, Overlap, Blocks, Copying, Addr
<1>4. Progress'
  <2>1. Written' = Written
    BY DEF Enter, Written, args
  <2>2. QED
    BY <2>1, SameCall DEF IInv, Progress, Enter, args
<1>5. QED
  BY <1>1, <1>2, <1>3, <1>4 DEF IInv

LEMMA StepEnterDown == IInv /\ EnterDown => IInv'
<1> SUFFICES ASSUME IInv, EnterDown PROVE IInv'
  OBVIOUS
<1>1. CopyTypeOK'
  BY DEF IInv, CopyTypeOK, Accepted, Position, EnterDown, args, Blocks, Pointer, Addr
<1>2. Accepted'
  BY SameCall DEF IInv, EnterDown
<1>3. Position'
  BY DEF IInv, CopyTypeOK, Accepted, Position, EnterDown, args, Overlap, Blocks, Addr
<1>4. Progress'
  <2>1. \A a : a \notin Written
    BY DEF IInv, CopyTypeOK, Position, EnterDown, Written, Addr
  <2>2. Written' = (dst + n)..(dst + n - 1)
    BY DEF IInv, Position, EnterDown, Written, args
  <2>3. \A a : a \notin Written'
    BY <2>2 DEF IInv, CopyTypeOK, Addr
  <2>4. QED
    BY <2>1, <2>3 DEF IInv, Progress, EnterDown, args
<1>5. QED
  BY <1>1, <1>2, <1>3, <1>4 DEF IInv

LEMMA StepCopyUp == IInv /\ CopyUp => IInv'
<1> SUFFICES ASSUME IInv, CopyUp PROVE IInv'
  OBVIOUS
<1>1. /\ d \in Addr /\ s \in Addr /\ d - dst \in 0..(n - 1)
      /\ s = src + (d - dst) /\ left = n - (d - dst)
  BY DEF IInv, CopyTypeOK, Accepted, Position, CopyUp, Blocks, Addr, Pointer
<1>2. CopyTypeOK'
  BY <1>1 DEF IInv, CopyTypeOK, CopyUp, args, Addr, Pointer
<1>3. Accepted'
  BY SameCall DEF IInv, CopyUp
<1>4. Position'
  BY <1>1 DEF IInv, CopyTypeOK, Position, CopyUp, args, Blocks, Addr
<1>5. Progress'
  <2>1. Written = dst..(d - 1) /\ Written' = dst..d
    BY <1>1 DEF CopyUp, Written, args, Addr
  <2>2. Written' = Written \cup {d}
    BY <1>1, <2>1 DEF IInv, CopyTypeOK, Addr
  <2>3. s \notin Written
    BY <1>1, <2>1 DEF IInv, CopyTypeOK, Accepted, Position, CopyUp, Blocks, Apart, Addr
  <2>4. mem[s] = Result(d - dst)
    <3>1. mem[s] = old[s]
      BY <1>1, <2>3 DEF IInv, Progress
    <3>2. fn # "memset" /\ fn # "strncpy"
      BY DEF CopyUp, Blocks
    <3>3. QED
      BY <1>1, <3>1, <3>2 DEF Result
  <2>5. mem' = [mem EXCEPT ![d] = Result(d - dst)]
    BY <2>4 DEF CopyUp
  <2>6. QED
    BY <1>1, <2>2, <2>5, OneByte DEF CopyUp
<1>6. QED
  BY <1>2, <1>3, <1>4, <1>5 DEF IInv

LEMMA StepCopyDown == IInv /\ CopyDown => IInv'
<1> SUFFICES ASSUME IInv, CopyDown PROVE IInv'
  OBVIOUS
<1>1. /\ d - 1 \in Addr /\ s - 1 \in Addr /\ d - dst \in 1..n /\ left = d - dst
      /\ s = src + left /\ src < dst /\ fn = "memmove"
  BY DEF IInv, CopyTypeOK, Accepted, Position, CopyDown, Blocks, Addr, Pointer
<1>2. CopyTypeOK'
  BY <1>1 DEF IInv, CopyTypeOK, CopyDown, args, Addr, Pointer
<1>3. Accepted'
  BY SameCall DEF IInv, CopyDown
<1>4. Position'
  BY <1>1 DEF IInv, CopyTypeOK, Position, CopyDown, args, Blocks, Addr
<1>5. Progress'
  <2>1. Written = d..(dst + n - 1) /\ Written' = (d - 1)..(dst + n - 1)
    BY <1>1 DEF CopyDown, Written, args
  <2>2. Written' = Written \cup {d - 1}
    BY <1>1, <2>1 DEF IInv, CopyTypeOK, Addr
  <2>3. s - 1 \notin Written
    BY <1>1, <2>1 DEF IInv, CopyTypeOK, Addr
  <2>4. mem[s - 1] = Result((d - 1) - dst)
    <3>1. mem[s - 1] = old[s - 1]
      BY <1>1, <2>3 DEF IInv, Progress
    <3>2. s - 1 = src + ((d - 1) - dst)
      BY <1>1 DEF IInv, CopyTypeOK, Addr, Pointer
    <3>3. QED
      BY <1>1, <3>1, <3>2 DEF Result
  <2>5. mem' = [mem EXCEPT ![d - 1] = Result((d - 1) - dst)]
    BY <2>4 DEF CopyDown
  <2>6. QED
    BY <1>1, <2>2, <2>5, OneByte DEF CopyDown
<1>6. QED
  BY <1>2, <1>3, <1>4, <1>5 DEF IInv

LEMMA StepFill == IInv /\ Fill => IInv'
<1> SUFFICES ASSUME IInv, Fill PROVE IInv'
  OBVIOUS
<1>1. d \in Addr /\ d - dst \in 0..(n - 1) /\ left = n - (d - dst)
  BY DEF IInv, CopyTypeOK, Accepted, Position, Fill, Addr, Pointer
<1>2. CopyTypeOK'
  BY <1>1 DEF IInv, CopyTypeOK, Fill, args, Addr, Pointer
<1>3. Accepted'
  BY SameCall DEF IInv, Fill
<1>4. Position'
  BY <1>1 DEF IInv, CopyTypeOK, Position, Fill, args, Blocks, Addr
<1>5. Progress'
  <2>1. Written = dst..(d - 1) /\ Written' = dst..d
    BY <1>1 DEF Fill, Written, args, Addr
  <2>2. Written' = Written \cup {d}
    BY <1>1, <2>1 DEF IInv, CopyTypeOK, Addr
  <2>3. c = Result(d - dst)
    BY DEF Fill, Result
  <2>4. mem' = [mem EXCEPT ![d] = Result(d - dst)]
    BY <2>3 DEF Fill
  <2>5. QED
    BY <1>1, <2>2, <2>4, OneByte DEF Fill
<1>6. QED
  BY <1>2, <1>3, <1>4, <1>5 DEF IInv

\* The source string has not ended before d, so s and d are still inside.
LEMMA StepCopyString == IInv /\ CopyString => IInv'
<1> SUFFICES ASSUME IInv, CopyString PROVE IInv'
  OBVIOUS
<1> DEFINE j == d - dst
<1>1. PICK k \in Addr : /\ IsLength(old, src, k)
                        /\ dst + k < MemSize
                        /\ Apart(dst, k + 1, src, k + 1)
  BY DEF IInv, Accepted, CopyString
<1>2. /\ j \in Nat /\ s = src + j
      /\ \A i \in 0..(j - 1) : src + i \in Addr /\ old[src + i] # NUL
  BY DEF IInv, CopyTypeOK, Position, CopyString, Addr, Pointer
<1>3. j \in 0..k
  BY <1>1, <1>2 DEF IsLength, Addr
<1>4. d \in Addr /\ s \in Addr
  BY <1>1, <1>2, <1>3 DEF IInv, CopyTypeOK, IsLength, Addr
<1>5. mem[s] = old[s]
  <2>1. s \notin Written
    BY <1>1, <1>2, <1>3 DEF IInv, CopyTypeOK, CopyString, Written, Apart, Addr
  <2>2. QED
    BY <1>4, <2>1 DEF IInv, Progress
<1>6. mem[s] = Result(d - dst)
  BY <1>2, <1>5 DEF CopyString, Result
<1>7. CopyTypeOK'
  BY <1>4 DEF IInv, CopyTypeOK, CopyString, args, Addr, Pointer
<1>8. Accepted'
  BY SameCall DEF IInv, CopyString
<1>9. Position'
  <2>1. CASE mem[s] = NUL
    BY <2>1 DEF CopyString, Position, args
  <2>2. CASE mem[s] # NUL
    <3>1. \A i \in 0..j : src + i \in Addr /\ old[src + i] # NUL
      BY <1>2, <1>4, <1>5, <2>2
    <3>2. d' - dst' = j + 1 /\ s' = src' + (d' - dst') /\ dst' <= d'
      BY <1>2, <1>4 DEF IInv, CopyTypeOK, CopyString, args, Addr
    <3>3. QED
      BY <1>2, <2>2, <3>1, <3>2 DEF Position, CopyString, args, Blocks
  <2>3. QED
    BY <2>1, <2>2
<1>10. Progress'
  <2>1. Written = dst..(d - 1)
    BY DEF CopyString, Written
  <2>2. Written' = Written \cup {d}
    <3>1. CASE mem[s] = NUL
      <4>1. j = k
        <5>1. old[src + j] = NUL
          BY <1>2, <1>5, <3>1
        <5>2. j \notin 0..(k - 1)
          BY <5>1, <1>1 DEF IsLength
        <5>3. QED
          BY <5>2, <1>3 DEF Addr
      <4>2. Extent' = j + 1
        BY <4>1, <1>1, StringExtent, SameCall DEF IInv, CopyString
      <4>3. Written' = dst..d
        BY <3>1, <4>2, <1>4 DEF IInv, CopyTypeOK, CopyString, Written, Region, args, Addr
      <4>4. QED
        BY <2>1, <4>3, <1>2, <1>4 DEF IInv, CopyTypeOK, Addr
    <3>2. CASE mem[s] # NUL
      <4>1. Written' = dst..d
        BY <3>2, <1>4 DEF IInv, CopyTypeOK, CopyString, Written, args, Addr
      <4>2. QED
        BY <2>1, <4>1, <1>2, <1>4 DEF IInv, CopyTypeOK, Addr
    <3>3. QED
      BY <3>1, <3>2
  <2>3. mem' = [mem EXCEPT ![d] = Result(d - dst)]
    BY <1>6 DEF CopyString
  <2>4. QED
    BY <1>4, <2>2, <2>3, OneByte DEF CopyString
<1>11. QED
  BY <1>7, <1>8, <1>9, <1>10 DEF IInv

\* s is at most as far as d, and behind it only when it stands on a '\0'.
LEMMA StepCopyPadded == IInv /\ CopyPadded => IInv'
<1> SUFFICES ASSUME IInv, CopyPadded PROVE IInv'
  OBVIOUS
<1> DEFINE j == d - dst
           i0 == s - src
<1>1. /\ d \in Addr /\ j \in 0..(n - 1) /\ left = n - j
      /\ i0 \in 0..j
      /\ \A i \in 0..(i0 - 1) : src + i \in Addr /\ old[src + i] # NUL
      /\ i0 < j => s \in Addr /\ old[s] = NUL
  BY DEF IInv, CopyTypeOK, Accepted, Position, CopyPadded, Addr, Pointer
<1>2. i0 \in FirstBytes(old, src, n)
  BY <1>1 DEF FirstBytes, IInv, CopyTypeOK
<1>3. s \in Addr /\ s \notin Region(dst, n)
  BY <1>1, <1>2 DEF IInv, CopyTypeOK, Accepted, CopyPadded, Addr, Pointer
<1>4. mem[s] = old[s]
  <2>1. s \notin Written
    BY <1>1, <1>3 DEF IInv, CopyTypeOK, CopyPadded, Written, Region, Addr
  <2>2. QED
    BY <1>3, <2>1 DEF IInv, Progress
<1>5. mem[s] = Result(d - dst)
  <2>1. CASE old[s] = NUL
    <3>1. i0 \in 0..j /\ src + i0 = s
      BY <1>1, <1>3 DEF IInv, CopyTypeOK, Addr
    <3>2. QED
      BY <2>1, <3>1, <1>3, <1>4 DEF CopyPadded, Result
  <2>2. CASE old[s] # NUL
    <3>1. i0 = j /\ s = src + j
      BY <2>2, <1>1, <1>3 DEF IInv, CopyTypeOK, Addr
    <3>2. \A i \in 0..j : old[src + i] # NUL
      BY <2>2, <3>1, <1>1
    <3>3. QED
      BY <3>1, <3>2, <1>4 DEF CopyPadded, Result
  <2>3. QED
    BY <2>1, <2>2
<1>6. CopyTypeOK'
  BY <1>1, <1>3 DEF IInv, CopyTypeOK, CopyPadded, args, Addr, Pointer
<1>7. Accepted'
  BY SameCall DEF IInv, CopyPadded
<1>8. Position'
  <2>1. d' - dst' = j + 1 /\ dst' <= d' /\ left' = n' - (d' - dst')
    BY <1>1 DEF IInv, CopyTypeOK, CopyPadded, args, Addr
  <2>2. CASE mem[s] # NUL
    <3>1. s' - src' = i0 + 1 /\ i0 = j
      BY <2>2, <1>1, <1>3, <1>4 DEF IInv, CopyTypeOK, CopyPadded, args, Addr
    <3>2. \A i \in 0..i0 : src + i \in Addr /\ old[src + i] # NUL
      BY <2>2, <1>1, <1>3, <1>4 DEF IInv, CopyTypeOK, Addr
    <3>3. s' = src' + (d' - dst')
      BY <2>1, <3>1, <1>1, <1>3 DEF IInv, CopyTypeOK, CopyPadded, args, Addr
    <3>4. QED
      <4>1. s' - src' \in 0..(d' - dst') /\ ~(s' < src' + (d' - dst'))
        BY <2>1, <3>1, <3>3, <1>1 DEF IInv, CopyTypeOK, CopyPadded, args, Addr
      <4>2. \A i \in 0..(s' - src' - 1) : src' + i \in Addr /\ old'[src' + i] # NUL
        BY <3>1, <3>2, <1>1 DEF CopyPadded, args
      <4>3. QED
        BY <2>1, <4>1, <4>2 DEF CopyPadded, Position, args, Blocks
  <2>3. CASE mem[s] = NUL
    <3>1. s' - src' = i0 /\ s' = s
      BY <2>3 DEF CopyPadded, args
    <3>2. s' \in Addr /\ old'[s'] = NUL
      BY <2>3, <3>1, <1>3, <1>4 DEF CopyPadded, args
    <3>3. QED
      BY <2>1, <3>1, <3>2, <1>1 DEF CopyPadded, Position, args, Blocks
  <2>4. QED
    BY <2>2, <2>3
<1>9. Progress'
  <2>1. Written = dst..(d - 1) /\ Written' = dst..d
    BY <1>1 DEF CopyPadded, Written, args, Addr
  <2>2. Written' = Written \cup {d}
    BY <1>1, <2>1 DEF IInv, CopyTypeOK, Addr
  <2>3. mem' = [mem EXCEPT ![d] = Result(d - dst)]
    BY <1>5 DEF CopyPadded
  <2>4. QED
    BY <1>1, <2>2, <2>3, OneByte DEF CopyPadded
<1>10. QED
  BY <1>6, <1>7, <1>8, <1>9 DEF IInv

LEMMA StepLoopEnds == IInv /\ LoopEnds => IInv'
<1> SUFFICES ASSUME IInv, LoopEnds PROVE IInv'
  OBVIOUS
<1>1. CopyTypeOK'
  BY DEF IInv, CopyTypeOK, LoopEnds, args
<1>2. Accepted'
  BY SameCall DEF IInv, LoopEnds
<1>3. Position'
  BY DEF Position, LoopEnds, args
<1>4. Progress'
  <2>1. Extent = n /\ Extent' = n
    BY SameCall DEF Extent, LoopEnds
  <2>2. Written' = dst..(dst + n - 1)
    BY <2>1 DEF LoopEnds, Written, Region, args
  <2>3. Written = dst..(dst + n - 1)
    <3>1. CASE pc = "up"
      <4>1. d = dst + n
        BY <3>1 DEF IInv, CopyTypeOK, Position, LoopEnds, Addr, Pointer
      <4>2. QED
        BY <3>1, <4>1 DEF IInv, CopyTypeOK, Written, Addr
    <3>2. CASE pc = "down"
      <4>1. d = dst
        BY <3>2 DEF IInv, CopyTypeOK, Position, LoopEnds, Addr, Pointer
      <4>2. QED
        BY <3>2, <4>1 DEF Written
    <3>3. QED
      BY <3>1, <3>2 DEF LoopEnds
  <2>4. QED
    BY <2>2, <2>3, SameCall DEF IInv, Progress, LoopEnds, args
<1>5. QED
  BY <1>1, <1>2, <1>3, <1>4 DEF IInv

LEMMA StepIInv == IInv /\ [CopyNext]_memVars => IInv'
<1> SUFFICES ASSUME IInv, [CopyNext]_memVars PROVE IInv'
  OBVIOUS
<1>1. CASE UNCHANGED memVars
  <2>1. UNCHANGED args
    BY <1>1 DEF memVars
  <2>2. Written' = Written
    BY <1>1, <2>1, SameCall DEF memVars, args, Written, Region
  <2>3. Progress'
    BY <1>1, <2>1, <2>2, SameCall DEF IInv, Progress, memVars, args
  <2>4. CopyTypeOK' /\ Position'
    BY <1>1, <2>1 DEF IInv, CopyTypeOK, Position, memVars, args
  <2>5. QED
    BY <2>1, <2>3, <2>4, SameCall DEF IInv
<1>2. QED
  BY <1>1, StepEnter, StepEnterDown, StepCopyUp, StepCopyDown, StepFill,
     StepCopyString, StepCopyPadded, StepLoopEnds DEF CopyNext

------------------------------------------------------------------------------
(***************************************************************************)
(* The value of a numeral.                                                 *)
(***************************************************************************)
LEMMA DigitNat == \A ch : Digit(ch) \in Nat
  BY DEF Digit

LEMMA WeightedNone == ASSUME NEW e, NEW B \in Nat PROVE Weighted(e, B)[0] = 0
<1>1. [i \in Nat |-> Digit(mem[e - 1 - i])] \in [Nat -> Nat]
  BY DigitNat
<1>2. QED
  BY <1>1, ValueSteps DEF Weighted

\* The digit at e is the unit of the numeral that ends behind it.
LEMMA WeightedOneMore ==
  ASSUME NEW e \in Int, NEW B \in Nat, NEW i \in Nat
  PROVE  Weighted(e + 1, B)[i + 1] = Weighted(e, B)[i] * B + Digit(mem[e])
<1>1. PICK dig : dig = [k \in Nat |-> Digit(mem[e - 1 - k])]
  OBVIOUS
<1>2. PICK longer : longer = [k \in Nat |-> Digit(mem[(e + 1) - 1 - k])]
  OBVIOUS
<1>3. dig \in [Nat -> Nat] /\ longer \in [Nat -> Nat]
  BY <1>1, <1>2, DigitNat
<1>4. \A k \in Nat : longer[k + 1] = dig[k]
  <2> SUFFICES ASSUME NEW k \in Nat PROVE longer[k + 1] = dig[k]
    OBVIOUS
  <2>1. (e + 1) - 1 - (k + 1) = e - 1 - k
    OBVIOUS
  <2>2. QED
    BY <1>1, <1>2, <2>1
<1>5. longer[0] = Digit(mem[e])
  <2>1. (e + 1) - 1 - 0 = e
    OBVIOUS
  <2>2. QED
    BY <1>2, <2>1
<1>6. \A k \in Nat : dig[k] \in Nat /\ longer[k] \in Nat /\ longer[k + 1] = dig[k]
  BY <1>3, <1>4
<1>7. Value(longer, B)[i + 1] = Value(dig, B)[i] * B + longer[0]
  BY <1>6, OneMoreDigit
<1>8. Weighted(e, B) = Value(dig, B) /\ Weighted(e + 1, B) = Value(longer, B)
  BY <1>1, <1>2 DEF Weighted
<1>9. QED
  BY <1>5, <1>7, <1>8

------------------------------------------------------------------------------
(***************************************************************************)
(* The loops that only look.                                               *)
(***************************************************************************)
\* Where the loops that only look are, and what they have passed.
Passed ==
  \A i \in 0..(s - src - 1) :
    /\ src + i \in Addr
    /\ fn \in Strings => mem[src + i] # NUL
    /\ fn \in Comparing => dst + i \in Addr /\ mem[src + i] = mem[dst + i]
    /\ fn \in Seeking => mem[src + i] # c

Looking ==
  fn \in Scanning =>
    /\ ScanLegal
    /\ pc \in {"up", "return"}
    /\ pc = "up" => /\ src <= s
                    /\ fn \in Comparing => d = dst + (s - src)
                    /\ fn \in Counted => left = n - (s - src)
                    /\ Passed

\* The prefix that the code takes for hexadecimal, and the digits after it.
Taken(q) == n \in {0, 16} /\ mem[q] = Zero /\ mem[q + 1] = LowerX
Start(q) == IF Taken(q) THEN q + 2 ELSE q

\* The number that strtol is in the middle of, its sign at b.
Reading(b) ==
  /\ Signed(b)
  /\ neg = (mem[b] = Minus)
  /\ base = Radix(Number(b))
  /\ Start(Number(b)) <= s
  /\ \A q \in Start(Number(b))..(s - 1) : Digit(mem[q]) < base
  /\ ret.val = Weighted(s, base)[s - Start(Number(b))]

Converting ==
  fn = "strtol" =>
    /\ pc # "down" /\ src <= s
    /\ Readable(src, MemSize + 1) /\ n \in Bases
    /\ \A a \in src..(s - 1) : mem[a] # NUL
    /\ pc = "call" => /\ base = n /\ ret.val = 0
                      /\ \A a \in src..(s - 1) : mem[a] \in {Space, Tab}
    /\ pc = "up" => \E b \in src..(MemSize - 1) : Reading(b)

SInv ==
  /\ TypeOK
  /\ fn \in Copying => IInv
  /\ Looking
  /\ Converting
  /\ ScanContract


LEMMA LeastIs ==
  ASSUME NEW S, S \subseteq Int, NEW x \in S, \A y \in S : x <= y
  PROVE  Least(S) = x
<1>1. PICK m : m = Least(S)
  OBVIOUS
<1>2. m \in S /\ \A y \in S : m <= y
  BY <1>1 DEF Least
<1>3. x <= m /\ m <= x /\ m \in Int /\ x \in Int
  BY <1>2
<1>4. QED
  BY <1>1, <1>3

\* A string that lies in the memory can be read up to any place it reaches.
LEMMA StringHere ==
  ASSUME NEW p \in Addr, NEW k \in Nat, NEW i \in 0..(k - 1), Readable(p, k),
         \A h \in 0..(i - 1) : p + h \in Addr /\ mem[p + h] # NUL
  PROVE  p + i \in Addr
BY DEF Readable, FirstBytes

\* The characters that the loop is about to look at lie in the memory.
LEMMA InMemory ==
  ASSUME TypeOK, Looking, fn \in Scanning, pc = "up",
         fn \in Counted => left > 0
  PROVE  /\ s \in Addr /\ s = src + (s - src) /\ s - src \in Nat
         /\ fn \in Comparing => d \in Addr
         /\ fn \in Counted => s - src \in 0..(n - 1)
<1> DEFINE j == s - src
<1>1. /\ src \in Addr /\ dst \in Addr /\ s \in Pointer /\ n \in Nat /\ left \in 0..n
      /\ MemSize \in Nat
  BY DEF TypeOK, CopyTypeOK, Addr, Pointer
<1>2. j \in Nat /\ s = src + j /\ j <= MemSize
  BY <1>1 DEF Looking, Addr, Pointer
<1>3. fn \in Counted => j \in 0..(n - 1)
  BY <1>1, <1>2 DEF Looking
<1>4. Passed /\ ScanLegal
  BY DEF Looking
<1>5. s \in Addr
  <2>1. CASE fn \in Strings \ Counted
    <3>1. Readable(src, MemSize + 1) /\ j \in 0..((MemSize + 1) - 1)
      BY <2>1, <1>1, <1>2, <1>4 DEF ScanLegal
    <3>2. \A h \in 0..(j - 1) : src + h \in Addr /\ mem[src + h] # NUL
      BY <2>1, <1>4 DEF Passed
    <3>3. QED
      BY <3>1, <3>2, <1>1, <1>2, StringHere
  <2>2. CASE fn \in {"strnlen", "strncmp"}
    <3>1. Readable(src, n) /\ j \in 0..(n - 1)
      BY <2>2, <1>3, <1>4 DEF ScanLegal, Counted
    <3>2. \A h \in 0..(j - 1) : src + h \in Addr /\ mem[src + h] # NUL
      BY <2>2, <1>4 DEF Passed, Strings
    <3>3. QED
      BY <3>1, <3>2, <1>1, <1>2, StringHere
  <2>3. CASE fn = "memcmp"
    BY <2>3, <1>1, <1>2, <1>3, <1>4 DEF ScanLegal, Counted, Addr
  <2>4. QED
    BY <2>1, <2>2, <2>3 DEF Scanning, Strings, Counted
<1>6. fn \in Comparing => d \in Addr
  <2> SUFFICES ASSUME fn \in Comparing PROVE d \in Addr
    OBVIOUS
  <2>1. d = dst + j
    BY DEF Looking
  <2>2. CASE fn = "strcmp"
    <3>1. Readable(dst, MemSize + 1) /\ j \in 0..((MemSize + 1) - 1)
      BY <2>2, <1>1, <1>2, <1>4 DEF ScanLegal
    <3>2. \A h \in 0..(j - 1) : dst + h \in Addr /\ mem[dst + h] # NUL
      BY <2>2, <1>4 DEF Passed, Strings
    <3>3. QED
      BY <3>1, <3>2, <2>1, <1>1, StringHere
  <2>3. CASE fn = "strncmp"
    <3>1. Readable(dst, n) /\ j \in 0..(n - 1)
      BY <2>3, <1>3, <1>4 DEF ScanLegal, Counted
    <3>2. \A h \in 0..(j - 1) : dst + h \in Addr /\ mem[dst + h] # NUL
      BY <2>3, <1>4 DEF Passed, Strings
    <3>3. QED
      BY <3>1, <3>2, <2>1, <1>1, StringHere
  <2>4. CASE fn = "memcmp"
    BY <2>4, <2>1, <1>1, <1>3, <1>4 DEF ScanLegal, Counted, Addr
  <2>5. QED
    BY <2>2, <2>3, <2>4 DEF Comparing
<1>7. QED
  BY <1>2, <1>3, <1>5, <1>6

\* What the functions that look are called with does not change.
LEMMA SameReads ==
  ASSUME UNCHANGED <<mem, args>>
  PROVE  /\ ScanLegal' = ScanLegal
         /\ \A p, k : Readable(p, k)' = Readable(p, k)
         /\ \A k : Common(k)' = Common(k)
         /\ \A ch : Positions(ch)' = Positions(ch)
         /\ End' = End
BY DEF args, ScanLegal, Readable, Common, Positions, End, FirstBytes

LEMMA StepAdvance == SInv /\ Advance => SInv'
<1> SUFFICES ASSUME SInv, Advance PROVE SInv'
  OBVIOUS
<1> USE DEF SInv
<1>0. fn \notin Copying /\ fn # "strtol" /\ fn \in Scanning /\ fn' = fn /\ pc' = "up" /\ pc = "up"
  BY DEF Advance, Scanning, Strings, Copying, Blocks, args
<1>1. /\ s \in Addr /\ s - src \in Nat
      /\ fn \in Comparing => d \in Addr /\ d = dst + (s - src)
      /\ fn \in Counted => s - src \in 0..(n - 1) /\ left = n - (s - src)
  BY <1>0, InMemory DEF Advance, Continues, Looking
<1>2. TypeOK'
  BY <1>0, <1>1 DEF TypeOK, CopyTypeOK, Advance, Continues, args, readVars, Addr, Pointer
<1>3. Looking'
  <2>1. ScanLegal'
    BY <1>0, SameReads DEF Looking, Advance
  <2>2. /\ s' = s + 1 /\ src' = src /\ src' <= s'
        /\ fn \in Comparing => d' = dst' + (s' - src')
        /\ fn \in Counted => left' = n' - (s' - src')
    BY <1>1 DEF Advance, args, TypeOK, CopyTypeOK, Addr
  <2>3. Passed'
    <3> SUFFICES ASSUME NEW i \in 0..(s' - src' - 1)
                 PROVE  /\ src + i \in Addr
                        /\ fn \in Strings => mem[src + i] # NUL
                        /\ fn \in Comparing => dst + i \in Addr /\ mem[src + i] = mem[dst + i]
                        /\ fn \in Seeking => mem[src + i] # c
      BY DEF Passed, Advance, args
    <3>1. CASE i = s - src
      <4>1. src + i = s /\ (fn \in Comparing => dst + i = d)
        BY <3>1, <1>1 DEF TypeOK, CopyTypeOK, Addr
      <4>2. QED
        BY <4>1, <1>1 DEF Advance, Continues
    <3>2. CASE i # s - src
      <4>1. i \in 0..(s - src - 1)
        BY <3>2, <2>2, <1>1 DEF TypeOK, CopyTypeOK, Addr
      <4>2. QED
        BY <4>1, <1>0 DEF Looking, Passed
    <3>3. QED
      BY <3>1, <3>2
  <2>4. QED
    BY <2>1, <2>2, <2>3, <1>0 DEF Looking
<1>4. QED
  BY <1>0, <1>2, <1>3 DEF Converting, ScanContract

\* What a comparison that stops at position j returns, for the positions K.
LEMMA CompareStops ==
  ASSUME NEW K, K \subseteq Nat, NEW j \in Nat, NEW v \in Int,
         \A i \in 0..(j - 1) : mem[src + i] = mem[dst + i],
         \A i \in K : mem[src + i] \in Int /\ mem[dst + i] \in Int,
         \/ v = 0 /\ \A k \in K : k < j
         \/ /\ v = mem[src + j] - mem[dst + j] /\ j \in K
            /\ \A k \in K : k <= j \/ mem[src + j] # mem[dst + j]
  PROVE  /\ v > 0 <=> \E k \in K : Differ(k, K) /\ mem[src + k] > mem[dst + k]
         /\ v < 0 <=> \E k \in K : Differ(k, K) /\ mem[src + k] < mem[dst + k]
<1>1. CASE v = 0 /\ \A k \in K : k < j
  <2>1. \A k \in K : ~ Differ(k, K)
    BY <1>1 DEF Differ
  <2>2. QED
    BY <1>1, <2>1
<1>2. CASE /\ v = mem[src + j] - mem[dst + j] /\ j \in K
           /\ \A k \in K : k <= j \/ mem[src + j] # mem[dst + j]
  <2>1. \A k \in K : Differ(k, K) => k = j
    <3> SUFFICES ASSUME NEW k \in K, Differ(k, K), k # j PROVE FALSE
      OBVIOUS
    <3>1. CASE k < j
      BY <3>1 DEF Differ
    <3>2. CASE k > j
      <4>1. mem[src + j] = mem[dst + j]
        BY <3>2, <1>2 DEF Differ
      <4>2. QED
        BY <3>2, <4>1, <1>2
    <3>3. QED
      BY <3>1, <3>2
  <2>2. mem[src + j] # mem[dst + j] => Differ(j, K)
    BY DEF Differ
  <2>3. mem[src + j] \in Int /\ mem[dst + j] \in Int
    BY <1>2
  <2>4. QED
    BY <1>2, <2>1, <2>2, <2>3
<1>3. QED
  BY <1>1, <1>2

LEMMA StepReturn == SInv /\ Return => SInv'
<1> SUFFICES ASSUME SInv, Return PROVE SInv'
  OBVIOUS
<1> USE DEF SInv
<1> DEFINE j == s - src
<1>0. fn \notin Copying /\ fn # "strtol" /\ fn \in Scanning /\ fn' = fn /\ pc' = "return" /\ pc = "up"
  BY DEF Return, Scanning, Strings, Copying, Blocks, args
<1>1. /\ mem \in [Addr -> Byte] /\ src \in Addr /\ dst \in Addr /\ n \in Nat
      /\ j \in Nat /\ s = src + j /\ s \in Pointer /\ left \in 0..n
      /\ \A ch \in Byte : ch \in Int
  BY <1>0, CharAssumption DEF TypeOK, CopyTypeOK, Looking, Addr, Pointer
<1>2. ~(fn \in Counted /\ left = 0) =>
        /\ s \in Addr
        /\ fn \in Comparing => d \in Addr /\ d = dst + j
        /\ fn \in Counted => j \in 0..(n - 1)
  BY <1>0, <1>1, InMemory DEF Looking
<1>3. fn \in Counted /\ left = 0 => j = n
  BY <1>0, <1>1 DEF Looking
<1>4. ~Continues
  BY DEF Return
<1>5. Passed
  BY <1>0 DEF Looking
<1>6. Returned \in Int /\ ret'.val = Returned
  <2>1. Returned \in Int
    <3>1. CASE fn \in {"strlen", "strnlen"}
      BY <3>1, <1>1 DEF Returned, Comparing
    <3>2. CASE fn \in Comparing
      BY <3>2, <1>1, <1>2 DEF Returned, Comparing
    <3>3. CASE fn \in {"strchr", "strfind"}
      BY <3>3, <1>1, <1>2 DEF Returned, Comparing, Counted, Addr, NULL
    <3>4. QED
      BY <3>1, <3>2, <3>3, <1>0 DEF Scanning, Strings, Comparing
  <2>2. QED
    BY <2>1 DEF Return, TypeOK
<1>7. TypeOK'
  BY <1>0, <1>6 DEF TypeOK, CopyTypeOK, Return, args
<1>8. Looking'
  BY <1>0, SameReads DEF Looking, Return
<1>9. ScanContract'
  <2>1. CASE fn = "strlen"
    <3>1. mem[src + j] = NUL /\ src + j \in Addr
      BY <2>1, <1>1, <1>2, <1>4 DEF Continues, Counted, Strings, Comparing, Seeking
    <3>2. IsLength(mem, src, j)
      BY <3>1, <2>1, <1>5 DEF IsLength, Passed, Strings
    <3>3. ret'.val = j
      BY <2>1, <1>6 DEF Returned, Comparing
    <3>4. QED
      BY <2>1, <3>2, <3>3 DEF ScanContract, Return, args
  <2>2. CASE fn = "strnlen"
    <3>1. ret'.val = j
      BY <2>2, <1>6 DEF Returned, Comparing
    <3>2. \A i \in 0..(j - 1) : mem[src + i] # NUL
      BY <2>2, <1>5 DEF Passed, Strings
    <3>3. j <= n /\ (j < n => mem[src + j] = NUL)
      BY <2>2, <1>1, <1>2, <1>3, <1>4 DEF Continues, Counted, Strings, Comparing, Seeking
    <3>4. QED
      BY <2>2, <3>1, <3>2, <3>3 DEF ScanContract, Return, args
  <2>3. CASE fn = "strcmp"
    <3> DEFINE K == Common(MemSize)
    <3>1. s \in Addr /\ d \in Addr /\ d = dst + j /\ j \in 0..(MemSize - 1)
      BY <2>3, <1>1, <1>2 DEF Counted, Comparing, Addr
    <3>2. \A i \in 0..(j - 1) : /\ src + i \in Addr /\ mem[src + i] # NUL
                                /\ dst + i \in Addr /\ mem[src + i] = mem[dst + i]
      BY <2>3, <1>5 DEF Passed, Strings, Comparing
    <3>3. j \in K
      BY <3>1, <3>2 DEF Common, FirstBytes
    <3>4. \A k \in K : k <= j \/ mem[src + j] # mem[dst + j]
      BY <2>3, <3>1, <1>1, <1>4 DEF Common, FirstBytes, Continues, Counted, Seeking
    <3>5. ret'.val = mem[src + j] - mem[dst + j]
      BY <2>3, <3>1, <1>1, <1>6 DEF Returned, Comparing, Counted
    <3>6. K \subseteq Nat
      BY DEF Common, FirstBytes
    <3>7. \A i \in K : mem[src + i] \in Int /\ mem[dst + i] \in Int
      <4> SUFFICES ASSUME NEW i \in K PROVE src + i \in Addr /\ dst + i \in Addr
        BY <1>1
      <4>1. i \in FirstBytes(mem, src, MemSize + 1) /\ i \in FirstBytes(mem, dst, MemSize + 1)
        BY MemAssumption DEF Common, FirstBytes
      <4>2. QED
        BY <2>3, <4>1, <1>0 DEF Looking, ScanLegal, Readable, Strings, Counted
    <3> HIDE DEF K
    <3>8. /\ ret'.val > 0 <=> \E k \in K : Differ(k, K) /\ mem[src + k] > mem[dst + k]
          /\ ret'.val < 0 <=> \E k \in K : Differ(k, K) /\ mem[src + k] < mem[dst + k]
      BY <1>1, <1>6, <3>2, <3>3, <3>4, <3>5, <3>6, <3>7, CompareStops
    <3>9. K = Common(MemSize)'
      BY SameReads DEF K, Return
    <3>10. Compares(Common(MemSize))'
      BY <3>8, <3>9 DEF Compares, Differ, Return, args
    <3>11. QED
      BY <2>3, <3>10, <1>0 DEF ScanContract
  <2>4. CASE fn = "strncmp"
    <3> DEFINE K == Common(n)
    <3>1. \A i \in 0..(j - 1) : /\ src + i \in Addr /\ mem[src + i] # NUL
                                /\ dst + i \in Addr /\ mem[src + i] = mem[dst + i]
      BY <2>4, <1>5 DEF Passed, Strings, Comparing
    <3>2. K \subseteq Nat /\ \A k \in K : k < n
      BY <1>1 DEF Common, FirstBytes
    <3>3. \A i \in K : mem[src + i] \in Int /\ mem[dst + i] \in Int
      <4> SUFFICES ASSUME NEW i \in K PROVE src + i \in Addr /\ dst + i \in Addr
        BY <1>1
      <4>1. QED
        BY <2>4, <1>0 DEF Common, Looking, ScanLegal, Readable
    <3>4. \/ ret'.val = 0 /\ \A k \in K : k < j
          \/ /\ ret'.val = mem[src + j] - mem[dst + j] /\ j \in K
             /\ \A k \in K : k <= j \/ mem[src + j] # mem[dst + j]
      <4>1. CASE left = 0
        BY <2>4, <4>1, <3>2, <1>3, <1>6 DEF Returned, Counted, Comparing
      <4>2. CASE left # 0
        <5>1. d = dst + j /\ j \in 0..(n - 1)
          BY <2>4, <4>2, <1>2 DEF Counted, Comparing
        <5>2. j \in K
          BY <3>1, <5>1 DEF Common, FirstBytes
        <5>3. \A k \in K : k <= j \/ mem[src + j] # mem[dst + j]
          BY <2>4, <4>2, <5>1, <1>1, <1>4 DEF Common, FirstBytes, Continues, Counted, Seeking
        <5>4. ret'.val = mem[src + j] - mem[dst + j]
          BY <2>4, <4>2, <5>1, <1>1, <1>6 DEF Returned, Comparing
        <5>5. QED
          BY <5>2, <5>3, <5>4
      <4>3. QED
        BY <4>1, <4>2
    <3> HIDE DEF K
    <3>5. /\ ret'.val > 0 <=> \E k \in K : Differ(k, K) /\ mem[src + k] > mem[dst + k]
          /\ ret'.val < 0 <=> \E k \in K : Differ(k, K) /\ mem[src + k] < mem[dst + k]
      BY <1>1, <1>6, <3>1, <3>2, <3>3, <3>4, CompareStops
    <3>6. K = Common(n)'
      BY SameReads DEF K, Return, args
    <3>7. Compares(Common(n))'
      BY <3>5, <3>6 DEF Compares, Differ, Return, args
    <3>8. QED
      BY <2>4, <3>7, <1>0 DEF ScanContract
  <2>5. CASE fn = "memcmp"
    <3> DEFINE K == 0..(n - 1)
    <3>1. \A i \in 0..(j - 1) : mem[src + i] = mem[dst + i]
      BY <2>5, <1>5 DEF Passed, Comparing
    <3>2. K \subseteq Nat /\ \A k \in K : k < n
      BY <1>1
    <3>3. \A i \in K : mem[src + i] \in Int /\ mem[dst + i] \in Int
      <4> SUFFICES ASSUME NEW i \in K PROVE src + i \in Addr /\ dst + i \in Addr
        BY <1>1
      <4>1. QED
        BY <2>5, <1>0, <1>1 DEF Looking, ScanLegal, Addr
    <3>4. \/ ret'.val = 0 /\ \A k \in K : k < j
          \/ /\ ret'.val = mem[src + j] - mem[dst + j] /\ j \in K
             /\ \A k \in K : k <= j \/ mem[src + j] # mem[dst + j]
      <4>1. CASE left = 0
        BY <2>5, <4>1, <3>2, <1>3, <1>6 DEF Returned, Counted, Comparing
      <4>2. CASE left # 0
        BY <2>5, <4>2, <1>1, <1>2, <1>4, <1>6
        DEF Returned, Continues, Counted, Comparing, Strings, Seeking
      <4>3. QED
        BY <4>1, <4>2
    <3> HIDE DEF K
    <3>5. /\ ret'.val > 0 <=> \E k \in K : Differ(k, K) /\ mem[src + k] > mem[dst + k]
          /\ ret'.val < 0 <=> \E k \in K : Differ(k, K) /\ mem[src + k] < mem[dst + k]
      BY <1>1, <1>6, <3>1, <3>2, <3>3, <3>4, CompareStops
    <3>6. Compares(0..(n - 1))'
      BY <3>5 DEF K, Compares, Differ, Return, args
    <3>7. QED
      BY <2>5, <3>6, <1>0 DEF ScanContract
  <2>6. CASE fn \in Seeking
    <3>1. s \in Addr /\ j \in 0..(MemSize - 1)
      BY <2>6, <1>1, <1>2 DEF Seeking, Counted, Addr
    <3>2. \A i \in 0..(j - 1) : /\ src + i \in Addr /\ mem[src + i] # NUL
                                /\ mem[src + i] # c
      BY <2>6, <1>5 DEF Passed, Strings, Seeking
    <3>3. mem[s] = NUL => Positions(c) = {}
      <4> SUFFICES ASSUME mem[s] = NUL,
                          NEW k \in FirstBytes(mem, src, MemSize),
                          mem[src + k] = c, c # NUL
                   PROVE  FALSE
        BY DEF Positions
      <4>1. k \in Nat /\ k <= j
        BY <1>1 DEF FirstBytes
      <4>2. QED
        BY <4>1, <3>2, <1>1
    <3>4. mem[s] # NUL => s \in Positions(c) /\ \A y \in Positions(c) : s <= y
      <4> SUFFICES ASSUME mem[s] # NUL
                   PROVE  s \in Positions(c) /\ \A y \in Positions(c) : s <= y
        OBVIOUS
      <4>1. mem[s] = c
        BY <2>6, <1>4 DEF Continues, Seeking, Counted, Comparing
      <4>2. j \in FirstBytes(mem, src, MemSize)
        BY <3>1, <3>2 DEF FirstBytes
      <4>3. s \in Positions(c)
        BY <4>1, <4>2, <1>1 DEF Positions
      <4>4. ASSUME NEW k \in FirstBytes(mem, src, MemSize), mem[src + k] = c
            PROVE  s <= src + k
        <5>1. k \in Nat
          BY DEF FirstBytes
        <5>2. k \notin 0..(j - 1)
          BY <4>4, <3>2
        <5>3. QED
          BY <5>1, <5>2, <1>1 DEF Addr
      <4>5. QED
        BY <4>3, <4>4 DEF Positions
    <3>5. mem[s] # NUL => Least(Positions(c)) = s
      <4>1. Positions(c) \subseteq Int
        BY <1>1 DEF Positions, FirstBytes, Addr
      <4>2. QED
        BY <4>1, <3>4, LeastIs
    <3>6. mem[s] = NUL => End = s
      <4> SUFFICES ASSUME mem[s] = NUL PROVE End = s
        OBVIOUS
      <4>1. IsLength(mem, src, s - src) /\ s \in src..(MemSize - 1)
        BY <3>1, <3>2, <1>1 DEF IsLength, Addr
      <4>2. PICK e : e = End
        OBVIOUS
      <4>3. e \in src..(MemSize - 1) /\ IsLength(mem, src, e - src)
        BY <4>1, <4>2 DEF End
      <4>4. e - src \in Addr /\ s - src \in Addr
        BY <4>3, <4>1, <1>1 DEF Addr
      <4>5. e - src = s - src
        BY <4>1, <4>3, <4>4, <1>1, LengthUnique
      <4>6. QED
        BY <4>2, <4>3, <4>5, <1>1 DEF Addr
    <3>7. Positions(c)' = Positions(c) /\ End' = End /\ c' = c
      BY SameReads DEF Return, args
    <3>8. ret'.val = IF fn = "strchr" /\ mem[s] = NUL THEN NULL ELSE s
      BY <2>6, <1>6 DEF Returned, Seeking, Comparing
    <3>9. fn = "strchr" => ret'.val = IF Positions(c) = {} THEN NULL ELSE Least(Positions(c))
      BY <3>3, <3>4, <3>5, <3>8
    <3>10. fn = "strfind" => ret'.val = IF Positions(c) = {} THEN End ELSE Least(Positions(c))
      BY <3>3, <3>4, <3>5, <3>6, <3>8
    <3>11. Positions(c') = Positions(c) /\ (Positions(c))' = Positions(c)
      BY <3>7 DEF Positions, FirstBytes, Return, args
    <3>12. QED
      BY <2>6, <3>7, <3>9, <3>10, <3>11, <1>0 DEF ScanContract, Seeking
  <2>7. QED
    BY <1>0, <2>1, <2>2, <2>3, <2>4, <2>5, <2>6 DEF Scanning, Strings, Seeking
<1>10. QED
  BY <1>0, <1>7, <1>8, <1>9 DEF Converting

------------------------------------------------------------------------------
(***************************************************************************)
(* strtol.                                                                 *)
(***************************************************************************)
\* The text does not change, nor the base asked for.
LEMMA SameText ==
  ASSUME UNCHANGED <<mem, args>>
  PROVE  /\ \A e, B : Weighted(e, B)' = Weighted(e, B)
         /\ \A q : /\ Hex(q)' = Hex(q) /\ Radix(q)' = Radix(q)
                   /\ First(q)' = First(q) /\ Number(q)' = Number(q)
                   /\ Taken(q)' = Taken(q) /\ Start(q)' = Start(q)
                   /\ Refused(q)' = Refused(q)
                   /\ Signed(q)' = Signed(q)
BY DEF args, Weighted, Hex, Radix, First, Taken, Start, Refused, Number, Signed

\* Before strtol returns, it has not met the end of its text.
LEMMA TextHere ==
  ASSUME TypeOK, Converting, fn = "strtol"
  PROVE  s \in Addr /\ src \in Addr /\ src <= s
<1>1. /\ src \in Addr /\ s \in Pointer /\ MemSize \in Nat /\ src <= s
      /\ Readable(src, MemSize + 1)
      /\ \A a \in src..(s - 1) : mem[a] # NUL
  BY DEF TypeOK, CopyTypeOK, Converting
<1>2. s - src \in 0..((MemSize + 1) - 1) /\ src + (s - src) = s
  BY <1>1 DEF Addr, Pointer
<1>3. \A h \in 0..(s - src - 1) : src + h \in Addr /\ mem[src + h] # NUL
  BY <1>1 DEF Addr, Pointer
<1>4. QED
  BY <1>1, <1>2, <1>3, StringHere

\* The character after one that is not '\0' lies in the memory.
LEMMA TextGoesOn ==
  ASSUME src \in Addr, NEW q \in Addr, src <= q, mem[q] # NUL,
         Readable(src, MemSize + 1), \A a \in src..(q - 1) : mem[a] # NUL
  PROVE  q + 1 \in Addr /\ \A a \in src..((q + 1) - 1) : mem[a] # NUL
<1>1. \A a \in src..q : mem[a] # NUL
  <2> SUFFICES ASSUME NEW a \in src..q PROVE mem[a] # NUL
    OBVIOUS
  <2>1. a = q \/ a \in src..(q - 1)
    BY DEF Addr
  <2>2. QED
    BY <2>1
<1>2. PICK i : i = (q + 1) - src
  OBVIOUS
<1>3. i \in 0..((MemSize + 1) - 1) /\ src + i = q + 1
  BY <1>2 DEF Addr
<1>4. \A h \in 0..(i - 1) : src + h \in Addr /\ mem[src + h] # NUL
  BY <1>1, <1>2 DEF Addr
<1>5. src + i \in Addr
  BY <1>3, <1>4, StringHere
<1>6. QED
  BY <1>1, <1>3, <1>5 DEF Addr

LEMMA StepGobble == SInv /\ Gobble => SInv'
<1> SUFFICES ASSUME SInv, Gobble PROVE SInv'
  OBVIOUS
<1> USE DEF SInv
<1>0. /\ fn = "strtol" /\ fn' = fn /\ pc = "call" /\ pc' = "call"
      /\ fn \notin Copying /\ fn \notin Scanning
  BY DEF Gobble, Scanning, Strings, Copying, Blocks, args
<1>1. s \in Addr /\ src \in Addr /\ src <= s
  BY <1>0, TextHere
<1>2. TypeOK'
  BY <1>0, <1>1 DEF TypeOK, CopyTypeOK, Gobble, args, readVars, Addr, Pointer
<1>3. Converting'
  <2>1. Readable(src, MemSize + 1)' /\ n' \in Bases
    BY <1>0, SameReads DEF Converting, Gobble, args
  <2>2. s' = s + 1 /\ src' = src /\ src' <= s' /\ mem' = mem
    BY <1>1 DEF Gobble, args, Addr
  <2>3. ASSUME NEW a \in src..s PROVE mem[a] # NUL /\ mem[a] \in {Space, Tab}
    <3>1. a \in src..(s - 1) \/ a = s
      BY <1>1 DEF Addr
    <3>2. QED
      BY <1>0, <3>1, CharAssumption DEF Converting, Gobble, Space, Tab
  <2>4. \A a \in src'..(s' - 1) : mem'[a] # NUL /\ mem'[a] \in {Space, Tab}
    BY <2>2, <2>3, <1>1 DEF Addr
  <2>5. QED
    BY <1>0, <2>1, <2>2, <2>4 DEF Converting, Gobble, args, readVars
<1>4. QED
  BY <1>0, <1>2, <1>3 DEF Looking, ScanContract

\* What the sign and the prefix leave to the digits.
LEMMA PrefixTaken ==
  ASSUME TypeOK, Converting, fn = "strtol", pc = "call",
         mem[s] \notin {Space, Tab},
         NEW q, q = Number(s)
  PROVE  /\ q \in Addr /\ src <= q
         /\ \A a \in src..(q - 1) : mem[a] # NUL
         /\ Prefix(q)[2] = Radix(q) /\ Prefix(q)[2] \in 0..36
         /\ \/ Prefix(q)[1] = 2 /\ Taken(q) /\ q + 1 \in Addr
               /\ \A a \in src..(q + 1) : mem[a] # NUL
            \/ Prefix(q)[1] = 1 /\ ~Taken(q) /\ mem[q] = Zero
            \/ Prefix(q)[1] = 0 /\ ~Taken(q)
<1>1. s \in Addr /\ src \in Addr /\ src <= s
  BY TextHere
<1>2. /\ Readable(src, MemSize + 1) /\ n \in Bases /\ base = n
      /\ \A a \in src..(s - 1) : mem[a] # NUL
  BY DEF Converting
<1>3. NUL = 0 /\ Zero = 48 /\ n \in 0..36
  BY <1>2, CharAssumption DEF Zero
<1>4. q \in Addr /\ src <= q /\ \A a \in src..(q - 1) : mem[a] # NUL
  <2>1. CASE mem[s] \in {Plus, Minus}
    <3>1. mem[s] # NUL
      BY <2>1, <1>3 DEF Plus, Minus
    <3>2. s + 1 \in Addr /\ \A a \in src..((s + 1) - 1) : mem[a] # NUL
      BY <3>1, <1>1, <1>2, TextGoesOn
    <3>3. QED
      BY <2>1, <3>2, <1>1 DEF Number, Addr
  <2>2. CASE mem[s] \notin {Plus, Minus}
    BY <2>2, <1>1, <1>2 DEF Number
  <2>3. QED
    BY <2>1, <2>2
<1>5. Taken(q) => q + 1 \in Addr /\ \A a \in src..(q + 1) : mem[a] # NUL
  <2> SUFFICES ASSUME Taken(q) PROVE q + 1 \in Addr /\ \A a \in src..(q + 1) : mem[a] # NUL
    OBVIOUS
  <2>1. mem[q] # NUL /\ mem[q + 1] # NUL
    BY <1>3 DEF Taken, LowerX
  <2>2. q + 1 \in Addr /\ \A a \in src..((q + 1) - 1) : mem[a] # NUL
    BY <2>1, <1>1, <1>2, <1>4, TextGoesOn
  <2>3. \A a \in src..((q + 2) - 1) : mem[a] # NUL
    <3>1. (q + 2) - 1 = q + 1 /\ (q + 1) - 1 = q
      BY <1>4 DEF Addr
    <3>2. \A a \in src..(q + 1) : a \in src..q \/ a = q + 1
      BY <1>1, <1>4 DEF Addr
    <3>3. QED
      BY <2>1, <2>2, <3>1, <3>2
  <2>4. QED
    BY <2>2, <2>3, <1>4 DEF Addr
<1>6. CASE Taken(q)
  <2>1. Prefix(q) = <<2, 16>>
    BY <1>6, <1>2 DEF Prefix, Taken
  <2>2. QED
    BY <1>6, <2>1, <1>4, <1>5 DEF Radix, Hex, Taken
<1>7. CASE ~Taken(q) /\ n = 0 /\ mem[q] = Zero
  <2>1. Prefix(q) = <<1, 8>>
    BY <1>7, <1>2 DEF Prefix, Taken
  <2>2. QED
    BY <1>7, <2>1, <1>4 DEF Radix, Hex, Taken
<1>8. CASE ~Taken(q) /\ n = 0 /\ mem[q] # Zero
  <2>1. Prefix(q) = <<0, 10>>
    BY <1>8, <1>2 DEF Prefix
  <2>2. QED
    BY <1>8, <2>1, <1>4 DEF Radix, Hex, Taken
<1>9. CASE ~Taken(q) /\ n # 0
  <2>1. Prefix(q) = <<0, n>>
    BY <1>9, <1>2 DEF Prefix, Taken
  <2>2. QED
    BY <1>9, <2>1, <1>3, <1>4 DEF Radix, Hex, Taken
<1>10. QED
  BY <1>6, <1>7, <1>8, <1>9

LEMMA StepSignAndPrefix == SInv /\ SignAndPrefix => SInv'
<1> SUFFICES ASSUME SInv, SignAndPrefix PROVE SInv'
  OBVIOUS
<1> USE DEF SInv
<1>0. /\ fn = "strtol" /\ fn' = fn /\ pc = "call" /\ pc' = "up"
      /\ fn \notin Copying /\ fn \notin Scanning
      /\ mem[s] \notin {Space, Tab} /\ mem' = mem /\ src' = src
  BY DEF SignAndPrefix, Scanning, Strings, Copying, Blocks, args
<1>1. s \in Addr /\ src \in Addr /\ src <= s
  BY <1>0, TextHere
<1>2. PICK q : q = Number(s)
  OBVIOUS
<1>3. s' = q + Prefix(q)[1] /\ base' = Prefix(q)[2] /\ neg' = (mem[s] = Minus)
  BY <1>2 DEF SignAndPrefix, Number
<1>4. /\ q \in Addr /\ src <= q
      /\ \A a \in src..(q - 1) : mem[a] # NUL
      /\ base' = Radix(q) /\ base' \in 0..36
  BY <1>0, <1>2, <1>3, PrefixTaken
<1>5. \/ s' = q + 2 /\ Taken(q) /\ q + 1 \in Addr /\ \A a \in src..(q + 1) : mem[a] # NUL
      \/ s' = q + 1 /\ ~Taken(q) /\ mem[q] = Zero
      \/ s' = q /\ ~Taken(q)
  <2>1. \/ Prefix(q)[1] = 2 /\ Taken(q) /\ q + 1 \in Addr
           /\ \A a \in src..(q + 1) : mem[a] # NUL
        \/ Prefix(q)[1] = 1 /\ ~Taken(q) /\ mem[q] = Zero
        \/ Prefix(q)[1] = 0 /\ ~Taken(q)
    BY <1>0, <1>2, PrefixTaken
  <2>2. QED
    BY <2>1, <1>3, <1>4 DEF Addr
<1>6. neg' \in BOOLEAN
  BY <1>3, Zenon
<1>7. s' \in Pointer /\ src <= s' /\ s' \in Int
  BY <1>1, <1>4, <1>5 DEF Addr, Pointer
<1>8. TypeOK'
  BY <1>0, <1>4, <1>6, <1>7 DEF TypeOK, CopyTypeOK, SignAndPrefix, args
<1>9. \A a \in src..(s' - 1) : mem[a] # NUL
  <2>1. CASE s' = q + 2 /\ \A a \in src..(q + 1) : mem[a] # NUL
    BY <2>1, <1>1, <1>4 DEF Addr
  <2>2. CASE s' = q + 1 /\ mem[q] = Zero
    <3>1. mem[q] # NUL
      BY <2>2, CharAssumption DEF Zero
    <3>2. \A a \in src..(s' - 1) : a \in src..(q - 1) \/ a = q
      BY <2>2, <1>1, <1>4 DEF Addr
    <3>3. QED
      BY <3>1, <3>2, <1>4
  <2>3. CASE s' = q
    BY <2>3, <1>4
  <2>4. QED
    BY <2>1, <2>2, <2>3, <1>5
<1>10. PICK b : b = s
  OBVIOUS
<1>11. Reading(b)'
  <2>1. /\ Signed(b)
        /\ base' = Radix(q)
        /\ q = Number(b)
        /\ neg' = (mem[b] = Minus)
    BY <1>0, <1>2, <1>3, <1>4, <1>10 DEF Signed, Converting
  <2>2. ret'.val = 0
    BY <1>0 DEF Converting, SignAndPrefix
  <2>3. CASE ~(s' = q + 1 /\ ~Taken(q) /\ mem[q] = Zero)
    <3>1. PICK f : f = Start(q)
      OBVIOUS
    <3>2. f = s' /\ f \in Int
      BY <2>3, <3>1, <1>4, <1>5, <1>7 DEF Start, Addr
    <3>3. Weighted(s', base')[s' - f] = 0
      <4>1. base' \in Nat
        BY <1>4
      <4>0. f \in Int
        BY <3>2
      <4>2. f - f = 0
        BY <4>0
      <4>3. Weighted(s', base')[0] = 0
        BY <4>1, <1>7, WeightedNone
      <4>4. QED
        BY <3>2, <4>2, <4>3, Zenon
    <3>4. \A x \in f..(s' - 1) : Digit(mem[x]) < base'
      <4>0. f \in Int
        BY <3>2
      <4>1. f..(f - 1) = {}
        BY <4>0
      <4>2. QED
        BY <3>2, <4>1, Zenon
    <3>5. f <= s'
      BY <3>2
    <3>6. QED
      BY <2>1, <2>2, <3>1, <3>3, <3>4, <3>5, <1>0, SameText DEF Reading, SignAndPrefix
  <2>4. CASE s' = q + 1 /\ ~Taken(q) /\ mem[q] = Zero
    <3>1. Start(q) = q /\ Digit(mem[q]) = 0 /\ q \in Int
      BY <2>4, <1>4 DEF Start, Digit, Zero, Addr
    <3>2. base' \in Nat \ {0}
      <4>1. n # 0 => n \in 2..36
        BY <1>0, CharAssumption DEF Converting
      <4>2. QED
        BY <2>4, <4>1, <1>4 DEF Radix, Hex, Taken
    <3>3. Weighted(s', base')[s' - Start(q)] = 0
      <4>1. PICK i \in Nat : i = 0
        OBVIOUS
      <4>2. Weighted(q + 1, base')[i + 1] = Weighted(q, base')[i] * base' + Digit(mem[q])
        BY <3>1, <3>2, WeightedOneMore
      <4>3. Weighted(q, base')[i] = 0 /\ i + 1 = 1
        BY <3>1, <3>2, <4>1, WeightedNone
      <4>6. Weighted(q + 1, base')[1] = 0 * base' + 0
        BY <4>2, <4>3, <3>1
      <4>4. s' - Start(q) = 1
        BY <2>4, <3>1
      <4>5. QED
        BY <2>4, <4>4, <4>6, <3>2
    <3>4. \A x \in Start(q)..(s' - 1) : Digit(mem[x]) < base'
      BY <2>4, <3>1, <3>2
    <3>5. Start(q) <= s'
      BY <2>4, <3>1
    <3>6. QED
      BY <2>1, <2>2, <3>3, <3>4, <3>5, <1>0, SameText DEF Reading, SignAndPrefix
  <2>5. QED
    BY <2>3, <2>4
<1>12. Converting'
  <2>1. Readable(src, MemSize + 1)' /\ n' \in Bases
    BY <1>0, SameReads DEF Converting, SignAndPrefix, args
  <2>2. b \in src..(MemSize - 1)
    BY <1>1, <1>10 DEF Addr
  <2>3. \E x \in src'..(MemSize - 1) : Reading(x)'
    BY <2>2, <1>0, <1>11
  <2>4. QED
    BY <2>1, <2>3, <1>0, <1>7, <1>9 DEF Converting
<1>13. QED
  BY <1>0, <1>8, <1>12 DEF Looking, ScanContract

LEMMA StepTakeDigit == SInv /\ TakeDigit => SInv'
<1> SUFFICES ASSUME SInv, TakeDigit PROVE SInv'
  OBVIOUS
<1> USE DEF SInv
<1>0. /\ fn = "strtol" /\ fn' = fn /\ pc = "up" /\ pc' = "up"
      /\ fn \notin Copying /\ fn \notin Scanning
      /\ mem' = mem /\ src' = src /\ s' = s + 1 /\ neg' = neg /\ base' = base
      /\ Digit(mem[s]) < base
  BY DEF TakeDigit, IsDigit, Scanning, Strings, Copying, Blocks, args
<1>1. s \in Addr /\ src \in Addr /\ src <= s
  BY <1>0, TextHere
<1>2. base \in 0..36 /\ base \in Nat /\ ret.val \in Int
  BY DEF TypeOK
<1>3. PICK v \in Int, g \in Nat : v = ret.val /\ g = Digit(mem[s])
  BY <1>2, DigitNat
<1>4. ret'.val = v * base + g /\ ret'.val \in Int /\ ret'.end = ret.end
  BY <1>2, <1>3 DEF TakeDigit, TypeOK
<1>5. ret' \in [val : Int, end : Addr \cup {NULL}]
  BY <1>2, <1>3 DEF TakeDigit, TypeOK
<1>6. TypeOK'
  BY <1>0, <1>1, <1>5 DEF TypeOK, CopyTypeOK, TakeDigit, args, Addr, Pointer
<1>7. mem[s] # NUL
  <2>1. Digit(NUL) = 256
    BY CharAssumption DEF Digit
  <2>2. QED
    BY <2>1, <1>0, <1>2
<1>8. \A a \in src..(s' - 1) : mem[a] # NUL
  <2>1. \A a \in src..(s' - 1) : a \in src..(s - 1) \/ a = s
    BY <1>0, <1>1 DEF Addr
  <2>2. QED
    BY <2>1, <1>0, <1>7 DEF Converting
<1>9. PICK b \in src..(MemSize - 1) : Reading(b)
  BY <1>0 DEF Converting
<1>10. PICK f : f = Start(Number(b))
  OBVIOUS
<1>11. f \in Int /\ f <= s /\ s \in Int
  <2>1. b \in Int
    BY <1>1 DEF Addr
  <2>2. QED
    BY <2>1, <1>1, <1>9, <1>10 DEF Reading, Start, Number, Addr
<1>12. Reading(b)'
  <2>1. ret'.val = Weighted(s', base')[s' - f]
    <3>1. Weighted(s + 1, base)[(s - f) + 1] = Weighted(s, base)[s - f] * base + g
      <4>1. s - f \in Nat
        BY <1>11
      <4>2. QED
        BY <4>1, <1>2, <1>3, <1>11, WeightedOneMore
    <3>2. v = Weighted(s, base)[s - f]
      BY <1>3, <1>9, <1>10 DEF Reading
    <3>3. s' - f = (s - f) + 1
      BY <1>0, <1>11
    <3>4. QED
      BY <3>1, <3>2, <3>3, <1>0, <1>4
  <2>2. \A x \in f..(s' - 1) : Digit(mem[x]) < base
    <3>1. \A x \in f..(s' - 1) : x \in f..(s - 1) \/ x = s
      BY <1>0, <1>11
    <3>2. QED
      BY <3>1, <1>0, <1>9, <1>10 DEF Reading
  <2>3. f <= s'
    BY <1>0, <1>11
  <2>4. QED
    BY <2>1, <2>2, <2>3, <1>0, <1>9, <1>10, SameText DEF Reading, TakeDigit
<1>13. Converting'
  <2>1. Readable(src, MemSize + 1)' /\ n' \in Bases
    BY <1>0, SameReads DEF Converting, TakeDigit, args
  <2>2. src' <= s'
    BY <1>0, <1>1 DEF Addr
  <2>3. \E x \in src'..(MemSize - 1) : Reading(x)'
    BY <1>0, <1>9, <1>12
  <2>4. QED
    BY <2>1, <2>2, <2>3, <1>0, <1>8 DEF Converting
<1>14. QED
  BY <1>0, <1>6, <1>13 DEF Looking, ScanContract

LEMMA StepNumberEnds == SInv /\ NumberEnds => SInv'
<1> SUFFICES ASSUME SInv, NumberEnds PROVE SInv'
  OBVIOUS
<1> USE DEF SInv
<1>0. /\ fn = "strtol" /\ fn' = fn /\ pc = "up" /\ pc' = "return"
      /\ fn \notin Copying /\ fn \notin Scanning
      /\ mem' = mem /\ src' = src /\ s' = s
      /\ ~(Digit(mem[s]) < base)
  BY DEF NumberEnds, IsDigit, Scanning, Strings, Copying, Blocks, args
<1>1. s \in Addr /\ src \in Addr /\ src <= s
  BY <1>0, TextHere
<1>2. ret.val \in Int /\ base \in Nat /\ Digit(mem[s]) \in Nat
  BY DigitNat DEF TypeOK
<1>3. ret'.val = (IF neg THEN -ret.val ELSE ret.val) /\ ret'.end = s
  BY DEF NumberEnds
<1>4. TypeOK'
  BY <1>0, <1>1, <1>2 DEF TypeOK, CopyTypeOK, NumberEnds, args
<1>5. PICK b \in src..(MemSize - 1) : Reading(b)
  BY <1>0 DEF Converting
<1>6. PICK q : q = Number(b)
  OBVIOUS
<1>7. ret.val = IF mem[b] = Minus THEN -ret'.val ELSE ret'.val
  <2>1. neg = (mem[b] = Minus)
    BY <1>5 DEF Reading
  <2>2. CASE mem[b] = Minus
    <3>1. neg
      BY <2>1, <2>2
    <3>2. ret'.val = -ret.val
      BY <3>1, <1>3
    <3>3. QED
      BY <2>2, <3>2, <1>2
  <2>3. CASE mem[b] # Minus
    <3>1. ~neg
      BY <2>1, <2>3
    <3>2. QED
      BY <2>3, <3>1, <1>3
  <2>4. QED
    BY <2>2, <2>3
<1>8. Parsed'
  <2>1. CASE ~Refused(q)
    <3>1. Taken(q) <=> Hex(q)
      BY <2>1 DEF Taken, Hex, Refused
    <3>2. Start(q) = First(q)
      BY <3>1 DEF Start, First
    <3>3. Numeral(First(q), s, Radix(q), ret.val)
      BY <3>2, <1>0, <1>2, <1>5, <1>6 DEF Reading, Numeral
    <3>4. /\ Signed(b)
          /\ Numeral(First(q), ret'.end, Radix(q),
                     IF mem[b] = Minus THEN -ret'.val ELSE ret'.val)
      BY <3>3, <1>3, <1>5, <1>7 DEF Reading
    <3>5. QED
      BY <3>4, <1>0, <1>5, <1>6, <2>1, SameText DEF Parsed, Reads, Numeral, NumberEnds
  <2>2. CASE Refused(q)
    <3>1. Start(q) = q /\ Radix(q) = 16 /\ mem[q] = 48 /\ mem[q + 1] = 88
      BY <2>2 DEF Refused, Start, Taken, Radix, Zero, LowerX, UpperX
    <3>2. base = 16 /\ Digit(mem[q]) = 0 /\ Digit(mem[q + 1]) = 33
      BY <3>1, <1>5, <1>6 DEF Reading, Digit
    <3>3. q \in Int /\ s \in Int
      BY <1>1, <1>5, <1>6 DEF Number, Addr
    <3>4. s = q + 1
      <4>1. q <= s /\ \A x \in q..(s - 1) : Digit(mem[x]) < 16
        BY <3>1, <3>2, <1>5, <1>6 DEF Reading
      <4>2. s # q
        BY <3>2, <1>0
      <4>3. q + 1 \notin q..(s - 1)
        BY <4>1, <3>2
      <4>4. QED
        BY <4>1, <4>2, <4>3, <3>3
    <3>5. ret.val = 0
      <4>0. PICK i \in Nat : i = 0
        OBVIOUS
      <4>1. Weighted(q, base)[i] = 0
        BY <3>2, <4>0, WeightedNone
      <4>2. Weighted(q + 1, base)[i + 1] = Weighted(q, base)[i] * base + Digit(mem[q])
        BY <3>2, <3>3, WeightedOneMore
      <4>3. ret.val = Weighted(s, base)[s - q]
        BY <3>1, <1>5, <1>6 DEF Reading
      <4>4. s - q = i + 1
        BY <3>3, <3>4, <4>0
      <4>5. Weighted(q + 1, base)[i + 1] = 0 * base + 0
        BY <4>1, <4>2, <3>2
      <4>6. QED
        BY <3>2, <3>4, <4>3, <4>4, <4>5
    <3>6. ret' = [val |-> 0, end |-> q + 1]
      BY <3>4, <3>5 DEF NumberEnds
    <3>7. QED
      BY <3>6, <1>0, <1>5, <1>6, <2>2, SameText DEF Parsed, Reading, NumberEnds
  <2>3. QED
    BY <2>1, <2>2
<1>9. Converting'
  BY <1>0, SameReads DEF Converting, NumberEnds, args
<1>10. ScanContract'
  BY <1>0, <1>8 DEF ScanContract
<1>11. QED
  BY <1>0, <1>4, <1>9, <1>10 DEF Looking

------------------------------------------------------------------------------
(***************************************************************************)
(* Every function.                                                         *)
(***************************************************************************)
LEMMA InitSInv == Init => SInv
<1> SUFFICES ASSUME Init PROVE SInv
  OBVIOUS
<1> USE DEF SInv
<1>1. /\ ret = [val |-> 0, end |-> NULL] /\ neg = FALSE
      /\ base = IF fn = "strtol" THEN n ELSE 0
  BY DEF Init
<1>0. neg \in BOOLEAN /\ ret \in [val : Int, end : Addr \cup {NULL}]
  <2>1. neg \in BOOLEAN
    BY <1>1, Zenon
  <2>2. QED
    BY <2>1, <1>1
<1>2. CASE CopyInit
  <2>1. IInv /\ fn \in Copying /\ pc = "call"
    BY <1>2, InitIInv DEF CopyInit
  <2>2. fn \notin Scanning /\ fn # "strtol"
    BY <2>1 DEF Copying, Blocks, Scanning, Strings
  <2>3. TypeOK
    BY <1>0, <1>1, <2>1, <2>2 DEF IInv, TypeOK
  <2>4. QED
    BY <2>1, <2>2, <2>3 DEF Looking, Converting, ScanContract
<1>3. CASE ScanInit /\ fn \in Scanning
  <2>1. fn \notin Copying /\ fn # "strtol"
    BY <1>3 DEF Copying, Blocks, Scanning, Strings
  <2>2. /\ mem \in Memories /\ src \in Addr /\ ScanLegal /\ pc = "up"
        /\ dst \in Addr /\ n \in Pointer /\ c \in Byte
        /\ d = dst /\ s = src /\ left = n /\ old = mem
    BY <1>3, <2>1 DEF ScanInit, Addr, Pointer
  <2>3. TypeOK
    BY <1>0, <1>1, <1>3, <2>1, <2>2 DEF TypeOK, CopyTypeOK, Addr, Pointer
  <2>4. Looking
    <3>1. \A i \in 0..(s - src - 1) : FALSE
      BY <2>2 DEF Addr
    <3>2. src <= s /\ d = dst + (s - src) /\ left = n - (s - src)
      BY <2>2 DEF Addr, Pointer
    <3>3. QED
      BY <2>2, <3>1, <3>2 DEF Looking, Passed
  <2>5. QED
    BY <2>1, <2>2, <2>3, <2>4 DEF Converting, ScanContract
<1>4. CASE ScanInit /\ fn = "strtol"
  <2>1. fn \notin Copying /\ fn \notin Scanning
    BY <1>4 DEF Copying, Blocks, Scanning, Strings
  <2>2. /\ mem \in Texts /\ src = 0 /\ Readable(src, MemSize + 1) /\ pc = "call"
        /\ dst = 0 /\ n \in Bases /\ c = NUL
        /\ d = dst /\ s = src /\ left = n /\ old = mem
    BY <1>4, <2>1 DEF ScanInit
  <2>3. n \in 0..36
    BY <2>2, CharAssumption
  <2>4. TypeOK
    BY <1>0, <1>1, <1>4, <2>2, <2>3, CharAssumption DEF TypeOK, CopyTypeOK, Addr, Pointer
  <2>5. Converting
    <3>1. \A a \in src..(s - 1) : FALSE
      BY <2>2
    <3>2. QED
      BY <1>1, <1>4, <2>2, <3>1 DEF Converting
  <2>6. QED
    BY <1>4, <2>1, <2>2, <2>4, <2>5 DEF Looking, ScanContract
<1>5. QED
  BY <1>2, <1>3, <1>4 DEF Init, ScanInit

LEMMA StepCopy == SInv /\ Copy => SInv'
<1> SUFFICES ASSUME SInv, Copy PROVE SInv'
  OBVIOUS
<1>1. IInv' /\ fn \in Copying
  BY StepIInv DEF SInv, Copy
<1>2. fn' \in Copying
  BY <1>1 DEF IInv, Accepted
<1>3. fn' \notin Scanning /\ fn' # "strtol"
  BY <1>2 DEF Copying, Blocks, Scanning, Strings
<1>4. TypeOK'
  BY <1>1, <1>2 DEF IInv, SInv, TypeOK, Copy, readVars
<1>5. QED
  BY <1>1, <1>2, <1>3, <1>4 DEF SInv, Looking, Converting, ScanContract

LEMMA Still == SInv /\ UNCHANGED vars => SInv'
<1> SUFFICES ASSUME SInv, UNCHANGED vars PROVE SInv'
  OBVIOUS
<1>1. UNCHANGED <<mem, d, s, left, pc, args, memVars, ret, neg, base>>
      /\ UNCHANGED <<fn, dst, src, n, c, old>>
  BY DEF vars, memVars, readVars, args
<1>2. TypeOK'
  BY <1>1 DEF SInv, TypeOK, CopyTypeOK
<1>3. (fn \in Copying => IInv)'
  BY <1>1, StepIInv DEF SInv
<1>4. Looking'
  BY <1>1, SameReads DEF SInv, Looking, Passed
<1>5. Converting'
  BY <1>1, SameReads, SameText DEF SInv, Converting, Reading
<1>6. ScanContract'
  <2>1. Parsed' = Parsed
    BY <1>1, SameText DEF Parsed, Reads, Numeral
  <2>2. \A K : Compares(K)' = Compares(K)
    BY <1>1 DEF Compares, Differ
  <2>3. Compares(Common(MemSize))' = Compares(Common(MemSize))
    BY <1>1, SameReads DEF Compares, Differ
  <2>4. Compares(Common(n))' = Compares(Common(n))
    BY <1>1, SameReads DEF Compares, Differ
  <2>5. Compares(0..(n - 1))' = Compares(0..(n - 1))
    BY <1>1 DEF Compares, Differ
  <2>6. Positions(c)' = Positions(c)
    BY <1>1 DEF Positions, FirstBytes
  <2>7. QED
    BY <1>1, <2>1, <2>3, <2>4, <2>5, <2>6, SameReads DEF SInv, ScanContract, IsLength
<1>7. QED
  BY <1>2, <1>3, <1>4, <1>5, <1>6 DEF SInv

LEMMA StepSInv == SInv /\ [Next]_vars => SInv'
BY StepCopy, StepAdvance, StepReturn, StepGobble, StepSignAndPrefix, StepTakeDigit,
   StepNumberEnds, Still DEF Next, Done

------------------------------------------------------------------------------
\* No pointer of any loop of string.c leaves the memory, and no length goes
\* below zero.
THEOREM TypeCorrect == Spec => []TypeOK
<1>1. SInv => TypeOK
  BY DEF SInv
<1>2. QED
  BY InitSInv, StepSInv, <1>1, PTL DEF Spec

\* memmove, memcpy, memset, strcpy and strncpy leave exactly what they must.
THEOREM CopiesOldContents == Spec => []CopyContract
<1>1. SInv => CopyContract
  BY DEF SInv, IInv, Progress, Written, CopyContract
<1>2. QED
  BY InitSInv, StepSInv, <1>1, PTL DEF Spec

\* The lengths, comparisons, searches and numbers that string.c returns are
\* the ones its comments promise, for every memory, text and base, but for a
\* number that begins with "0X" in base 16: strtol returns 0 and stops at the
\* "X", where its comment promises a prefix.
THEOREM ReadsAsPromised == Spec => []ScanContract
<1>1. SInv => ScanContract
  BY DEF SInv
<1>2. QED
  BY InitSInv, StepSInv, <1>1, PTL DEF Spec
=============================================================================
