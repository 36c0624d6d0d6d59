------------------------------ MODULE MemCopy --------------------------------
(***************************************************************************)
(* The functions of libs/string.c that write memory: memmove, memcpy,      *)
(* memset, strcpy and strncpy, one byte at a time, on a memory of MemSize  *)
(* bytes.  The state is one call, from its arguments to its return.        *)
(***************************************************************************)
EXTENDS Integers

CONSTANTS
  MemSize,  \* bytes of memory
  Byte,     \* what a byte can hold
  NUL,      \* '\0'
  Memories  \* contents the memory may have before the call

Addr == 0..(MemSize - 1)

ASSUME MemAssumption ==
  /\ MemSize \in Nat \ {0}
  /\ NUL \in Byte
  /\ Memories \subseteq [Addr -> Byte]

VARIABLES
  mem,             \* the memory
  fn,              \* the function called
  dst, src, n, c,  \* its arguments: two pointers, a length, a fill byte
  d, s, left,      \* its locals: the pointers p, d and s, and what is left of n
  pc,              \* "call", "up", "down", "return"
  old              \* the memory at the call (history)

args    == <<fn, dst, src, n, c, old>>
memVars == <<mem, d, s, left, pc, args>>

Blocks    == {"memmove", "memcpy"}
Copying   == Blocks \cup {"memset", "strcpy", "strncpy"}
Pointer   == 0..MemSize

CopyTypeOK ==
  /\ mem \in [Addr -> Byte]
  /\ dst \in Addr /\ src \in Addr /\ n \in Nat /\ c \in Byte
  /\ d \in Pointer /\ s \in Pointer /\ left \in 0..n
  /\ pc \in {"call", "up", "down", "return"}
  /\ old \in [Addr -> Byte]

------------------------------------------------------------------------------
(***************************************************************************)
(* What a caller must respect.                                             *)
(***************************************************************************)
Region(p, k) == p..(p + k - 1)
Apart(p, k, q, l) == p + k <= q \/ q + l <= p

\* The string at p is k characters long.
IsLength(m, p, k) ==
  p + k \in Addr /\ m[p + k] = NUL /\ \A j \in 0..(k - 1) : m[p + j] # NUL

\* The bytes that strncpy looks at: up to the '\0', and no more than k.
FirstBytes(m, p, k) ==
  {j \in 0..(k - 1) : \A i \in 0..(j - 1) : p + i \in Addr /\ m[p + i] # NUL}

Legal ==
  /\ dst + n <= MemSize
  /\ fn \in Blocks => src + n <= MemSize
  /\ fn = "memcpy" => Apart(dst, n, src, n)
  /\ fn = "strcpy" => \E k \in Addr : /\ IsLength(mem, src, k)
                                      /\ dst + k < MemSize
                                      /\ Apart(dst, k + 1, src, k + 1)
  /\ fn = "strncpy" => \A j \in FirstBytes(mem, src, n) :
                          src + j \in Addr /\ src + j \notin Region(dst, n)

\* An argument that the function does not have is 0.
CopyInit ==
  /\ fn \in Copying
  /\ mem \in Memories
  /\ dst \in Addr
  /\ src \in IF fn = "memset" THEN {0} ELSE Addr
  /\ n \in IF fn = "strcpy" THEN {0} ELSE Pointer
  /\ c \in IF fn = "memset" THEN Byte ELSE {NUL}
  /\ Legal
  /\ d = dst /\ s = src /\ left = n
  /\ pc = "call"
  /\ old = mem

------------------------------------------------------------------------------
(***************************************************************************)
(* The loops.                                                              *)
(***************************************************************************)
\* Mutant of Overlap: always from the start.
Overlap_Ignored == FALSE

\* if (s < d && s + n > d) : the end of the source lies in the destination
Overlap == s < d /\ s + n > d

Enter ==
  /\ pc = "call"
  /\ ~(fn = "memmove" /\ Overlap)
  /\ pc' = "up"
  /\ UNCHANGED <<mem, d, s, left, args>>

EnterDown ==
  /\ pc = "call"
  /\ fn = "memmove" /\ Overlap
  /\ s' = s + n /\ d' = d + n
  /\ pc' = "down"
  /\ UNCHANGED <<mem, left, args>>

\* Mutant of CopyUp: the length is compared with >= 0.
CopyUp_OneMore ==
  /\ pc = "up" /\ fn \in Blocks /\ d < MemSize /\ s < MemSize
  /\ mem' = [mem EXCEPT ![d] = mem[s]]
  /\ d' = d + 1 /\ s' = s + 1 /\ left' = left - 1
  /\ UNCHANGED <<pc, args>>

\* *d ++ = *s ++
CopyUp ==
  /\ pc = "up" /\ fn \in Blocks /\ left > 0
  /\ mem' = [mem EXCEPT ![d] = mem[s]]
  /\ d' = d + 1 /\ s' = s + 1 /\ left' = left - 1
  /\ UNCHANGED <<pc, args>>

\* *-- d = *-- s
CopyDown ==
  /\ pc = "down" /\ left > 0
  /\ mem' = [mem EXCEPT ![d - 1] = mem[s - 1]]
  /\ d' = d - 1 /\ s' = s - 1 /\ left' = left - 1
  /\ UNCHANGED <<pc, args>>

\* *p ++ = c
Fill ==
  /\ pc = "up" /\ fn = "memset" /\ left > 0
  /\ mem' = [mem EXCEPT ![d] = c]
  /\ d' = d + 1 /\ left' = left - 1
  /\ UNCHANGED <<s, pc, args>>

\* (*p ++ = *src ++) != '\0' : the '\0' is copied, then the loop ends
CopyString ==
  /\ pc = "up" /\ fn = "strcpy"
  /\ mem' = [mem EXCEPT ![d] = mem[s]]
  /\ d' = d + 1 /\ s' = s + 1
  /\ pc' = IF mem[s] = NUL THEN "return" ELSE "up"
  /\ UNCHANGED <<left, args>>

\* src stays at its '\0', which is then copied over and over
CopyPadded ==
  /\ pc = "up" /\ fn = "strncpy" /\ left > 0
  /\ mem' = [mem EXCEPT ![d] = mem[s]]
  /\ s' = IF mem[s] # NUL THEN s + 1 ELSE s
  /\ d' = d + 1 /\ left' = left - 1
  /\ UNCHANGED <<pc, args>>

LoopEnds ==
  /\ pc \in {"up", "down"} /\ fn # "strcpy" /\ left = 0
  /\ pc' = "return"
  /\ UNCHANGED <<mem, d, s, left, args>>

CopyNext ==
  Enter \/ EnterDown \/ CopyUp \/ CopyDown \/ Fill \/ CopyString
    \/ CopyPadded \/ LoopEnds

------------------------------------------------------------------------------
\* The byte that the call must leave at dst + j.
Result(j) ==
  IF fn = "memset" THEN c
  ELSE IF /\ fn = "strncpy"
          /\ \E i \in 0..j : src + i \in Addr /\ old[src + i] = NUL
  THEN NUL
  ELSE old[src + j]

\* How many bytes it must leave: a string is copied with its '\0'.
Extent == IF fn = "strcpy" THEN (CHOOSE k \in Addr : IsLength(old, src, k)) + 1
                           ELSE n

\* When a copying function returns, its destination holds what its source held
\* at the call, however the two overlap where memmove allows it, and no other
\* byte of memory has changed (string.c: memmove, memcpy, memset, strcpy,
\* strncpy).
CopyContract ==
  pc = "return" /\ fn \in Copying =>
    \A a \in Addr :
      mem[a] = IF a \in Region(dst, Extent) THEN Result(a - dst) ELSE old[a]
=============================================================================
