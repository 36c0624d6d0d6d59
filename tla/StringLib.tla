------------------------------ MODULE StringLib ------------------------------
(***************************************************************************)
(* libs/string.c: the functions that write memory, of MemCopy, and those   *)
(* that only read it, one character at a time as well.  A char is a        *)
(* number, as the comparisons subtract them, and is compared unsigned.     *)
(***************************************************************************)
EXTENDS MemCopy, Numerals

CONSTANTS Texts,   \* contents of the memory before strtol
          Bases    \* bases given to strtol, 0 or from 2 to 36

ASSUME CharAssumption ==
  /\ Byte \subseteq 0..255 /\ NUL = 0
  /\ Texts \subseteq [Addr -> Byte]
  /\ Bases \subseteq {0} \cup 2..36

VARIABLES
  ret,       \* val: what a function that reads returns, for strtol its local
             \* val until then; end: *endptr
  neg, base  \* locals of strtol

readVars == <<ret, neg, base>>
vars     == <<memVars, readVars>>

NULL == -1

Strings   == {"strlen", "strnlen", "strcmp", "strncmp", "strchr", "strfind"}
Counted   == {"strnlen", "strncmp", "memcmp"}   \* no more than n characters
Comparing == {"strcmp", "strncmp", "memcmp"}    \* of src with those of dst
Seeking   == {"strchr", "strfind"}              \* the character c
Scanning  == Strings \cup {"memcmp"}

------------------------------------------------------------------------------
(***************************************************************************)
(* One call of any of the functions.  The base given to strtol is n.       *)
(***************************************************************************)
TypeOK ==
  /\ CopyTypeOK
  /\ fn \in Copying \cup Scanning \cup {"strtol"}
  /\ ret \in [val : Int, end : Addr \cup {NULL}]
  /\ neg \in BOOLEAN
  /\ base \in 0..36

\* The string, or its first k bytes, lies in the memory.
Readable(p, k) == \A j \in FirstBytes(mem, p, k) : p + j \in Addr

ScanLegal ==
  /\ fn \in Strings \ Counted => Readable(src, MemSize + 1)
  /\ fn = "strcmp" => Readable(dst, MemSize + 1)
  /\ fn \in {"strnlen", "strncmp"} => Readable(src, n)
  /\ fn = "strncmp" => Readable(dst, n)
  /\ fn = "memcmp" => src + n <= MemSize /\ dst + n <= MemSize

ScanInit ==
  /\ \/ /\ fn \in Scanning
        /\ mem \in Memories
        /\ src \in Addr
        /\ dst \in IF fn \in Comparing THEN Addr ELSE {0}
        /\ n \in IF fn \in Counted THEN Pointer ELSE {0}
        /\ c \in IF fn \in Seeking THEN Byte ELSE {NUL}
        /\ ScanLegal
        /\ pc = "up"
     \/ /\ fn = "strtol"
        /\ mem \in Texts
        /\ src = 0 /\ Readable(src, MemSize + 1)
        /\ n \in Bases /\ dst = 0 /\ c = NUL
        /\ pc = "call"
  /\ d = dst /\ s = src /\ left = n
  /\ old = mem

Init ==
  /\ CopyInit \/ ScanInit
  /\ ret = [val |-> 0, end |-> NULL]
  /\ neg = FALSE
  /\ base = IF fn = "strtol" THEN n ELSE 0

------------------------------------------------------------------------------
(***************************************************************************)
(* The loops that only look: s and d walk together, left counts down.      *)
(***************************************************************************)
Continues ==
  /\ fn \in Counted => left > 0
  /\ fn \in Strings => mem[s] # NUL
  /\ fn \in Comparing => mem[s] = mem[d]
  /\ fn \in Seeking => mem[s] # c

Advance ==
  /\ pc = "up" /\ fn \in Scanning /\ Continues
  /\ s' = s + 1
  /\ d' = IF fn \in Comparing THEN d + 1 ELSE d
  /\ left' = IF fn \in Counted THEN left - 1 ELSE left
  /\ UNCHANGED <<mem, pc, args, readVars>>

\* cnt is how far s has come
Returned ==
  CASE fn \in {"strlen", "strnlen"} -> s - src
    [] fn \in Comparing -> IF fn \in Counted /\ left = 0 THEN 0
                           ELSE mem[s] - mem[d]
    [] fn = "strchr"    -> IF mem[s] = NUL THEN NULL ELSE s
    [] fn = "strfind"   -> s

Return ==
  /\ pc = "up" /\ fn \in Scanning /\ ~Continues
  /\ ret' = [ret EXCEPT !.val = Returned]
  /\ pc' = "return"
  /\ UNCHANGED <<mem, d, s, left, args, neg, base>>

------------------------------------------------------------------------------
(***************************************************************************)
(* strtol.  The value of val stays far from the width of long: the code    *)
(* does not detect overflow, and says so.                                  *)
(***************************************************************************)
Space == 32   Tab == 9   Plus == 43   Minus == 45   Zero == 48
LowerX == 120   UpperX == 88

\* dig, or a number that is no digit of any base
Digit(ch) == CASE ch \in 48..57  -> ch - 48
               [] ch \in 97..122 -> ch - 97 + 10
               [] ch \in 65..90  -> ch - 65 + 10
               [] OTHER          -> 256

Gobble ==
  /\ pc = "call" /\ fn = "strtol" /\ mem[s] \in {Space, Tab}
  /\ s' = s + 1
  /\ UNCHANGED <<mem, d, left, pc, args, readVars>>

\* The characters before the digits, and the base that they select.
Prefix(q) ==
  CASE base \in {0, 16} /\ mem[q] = Zero /\ mem[q + 1] = LowerX -> <<2, 16>>
    [] base = 0 /\ mem[q] = Zero /\ mem[q + 1] # LowerX -> <<1, 8>>
    [] base = 0 /\ mem[q] # Zero -> <<0, 10>>
    [] OTHER -> <<0, base>>

SignAndPrefix ==
  /\ pc = "call" /\ fn = "strtol" /\ mem[s] \notin {Space, Tab}
  /\ neg' = (mem[s] = Minus)
  /\ LET q == IF mem[s] \in {Plus, Minus} THEN s + 1 ELSE s
     IN  /\ s' = q + Prefix(q)[1]
         /\ base' = Prefix(q)[2]
  /\ pc' = "up"
  /\ UNCHANGED <<mem, d, left, args, ret>>

\* Mutant of IsDigit: dig > base ends the number.
IsDigit_Inclusive == Digit(mem[s]) <= base

IsDigit == Digit(mem[s]) < base

\* s ++, val = (val * base) + dig
TakeDigit ==
  /\ pc = "up" /\ fn = "strtol" /\ IsDigit
  /\ s' = s + 1
  /\ ret' = [ret EXCEPT !.val = @ * base + Digit(mem[s])]
  /\ UNCHANGED <<mem, d, left, pc, args, neg, base>>

NumberEnds ==
  /\ pc = "up" /\ fn = "strtol" /\ ~IsDigit
  /\ ret' = [val |-> IF neg THEN -ret.val ELSE ret.val, end |-> s]
  /\ pc' = "return"
  /\ UNCHANGED <<mem, d, s, left, args, neg, base>>

------------------------------------------------------------------------------
Copy == fn \in Copying /\ CopyNext /\ UNCHANGED readVars

\* The caller goes on: no call is left to look at.
Done == pc = "return" /\ UNCHANGED vars

Next ==
  Copy \/ Advance \/ Return \/ Gobble \/ SignAndPrefix \/ TakeDigit \/ NumberEnds
    \/ Done

Spec == Init /\ [][Next]_vars

------------------------------------------------------------------------------
(***************************************************************************)
(* What the functions that read promise.                                   *)
(***************************************************************************)
\* Position k is the first of K at which the bytes at src and dst differ.
Differ(k, K) ==
  mem[src + k] # mem[dst + k] /\ \A j \in K : j < k => mem[src + j] = mem[dst + j]

\* The result has the sign of the first difference at a position of K.
Compares(K) ==
  /\ ret.val > 0 <=> \E k \in K : Differ(k, K) /\ mem[src + k] > mem[dst + k]
  /\ ret.val < 0 <=> \E k \in K : Differ(k, K) /\ mem[src + k] < mem[dst + k]

Common(k) == FirstBytes(mem, src, k) \cap FirstBytes(mem, dst, k)

\* The positions of ch in the string at src, its '\0' left out.
Positions(ch) == {src + j : j \in {k \in FirstBytes(mem, src, MemSize) :
                                     mem[src + k] = ch /\ ch # NUL}}
Least(S) == CHOOSE x \in S : \A y \in S : x <= y

End == CHOOSE q \in src..(MemSize - 1) : IsLength(mem, src, q - src)

\* The value of the last i digits before e.
Weighted(e, B) == Value([i \in Nat |-> Digit(mem[e - 1 - i])], B)

\* The bytes from b to e are the longest run of digits of base B at b, and
\* v is their value.
Numeral(b, e, B, v) ==
  /\ b <= e
  /\ \A q \in b..(e - 1) : Digit(mem[q]) < B
  /\ Digit(mem[e]) >= B
  /\ v = Weighted(e, B)[e - b]

\* strtol's syntax: blanks up to b, a sign, at q the number, with its prefix:
\* "0x" in base 0, "0x" or "0X" in base 16, as the comment above strtol has it.
\* (A leading "0" that selects octal is a digit of the number as well.)
Hex(q) ==
  /\ n \in {0, 16}
  /\ mem[q] = Zero
  /\ mem[q + 1] \in IF n = 16 THEN {LowerX, UpperX} ELSE {LowerX}

Radix(q) == IF Hex(q) THEN 16
            ELSE IF n # 0 THEN n
            ELSE IF mem[q] = Zero THEN 8 ELSE 10
First(q) == IF Hex(q) THEN q + 2 ELSE q

Signed(b) ==
  /\ \A a \in src..(b - 1) : mem[a] \in {Space, Tab}
  /\ mem[b] \notin {Space, Tab}

Number(b) == IF mem[b] \in {Plus, Minus} THEN b + 1 ELSE b

\* The result is the numeral of the text whose blanks end at b.
Reads(b) ==
  Numeral(First(Number(b)), ret.end, Radix(Number(b)),
          IF mem[b] = Minus THEN -ret.val ELSE ret.val)

\* The prefix "0X", that the comment promises and the code does not know.
Refused(q) == n = 16 /\ mem[q] = Zero /\ mem[q + 1] = UpperX

Parsed ==
  \E b \in src..(MemSize - 1) :
    /\ Signed(b)
    /\ IF Refused(Number(b)) THEN ret = [val |-> 0, end |-> Number(b) + 1]
                             ELSE Reads(b)

\* Every function that reads returns what its comment in string.c promises,
\* with one exception: lengths, the sign of the first difference, the first
\* occurrence, and the value and end of the numeral in its base.  The
\* exception is the prefix "0X" in base 16: of it strtol reads the "0" alone.
ScanContract ==
  pc = "return" /\ fn \notin Copying =>
    CASE fn = "strlen"  -> IsLength(mem, src, ret.val)
      [] fn = "strnlen" -> /\ ret.val <= n
                           /\ \A j \in 0..(ret.val - 1) : mem[src + j] # NUL
                           /\ ret.val < n => mem[src + ret.val] = NUL
      [] fn = "strcmp"  -> Compares(Common(MemSize))
      [] fn = "strncmp" -> Compares(Common(n))
      [] fn = "memcmp"  -> Compares(0..(n - 1))
      [] fn = "strchr"  -> ret.val = IF Positions(c) = {} THEN NULL
                                     ELSE Least(Positions(c))
      [] fn = "strfind" -> ret.val = IF Positions(c) = {} THEN End
                                     ELSE Least(Positions(c))
      [] fn = "strtol"  -> Parsed

\* What the comment above strtol says: "if base is 16, an optional "0x" or
\* "0X" prefix" precedes the digits (string.c:198-199).  The code compares the
\* second character with 'x' only.
PrefixAsPromised ==
  pc = "return" /\ fn = "strtol" =>
    \E b \in src..(MemSize - 1) : Signed(b) /\ Reads(b)
=============================================================================
