--------------------------- MODULE PrintFmtProofs ----------------------------
(***************************************************************************)
(* For every set of formats and arguments, every width of int and long and *)
(* every buffer: the formatter stores inside the buffer, ends the text     *)
(* there and returns its whole length, and what it prints is what the      *)
(* format means, read as a whole.                                          *)
(***************************************************************************)
EXTENDS FormatMeaning, NumeralProofs, FiniteSetTheorems, SequenceTheorems

(***************************************************************************)
(* The buffer: what sprintputch stores, whoever calls it.                  *)
(***************************************************************************)
\* What the buffer and the counters are in each phase.
Stored ==
  /\ phase = "call" => /\ buf = 0 /\ cnt = 0 /\ ret = 0 /\ text = <<>>
                       /\ str = [k \in Cells |-> Junk]
  /\ phase = "open" =>
       /\ ~null /\ size > 0 /\ ret = 0
       /\ cnt = Len(text)
       /\ buf = Least(Len(text), size - 1)
       /\ \A k \in Cells : str[k] = IF k < buf THEN text[k + 1] ELSE Junk
  /\ phase = "closed" /\ ret # -E_INVAL => buf \in Cells

BufInv == BufTypeOK /\ Stored /\ BufferContract

USE BufAssumption

LEMMA InitBuf == BufInit => BufInv
<1> SUFFICES ASSUME BufInit PROVE BufInv
  OBVIOUS
<1>1. BufTypeOK
  <2>1. size \in Nat /\ phase = "call" /\ text = <<>>
    BY DEF BufInit
  <2>2. text \in Seq(Char)
    BY <2>1, EmptySeq
  <2>3. QED
    BY <2>1, <2>2 DEF BufInit, BufTypeOK, Cells, ebuf
<1>2. Stored /\ BufferContract
  BY DEF BufInit, Stored, BufferContract
<1>3. QED
  BY <1>1, <1>2 DEF BufInv

LEMMA StepOpen == BufInv /\ Open => BufInv'
<1> SUFFICES ASSUME BufInv, Open PROVE BufInv'
  OBVIOUS
<1>1. size \in Nat /\ null \in BOOLEAN /\ buf = 0 /\ cnt = 0 /\ ret = 0 /\ text = <<>>
      /\ str = [k \in Cells |-> Junk]
  BY DEF BufInv, BufTypeOK, Stored, Open
<1>2. Cells' = Cells
  BY DEF Open, Cells, ebuf
<1>3. CASE Refused
  <2>1. null \/ size = 0
    BY <1>1, <1>3 DEF Refused, ebuf
  <2>2. phase' = "closed" /\ ret' = -E_INVAL
    BY <1>3 DEF Open
  <2>3. BufTypeOK'
    BY <2>2, <1>2 DEF BufInv, BufTypeOK, Open, E_INVAL
  <2>4. Stored'
    BY <2>2 DEF Stored, E_INVAL
  <2>5. BufferContract'
    BY <2>1, <2>2, <1>1, <1>2 DEF BufferContract, Open, E_INVAL
  <2>6. QED
    BY <2>3, <2>4, <2>5 DEF BufInv
<1>4. CASE ~Refused
  <2>1. ~null /\ size > 0
    BY <1>1, <1>4 DEF Refused, ebuf
  <2>2. phase' = "open" /\ ret' = 0
    BY <1>4, <1>1 DEF Open
  <2>3. 0 \in Cells
    BY <1>1, <2>1 DEF Cells, ebuf
  <2>4. BufTypeOK'
    BY <2>2, <2>3, <1>1, <1>2 DEF BufInv, BufTypeOK, Open
  <2>5. Len(text) = 0
    BY <1>1, EmptySeq
  <2>6. Least(0, size - 1) = 0
    BY <1>1, <2>1 DEF Least
  <2>7. \A k \in Cells : ~(k < 0)
    BY DEF Cells
  <2>8. Stored'
    BY <2>1, <2>2, <2>5, <2>6, <2>7, <1>1, <1>2 DEF Stored, Open
  <2>9. BufferContract'
    BY <2>2 DEF BufferContract
  <2>10. QED
    BY <2>4, <2>8, <2>9 DEF BufInv
<1>5. QED
  BY <1>3, <1>4

LEMMA StepPutch == ASSUME NEW ch \in Char PROVE BufInv /\ sprintputch(ch) => BufInv'
<1> SUFFICES ASSUME BufInv, sprintputch(ch) PROVE BufInv'
  OBVIOUS
<1>1. /\ size \in Nat /\ size > 0 /\ ~null /\ ret = 0 /\ text \in Seq(Char)
      /\ str \in [Cells -> Char \cup {NUL, Junk}]
      /\ cnt = Len(text) /\ buf = Least(Len(text), size - 1)
      /\ \A k \in Cells : str[k] = IF k < buf THEN text[k + 1] ELSE Junk
  BY DEF BufInv, BufTypeOK, Stored, sprintputch
<1>2. Cells' = Cells /\ phase' = "open" /\ ret' = 0 /\ null' = null /\ size' = size
  BY <1>1 DEF sprintputch, Cells, ebuf
<1>3. /\ text' \in Seq(Char) /\ Len(text') = Len(text) + 1
      /\ text'[Len(text) + 1] = ch
      /\ \A i \in 1..Len(text) : text'[i] = text[i]
  BY <1>1, AppendProperties DEF sprintputch
<1>4. Len(text) \in Nat
  BY <1>1, LenProperties
<1>5. CASE buf < ebuf
  <2>1. buf = Len(text) /\ buf \in Cells /\ buf + 1 \in Cells
        /\ buf + 1 = Least(Len(text) + 1, size - 1)
    BY <1>1, <1>4, <1>5 DEF Least, Cells, ebuf
  <2>2. str' = [str EXCEPT ![buf] = ch] /\ buf' = buf + 1 /\ cnt' = cnt + 1
    BY <1>5 DEF sprintputch
  <2>3. ASSUME NEW k \in Cells
        PROVE  str'[k] = IF k < buf' THEN text'[k + 1] ELSE Junk
    <3>1. k \in Nat
      BY <1>1 DEF Cells, ebuf
    <3>2. CASE k = buf
      BY <3>2, <2>1, <2>2, <1>1, <1>3, <1>4
    <3>3. CASE k < buf
      <4>1. k + 1 \in 1..Len(text)
        BY <3>1, <3>3, <2>1, <1>4
      <4>2. QED
        BY <3>1, <3>3, <4>1, <2>1, <2>2, <1>1, <1>3, <1>4
    <3>4. CASE k > buf
      BY <3>1, <3>4, <2>1, <2>2, <1>1, <1>4
    <3>5. QED
      BY <3>1, <3>2, <3>3, <3>4, <2>1, <1>4
  <2>4. BufTypeOK'
    BY <2>1, <2>2, <1>1, <1>2, <1>3, <1>4 DEF BufInv, BufTypeOK, E_INVAL
  <2>5. Stored'
    BY <2>1, <2>2, <2>3, <1>1, <1>2, <1>3 DEF Stored
  <2>6. QED
    BY <2>4, <2>5, <1>2 DEF BufInv, BufferContract
<1>6. CASE ~(buf < ebuf)
  <2>1. buf = size - 1 /\ Len(text) >= size - 1 /\ buf \in Cells
        /\ buf = Least(Len(text) + 1, size - 1)
    BY <1>1, <1>4, <1>6 DEF Least, Cells, ebuf
  <2>2. str' = str /\ buf' = buf /\ cnt' = cnt + 1
    BY <1>6 DEF sprintputch
  <2>3. ASSUME NEW k \in Cells
        PROVE  str'[k] = IF k < buf' THEN text'[k + 1] ELSE Junk
    <3>1. k \in Nat
      BY <1>1 DEF Cells, ebuf
    <3>2. k < buf => k + 1 \in 1..Len(text)
      BY <3>1, <2>1, <1>1, <1>4
    <3>3. QED
      BY <3>2, <2>2, <1>1, <1>3
  <2>4. BufTypeOK'
    BY <2>1, <2>2, <1>1, <1>2, <1>3, <1>4 DEF BufInv, BufTypeOK, E_INVAL
  <2>5. Stored'
    BY <2>1, <2>2, <2>3, <1>1, <1>2, <1>3 DEF Stored
  <2>6. QED
    BY <2>4, <2>5, <1>2 DEF BufInv, BufferContract
<1>7. QED
  BY <1>5, <1>6

LEMMA StepClose == BufInv /\ Close => BufInv'
<1> SUFFICES ASSUME BufInv, Close PROVE BufInv'
  OBVIOUS
<1>1. /\ size \in Nat /\ size > 0 /\ ~null /\ text \in Seq(Char)
      /\ str \in [Cells -> Char \cup {NUL, Junk}]
      /\ cnt = Len(text) /\ buf = Least(Len(text), size - 1)
      /\ \A k \in Cells : str[k] = IF k < buf THEN text[k + 1] ELSE Junk
  BY DEF BufInv, BufTypeOK, Stored, Close
<1>2. Len(text) \in Nat
  BY <1>1, LenProperties
<1>3. buf \in Cells
  BY <1>1, <1>2 DEF Least, Cells, ebuf
<1>4. Cells' = Cells
  BY DEF Close, Cells, ebuf
<1>5. BufTypeOK'
  BY <1>1, <1>2, <1>3, <1>4 DEF BufInv, BufTypeOK, Close
<1>6. Stored'
  BY <1>3, <1>4 DEF Stored, Close
<1>7. str' = [k \in Cells |-> IF k < buf THEN text[k + 1]
                              ELSE IF k = buf THEN NUL ELSE Junk]
  <2>1. \A k \in Cells : k \in Int
    BY DEF Cells
  <2>2. buf \in Int
    BY <1>3, <2>1
  <2>3. \A k \in Cells : str'[k] = IF k < buf THEN text[k + 1]
                                   ELSE IF k = buf THEN NUL ELSE Junk
    BY <1>1, <1>3, <2>1, <2>2 DEF Close
  <2>4. str' = [k \in Cells |-> str'[k]]
    BY <1>1 DEF Close
  <2>5. QED
    BY <2>3, <2>4
<1>8. BufferContract'
  <2>1. ret' = Len(text') /\ text' = text /\ null' = null /\ size' = size
    BY <1>1 DEF Close
  <2>2. ~(null' \/ size' = 0)
    BY <1>1, <2>1
  <2>3. Least(Len(text'), size' - 1) = buf
    BY <1>1, <2>1
  <2>4. str' = [k \in Cells' |-> IF k < Least(Len(text'), size' - 1) THEN text'[k + 1]
                                 ELSE IF k = Least(Len(text'), size' - 1) THEN NUL ELSE Junk]
    BY <1>4, <1>7, <2>1, <2>3
  <2>5. QED
    BY <2>1, <2>2, <2>4 DEF BufferContract
<1>9. QED
  BY <1>5, <1>6, <1>8 DEF BufInv

LEMMA StepBuf == BufInv /\ [BufNext]_bufVars => BufInv'
<1> SUFFICES ASSUME BufInv, [BufNext]_bufVars PROVE BufInv'
  OBVIOUS
<1>1. CASE UNCHANGED bufVars
  BY <1>1 DEF BufInv, BufTypeOK, Stored, BufferContract, bufVars, Cells, ebuf
<1>2. QED
  BY <1>1, StepOpen, StepPutch, StepClose DEF BufNext

------------------------------------------------------------------------------
(***************************************************************************)
(* The types of the formatter, and that all it prints are characters: its  *)
(* steps are steps of the buffer.                                          *)
(***************************************************************************)
Args == IntArgs \cup LongArgs \cup CharArgs \cup StrArgs \cup {NullPtr}

\* Where an escape sequence is read, its '%' is behind the pointer: the loop of
\* the default case stops there.
Escaping ==
  pc \in {"escape", "number"} =>
    \E i \in 2..p : fmt[i - 1] = "%" /\ \A j \in i..(p - 1) : fmt[j] # "%"

Printing == (pc = "num" => num >= 0) /\ (pc = "emit" => pending # <<>>)

TInv == FmtTypeOK /\ args \in Seq(Args) /\ Escaping /\ Printing

LEMMA ChIsChar ==
  ASSUME FmtTypeOK, NEW i \in Nat \ {0}
  PROVE  /\ Ch(i) # NUL <=> i <= Len(fmt)
         /\ Ch(i) # NUL => Ch(i) \in Char /\ Ch(i) = fmt[i]
<1>1. fmt \in Seq(Char) /\ Len(fmt) \in Nat
  BY DEF FmtTypeOK
<1>2. CASE i <= Len(fmt)
  BY <1>1, <1>2, LiteralAssumption, SMTT(30) DEF Ch, CharAt
<1>3. CASE i > Len(fmt)
  BY <1>1, <1>3 DEF Ch, CharAt
<1>4. QED
  BY <1>1, <1>2, <1>3

LEMMA PutchTypes ==
  ASSUME FmtTypeOK, NEW ch \in Char, putch(ch)
  PROVE  screen' \in Seq(Char) /\ shown' \in Nat /\ [BufNext]_bufVars
<1>1. CASE via = "vsnprintf"
  BY <1>1 DEF FmtTypeOK, putch, consVars, BufNext
<1>2. CASE via # "vsnprintf"
  <2>1. UNCHANGED bufVars /\ screen' = Append(screen, ch) /\ shown' = shown + 1
    BY <1>2 DEF putch, cputch, cons_putc
  <2>2. QED
    BY <2>1 DEF FmtTypeOK
<1>3. QED
  BY <1>1, <1>2

LEMMA Unprinted ==
  ASSUME FmtTypeOK, UNCHANGED outVars
  PROVE  screen' \in Seq(Char) /\ shown' \in Nat /\ [BufNext]_bufVars
BY DEF FmtTypeOK, outVars, consVars

LEMMA NumberTypes ==
  /\ Mod(LongBits) \in Nat \ {0} /\ Mod(IntBits) \in Nat \ {0}
  /\ Mod(IntBits) <= Mod(LongBits)
  /\ -Least0(IntBits) \in 1..(Mod(IntBits) - 1)
  /\ -Least0(LongBits) \in 1..(Mod(LongBits) - 1)
<1>1. Power(2) \in [Nat -> Nat] /\ Power(2)[0] = 1
  BY PowerSteps
<1>2. LongBits \in Nat \ {0} /\ LongBits - 1 \in Nat /\ IntBits - 1 \in Nat /\ IntBits \in Nat
  BY FmtAssumption
<1>3. 2 \in Nat \ {0, 1}
  OBVIOUS
<1>4. \A i, j \in Nat : i <= j => Power(2)[i] <= Power(2)[j]
  BY <1>3, PowerGrows
<1>5. \A i \in Nat : Power(2)[i] > i
  BY <1>3, PowerGrows
<1>6. PICK P : P = Power(2)
  OBVIOUS
<1>7. /\ P[LongBits] \in Nat \ {0} /\ P[IntBits] \in Nat \ {0} /\ P[IntBits] <= P[LongBits]
      /\ P[IntBits - 1] \in 1..(P[IntBits] - 1) /\ P[LongBits - 1] \in 1..(P[LongBits] - 1)
  <2>1. /\ P[LongBits] \in Nat /\ P[IntBits] \in Nat
        /\ P[IntBits - 1] \in Nat /\ P[LongBits - 1] \in Nat
    BY <1>1, <1>2, <1>6
  <2>2. P[LongBits] > LongBits /\ P[IntBits] > IntBits
        /\ P[LongBits - 1] > LongBits - 1 /\ P[IntBits - 1] > IntBits - 1
    BY <1>2, <1>5, <1>6
  <2>3. IntBits <= LongBits
    BY FmtAssumption
  <2>4. /\ P[IntBits] <= P[LongBits]
        /\ P[IntBits] = P[IntBits - 1] * 2 /\ P[LongBits] = P[LongBits - 1] * 2
    <3>1. \A i \in Nat : P[i + 1] = P[i] * 2
      BY <1>6, PowerSteps
    <3>2. (IntBits - 1) + 1 = IntBits /\ (LongBits - 1) + 1 = LongBits
      BY <1>2
    <3>3. P[IntBits] = P[IntBits - 1] * 2 /\ P[LongBits] = P[LongBits - 1] * 2
      BY <1>2, <3>1, <3>2
    <3>4. QED
      BY <1>2, <1>4, <1>6, <2>3, <3>3
  <2>5. QED
    BY <1>2, <2>1, <2>2, <2>4
<1>8. QED
  BY <1>6, <1>7 DEF Mod, Least0
LEMMA DigitsAre == \A ch : IsDigit(ch) <=> ch \in {"0", "1", "2", "3", "4", "5", "6", "7", "8", "9"}
<1>1. ASSUME NEW ch, ch \in {"0", "1", "2", "3", "4", "5", "6", "7", "8", "9"} PROVE IsDigit(ch)
  <2>1. \E i \in 1..10 : Digit[i] = ch
    BY <1>1 DEF Digit
  <2>2. QED
    BY <2>1 DEF IsDigit
<1>2. ASSUME NEW ch, IsDigit(ch) PROVE ch \in {"0", "1", "2", "3", "4", "5", "6", "7", "8", "9"}
  <2>1. PICK i \in 1..10 : ch = Digit[i]
    BY <1>2 DEF IsDigit
  <2>2. QED
    BY <2>1 DEF Digit
<1>3. QED
  BY <1>1, <1>2

LEMMA DigitValIn == \A ch : IsDigit(ch) => DigitVal(ch) \in 0..9
<1> SUFFICES ASSUME NEW ch, IsDigit(ch) PROVE DigitVal(ch) \in 0..9
  OBVIOUS
<1>1. PICK d : d = CHOOSE i \in 1..10 : Digit[i] = ch
  OBVIOUS
<1>2. \E i \in 1..10 : Digit[i] = ch
  BY DEF IsDigit
<1>3. d \in 1..10
  BY <1>1, <1>2
<1>4. QED
  BY <1>1, <1>3 DEF DigitVal

LEMMA DigitIsChar == \A i \in 1..16 : Digit[i] \in Char
BY LiteralAssumption

LEMMA DigitIsNotNul == ~IsDigit(NUL)
<1> SUFFICES ASSUME IsDigit(NUL) PROVE FALSE
  OBVIOUS
<1>1. PICK i \in 1..10 : Digit[i] = NUL
  BY DEF IsDigit
<1>2. Digit[i] \in Char
  BY DigitIsChar
<1>3. NUL \notin Char
  BY LiteralAssumption
<1>4. QED
  BY <1>1, <1>2, <1>3

LEMMA LiteralsAreChars ==
  /\ NUL \notin Char
  /\ {Space, "?", "\n", "%", "-", "0", "x", "*", ".", "#", "l", "c", "e", "s", "d", "u", "o", "p"} \subseteq Char
  /\ Space \notin {"-", "0"}
<1>1. {"%", "x", "c", "e", "s", "d", "u", "o", "p"} \subseteq Recognised
  BY DEF Recognised, Conversions
<1>2. {"-", "*", ".", "#", "l"} \subseteq Recognised
  BY DEF Recognised, Modifiers
<1>3. IsDigit("0")
  BY DigitsAre
<1>4. "0" \in Recognised
  BY <1>3 DEF Recognised, Modifiers, IsDigit
<1>5. QED
  BY <1>1, <1>2, <1>4, LiteralAssumption

\* A step over a character that is not '%' leaves the '%' behind.
LEMMA EscapingOn ==
  ASSUME TInv, pc \in {"escape", "number"}, fmt' = fmt, p' = p + 1, Ch(p) \notin {"%", NUL}
  PROVE  Escaping' /\ p' \in 1..(Len(fmt) + 1)
<1>1. PICK i \in 2..p : fmt[i - 1] = "%" /\ \A j \in i..(p - 1) : fmt[j] # "%"
  BY DEF TInv, Escaping
<1>2. p \in Nat \ {0} /\ p <= Len(fmt) /\ fmt[p] # "%" /\ Len(fmt) \in Nat
  BY ChIsChar DEF TInv, FmtTypeOK
<1>3. i \in 2..(p + 1) /\ \A j \in i..p : fmt[j] # "%"
  BY <1>1, <1>2
<1>4. QED
  BY <1>1, <1>2, <1>3 DEF Escaping

Step == TInv' /\ [BufNext]_bufVars

LEMMA InitTypes == Init => TInv
<1> SUFFICES ASSUME Init PROVE TInv
  OBVIOUS
<1>1. fmt \in Seq(Char) /\ Len(fmt) \in Nat
  BY FmtAssumption DEF Init
<1>2. Mod(LongBits) \in Nat \ {0}
  BY NumberTypes
<1>3. <<>> \in Seq(Char) /\ <<>> \in Seq(Args)
  BY EmptySeq
<1>4. FmtTypeOK
  <2>1. num \in -1 .. Mod(LongBits) - 1
    BY <1>2 DEF Init
  <2>2. altflag \in BOOLEAN
    BY Zenon DEF Init
  <2>3. padc \in {Space, "0", "-"}
    BY Zenon DEF Init
  <2>4. screen \in Seq(Char) /\ shown \in Nat
    BY <1>3 DEF Init, ConsInit
  <2>5. QED
    BY <1>1, <1>3, <2>1, <2>2, <2>3, <2>4 DEF Init, FmtTypeOK
<1>5. QED
  BY <1>3, <1>4 DEF TInv, Init, Escaping, Printing

\* Outside of escape sequences and numbers it is the types only.
LEMMA Outside ==
  ASSUME FmtTypeOK', [BufNext]_bufVars, args' \in Seq(Args),
         pc' \notin {"escape", "number", "num", "emit"}
  PROVE  Step
BY DEF Step, TInv, Escaping, Printing

LEMMA InNumberOrName ==
  ASSUME FmtTypeOK', [BufNext]_bufVars, args' \in Seq(Args),
         pc' \notin {"escape", "number"}, Printing'
  PROVE  Step
BY DEF Step, TInv, Escaping

LEMMA StepText ==
  ASSUME TInv, vsnprintf \/ vcprintf \/ cputs \/ Literal \/ EndOfFormat \/ BeginEscape
  PROVE  Step
<1>1. /\ FmtTypeOK /\ args \in Seq(Args) /\ p \in Nat \ {0} /\ fmt \in Seq(Char)
      /\ Len(fmt) \in Nat
  BY DEF TInv, FmtTypeOK
<1>2. Ch(p) # NUL => p <= Len(fmt) /\ Ch(p) \in Char /\ Ch(p) = fmt[p]
  BY <1>1, ChIsChar
<1>3. CASE vsnprintf
  <2>1. screen' \in Seq(Char) /\ shown' \in Nat /\ [BufNext]_bufVars
    BY <1>1, <1>3 DEF FmtTypeOK, vsnprintf, BufNext, consVars
  <2>2. FmtTypeOK'
    BY <1>1, <1>3, <2>1 DEF FmtTypeOK, vsnprintf, flags, numVars
  <2>3. QED
    BY <1>1, <1>3, <2>1, <2>2, Outside DEF vsnprintf
<1>4. CASE vcprintf
  <2>1. screen' \in Seq(Char) /\ shown' \in Nat /\ [BufNext]_bufVars
    BY <1>1, <1>4, Unprinted DEF vcprintf
  <2>2. FmtTypeOK'
    BY <1>1, <1>4, <2>1 DEF FmtTypeOK, vcprintf, flags, numVars
  <2>3. QED
    BY <1>1, <1>4, <2>1, <2>2, Outside DEF vcprintf
<1>5. CASE cputs
  <2>1. PICK ch \in Char : cputch(ch)
    BY <1>2, <1>5, LiteralsAreChars DEF cputs
  <2>2. UNCHANGED bufVars /\ screen' = Append(screen, ch) /\ shown' = shown + 1
    BY <1>5, <2>1 DEF cputs, cputch, cons_putc
  <2>3. screen' \in Seq(Char) /\ shown' \in Nat
    BY <1>1, <2>2 DEF FmtTypeOK
  <2>4. FmtTypeOK'
    BY <1>1, <1>2, <1>5, <2>3 DEF FmtTypeOK, cputs, flags, numVars
  <2>5. QED
    BY <1>1, <1>5, <2>2, <2>4, Outside DEF cputs
<1>6. CASE Literal
  <2>1. screen' \in Seq(Char) /\ shown' \in Nat /\ [BufNext]_bufVars
    BY <1>1, <1>2, <1>6, PutchTypes DEF Literal
  <2>2. FmtTypeOK'
    BY <1>1, <1>2, <1>6, <2>1 DEF FmtTypeOK, Literal, flags, numVars
  <2>3. QED
    BY <1>1, <1>6, <2>1, <2>2, Outside DEF Literal
<1>7. CASE EndOfFormat
  <2>1. screen' \in Seq(Char) /\ shown' \in Nat /\ [BufNext]_bufVars
    BY <1>1, <1>7 DEF FmtTypeOK, EndOfFormat, BufNext, consVars
  <2>2. FmtTypeOK'
    BY <1>1, <1>7, <2>1 DEF FmtTypeOK, EndOfFormat, flags, numVars
  <2>3. QED
    BY <1>1, <1>7, <2>1, <2>2, Outside DEF EndOfFormat
<1>8. CASE BeginEscape
  <2>1. screen' \in Seq(Char) /\ shown' \in Nat /\ [BufNext]_bufVars
    BY <1>1, <1>8, Unprinted DEF BeginEscape
  <2>2. p <= Len(fmt) /\ fmt[p] = "%"
    BY <1>2, <1>8, LiteralsAreChars DEF BeginEscape
  <2>3. FmtTypeOK'
    <3>1. altflag' \in BOOLEAN /\ padc' \in {Space, "0", "-"}
      BY <1>8, Zenon DEF BeginEscape
    <3>2. QED
      BY <1>1, <1>8, <2>1, <2>2, <3>1 DEF FmtTypeOK, BeginEscape, numVars
  <2>4. Escaping'
    <3>1. p' = p + 1 /\ fmt' = fmt
      BY <1>8 DEF BeginEscape
    <3>2. p + 1 \in 2..(p + 1) /\ (p + 1) - 1 = p /\ \A j \in (p + 1)..((p + 1) - 1) : fmt[j] # "%"
      BY <1>1
    <3>3. QED
      BY <2>2, <3>1, <3>2 DEF Escaping
  <2>5. QED
    BY <1>1, <1>8, <2>1, <2>3, <2>4 DEF Step, TInv, BeginEscape, Printing
<1>9. QED
  BY <1>3, <1>4, <1>5, <1>6, <1>7, <1>8
LEMMA ArgTypes ==
  /\ Least0(IntBits) \in Int /\ Least0(LongBits) \in Int
  /\ IntArgs \subseteq Int /\ LongArgs \subseteq Int
  /\ \A v \in IntArgs : v \in Args
  /\ \A v \in LongArgs : v \in Args
<1>1. Least0(IntBits) \in Int /\ Least0(LongBits) \in Int
  <2>1. IntBits - 1 \in Nat /\ LongBits - 1 \in Nat
    BY FmtAssumption
  <2>2. Power(2)[IntBits - 1] \in Nat /\ Power(2)[LongBits - 1] \in Nat
    BY <2>1, PowerSteps
  <2>3. QED
    BY <2>2 DEF Least0
<1>2. QED
  BY <1>1, FmtAssumption DEF Args

LEMMA StepEscape == ASSUME TInv, Escape PROVE Step
<1>1. /\ FmtTypeOK /\ args \in Seq(Args) /\ p \in Nat \ {0} /\ fmt \in Seq(Char)
      /\ Len(fmt) \in Nat /\ width \in Int /\ precision \in Int /\ lflag \in Nat
  BY DEF TInv, FmtTypeOK
<1>2. ASSUME UNCHANGED outVars, FmtTypeOK', args' \in Seq(Args), Escaping',
             pc' \in {"escape", "number"}
      PROVE  Step
  BY <1>1, <1>2, Unprinted DEF Step, TInv, Printing
<1>3. UNCHANGED outVars => screen' \in Seq(Char) /\ shown' \in Nat
  BY <1>1, Unprinted
<1>4. CASE PadFlag
  <2>1. PICK ch \in {"-", "0"} : Reswitch(ch) /\ padc' = ch
    BY <1>4 DEF PadFlag
  <2>2. Escaping' /\ p' \in 1..(Len(fmt) + 1)
    BY <2>1, EscapingOn, LiteralsAreChars DEF Reswitch
  <2>3. FmtTypeOK' /\ UNCHANGED outVars /\ args' = args
    BY <1>1, <1>3, <1>4, <2>1, <2>2 DEF FmtTypeOK, Reswitch, PadFlag, numVars
  <2>4. pc' \in {"escape", "number"}
    BY <1>4 DEF PadFlag, Reswitch
  <2>5. QED
    BY <1>1, <1>2, <2>2, <2>3, <2>4
<1>5. CASE NumberBegins
  <2>1. Ch(p) \notin {"%", NUL} /\ precision' \in Int
    BY <1>5, DigitsAre, DigitValIn, ChIsChar, LiteralsAreChars, <1>1, DigitIsNotNul DEF NumberBegins
  <2>2. Escaping' /\ p' \in 1..(Len(fmt) + 1)
    BY <1>5, <2>1, EscapingOn DEF NumberBegins
  <2>3. FmtTypeOK' /\ UNCHANGED outVars /\ args' = args
    BY <1>1, <1>3, <1>5, <2>1, <2>2 DEF FmtTypeOK, NumberBegins, numVars
  <2>4. pc' \in {"escape", "number"}
    BY <1>5 DEF NumberBegins
  <2>5. QED
    BY <1>1, <1>2, <2>2, <2>3, <2>4
<1>6. CASE NumberDigit
  <2>1. Ch(p) \notin {"%", NUL} /\ precision' \in Int
    BY <1>6, DigitsAre, DigitValIn, <1>1, DigitIsNotNul DEF NumberDigit
  <2>2. Escaping' /\ p' \in 1..(Len(fmt) + 1)
    BY <1>6, <2>1, EscapingOn DEF NumberDigit
  <2>3. FmtTypeOK' /\ UNCHANGED outVars /\ args' = args
    BY <1>1, <1>3, <1>6, <2>1, <2>2 DEF FmtTypeOK, NumberDigit, numVars
  <2>4. pc' \in {"escape", "number"}
    BY <1>6 DEF NumberDigit
  <2>5. QED
    BY <1>1, <1>2, <2>2, <2>3, <2>4
<1>7. CASE NumberEnds
  <2>1. width' \in Int /\ precision' \in Int
    BY <1>1, <1>7 DEF NumberEnds, process_precision
  <2>2. FmtTypeOK' /\ UNCHANGED outVars /\ args' = args
    BY <1>1, <1>3, <1>7, <2>1 DEF FmtTypeOK, NumberEnds, numVars
  <2>3. Escaping'
    BY <1>7 DEF TInv, Escaping, NumberEnds
  <2>4. pc' \in {"escape", "number"}
    BY <1>7 DEF NumberEnds
  <2>5. QED
    BY <1>1, <1>2, <2>2, <2>3, <2>4
<1>8. CASE Star
  <2>1. PICK v \in IntArgs : process_precision(v) /\ args' = Append(args, v)
    BY <1>8 DEF Star
  <2>2. v \in Int /\ args' \in Seq(Args)
    BY <1>1, <2>1, ArgTypes, AppendProperties
  <2>3. width' \in Int /\ precision' \in Int
    BY <1>1, <2>1, <2>2 DEF process_precision
  <2>4. Escaping' /\ p' \in 1..(Len(fmt) + 1)
    BY <1>8, EscapingOn, LiteralsAreChars DEF Star, Reswitch
  <2>5. FmtTypeOK' /\ UNCHANGED outVars
    BY <1>1, <1>3, <1>8, <2>3, <2>4 DEF FmtTypeOK, Star, Reswitch, numVars
  <2>6. pc' \in {"escape", "number"}
    BY <1>8 DEF Star, Reswitch
  <2>7. QED
    BY <1>2, <2>2, <2>4, <2>5, <2>6
<1>9. CASE Dot
  <2>1. width' \in Int
    BY <1>1, <1>9 DEF Dot
  <2>2. Escaping' /\ p' \in 1..(Len(fmt) + 1)
    BY <1>9, EscapingOn, LiteralsAreChars DEF Dot, Reswitch
  <2>3. FmtTypeOK' /\ UNCHANGED outVars /\ args' = args
    BY <1>1, <1>3, <1>9, <2>1, <2>2 DEF FmtTypeOK, Dot, Reswitch, numVars
  <2>4. pc' \in {"escape", "number"}
    BY <1>9 DEF Dot, Reswitch
  <2>5. QED
    BY <1>1, <1>2, <2>2, <2>3, <2>4
<1>10. CASE Hash
  <2>1. altflag' \in BOOLEAN
    BY <1>10, Zenon DEF Hash
  <2>2. Escaping' /\ p' \in 1..(Len(fmt) + 1)
    BY <1>10, EscapingOn, LiteralsAreChars DEF Hash, Reswitch
  <2>3. FmtTypeOK' /\ UNCHANGED outVars /\ args' = args
    BY <1>1, <1>3, <1>10, <2>1, <2>2 DEF FmtTypeOK, Hash, Reswitch, numVars
  <2>4. pc' \in {"escape", "number"}
    BY <1>10 DEF Hash, Reswitch
  <2>5. QED
    BY <1>1, <1>2, <2>2, <2>3, <2>4
<1>11. CASE Ell
  <2>1. lflag' \in Nat
    BY <1>1, <1>11 DEF Ell
  <2>2. Escaping' /\ p' \in 1..(Len(fmt) + 1)
    BY <1>11, EscapingOn, LiteralsAreChars DEF Ell, Reswitch
  <2>3. FmtTypeOK' /\ UNCHANGED outVars /\ args' = args
    BY <1>1, <1>3, <1>11, <2>1, <2>2 DEF FmtTypeOK, Ell, Reswitch, numVars
  <2>4. pc' \in {"escape", "number"}
    BY <1>11 DEF Ell, Reswitch
  <2>5. QED
    BY <1>1, <1>2, <2>2, <2>3, <2>4
<1>12. QED
  BY <1>4, <1>5, <1>6, <1>7, <1>8, <1>9, <1>10, <1>11 DEF Escape

LEMMA ArgRanges ==
  /\ \A v \in IntArgs : /\ v < 0 => -v \in 0..(Mod(LongBits) - 1)
                        /\ v >= 0 => v \in 0..(Mod(LongBits) - 1)
  /\ \A v \in LongArgs : /\ v < 0 => -v \in 0..(Mod(LongBits) - 1)
                         /\ v >= 0 => v \in 0..(Mod(LongBits) - 1)
  /\ \A v \in Int : /\ v % Mod(IntBits) \in 0..(Mod(LongBits) - 1)
                    /\ v % Mod(LongBits) \in 0..(Mod(LongBits) - 1)
<1>1. PICK M \in Nat \ {0}, m \in Nat \ {0} : M = Mod(LongBits) /\ m = Mod(IntBits)
  BY NumberTypes
<1>2. m <= M
  BY <1>1, NumberTypes
<1>3. PICK g, G : g = Least0(IntBits) /\ G = Least0(LongBits)
  OBVIOUS
<1>4. g \in Int /\ G \in Int
  BY <1>3, ArgTypes
<1>5. IntArgs \subseteq g .. -g - 1 /\ LongArgs \subseteq G .. -G - 1
  BY <1>3, FmtAssumption
<1>6. -g \in 1..(m - 1) /\ -G \in 1..(M - 1)
  BY <1>1, <1>3, NumberTypes
<1>7. ASSUME NEW v \in Int PROVE v % m \in 0..(M - 1) /\ v % M \in 0..(M - 1)
  BY <1>2
<1>8. ASSUME NEW v \in IntArgs \cup LongArgs
      PROVE  /\ v < 0 => -v \in 0..(M - 1)
             /\ v >= 0 => v \in 0..(M - 1)
  BY <1>2, <1>4, <1>5, <1>6
<1>9. QED
  BY <1>1, <1>7, <1>8

LEMMA ConvertsOn ==
  ASSUME TInv, NEW ch, ch # NUL, Converts(ch)
  PROVE  p' \in 1..(Len(fmt) + 1)
<1>1. FmtTypeOK /\ p \in Nat \ {0} /\ Len(fmt) \in Nat
  BY DEF TInv, FmtTypeOK
<1>2. p <= Len(fmt) /\ p' = p + 1
  BY <1>1, ChIsChar DEF Converts
<1>3. QED
  BY <1>1, <1>2

LEMMA PrintsTypes ==
  ASSUME TInv, screen' \in Seq(Char), shown' \in Nat, [BufNext]_bufVars,
         p' \in 1..(Len(fmt) + 1), args' \in Seq(Args),
         NEW s \in Seq(Char), NEW v \in -1 .. Mod(LongBits) - 1, NEW b \in {8, 10, 16},
         NEW w \in Int, NEW pad \in {Space, "0", "-"}, Prints(s, v, b, w, pad)
  PROVE  Step
<1>1. FmtTypeOK'
  BY DEF TInv, FmtTypeOK, Prints, After
<1>2. pc' \notin {"escape", "number"}
  BY DEF Prints, After
<1>3. Printing'
  BY DEF Prints, After, Printing
<1>4. QED
  BY <1>1, <1>2, <1>3, InNumberOrName

\* What a conversion that prints one character does.
LEMMA PutchConverts ==
  ASSUME TInv, NEW ch \in Char, putch(ch), p' \in 1..(Len(fmt) + 1), args' \in Seq(Args),
         pc' = "text", UNCHANGED <<via, fmt, flags, q, numVars>>
  PROVE  Step
<1>1. screen' \in Seq(Char) /\ shown' \in Nat /\ [BufNext]_bufVars
  BY PutchTypes DEF TInv
<1>2. FmtTypeOK'
  BY <1>1 DEF TInv, FmtTypeOK, flags, numVars
<1>3. QED
  BY <1>1, <1>2, Outside

LEMMA DefaultBack ==
  ASSUME TInv, Default
  PROVE  p' \in 2..p /\ fmt[p' - 1] = "%" /\ \A j \in p'..(p - 1) : fmt[j] # "%"
<1>1. \E i \in 2..p : fmt[i - 1] = "%" /\ \A j \in i..(p - 1) : fmt[j] # "%"
  BY DEF TInv, Escaping, Default
<1>2. p' = CHOOSE i \in 2..p : fmt[i - 1] = "%" /\ \A j \in i..(p - 1) : fmt[j] # "%"
  BY DEF Default
<1>3. QED
  BY <1>1, <1>2

LEMMA StepConvert == ASSUME TInv, Convert PROVE Step
<1>1. /\ FmtTypeOK /\ args \in Seq(Args) /\ p \in Nat \ {0} /\ fmt \in Seq(Char)
      /\ Len(fmt) \in Nat /\ width \in Int /\ precision \in Int /\ lflag \in Nat
      /\ padc \in {Space, "0", "-"}
  BY DEF TInv, FmtTypeOK
<1>2. ASSUME UNCHANGED outVars PROVE screen' \in Seq(Char) /\ shown' \in Nat /\ [BufNext]_bufVars
  BY <1>1, <1>2, Unprinted
<1>3. \A v \in Args : Append(args, v) \in Seq(Args)
  BY <1>1, AppendProperties
<1>4. <<>> \in Seq(Char)
  BY EmptySeq
<1>5. CASE Char_c
  <2>1. PICK ch \in CharArgs : putch(ch) /\ args' = Append(args, ch)
    BY <1>5 DEF Char_c
  <2>2. ch \in Char /\ args' \in Seq(Args)
    BY <2>1, <1>3, FmtAssumption DEF Args
  <2>3. p' \in 1..(Len(fmt) + 1)
    BY <1>5, ConvertsOn, LiteralsAreChars DEF Char_c
  <2>4. pc' = "text" /\ UNCHANGED <<via, fmt, flags, q, numVars>>
    BY <1>5 DEF Char_c
  <2>5. QED
    BY <2>1, <2>2, <2>3, <2>4, PutchConverts
<1>6. CASE Error_e
  <2> DEFINE Err(v) == IF v < 0 THEN -v ELSE v
  <2>1. PICK v \in IntArgs :
          /\ IF Err(v) > MAXERROR \/ Err(v) = 0 THEN Prints(ErrorIs, Err(v), 10, -1, Space)
                                                ELSE Prints(ErrorString[Err(v)], -1, 10, -1, Space)
          /\ args' = Append(args, v)
    BY <1>6 DEF Error_e
  <2>2. args' \in Seq(Args)
    BY <1>3, <2>1, ArgTypes
  <2>3. p' \in 1..(Len(fmt) + 1)
    BY <1>6, ConvertsOn, LiteralsAreChars DEF Error_e
  <2>4. screen' \in Seq(Char) /\ shown' \in Nat /\ [BufNext]_bufVars
    BY <1>2, <1>6 DEF Error_e
  <2>5. PICK err \in 0..(Mod(LongBits) - 1) : err = Err(v)
    BY ArgRanges, ArgTypes
  <2>6. CASE err > MAXERROR \/ err = 0
    <3>1. Prints(ErrorIs, err, 10, -1, Space)
      BY <2>1, <2>5, <2>6
    <3>2. err \in -1 .. Mod(LongBits) - 1
      OBVIOUS
    <3>3. ErrorIs \in Seq(Char)
      BY LiteralAssumption
    <3>4. QED
      BY <2>2, <2>3, <2>4, <3>1, <3>2, <3>3, PrintsTypes
  <2>7. CASE ~(err > MAXERROR \/ err = 0)
    <3>1. Prints(ErrorString[err], -1, 10, -1, Space)
      BY <2>1, <2>5, <2>7
    <3>2. ErrorString[err] \in Seq(Char)
      <4>1. ErrorString \in Seq(Seq(Char)) /\ Len(ErrorString) \in Nat
        BY FmtAssumption
      <4>2. err \in 1..Len(ErrorString)
        BY <2>7, <4>1, NumberTypes DEF MAXERROR
      <4>3. QED
        BY <4>1, <4>2, ElementOfSeq
    <3>3. -1 \in -1 .. Mod(LongBits) - 1
      BY NumberTypes
    <3>4. QED
      BY <2>2, <2>3, <2>4, <3>1, <3>2, <3>3, PrintsTypes
  <2>8. QED
    BY <2>6, <2>7
<1>7. CASE Decimal
  <2> DEFINE Abs(v) == IF v < 0 THEN -v ELSE v
  <2>1. PICK v \in Ints(lflag) :
          /\ Prints(<<>>, Abs(v), 10, width, padc)
          /\ IF v < 0 THEN putch("-") ELSE UNCHANGED outVars
          /\ args' = Append(args, v)
    BY <1>7 DEF Decimal
  <2>2. v \in IntArgs \cup LongArgs
    BY DEF Ints
  <2>3. args' \in Seq(Args)
    BY <1>3, <2>1, <2>2, ArgTypes
  <2>4. p' \in 1..(Len(fmt) + 1)
    BY <1>7, ConvertsOn, LiteralsAreChars DEF Decimal
  <2>5. screen' \in Seq(Char) /\ shown' \in Nat /\ [BufNext]_bufVars
    BY <1>1, <1>2, <2>1, PutchTypes, LiteralsAreChars
  <2>6. PICK a \in 0..(Mod(LongBits) - 1) : a = Abs(v)
    BY <2>2, ArgRanges, ArgTypes
  <2>7. a \in -1 .. Mod(LongBits) - 1 /\ Prints(<<>>, a, 10, width, padc)
    BY <2>1, <2>6
  <2>8. QED
    BY <1>1, <1>4, <2>3, <2>4, <2>5, <2>7, PrintsTypes
<1>8. CASE Unsigned
  <2>1. PICK ch \in DOMAIN Base, v \in Ints(lflag) :
          /\ Converts(ch)
          /\ Prints(<<>>, getuint(v), Base[ch], width, padc)
          /\ args' = Append(args, v)
    BY <1>8 DEF Unsigned
  <2>2. v \in IntArgs \cup LongArgs
    BY DEF Ints
  <2>3. args' \in Seq(Args)
    BY <1>3, <2>1, <2>2, ArgTypes
  <2>4. ch \in {"u", "o", "x"} /\ Base[ch] \in {8, 10, 16}
    BY DEF Base
  <2>5. p' \in 1..(Len(fmt) + 1)
    BY <2>1, <2>4, ConvertsOn, LiteralsAreChars
  <2>6. screen' \in Seq(Char) /\ shown' \in Nat /\ [BufNext]_bufVars
    BY <1>2, <1>8 DEF Unsigned
  <2>7. getuint(v) \in -1 .. Mod(LongBits) - 1
    <3>1. getuint(v) \in 0..(Mod(LongBits) - 1)
      BY <2>2, ArgRanges, ArgTypes DEF getuint, Bits
    <3>2. QED
      BY <3>1
  <2>8. QED
    BY <1>1, <1>4, <2>1, <2>3, <2>4, <2>5, <2>6, <2>7, PrintsTypes
<1>9. CASE Pointer_p
  <2>1. PICK v \in LongArgs :
          /\ Prints(<<"0", "x">>, v % Mod(LongBits), 16, width, padc)
          /\ args' = Append(args, v)
    BY <1>9 DEF Pointer_p
  <2>2. args' \in Seq(Args)
    BY <1>3, <2>1, ArgTypes
  <2>3. p' \in 1..(Len(fmt) + 1)
    BY <1>9, ConvertsOn, LiteralsAreChars DEF Pointer_p
  <2>4. screen' \in Seq(Char) /\ shown' \in Nat /\ [BufNext]_bufVars
    BY <1>2, <1>9 DEF Pointer_p
  <2>5. v % Mod(LongBits) \in -1 .. Mod(LongBits) - 1
    <3>1. v % Mod(LongBits) \in 0..(Mod(LongBits) - 1)
      BY ArgRanges, ArgTypes
    <3>2. QED
      BY <3>1
  <2>6. <<"0", "x">> \in Seq(Char)
    BY LiteralsAreChars
  <2>7. QED
    BY <1>1, <2>1, <2>2, <2>3, <2>4, <2>5, <2>6, PrintsTypes
<1>10. CASE Percent
  <2>1. putch("%") /\ pc' = "text" /\ UNCHANGED <<via, fmt, flags, q, numVars>> /\ args' = args
    BY <1>10 DEF Percent
  <2>2. p' \in 1..(Len(fmt) + 1)
    BY <1>10, ConvertsOn, LiteralsAreChars DEF Percent
  <2>3. QED
    BY <1>1, <2>1, <2>2, LiteralsAreChars, PutchConverts
<1>11. CASE String
  <2>1. PICK s \in StrArgs \cup {NullPtr} :
          q' = (IF s = NullPtr THEN Null ELSE s) /\ args' = Append(args, s)
    BY <1>11 DEF String
  <2>2. args' \in Seq(Args) /\ q' \in Seq(Char)
    BY <1>3, <2>1, FmtAssumption, LiteralAssumption DEF Args
  <2>3. p' \in 1..(Len(fmt) + 1)
    BY <1>11, ConvertsOn, LiteralsAreChars DEF String
  <2>4. screen' \in Seq(Char) /\ shown' \in Nat /\ [BufNext]_bufVars
    BY <1>2, <1>11 DEF String
  <2>5. strnlen(q', precision) \in Int
    <3>1. Len(q') \in Nat
      BY <2>2
    <3>2. QED
      BY <1>1, <3>1 DEF strnlen, Least
  <2>6. width' \in Int /\ pc' \in {"lead", "chars"}
    BY <1>1, <1>11, <2>5 DEF String
  <2>7. FmtTypeOK'
    BY <1>1, <1>11, <2>2, <2>3, <2>4, <2>6 DEF FmtTypeOK, String, numVars
  <2>8. QED
    BY <2>2, <2>4, <2>6, <2>7, Outside
<1>12. CASE Default
  <2>1. p' \in 1..(Len(fmt) + 1)
    <3>1. p' \in 2..p
      BY <1>12, DefaultBack
    <3>2. p \in 1..(Len(fmt) + 1)
      BY <1>1 DEF FmtTypeOK
    <3>3. QED
      BY <1>1, <3>1, <3>2
  <2>2. putch("%") /\ pc' = "text" /\ UNCHANGED <<via, fmt, flags, q, numVars>> /\ args' = args
    BY <1>12 DEF Default
  <2>3. QED
    BY <1>1, <2>1, <2>2, LiteralsAreChars, PutchConverts
<1>13. QED
  BY <1>5, <1>6, <1>7, <1>8, <1>9, <1>10, <1>11, <1>12 DEF Convert

\* What a division by the base leaves and what it takes.
LEMMA DoDiv ==
  ASSUME FmtTypeOK, num >= 0
  PROVE  /\ base \in Nat \ {0, 1} /\ num \in Nat
         /\ do_div(num, base).n = num \div base /\ do_div(num, base).res = num % base
         /\ num \div base \in 0..num /\ num % base \in 0..15
         /\ num \div base \in 0..(Mod(LongBits) - 1)
<1>1. PICK M \in Nat \ {0} : M = Mod(LongBits)
  BY NumberTypes
<1>2. num \in 0..(M - 1) /\ base \in {8, 10, 16}
  BY <1>1 DEF FmtTypeOK
<1>3. PICK n \in 0..(M - 1), b \in 2..16 : n = num /\ b = base
  BY <1>2
<1>4. n % M = n
  OBVIOUS
<1>5. n \div b \in 0..n /\ n % b \in 0..(b - 1)
  OBVIOUS
<1>6. PICK d, r : d = n \div b /\ r = n % b
  OBVIOUS
<1>7. do_div(num, base).n = d /\ do_div(num, base).res = r
  BY <1>1, <1>3, <1>4, <1>6 DEF do_div
<1>8. QED
  BY <1>1, <1>3, <1>5, <1>6, <1>7

LEMMA StepPrint ==
  ASSUME TInv, MoreDigits \/ PadNumber \/ FirstDigit \/ Emit \/ Lead \/ Chars \/ Trail
  PROVE  Step
<1>1. /\ FmtTypeOK /\ args \in Seq(Args) /\ fmt \in Seq(Char)
      /\ width \in Int /\ precision \in Int /\ padc \in Char
      /\ q \in Seq(Char) /\ pending \in Seq(Char) /\ base \in {8, 10, 16}
  BY LiteralsAreChars DEF TInv, FmtTypeOK
<1>2. ASSUME UNCHANGED outVars PROVE screen' \in Seq(Char) /\ shown' \in Nat /\ [BufNext]_bufVars
  BY <1>1, <1>2, Unprinted
<1>3. ASSUME NEW ch \in Char, putch(ch)
      PROVE  screen' \in Seq(Char) /\ shown' \in Nat /\ [BufNext]_bufVars
  BY <1>1, <1>3, PutchTypes
<1>4. ASSUME num >= 0
      PROVE  <<Digit[do_div(num, base).res + 1]>> \o pending \in Seq(Char)
  <2>1. PICK ch \in Char : ch = Digit[do_div(num, base).res + 1]
    <3>1. PICK r \in 0..15 : r = do_div(num, base).res
      BY <1>1, <1>4, DoDiv
    <3>2. Digit[r + 1] \in Char
      BY DigitIsChar
    <3>3. QED
      BY <3>1, <3>2
  <2>2. <<ch>> \in Seq(Char)
    OBVIOUS
  <2>3. QED
    BY <1>1, <2>1, <2>2, ConcatProperties
<1>5. CASE MoreDigits
  <2>1. num >= 0 /\ pc' = "num"
    BY <1>1, <1>5 DEF MoreDigits, FmtTypeOK
  <2>2. pending' \in Seq(Char)
    BY <1>4, <1>5, <2>1 DEF MoreDigits
  <2>3. num' \in -1 .. Mod(LongBits) - 1
    BY <1>1, <1>5, <2>1, DoDiv DEF MoreDigits
  <2>4. screen' \in Seq(Char) /\ shown' \in Nat /\ [BufNext]_bufVars
    BY <1>2, <1>5 DEF MoreDigits
  <2>5. FmtTypeOK'
    BY <1>1, <1>5, <2>2, <2>3, <2>4 DEF FmtTypeOK, MoreDigits
  <2>6. num \div base >= 0
    BY <1>1, <2>1, DoDiv
  <2>7. Printing'
    BY <1>1, <1>5, <2>1, <2>6, DoDiv DEF Printing, MoreDigits
  <2>8. QED
    BY <1>1, <1>5, <2>1, <2>4, <2>5, <2>7, InNumberOrName DEF MoreDigits
<1>6. CASE PadNumber
  <2>1. screen' \in Seq(Char) /\ shown' \in Nat /\ [BufNext]_bufVars
    BY <1>1, <1>3, <1>6 DEF PadNumber
  <2>2. FmtTypeOK'
    BY <1>1, <1>6, <2>1 DEF FmtTypeOK, PadNumber, numVars
  <2>3. QED
    BY <1>1, <1>6, <2>1, <2>2, InNumberOrName DEF PadNumber, numVars, TInv, Printing
<1>7. CASE FirstDigit
  <2>1. screen' \in Seq(Char) /\ shown' \in Nat /\ [BufNext]_bufVars
    BY <1>2, <1>7 DEF FirstDigit
  <2>2. pending' \in Seq(Char)
    BY <1>4, <1>7 DEF FirstDigit, TInv, Printing
  <2>3. num' \in -1 .. Mod(LongBits) - 1
    BY <1>7, NumberTypes DEF FirstDigit
  <2>4. FmtTypeOK'
    BY <1>1, <1>7, <2>1, <2>2, <2>3 DEF FmtTypeOK, FirstDigit, flags
  <2>5. pending' # <<>>
    <3>1. PICK ch \in Char, s \in Seq(Char) : pending' = <<ch>> \o s
      <4>1. num >= 0
        BY <1>7 DEF FirstDigit, TInv, Printing
      <4>2. PICK r \in 0..15 : r = do_div(num, base).res
        BY <1>1, <4>1, DoDiv
      <4>3. Digit[r + 1] \in Char
        BY DigitIsChar
      <4>4. pending' = <<Digit[r + 1]>> \o pending
        BY <1>7, <4>2 DEF FirstDigit
      <4>5. QED
        BY <1>1, <4>3, <4>4
    <3>2. <<ch>> \in Seq(Char) /\ Len(<<ch>>) = 1 /\ Len(s) \in Nat
      OBVIOUS
    <3>3. Len(<<ch>> \o s) = Len(<<ch>>) + Len(s)
      BY <3>2, ConcatProperties
    <3>4. QED
      BY <3>1, <3>2, <3>3, EmptySeq
  <2>6. Printing' /\ pc' = "emit"
    BY <1>7, <2>5 DEF FirstDigit, Printing
  <2>7. QED
    BY <1>1, <1>7, <2>1, <2>4, <2>6, InNumberOrName DEF FirstDigit
<1>8. CASE Emit
  <2>1. Head(pending) \in Char /\ Tail(pending) \in Seq(Char)
    BY <1>1, <1>8, HeadTailProperties DEF TInv, Printing, Emit
  <2>2. screen' \in Seq(Char) /\ shown' \in Nat /\ [BufNext]_bufVars
    BY <1>3, <1>8, <2>1 DEF Emit
  <2>3. FmtTypeOK'
    BY <1>1, <1>8, <2>1, <2>2 DEF FmtTypeOK, Emit, flags, After
  <2>4. QED
    BY <1>1, <1>8, <2>2, <2>3, InNumberOrName DEF Emit, After, Printing
<1>9. CASE Lead
  <2>1. screen' \in Seq(Char) /\ shown' \in Nat /\ [BufNext]_bufVars
    BY <1>1, <1>2, <1>3, <1>9 DEF Lead
  <2>2. width' \in Int /\ pc' \in {"lead", "chars"}
    BY <1>1, <1>9 DEF Lead
  <2>3. FmtTypeOK'
    BY <1>1, <1>9, <2>1, <2>2 DEF FmtTypeOK, Lead, numVars
  <2>4. QED
    BY <1>1, <1>9, <2>1, <2>2, <2>3, Outside DEF Lead
<1>10. CASE Chars
  <2>1. q # <<>> => Shown(Head(q)) \in Char /\ Tail(q) \in Seq(Char)
    BY <1>1, HeadTailProperties, LiteralsAreChars DEF Shown
  <2>2. screen' \in Seq(Char) /\ shown' \in Nat /\ [BufNext]_bufVars
    BY <1>2, <1>3, <1>10, <2>1 DEF Chars
  <2>3. width' \in Int /\ precision' \in Int /\ pc' \in {"chars", "trail"} /\ q' \in Seq(Char)
    <3>1. CASE q # <<>> /\ precision # 0
      <4>1. /\ q' = Tail(q) /\ width' = width - 1 /\ pc' = pc /\ pc = "chars"
            /\ precision' = IF precision < 0 THEN precision ELSE precision - 1
        BY <1>10, <3>1 DEF Chars
      <4>2. QED
        BY <1>1, <2>1, <3>1, <4>1
    <3>2. CASE ~(q # <<>> /\ precision # 0)
      BY <1>1, <1>10, <3>2 DEF Chars
    <3>3. QED
      BY <3>1, <3>2
  <2>4. FmtTypeOK'
    BY <1>1, <1>10, <2>2, <2>3 DEF FmtTypeOK, Chars, numVars
  <2>5. QED
    BY <1>1, <1>10, <2>2, <2>3, <2>4, Outside DEF Chars
<1>11. CASE Trail
  <2>1. screen' \in Seq(Char) /\ shown' \in Nat /\ [BufNext]_bufVars
    BY <1>2, <1>3, <1>11, LiteralsAreChars DEF Trail
  <2>2. width' \in Int /\ pc' \in {"trail", "text"} /\ q' \in Seq(Char)
    <3>1. CASE width > 0
      BY <1>1, <1>11, <3>1 DEF Trail
    <3>2. CASE ~(width > 0)
      BY <1>1, <1>11, <3>2, EmptySeq DEF Trail
    <3>3. QED
      BY <3>1, <3>2
  <2>3. FmtTypeOK'
    BY <1>1, <1>11, <2>1, <2>2 DEF FmtTypeOK, Trail, numVars
  <2>4. QED
    BY <1>1, <1>11, <2>1, <2>2, <2>3, Outside DEF Trail
<1>12. QED
  BY <1>5, <1>6, <1>7, <1>8, <1>9, <1>10, <1>11

LEMMA StepTypes == TInv /\ [Next]_vars => Step
<1> SUFFICES ASSUME TInv, [Next]_vars PROVE Step
  OBVIOUS
<1>1. CASE UNCHANGED vars
  <2>1. UNCHANGED <<outVars, via, fmt, p, pc, flags, q, numVars, args>>
    BY <1>1 DEF vars, fmtVars
  <2>2. FmtTypeOK' /\ args' \in Seq(Args) /\ UNCHANGED bufVars
    BY <2>1 DEF TInv, FmtTypeOK, outVars, consVars, flags, numVars
  <2>3. Escaping' /\ Printing'
    BY <2>1 DEF TInv, Escaping, Printing, numVars
  <2>4. QED
    BY <2>2, <2>3 DEF Step, TInv
<1>2. CASE Next
  BY <1>1, <1>2, StepText, StepEscape, StepConvert, StepPrint DEF Next, Done
<1>3. QED
  BY <1>1, <1>2

------------------------------------------------------------------------------
\* vsnprintf stores no character outside its buffer, and whatever the formatter
\* prints is a character, whatever the format, its arguments and the buffer.
THEOREM TypeCorrect == Spec => []TypeOK
<1>1. Init => TInv /\ BufInv
  BY InitTypes, InitBuf DEF Init
<1>2. (TInv /\ BufInv) /\ [Next]_vars => (TInv /\ BufInv)'
  BY StepTypes, StepBuf DEF Step
<1>3. TInv /\ BufInv => TypeOK
  BY DEF TInv, BufInv, TypeOK
<1>4. QED
  BY <1>1, <1>2, <1>3, PTL DEF Spec

\* Every step of the formatter is a step of the buffer, or leaves it alone:
\* vprintfmt stores what it prints through sprintputch, and nothing else.
THEOREM UsesTheBuffer == Spec => BufSpec
<1>1. Init => BufInit
  BY DEF Init
<1>2. TInv /\ [Next]_vars => TInv' /\ [BufNext]_bufVars
  BY StepTypes DEF Step
<1>3. QED
  BY InitTypes, <1>1, <1>2, PTL DEF Spec, BufSpec

\* The buffer holds the start of the text and its '\0', and vsnprintf returns
\* the text's whole length (printfmt.c:322).
THEOREM BufferHoldsText == Spec => []BufferContract
<1>1. BufInv => BufferContract
  BY DEF BufInv
<1>2. QED
  BY UsesTheBuffer, InitBuf, StepBuf, <1>1, PTL DEF BufSpec


HIDE BufAssumption

------------------------------------------------------------------------------
(***************************************************************************)
(* The meaning of a format.  First the parts of a text: padding, numerals, *)
(* the part of a string that is shown.                                     *)
(***************************************************************************)
LEMMA RepIs ==
  ASSUME NEW ch \in Char, NEW k \in Int
  PROVE  /\ Rep(ch, k) \in Seq(Char)
         /\ Len(Rep(ch, k)) = IF k <= 0 THEN 0 ELSE k
         /\ \A i \in 1..k : Rep(ch, k)[i] = ch
<1>1. CASE k <= 0
  <2>1. 1..k = {} /\ 1..0 = {}
    BY <1>1
  <2>2. Rep(ch, k) = [i \in 1..0 |-> ch]
    BY <2>1 DEF Rep
  <2>3. Rep(ch, k) \in [1..0 -> Char]
    BY <2>2
  <2>4. QED
    BY <1>1, <2>1, <2>2, <2>3, SeqDef
<1>2. CASE k > 0
  <2>1. k \in Nat /\ Rep(ch, k) = [i \in 1..k |-> ch]
    BY <1>2 DEF Rep
  <2>2. QED
    BY <1>2, <2>1
<1>3. QED
  BY <1>1, <1>2

LEMMA RepNone ==
  ASSUME NEW ch \in Char, NEW k \in Int, k <= 0
  PROVE  Rep(ch, k) = <<>>
BY RepIs, EmptySeq

LEMMA OneChar ==
  ASSUME NEW ch \in Char
  PROVE  <<ch>> \in Seq(Char) /\ Len(<<ch>>) = 1 /\ <<ch>>[1] = ch
OBVIOUS

\* A sequence that begins with ch and goes on as s.
LEMMA FirstThen ==
  ASSUME NEW ch \in Char, NEW s \in Seq(Char), NEW r \in Seq(Char),
         Len(r) = Len(s) + 1, r[1] = ch, \A i \in 1..Len(s) : r[i + 1] = s[i]
  PROVE  r = <<ch>> \o s
<1>1. PICK t \in Seq(Char) : t = <<ch>> /\ Len(t) = 1 /\ t[1] = ch
  BY OneChar
<1>2. PICK n \in Nat : n = Len(s)
  OBVIOUS
<1>3. /\ t \o s \in Seq(Char) /\ Len(t \o s) = n + 1
      /\ \A i \in 1..(1 + n) : (t \o s)[i] = IF i <= 1 THEN t[i] ELSE s[i - 1]
  BY <1>1, <1>2, ConcatProperties
<1>4. \A i \in 1..(n + 1) : (t \o s)[i] = r[i]
  <2> SUFFICES ASSUME NEW i \in 1..(n + 1) PROVE (t \o s)[i] = r[i]
    OBVIOUS
  <2>1. CASE i = 1
    BY <1>1, <1>2, <1>3, <2>1
  <2>2. CASE i # 1
    <3>1. PICK k \in 1..n : i = k + 1
      <4>1. i - 1 \in 1..n /\ i = (i - 1) + 1
        BY <1>2, <2>2
      <4>2. QED
        BY <4>1
    <3>2. i - 1 = k /\ i > 1
      BY <3>1
    <3>3. QED
      BY <1>2, <1>3, <3>1, <3>2
  <2>3. QED
    BY <2>1, <2>2
<1>5. QED
  BY <1>1, <1>2, <1>3, <1>4, SeqEqual

\* A sequence that ends with ch behind s.
LEMMA ThenLast ==
  ASSUME NEW ch \in Char, NEW s \in Seq(Char), NEW r \in Seq(Char),
         Len(r) = Len(s) + 1, r[Len(s) + 1] = ch, \A i \in 1..Len(s) : r[i] = s[i]
  PROVE  r = s \o <<ch>>
<1>1. PICK t \in Seq(Char) : t = <<ch>> /\ Len(t) = 1 /\ t[1] = ch
  BY OneChar
<1>2. PICK n \in Nat : n = Len(s)
  OBVIOUS
<1>3. /\ s \o t \in Seq(Char) /\ Len(s \o t) = n + 1
      /\ \A i \in 1..(n + 1) : (s \o t)[i] = IF i <= n THEN s[i] ELSE t[i - n]
  BY <1>1, <1>2, ConcatProperties
<1>4. \A i \in 1..(n + 1) : (s \o t)[i] = r[i]
  <2> SUFFICES ASSUME NEW i \in 1..(n + 1) PROVE (s \o t)[i] = r[i]
    OBVIOUS
  <2>1. CASE i <= n
    BY <1>2, <1>3, <2>1
  <2>2. CASE ~(i <= n)
    <3>1. i = n + 1 /\ i - n = 1
      BY <2>2
    <3>2. QED
      BY <1>1, <1>2, <1>3, <2>2, <3>1
  <2>3. QED
    BY <2>1, <2>2
<1>5. QED
  BY <1>1, <1>2, <1>3, <1>4, SeqEqual

LEMMA RepFirst ==
  ASSUME NEW ch \in Char, NEW k \in Int, k > 0
  PROVE  Rep(ch, k) = <<ch>> \o Rep(ch, k - 1)
<1>1. PICK m \in Nat : m = k - 1
  OBVIOUS
<1>2. PICK s \in Seq(Char) : s = Rep(ch, m)
  BY RepIs
<1>3. Len(s) = m /\ (\A i \in 1..m : s[i] = ch)
  BY <1>2, RepIs
<1>4. PICK r \in Seq(Char) : r = Rep(ch, k)
  BY RepIs
<1>5. Len(r) = m + 1 /\ (\A i \in 1..(m + 1) : r[i] = ch)
  <2>1. k = m + 1 /\ ~(k <= 0)
    BY <1>1
  <2>2. Len(r) = k /\ (\A i \in 1..k : r[i] = ch)
    BY <1>4, <2>1, RepIs
  <2>3. QED
    BY <2>1, <2>2
<1>6. r[1] = ch /\ \A i \in 1..m : r[i + 1] = s[i]
  BY <1>3, <1>5
<1>7. r = <<ch>> \o s
  BY <1>3, <1>5, <1>6, FirstThen
<1>8. QED
  BY <1>1, <1>2, <1>4, <1>7


LEMMA NumeralIs ==
  ASSUME NEW v \in Nat, NEW B \in 2..16
  PROVE  /\ Numeral(v, B) \in Seq(Char) /\ Len(Numeral(v, B)) = Places(v, B)
         /\ \A i \in 1..Places(v, B) :
              Numeral(v, B)[i] = Digit[((v \div Power(B)[Places(v, B) - i]) % B) + 1]
<1> USE DEF Numeral
<1>1. B \in Nat \ {0, 1}
  OBVIOUS
<1>2. PICK k \in Nat \ {0} : k = Places(v, B)
  BY <1>1, PlacesExist
<1>3. ASSUME NEW i \in 1..k PROVE Digit[((v \div Power(B)[k - i]) % B) + 1] \in Char
  <2>1. PICK m \in Nat : m = k - i
    BY <1>3
  <2>2. Power(B)[m] \in Nat /\ Power(B)[m] > m
    BY <1>1, PowerSteps, PowerGrows
  <2>3. PICK P \in Nat \ {0} : P = Power(B)[m]
    BY <2>2
  <2>4. PICK d : d = v \div P
    OBVIOUS
  <2>5. d \in Nat
    BY <2>4
  <2>6. PICK r : r = d % B
    OBVIOUS
  <2>7. r \in 0..15
    BY <2>5, <2>6
  <2>8. Digit[r + 1] \in Char
    BY <2>7, DigitIsChar
  <2>9. QED
    BY <2>1, <2>3, <2>4, <2>6, <2>8
<1>4. PICK s : s = Numeral(v, B)
  OBVIOUS
<1>5. s = [i \in 1..k |-> Digit[((v \div Power(B)[k - i]) % B) + 1]]
  BY <1>2, <1>4
<1>6. s \in Seq(Char) /\ Len(s) = k
  BY <1>3, <1>5
<1>7. QED
  BY <1>2, <1>4, <1>5, <1>6

\* A number below the base is one digit.
LEMMA NumeralOfDigit ==
  ASSUME NEW B \in 2..16, NEW v \in 0..(B - 1)
  PROVE  Numeral(v, B) = <<Digit[v + 1]>>
<1>1. B \in Nat \ {0, 1} /\ v \in Nat /\ v < B
  OBVIOUS
<1>2. Places(v, B) = 1
  BY <1>1, OnePlace
<1>3. PICK s \in Seq(Char) : s = Numeral(v, B)
  BY <1>1, NumeralIs
<1>4. \A i \in 1..1 : s[i] = Digit[((v \div Power(B)[1 - i]) % B) + 1]
  BY <1>1, <1>2, <1>3, NumeralIs, ZenonT(30)
<1>5. Len(s) = 1 /\ s[1] = Digit[((v \div Power(B)[1 - 1]) % B) + 1]
  <2>1. Len(s) = 1
    BY <1>1, <1>2, <1>3, NumeralIs
  <2>2. 1 \in 1..1
    OBVIOUS
  <2>3. QED
    BY <1>4, <2>1, <2>2
<1>6. Power(B)[1 - 1] = 1
  <2>1. PICK z \in Nat : z = 1 - 1
    OBVIOUS
  <2>2. z = 0
    BY <2>1
  <2>3. QED
    BY <1>1, <2>1, <2>2, PowerSteps
<1>7. (v \div 1) % B = v
  <2>1. v \div 1 = v
    BY <1>1
  <2>2. v % B = v
    BY <1>1
  <2>3. QED
    BY <2>1, <2>2
<1>8. s[1] = Digit[v + 1]
  BY <1>5, <1>6, <1>7
<1>9. Digit[v + 1] \in Char
  <2>1. v + 1 \in 1..16
    BY <1>1
  <2>2. QED
    BY <2>1, DigitIsChar
<1>10. PICK c \in Char : c = Digit[v + 1]
  BY <1>9
<1>11. PICK t \in Seq(Char) : t = <<c>> /\ Len(t) = 1 /\ t[1] = c
  BY OneChar
<1>12. \A i \in 1..1 : s[i] = t[i]
  BY <1>8, <1>10, <1>11
<1>13. s = t
  BY <1>5, <1>11, <1>12, SeqEqual
<1>14. QED
  BY <1>3, <1>10, <1>11, <1>13

\* The last digit is the remainder, those before it are the quotient's.
LEMMA NumeralOfMore ==
  ASSUME NEW B \in 2..16, NEW v \in Nat, v >= B
  PROVE  Numeral(v, B) = Numeral(v \div B, B) \o <<Digit[(v % B) + 1]>>
<1>1. B \in Nat \ {0, 1} /\ B \in Nat \ {0}
  OBVIOUS
<1>2. PICK q0 \in Nat : q0 = v \div B
  BY <1>1, Division
<1>3. PICK k \in Nat \ {0} : k = Places(q0, B)
  BY <1>1, PlacesExist
<1>4. Places(v, B) = k + 1
  BY <1>1, <1>2, <1>3, OnePlaceMore
<1>5. PICK t \in Seq(Char) : t = Numeral(q0, B)
  BY NumeralIs
<1>6. PICK s \in Seq(Char) : s = Numeral(v, B)
  BY NumeralIs
<1>7. /\ Len(s) = k + 1
      /\ \A i \in 1..(k + 1) : s[i] = Digit[((v \div Power(B)[k + 1 - i]) % B) + 1]
  <2>1. /\ Len(s) = Places(v, B)
        /\ \A i \in 1..Places(v, B) :
             s[i] = Digit[((v \div Power(B)[Places(v, B) - i]) % B) + 1]
    BY <1>6, NumeralIs
  <2>2. QED
    BY <1>4, <2>1
<1>8. /\ Len(t) = k
      /\ \A i \in 1..k : t[i] = Digit[((q0 \div Power(B)[k - i]) % B) + 1]
  BY <1>3, <1>5, NumeralIs
<1>9. PICK d \in Char : d = Digit[(v % B) + 1]
  <2>1. PICK r : r = v % B
    OBVIOUS
  <2>2. r \in 0..15
    BY <2>1
  <2>3. Digit[r + 1] \in Char
    <3>1. r + 1 \in 1..16
      BY <2>2
    <3>2. QED
      BY <3>1, DigitIsChar
  <2>4. QED
    BY <2>1, <2>3
<1>10. s[k + 1] = d
  <2>1. PICK z \in Nat : z = k + 1 - (k + 1)
    OBVIOUS
  <2>2. Power(B)[z] = 1
    <3>1. z = 0
      BY <2>1
    <3>2. QED
      BY <1>1, <3>1, PowerSteps
  <2>3. v \div 1 = v
    OBVIOUS
  <2>4. s[k + 1] = Digit[((v \div Power(B)[z]) % B) + 1]
    BY <1>7, <2>1
  <2>5. QED
    BY <1>9, <2>2, <2>3, <2>4
<1>11. ASSUME NEW i \in 1..k PROVE s[i] = t[i]
  <2>1. PICK m \in Nat : m = k - i
    BY <1>11
  <2>2. Power(B)[m] \in Nat /\ Power(B)[m] > m
    BY <1>1, PowerSteps, PowerGrows
  <2>3. PICK P \in Nat \ {0} : P = Power(B)[m]
    BY <2>2
  <2>4. k + 1 - i = m + 1
    BY <1>11, <2>1
  <2>5. Power(B)[m + 1] = P * B
    BY <1>1, <2>3, PowerSteps
  <2>6. v \div (P * B) = q0 \div P
    BY <1>1, <1>2, DivideTwice
  <2>7. s[i] = Digit[((v \div (P * B)) % B) + 1]
    <3>1. i \in 1..(k + 1)
      BY <1>11
    <3>2. s[i] = Digit[((v \div Power(B)[k + 1 - i]) % B) + 1]
      BY <1>7, <3>1
    <3>3. QED
      BY <2>4, <2>5, <3>2
  <2>8. t[i] = Digit[((q0 \div P) % B) + 1]
    BY <1>8, <1>11, <2>1, <2>3
  <2>9. QED
    BY <2>6, <2>7, <2>8
<1>12. s = t \o <<d>>
  BY <1>7, <1>8, <1>10, <1>11, ThenLast
<1>13. QED
  BY <1>2, <1>5, <1>6, <1>9, <1>12

LEMMA AppendBehind ==
  ASSUME NEW s \in Seq(Args), NEW t \in Seq(Args), NEW v \in Args
  PROVE  Append(s \o t, v) = s \o Append(t, v)
<1>1. PICK c \in Seq(Args) : c = <<v>>
  <2>1. <<v>> \in Seq(Args)
    BY EmptySeq, AppendProperties
  <2>2. QED
    BY <2>1
<1>2. s \o t \in Seq(Args)
  BY ConcatProperties
<1>3. Append(s \o t, v) = (s \o t) \o c /\ Append(t, v) = t \o c
  BY <1>1, <1>2, AppendIsConcat
<1>4. (s \o t) \o c = s \o (t \o c)
  BY ConcatAssociative
<1>5. QED
  BY <1>3, <1>4

\* Printing the first character of what is left of an item.
LEMMA OneLess ==
  ASSUME NEW out \in Seq(Char), NEW ch \in Char, NEW r \in Seq(Char)
  PROVE  /\ Append(out, ch) \in Seq(Char)
         /\ Append(out, ch) \o r = out \o (<<ch>> \o r)
<1>1. Append(out, ch) = out \o <<ch>> /\ Append(out, ch) \in Seq(Char)
  BY AppendIsConcat, AppendProperties
<1>2. PICK t \in Seq(Char) : t = <<ch>>
  BY OneChar
<1>3. (out \o t) \o r = out \o (t \o r)
  BY ConcatAssociative
<1>4. QED
  BY <1>1, <1>2, <1>3

LEMMA LeftPadIs ==
  ASSUME NEW s \in Seq(Char), NEW w \in Int, NEW pad \in Char
  PROVE  /\ LeftPad(s, w, pad) \in Seq(Char)
         /\ w <= Len(s) => LeftPad(s, w, pad) = s
         /\ w > Len(s) => LeftPad(s, w, pad) = <<pad>> \o LeftPad(s, w - 1, pad)
<1>1. PICK n \in Nat : n = Len(s)
  OBVIOUS
<1>2. Rep(pad, w - n) \in Seq(Char) /\ Rep(pad, (w - 1) - n) \in Seq(Char)
  <2>1. w - n \in Int /\ (w - 1) - n \in Int
    OBVIOUS
  <2>2. QED
    BY <2>1, RepIs
<1>3. LeftPad(s, w, pad) = Rep(pad, w - n) \o s
      /\ LeftPad(s, w - 1, pad) = Rep(pad, (w - 1) - n) \o s
  BY <1>1 DEF LeftPad
<1>4. LeftPad(s, w, pad) \in Seq(Char)
  BY <1>2, <1>3, ConcatProperties
<1>5. ASSUME w <= n PROVE LeftPad(s, w, pad) = s
  <2>1. w - n \in Int /\ w - n <= 0
    BY <1>5
  <2>2. Rep(pad, w - n) = <<>>
    BY <2>1, RepNone
  <2>3. QED
    BY <1>3, <2>2, ConcatEmptySeq
<1>6. ASSUME w > n PROVE LeftPad(s, w, pad) = <<pad>> \o LeftPad(s, w - 1, pad)
  <2>1. PICK k \in Int : k = w - n
    OBVIOUS
  <2>2. k > 0 /\ k - 1 = (w - 1) - n
    BY <1>6, <2>1
  <2>3. Rep(pad, k) = <<pad>> \o Rep(pad, k - 1)
    BY <2>2, RepFirst
  <2>4. PICK r \in Seq(Char) : r = Rep(pad, k - 1)
    BY <1>2, <2>2
  <2>5. PICK t \in Seq(Char) : t = <<pad>>
    BY OneChar
  <2>6. (t \o r) \o s = t \o (r \o s)
    BY ConcatAssociative
  <2>7. QED
    BY <1>3, <2>1, <2>2, <2>3, <2>4, <2>5, <2>6
<1>7. QED
  BY <1>1, <1>4, <1>5, <1>6

\* A longer text is padded like its beginning, in less width.
LEMMA LeftPadMore ==
  ASSUME NEW s \in Seq(Char), NEW d \in Char, NEW w \in Int, NEW pad \in Char
  PROVE  LeftPad(s \o <<d>>, w, pad) = LeftPad(s, w - 1, pad) \o <<d>>
<1>1. PICK n \in Nat : n = Len(s)
  OBVIOUS
<1>2. PICK t \in Seq(Char) : t = <<d>> /\ Len(t) = 1
  BY OneChar
<1>3. Len(s \o t) = n + 1
  BY <1>1, <1>2, ConcatProperties
<1>4. w - (n + 1) = (w - 1) - n /\ w - (n + 1) \in Int
  OBVIOUS
<1>5. PICK r \in Seq(Char) : r = Rep(pad, w - (n + 1))
  BY <1>4, RepIs
<1>6. r \o (s \o t) = (r \o s) \o t
  BY ConcatAssociative, SMTT(30)
<1>7. LeftPad(s \o t, w, pad) = r \o (s \o t)
  BY <1>3, <1>5 DEF LeftPad
<1>8. LeftPad(s, w - 1, pad) = r \o s
  BY <1>1, <1>4, <1>5 DEF LeftPad
<1>9. QED
  BY <1>2, <1>6, <1>7, <1>8

\* Whatever a negative width is, it pads nothing.
LEMMA NoWidth ==
  ASSUME NEW s \in Seq(Char), NEW w \in Int, NEW v \in Int, NEW pad \in Char,
         w = v \/ (w < 0 /\ v < 0)
  PROVE  /\ LeftPad(s, w, pad) = LeftPad(s, v, pad)
         /\ Rep(pad, w - Len(s)) = Rep(pad, v - Len(s))
<1>1. CASE w = v
  BY <1>1
<1>2. CASE w < 0 /\ v < 0
  <2>1. Len(s) \in Nat
    OBVIOUS
  <2>2. w <= Len(s) /\ v <= Len(s) /\ w - Len(s) \in Int /\ v - Len(s) \in Int
        /\ w - Len(s) <= 0 /\ v - Len(s) <= 0
    BY <1>2, <2>1
  <2>3. LeftPad(s, w, pad) = s /\ LeftPad(s, v, pad) = s
    BY <2>2, LeftPadIs
  <2>4. Rep(pad, w - Len(s)) = <<>> /\ Rep(pad, v - Len(s)) = <<>>
    BY <2>2, RepNone
  <2>5. QED
    BY <2>3, <2>4
<1>3. QED
  BY <1>1, <1>2

LEMMA PartIs ==
  ASSUME NEW s \in Seq(Char), NEW prc \in Int, NEW alt \in BOOLEAN
  PROVE  /\ Part(s, prc, alt) \in Seq(Char)
         /\ Len(Part(s, prc, alt)) = strnlen(s, prc)
         /\ strnlen(s, prc) \in Nat
         /\ \A i \in 1..strnlen(s, prc) :
              /\ i \in 1..Len(s)
              /\ Part(s, prc, alt)[i] = IF alt /\ s[i] \in Unprintable THEN "?" ELSE s[i]
<1>1. PICK n \in Nat : n = Len(s)
  OBVIOUS
<1>2. PICK k : k = strnlen(s, prc)
  OBVIOUS
<1>3. k \in 0..n /\ k = IF prc < 0 THEN Len(s) ELSE Least(Len(s), prc)
  BY <1>1, <1>2 DEF strnlen, Least
<1>4. PICK t : t = Part(s, prc, alt)
  OBVIOUS
<1>5. t = [i \in 1..k |-> IF alt /\ s[i] \in Unprintable THEN "?" ELSE s[i]]
  BY <1>3, <1>4 DEF Part
<1>6. ASSUME NEW i \in 1..k
      PROVE  i \in 1..n /\ (IF alt /\ s[i] \in Unprintable THEN "?" ELSE s[i]) \in Char
  <2>1. i \in 1..n
    BY <1>3, <1>6
  <2>2. s[i] \in Char
    BY <1>1, <2>1
  <2>3. "?" \in Char
    BY LiteralsAreChars
  <2>4. QED
    BY <2>1, <2>2, <2>3
<1>7. k \in Nat
  BY <1>3
<1>8. t \in Seq(Char) /\ Len(t) = k
  BY <1>5, <1>6, <1>7
<1>9. QED
  BY <1>1, <1>2, <1>4, <1>5, <1>6, <1>7, <1>8

\* The loop of %s: the first character, then the rest with one less to show.
LEMMA PartFirst ==
  ASSUME NEW s \in Seq(Char), NEW prc \in Int, NEW alt \in BOOLEAN, s # <<>>, prc # 0,
         NEW rest \in Int, rest = IF prc < 0 THEN prc ELSE prc - 1
  PROVE  /\ Tail(s) \in Seq(Char)
         /\ (IF alt /\ Head(s) \in Unprintable THEN "?" ELSE Head(s)) \in Char
         /\ Part(s, prc, alt) = <<IF alt /\ Head(s) \in Unprintable THEN "?" ELSE Head(s)>>
                                  \o Part(Tail(s), rest, alt)
         /\ Len(Part(s, prc, alt)) = Len(Part(Tail(s), rest, alt)) + 1
<1>1. PICK t \in Seq(Char) : t = Tail(s)
  BY HeadTailProperties
<1>2. Len(s) = Len(t) + 1 /\ Len(t) \in Nat /\ \A i \in 1..Len(t) : t[i] = s[i + 1]
  BY <1>1, HeadTailProperties, EmptySeq
<1>3. Head(s) = s[1] /\ s[1] \in Char
  <2>1. 1 \in 1..Len(s)
    BY <1>2
  <2>2. QED
    BY <2>1
<1>4. PICK c : c = IF alt /\ s[1] \in Unprintable THEN "?" ELSE s[1]
  OBVIOUS
<1>5. c \in Char
  BY <1>3, <1>4, LiteralsAreChars
<1>6. PICK a \in Seq(Char) : a = Part(s, prc, alt)
  BY PartIs
<1>7. PICK b \in Seq(Char) : b = Part(t, rest, alt)
  BY PartIs
<1>8. PICK k \in Nat : k = strnlen(t, rest)
  BY PartIs
<1>9. strnlen(s, prc) = k + 1
  BY <1>2, <1>8 DEF strnlen, Least
<1>10. /\ Len(a) = k + 1
       /\ \A i \in 1..(k + 1) : a[i] = IF alt /\ s[i] \in Unprintable THEN "?" ELSE s[i]
  <2>1. /\ Len(a) = strnlen(s, prc)
        /\ \A i \in 1..strnlen(s, prc) :
             a[i] = IF alt /\ s[i] \in Unprintable THEN "?" ELSE s[i]
    BY <1>6, PartIs
  <2>2. QED
    BY <1>9, <2>1
<1>11. /\ Len(b) = k
       /\ \A i \in 1..k : /\ i \in 1..Len(t)
                          /\ b[i] = IF alt /\ t[i] \in Unprintable THEN "?" ELSE t[i]
  BY <1>7, <1>8, PartIs
<1>12. a[1] = c
  <2>1. 1 \in 1..(k + 1)
    OBVIOUS
  <2>2. QED
    BY <1>4, <1>10, <2>1
<1>13. ASSUME NEW i \in 1..k PROVE a[i + 1] = b[i]
  <2>1. i + 1 \in 1..(k + 1) /\ i \in 1..Len(t)
    BY <1>11, <1>13
  <2>2. t[i] = s[i + 1]
    BY <1>2, <2>1
  <2>3. QED
    BY <1>10, <1>11, <1>13, <2>1, <2>2
<1>14. a = <<c>> \o b
  BY <1>5, <1>10, <1>11, <1>12, <1>13, FirstThen
<1>15. QED
  BY <1>1, <1>3, <1>4, <1>5, <1>6, <1>7, <1>10, <1>11, <1>14

LEMMA PartEnds ==
  ASSUME NEW s \in Seq(Char), NEW prc \in Int, NEW alt \in BOOLEAN, s = <<>> \/ prc = 0
  PROVE  Part(s, prc, alt) = <<>>
<1>1. strnlen(s, prc) = 0
  <2>1. Len(s) \in Nat /\ (s = <<>> => Len(s) = 0)
    BY EmptySeq
  <2>2. QED
    BY <2>1 DEF strnlen, Least
<1>2. PICK t \in Seq(Char) : t = Part(s, prc, alt) /\ Len(t) = 0
  BY <1>1, PartIs
<1>3. QED
  BY <1>2, EmptySeq

------------------------------------------------------------------------------
(***************************************************************************)
(* Items one after the other.                                              *)
(***************************************************************************)
LEMMA ConcatSteps ==
  ASSUME NEW x
  PROVE  /\ Concat(x)[0] = <<>>
         /\ \A i \in Nat : Concat(x)[i + 1] = Concat(x)[i] \o x[i]
<1> DEFINE Runs(k, g) == /\ g = [i \in 0..k |-> g[i]] /\ g[0] = <<>>
                         /\ \A i \in 0..(k - 1) : g[i + 1] = g[i] \o x[i]
           Has == {k \in Nat : \E g : Runs(k, g)}
           Is(T) == T = [j \in Nat |-> IF j = 0 THEN <<>> ELSE T[j - 1] \o x[j - 1]]
<1>1. 0 \in Has
  <2>1. PICK g : g = [i \in 0..0 |-> <<>>]
    OBVIOUS
  <2>2. g = [i \in 0..0 |-> g[i]] /\ g[0] = <<>>
    BY <2>1
  <2>3. QED
    BY <2>2
<1>2. \A k \in Nat : k \in Has => k + 1 \in Has
  <2> SUFFICES ASSUME NEW k \in Nat, k \in Has PROVE k + 1 \in Has
    OBVIOUS
  <2>1. PICK g : Runs(k, g)
    OBVIOUS
  <2>2. PICK u : u = g[k] \o x[k]
    OBVIOUS
  <2>3. PICK e : e = [i \in 0..(k + 1) |-> IF i <= k THEN g[i] ELSE u]
    OBVIOUS
  <2>4. (\A i \in 0..k : e[i] = g[i]) /\ e[k + 1] = u /\ e = [i \in 0..(k + 1) |-> e[i]]
    BY <2>3
  <2>5. e[0] = <<>>
    BY <2>1, <2>4
  <2>6. ASSUME NEW i \in 0..k PROVE e[i + 1] = e[i] \o x[i]
    <3>1. CASE i = k
      BY <3>1, <2>2, <2>4
    <3>2. CASE i # k
      <4>1. i \in 0..(k - 1) /\ i + 1 \in 0..k
        BY <3>2
      <4>2. g[i + 1] = g[i] \o x[i]
        BY <4>1, <2>1
      <4>3. QED
        BY <4>1, <4>2, <2>4
    <3>3. QED
      BY <3>1, <3>2
  <2>7. \A i \in 0..((k + 1) - 1) : e[i + 1] = e[i] \o x[i]
    <3>1. (k + 1) - 1 = k
      OBVIOUS
    <3>2. QED
      BY <2>6, <3>1
  <2>8. QED
    BY <2>4, <2>5, <2>7
<1>3. \A k \in Nat : \E g : Runs(k, g)
  <2>1. \A k \in Nat : k \in Has
    BY <1>1, <1>2, SetInduction
  <2>2. QED
    BY <2>1
<1> DEFINE G(k) == CHOOSE g : Runs(k, g)
<1>4. \A k \in Nat : Runs(k, G(k))
  BY <1>3
<1> HIDE DEF G
<1>5. ASSUME NEW k \in Nat PROVE \A i \in 0..k : G(k)[i] = G(k + 1)[i]
  <2>1. PICK g, e : g = G(k) /\ e = G(k + 1)
    OBVIOUS
  <2>2. Runs(k, g) /\ Runs(k + 1, e)
    BY <1>4, <2>1
  <2> DEFINE S == {i \in Nat : i <= k => g[i] = e[i]}
  <2>3. 0 \in S
    BY <2>2
  <2>4. ASSUME NEW i \in Nat, i \in S PROVE i + 1 \in S
    <3> SUFFICES ASSUME i + 1 <= k PROVE g[i + 1] = e[i + 1]
      OBVIOUS
    <3>1. i \in 0..(k - 1) /\ i \in 0..((k + 1) - 1) /\ g[i] = e[i]
      BY <2>4
    <3>2. g[i + 1] = g[i] \o x[i] /\ e[i + 1] = e[i] \o x[i]
      BY <2>2, <3>1
    <3>3. QED
      BY <3>1, <3>2
  <2>5. \A i \in Nat : i \in S
    BY <2>3, <2>4, SetInduction
  <2>6. QED
    BY <2>1, <2>5
<1> DEFINE h(i) == IF i = 0 THEN <<>> ELSE G(i - 1)[i - 1] \o x[i - 1]
<1>6. PICK T : T = [k \in Nat |-> G(k)[k]]
  OBVIOUS
<1>7. T[0] = <<>>
  BY <1>4, <1>6
<1>8. ASSUME NEW i \in Nat PROVE T[i + 1] = T[i] \o x[i]
  <2>1. PICK g, e : g = G(i) /\ e = G(i + 1)
    OBVIOUS
  <2>2. Runs(i + 1, e)
    BY <1>4, <2>1, SMTT(30)
  <2>3. i \in 0..((i + 1) - 1) /\ i \in 0..i
    OBVIOUS
  <2>4. e[i + 1] = e[i] \o x[i]
    BY <2>2, <2>3
  <2>5. e[i] = g[i]
    BY <1>5, <2>1, <2>3
  <2>6. T[i + 1] = e[i + 1] /\ T[i] = g[i]
    BY <1>6, <2>1
  <2>7. QED
    BY <2>4, <2>5, <2>6
<1>9. Is(T)
  <2>1. ASSUME NEW j \in Nat, j # 0 PROVE T[j] = T[j - 1] \o x[j - 1]
    <3>1. PICK i \in Nat : i = j - 1
      BY <2>1
    <3>2. j = i + 1
      BY <3>1
    <3>3. QED
      BY <1>8, <3>1, <3>2
  <2>2. T = [j \in Nat |-> T[j]]
    BY <1>6
  <2>3. \A j \in Nat : T[j] = IF j = 0 THEN <<>> ELSE T[j - 1] \o x[j - 1]
    BY <1>7, <2>1
  <2>4. QED
    BY <2>2, <2>3
<1>10. Is(Concat(x))
  BY <1>9 DEF Concat
<1>11. PICK C : C = Concat(x)
  OBVIOUS
<1>12. C = [j \in Nat |-> IF j = 0 THEN <<>> ELSE C[j - 1] \o x[j - 1]]
  BY <1>10, <1>11
<1>13. C[0] = <<>>
  BY <1>12
<1>14. ASSUME NEW i \in Nat PROVE C[i + 1] = C[i] \o x[i]
  <2>1. i + 1 \in Nat /\ i + 1 # 0 /\ (i + 1) - 1 = i
    OBVIOUS
  <2>2. C[i + 1] = C[(i + 1) - 1] \o x[(i + 1) - 1]
    BY <1>12, <2>1
  <2>3. QED
    BY <2>1, <2>2
<1>15. QED
  BY <1>11, <1>13, <1>14

------------------------------------------------------------------------------
(***************************************************************************)
(* Where an escape sequence ends, and how many arguments it takes.         *)
(***************************************************************************)
LEMMA LeastOf ==
  ASSUME NEW S \in SUBSET Nat, S # {}
  PROVE  \E m \in S : \A y \in S : m <= y
<1>1. PICK m \in S : \A y \in S : ~ (<<y, m>> \in OpToRel(<, Nat))
  BY NatLessThanWellFounded, WFMin
<1>2. ASSUME NEW y \in S PROVE m <= y
  <2>1. y \in Nat /\ m \in Nat
    BY <1>2
  <2>2. ~(y < m)
    BY <1>1, <1>2, <2>1 DEF OpToRel
  <2>3. QED
    BY <2>1, <2>2
<1>3. QED
  BY <1>1, <1>2

LEMMA FirstIs ==
  ASSUME NEW S \in SUBSET Nat, NEW m \in S, \A y \in S : m <= y
  PROVE  First(S) = m
<1>1. PICK x : x = First(S)
  OBVIOUS
<1>2. \E i \in S : \A j \in S : i <= j
  OBVIOUS
<1>3. x \in S /\ \A j \in S : x <= j
  BY <1>1, <1>2 DEF First
<1>4. x \in Nat /\ m \in Nat /\ x <= m /\ m <= x
  BY <1>3
<1>5. QED
  BY <1>1, <1>4

LEMMA LastIs ==
  ASSUME NEW S \in SUBSET Nat, NEW m \in S, \A y \in S : y <= m
  PROVE  Last(S) = m
<1>1. PICK x : x = Last(S)
  OBVIOUS
<1>2. \E i \in S : \A j \in S : j <= i
  OBVIOUS
<1>3. x \in S /\ \A j \in S : j <= x
  BY <1>1, <1>2 DEF Last
<1>4. x \in Nat /\ m \in Nat /\ x <= m /\ m <= x
  BY <1>3
<1>5. QED
  BY <1>1, <1>4

LEMMA CharAtIs ==
  ASSUME NEW f \in Seq(Char), NEW i \in Nat \ {0}
  PROVE  /\ i <= Len(f) => CharAt(f, i) \in Char /\ CharAt(f, i) = f[i]
         /\ i > Len(f) => CharAt(f, i) = NUL
BY DEF CharAt

LEMMA NulIsNone == NUL \notin Modifiers /\ NUL \notin Conversions /\ "%" \notin Modifiers
                   /\ Modifiers \cap Conversions = {}
<1>1. Modifiers = {"-", "*", ".", "#", "l", "0", "1", "2", "3", "4", "5", "6", "7", "8", "9"}
  <2>1. \A ch : ch \in {Digit[i] : i \in 1..10} <=>
                ch \in {"0", "1", "2", "3", "4", "5", "6", "7", "8", "9"}
    BY DigitsAre DEF IsDigit
  <2>2. QED
    BY <2>1 DEF Modifiers
<1>2. Conversions = {"c", "e", "s", "d", "u", "o", "p", "x", "%"}
  BY DEF Conversions
<1>3. NUL \notin Modifiers /\ NUL \notin Conversions
  BY LiteralAssumption DEF Recognised
<1>4. QED
  BY <1>1, <1>2, <1>3

LEMMA EscapeEndIs ==
  ASSUME NEW f \in Seq(Char), NEW i \in 1..Len(f)
  PROVE  /\ EscapeEnd(f, i) \in (i + 1)..(Len(f) + 1)
         /\ CharAt(f, EscapeEnd(f, i)) \notin Modifiers
         /\ \A j \in (i + 1)..(EscapeEnd(f, i) - 1) : CharAt(f, j) \in Modifiers
<1>1. PICK n \in Nat : n = Len(f)
  OBVIOUS
<1>2. PICK K : K = {k \in (i + 1)..(n + 1) : CharAt(f, k) \notin Modifiers}
  OBVIOUS
<1>3. n + 1 \in K
  <2>1. n + 1 \in Nat \ {0} /\ n + 1 > Len(f) /\ n + 1 \in (i + 1)..(n + 1)
    BY <1>1
  <2>2. CharAt(f, n + 1) = NUL
    BY <2>1, CharAtIs
  <2>3. QED
    BY <1>2, <2>1, <2>2, NulIsNone
<1>4. K \in SUBSET Nat /\ K # {}
  BY <1>2, <1>3
<1>5. PICK m \in K : \A y \in K : m <= y
  BY <1>4, LeastOf
<1>6. m \in (i + 1)..(n + 1) /\ CharAt(f, m) \notin Modifiers
  BY <1>2
<1>7. ASSUME NEW j \in (i + 1)..(m - 1) PROVE CharAt(f, j) \in Modifiers
  <2>1. j \in (i + 1)..(n + 1) /\ ~(m <= j)
    BY <1>6, <1>7
  <2>2. j \notin K
    BY <1>5, <2>1
  <2>3. QED
    BY <1>2, <2>1, <2>2
<1>8. \E k \in (i + 1)..(Len(f) + 1) :
         /\ CharAt(f, k) \notin Modifiers
         /\ \A j \in (i + 1)..(k - 1) : CharAt(f, j) \in Modifiers
  BY <1>1, <1>6, <1>7
<1>9. PICK x : x = EscapeEnd(f, i)
  OBVIOUS
<1>10. /\ x \in (i + 1)..(Len(f) + 1)
       /\ CharAt(f, x) \notin Modifiers
       /\ \A j \in (i + 1)..(x - 1) : CharAt(f, j) \in Modifiers
  BY <1>8, <1>9 DEF EscapeEnd
<1>11. QED
  BY <1>9, <1>10

LEMMA EscapeEndOnly ==
  ASSUME NEW f \in Seq(Char), NEW i \in 1..Len(f), NEW k \in Nat, k > i,
         CharAt(f, k) \notin Modifiers,
         \A j \in (i + 1)..(k - 1) : CharAt(f, j) \in Modifiers
  PROVE  EscapeEnd(f, i) = k
<1>1. PICK x \in Nat : x = EscapeEnd(f, i) /\ x > i
  <2>1. Len(f) \in Nat
    OBVIOUS
  <2>2. EscapeEnd(f, i) \in (i + 1)..(Len(f) + 1)
    BY EscapeEndIs
  <2>3. QED
    BY <2>1, <2>2
<1>2. CharAt(f, x) \notin Modifiers /\ \A j \in (i + 1)..(x - 1) : CharAt(f, j) \in Modifiers
  BY <1>1, EscapeEndIs
<1>3. ~(x < k)
  <2>1. SUFFICES ASSUME x < k PROVE FALSE
    OBVIOUS
  <2>2. x \in (i + 1)..(k - 1)
    BY <1>1, <2>1
  <2>3. QED
    BY <1>2, <2>2
<1>4. ~(k < x)
  <2>1. SUFFICES ASSUME k < x PROVE FALSE
    OBVIOUS
  <2>2. k \in (i + 1)..(x - 1)
    BY <1>1, <2>1
  <2>3. QED
    BY <1>2, <2>2
<1>5. QED
  BY <1>1, <1>3, <1>4

LEMMA StarsAre ==
  ASSUME NEW f, NEW lo \in Nat, NEW hi \in Int
  PROVE  /\ Stars(f, lo, hi) \in Nat
         /\ hi < lo => Stars(f, lo, hi) = 0
         /\ \A k \in lo..hi : Stars(f, lo, k) <= Stars(f, lo, hi)
         /\ lo <= hi + 1 => Stars(f, lo, hi + 1)
                             = Stars(f, lo, hi) + (IF CharAt(f, hi + 1) = "*" THEN 1 ELSE 0)
<1> DEFINE S(k) == {j \in lo..k : CharAt(f, j) = "*"}
<1>1. ASSUME NEW k \in Int
      PROVE  IsFiniteSet(S(k)) /\ Cardinality(S(k)) \in Nat /\ Stars(f, lo, k) = Cardinality(S(k))
  <2>1. IsFiniteSet(lo..k)
    BY FS_Interval
  <2>2. S(k) \in SUBSET (lo..k)
    OBVIOUS
  <2>3. IsFiniteSet(S(k))
    BY <2>1, <2>2, FS_Subset
  <2>4. QED
    BY <2>3, FS_CardinalityType DEF Stars
<1>2. hi < lo => Stars(f, lo, hi) = 0
  <2> SUFFICES ASSUME hi < lo PROVE Stars(f, lo, hi) = 0
    OBVIOUS
  <2>1. S(hi) = {}
    OBVIOUS
  <2>2. QED
    BY <1>1, <2>1, FS_EmptySet
<1>3. ASSUME NEW k \in lo..hi PROVE Stars(f, lo, k) <= Stars(f, lo, hi)
  <2>1. S(k) \in SUBSET S(hi) /\ k \in Int
    BY <1>3
  <2>2. Cardinality(S(k)) <= Cardinality(S(hi))
    BY <1>1, <2>1, FS_Subset
  <2>3. QED
    BY <1>1, <2>1, <2>2
<1>4. ASSUME lo <= hi + 1
      PROVE  Stars(f, lo, hi + 1)
                             = Stars(f, lo, hi) + (IF CharAt(f, hi + 1) = "*" THEN 1 ELSE 0)
  <2>1. PICK h \in Int : h = hi + 1
    OBVIOUS
  <2>2. CASE CharAt(f, h) = "*"
    <3>1. S(h) = S(hi) \cup {h} /\ h \notin S(hi)
      BY <1>4, <2>1, <2>2
    <3>2. Cardinality(S(h)) = Cardinality(S(hi)) + 1
      BY <1>1, <3>1, FS_AddElement
    <3>3. QED
      BY <1>1, <2>1, <2>2, <3>2
  <2>3. CASE CharAt(f, h) # "*"
    <3>1. S(h) = S(hi)
      BY <1>4, <2>1, <2>3
    <3>2. Stars(f, lo, h) = Stars(f, lo, hi)
      BY <1>1, <3>1
    <3>3. Stars(f, lo, hi) \in Nat
      BY <1>1
    <3>4. QED
      BY <2>1, <2>3, <3>2, <3>3
  <2>4. QED
    BY <2>2, <2>3
<1>5. Stars(f, lo, hi) \in Nat
  BY <1>1
<1>6. QED
  BY <1>2, <1>3, <1>4, <1>5

------------------------------------------------------------------------------
(***************************************************************************)
(* The items of a format: where each begins, the arguments it takes, and   *)
(* its text.                                                               *)
(***************************************************************************)
\* Where an item begins, and the arguments taken before it.
Place == [at : Nat \ {0}, taken : Nat]

LEMMA FollowingIs ==
  ASSUME NEW f \in Seq(Char), NEW c \in Place
  PROVE  /\ Following(f, c) \in Place
         /\ Following(f, c).taken >= c.taken
         /\ c.at <= Len(f) => /\ Following(f, c).at = Behind(f, c.at)
                              /\ Following(f, c).at > c.at
                              /\ Following(f, c).taken = c.taken + Takes(f, c.at)
         /\ c.at > Len(f) => Following(f, c) = c
<1>1. PICK i \in Nat \ {0}, t \in Nat : i = c.at /\ t = c.taken
  BY DEF Place
<1>2. CASE i > Len(f)
  BY <1>1, <1>2 DEF Following
<1>3. CASE i <= Len(f)
  <2>1. i \in 1..Len(f)
    BY <1>3
  <2>2. PICK e \in Nat : e = EscapeEnd(f, i) /\ e > i
    <3>1. Len(f) \in Nat
      OBVIOUS
    <3>2. EscapeEnd(f, i) \in (i + 1)..(Len(f) + 1)
      BY <2>1, EscapeEndIs
    <3>3. QED
      BY <3>1, <3>2
  <2>3. PICK b \in Nat : b = Behind(f, i) /\ b > i
    BY <2>2 DEF Behind
  <2>4. Stars(f, i + 1, e - 1) \in Nat
    BY <2>2, StarsAre
  <2>5. PICK m \in Nat : m = Takes(f, i)
    BY <2>2, <2>4 DEF Takes
  <2>6. Following(f, c) = [at |-> b, taken |-> t + m]
    BY <1>1, <1>3, <2>3, <2>5 DEF Following
  <2>7. QED
    BY <1>1, <1>3, <2>3, <2>5, <2>6 DEF Place
<1>4. QED
  BY <1>1, <1>2, <1>3

Origin == [at |-> 1, taken |-> 0]

LEMMA CursorExists ==
  ASSUME NEW f \in Seq(Char)
  PROVE  \E C \in [Nat -> Place] : C[0] = Origin /\ \A i \in Nat : C[i + 1] = Following(f, C[i])
<1>01. Origin \in Place
  BY DEF Place, Origin
<1>02. \A c \in Place : Following(f, c) \in Place
  BY FollowingIs
<1> DEFINE Runs(k, g) == g[0] = Origin /\ \A i \in 0..(k - 1) : g[i + 1] = Following(f, g[i])
           Has == {k \in Nat : \E g \in [0..k -> Place] : Runs(k, g)}
<1>1. 0 \in Has
  <2>1. [i \in 0..0 |-> Origin] \in [0..0 -> Place] /\ Runs(0, [i \in 0..0 |-> Origin])
    BY <1>01
  <2>2. QED
    BY <2>1
<1>2. \A k \in Nat : k \in Has => k + 1 \in Has
  <2> SUFFICES ASSUME NEW k \in Nat, k \in Has PROVE k + 1 \in Has
    OBVIOUS
  <2>1. PICK g \in [0..k -> Place] : Runs(k, g)
    OBVIOUS
  <2>2. PICK x : x = Following(f, g[k])
    OBVIOUS
  <2>3. x \in Place
    BY <2>1, <2>2, <1>02
  <2>4. PICK e : e = [i \in 0..(k + 1) |-> IF i <= k THEN g[i] ELSE x]
    OBVIOUS
  <2>5. e \in [0..(k + 1) -> Place]
    BY <2>3, <2>4
  <2>6. (\A i \in 0..k : e[i] = g[i]) /\ e[k + 1] = x
    BY <2>4
  <2>7. Runs(k + 1, e)
    <3>1. e[0] = Origin
      BY <2>1, <2>6
    <3>2. ASSUME NEW i \in 0..k PROVE e[i + 1] = Following(f, e[i])
      <4>1. CASE i = k
        BY <4>1, <2>2, <2>6
      <4>2. CASE i # k
        <5>1. i \in 0..(k - 1) /\ i + 1 \in 0..k
          BY <4>2
        <5>2. g[i + 1] = Following(f, g[i])
          BY <5>1, <2>1
        <5>3. QED
          BY <5>1, <5>2, <2>6
      <4>3. QED
        BY <4>1, <4>2
    <3>3. QED
      BY <3>1, <3>2
  <2>8. \E d \in [0..(k + 1) -> Place] : Runs(k + 1, d)
    <3> HIDE DEF Runs
    <3>1. QED
      BY <2>5, <2>7
  <2>9. k + 1 \in Nat
    OBVIOUS
  <2>10. QED
    BY <2>8, <2>9
<1>3. \A k \in Nat : \E g \in [0..k -> Place] : Runs(k, g)
  <2>1. \A k \in Nat : k \in Has
    BY <1>1, <1>2, SetInduction
  <2>2. QED
    BY <2>1
<1> DEFINE G(k) == CHOOSE g \in [0..k -> Place] : Runs(k, g)
<1>4. \A k \in Nat : G(k) \in [0..k -> Place] /\ Runs(k, G(k))
  BY <1>3
<1> HIDE DEF G
<1>5. \A k \in Nat : \A i \in 0..k : G(k)[i] = G(k + 1)[i]
  <2> SUFFICES ASSUME NEW k \in Nat PROVE \A i \in 0..k : G(k)[i] = G(k + 1)[i]
    OBVIOUS
  <2> DEFINE T == {i \in Nat : i <= k => G(k)[i] = G(k + 1)[i]}
  <2>1. 0 \in T
    BY <1>4
  <2>2. \A i \in Nat : i \in T => i + 1 \in T
    <3> SUFFICES ASSUME NEW i \in Nat, i \in T, i + 1 <= k PROVE i + 1 \in T
      OBVIOUS
    <3>1. G(k)[i + 1] = Following(f, G(k)[i])
      BY <1>4
    <3>2. Runs(k + 1, G(k + 1))
      BY <1>4
    <3>3. G(k + 1)[i + 1] = Following(f, G(k + 1)[i])
      BY <3>2
    <3>4. QED
      BY <3>1, <3>3
  <2>3. \A i \in Nat : i \in T
    BY <2>1, <2>2, SetInduction
  <2>4. QED
    BY <2>3
<1> DEFINE C == [k \in Nat |-> G(k)[k]]
<1>6. C \in [Nat -> Place]
  BY <1>4
<1>7. C[0] = Origin
  BY <1>4
<1>8. \A i \in Nat : C[i + 1] = Following(f, C[i])
  <2> SUFFICES ASSUME NEW i \in Nat PROVE C[i + 1] = Following(f, C[i])
    OBVIOUS
  <2>1. Runs(i + 1, G(i + 1))
    BY <1>4
  <2>2. G(i + 1)[i + 1] = Following(f, G(i + 1)[i])
    BY <2>1
  <2>3. QED
    BY <2>2, <1>5
<1>9. QED
  BY <1>6, <1>7, <1>8

LEMMA CursorSteps ==
  ASSUME NEW f \in Seq(Char)
  PROVE  /\ Cursor(f)[0] = [at |-> 1, taken |-> 0]
         /\ \A j \in Nat : Cursor(f)[j + 1] = Following(f, Cursor(f)[j])
         /\ \A j \in Nat : Cursor(f)[j] \in Place
<1> DEFINE Is(T) == T = [j \in Nat |-> IF j = 0 THEN Origin ELSE Following(f, T[j - 1])]
<1>1. PICK T \in [Nat -> Place] : T[0] = Origin /\ \A i \in Nat : T[i + 1] = Following(f, T[i])
  BY CursorExists
<1>2. \A i \in Nat \ {0} : T[i] = Following(f, T[i - 1])
  <2> SUFFICES ASSUME NEW i \in Nat \ {0} PROVE T[i] = Following(f, T[i - 1])
    OBVIOUS
  <2>1. i - 1 \in Nat /\ (i - 1) + 1 = i
    OBVIOUS
  <2>2. QED
    BY <1>1, <2>1
<1>3. Is(T)
  BY <1>1, <1>2
<1>4. Is(Cursor(f))
  BY <1>3 DEF Cursor, Origin
<1> DEFINE U == {j \in Nat : Cursor(f)[j] \in Place}
<1>5. Cursor(f)[0] = Origin
  BY <1>4
<1>6. ASSUME NEW j \in Nat PROVE Cursor(f)[j + 1] = Following(f, Cursor(f)[j])
  <2>1. (j + 1) - 1 = j /\ j + 1 \in Nat /\ j + 1 # 0
    OBVIOUS
  <2>2. QED
    BY <1>4, <2>1
<1>7. 0 \in U
  <2>1. Origin \in Place
    BY DEF Place, Origin
  <2>2. QED
    BY <1>5, <2>1
<1>8. ASSUME NEW j \in Nat, j \in U PROVE j + 1 \in U
  <2>1. PICK c \in Place : c = Cursor(f)[j]
    BY <1>8
  <2>2. Cursor(f)[j + 1] = Following(f, c)
    BY <1>6, <2>1
  <2>3. Cursor(f)[j + 1] \in Place
    BY <2>2, FollowingIs
  <2>4. QED
    BY <2>3
<1>9. \A j \in Nat : j \in U
  BY <1>7, <1>8, SetInduction
<1>10. QED
  BY <1>5, <1>6, <1>9 DEF Origin

LEMMA CursorIs ==
  ASSUME NEW f \in Seq(Char), NEW j \in Nat
  PROVE  /\ Cursor(f)[j].at \in Nat \ {0} /\ Cursor(f)[j].taken \in Nat
         /\ \A i \in 0..j : Cursor(f)[i].taken <= Cursor(f)[j].taken
         /\ Cursor(f)[j].at <= Len(f) =>
              /\ Cursor(f)[j].at > j
              /\ Cursor(f)[j + 1].at = Behind(f, Cursor(f)[j].at)
              /\ Cursor(f)[j + 1].taken = Cursor(f)[j].taken + Takes(f, Cursor(f)[j].at)
         /\ Cursor(f)[j].at > Len(f) => Cursor(f)[j + 1] = Cursor(f)[j]
<1>1. PICK C : C = Cursor(f)
  OBVIOUS
<1>2. /\ C[0] = [at |-> 1, taken |-> 0]
      /\ \A i \in Nat : C[i + 1] = Following(f, C[i])
      /\ \A i \in Nat : C[i] \in Place
  BY <1>1, CursorSteps
<1>3. ASSUME NEW i \in Nat
      PROVE  /\ C[i].at \in Nat \ {0} /\ C[i].taken \in Nat
             /\ C[i + 1].taken >= C[i].taken
             /\ C[i].at <= Len(f) => /\ C[i + 1].at = Behind(f, C[i].at)
                                     /\ C[i + 1].at > C[i].at
                                     /\ C[i + 1].taken = C[i].taken + Takes(f, C[i].at)
             /\ C[i].at > Len(f) => C[i + 1] = C[i]
  <2>1. C[i] \in Place /\ C[i + 1] = Following(f, C[i])
    BY <1>2
  <2>2. C[i].at \in Nat \ {0} /\ C[i].taken \in Nat
    BY <2>1 DEF Place
  <2>3. QED
    BY <2>1, <2>2, FollowingIs
<1> DEFINE T == {k \in Nat : /\ C[k].at <= Len(f) => C[k].at > k
                             /\ \A i \in 0..k : C[i].taken <= C[k].taken}
<1>4. 0 \in T
  BY <1>2, <1>3, SMTT(30)
<1>5. ASSUME NEW k \in Nat, k \in T PROVE k + 1 \in T
  <2>1. k + 1 \in Nat
    OBVIOUS
  <2>2. PICK u \in Nat, w \in Nat, n \in Nat : u = C[k].at /\ w = C[k + 1].at /\ n = Len(f)
    <3>1. C[k].at \in Nat \ {0}
      BY <1>3
    <3>2. C[k + 1].at \in Nat \ {0}
      BY <1>3, <2>1
    <3>3. QED
      BY <3>1, <3>2
  <2>3. PICK g \in Nat, h \in Nat : g = C[k].taken /\ h = C[k + 1].taken
    <3>1. C[k].taken \in Nat
      BY <1>3
    <3>2. C[k + 1].taken \in Nat
      BY <1>3, <2>1
    <3>3. QED
      BY <3>1, <3>2
  <2>4. h >= g /\ (u <= n => w > u) /\ (u > n => w = u)
    BY <1>3, <2>2, <2>3
  <2>5. (u <= n => u > k) /\ \A i \in 0..k : C[i].taken <= g
    BY <1>5, <2>2, <2>3
  <2>6. w <= n => w > k + 1
    BY <2>4, <2>5
  <2>7. ASSUME NEW i \in 0..(k + 1) PROVE C[i].taken <= h
    <3>1. CASE i = k + 1
      BY <2>3, <3>1
    <3>2. CASE i # k + 1
      <4>1. i \in 0..k /\ i \in Nat
        BY <3>2
      <4>2. C[i].taken \in Nat
        BY <1>3, <4>1
      <4>3. C[i].taken <= g
        BY <2>5, <4>1
      <4>4. QED
        BY <2>4, <4>2, <4>3
    <3>3. QED
      BY <3>1, <3>2
  <2>8. QED
    BY <2>1, <2>2, <2>3, <2>6, <2>7
<1>6. \A k \in Nat : k \in T
  BY <1>4, <1>5, SetInduction
<1>7. QED
  BY <1>1, <1>3, <1>6

LEMMA TakesIs ==
  ASSUME NEW f \in Seq(Char), NEW i \in 1..Len(f)
  PROVE  Takes(f, i) \in Nat
<1>1. PICK e \in Nat : e = EscapeEnd(f, i) /\ e > i
  <2>1. Len(f) \in Nat
    OBVIOUS
  <2>2. EscapeEnd(f, i) \in (i + 1)..(Len(f) + 1)
    BY EscapeEndIs
  <2>3. QED
    BY <2>1, <2>2
<1>2. Stars(f, i + 1, e - 1) \in Nat
  BY <1>1, StarsAre
<1>3. QED
  BY <1>1, <1>2 DEF Takes

LEMMA TextsSteps ==
  ASSUME NEW f, NEW a
  PROVE  /\ Texts(f, a, 0) = <<>>
         /\ \A j \in Nat : Texts(f, a, j + 1) = Texts(f, a, j) \o Item(f, j, a)
<1>1. PICK x : x = [i \in Nat |-> Item(f, i, a)]
  OBVIOUS
<1>2. PICK C : C = Concat(x)
  OBVIOUS
<1>3. C[0] = <<>> /\ \A i \in Nat : C[i + 1] = C[i] \o x[i]
  BY <1>2, ConcatSteps
<1>4. \A j \in Nat : Texts(f, a, j) = C[j]
  BY <1>1, <1>2 DEF Texts
<1>5. \A j \in Nat : x[j] = Item(f, j, a)
  BY <1>1
<1>6. ASSUME NEW j \in Nat PROVE Texts(f, a, j + 1) = Texts(f, a, j) \o Item(f, j, a)
  <2>1. j + 1 \in Nat
    OBVIOUS
  <2>2. C[j + 1] = C[j] \o x[j]
    BY <1>3
  <2>3. QED
    BY <1>4, <1>5, <2>1, <2>2
<1>7. 0 \in Nat
  OBVIOUS
<1>8. Texts(f, a, 0) = <<>>
  BY <1>3, <1>4, <1>7
<1>9. QED
  BY <1>6, <1>8

LEMMA TextsSame ==
  ASSUME NEW f, NEW a, NEW b, NEW j \in Nat, \A i \in 0..(j - 1) : Item(f, i, a) = Item(f, i, b)
  PROVE  Texts(f, a, j) = Texts(f, b, j)
<1> DEFINE T == {k \in Nat : k <= j => Texts(f, a, k) = Texts(f, b, k)}
<1>1. 0 \in T
  BY TextsSteps
<1>2. ASSUME NEW k \in Nat, k \in T PROVE k + 1 \in T
  <2> SUFFICES ASSUME k + 1 <= j PROVE Texts(f, a, k + 1) = Texts(f, b, k + 1)
    OBVIOUS
  <2>1. k \in 0..(j - 1) /\ Texts(f, a, k) = Texts(f, b, k)
    BY <1>2
  <2>2. Item(f, k, a) = Item(f, k, b)
    BY <2>1
  <2>3. /\ Texts(f, a, k + 1) = Texts(f, a, k) \o Item(f, k, a)
        /\ Texts(f, b, k + 1) = Texts(f, b, k) \o Item(f, k, b)
    BY TextsSteps
  <2>4. QED
    BY <2>1, <2>2, <2>3
<1>3. \A k \in Nat : k \in T
  BY <1>1, <1>2, SetInduction
<1>4. QED
  BY <1>3

\* The arguments of an item among those before and behind it.
LEMMA OwnArgs ==
  ASSUME NEW V, NEW prev \in Seq(V), NEW b \in Seq(V), NEW m \in Nat, NEW n \in Nat,
         m + n <= Len(prev)
  PROVE  SubSeq(prev \o b, m + 1, m + n) = SubSeq(prev, m + 1, m + n)
<1>1. PICK c \in Seq(V) : c = prev \o b
  BY ConcatProperties
<1>2. PICK k \in Nat, l \in Nat : k = Len(prev) /\ l = Len(b)
  OBVIOUS
<1>3. Len(c) = k + l /\ \A i \in 1..(k + l) : c[i] = IF i <= k THEN prev[i] ELSE b[i - k]
  BY <1>1, <1>2, ConcatProperties
<1>4. \A i \in (m + 1)..(m + n) : i \in 1..Len(c) /\ i \in 1..Len(prev) /\ c[i] = prev[i]
  BY <1>2, <1>3
<1>5. \A i \in 1..n : c[m + 1 + i - 1] = prev[m + 1 + i - 1]
  BY <1>4
<1>6. m + n - (m + 1) + 1 = n
  OBVIOUS
<1>7. SubSeq(c, m + 1, m + n) \in Seq(V) /\ SubSeq(prev, m + 1, m + n) \in Seq(V)
  BY <1>4
<1>8. QED
  BY <1>1, <1>5, <1>6, <1>7

LEMMA LastArgs ==
  ASSUME NEW V, NEW prev \in Seq(V), NEW b \in Seq(V)
  PROVE  SubSeq(prev \o b, Len(prev) + 1, Len(prev) + Len(b)) = b
<1>1. PICK c \in Seq(V) : c = prev \o b
  BY ConcatProperties
<1>2. PICK m \in Nat, n \in Nat : m = Len(prev) /\ n = Len(b)
  OBVIOUS
<1>3. Len(c) = m + n /\ \A i \in 1..(m + n) : c[i] = IF i <= m THEN prev[i] ELSE b[i - m]
  BY <1>1, <1>2, ConcatProperties
<1>4. \A i \in (m + 1)..(m + n) : c[i] \in V
  BY <1>3
<1>5. PICK x \in Int, y \in Int : x = m + 1 /\ y = m + n
  OBVIOUS
<1>6. \A i \in x..y : c[i] \in V
  BY <1>4, <1>5
<1>7. PICK t \in Seq(V) : t = SubSeq(c, x, y)
  BY <1>6, SubSeqProperties
<1>8. /\ Len(t) = IF x <= y THEN y - x + 1 ELSE 0
      /\ \A i \in 1..(y - x + 1) : t[i] = c[x + i - 1]
  BY <1>6, <1>7, SubSeqProperties
<1>9. Len(t) = n /\ \A i \in 1..n : t[i] = c[m + i]
  <2>1. y - x + 1 = n /\ \A i \in 1..n : x + i - 1 = m + i
    BY <1>5
  <2>2. QED
    BY <1>5, <1>8, <2>1
<1>10. \A i \in 1..n : c[m + i] = b[i]
  BY <1>3
<1>11. t = b
  BY <1>2, <1>9, <1>10, SeqEqual
<1>12. QED
  BY <1>1, <1>2, <1>5, <1>7, <1>11

\* The text of the items before j is that of their own arguments.
LEMMA TextsBefore ==
  ASSUME NEW f \in Seq(Char), NEW j \in Nat, NEW V, NEW prev \in Seq(V), NEW b \in Seq(V),
         Cursor(f)[j].taken <= Len(prev)
  PROVE  Texts(f, prev \o b, j) = Texts(f, prev, j)
<1>1. ASSUME NEW i \in 0..(j - 1) PROVE Item(f, i, prev \o b) = Item(f, i, prev)
  <2>1. PICK c : c = Cursor(f)[i]
    OBVIOUS
  <2>2. i \in Nat /\ i + 1 \in 0..j
    BY <1>1
  <2>3. CASE c.at > Len(f)
    BY <2>1, <2>3 DEF Item
  <2>4. CASE ~(c.at > Len(f))
    <3>1. c.at \in Nat /\ c.taken \in Nat
      BY <2>1, <2>2, CursorIs
    <3>2. Cursor(f)[i + 1].taken = c.taken + Takes(f, c.at)
      BY <2>1, <2>2, <2>4, <3>1, CursorIs
    <3>3. Cursor(f)[i + 1].taken <= Cursor(f)[j].taken
      BY <2>2, CursorIs
    <3>4. PICK m \in Nat, n \in Nat : m = c.taken /\ n = Takes(f, c.at)
      <4>1. c.at \in 1..Len(f)
        BY <2>1, <2>2, <2>4, <3>1, CursorIs
      <4>2. Takes(f, c.at) \in Nat
        BY <4>1, TakesIs
      <4>3. QED
        BY <3>1, <4>2
    <3>5. m + n <= Len(prev)
      <4>1. PICK x \in Nat, y \in Nat : x = Cursor(f)[i + 1].taken /\ y = Cursor(f)[j].taken
        <5>1. Cursor(f)[j].taken \in Nat
          BY CursorIs
        <5>2. i + 1 \in Nat
          BY <2>2
        <5>3. Cursor(f)[i + 1].taken \in Nat
          BY <5>2, CursorIs
        <5>4. QED
          BY <5>1, <5>3
      <4>2. x = m + n /\ x <= y
        BY <3>2, <3>3, <3>4, <4>1
      <4>3. PICK z \in Nat : z = Len(prev)
        OBVIOUS
      <4>4. y <= z
        BY <4>1, <4>3
      <4>5. QED
        BY <4>2, <4>3, <4>4
    <3>6. SubSeq(prev \o b, m + 1, m + n) = SubSeq(prev, m + 1, m + n)
      BY <3>5, OwnArgs
    <3>7. QED
      BY <2>1, <2>4, <3>4, <3>6 DEF Item
  <2>5. QED
    BY <2>3, <2>4
<1>2. QED
  BY <1>1, TextsSame

\* One item more.
LEMMA TextsMore ==
  ASSUME NEW f \in Seq(Char), NEW j \in Nat, NEW V, NEW prev \in Seq(V), NEW b \in Seq(V),
         Cursor(f)[j].at <= Len(f), Len(prev) = Cursor(f)[j].taken,
         Len(b) = Takes(f, Cursor(f)[j].at)
  PROVE  Texts(f, prev \o b, j + 1) = Texts(f, prev, j) \o Meaning(f, Cursor(f)[j].at, b)
<1>1. PICK c : c = Cursor(f)[j]
  OBVIOUS
<1>2. c.at \in Nat /\ c.taken \in Nat
  BY <1>1, CursorIs
<1>3. Texts(f, prev \o b, j) = Texts(f, prev, j)
  BY <1>1, <1>2, TextsBefore
<1>4. PICK m \in Nat, n \in Nat : m = c.taken /\ n = Takes(f, c.at) /\ m = Len(prev) /\ n = Len(b)
  BY <1>1
<1>5. SubSeq(prev \o b, m + 1, m + n) = b
  <2>1. SubSeq(prev \o b, Len(prev) + 1, Len(prev) + Len(b)) = b
    BY LastArgs
  <2>2. QED
    BY <1>4, <2>1
<1>6. Item(f, j, prev \o b) = Meaning(f, c.at, b)
  <2>1. ~(c.at > Len(f))
    BY <1>1, <1>2
  <2>2. QED
    BY <1>1, <1>4, <1>5, <2>1 DEF Item
<1>7. Texts(f, prev \o b, j + 1) = Texts(f, prev \o b, j) \o Item(f, j, prev \o b)
  BY TextsSteps
<1>8. QED
  BY <1>1, <1>3, <1>6, <1>7

\* There is no text behind the end of the format.
LEMMA TextsEnd ==
  ASSUME NEW f \in Seq(Char), NEW j \in 0..Len(f), NEW a, Cursor(f)[j].at > Len(f),
         Texts(f, a, j) \in Seq(Char)
  PROVE  Expansion(f, a) = Texts(f, a, j)
<1>0. PICK c : c = Cursor(f)[j]
  OBVIOUS
<1>1. PICK s \in Seq(Char) : c = Cursor(f)[j] /\ s = Texts(f, a, j)
  BY <1>0
<1>2. j \in Nat /\ Len(f) \in Nat
  OBVIOUS
<1> DEFINE T == {k \in Nat : k >= j => Cursor(f)[k] = c /\ Texts(f, a, k) = s}
<1>3. 0 \in T
  BY <1>1, <1>2
<1>4. ASSUME NEW k \in Nat, k \in T PROVE k + 1 \in T
  <2> SUFFICES ASSUME k + 1 >= j PROVE Cursor(f)[k + 1] = c /\ Texts(f, a, k + 1) = s
    OBVIOUS
  <2>1. CASE k + 1 = j
    BY <1>1, <2>1
  <2>2. CASE k + 1 # j
    <3>1. k >= j
      BY <1>2, <2>2
    <3>2. Cursor(f)[k] = c /\ Texts(f, a, k) = s
      BY <1>4, <3>1
    <3>3. Cursor(f)[k + 1] = c
      BY <1>1, <3>2, CursorIs
    <3>4. Item(f, k, a) = <<>>
      BY <1>1, <3>2 DEF Item
    <3>5. Texts(f, a, k + 1) = Texts(f, a, k) \o Item(f, k, a)
      BY TextsSteps
    <3>6. s \o <<>> = s
      BY ConcatEmptySeq
    <3>7. QED
      BY <3>2, <3>3, <3>4, <3>5, <3>6
  <2>3. QED
    BY <2>1, <2>2
<1>5. \A k \in Nat : k \in T
  BY <1>3, <1>4, SetInduction
<1>6. QED
  BY <1>1, <1>2, <1>5 DEF Expansion

------------------------------------------------------------------------------
\* Numbers in a format: the digits at j..k, the lowest first.
Digits(f, j, k) == [i \in Nat |-> IF i <= k - j THEN DigitVal(CharAt(f, k - i)) ELSE 0]

LEMMA DigitsIn ==
  ASSUME NEW f, NEW j \in Nat, NEW k \in Nat, j <= k, \A m \in j..k : IsDigit(CharAt(f, m))
  PROVE  /\ \A i \in Nat : Digits(f, j, k)[i] \in Nat
         /\ ValueAt(f, j, k) = Value(Digits(f, j, k), 10)[k - j + 1]
         /\ ValueAt(f, j, k) \in Nat
<1>1. ASSUME NEW i \in Nat PROVE Digits(f, j, k)[i] \in Nat
  <2>1. Digits(f, j, k)[i] = IF i <= k - j THEN DigitVal(CharAt(f, k - i)) ELSE 0
    BY DEF Digits
  <2>2. ASSUME i <= k - j PROVE DigitVal(CharAt(f, k - i)) \in Nat
    <3>1. k - i \in j..k
      BY <2>2
    <3>2. IsDigit(CharAt(f, k - i))
      BY <3>1
    <3>3. DigitVal(CharAt(f, k - i)) \in 0..9
      BY <3>2, DigitValIn
    <3>4. QED
      BY <3>3
  <2>3. CASE i <= k - j
    BY <2>1, <2>2, <2>3
  <2>4. CASE ~(i <= k - j)
    BY <2>1, <2>4
  <2>5. QED
    BY <2>3, <2>4
<1>2. PICK d : d = Digits(f, j, k)
  OBVIOUS
<1>3. ValueAt(f, j, k) = Value(d, 10)[k - j + 1]
  BY <1>2 DEF ValueAt, Digits
<1>4. \A i \in Nat : d[i] \in Nat
  BY <1>1, <1>2
<1>5. Value(d, 10) \in [Nat -> Nat]
  <2>1. 10 \in Nat
    OBVIOUS
  <2>2. QED
    BY <1>4, <2>1, ValueSteps
<1>6. PICK m \in Nat : m = k - j + 1
  OBVIOUS
<1>7. Value(d, 10)[m] \in Nat
  BY <1>5
<1>8. QED
  BY <1>1, <1>2, <1>3, <1>6, <1>7

LEMMA ValueOfDigit ==
  ASSUME NEW f, NEW k \in Nat, IsDigit(CharAt(f, k))
  PROVE  ValueAt(f, k, k) = DigitVal(CharAt(f, k))
<1>1. \A m \in k..k : IsDigit(CharAt(f, m))
  OBVIOUS
<1>2. PICK d : d = Digits(f, k, k)
  OBVIOUS
<1>3. k - k + 1 = 1 /\ k <= k /\ k - k = 0 /\ k - 0 = k
  OBVIOUS
<1>4. (\A i \in Nat : d[i] \in Nat) /\ ValueAt(f, k, k) = Value(d, 10)[k - k + 1]
  BY <1>1, <1>2, <1>3, DigitsIn
<1>5. d[0] = DigitVal(CharAt(f, k))
  <2>1. d[0] = DigitVal(CharAt(f, k - 0))
    BY <1>2 DEF Digits
  <2>2. QED
    BY <1>3, <2>1
<1>6. PICK V, P : V = Value(d, 10) /\ P = Power(10)
  OBVIOUS
<1>7. V[0] = 0 /\ \A i \in Nat : V[i + 1] = V[i] + d[i] * P[i]
  <2>1. 10 \in Nat
    OBVIOUS
  <2>2. QED
    BY <1>4, <1>6, <2>1, ValueSteps
<1>8. P[0] = 1
  BY <1>6, PowerSteps
<1>9. V[1] = d[0]
  <2>1. V[0 + 1] = V[0] + d[0] * P[0]
    BY <1>7
  <2>2. PICK z \in Nat : z = d[0]
    BY <1>4
  <2>3. V[1] = 0 + z * 1
    BY <1>7, <1>8, <2>1, <2>2
  <2>4. QED
    BY <2>2, <2>3
<1>10. ValueAt(f, k, k) = V[1]
  BY <1>3, <1>4, <1>6
<1>11. QED
  BY <1>5, <1>9, <1>10

LEMMA ValueOfMore ==
  ASSUME NEW f, NEW j \in Nat, NEW k \in Nat, j <= k, \A m \in j..(k + 1) : IsDigit(CharAt(f, m))
  PROVE  ValueAt(f, j, k + 1) = ValueAt(f, j, k) * 10 + DigitVal(CharAt(f, k + 1))
<1>1. PICK h \in Nat : h = k + 1
  OBVIOUS
<1>2. PICK d, e : d = Digits(f, j, k) /\ e = Digits(f, j, h)
  OBVIOUS
<1>3. (\A m \in j..k : IsDigit(CharAt(f, m))) /\ (\A m \in j..h : IsDigit(CharAt(f, m))) /\ j <= h
  BY <1>1
<1>4. (\A i \in Nat : d[i] \in Nat) /\ ValueAt(f, j, k) = Value(d, 10)[k - j + 1]
  BY <1>2, <1>3, DigitsIn
<1>5. (\A i \in Nat : e[i] \in Nat) /\ ValueAt(f, j, h) = Value(e, 10)[h - j + 1]
  BY <1>2, <1>3, DigitsIn
<1>6. ASSUME NEW i \in Nat PROVE e[i + 1] = d[i]
  <2>1. i + 1 \in Nat /\ h - (i + 1) = k - i /\ (i + 1 <= h - j <=> i <= k - j)
    BY <1>1
  <2>2. e[i + 1] = IF i + 1 <= h - j THEN DigitVal(CharAt(f, h - (i + 1))) ELSE 0
    BY <1>2, <2>1 DEF Digits
  <2>3. d[i] = IF i <= k - j THEN DigitVal(CharAt(f, k - i)) ELSE 0
    BY <1>2 DEF Digits
  <2>4. QED
    BY <2>1, <2>2, <2>3
<1>7. e[0] = DigitVal(CharAt(f, h))
  <2>1. 0 <= h - j /\ h - 0 = h
    BY <1>3
  <2>2. e[0] = IF 0 <= h - j THEN DigitVal(CharAt(f, h - 0)) ELSE 0
    BY <1>2 DEF Digits
  <2>3. QED
    BY <2>1, <2>2
<1>8. PICK m \in Nat : m = k - j + 1
  OBVIOUS
<1>9. Value(e, 10)[m + 1] = Value(d, 10)[m] * 10 + e[0]
  <2>1. 10 \in Nat
    OBVIOUS
  <2>2. \A i \in Nat : d[i] \in Nat /\ e[i] \in Nat /\ e[i + 1] = d[i]
    BY <1>4, <1>5, <1>6
  <2>3. QED
    BY <2>1, <2>2, OneMoreDigit
<1>10. h - j + 1 = m + 1
  BY <1>1, <1>8
<1>11. ValueAt(f, j, h) = Value(e, 10)[m + 1] /\ ValueAt(f, j, k) = Value(d, 10)[m]
  BY <1>4, <1>5, <1>8, <1>10
<1>12. QED
  BY <1>1, <1>7, <1>9, <1>11

------------------------------------------------------------------------------
\* Numbers: where the one that is being read begins.
LEMMA BeginsAre ==
  ASSUME NEW f, NEW lo \in Nat, NEW k \in Nat
  PROVE  /\ Begins(f, lo, k) \subseteq lo..k
         /\ InNumber(f, lo, k) => /\ First(Begins(f, lo, k)) \in Begins(f, lo, k)
                                  /\ \A i \in Begins(f, lo, k) : First(Begins(f, lo, k)) <= i
                                  /\ IsDigit(CharAt(f, k)) /\ lo <= k
                                  /\ ValueAt(f, First(Begins(f, lo, k)), k) \in Nat
<1>1. PICK B : B = Begins(f, lo, k)
  OBVIOUS
<1>2. B = {j \in lo..k : CharAt(f, j) # "0" /\ \A m \in j..k : IsDigit(CharAt(f, m))}
  BY <1>1 DEF Begins
<1>3. B \in SUBSET Nat /\ B \subseteq lo..k
  BY <1>2
<1>4. ASSUME B # {}
      PROVE  /\ First(B) \in B /\ \A i \in B : First(B) <= i
             /\ IsDigit(CharAt(f, k)) /\ lo <= k
             /\ ValueAt(f, First(B), k) \in Nat
  <2>1. PICK j \in B : \A i \in B : j <= i
    BY <1>3, <1>4, LeastOf
  <2>2. First(B) = j
    BY <1>3, <2>1, FirstIs
  <2>3. j \in Nat /\ j \in lo..k /\ j <= k /\ \A m \in j..k : IsDigit(CharAt(f, m))
    BY <1>2, <1>3
  <2>4. IsDigit(CharAt(f, k))
    BY <2>3
  <2>5. ValueAt(f, j, k) \in Nat
    BY <2>3, DigitsIn
  <2>6. QED
    BY <2>1, <2>2, <2>3, <2>4, <2>5
<1>5. QED
  BY <1>1, <1>3, <1>4 DEF InNumber

\* What one character more does to the number.
LEMMA BeginsMore ==
  ASSUME NEW f, NEW lo \in Nat, NEW k \in Nat, lo <= k + 1
  PROVE  Begins(f, lo, k + 1)
           = IF IsDigit(CharAt(f, k + 1))
             THEN Begins(f, lo, k) \cup (IF CharAt(f, k + 1) = "0" THEN {} ELSE {k + 1})
             ELSE {}
<1>1. PICK h \in Nat : h = k + 1
  OBVIOUS
<1>2. PICK A, B : A = Begins(f, lo, h) /\ B = Begins(f, lo, k)
  OBVIOUS
<1>3. A = {j \in lo..h : CharAt(f, j) # "0" /\ \A m \in j..h : IsDigit(CharAt(f, m))}
  BY <1>2 DEF Begins
<1>4. B = {j \in lo..k : CharAt(f, j) # "0" /\ \A m \in j..k : IsDigit(CharAt(f, m))}
  BY <1>2 DEF Begins
<1>5. ASSUME ~IsDigit(CharAt(f, h)) PROVE A = {}
  <2>1. ASSUME NEW j \in A PROVE FALSE
    <3>1. h \in j..h
      BY <1>3
    <3>2. QED
      BY <1>3, <1>5, <3>1
  <2>2. QED
    BY <2>1
<1>6. ASSUME IsDigit(CharAt(f, h))
      PROVE  A = B \cup (IF CharAt(f, h) = "0" THEN {} ELSE {h})
  <2>1. ASSUME NEW j PROVE j \in A <=> j \in B \/ (j = h /\ CharAt(f, h) # "0")
    <3>1. CASE j = h
      <4>1. j \notin lo..k /\ j \in lo..h /\ \A m \in h..h : m = h
        BY <1>1, <3>1
      <4>2. QED
        BY <1>3, <1>4, <1>6, <3>1, <4>1
    <3>2. CASE j # h /\ j \in lo..h
      <4>1. j \in lo..k /\ \A m \in j..h : m = h \/ m \in j..k
        BY <1>1, <3>2
      <4>2. \A m \in j..k : m \in j..h
        BY <1>1
      <4>3. QED
        BY <1>3, <1>4, <1>6, <3>2, <4>1, <4>2
    <3>3. CASE j \notin lo..h
      <4>1. j \notin lo..k /\ j # h
        BY <1>1, <3>3
      <4>2. QED
        BY <1>3, <1>4, <3>3, <4>1
    <3>4. QED
      BY <3>1, <3>2, <3>3
  <2>2. QED
    BY <2>1
<1>7. QED
  BY <1>1, <1>2, <1>5, <1>6

------------------------------------------------------------------------------
(***************************************************************************)
(* The settings of an escape sequence, a modifier at a time.               *)
(***************************************************************************)
\* A star takes one of the arguments read so far.
LEMMA StarIsOne ==
  ASSUME NEW f, NEW lo \in Nat, NEW hi \in Nat, NEW k \in lo..hi, CharAt(f, k) = "*"
  PROVE  Stars(f, lo, k) \in 1..Stars(f, lo, hi)
<1>1. k \in Nat /\ k - 1 \in Int /\ lo <= (k - 1) + 1 /\ (k - 1) + 1 = k
  OBVIOUS
<1>2. PICK n \in Nat, m \in Nat, l \in Nat :
        n = Stars(f, lo, hi) /\ m = Stars(f, lo, k) /\ l = Stars(f, lo, k - 1)
  <2>1. Stars(f, lo, hi) \in Nat
    BY StarsAre
  <2>2. Stars(f, lo, k) \in Nat
    BY <1>1, StarsAre
  <2>3. PICK i \in Int : i = k - 1
    BY <1>1
  <2>4. Stars(f, lo, i) \in Nat
    BY StarsAre
  <2>5. QED
    BY <2>1, <2>2, <2>3, <2>4
<1>3. m <= n
  BY <1>2, StarsAre
<1>4. m = l + 1
  <2>1. PICK i \in Int : i = k - 1
    BY <1>1
  <2>2. i + 1 = k /\ lo <= i + 1
    BY <1>1, <2>1
  <2>3. Stars(f, lo, i + 1) = Stars(f, lo, i) + (IF CharAt(f, i + 1) = "*" THEN 1 ELSE 0)
    BY <2>2, StarsAre
  <2>4. QED
    BY <1>2, <2>1, <2>2, <2>3
<1>5. QED
  BY <1>2, <1>3, <1>4

LEMMA SettingsIn ==
  ASSUME NEW f, NEW lo \in Nat, NEW hi \in Nat, NEW a \in Seq(Int), Stars(f, lo, hi) <= Len(a)
  PROVE  \A k \in Setters(f, lo, hi) : k \in lo..hi /\ Setting(f, lo, k, a) \in Int
<1> SUFFICES ASSUME NEW k \in Setters(f, lo, hi)
             PROVE  k \in lo..hi /\ Setting(f, lo, k, a) \in Int
  OBVIOUS
<1>1. k \in lo..hi /\ IsSetter(f, lo, k)
  BY DEF Setters
<1>2. CASE CharAt(f, k) = "*"
  <2>1. Stars(f, lo, k) \in 1..Stars(f, lo, hi) /\ Stars(f, lo, hi) \in Nat
    BY <1>1, <1>2, StarIsOne, StarsAre
  <2>2. Stars(f, lo, k) \in 1..Len(a)
    BY <2>1
  <2>3. a[Stars(f, lo, k)] \in Int
    BY <2>2
  <2>4. QED
    BY <1>1, <1>2, <2>3 DEF Setting
<1>3. CASE CharAt(f, k) = "."
  BY <1>1, <1>3 DEF Setting
<1>4. CASE CharAt(f, k) \notin {"*", "."}
  <2>1. InNumber(f, lo, k) /\ k \in Nat
    BY <1>1, <1>4 DEF IsSetter
  <2>2. ValueAt(f, First(Begins(f, lo, k)), k) \in Nat
    BY <2>1, BeginsAre
  <2>3. QED
    BY <1>1, <1>4, <2>2 DEF Setting
<1>5. QED
  BY <1>2, <1>3, <1>4

\* An argument more changes none of them.
LEMMA SettingsSame ==
  ASSUME NEW f, NEW lo \in Nat, NEW hi \in Nat, NEW a, NEW b, NEW n \in Nat,
         Stars(f, lo, hi) <= n, \A i \in 1..n : b[i] = a[i]
  PROVE  \A k \in Setters(f, lo, hi) : Setting(f, lo, k, b) = Setting(f, lo, k, a)
<1> SUFFICES ASSUME NEW k \in Setters(f, lo, hi)
             PROVE  Setting(f, lo, k, b) = Setting(f, lo, k, a)
  OBVIOUS
<1>1. k \in lo..hi
  BY DEF Setters
<1>2. CASE CharAt(f, k) = "*"
  <2>1. Stars(f, lo, k) \in 1..Stars(f, lo, hi) /\ Stars(f, lo, hi) \in Nat
    BY <1>1, <1>2, StarIsOne, StarsAre
  <2>2. Stars(f, lo, k) \in 1..n
    BY <2>1
  <2>3. a[Stars(f, lo, k)] = b[Stars(f, lo, k)]
    BY <2>2
  <2>4. QED
    BY <1>2, <2>3 DEF Setting
<1>3. CASE CharAt(f, k) # "*"
  BY <1>3 DEF Setting
<1>4. QED
  BY <1>2, <1>3

LEMMA SettersMore ==
  ASSUME NEW f, NEW lo \in Nat, NEW hi \in Nat, lo <= hi + 1
  PROVE  Setters(f, lo, hi + 1)
           = Setters(f, lo, hi) \cup (IF IsSetter(f, lo, hi + 1) THEN {hi + 1} ELSE {})
<1>1. PICK h \in Nat : h = hi + 1
  OBVIOUS
<1>2. PICK A, B : A = Setters(f, lo, h) /\ B = Setters(f, lo, hi)
  OBVIOUS
<1>3. A = {k \in lo..h : IsSetter(f, lo, k)} /\ B = {k \in lo..hi : IsSetter(f, lo, k)}
  BY <1>2 DEF Setters
<1>4. \A k : k \in lo..h <=> k \in lo..hi \/ k = h
  BY <1>1
<1>5. A = B \cup (IF IsSetter(f, lo, h) THEN {h} ELSE {})
  BY <1>3, <1>4
<1>6. QED
  BY <1>1, <1>2, <1>5

(***************************************************************************)
(* The width is the first setting that is not negative; there is none as   *)
(* long as all are negative.                                               *)
(***************************************************************************)
WidthOf(f, lo, hi, a) ==
  IF WidthAt(f, lo, hi, a) = {} THEN -1 ELSE Setting(f, lo, Last(WidthAt(f, lo, hi, a)), a)
PrecOf(f, lo, hi, a) ==
  IF PrecAt(f, lo, hi, a) = {} THEN -1 ELSE Setting(f, lo, Last(PrecAt(f, lo, hi, a)), a)
PadOf(f, lo, hi) == IF PadAt(f, lo, hi) = {} THEN Space ELSE CharAt(f, Last(PadAt(f, lo, hi)))

LEMMA OptionsAre ==
  ASSUME NEW f, NEW lo, NEW hi, NEW a
  PROVE  /\ Options(f, lo, hi, a).w = WidthOf(f, lo, hi, a)
         /\ Options(f, lo, hi, a).prc = PrecOf(f, lo, hi, a)
         /\ Options(f, lo, hi, a).pad = PadOf(f, lo, hi)
         /\ Options(f, lo, hi, a).l = \E k \in lo..hi : CharAt(f, k) = "l"
         /\ Options(f, lo, hi, a).alt = \E k \in lo..hi : CharAt(f, k) = "#"
BY DEF Options, WidthOf, PrecOf, PadOf

LEMMA WidthIs ==
  ASSUME NEW f, NEW lo \in Nat, NEW hi \in Nat, NEW a \in Seq(Int), Stars(f, lo, hi) <= Len(a)
  PROVE  /\ WidthAt(f, lo, hi, a) = {} =>
              \A k \in Setters(f, lo, hi) : Setting(f, lo, k, a) < 0
         /\ \A k \in WidthAt(f, lo, hi, a) : Last(WidthAt(f, lo, hi, a)) = k
         /\ WidthAt(f, lo, hi, a) # {} => /\ WidthOf(f, lo, hi, a) >= 0
                                          /\ WidthOf(f, lo, hi, a) \in Int
<1>1. PICK W, S : W = WidthAt(f, lo, hi, a) /\ S = Setters(f, lo, hi)
  OBVIOUS
<1>2. \A k \in S : k \in Nat /\ Setting(f, lo, k, a) \in Int
  <2>1. \A k \in S : k \in lo..hi /\ Setting(f, lo, k, a) \in Int
    BY <1>1, SettingsIn
  <2>2. QED
    BY <2>1
<1>3. W = {k \in S : /\ Setting(f, lo, k, a) >= 0
                     /\ \A j \in S : j < k => Setting(f, lo, j, a) < 0}
  BY <1>1 DEF WidthAt
<1>4. ASSUME NEW k \in S, Setting(f, lo, k, a) >= 0 PROVE W # {}
  <2>1. PICK N : N = {j \in S : Setting(f, lo, j, a) >= 0}
    OBVIOUS
  <2>2. N \in SUBSET Nat /\ N # {}
    BY <1>2, <1>4, <2>1
  <2>3. PICK m \in N : \A y \in N : m <= y
    BY <2>2, LeastOf
  <2>4. m \in S /\ Setting(f, lo, m, a) >= 0
    BY <2>1
  <2>5. ASSUME NEW j \in S, j < m PROVE Setting(f, lo, j, a) < 0
    <3>1. j \in Nat /\ m \in Nat /\ Setting(f, lo, j, a) \in Int
      BY <1>2, <2>4
    <3>2. j \notin N
      BY <2>3, <2>5, <3>1
    <3>3. ~(Setting(f, lo, j, a) >= 0)
      BY <2>1, <3>2
    <3>4. QED
      BY <3>1, <3>3
  <2>6. m \in W
    BY <1>3, <2>4, <2>5
  <2>7. QED
    BY <2>6
<1>5. ASSUME W = {}, NEW k \in S PROVE Setting(f, lo, k, a) < 0
  <2>1. Setting(f, lo, k, a) \in Int
    BY <1>2
  <2>2. ~(Setting(f, lo, k, a) >= 0)
    BY <1>4, <1>5
  <2>3. QED
    BY <2>1, <2>2
<1>6. ASSUME NEW k \in W PROVE Last(W) = k
  <2>1. k \in S /\ k \in Nat /\ Setting(f, lo, k, a) >= 0
    BY <1>2, <1>3
  <2>2. ASSUME NEW y \in W PROVE y <= k
    <3>2. ~(k < y)
      <4>1. SUFFICES ASSUME k < y PROVE FALSE
        OBVIOUS
      <4>2. Setting(f, lo, k, a) < 0
        BY <1>3, <2>1, <4>1
      <4>3. PICK x \in Int : x = Setting(f, lo, k, a)
        BY <1>2, <2>1
      <4>4. x < 0 /\ x >= 0
        BY <2>1, <4>2, <4>3
      <4>5. QED
        BY <4>4
    <3>3. y \in Nat
      BY <1>2, <1>3
    <3>4. QED
      BY <2>1, <3>2, <3>3
  <2>3. W \in SUBSET Nat
    BY <1>2, <1>3
  <2>4. QED
    BY <2>2, <2>3, LastIs
<1>7. ASSUME W # {} PROVE WidthOf(f, lo, hi, a) >= 0 /\ WidthOf(f, lo, hi, a) \in Int
  <2>1. PICK k \in W : TRUE
    BY <1>7
  <2>2. WidthOf(f, lo, hi, a) = Setting(f, lo, k, a)
    BY <1>1, <1>6, <1>7, <2>1 DEF WidthOf
  <2>3. k \in S /\ Setting(f, lo, k, a) >= 0 /\ Setting(f, lo, k, a) \in Int
    BY <1>2, <1>3
  <2>4. QED
    BY <2>2, <2>3
<1>8. QED
  BY <1>1, <1>5, <1>6, <1>7

\* A negative width is none, whatever it is.
SameWidth(w, v) == w = v \/ (w < 0 /\ v < 0)

LEMMA ArgMore ==
  ASSUME NEW f, NEW lo \in Nat, NEW hi \in Nat, NEW a, NEW b, NEW n \in Nat,
         Stars(f, lo, hi) <= n, \A i \in 1..n : b[i] = a[i]
  PROVE  /\ WidthOf(f, lo, hi, b) = WidthOf(f, lo, hi, a)
         /\ PrecOf(f, lo, hi, b) = PrecOf(f, lo, hi, a)
<1>1. PICK S : S = Setters(f, lo, hi)
  OBVIOUS
<1>2. \A k \in S : Setting(f, lo, k, b) = Setting(f, lo, k, a)
  BY <1>1, SettingsSame
<1>3. WidthAt(f, lo, hi, b) = WidthAt(f, lo, hi, a)
  BY <1>1, <1>2 DEF WidthAt
<1>4. PrecAt(f, lo, hi, b) = PrecAt(f, lo, hi, a)
  BY <1>3 DEF PrecAt
<1>5. PICK W, P : W = WidthAt(f, lo, hi, a) /\ P = PrecAt(f, lo, hi, a)
  OBVIOUS
<1>6. W \subseteq S /\ P \subseteq S
  BY <1>1, <1>5 DEF WidthAt, PrecAt
<1>7. S \in SUBSET Nat
  BY <1>1 DEF Setters
<1>8. ASSUME W # {}, Last(W) \in S PROVE Setting(f, lo, Last(W), b) = Setting(f, lo, Last(W), a)
  BY <1>2, <1>8
<1>9. ASSUME Last(P) \in S PROVE Setting(f, lo, Last(P), b) = Setting(f, lo, Last(P), a)
  BY <1>2, <1>9
<1>10. ASSUME NEW N \in SUBSET (lo..hi), N # {} PROVE Last(N) \in N
  <2>1. N \in SUBSET Nat /\ lo..hi \in SUBSET Nat
    OBVIOUS
  <2>2. PICK R : R = {hi - k : k \in N}
    OBVIOUS
  <2>3. R \in SUBSET Nat /\ R # {}
    <3>1. PICK y : y \in N
      BY <1>10
    <3>2. hi - y \in R
      BY <2>2, <3>1
    <3>3. \A y0 \in N : hi - y0 \in Nat
      OBVIOUS
    <3>4. QED
      BY <2>2, <3>2, <3>3
  <2>4. PICK m \in R : \A y \in R : m <= y
    BY <2>3, LeastOf
  <2>5. PICK k \in N : m = hi - k
    BY <2>2
  <2>6. ASSUME NEW y \in N PROVE y <= k
    <3>1. hi - y \in R /\ y \in Nat /\ k \in Nat
      BY <2>1, <2>2
    <3>2. hi - k <= hi - y
      BY <2>4, <2>5, <3>1
    <3>3. QED
      BY <3>1, <3>2
  <2>7. Last(N) = k
    BY <2>1, <2>6, LastIs
  <2>8. QED
    BY <2>7
<1>11. S \in SUBSET (lo..hi)
  BY <1>1 DEF Setters
<1>12. W # {} => Last(W) \in S
  BY <1>6, <1>10, <1>11
<1>13. P # {} => Last(P) \in S
  BY <1>6, <1>10, <1>11
<1>14. QED
  BY <1>3, <1>4, <1>5, <1>8, <1>9, <1>12, <1>13 DEF WidthOf, PrecOf

\* A modifier that sets nothing.
LEMMA NotSetter ==
  ASSUME NEW f, NEW lo \in Nat, NEW hi \in Nat, NEW a, lo <= hi + 1, ~IsSetter(f, lo, hi + 1)
  PROVE  /\ WidthOf(f, lo, hi + 1, a) = WidthOf(f, lo, hi, a)
         /\ PrecOf(f, lo, hi + 1, a) = PrecOf(f, lo, hi, a)
<1>1. Setters(f, lo, hi + 1) = Setters(f, lo, hi)
  <2>1. PICK S, T : S = Setters(f, lo, hi) /\ T = Setters(f, lo, hi + 1)
    OBVIOUS
  <2>2. T = S \cup (IF IsSetter(f, lo, hi + 1) THEN {hi + 1} ELSE {})
    BY <2>1, SettersMore
  <2>3. T = S
    BY <2>2
  <2>4. QED
    BY <2>1, <2>3
<1>2. WidthAt(f, lo, hi + 1, a) = WidthAt(f, lo, hi, a)
  BY <1>1 DEF WidthAt
<1>3. PrecAt(f, lo, hi + 1, a) = PrecAt(f, lo, hi, a)
  BY <1>1, <1>2 DEF PrecAt
<1>4. QED
  BY <1>2, <1>3 DEF WidthOf, PrecOf

\* process_precision, and the '.'.
LEMMA NewSetter ==
  ASSUME NEW f, NEW lo \in Nat, NEW hi \in Nat, NEW a \in Seq(Int), lo <= hi + 1,
         IsSetter(f, lo, hi + 1), Stars(f, lo, hi + 1) <= Len(a), Stars(f, lo, hi) <= Len(a),
         NEW w \in Int, SameWidth(w, WidthOf(f, lo, hi, a)),
         NEW v \in Int, v = Setting(f, lo, hi + 1, a)
  PROVE  /\ SameWidth(IF w < 0 THEN v ELSE w, WidthOf(f, lo, hi + 1, a))
         /\ CharAt(f, hi + 1) # "." => PrecOf(f, lo, hi + 1, a) = IF w < 0 THEN -1 ELSE v
         /\ CharAt(f, hi + 1) = "." => PrecOf(f, lo, hi + 1, a) = PrecOf(f, lo, hi, a)
<1>1. PICK h \in Nat : h = hi + 1
  OBVIOUS
<1>2. PICK W, X, P, Q : /\ W = WidthAt(f, lo, hi, a) /\ X = WidthAt(f, lo, h, a)
                        /\ P = PrecAt(f, lo, hi, a) /\ Q = PrecAt(f, lo, h, a)
  OBVIOUS
<1>3. PICK S, T : S = Setters(f, lo, hi) /\ T = Setters(f, lo, h)
  OBVIOUS
<1>4. T = S \cup {h}
  BY <1>1, <1>3, SettersMore
<1>5. \A k \in S : k \in Nat /\ k < h /\ Setting(f, lo, k, a) \in Int
  <2>1. \A k \in S : k \in lo..hi /\ Setting(f, lo, k, a) \in Int
    BY <1>3, SettingsIn
  <2>2. QED
    BY <1>1, <2>1
<1>6. W = {k \in S : /\ Setting(f, lo, k, a) >= 0
                     /\ \A j \in S : j < k => Setting(f, lo, j, a) < 0}
  BY <1>2, <1>3 DEF WidthAt
<1>7. X = {k \in T : /\ Setting(f, lo, k, a) >= 0
                     /\ \A j \in T : j < k => Setting(f, lo, j, a) < 0}
  BY <1>2, <1>3 DEF WidthAt
<1>8. P = {k \in S : CharAt(f, k) # "." /\ \E j \in W : j < k}
      /\ Q = {k \in T : CharAt(f, k) # "." /\ \E j \in X : j < k}
  BY <1>2, <1>3 DEF PrecAt
<1>9. v = Setting(f, lo, h, a)
  BY <1>1
<1>10. /\ W = {} => \A k \in S : Setting(f, lo, k, a) < 0
       /\ \A k \in W : Last(W) = k
       /\ W # {} => WidthOf(f, lo, hi, a) >= 0 /\ WidthOf(f, lo, hi, a) \in Int
  BY <1>2, <1>3, WidthIs
<1>11. \A k \in X : Last(X) = k
  <2>1. Stars(f, lo, h) <= Len(a)
    BY <1>1
  <2>2. QED
    BY <1>2, <2>1, WidthIs
<1>12. w < 0 <=> W = {}
  <2>1. CASE W = {}
    <3>1. WidthOf(f, lo, hi, a) = -1
      BY <1>2, <2>1 DEF WidthOf
    <3>2. QED
      BY <2>1, <3>1 DEF SameWidth
  <2>2. CASE W # {}
    <3>1. PICK x \in Int : x = WidthOf(f, lo, hi, a) /\ x >= 0
      BY <1>10, <2>2
    <3>2. QED
      BY <2>2, <3>1 DEF SameWidth
  <2>3. QED
    BY <2>1, <2>2
<1>13. CASE W = {}
  <2>1. \A k \in S : Setting(f, lo, k, a) < 0
    BY <1>10, <1>13
  <2>2. \A k \in X : k = h
    <3>1. ASSUME NEW k \in X, k # h PROVE FALSE
      <4>1. k \in S /\ Setting(f, lo, k, a) >= 0 /\ Setting(f, lo, k, a) \in Int
            /\ Setting(f, lo, k, a) < 0
        BY <1>4, <1>5, <1>7, <2>1, <3>1
      <4>2. PICK x \in Int : x = Setting(f, lo, k, a)
        BY <4>1
      <4>3. QED
        BY <4>1, <4>2
    <3>2. QED
      BY <3>1
  <2>3. Q = {} /\ P = {}
    <3>1. ASSUME NEW k \in Q PROVE FALSE
      <4>1. h < k /\ k \in T
        BY <1>8, <2>2
      <4>2. k \in S \/ k = h
        BY <1>4, <4>1
      <4>3. QED
        BY <1>5, <4>1, <4>2
    <3>2. QED
      BY <1>8, <1>13, <3>1
  <2>4. PrecOf(f, lo, h, a) = -1 /\ PrecOf(f, lo, hi, a) = -1
    BY <1>2, <2>3 DEF PrecOf
  <2>5. SameWidth(v, WidthOf(f, lo, h, a))
    <3>1. CASE v >= 0
      <4>1. h \in X
        <5>1. h \in T
          BY <1>4
        <5>2. ASSUME NEW j \in T, j < h PROVE Setting(f, lo, j, a) < 0
          <6>1. j \in S
            BY <1>4, <5>2
          <6>2. QED
            BY <2>1, <6>1
        <5>3. QED
          BY <1>7, <1>9, <3>1, <5>1, <5>2
      <4>2. WidthOf(f, lo, h, a) = v
        BY <1>2, <1>9, <1>11, <4>1 DEF WidthOf
      <4>3. QED
        BY <4>2 DEF SameWidth
    <3>2. CASE ~(v >= 0)
      <4>1. h \notin X
        BY <1>7, <1>9, <3>2
      <4>2. X = {}
        BY <2>2, <4>1
      <4>3. WidthOf(f, lo, h, a) = -1
        BY <1>2, <4>2 DEF WidthOf
      <4>4. QED
        BY <3>2, <4>3 DEF SameWidth
    <3>3. QED
      BY <3>1, <3>2
  <2>6. w < 0
    BY <1>12, <1>13
  <2>7. QED
    BY <1>1, <2>4, <2>5, <2>6
<1>14. CASE W # {}
  <2>1. ~(w < 0)
    BY <1>12, <1>14
  <2>2. PICK m \in W : TRUE
    BY <1>14
  <2>3. m \in S /\ m < h /\ m \in Nat /\ Setting(f, lo, m, a) >= 0 /\ Setting(f, lo, m, a) \in Int
    BY <1>5, <1>6
  <2>4. \A j \in S : j < m => Setting(f, lo, j, a) < 0
    BY <1>6, <2>2
  <2>5. m \in X
    <3>1. ASSUME NEW j \in T, j < m PROVE Setting(f, lo, j, a) < 0
      <4>1. j # h
        BY <1>1, <2>3, <3>1
      <4>2. j \in S
        BY <1>4, <3>1, <4>1
      <4>3. QED
        BY <2>4, <3>1, <4>2
    <3>2. QED
      BY <1>4, <1>7, <2>3, <3>1
  <2>6. \A k \in X : k = m
    BY <1>11, <2>5
  <2>7. \A k \in W : k = m
    BY <1>10, <2>2
  <2>8. WidthOf(f, lo, h, a) = Setting(f, lo, m, a) /\ WidthOf(f, lo, hi, a) = Setting(f, lo, m, a)
    BY <1>2, <1>10, <1>11, <1>14, <2>2, <2>5 DEF WidthOf
  <2>9. SameWidth(w, WidthOf(f, lo, h, a))
    BY <2>8
  <2>10. Q = P \cup (IF CharAt(f, h) # "." THEN {h} ELSE {})
    <3>1. \A k : k \in Q <=> k \in T /\ CharAt(f, k) # "." /\ m < k
      BY <1>8, <2>5, <2>6
    <3>2. \A k : k \in P <=> k \in S /\ CharAt(f, k) # "." /\ m < k
      BY <1>8, <2>2, <2>7
    <3>3. \A k : k \in T <=> k \in S \/ k = h
      BY <1>4
    <3>4. QED
      BY <2>3, <3>1, <3>2, <3>3
  <2>11. ASSUME CharAt(f, h) = "." PROVE PrecOf(f, lo, h, a) = PrecOf(f, lo, hi, a)
    <3>1. Q = P
      BY <2>10, <2>11
    <3>2. CASE P = {}
      BY <1>2, <3>1, <3>2 DEF PrecOf
    <3>3. CASE P # {}
      BY <1>2, <3>1, <3>3 DEF PrecOf
    <3>4. QED
      BY <3>2, <3>3
  <2>12. ASSUME CharAt(f, h) # "." PROVE PrecOf(f, lo, h, a) = v
    <3>1. h \in Q
      BY <2>10, <2>12
    <3>2. Q \in SUBSET Nat /\ \A y \in Q : y <= h
      <4>1. \A y \in Q : y \in S \/ y = h
        BY <1>4, <1>8
      <4>2. QED
        BY <1>5, <4>1
    <3>3. Last(Q) = h
      BY <3>1, <3>2, LastIs
    <3>4. QED
      BY <1>2, <1>9, <3>1, <3>3 DEF PrecOf
  <2>13. QED
    BY <1>1, <2>1, <2>9, <2>11, <2>12
<1>15. QED
  BY <1>13, <1>14

LEMMA PadMore ==
  ASSUME NEW f, NEW lo \in Nat, NEW hi \in Nat, lo <= hi + 1
  PROVE  PadOf(f, lo, hi + 1) = IF IsPad(f, lo, hi + 1) THEN CharAt(f, hi + 1) ELSE PadOf(f, lo, hi)
<1>1. PICK h \in Nat : h = hi + 1
  OBVIOUS
<1>2. PICK F, G : F = PadAt(f, lo, hi) /\ G = PadAt(f, lo, h)
  OBVIOUS
<1>3. F = {k \in lo..hi : IsPad(f, lo, k)} /\ G = {k \in lo..h : IsPad(f, lo, k)}
  BY <1>2 DEF PadAt
<1>4. \A k : k \in lo..h <=> k \in lo..hi \/ k = h
  BY <1>1
<1>5. CASE IsPad(f, lo, h)
  <2>1. h \in G /\ G \in SUBSET Nat /\ \A y \in G : y <= h
    BY <1>3, <1>4, <1>5
  <2>2. Last(G) = h
    BY <2>1, LastIs
  <2>3. QED
    BY <1>1, <1>2, <1>5, <2>1, <2>2 DEF PadOf
<1>6. CASE ~IsPad(f, lo, h)
  <2>1. F = G
    BY <1>3, <1>4, <1>6
  <2>2. QED
    BY <1>1, <1>2, <1>6, <2>1 DEF PadOf
<1>7. QED
  BY <1>5, <1>6

\* What has been read of an escape sequence, up to hi, with its arguments a.
Reads(f, lo, hi, a, w, pad, l, alt) ==
  /\ Len(a) = Stars(f, lo, hi)
  /\ SameWidth(w, WidthOf(f, lo, hi, a))
  /\ pad = PadOf(f, lo, hi)
  /\ l > 0 <=> \E k \in lo..hi : CharAt(f, k) = "l"
  /\ alt <=> \E k \in lo..hi : CharAt(f, k) = "#"

LEMMA ReadsNothing ==
  ASSUME NEW f \in Seq(Char), NEW lo \in Nat \ {0}, NEW hi \in Nat, lo = hi + 1
  PROVE  /\ Reads(f, lo, hi, <<>>, -1, Space, 0, FALSE)
         /\ PrecOf(f, lo, hi, <<>>) = -1
         /\ ~InNumber(f, lo, hi)
<1>1. lo..hi = {}
  OBVIOUS
<1>2. Setters(f, lo, hi) = {} /\ PadAt(f, lo, hi) = {} /\ Begins(f, lo, hi) = {}
  BY <1>1 DEF Setters, PadAt, Begins
<1>3. WidthAt(f, lo, hi, <<>>) = {} /\ PrecAt(f, lo, hi, <<>>) = {}
  BY <1>2 DEF WidthAt, PrecAt
<1>4. WidthOf(f, lo, hi, <<>>) = -1 /\ PrecOf(f, lo, hi, <<>>) = -1 /\ PadOf(f, lo, hi) = Space
  BY <1>2, <1>3 DEF WidthOf, PrecOf, PadOf
<1>5. Stars(f, lo, hi) = 0 /\ Len(<<>>) = 0
  BY StarsAre
<1>6. SameWidth(-1, WidthOf(f, lo, hi, <<>>))
  BY <1>4 DEF SameWidth
<1>7. ~InNumber(f, lo, hi)
  BY <1>2 DEF InNumber
<1>8. QED
  BY <1>1, <1>4, <1>5, <1>6, <1>7 DEF Reads

LEMMA StarsMore ==
  ASSUME NEW f, NEW lo \in Nat, NEW hi \in Nat, lo <= hi + 1
  PROVE  Stars(f, lo, hi + 1) = Stars(f, lo, hi) + (IF CharAt(f, hi + 1) = "*" THEN 1 ELSE 0)
BY StarsAre

LEMMA FlagsMore ==
  ASSUME NEW f, NEW lo \in Nat, NEW hi \in Nat, lo <= hi + 1, NEW ch
  PROVE  (\E k \in lo..(hi + 1) : CharAt(f, k) = ch)
           <=> (\E k \in lo..hi : CharAt(f, k) = ch) \/ CharAt(f, hi + 1) = ch
<1>1. \A k : k \in lo..(hi + 1) <=> k \in lo..hi \/ k = hi + 1
  OBVIOUS
<1>2. QED
  BY <1>1

\* One modifier more: a flag, or a digit that ends no number.
LEMMA ReadsFlag ==
  ASSUME NEW f, NEW lo \in Nat, NEW hi \in Nat, lo <= hi + 1, NEW a, NEW w \in Int,
         NEW pad, NEW l \in Nat, NEW alt \in BOOLEAN, Reads(f, lo, hi, a, w, pad, l, alt),
         NEW ch, ch = CharAt(f, hi + 1), ch # "*", ~IsSetter(f, lo, hi + 1)
  PROVE  /\ Reads(f, lo, hi + 1, a, w, IF IsPad(f, lo, hi + 1) THEN ch ELSE pad,
                  IF ch = "l" THEN l + 1 ELSE l, alt \/ ch = "#")
         /\ PrecOf(f, lo, hi + 1, a) = PrecOf(f, lo, hi, a)
<1>1. /\ Len(a) = Stars(f, lo, hi) /\ SameWidth(w, WidthOf(f, lo, hi, a))
      /\ pad = PadOf(f, lo, hi) /\ (l > 0 <=> \E k \in lo..hi : CharAt(f, k) = "l")
      /\ (alt <=> \E k \in lo..hi : CharAt(f, k) = "#")
  BY DEF Reads
<1>2. Stars(f, lo, hi + 1) = Stars(f, lo, hi)
  <2>1. Stars(f, lo, hi) \in Nat
    BY StarsAre
  <2>2. Stars(f, lo, hi + 1) = Stars(f, lo, hi) + (IF CharAt(f, hi + 1) = "*" THEN 1 ELSE 0)
    BY StarsAre
  <2>3. QED
    BY <2>1, <2>2
<1>3. WidthOf(f, lo, hi + 1, a) = WidthOf(f, lo, hi, a)
      /\ PrecOf(f, lo, hi + 1, a) = PrecOf(f, lo, hi, a)
  BY NotSetter
<1>4. PadOf(f, lo, hi + 1) = IF IsPad(f, lo, hi + 1) THEN ch ELSE pad
  BY <1>1, PadMore
<1>5. (IF ch = "l" THEN l + 1 ELSE l) > 0 <=> \E k \in lo..(hi + 1) : CharAt(f, k) = "l"
  <2>1. (\E k \in lo..(hi + 1) : CharAt(f, k) = "l")
           <=> (\E k \in lo..hi : CharAt(f, k) = "l") \/ CharAt(f, hi + 1) = "l"
    BY FlagsMore
  <2>2. CASE ch = "l"
    BY <2>1, <2>2
  <2>3. CASE ch # "l"
    BY <1>1, <2>1, <2>3
  <2>4. QED
    BY <2>2, <2>3
<1>6. (alt \/ ch = "#") <=> \E k \in lo..(hi + 1) : CharAt(f, k) = "#"
  <2>1. (\E k \in lo..(hi + 1) : CharAt(f, k) = "#")
           <=> (\E k \in lo..hi : CharAt(f, k) = "#") \/ CharAt(f, hi + 1) = "#"
    BY FlagsMore
  <2>2. QED
    BY <1>1, <2>1
<1>7. QED
  BY <1>1, <1>2, <1>3, <1>4, <1>5, <1>6 DEF Reads

\* One modifier more that sets the width or the precision to v: a star, which
\* takes v, a '.' or the end of a number.
LEMMA ReadsSetter ==
  ASSUME NEW f, NEW lo \in Nat, NEW hi \in Nat, lo <= hi + 1, NEW a \in Seq(Int),
         NEW w \in Int, NEW pad, NEW l \in Nat, NEW alt \in BOOLEAN,
         Reads(f, lo, hi, a, w, pad, l, alt),
         NEW b \in Seq(Int), \A i \in 1..Len(a) : b[i] = a[i],
         Len(b) = Len(a) + (IF CharAt(f, hi + 1) = "*" THEN 1 ELSE 0),
         IsSetter(f, lo, hi + 1), ~IsPad(f, lo, hi + 1), CharAt(f, hi + 1) \notin {"l", "#"},
         NEW v \in Int, v = Setting(f, lo, hi + 1, b)
  PROVE  /\ Reads(f, lo, hi + 1, b, IF w < 0 THEN v ELSE w, pad, l, alt)
         /\ CharAt(f, hi + 1) # "." => PrecOf(f, lo, hi + 1, b) = IF w < 0 THEN -1 ELSE v
         /\ CharAt(f, hi + 1) = "." => PrecOf(f, lo, hi + 1, b) = PrecOf(f, lo, hi, a)
<1>1. /\ Len(a) = Stars(f, lo, hi) /\ SameWidth(w, WidthOf(f, lo, hi, a))
      /\ pad = PadOf(f, lo, hi) /\ (l > 0 <=> \E k \in lo..hi : CharAt(f, k) = "l")
      /\ (alt <=> \E k \in lo..hi : CharAt(f, k) = "#")
  BY DEF Reads
<1>2. PICK n \in Nat : n = Len(a)
  OBVIOUS
<1>3. Stars(f, lo, hi + 1) = Len(b) /\ Stars(f, lo, hi) <= Len(b)
  <2>1. Stars(f, lo, hi + 1) = Stars(f, lo, hi) + (IF CharAt(f, hi + 1) = "*" THEN 1 ELSE 0)
    BY StarsMore
  <2>2. QED
    BY <1>1, <1>2, <2>1
<1>4. WidthOf(f, lo, hi, b) = WidthOf(f, lo, hi, a) /\ PrecOf(f, lo, hi, b) = PrecOf(f, lo, hi, a)
  <2>1. Stars(f, lo, hi) <= n /\ \A i \in 1..n : b[i] = a[i]
    BY <1>1, <1>2
  <2>2. QED
    BY <2>1, ArgMore, SMTT(30)
<1>5. SameWidth(w, WidthOf(f, lo, hi, b))
  BY <1>1, <1>4
<1>6. /\ SameWidth(IF w < 0 THEN v ELSE w, WidthOf(f, lo, hi + 1, b))
      /\ CharAt(f, hi + 1) # "." => PrecOf(f, lo, hi + 1, b) = IF w < 0 THEN -1 ELSE v
      /\ CharAt(f, hi + 1) = "." => PrecOf(f, lo, hi + 1, b) = PrecOf(f, lo, hi, b)
  <2>1. Stars(f, lo, hi + 1) <= Len(b) /\ Stars(f, lo, hi) <= Len(b)
    BY <1>3
  <2>2. QED
    BY <1>5, <2>1, NewSetter
<1>7. PadOf(f, lo, hi + 1) = pad
  BY <1>1, PadMore
<1>8. /\ (\E k \in lo..(hi + 1) : CharAt(f, k) = "l") <=> (\E k \in lo..hi : CharAt(f, k) = "l")
      /\ (\E k \in lo..(hi + 1) : CharAt(f, k) = "#") <=> (\E k \in lo..hi : CharAt(f, k) = "#")
  BY FlagsMore, SMTT(30)
<1>9. QED
  BY <1>1, <1>3, <1>4, <1>6, <1>7, <1>8 DEF Reads

\* What the conversion finds, when its own argument v is the last of b.
LEMMA ReadsAll ==
  ASSUME NEW f, NEW lo \in Nat, NEW hi \in Nat, NEW V, NEW a \in Seq(V), NEW b \in Seq(V),
         NEW n \in Nat, n = Len(a), \A i \in 1..n : b[i] = a[i], NEW w \in Int, NEW pad, NEW l \in Nat, NEW alt \in BOOLEAN,
         Reads(f, lo, hi, a, w, pad, l, alt), NEW prc, prc = PrecOf(f, lo, hi, a)
  PROVE  /\ SameWidth(w, Options(f, lo, hi, b).w)
         /\ Options(f, lo, hi, b).prc = prc
         /\ Options(f, lo, hi, b).pad = pad
         /\ Options(f, lo, hi, b).l <=> l > 0
         /\ Options(f, lo, hi, b).alt <=> alt
<1>1. /\ Len(a) = Stars(f, lo, hi) /\ SameWidth(w, WidthOf(f, lo, hi, a))
      /\ pad = PadOf(f, lo, hi) /\ (l > 0 <=> \E k \in lo..hi : CharAt(f, k) = "l")
      /\ (alt <=> \E k \in lo..hi : CharAt(f, k) = "#")
  BY DEF Reads
<1>2. WidthOf(f, lo, hi, b) = WidthOf(f, lo, hi, a) /\ PrecOf(f, lo, hi, b) = PrecOf(f, lo, hi, a)
  <2>1. Stars(f, lo, hi) <= n
    BY <1>1
  <2>2. QED
    BY <2>1, ArgMore
<1>3. PICK o : o = Options(f, lo, hi, b)
  OBVIOUS
<1>4. o.w = WidthOf(f, lo, hi, b) /\ o.prc = PrecOf(f, lo, hi, b) /\ o.pad = PadOf(f, lo, hi)
      /\ (o.l <=> \E k \in lo..hi : CharAt(f, k) = "l")
      /\ (o.alt <=> \E k \in lo..hi : CharAt(f, k) = "#")
  BY <1>3, OptionsAre, ZenonT(30)
<1>5. QED
  BY <1>1, <1>2, <1>3, <1>4

------------------------------------------------------------------------------
(***************************************************************************)
(* What is printed.  Sent is printed so far, Rest is still to be printed   *)
(* of the current item; a step of a loop moves a character over.           *)
(***************************************************************************)
Sent == IF via = "vsnprintf" THEN text ELSE screen
NumberText == LeftPad(Numeral(num, base), width, padc)
Shows == Part(q, precision, altflag)
Rest ==
  CASE pc = "num"   -> NumberText \o pending
    [] pc = "emit"  -> pending \o (IF num >= 0 THEN NumberText ELSE <<>>)
    [] pc = "lead"  -> Rep(padc, width) \o Shows
    [] pc = "chars" -> Shows \o Rep(Space, width - Len(Shows))
    [] pc = "trail" -> Rep(Space, width)
    [] OTHER -> <<>>

LEMMA RestIs ==
  /\ pc = "num"   => Rest = NumberText \o pending
  /\ pc = "emit"  => Rest = pending \o (IF num >= 0 THEN NumberText ELSE <<>>)
  /\ pc = "lead"  => Rest = Rep(padc, width) \o Shows
  /\ pc = "chars" => Rest = Shows \o Rep(Space, width - Len(Shows))
  /\ pc = "trail" => Rest = Rep(Space, width)
  /\ pc \notin {"num", "emit", "lead", "chars", "trail"} => Rest = <<>>
BY DEF Rest

LEMMA NumberTextIs ==
  ASSUME FmtTypeOK, num >= 0
  PROVE  /\ Numeral(num, base) \in Seq(Char) /\ NumberText \in Seq(Char)
         /\ padc \in Char /\ width \in Int /\ num \in Nat /\ base \in 2..16
         /\ Len(Numeral(num, base)) \in Nat
<1>1. num \in Nat /\ base \in 2..16 /\ width \in Int
  <2>1. num \in -1 .. Mod(LongBits) - 1 /\ base \in {8, 10, 16} /\ width \in Int
    BY DEF FmtTypeOK
  <2>2. PICK M \in Nat \ {0} : M = Mod(LongBits)
    BY NumberTypes
  <2>3. num \in -1 .. M - 1
    BY <2>1, <2>2
  <2>4. QED
    BY <2>1, <2>3
<1>2. padc \in Char
  BY LiteralsAreChars DEF FmtTypeOK
<1>3. Numeral(num, base) \in Seq(Char)
  BY <1>1, NumeralIs
<1>4. NumberText \in Seq(Char)
  <2>1. PICK s \in Seq(Char) : s = Numeral(num, base)
    BY <1>3
  <2>2. LeftPad(s, width, padc) \in Seq(Char)
    BY <1>1, <1>2, LeftPadIs
  <2>3. QED
    BY <2>1, <2>2 DEF NumberText
<1>5. QED
  BY <1>1, <1>2, <1>3, <1>4

LEMMA ShowsIs ==
  ASSUME FmtTypeOK
  PROVE  /\ Shows \in Seq(Char) /\ Len(Shows) \in Nat /\ q \in Seq(Char)
         /\ precision \in Int /\ altflag \in BOOLEAN /\ width \in Int
         /\ padc \in Char /\ Space \in Char
         /\ Rep(padc, width) \in Seq(Char) /\ Rep(Space, width) \in Seq(Char)
         /\ Rep(Space, width - Len(Shows)) \in Seq(Char)
<1>1. q \in Seq(Char) /\ precision \in Int /\ altflag \in BOOLEAN /\ width \in Int
  BY DEF FmtTypeOK
<1>2. padc \in Char /\ Space \in Char
  BY LiteralsAreChars DEF FmtTypeOK
<1>3. Shows \in Seq(Char)
  BY <1>1, PartIs DEF Shows
<1>4. Len(Shows) \in Nat
  BY <1>3
<1>5. Rep(padc, width) \in Seq(Char) /\ Rep(Space, width) \in Seq(Char)
  BY <1>1, <1>2, RepIs
<1>6. PICK k \in Int : k = width - Len(Shows)
  BY <1>1, <1>4
<1>7. Rep(Space, k) \in Seq(Char)
  BY <1>2, RepIs
<1>8. QED
  BY <1>1, <1>2, <1>3, <1>4, <1>5, <1>6, <1>7

LEMMA RestIsText ==
  ASSUME FmtTypeOK, pc = "num" => num >= 0
  PROVE  Rest \in Seq(Char)
<1>1. pending \in Seq(Char) /\ <<>> \in Seq(Char)
  BY DEF FmtTypeOK
<1>2. CASE pc = "num"
  <2>1. NumberText \in Seq(Char)
    BY <1>2, NumberTextIs
  <2>2. NumberText \o pending \in Seq(Char)
    BY <1>1, <2>1, ConcatProperties
  <2>3. QED
    BY <1>2, <2>2, RestIs
<1>3. CASE pc = "emit"
  <2>1. PICK s \in Seq(Char) : s = IF num >= 0 THEN NumberText ELSE <<>>
    BY <1>1, NumberTextIs
  <2>2. pending \o s \in Seq(Char)
    BY <1>1, ConcatProperties
  <2>3. QED
    BY <1>3, <2>1, <2>2, RestIs
<1>4. CASE pc = "lead"
  <2>1. Rep(padc, width) \o Shows \in Seq(Char)
    BY ShowsIs, ConcatProperties
  <2>2. QED
    BY <1>4, <2>1, RestIs
<1>5. CASE pc = "chars"
  <2>1. Shows \o Rep(Space, width - Len(Shows)) \in Seq(Char)
    BY ShowsIs, ConcatProperties
  <2>2. QED
    BY <1>5, <2>1, RestIs
<1>6. CASE pc = "trail"
  BY <1>6, RestIs, ShowsIs
<1>7. CASE pc \notin {"num", "emit", "lead", "chars", "trail"}
  BY <1>1, <1>7, RestIs
<1>8. QED
  BY <1>2, <1>3, <1>4, <1>5, <1>6, <1>7

LEMMA SentIs ==
  ASSUME FmtTypeOK, BufTypeOK
  PROVE  Sent \in Seq(Char)
BY DEF FmtTypeOK, BufTypeOK, Sent

\* A character more is printed, whatever it is printed on.
LEMMA PutchSends ==
  ASSUME FmtTypeOK, BufTypeOK, NEW ch \in Char, putch(ch), via' = via
  PROVE  /\ Sent' = Append(Sent, ch) /\ Sent' \in Seq(Char)
         /\ (via # "vsnprintf" => shown = Len(screen))
              => (via' # "vsnprintf" => shown' = Len(screen'))
<1>1. screen \in Seq(Char) /\ text \in Seq(Char)
  BY DEF FmtTypeOK, BufTypeOK
<1>2. CASE via = "vsnprintf"
  <2>1. text' = Append(text, ch)
    BY <1>2 DEF putch, sprintputch
  <2>2. QED
    BY <1>1, <1>2, <2>1 DEF Sent
<1>3. CASE via # "vsnprintf"
  <2>1. screen' = Append(screen, ch) /\ shown' = shown + 1
    BY <1>3 DEF putch, cputch, cons_putc
  <2>2. QED
    BY <1>1, <1>3, <2>1 DEF Sent
<1>4. QED
  BY <1>2, <1>3

\* Where the rest of an item is being printed.
Printing_pc == {"text", "num", "emit", "lead", "chars", "trail"}
\* cputch counts what it prints.
Counted == via # "vsnprintf" => shown = Len(screen)

\* A step that prints the first character of what is to be printed.
LEMMA FirstSent ==
  ASSUME FmtTypeOK, BufTypeOK, NEW ch \in Char, NEW r \in Seq(Char), NEW s \in Seq(Char),
         putch(ch), via' = via, r = <<ch>> \o s
  PROVE  Sent' \o s = Sent \o r
<1>1. Sent \in Seq(Char) /\ Sent' = Append(Sent, ch)
  BY SentIs, PutchSends
<1>2. PICK out \in Seq(Char) : out = Sent
  BY <1>1
<1>3. Append(out, ch) \o s = out \o (<<ch>> \o s)
  BY OneLess
<1>4. QED
  BY <1>1, <1>2, <1>3

\* A step that prints nothing.
LEMMA NoneSent ==
  ASSUME UNCHANGED outVars, via' = via
  PROVE  Sent' = Sent /\ (Counted => Counted')
BY DEF outVars, bufVars, consVars, Sent, Counted

LEMMA MoreDigitsRest ==
  ASSUME TInv, MoreDigits, TInv'
  PROVE  Rest' = Rest /\ pc' = "num"
<1>1. FmtTypeOK /\ FmtTypeOK' /\ pc = "num" /\ pc' = "num" /\ num >= 0 /\ num' >= 0 /\ num >= base
  BY DEF TInv, MoreDigits, Printing
<1>2. PICK n \in Nat, b \in 2..16, w \in Int, pad \in Char :
        n = num /\ b = base /\ w = width /\ pad = padc
  BY <1>1, NumberTextIs
<1>3. PICK d \in Nat, r \in 0..15 : d = n \div b /\ r = n % b
        /\ do_div(num, base).n = d /\ do_div(num, base).res = r
  <2>1. num \div base \in 0..num /\ num % base \in 0..15
        /\ do_div(num, base).n = num \div base /\ do_div(num, base).res = num % base
    BY <1>1, DoDiv
  <2>2. n \div b \in Nat /\ n % b \in 0..15
    BY <1>2, <2>1
  <2>3. QED
    BY <1>2, <2>1, <2>2
<1>4. PICK ch \in Char : ch = Digit[r + 1]
  <2>1. r + 1 \in 1..16
    OBVIOUS
  <2>2. QED
    BY <2>1, DigitIsChar
<1>5. pending' = <<ch>> \o pending /\ num' = d /\ width' = w - 1 /\ padc' = pad /\ base' = b
  BY <1>2, <1>3, <1>4 DEF MoreDigits
<1>6. Numeral(n, b) = Numeral(d, b) \o <<ch>>
  <2>1. Numeral(n, b) = Numeral(n \div b, b) \o <<Digit[(n % b) + 1]>>
    BY <1>1, <1>2, NumeralOfMore
  <2>2. QED
    BY <1>3, <1>4, <2>1
<1>7. PICK s \in Seq(Char) : s = Numeral(d, b)
  BY NumeralIs
<1>8. LeftPad(s \o <<ch>>, w, pad) = LeftPad(s, w - 1, pad) \o <<ch>>
  BY LeftPadMore
<1>9. PICK t \in Seq(Char) : t = LeftPad(s, w - 1, pad)
  <2>1. PICK v \in Int : v = w - 1
    OBVIOUS
  <2>2. QED
    BY <2>1, LeftPadIs
<1>10. PICK e \in Seq(Char) : e = <<ch>>
  BY OneChar
<1>11. PICK u \in Seq(Char) : u = pending
  BY <1>1 DEF FmtTypeOK
<1>12. (t \o e) \o u = t \o (e \o u)
  BY ConcatAssociative, SMTT(30)
<1>13. NumberText = t \o e
  BY <1>2, <1>6, <1>7, <1>8, <1>9, <1>10 DEF NumberText
<1>14. NumberText' = t
  BY <1>5, <1>7, <1>9 DEF NumberText
<1>15. Rest = (t \o e) \o u
  BY <1>1, <1>11, <1>13, RestIs
<1>16. Rest' = NumberText' \o pending'
  BY <1>1 DEF Rest
<1>17. QED
  BY <1>1, <1>5, <1>10, <1>11, <1>12, <1>14, <1>15, <1>16

LEMMA PadNumberRest ==
  ASSUME TInv, PadNumber, TInv'
  PROVE  putch(padc) /\ padc \in Char /\ Rest = <<padc>> \o Rest' /\ Rest' \in Seq(Char) /\ pc' = "num"
<1>1. FmtTypeOK /\ FmtTypeOK' /\ pc = "num" /\ pc' = "num" /\ num >= 0 /\ num < base /\ width > 1
      /\ putch(padc) /\ num' = num /\ base' = base /\ padc' = padc /\ pending' = pending
      /\ width' = width - 1
  BY DEF TInv, PadNumber, Printing, numVars
<1>2. PICK n \in Nat, b \in 2..16, w \in Int, pad \in Char :
        n = num /\ b = base /\ w = width /\ pad = padc
  BY <1>1, NumberTextIs
<1>3. PICK s \in Seq(Char) : s = Numeral(n, b) /\ Len(s) = 1
  <2>1. b \in Nat \ {0, 1} /\ n < b
    BY <1>1, <1>2
  <2>2. Places(n, b) = 1
    BY <2>1, OnePlace
  <2>3. QED
    BY <2>2, NumeralIs
<1>4. LeftPad(s, w, pad) = <<pad>> \o LeftPad(s, w - 1, pad)
  <2>1. w > Len(s)
    BY <1>1, <1>2, <1>3
  <2>2. QED
    BY <2>1, LeftPadIs
<1>5. PICK t \in Seq(Char) : t = LeftPad(s, w - 1, pad)
  <2>1. PICK v \in Int : v = w - 1
    OBVIOUS
  <2>2. QED
    BY <2>1, LeftPadIs
<1>6. PICK e \in Seq(Char) : e = <<pad>>
  BY OneChar
<1>7. PICK u \in Seq(Char) : u = pending
  BY <1>1 DEF FmtTypeOK
<1>8. (e \o t) \o u = e \o (t \o u)
  BY ConcatAssociative
<1>9. NumberText = e \o t
  BY <1>2, <1>3, <1>4, <1>5, <1>6 DEF NumberText
<1>10. NumberText' = t
  BY <1>1, <1>2, <1>3, <1>5 DEF NumberText
<1>11. Rest = (e \o t) \o u
  BY <1>1, <1>7, <1>9, RestIs
<1>12. Rest' = t \o u
  <2>1. Rest' = NumberText' \o pending'
    BY <1>1 DEF Rest
  <2>2. QED
    BY <1>1, <1>7, <1>10, <2>1
<1>13. t \o u \in Seq(Char)
  BY ConcatProperties
<1>14. QED
  BY <1>1, <1>2, <1>6, <1>8, <1>11, <1>12, <1>13

LEMMA FirstDigitRest ==
  ASSUME TInv, FirstDigit, TInv'
  PROVE  Rest' = Rest /\ pc' = "emit"
<1>1. FmtTypeOK /\ FmtTypeOK' /\ pc = "num" /\ pc' = "emit" /\ num >= 0 /\ num < base /\ width <= 1
      /\ num' = -1 /\ pending' = <<Digit[do_div(num, base).res + 1]>> \o pending
  BY DEF TInv, FirstDigit, Printing
<1>2. PICK n \in Nat, b \in 2..16, w \in Int, pad \in Char :
        n = num /\ b = base /\ w = width /\ pad = padc
  BY <1>1, NumberTextIs
<1>3. do_div(num, base).res = n
  <2>1. do_div(num, base).res = num % base
    BY <1>1, DoDiv
  <2>2. n % b = n
    <3>1. n < b
      BY <1>1, <1>2
    <3>2. QED
      BY <3>1
  <2>3. QED
    BY <1>2, <2>1, <2>2
<1>4. Numeral(n, b) = <<Digit[n + 1]>>
  <2>1. n \in 0..(b - 1)
    BY <1>1, <1>2
  <2>2. QED
    BY <2>1, NumeralOfDigit
<1>5. PICK s \in Seq(Char) : s = Numeral(n, b) /\ Len(s) = 1
  <2>1. b \in Nat \ {0, 1} /\ n < b
    BY <1>1, <1>2
  <2>2. Places(n, b) = 1
    BY <2>1, OnePlace
  <2>3. QED
    BY <2>2, NumeralIs
<1>6. LeftPad(s, w, pad) = s
  <2>1. w <= Len(s)
    BY <1>1, <1>2, <1>5
  <2>2. QED
    BY <2>1, LeftPadIs
<1>7. NumberText = s
  BY <1>2, <1>5, <1>6 DEF NumberText
<1>8. PICK u \in Seq(Char) : u = pending
  BY <1>1 DEF FmtTypeOK
<1>9. Rest = s \o u
  BY <1>1, <1>7, <1>8, RestIs
<1>10. pending' = s \o u
  BY <1>1, <1>3, <1>4, <1>5, <1>8
<1>11. Rest' = pending' \o <<>>
  BY <1>1 DEF Rest
<1>12. s \o u \in Seq(Char)
  BY ConcatProperties
<1>13. (s \o u) \o <<>> = s \o u
  BY <1>12, ConcatEmptySeq
<1>14. QED
  BY <1>1, <1>9, <1>10, <1>11, <1>13

LEMMA EmitRest ==
  ASSUME TInv, Emit, TInv'
  PROVE  /\ Head(pending) \in Char /\ putch(Head(pending))
         /\ Rest = <<Head(pending)>> \o Rest' /\ Rest' \in Seq(Char)
         /\ pc' \in {"text", "num", "emit"}
<1>1. /\ FmtTypeOK /\ FmtTypeOK' /\ pc = "emit" /\ pending # <<>> /\ pending \in Seq(Char)
      /\ putch(Head(pending)) /\ pending' = Tail(pending) /\ pc' = After(Tail(pending), num)
      /\ num' = num /\ base' = base /\ width' = width /\ padc' = padc
  BY DEF TInv, Emit, Printing, FmtTypeOK, flags
<1>2. PICK h \in Char, t \in Seq(Char) : h = Head(pending) /\ t = Tail(pending)
  BY <1>1
<1>3. pending = <<h>> \o t
  <2>1. Len(pending) = Len(t) + 1 /\ pending[1] = h /\ \A i \in 1..Len(t) : pending[i + 1] = t[i]
    BY <1>1, <1>2
  <2>2. QED
    BY <1>1, <2>1, FirstThen
<1>4. PICK s \in Seq(Char) : s = IF num >= 0 THEN NumberText ELSE <<>>
  <2>1. num >= 0 => NumberText \in Seq(Char)
    BY <1>1, NumberTextIs
  <2>2. <<>> \in Seq(Char)
    OBVIOUS
  <2>3. QED
    BY <2>1, <2>2
<1>5. NumberText' = NumberText
  BY <1>1 DEF NumberText
<1>6. Rest = pending \o s
  BY <1>1, <1>4, RestIs
<1>7. Rest' = t \o s
  <2>1. CASE t # <<>>
    <3>1. pc' = "emit"
      BY <1>1, <1>2, <2>1 DEF After
    <3>2. Rest' = pending' \o (IF num' >= 0 THEN NumberText' ELSE <<>>)
      BY <3>1 DEF Rest
    <3>3. QED
      BY <1>1, <1>2, <1>4, <1>5, <3>2
  <2>2. CASE t = <<>> /\ num >= 0
    <3>1. pc' = "num"
      BY <1>1, <1>2, <2>2 DEF After
    <3>2. Rest' = NumberText' \o pending'
      BY <3>1 DEF Rest
    <3>3. Rest' = s \o <<>>
      BY <1>1, <1>2, <1>4, <1>5, <2>2, <3>2
    <3>4. s \o <<>> = s /\ <<>> \o s = s
      BY ConcatEmptySeq
    <3>5. QED
      BY <2>2, <3>3, <3>4
  <2>3. CASE t = <<>> /\ ~(num >= 0)
    <3>1. pc' = "text"
      BY <1>1, <1>2, <2>3 DEF After
    <3>2. Rest' = <<>>
      BY <3>1 DEF Rest
    <3>3. s = <<>> /\ <<>> \o s = s
      BY <1>4, <2>3, ConcatEmptySeq
    <3>4. QED
      BY <2>3, <3>2, <3>3
  <2>4. QED
    BY <2>1, <2>2, <2>3
<1>8. PICK e \in Seq(Char) : e = <<h>>
  BY OneChar
<1>9. (e \o t) \o s = e \o (t \o s) /\ t \o s \in Seq(Char)
  BY ConcatAssociative, ConcatProperties
<1>10. pc' \in {"text", "num", "emit"}
  BY <1>1 DEF After
<1>11. QED
  BY <1>1, <1>2, <1>3, <1>6, <1>7, <1>8, <1>9, <1>10

LEMMA LeadRest ==
  ASSUME TInv, Lead, TInv'
  PROVE  IF width > 0
         THEN putch(padc) /\ padc \in Char /\ Rest = <<padc>> \o Rest' /\ Rest' \in Seq(Char) /\ pc' = "lead"
         ELSE Rest' = Rest /\ UNCHANGED outVars /\ pc' = "chars"
<1>1. /\ FmtTypeOK /\ pc = "lead"
      /\ q' = q /\ precision' = precision /\ altflag' = altflag /\ padc' = padc
  BY DEF TInv, Lead
<1>2. Shows' = Shows
  BY <1>1 DEF Shows
<1>3. PICK s \in Seq(Char), w \in Int, pad \in Char : s = Shows /\ w = width /\ pad = padc
  BY <1>1, ShowsIs
<1>4. Rest = Rep(pad, w) \o s
  BY <1>1, <1>3, RestIs
<1>5. CASE width > 0
  <2>1. putch(padc) /\ width' = w - 1 /\ pc' = "lead"
    BY <1>1, <1>3, <1>5 DEF Lead
  <2>2. PICK r \in Seq(Char) : r = Rep(pad, w - 1)
    <3>1. PICK v \in Int : v = w - 1
      OBVIOUS
    <3>2. QED
      BY <3>1, RepIs
  <2>3. Rep(pad, w) = <<pad>> \o r
    BY <1>3, <1>5, <2>2, RepFirst
  <2>4. PICK e \in Seq(Char) : e = <<pad>>
    BY OneChar
  <2>5. (e \o r) \o s = e \o (r \o s) /\ r \o s \in Seq(Char)
    BY ConcatAssociative, ConcatProperties
  <2>6. Rest' = Rep(padc', width') \o Shows'
    BY <2>1 DEF Rest
  <2>7. Rest' = r \o s
    BY <1>1, <1>2, <1>3, <2>1, <2>2, <2>6
  <2>8. QED
    BY <1>3, <1>4, <1>5, <2>1, <2>3, <2>4, <2>5, <2>7
<1>6. CASE ~(width > 0)
  <2>1. UNCHANGED outVars /\ width' = w /\ pc' = "chars"
    BY <1>1, <1>3, <1>6 DEF Lead
  <2>2. PICK k \in Int : k = w - Len(s)
    OBVIOUS
  <2>3. k <= 0 /\ w <= 0
    <3>1. Len(s) \in Nat
      OBVIOUS
    <3>2. QED
      BY <1>3, <1>6, <2>2, <3>1
  <2>4. Rep(pad, w) = <<>> /\ Rep(Space, k) = <<>>
    BY <2>3, RepNone, LiteralsAreChars
  <2>5. Rest' = Shows' \o Rep(Space, width' - Len(Shows'))
    BY <2>1 DEF Rest
  <2>6. Rest' = s \o <<>>
    BY <1>2, <1>3, <2>1, <2>2, <2>4, <2>5
  <2>7. s \o <<>> = s /\ <<>> \o s = s
    BY ConcatEmptySeq
  <2>8. QED
    BY <1>4, <1>6, <2>1, <2>4, <2>6, <2>7
<1>7. QED
  BY <1>5, <1>6

LEMMA CharsRest ==
  ASSUME TInv, Chars, TInv'
  PROVE  IF q # <<>> /\ precision # 0
         THEN /\ putch(Shown(Head(q))) /\ Shown(Head(q)) \in Char
              /\ Rest = <<Shown(Head(q))>> \o Rest' /\ Rest' \in Seq(Char) /\ pc' = "chars"
         ELSE Rest' = Rest /\ UNCHANGED outVars /\ pc' = "trail"
<1>1. /\ FmtTypeOK /\ FmtTypeOK' /\ pc = "chars" /\ altflag' = altflag /\ padc' = padc
  BY DEF TInv, Chars
<1>2. PICK s \in Seq(Char), prc \in Int, alt \in BOOLEAN, w \in Int :
        s = q /\ prc = precision /\ alt = altflag /\ w = width
  BY <1>1, ShowsIs
<1>3. Rest = Shows \o Rep(Space, w - Len(Shows))
  BY <1>1, <1>2, RestIs
<1>4. CASE q # <<>> /\ precision # 0
  <2>1. /\ putch(Shown(Head(s))) /\ q' = Tail(s) /\ width' = w - 1
        /\ precision' = (IF prc < 0 THEN prc ELSE prc - 1) /\ pc' = "chars"
    BY <1>1, <1>2, <1>4 DEF Chars
  <2>2. PICK left \in Int : left = IF prc < 0 THEN prc ELSE prc - 1
    OBVIOUS
  <2>3. PICK c : c = IF alt /\ Head(s) \in Unprintable THEN "?" ELSE Head(s)
    OBVIOUS
  <2>4. /\ Tail(s) \in Seq(Char) /\ c \in Char
        /\ Part(s, prc, alt) = <<c>> \o Part(Tail(s), left, alt)
        /\ Len(Part(s, prc, alt)) = Len(Part(Tail(s), left, alt)) + 1
    <3>1. s # <<>> /\ prc # 0
      BY <1>2, <1>4
    <3>2. QED
      BY <2>2, <2>3, <3>1, PartFirst
  <2>5. c = Shown(Head(q))
    BY <1>2, <2>3 DEF Shown
  <2>6. PICK t \in Seq(Char) : t = Part(Tail(s), left, alt)
    BY <2>4, PartIs
  <2>7. Shows = <<c>> \o t /\ Shows' = t /\ Len(Shows) = Len(t) + 1
    BY <1>1, <1>2, <2>1, <2>2, <2>4, <2>6 DEF Shows
  <2>8. PICK k \in Int : k = w - Len(Shows)
    <3>1. Len(Shows) \in Nat
      BY <1>1, ShowsIs
    <3>2. QED
      BY <3>1
  <2>9. k = (w - 1) - Len(t)
    BY <2>7, <2>8
  <2>10. PICK r \in Seq(Char) : r = Rep(Space, k)
    BY RepIs, LiteralsAreChars
  <2>11. Rest' = Shows' \o Rep(Space, width' - Len(Shows'))
    BY <2>1 DEF Rest
  <2>12. Rest' = t \o r
    BY <2>1, <2>7, <2>9, <2>10, <2>11
  <2>13. PICK e \in Seq(Char) : e = <<c>>
    BY <2>4, OneChar
  <2>14. (e \o t) \o r = e \o (t \o r) /\ t \o r \in Seq(Char)
    BY ConcatAssociative, ConcatProperties, SMTT(30)
  <2>15. QED
    BY <1>2, <1>3, <1>4, <2>1, <2>4, <2>5, <2>7, <2>8, <2>10, <2>12, <2>13, <2>14
<1>5. CASE ~(q # <<>> /\ precision # 0)
  <2>1. UNCHANGED outVars /\ width' = w /\ pc' = "trail"
    BY <1>1, <1>2, <1>5 DEF Chars
  <2>2. Shows = <<>>
    <3>1. s = <<>> \/ prc = 0
      BY <1>2, <1>5
    <3>2. Part(s, prc, alt) = <<>>
      BY <3>1, PartEnds
    <3>3. QED
      BY <1>2, <3>2 DEF Shows
  <2>3. w - Len(Shows) = w
    BY <2>2
  <2>4. PICK r \in Seq(Char) : r = Rep(Space, w)
    BY RepIs, LiteralsAreChars
  <2>5. Rest = <<>> \o r
    BY <1>3, <2>2, <2>3, <2>4
  <2>6. <<>> \o r = r
    BY ConcatEmptySeq
  <2>7. Rest' = Rep(Space, width')
    BY <2>1 DEF Rest
  <2>8. QED
    BY <1>5, <2>1, <2>4, <2>5, <2>6, <2>7
<1>6. QED
  BY <1>4, <1>5

LEMMA TrailRest ==
  ASSUME TInv, Trail, TInv'
  PROVE  IF width > 0
         THEN putch(Space) /\ Space \in Char /\ Rest = <<Space>> \o Rest' /\ Rest' \in Seq(Char) /\ pc' = "trail"
         ELSE Rest' = Rest /\ UNCHANGED outVars /\ pc' = "text"
<1>1. FmtTypeOK /\ pc = "trail"
  BY DEF TInv, Trail
<1>2. PICK w \in Int : w = width
  BY <1>1, ShowsIs
<1>3. Rest = Rep(Space, w)
  BY <1>1, <1>2, RestIs
<1>4. CASE width > 0
  <2>1. putch(Space) /\ width' = w - 1 /\ pc' = "trail"
    BY <1>1, <1>2, <1>4 DEF Trail
  <2>2. PICK r \in Seq(Char) : r = Rep(Space, w - 1)
    <3>1. PICK v \in Int : v = w - 1
      OBVIOUS
    <3>2. QED
      BY <3>1, RepIs, LiteralsAreChars
  <2>3. Rep(Space, w) = <<Space>> \o r
    BY <1>2, <1>4, <2>2, RepFirst, LiteralsAreChars
  <2>4. Rest' = Rep(Space, width')
    BY <2>1 DEF Rest
  <2>5. QED
    BY <1>3, <1>4, <2>1, <2>2, <2>3, <2>4, LiteralsAreChars
<1>5. CASE ~(width > 0)
  <2>1. UNCHANGED outVars /\ pc' = "text"
    BY <1>1, <1>5 DEF Trail
  <2>2. w <= 0
    BY <1>2, <1>5
  <2>3. Rep(Space, w) = <<>>
    BY <2>2, RepNone, LiteralsAreChars
  <2>4. Rest' = <<>>
    BY <2>1 DEF Rest
  <2>5. QED
    BY <1>3, <1>5, <2>1, <2>3, <2>4
<1>6. QED
  BY <1>4, <1>5

\* What a loop prints is the beginning of what was to be printed.
LEMMA LoopSends ==
  ASSUME TInv, BufTypeOK, TInv',
         MoreDigits \/ PadNumber \/ FirstDigit \/ Emit \/ Lead \/ Chars \/ Trail
  PROVE  /\ Sent' \o Rest' = Sent \o Rest
         /\ UNCHANGED <<via, fmt, p, args>> /\ pc' \in Printing_pc /\ pc \in Printing_pc
         /\ Counted => Counted'
<1>1. FmtTypeOK
  BY DEF TInv
<1>2. UNCHANGED <<via, fmt, p, args>> /\ pc \in Printing_pc
  BY DEF MoreDigits, PadNumber, FirstDigit, Emit, Lead, Chars, Trail, Printing_pc, numVars
<1>3. ASSUME NEW ch \in Char, putch(ch), Rest = <<ch>> \o Rest', Rest' \in Seq(Char)
      PROVE  Sent' \o Rest' = Sent \o Rest /\ (Counted => Counted')
  <2>1. PICK s \in Seq(Char) : s = Rest'
    BY <1>3
  <2>2. PICK r \in Seq(Char) : r = Rest
    <3>1. <<ch>> \in Seq(Char)
      BY OneChar
    <3>2. QED
      BY <1>3, <3>1, ConcatProperties
  <2>3. Sent' \o s = Sent \o r
    BY <1>1, <1>2, <1>3, <2>1, <2>2, FirstSent
  <2>4. Counted => Counted'
    BY <1>1, <1>2, <1>3, PutchSends DEF Counted
  <2>5. QED
    BY <2>1, <2>2, <2>3, <2>4
<1>4. ASSUME Rest' = Rest, UNCHANGED outVars
      PROVE  Sent' \o Rest' = Sent \o Rest /\ (Counted => Counted')
  BY <1>2, <1>4, NoneSent
<1>5. CASE MoreDigits
  <2>1. UNCHANGED outVars
    BY <1>5 DEF MoreDigits
  <2>2. QED
    BY <1>2, <1>4, <1>5, <2>1, MoreDigitsRest DEF Printing_pc
<1>6. CASE PadNumber
  BY <1>2, <1>3, <1>6, PadNumberRest DEF Printing_pc
<1>7. CASE FirstDigit
  <2>1. UNCHANGED outVars
    BY <1>7 DEF FirstDigit
  <2>2. QED
    BY <1>2, <1>4, <1>7, <2>1, FirstDigitRest DEF Printing_pc
<1>8. CASE Emit
  BY <1>2, <1>3, <1>8, EmitRest DEF Printing_pc
<1>9. CASE Lead
  BY <1>2, <1>3, <1>4, <1>9, LeadRest DEF Printing_pc
<1>10. CASE Chars
  BY <1>2, <1>3, <1>4, <1>10, CharsRest DEF Printing_pc
<1>11. CASE Trail
  BY <1>2, <1>3, <1>4, <1>11, TrailRest DEF Printing_pc
<1>12. QED
  BY <1>5, <1>6, <1>7, <1>8, <1>9, <1>10, <1>11

------------------------------------------------------------------------------
(***************************************************************************)
(* The steps that read an escape sequence: what the loop has in its        *)
(* variables is what the modifiers read so far mean together.              *)
(***************************************************************************)
\* An escape sequence is being read: it is the item after j others and begins
\* at i; prev are the arguments of those, a the values of its own stars.
Inside(j, i, prev, a) ==
  /\ j \in 0..Len(fmt) /\ i \in 1..Len(fmt) /\ Cursor(fmt)[j].at = i
  /\ fmt[i] = "%" /\ i < p /\ \A k \in (i + 1)..(p - 1) : CharAt(fmt, k) \in Modifiers
  /\ prev \in Seq(Args) /\ a \in Seq(Args) /\ a \in Seq(Int)
  /\ args = prev \o a /\ Len(prev) = Cursor(fmt)[j].taken
  /\ Sent = Texts(fmt, prev, j)

\* Its modifiers before the pointer have been read, a number as a whole.
Reading(j, i, prev, a) ==
  /\ Inside(j, i, prev, a)
  /\ Reads(fmt, i + 1, p - 1, a, width, padc, lflag, altflag)
  /\ precision = PrecOf(fmt, i + 1, p - 1, a)
  /\ InNumber(fmt, i + 1, p - 1) => ~IsDigit(CharAt(fmt, p))

\* The pointer is behind the first digits of a number, which are in precision.
ReadingNumber(j, i, prev, a) ==
  /\ Inside(j, i, prev, a) /\ i + 2 <= p
  /\ Reads(fmt, i + 1, p - 2, a, width, padc, lflag, altflag)
  /\ InNumber(fmt, i + 1, p - 1)
  /\ precision = ValueAt(fmt, First(Begins(fmt, i + 1, p - 1)), p - 1)

LEMMA InsideTypes ==
  ASSUME TInv, NEW j, NEW i, NEW prev, NEW a, Inside(j, i, prev, a)
  PROVE  /\ fmt \in Seq(Char) /\ Len(fmt) \in Nat /\ p \in Nat \ {0} /\ p <= Len(fmt) + 1
         /\ j \in Nat /\ i \in Nat \ {0} /\ i < p /\ i <= Len(fmt)
         /\ width \in Int /\ precision \in Int /\ lflag \in Nat /\ altflag \in BOOLEAN
         /\ prev \in Seq(Args) /\ a \in Seq(Args) /\ a \in Seq(Int)
         /\ FmtTypeOK
<1>1. FmtTypeOK
  BY DEF TInv
<1>2. fmt \in Seq(Char) /\ Len(fmt) \in Nat /\ p \in 1..(Len(fmt) + 1)
      /\ width \in Int /\ precision \in Int /\ lflag \in Nat /\ altflag \in BOOLEAN
  BY <1>1 DEF FmtTypeOK
<1>3. QED
  BY <1>1, <1>2 DEF Inside

\* A modifier more is read.
LEMMA InsideOn ==
  ASSUME TInv, NEW j, NEW i, NEW prev, NEW a, Inside(j, i, prev, a),
         UNCHANGED outVars, via' = via, fmt' = fmt,
         p' = p \/ (p' = p + 1 /\ CharAt(fmt, p) \in Modifiers),
         NEW b \in Seq(Args), b \in Seq(Int), args' = prev \o b
  PROVE  Inside(j, i, prev, b)'
<1>1. p \in Nat /\ i \in Nat /\ i < p
  BY InsideTypes
<1>2. Sent' = Sent
  BY NoneSent
<1>3. i < p' /\ \A k \in (i + 1)..(p' - 1) : CharAt(fmt, k) \in Modifiers
  <2>1. \A k \in (i + 1)..(p - 1) : CharAt(fmt, k) \in Modifiers
    BY DEF Inside
  <2>2. \A k \in (i + 1)..(p' - 1) : k \in (i + 1)..(p - 1) \/ (k = p /\ p' # p)
    BY <1>1
  <2>3. QED
    BY <1>1, <2>1, <2>2
<1>4. QED
  BY <1>2, <1>3 DEF Inside

LEMMA FlagRead ==
  ASSUME TInv, NEW j, NEW i, NEW prev, NEW a, Reading(j, i, prev, a),
         NEW ch \in {"-", "0", "#", "l"}, Reswitch(ch), args' = args, width' = width,
         precision' = precision, padc' = IF ch \in {"-", "0"} THEN ch ELSE padc,
         lflag' = IF ch = "l" THEN lflag + 1 ELSE lflag, altflag' = (altflag \/ ch = "#")
  PROVE  Reading(j, i, prev, a)'
<1>1. Inside(j, i, prev, a)
  BY DEF Reading
<1>2. /\ fmt \in Seq(Char) /\ p \in Nat \ {0} /\ i \in Nat \ {0} /\ i < p /\ width \in Int
      /\ lflag \in Nat /\ altflag \in BOOLEAN /\ a \in Seq(Args) /\ a \in Seq(Int)
  BY <1>1, InsideTypes
<1>3. UNCHANGED outVars /\ via' = via /\ fmt' = fmt /\ p' = p + 1 /\ CharAt(fmt, p) = ch
  BY DEF Reswitch, Ch
<1>4. ch \in Modifiers /\ (IsDigit(ch) <=> ch = "0") /\ ch \notin {"*", "."}
  <2>1. IsDigit(ch) <=> ch = "0"
    BY DigitsAre
  <2>2. QED
    BY <2>1 DEF Modifiers, IsDigit
<1>5. Inside(j, i, prev, a)'
  <2>1. args' = prev \o a
    BY <1>1 DEF Inside
  <2>2. QED
    BY <1>1, <1>2, <1>3, <1>4, <2>1, InsideOn
<1>6. PICK f \in Seq(Char), lo \in Nat, hi \in Nat :
        f = fmt /\ lo = i + 1 /\ hi = p - 1 /\ hi + 1 = p /\ lo <= hi + 1
  BY <1>2
<1>7. /\ Reads(f, lo, hi, a, width, padc, lflag, altflag) /\ precision = PrecOf(f, lo, hi, a)
      /\ InNumber(f, lo, hi) => ~IsDigit(ch) /\ CharAt(f, hi + 1) = ch
  BY <1>3, <1>6 DEF Reading
<1>8. CharAt(f, hi + 1) = ch
  BY <1>3, <1>6
<1>9. ~InNumber(f, lo, hi + 1)
  <2>1. Begins(f, lo, hi + 1)
           = IF IsDigit(ch) THEN Begins(f, lo, hi) \cup (IF ch = "0" THEN {} ELSE {hi + 1}) ELSE {}
    BY <1>6, <1>8, BeginsMore
  <2>2. IsDigit(ch) => Begins(f, lo, hi) = {} /\ ch = "0"
    BY <1>4, <1>7 DEF InNumber
  <2>3. QED
    BY <2>1, <2>2 DEF InNumber
<1>10. ~IsSetter(f, lo, hi + 1) /\ (IsPad(f, lo, hi + 1) <=> ch \in {"-", "0"})
  BY <1>4, <1>8, <1>9 DEF IsSetter, IsPad
<1>11. /\ Reads(f, lo, hi + 1, a, width, IF IsPad(f, lo, hi + 1) THEN ch ELSE padc,
                IF ch = "l" THEN lflag + 1 ELSE lflag, altflag \/ ch = "#")
       /\ PrecOf(f, lo, hi + 1, a) = PrecOf(f, lo, hi, a)
  BY <1>2, <1>4, <1>6, <1>7, <1>8, <1>10, ReadsFlag
<1>12. PICK pad : pad = IF IsPad(f, lo, hi + 1) THEN ch ELSE padc
  OBVIOUS
<1>13. pad = padc'
  BY <1>10, <1>12
<1>14. Reads(f, lo, hi + 1, a, width', padc', lflag', altflag')
  BY <1>11, <1>12, <1>13
<1>15. p' - 1 = hi + 1 /\ fmt' = f /\ i + 1 = lo
  BY <1>3, <1>6
<1>16. QED
  BY <1>5, <1>7, <1>9, <1>11, <1>14, <1>15 DEF Reading

LEMMA BeginEscapeReads ==
  ASSUME TInv, TInv', BeginEscape, NEW j \in 0..Len(fmt), Cursor(fmt)[j].at = p,
         Cursor(fmt)[j].taken = Len(args), Sent = Texts(fmt, args, j),
         NEW i, i = p, NEW prev, prev = args
  PROVE  Reading(j, i, prev, <<>>)'
<1>0. FmtTypeOK /\ args \in Seq(Args)
  BY DEF TInv
<1>1. fmt \in Seq(Char) /\ Len(fmt) \in Nat /\ p \in Nat \ {0}
  BY <1>0 DEF FmtTypeOK
<1>2. /\ UNCHANGED outVars /\ via' = via /\ fmt' = fmt /\ p' = p + 1 /\ Ch(p) = "%" /\ args' = args
      /\ padc' = Space /\ width' = -1 /\ precision' = -1 /\ lflag' = 0
  BY DEF BeginEscape
<1>3. altflag' = FALSE
  BY DEF BeginEscape
<1>4. p \in 1..Len(fmt) /\ fmt[p] = "%"
  <2>1. "%" # NUL
    BY LiteralsAreChars
  <2>2. QED
    BY <1>0, <1>1, <1>2, <2>1, ChIsChar
<1>5. Sent' = Sent
  BY <1>2, NoneSent
<1>6. <<>> \in Seq(Args) /\ <<>> \in Seq(Int) /\ args = args \o <<>>
  <2>1. args \o <<>> = args
    BY <1>0, ConcatEmptySeq
  <2>2. QED
    BY <2>1
<1>7. Inside(j, i, prev, <<>>)'
  <2>1. i < p' /\ (i + 1)..(p' - 1) = {}
    BY <1>1, <1>2
  <2>2. QED
    BY <1>0, <1>1, <1>2, <1>4, <1>5, <1>6, <2>1 DEF Inside
<1>8. PICK lo \in Nat \ {0}, hi \in Nat : lo = i + 1 /\ hi = p /\ hi = p' - 1 /\ lo = hi + 1
  BY <1>1, <1>2
<1>9. /\ Reads(fmt, lo, hi, <<>>, -1, Space, 0, FALSE)
      /\ PrecOf(fmt, lo, hi, <<>>) = -1
      /\ ~InNumber(fmt, lo, hi)
  BY <1>1, <1>8, ReadsNothing
<1>10. Reads(fmt, lo, hi, <<>>, width', padc', lflag', altflag')
  BY <1>2, <1>3, <1>9
<1>11. QED
  BY <1>2, <1>7, <1>8, <1>9, <1>10 DEF Reading

LEMMA DigitIsModifier ==
  ASSUME NEW ch, IsDigit(ch)
  PROVE  ch \in Modifiers /\ ch \notin {"-", "*", ".", "#", "l"}
<1>1. ch \in Modifiers
  BY DEF Modifiers, IsDigit
<1>2. ch \in {"0", "1", "2", "3", "4", "5", "6", "7", "8", "9"}
  BY DigitsAre
<1>3. QED
  BY <1>1, <1>2

LEMMA NumberBeginsReads ==
  ASSUME TInv, NEW j, NEW i, NEW prev, NEW a, Reading(j, i, prev, a), NumberBegins
  PROVE  ReadingNumber(j, i, prev, a)'
<1>1. Inside(j, i, prev, a)
  BY DEF Reading
<1>2. /\ fmt \in Seq(Char) /\ p \in Nat \ {0} /\ i \in Nat \ {0} /\ i < p
      /\ a \in Seq(Args) /\ a \in Seq(Int)
  BY <1>1, InsideTypes
<1>3. /\ UNCHANGED outVars /\ via' = via /\ fmt' = fmt /\ p' = p + 1 /\ args' = args
      /\ IsDigit(CharAt(fmt, p)) /\ CharAt(fmt, p) # "0" /\ precision' = DigitVal(CharAt(fmt, p))
      /\ width' = width /\ padc' = padc /\ lflag' = lflag /\ altflag' = altflag
  BY DEF NumberBegins, Ch
<1>4. Inside(j, i, prev, a)'
  <2>1. args' = prev \o a /\ CharAt(fmt, p) \in Modifiers
    BY <1>1, <1>3, DigitIsModifier DEF Inside
  <2>2. QED
    BY <1>1, <1>2, <1>3, <2>1, InsideOn
<1>5. PICK f \in Seq(Char), lo \in Nat, hi \in Nat, x \in Nat :
        /\ f = fmt /\ lo = i + 1 /\ hi = p - 1 /\ hi + 1 = x /\ x = p /\ lo <= hi + 1
        /\ p' - 2 = hi /\ p' - 1 = x
  BY <1>2, <1>3
<1>6. /\ Reads(f, lo, hi, a, width, padc, lflag, altflag)
      /\ Begins(f, lo, hi) = {}
  BY <1>3, <1>5 DEF Reading, InNumber
<1>7. Begins(f, lo, x) = {x}
  <2>1. Begins(f, lo, hi + 1)
           = IF IsDigit(CharAt(f, hi + 1))
             THEN Begins(f, lo, hi) \cup (IF CharAt(f, hi + 1) = "0" THEN {} ELSE {hi + 1}) ELSE {}
    BY <1>5, BeginsMore
  <2>2. QED
    BY <1>3, <1>5, <1>6, <2>1
<1>8. First(Begins(f, lo, x)) = x
  <2>1. First({x}) = x
    <3>1. {x} \in SUBSET Nat /\ x \in {x} /\ \A y \in {x} : x <= y
      OBVIOUS
    <3>2. PICK S \in SUBSET Nat : S = {x}
      BY <3>1
    <3>3. First(S) = x
      BY <3>1, <3>2, FirstIs
    <3>4. QED
      BY <3>2, <3>3
  <2>2. QED
    BY <1>7, <2>1
<1>9. ValueAt(f, x, x) = DigitVal(CharAt(f, x))
  BY <1>3, <1>5, ValueOfDigit
<1>10. precision' = ValueAt(f, First(Begins(f, lo, x)), x) /\ InNumber(f, lo, x)
  BY <1>3, <1>5, <1>7, <1>8, <1>9 DEF InNumber
<1>11. Reads(f, lo, hi, a, width', padc', lflag', altflag')
  BY <1>3, <1>6
<1>12. fmt' = f /\ i + 1 = lo /\ i + 2 <= p'
  BY <1>2, <1>3, <1>5
<1>13. QED
  BY <1>4, <1>5, <1>10, <1>11, <1>12 DEF ReadingNumber

LEMMA NumberDigitReads ==
  ASSUME TInv, NEW j, NEW i, NEW prev, NEW a, ReadingNumber(j, i, prev, a), NumberDigit
  PROVE  ReadingNumber(j, i, prev, a)'
<1>1. Inside(j, i, prev, a)
  BY DEF ReadingNumber
<1>2. /\ fmt \in Seq(Char) /\ p \in Nat \ {0} /\ i \in Nat \ {0} /\ i < p /\ width \in Int
      /\ lflag \in Nat /\ altflag \in BOOLEAN /\ a \in Seq(Args) /\ a \in Seq(Int)
  BY <1>1, InsideTypes
<1>3. /\ UNCHANGED outVars /\ via' = via /\ fmt' = fmt /\ p' = p + 1 /\ args' = args
      /\ IsDigit(CharAt(fmt, p)) /\ precision' = precision * 10 + DigitVal(CharAt(fmt, p))
      /\ width' = width /\ padc' = padc /\ lflag' = lflag /\ altflag' = altflag
  BY DEF NumberDigit, Ch
<1>4. Inside(j, i, prev, a)'
  <2>1. args' = prev \o a /\ CharAt(fmt, p) \in Modifiers
    BY <1>1, <1>3, DigitIsModifier DEF Inside
  <2>2. QED
    BY <1>1, <1>2, <1>3, <2>1, InsideOn
<1>5. i + 2 <= p
  BY DEF ReadingNumber
<1>6. PICK f \in Seq(Char), lo \in Nat, hi \in Nat, x \in Nat, y \in Nat :
        /\ f = fmt /\ lo = i + 1 /\ hi = p - 2 /\ hi + 1 = x /\ x + 1 = y /\ y = p /\ lo <= hi + 1
        /\ p - 1 = x /\ p' - 2 = x /\ p' - 1 = y
  BY <1>2, <1>3, <1>5
<1>7. /\ Reads(f, lo, hi, a, width, padc, lflag, altflag) /\ InNumber(f, lo, x)
      /\ precision = ValueAt(f, First(Begins(f, lo, x)), x)
  BY <1>6 DEF ReadingNumber
<1>8. PICK m \in Nat : /\ m = First(Begins(f, lo, x)) /\ m \in Begins(f, lo, x)
                       /\ m \in lo..x /\ IsDigit(CharAt(f, x))
                       /\ \A k \in Begins(f, lo, x) : m <= k
  <2>1. Begins(f, lo, x) \subseteq lo..x
    BY BeginsAre
  <2>2. PICK m \in lo..x : m = First(Begins(f, lo, x))
    BY <1>7, <2>1, BeginsAre
  <2>3. /\ First(Begins(f, lo, x)) \in Begins(f, lo, x) /\ IsDigit(CharAt(f, x))
        /\ \A k \in Begins(f, lo, x) : First(Begins(f, lo, x)) <= k
    BY <1>7, BeginsAre
  <2>4. m \in Nat
    OBVIOUS
  <2>5. QED
    BY <2>2, <2>3, <2>4
<1>9. Reads(f, lo, x, a, width, padc, lflag, altflag)
  <2>1. PICK ch : ch = CharAt(f, hi + 1) /\ ch = CharAt(f, x)
    BY <1>6
  <2>2. ch \notin {"-", "*", ".", "#", "l"}
    BY <1>8, <2>1, DigitIsModifier
  <2>3. ~IsSetter(f, lo, hi + 1) /\ ~IsPad(f, lo, hi + 1)
    BY <1>3, <1>6, <1>7, <2>1, <2>2 DEF IsSetter, IsPad
  <2>4. Reads(f, lo, hi + 1, a, width, IF IsPad(f, lo, hi + 1) THEN ch ELSE padc,
              IF ch = "l" THEN lflag + 1 ELSE lflag, altflag \/ ch = "#")
    BY <1>2, <1>6, <1>7, <2>1, <2>2, <2>3, ReadsFlag
  <2>5. (altflag \/ ch = "#") = altflag
    BY <1>2, <2>2
  <2>6. (IF IsPad(f, lo, hi + 1) THEN ch ELSE padc) = padc
        /\ (IF ch = "l" THEN lflag + 1 ELSE lflag) = lflag
    BY <2>2, <2>3
  <2>7. Reads(f, lo, hi + 1, a, width, padc, lflag, altflag)
    BY <2>4, <2>5, <2>6
  <2>8. QED
    BY <1>6, <2>7
<1>10. /\ Begins(f, lo, y)
            = Begins(f, lo, x) \cup (IF CharAt(f, y) = "0" THEN {} ELSE {y})
  <2>1. Begins(f, lo, x + 1)
           = IF IsDigit(CharAt(f, x + 1))
             THEN Begins(f, lo, x) \cup (IF CharAt(f, x + 1) = "0" THEN {} ELSE {x + 1}) ELSE {}
    <3>1. lo <= x + 1
      BY <1>6
    <3>2. QED
      BY <3>1, BeginsMore
  <2>2. QED
    BY <1>3, <1>6, <2>1
<1>11. First(Begins(f, lo, y)) = m /\ InNumber(f, lo, y)
  <2>1. PICK S : S = Begins(f, lo, y)
    OBVIOUS
  <2>2. S \in SUBSET Nat
    <3>1. S \subseteq lo..y
      BY <2>1, BeginsAre
    <3>2. QED
      BY <3>1
  <2>3. m \in S /\ \A k \in S : m <= k
    <3>1. m <= y
      BY <1>6, <1>8
    <3>2. QED
      BY <1>8, <1>10, <2>1, <3>1
  <2>4. First(S) = m
    BY <2>2, <2>3, FirstIs
  <2>5. QED
    BY <2>1, <2>3, <2>4 DEF InNumber
<1>12. ValueAt(f, m, x + 1) = ValueAt(f, m, x) * 10 + DigitVal(CharAt(f, x + 1))
  <2>1. \A k \in m..x : IsDigit(CharAt(f, k))
    BY <1>8 DEF Begins
  <2>2. \A k \in m..(x + 1) : IsDigit(CharAt(f, k))
    BY <1>3, <1>6, <2>1
  <2>3. m <= x
    BY <1>8
  <2>4. QED
    BY <2>2, <2>3, ValueOfMore
<1>13. precision' = ValueAt(f, First(Begins(f, lo, y)), y)
  <2>1. precision' = ValueAt(f, m, x) * 10 + DigitVal(CharAt(f, y))
    BY <1>3, <1>6, <1>7, <1>8
  <2>2. precision' = ValueAt(f, m, y)
    BY <1>6, <1>12, <2>1
  <2>3. QED
    BY <1>11, <2>2
<1>14. Reads(f, lo, x, a, width', padc', lflag', altflag')
  BY <1>3, <1>9
<1>15. fmt' = f /\ i + 1 = lo /\ i + 2 <= p'
  BY <1>2, <1>3, <1>5, <1>6
<1>16. QED
  BY <1>4, <1>6, <1>11, <1>13, <1>14, <1>15 DEF ReadingNumber

LEMMA NumberEndsReads ==
  ASSUME TInv, NEW j, NEW i, NEW prev, NEW a, ReadingNumber(j, i, prev, a), NumberEnds
  PROVE  Reading(j, i, prev, a)'
<1>1. Inside(j, i, prev, a)
  BY DEF ReadingNumber
<1>2. /\ fmt \in Seq(Char) /\ p \in Nat \ {0} /\ i \in Nat \ {0} /\ i < p /\ width \in Int
      /\ lflag \in Nat /\ altflag \in BOOLEAN /\ a \in Seq(Args) /\ a \in Seq(Int)
      /\ precision \in Int
  BY <1>1, InsideTypes
<1>3. /\ UNCHANGED outVars /\ via' = via /\ fmt' = fmt /\ p' = p /\ args' = args
      /\ ~IsDigit(CharAt(fmt, p)) /\ padc' = padc /\ lflag' = lflag /\ altflag' = altflag
      /\ width' = (IF width < 0 THEN precision ELSE width)
      /\ precision' = (IF width < 0 THEN -1 ELSE precision)
  BY DEF NumberEnds, Ch, process_precision
<1>4. Inside(j, i, prev, a)'
  <2>1. args' = prev \o a
    BY <1>1, <1>3 DEF Inside
  <2>2. QED
    BY <1>1, <1>2, <1>3, <2>1, InsideOn
<1>5. i + 2 <= p
  BY DEF ReadingNumber
<1>6. PICK f \in Seq(Char), lo \in Nat, hi \in Nat, x \in Nat :
        /\ f = fmt /\ lo = i + 1 /\ hi = p - 2 /\ hi + 1 = x /\ x + 1 = p /\ lo <= hi + 1
        /\ p - 1 = x /\ p' - 1 = x
  BY <1>2, <1>3, <1>5
<1>7. /\ Reads(f, lo, hi, a, width, padc, lflag, altflag) /\ InNumber(f, lo, x)
      /\ precision = ValueAt(f, First(Begins(f, lo, x)), x)
  BY <1>6 DEF ReadingNumber
<1>8. IsDigit(CharAt(f, x)) /\ CharAt(f, x) \notin {"-", "*", ".", "#", "l"}
  BY <1>7, BeginsAre, DigitIsModifier
<1>9. /\ Reads(f, lo, x, a, IF width < 0 THEN precision ELSE width, padc, lflag, altflag)
      /\ PrecOf(f, lo, x, a) = IF width < 0 THEN -1 ELSE precision
  <2>1. IsSetter(f, lo, x) /\ ~IsPad(f, lo, x)
    BY <1>3, <1>6, <1>7, <1>8 DEF IsSetter, IsPad
  <2>2. Setting(f, lo, x, a) = precision
    BY <1>7, <1>8 DEF Setting
  <2>3. PICK v \in Int : v = precision
    BY <1>2
  <2>4. /\ IsSetter(f, lo, hi + 1) /\ ~IsPad(f, lo, hi + 1)
        /\ v = Setting(f, lo, hi + 1, a) /\ CharAt(f, hi + 1) \notin {"l", "#"}
        /\ CharAt(f, hi + 1) # "*" /\ CharAt(f, hi + 1) # "."
    BY <1>6, <1>8, <2>1, <2>2, <2>3
  <2>5. PICK b \in Seq(Int) :
          /\ b = a /\ Len(b) = Len(a) + (IF CharAt(f, hi + 1) = "*" THEN 1 ELSE 0)
          /\ \A k \in 1..Len(a) : b[k] = a[k]
    <3>1. Len(a) \in Nat
      BY <1>2
    <3>2. QED
      BY <1>2, <2>4, <3>1
  <2>6. PICK w \in Int, l \in Nat, alt \in BOOLEAN : w = width /\ l = lflag /\ alt = altflag
    BY <1>2
  <2>7. Reads(f, lo, hi, a, w, padc, l, alt)
    BY <1>7, <2>6
  <2>8. /\ Reads(f, lo, hi + 1, b, IF w < 0 THEN v ELSE w, padc, l, alt)
        /\ CharAt(f, hi + 1) # "." => PrecOf(f, lo, hi + 1, b) = IF w < 0 THEN -1 ELSE v
    <3>1. v = Setting(f, lo, hi + 1, b)
      BY <2>4, <2>5
    <3>2. a \in Seq(Int) /\ lo <= hi + 1
      BY <1>2, <1>6
    <3>3. QED
      BY <2>4, <2>5, <2>7, <3>1, <3>2, ReadsSetter
  <2>9. /\ Reads(f, lo, hi + 1, a, IF width < 0 THEN precision ELSE width, padc, lflag, altflag)
        /\ PrecOf(f, lo, hi + 1, a) = IF width < 0 THEN -1 ELSE precision
    BY <2>3, <2>4, <2>5, <2>6, <2>8
  <2>10. QED
    BY <1>6, <2>9
<1>10. Reads(f, lo, x, a, width', padc', lflag', altflag')
  BY <1>3, <1>9
<1>11. fmt' = f /\ i + 1 = lo /\ p' = p /\ precision' = PrecOf(f, lo, x, a)
  BY <1>3, <1>6, <1>9
<1>12. QED
  BY <1>3, <1>4, <1>6, <1>10, <1>11 DEF Reading

\* A star with the value v, or a '.', as a setter at p.
LEMMA SetterRead ==
  ASSUME TInv, NEW j, NEW i, NEW prev, NEW a, Reading(j, i, prev, a),
         NEW ch \in {"*", "."}, Reswitch(ch), UNCHANGED <<padc, lflag, altflag>>,
         NEW v \in Int, width' = IF width < 0 THEN v ELSE width,
         ch = "*" => precision' = IF width < 0 THEN -1 ELSE v,
         ch = "." => precision' = precision /\ v = 0,
         NEW b \in Seq(Int), b \in Seq(Args), args' = prev \o b,
         Len(b) = Len(a) + (IF ch = "*" THEN 1 ELSE 0), \A k \in 1..Len(a) : b[k] = a[k],
         ch = "*" => b[Len(b)] = v
  PROVE  Reading(j, i, prev, b)'
<1>1. Inside(j, i, prev, a)
  BY DEF Reading
<1>2. /\ fmt \in Seq(Char) /\ p \in Nat \ {0} /\ i \in Nat \ {0} /\ i < p
      /\ a \in Seq(Int)
  BY <1>1, InsideTypes
<1>3. UNCHANGED outVars /\ via' = via /\ fmt' = fmt /\ p' = p + 1 /\ CharAt(fmt, p) = ch
  BY DEF Reswitch, Ch
<1>4. ch \in Modifiers /\ ~IsDigit(ch) /\ ch \notin {"-", "0", "l", "#"}
  <2>1. ~IsDigit(ch)
    BY DigitsAre
  <2>2. QED
    BY <2>1 DEF Modifiers
<1>5. Inside(j, i, prev, b)'
  BY <1>1, <1>3, <1>4, InsideOn
<1>6. PICK f \in Seq(Char), lo \in Nat, hi \in Nat :
        f = fmt /\ lo = i + 1 /\ hi = p - 1 /\ hi + 1 = p /\ lo <= hi + 1
  BY <1>2
<1>7. PICK w \in Int, l \in Nat, alt \in BOOLEAN : w = width /\ l = lflag /\ alt = altflag
  BY <1>1, InsideTypes
<1>8. /\ Reads(f, lo, hi, a, w, padc, l, alt) /\ precision = PrecOf(f, lo, hi, a)
      /\ CharAt(f, hi + 1) = ch
  BY <1>3, <1>6, <1>7 DEF Reading
<1>9. ~InNumber(f, lo, hi + 1)
  <2>1. Begins(f, lo, hi + 1)
           = IF IsDigit(CharAt(f, hi + 1))
             THEN Begins(f, lo, hi) \cup (IF CharAt(f, hi + 1) = "0" THEN {} ELSE {hi + 1}) ELSE {}
    BY <1>6, BeginsMore
  <2>2. QED
    BY <1>4, <1>8, <2>1 DEF InNumber
<1>10. IsSetter(f, lo, hi + 1) /\ ~IsPad(f, lo, hi + 1)
  BY <1>4, <1>8 DEF IsSetter, IsPad
<1>11. v = Setting(f, lo, hi + 1, b)
  <2>1. CASE ch = "*"
    <3>1. Stars(f, lo, hi + 1) = Stars(f, lo, hi) + (IF CharAt(f, hi + 1) = "*" THEN 1 ELSE 0)
      BY <1>6, StarsMore
    <3>2. Len(a) = Stars(f, lo, hi)
      BY <1>8 DEF Reads
    <3>3. Stars(f, lo, hi + 1) = Len(b)
      BY <1>8, <2>1, <3>1, <3>2
    <3>4. QED
      BY <1>8, <2>1, <3>3 DEF Setting
  <2>2. CASE ch = "."
    BY <1>8, <2>2 DEF Setting
  <2>3. QED
    BY <2>1, <2>2
<1>12. /\ Reads(f, lo, hi + 1, b, IF w < 0 THEN v ELSE w, padc, l, alt)
       /\ CharAt(f, hi + 1) # "." => PrecOf(f, lo, hi + 1, b) = IF w < 0 THEN -1 ELSE v
       /\ CharAt(f, hi + 1) = "." => PrecOf(f, lo, hi + 1, b) = PrecOf(f, lo, hi, a)
  <2>1. Len(b) = Len(a) + (IF CharAt(f, hi + 1) = "*" THEN 1 ELSE 0)
        /\ CharAt(f, hi + 1) \notin {"l", "#"}
    BY <1>4, <1>8
  <2>2. a \in Seq(Int) /\ lo <= hi + 1 /\ Reads(f, lo, hi, a, w, padc, l, alt)
        /\ \A k \in 1..Len(a) : b[k] = a[k]
    BY <1>2, <1>6, <1>8
  <2>3. QED
    BY <1>10, <1>11, <2>1, <2>2, ReadsSetter
<1>13. Reads(f, lo, hi + 1, b, width', padc', lflag', altflag')
  BY <1>7, <1>12
<1>14. precision' = PrecOf(f, lo, hi + 1, b)
  BY <1>7, <1>8, <1>12
<1>15. p' - 1 = hi + 1 /\ fmt' = f /\ i + 1 = lo
  BY <1>3, <1>6
<1>16. QED
  BY <1>5, <1>9, <1>13, <1>14, <1>15 DEF Reading

\* What holds between the steps of an escape sequence.
Escapes ==
  /\ pc = "escape" => \E j, i : \E prev, a \in Seq(Args) : Reading(j, i, prev, a)
  /\ pc = "number" => \E j, i : \E prev, a \in Seq(Args) : ReadingNumber(j, i, prev, a)

LEMMA StarReads ==
  ASSUME TInv, NEW j, NEW i, NEW prev, NEW a, Reading(j, i, prev, a), Star
  PROVE  \E b \in Seq(Args) : Reading(j, i, prev, b)'
<1>1. PICK v \in IntArgs : process_precision(v) /\ args' = Append(args, v)
  BY DEF Star
<1>2. Reswitch("*") /\ UNCHANGED <<padc, lflag, altflag>>
  BY DEF Star
<1>3. v \in Int /\ v \in Args
  BY ArgTypes
<1>4. prev \in Seq(Args) /\ a \in Seq(Args) /\ a \in Seq(Int) /\ args = prev \o a
  BY DEF Reading, Inside
<1>5. PICK b \in Seq(Args) : b = Append(a, v)
  BY <1>3, <1>4, AppendProperties
<1>6. /\ b \in Seq(Int) /\ Len(b) = Len(a) + 1 /\ b[Len(b)] = v
      /\ \A k \in 1..Len(a) : b[k] = a[k] /\ Len(a) \in Nat
  BY <1>3, <1>4, <1>5
<1>7. Append(prev \o a, v) = prev \o Append(a, v)
  BY <1>3, <1>4, AppendBehind
<1>8. args' = prev \o b
  BY <1>1, <1>4, <1>5, <1>7
<1>9. width' = (IF width < 0 THEN v ELSE width) /\ precision' = (IF width < 0 THEN -1 ELSE v)
  BY <1>1 DEF process_precision
<1>10. PICK ch \in {"*", "."} : ch = "*"
  OBVIOUS
<1>11. Reading(j, i, prev, b)'
  <2>1. Len(b) = Len(a) + (IF ch = "*" THEN 1 ELSE 0)
    BY <1>6, <1>10
  <2>2. QED
    BY <1>2, <1>3, <1>6, <1>8, <1>9, <1>10, <2>1, SetterRead
<1>12. QED
  BY <1>11

LEMMA DotReads ==
  ASSUME TInv, NEW j, NEW i, NEW prev, NEW a, Reading(j, i, prev, a), Dot
  PROVE  Reading(j, i, prev, a)'
<1>1. /\ Reswitch(".") /\ UNCHANGED <<padc, precision, lflag, altflag, args>>
      /\ width' = (IF width < 0 THEN 0 ELSE width)
  BY DEF Dot
<1>2. a \in Seq(Args) /\ a \in Seq(Int) /\ args = prev \o a /\ Len(a) \in Nat
  <2>1. a \in Seq(Args) /\ a \in Seq(Int) /\ args = prev \o a
    BY DEF Reading, Inside
  <2>2. QED
    BY <2>1
<1>3. PICK ch \in {"*", "."} : ch = "."
  OBVIOUS
<1>4. Len(a) = Len(a) + (IF ch = "*" THEN 1 ELSE 0)
  BY <1>2, <1>3
<1>5. PICK v \in Int : v = 0
  OBVIOUS
<1>6. width' = (IF width < 0 THEN v ELSE width) /\ precision' = precision
  BY <1>1, <1>5
<1>7. QED
  BY <1>1, <1>2, <1>3, <1>4, <1>5, <1>6, SetterRead

LEMMA EscapeKeeps ==
  ASSUME TInv, Escapes, Escape
  PROVE  Escapes' /\ pc' \in {"escape", "number"}
<1>1. ASSUME pc = "escape", pc' = "escape",
             \A j, i : \A prev, a \in Seq(Args) :
               Reading(j, i, prev, a) => \E b \in Seq(Args) : Reading(j, i, prev, b)'
      PROVE  Escapes'
  <2>1. PICK j, i : \E prev, a \in Seq(Args) : Reading(j, i, prev, a)
    BY <1>1 DEF Escapes
  <2>2. PICK prev \in Seq(Args), a \in Seq(Args) : Reading(j, i, prev, a)
    BY <2>1
  <2>3. PICK b \in Seq(Args) : Reading(j, i, prev, b)'
    BY <1>1, <2>2
  <2>4. QED
    BY <1>1, <2>3 DEF Escapes
<1>2. ASSUME pc = "escape", pc' = "escape",
             NEW ch \in {"-", "0", "#", "l"}, Reswitch(ch), args' = args, width' = width,
             precision' = precision, padc' = IF ch \in {"-", "0"} THEN ch ELSE padc,
             lflag' = IF ch = "l" THEN lflag + 1 ELSE lflag, altflag' = (altflag \/ ch = "#")
      PROVE  Escapes'
  <2>1. ASSUME NEW j, NEW i, NEW prev \in Seq(Args), NEW a \in Seq(Args), Reading(j, i, prev, a)
        PROVE  Reading(j, i, prev, a)'
    BY <1>2, <2>1, FlagRead
  <2>2. QED
    BY <1>1, <1>2, <2>1
<1>3. altflag \in BOOLEAN
  BY DEF TInv, FmtTypeOK
<1>4. CASE PadFlag
  <2>1. PICK ch \in {"-", "0"} : Reswitch(ch) /\ padc' = ch
    BY <1>4 DEF PadFlag
  <2>2. pc = "escape" /\ pc' = "escape" /\ UNCHANGED <<width, precision, lflag, altflag, args>>
    BY <1>4, <2>1 DEF PadFlag, Reswitch
  <2>3. PICK c \in {"-", "0", "#", "l"} : c = ch
    OBVIOUS
  <2>4. altflag' = (altflag \/ c = "#") /\ lflag' = (IF c = "l" THEN lflag + 1 ELSE lflag)
        /\ padc' = (IF c \in {"-", "0"} THEN c ELSE padc) /\ Reswitch(c)
    BY <1>3, <2>1, <2>2, <2>3
  <2>5. QED
    BY <1>2, <2>2, <2>4
<1>5. CASE Hash
  <2>1. pc = "escape" /\ pc' = "escape" /\ UNCHANGED <<padc, width, precision, lflag, args>>
        /\ Reswitch("#")
    BY <1>5 DEF Hash, Reswitch
  <2>2. altflag' = TRUE
    BY <1>5 DEF Hash
  <2>3. PICK c \in {"-", "0", "#", "l"} : c = "#"
    OBVIOUS
  <2>4. altflag' = (altflag \/ c = "#") /\ lflag' = (IF c = "l" THEN lflag + 1 ELSE lflag)
        /\ padc' = (IF c \in {"-", "0"} THEN c ELSE padc) /\ Reswitch(c)
    BY <1>3, <2>1, <2>2, <2>3
  <2>5. QED
    BY <1>2, <2>1, <2>4
<1>6. CASE Ell
  <2>1. pc = "escape" /\ pc' = "escape" /\ UNCHANGED <<padc, width, precision, altflag, args>>
        /\ Reswitch("l") /\ lflag' = lflag + 1
    BY <1>6 DEF Ell, Reswitch
  <2>2. PICK c \in {"-", "0", "#", "l"} : c = "l"
    OBVIOUS
  <2>3. altflag' = (altflag \/ c = "#") /\ lflag' = (IF c = "l" THEN lflag + 1 ELSE lflag)
        /\ padc' = (IF c \in {"-", "0"} THEN c ELSE padc) /\ Reswitch(c)
    BY <1>3, <2>1, <2>2
  <2>4. QED
    BY <1>2, <2>1, <2>3
<1>7. CASE Star
  <2>1. pc = "escape" /\ pc' = "escape"
    BY <1>7 DEF Star, Reswitch
  <2>2. QED
    BY <1>1, <1>7, <2>1, StarReads
<1>8. CASE Dot
  <2>1. pc = "escape" /\ pc' = "escape"
    BY <1>8 DEF Dot, Reswitch
  <2>2. QED
    BY <1>1, <1>8, <2>1, DotReads
<1>9. CASE NumberBegins
  <2>1. pc = "escape" /\ pc' = "number"
    BY <1>9 DEF NumberBegins
  <2>2. PICK j, i : \E prev, a \in Seq(Args) : Reading(j, i, prev, a)
    BY <2>1 DEF Escapes
  <2>3. PICK prev \in Seq(Args), a \in Seq(Args) : Reading(j, i, prev, a)
    BY <2>2
  <2>4. ReadingNumber(j, i, prev, a)'
    BY <1>9, <2>3, NumberBeginsReads
  <2>5. QED
    BY <2>1, <2>4 DEF Escapes
<1>10. CASE NumberDigit \/ NumberEnds
  <2>1. pc = "number"
    BY <1>10 DEF NumberDigit, NumberEnds
  <2>2. PICK j, i : \E prev, a \in Seq(Args) : ReadingNumber(j, i, prev, a)
    BY <2>1 DEF Escapes
  <2>3. PICK prev \in Seq(Args), a \in Seq(Args) : ReadingNumber(j, i, prev, a)
    BY <2>2
  <2>4. CASE NumberDigit
    <3>1. ReadingNumber(j, i, prev, a)' /\ pc' = "number"
      BY <2>3, <2>4, NumberDigitReads DEF NumberDigit
    <3>2. QED
      BY <3>1 DEF Escapes
  <2>5. CASE NumberEnds
    <3>1. Reading(j, i, prev, a)' /\ pc' = "escape"
      BY <2>3, <2>5, NumberEndsReads DEF NumberEnds
    <3>2. QED
      BY <3>1 DEF Escapes
  <2>6. QED
    BY <1>10, <2>4, <2>5
<1>11. pc' \in {"escape", "number"}
  BY DEF Escape, PadFlag, NumberBegins, NumberDigit, NumberEnds, Star, Dot, Hash, Ell, Reswitch
<1>12. QED
  BY <1>4, <1>5, <1>6, <1>7, <1>8, <1>9, <1>10, <1>11 DEF Escape

------------------------------------------------------------------------------
\* The end of an item: a conversion that prints what it means.
\* The format f is read up to at, with the arguments a, and means out so far.
Between(f, at, a, out) ==
  \E j \in 0..Len(f) :
    Cursor(f)[j].at = at /\ Cursor(f)[j].taken = Len(a) /\ out = Texts(f, a, j)

LEMMA ItemDone ==
  ASSUME NEW f \in Seq(Char), NEW j \in 0..Len(f), NEW i, i = Cursor(f)[j].at, i <= Len(f),
         NEW V, NEW prev \in Seq(V), NEW b \in Seq(V),
         Len(prev) = Cursor(f)[j].taken, Len(b) = Takes(f, i),
         NEW s, s = Texts(f, prev, j), NEW m, m = Meaning(f, i, b)
  PROVE  Between(f, Behind(f, i), prev \o b, s \o m)
<1>1. /\ i \in Nat \ {0} /\ Cursor(f)[j + 1].at = Behind(f, i) /\ i > j
      /\ Cursor(f)[j + 1].taken = Cursor(f)[j].taken + Takes(f, i)
  BY CursorIs
<1>2. j + 1 \in 0..Len(f)
  BY <1>1
<1>3. Texts(f, prev \o b, j + 1) = Texts(f, prev, j) \o Meaning(f, i, b)
  <2>1. j \in Nat /\ Cursor(f)[j].at <= Len(f) /\ Len(b) = Takes(f, Cursor(f)[j].at)
    OBVIOUS
  <2>2. Texts(f, prev \o b, j + 1) = Texts(f, prev, j) \o Meaning(f, Cursor(f)[j].at, b)
    BY <2>1, TextsMore
  <2>3. QED
    BY <2>2
<1>4. Len(prev \o b) = Len(prev) + Len(b)
  BY SMTT(30)
<1>5. QED
  BY <1>1, <1>2, <1>3, <1>4 DEF Between

\* Where the escape sequence ends, and what it takes.
LEMMA ConverterIs ==
  ASSUME TInv, NEW j, NEW i, NEW prev, NEW a, Reading(j, i, prev, a),
         NEW ch, Ch(p) = ch, ch \notin Modifiers
  PROVE  /\ EscapeEnd(fmt, i) = p /\ Converter(fmt, i) = ch /\ CharAt(fmt, i) = "%"
         /\ Behind(fmt, i) = IF ch \in Conversions THEN p + 1 ELSE i + 1
         /\ Takes(fmt, i) = Len(a) + (IF ch \in Conversions \ {"%"} THEN 1 ELSE 0)
<1>1. Inside(j, i, prev, a)
  BY DEF Reading
<1>2. /\ fmt \in Seq(Char) /\ p \in Nat \ {0} /\ i \in Nat \ {0} /\ i < p
      /\ i \in 1..Len(fmt) /\ fmt[i] = "%"
  BY <1>1, InsideTypes DEF Inside
<1>3. EscapeEnd(fmt, i) = p
  <2>1. CharAt(fmt, p) \notin Modifiers
    BY DEF Ch
  <2>2. \A k \in (i + 1)..(p - 1) : CharAt(fmt, k) \in Modifiers
    BY <1>1 DEF Inside
  <2>3. QED
    BY <1>2, <2>1, <2>2, EscapeEndOnly
<1>4. CharAt(fmt, i) = "%" /\ Converter(fmt, i) = ch
  BY <1>2, <1>3 DEF CharAt, Converter, Ch
<1>5. Stars(fmt, i + 1, p - 1) = Len(a)
  BY DEF Reading, Reads
<1>6. QED
  BY <1>3, <1>4, <1>5 DEF Behind, Takes

\* The options o of the sequence are what the loop has read.
Fits(o) ==
  /\ o.w \in Int /\ SameWidth(width, o.w) /\ o.prc = precision /\ o.pad = padc
  /\ o.l \in BOOLEAN /\ (o.l <=> lflag > 0) /\ o.alt = altflag

LEMMA OptionsFit ==
  ASSUME TInv, NEW j, NEW i, NEW prev, NEW a, Reading(j, i, prev, a),
         NEW b \in Seq(Args), \A k \in 1..Len(a) : b[k] = a[k]
  PROVE  Fits(Options(fmt, i + 1, p - 1, b))
<1>1. Inside(j, i, prev, a)
  BY DEF Reading
<1>2. /\ fmt \in Seq(Char) /\ p \in Nat \ {0} /\ i \in Nat \ {0} /\ i < p
      /\ a \in Seq(Int) /\ a \in Seq(Args)
  BY <1>1, InsideTypes
<1>3. PICK w \in Int, l \in Nat, alt \in BOOLEAN : w = width /\ l = lflag /\ alt = altflag
  BY <1>1, InsideTypes
<1>4. PICK lo \in Nat, hi \in Nat : lo = i + 1 /\ hi = p - 1
  BY <1>2
<1>5. Reads(fmt, lo, hi, a, w, padc, l, alt) /\ precision = PrecOf(fmt, lo, hi, a)
  BY <1>3, <1>4 DEF Reading
<1>6. Stars(fmt, lo, hi) = Len(a)
  BY <1>5 DEF Reads
<1>7. PICK n \in Nat : n = Len(a)
  BY <1>2
<1>8. \A k \in 1..n : b[k] = a[k]
  BY <1>7
<1>9. PICK o : o = Options(fmt, lo, hi, b)
  OBVIOUS
<1>10. /\ SameWidth(w, o.w) /\ o.prc = precision /\ o.pad = padc
       /\ (o.l <=> l > 0) /\ (o.alt <=> alt)
  <2>1. PICK prc : prc = PrecOf(fmt, lo, hi, a)
    OBVIOUS
  <2>2. /\ SameWidth(w, Options(fmt, lo, hi, b).w)
        /\ Options(fmt, lo, hi, b).prc = prc
        /\ Options(fmt, lo, hi, b).pad = padc
        /\ Options(fmt, lo, hi, b).l <=> l > 0
        /\ Options(fmt, lo, hi, b).alt <=> alt
    <3>1. a \in Seq(Args)
      BY <1>2
    <3>2. Reads(fmt, lo, hi, a, w, padc, l, alt)
      BY <1>5
    <3>3. QED
      BY <1>7, <1>8, <2>1, <3>1, <3>2, ReadsAll
  <2>3. QED
    BY <1>5, <1>9, <2>1, <2>2
<1>11. o.w \in Int
  <2>1. o.w = WidthOf(fmt, lo, hi, b)
    BY <1>9, OptionsAre, ZenonT(30)
  <2>2. WidthOf(fmt, lo, hi, b) = WidthOf(fmt, lo, hi, a)
    <3>1. Stars(fmt, lo, hi) <= n
      BY <1>6, <1>7
    <3>2. QED
      <4>1. \A k \in 1..n : b[k] = a[k]
        BY <1>8
      <4>2. QED
        BY <3>1, <4>1, ArgMore
  <2>3. WidthOf(fmt, lo, hi, a) \in Int
    <3>1. CASE WidthAt(fmt, lo, hi, a) = {}
      BY <3>1 DEF WidthOf
    <3>2. CASE WidthAt(fmt, lo, hi, a) # {}
      <4>1. Stars(fmt, lo, hi) <= Len(a)
        BY <1>6, <1>7
      <4>2. QED
        BY <1>2, <3>2, <4>1, WidthIs
    <3>3. QED
      BY <3>1, <3>2
  <2>4. QED
    BY <2>1, <2>2, <2>3
<1>12. o.l \in BOOLEAN /\ o.alt \in BOOLEAN
  <2>1. PICK x \in BOOLEAN, y \in BOOLEAN :
          /\ x = (\E k \in lo..hi : CharAt(fmt, k) = "l")
          /\ y = (\E k \in lo..hi : CharAt(fmt, k) = "#")
    BY Zenon
  <2>2. o.l = x /\ o.alt = y
    BY <1>9, <2>1, OptionsAre, ZenonT(30)
  <2>3. QED
    BY <2>2
<1>13. o.alt = alt
  BY <1>10, <1>12
<1>14. Fits(o)
  BY <1>3, <1>10, <1>11, <1>12, <1>13 DEF Fits
<1>15. QED
  BY <1>4, <1>9, <1>14

\* A conversion that takes the argument v, and prints m.
LEMMA ConversionDone ==
  ASSUME TInv, NEW j, NEW i, NEW prev \in Seq(Args), NEW a \in Seq(Args),
         Reading(j, i, prev, a), NEW ch \in Conversions \ {"%"}, Converts(ch), fmt' = fmt,
         NEW v \in Args, args' = Append(args, v),
         NEW out, NEW m, out = Sent \o m, \A o : Fits(o) => Converted(ch, o, v) = m
  PROVE  Between(fmt', p', args', out)
<1>1. Inside(j, i, prev, a)
  BY DEF Reading
<1>2. /\ fmt \in Seq(Char) /\ p \in Nat \ {0} /\ i \in Nat \ {0} /\ i < p /\ i <= Len(fmt)
      /\ j \in 0..Len(fmt) /\ i = Cursor(fmt)[j].at
      /\ args = prev \o a /\ Len(prev) = Cursor(fmt)[j].taken /\ Sent = Texts(fmt, prev, j)
  BY <1>1, InsideTypes DEF Inside
<1>3. Ch(p) = ch /\ p' = p + 1 /\ ch \notin Modifiers
  BY NulIsNone DEF Converts
<1>4. /\ EscapeEnd(fmt, i) = p /\ Converter(fmt, i) = ch /\ CharAt(fmt, i) = "%"
      /\ Behind(fmt, i) = p + 1 /\ Takes(fmt, i) = Len(a) + 1
  BY <1>3, ConverterIs
<1>5. PICK b \in Seq(Args) : /\ b = Append(a, v) /\ Len(b) = Len(a) + 1 /\ b[Len(b)] = v
                            /\ \A k \in 1..Len(a) : b[k] = a[k]
  <2>1. Append(a, v) \in Seq(Args) /\ Len(Append(a, v)) = Len(a) + 1
        /\ Append(a, v)[Len(a) + 1] = v /\ \A k \in 1..Len(a) : Append(a, v)[k] = a[k]
    OBVIOUS
  <2>2. QED
    BY <2>1
<1>6. args' = prev \o b
  <2>1. Append(prev \o a, v) = prev \o Append(a, v)
    BY AppendBehind
  <2>2. QED
    BY <1>2, <1>5, <2>1
<1>7. Fits(Options(fmt, i + 1, p - 1, b))
  BY <1>5, OptionsFit, ZenonT(30)
<1>8. Meaning(fmt, i, b) = Converted(ch, Options(fmt, i + 1, p - 1, b), v)
  BY <1>4, <1>5 DEF Meaning
<1>9. m = Meaning(fmt, i, b)
  BY <1>7, <1>8
<1>10. Between(fmt, Behind(fmt, i), prev \o b, Sent \o m)
  BY <1>2, <1>4, <1>5, <1>9, ItemDone
<1>11. QED
  BY <1>3, <1>4, <1>6, <1>10

\* What waits when printnum is called behind s.
LEMMA PrintsRest ==
  ASSUME NEW s \in Seq(Char), NEW v, NEW b, NEW w, NEW pad, Prints(s, v, b, w, pad),
         v >= 0 => LeftPad(Numeral(v, b), w, pad) \in Seq(Char)
  PROVE  Rest' = s \o (IF v >= 0 THEN LeftPad(Numeral(v, b), w, pad) ELSE <<>>)
<1>1. pending' = s /\ num' = v /\ base' = b /\ width' = w /\ padc' = pad /\ pc' = After(s, v)
  BY DEF Prints
<1>2. NumberText' = LeftPad(Numeral(v, b), w, pad)
  BY <1>1 DEF NumberText
<1>3. CASE s # <<>>
  <2>1. pc' = "emit"
    BY <1>1, <1>3 DEF After
  <2>2. Rest' = pending' \o (IF num' >= 0 THEN NumberText' ELSE <<>>)
    BY <2>1 DEF Rest
  <2>3. QED
    BY <1>1, <1>2, <2>2
<1>4. CASE s = <<>> /\ v >= 0
  <2>1. pc' = "num"
    BY <1>1, <1>4 DEF After
  <2>2. Rest' = NumberText' \o pending'
    BY <2>1 DEF Rest
  <2>3. PICK t \in Seq(Char) : t = LeftPad(Numeral(v, b), w, pad)
    BY <1>4
  <2>4. t \o <<>> = t /\ <<>> \o t = t
    BY ConcatEmptySeq
  <2>5. QED
    BY <1>1, <1>2, <1>4, <2>2, <2>3, <2>4
<1>5. CASE s = <<>> /\ ~(v >= 0)
  <2>1. pc' = "text"
    BY <1>1, <1>5 DEF After
  <2>2. Rest' = <<>>
    BY <2>1 DEF Rest
  <2>3. s \o <<>> = s
    BY ConcatEmptySeq
  <2>4. QED
    BY <1>5, <2>2, <2>3
<1>6. QED
  BY <1>3, <1>4, <1>5

\* The number that is printed is the one the format means.
LEMMA NumberFits ==
  ASSUME NEW n \in Nat, NEW b \in {8, 10, 16}, NEW w \in Int, NEW v \in Int, SameWidth(w, v),
         NEW pad \in Char
  PROVE  /\ LeftPad(Numeral(n, b), w, pad) = LeftPad(Numeral(n, b), v, pad)
         /\ LeftPad(Numeral(n, b), w, pad) \in Seq(Char)
<1>1. b \in 2..16
  OBVIOUS
<1>2. PICK s \in Seq(Char) : s = Numeral(n, b)
  BY <1>1, NumeralIs
<1>3. LeftPad(s, w, pad) = LeftPad(s, v, pad)
  BY NoWidth DEF SameWidth
<1>4. LeftPad(s, w, pad) \in Seq(Char)
  BY LeftPadIs
<1>5. QED
  BY <1>2, <1>3, <1>4

LEMMA ConvertedIs ==
  ASSUME NEW o, NEW v
  PROVE  /\ Converted("c", o, v) = <<v>>
         /\ v < 0 => Converted("d", o, v) = <<"-">> \o LeftPad(Numeral(-v, 10), o.w, o.pad)
         /\ ~(v < 0) => Converted("d", o, v) = LeftPad(Numeral(v, 10), o.w, o.pad)
         /\ \A ch \in DOMAIN Base : Converted(ch, o, v)
              = LeftPad(Numeral(AsUnsigned(v, IF o.l THEN LongBits ELSE IntBits), Base[ch]), o.w, o.pad)
         /\ Converted("p", o, v)
              = <<"0", "x">> \o LeftPad(Numeral(AsUnsigned(v, LongBits), 16), o.w, o.pad)
<1>1. DOMAIN Base = {"u", "o", "x"}
  BY DEF Base
<1>2. Converted("c", o, v) = <<v>>
  BY <1>1 DEF Converted
<1>3. v < 0 => Converted("d", o, v) = <<"-">> \o LeftPad(Numeral(-v, 10), o.w, o.pad)
  BY <1>1 DEF Converted
<1>4. ~(v < 0) => Converted("d", o, v) = LeftPad(Numeral(v, 10), o.w, o.pad)
  BY <1>1 DEF Converted
<1>5. \A ch \in DOMAIN Base : Converted(ch, o, v)
              = LeftPad(Numeral(AsUnsigned(v, IF o.l THEN LongBits ELSE IntBits), Base[ch]), o.w, o.pad)
  BY <1>1 DEF Converted
<1>6. Converted("p", o, v)
              = <<"0", "x">> \o LeftPad(Numeral(AsUnsigned(v, LongBits), 16), o.w, o.pad)
  BY <1>1 DEF Converted
<1>7. QED
  BY <1>2, <1>3, <1>4, <1>5, <1>6

LEMMA ConvertedString ==
  ASSUME NEW o, NEW v, NEW part, part = Part(IF v = NullPtr THEN Null ELSE v, o.prc, o.alt)
  PROVE  Converted("s", o, v) = IF o.pad = "-" THEN part \o Rep(Space, o.w - Len(part))
                                               ELSE LeftPad(part, o.w, o.pad)
<1>1. DOMAIN Base = {"u", "o", "x"}
  BY DEF Base
<1>2. QED
  BY <1>1 DEF Converted

LEMMA ConvertedError ==
  ASSUME NEW o, NEW v, NEW err, err = IF v < 0 THEN -v ELSE v
  PROVE  Converted("e", o, v) = IF err \in DOMAIN ErrorString THEN ErrorString[err]
                                ELSE ErrorIs \o Numeral(err, 10)
<1>1. DOMAIN Base = {"u", "o", "x"}
  BY DEF Base
<1>2. QED
  BY <1>1 DEF Converted

LEMMA EscapeTypes ==
  ASSUME TInv, BufTypeOK
  PROVE  /\ FmtTypeOK /\ Sent \in Seq(Char) /\ width \in Int /\ precision \in Int /\ lflag \in Nat
         /\ altflag \in BOOLEAN /\ padc \in Char
<1>1. FmtTypeOK
  BY DEF TInv
<1>2. Sent \in Seq(Char)
  BY <1>1, SentIs
<1>3. padc \in Char /\ width \in Int /\ precision \in Int /\ altflag \in BOOLEAN
  BY <1>1, ShowsIs
<1>4. lflag \in Nat
  BY <1>1 DEF FmtTypeOK
<1>5. QED
  BY <1>1, <1>2, <1>3, <1>4

LEMMA CharDone ==
  ASSUME TInv, BufTypeOK, NEW j, NEW i, NEW prev \in Seq(Args), NEW a \in Seq(Args),
         Reading(j, i, prev, a), Char_c
  PROVE  Between(fmt', p', args', Sent' \o Rest')
<1>1. PICK v \in CharArgs : putch(v) /\ args' = Append(args, v)
  BY DEF Char_c
<1>2. Converts("c") /\ fmt' = fmt /\ via' = via /\ pc' = "text"
  BY DEF Char_c
<1>3. v \in Char /\ v \in Args
  BY FmtAssumption DEF Args
<1>4. FmtTypeOK /\ Sent \in Seq(Char)
  BY EscapeTypes
<1>5. PICK s \in Seq(Char) : s = Sent
  BY <1>4
<1>6. PICK m \in Seq(Char) : m = <<v>>
  BY <1>3, OneChar
<1>7. Sent' = Append(s, v) /\ Sent' \in Seq(Char)
  BY <1>1, <1>2, <1>3, <1>4, <1>5, PutchSends
<1>8. Rest' = <<>>
  BY <1>2 DEF Rest
<1>9. Sent' \o Rest' = Sent \o m
  <2>1. Append(s, v) = s \o m
    BY <1>3, <1>6, AppendIsConcat
  <2>2. Sent' \o <<>> = Sent'
    BY <1>7, ConcatEmptySeq
  <2>3. QED
    BY <1>5, <1>7, <1>8, <2>1, <2>2
<1>10. PICK ch \in Conversions \ {"%"} : ch = "c"
  BY DEF Conversions
<1>11. \A o : Converted(ch, o, v) = m
  BY <1>6, <1>10, ConvertedIs
<1>12. QED
  BY <1>1, <1>2, <1>3, <1>9, <1>10, <1>11, ConversionDone

LEMMA NumberTypesOf ==
  ASSUME NEW v \in IntArgs \cup LongArgs
  PROVE  v \in Int /\ v \in Args
BY ArgTypes

LEMMA DecimalDone ==
  ASSUME TInv, BufTypeOK, NEW j, NEW i, NEW prev \in Seq(Args), NEW a \in Seq(Args),
         Reading(j, i, prev, a), Decimal
  PROVE  Between(fmt', p', args', Sent' \o Rest')
<1>1. PICK v \in Ints(lflag) :
        /\ Prints(<<>>, IF v < 0 THEN -v ELSE v, 10, width, padc)
        /\ IF v < 0 THEN putch("-") ELSE UNCHANGED outVars
        /\ args' = Append(args, v)
  BY DEF Decimal
<1>2. Converts("d") /\ fmt' = fmt /\ via' = via
  BY <1>1 DEF Decimal, Prints
<1>3. v \in Int /\ v \in Args
  <2>1. v \in IntArgs \cup LongArgs
    BY DEF Ints
  <2>2. QED
    BY <2>1, NumberTypesOf
<1>4. PICK n \in Nat : n = IF v < 0 THEN -v ELSE v
  BY <1>3
<1>5. FmtTypeOK /\ Sent \in Seq(Char) /\ width \in Int /\ padc \in Char
  BY EscapeTypes
<1>6. PICK s \in Seq(Char), w \in Int, pad \in Char : s = Sent /\ w = width /\ pad = padc
  BY <1>5
<1>7. PICK t \in Seq(Char) : t = LeftPad(Numeral(n, 10), w, pad)
  <2>1. SameWidth(w, w)
    BY DEF SameWidth
  <2>2. LeftPad(Numeral(n, 10), w, pad) \in Seq(Char)
    BY <2>1, NumberFits
  <2>3. QED
    BY <2>2
<1>8. \A o : Fits(o) => LeftPad(Numeral(n, 10), o.w, o.pad) = t
  <2>1. ASSUME NEW o, Fits(o) PROVE LeftPad(Numeral(n, 10), o.w, o.pad) = t
    <3>1. PICK x \in Int : x = o.w /\ SameWidth(w, x) /\ o.pad = pad
      BY <1>6, <2>1 DEF Fits
    <3>2. LeftPad(Numeral(n, 10), w, pad) = LeftPad(Numeral(n, 10), x, pad)
      BY <3>1, NumberFits
    <3>3. QED
      BY <1>7, <3>1, <3>2
  <2>2. QED
    BY <2>1
<1>9. Rest' = t
  <2>1. PICK e \in Seq(Char) : e = <<>>
    BY EmptySeq
  <2>2. Prints(e, n, 10, w, pad)
    BY <1>1, <1>4, <1>6, <2>1
  <2>3. Rest' = e \o (IF n >= 0 THEN LeftPad(Numeral(n, 10), w, pad) ELSE <<>>)
    BY <1>7, <2>2, PrintsRest
  <2>4. e \o t = t
    BY <2>1, ConcatEmptySeq
  <2>5. QED
    BY <1>7, <2>3, <2>4
<1>10. PICK ch \in Conversions \ {"%"} : ch = "d"
  BY DEF Conversions
<1>11. CASE v < 0
  <2>1. PICK c \in Char : c = "-"
    BY LiteralsAreChars
  <2>2. Sent' = Append(s, c)
    BY <1>1, <1>2, <1>5, <1>6, <1>11, <2>1, PutchSends
  <2>3. Append(s, c) \o t = s \o (<<c>> \o t)
    BY OneLess
  <2>4. PICK m : m = <<c>> \o t
    OBVIOUS
  <2>5. Sent' \o Rest' = Sent \o m
    BY <1>6, <1>9, <2>2, <2>3, <2>4
  <2>6. \A o : Fits(o) => Converted(ch, o, v) = m
    <3>1. \A o : Converted(ch, o, v) = <<"-">> \o LeftPad(Numeral(-v, 10), o.w, o.pad)
      BY <1>10, <1>11, ConvertedIs
    <3>2. QED
      BY <1>4, <1>8, <1>11, <2>1, <2>4, <3>1
  <2>7. QED
    BY <1>1, <1>2, <1>3, <1>10, <2>5, <2>6, ConversionDone
<1>12. CASE ~(v < 0)
  <2>1. Sent' = Sent
    BY <1>1, <1>2, <1>12, NoneSent
  <2>2. Sent' \o Rest' = Sent \o t
    BY <1>9, <2>1
  <2>3. \A o : Fits(o) => Converted(ch, o, v) = t
    <3>1. \A o : Converted(ch, o, v) = LeftPad(Numeral(v, 10), o.w, o.pad)
      BY <1>10, <1>12, ConvertedIs
    <3>2. QED
      BY <1>4, <1>8, <1>12, <3>1
  <2>4. QED
    BY <1>1, <1>2, <1>3, <1>10, <2>2, <2>3, ConversionDone
<1>13. QED
  BY <1>11, <1>12

LEMMA Wrapped ==
  ASSUME NEW M \in Nat \ {0}, NEW v \in Int, -M <= v, v < M
  PROVE  v % M = (IF v < 0 THEN v + M ELSE v) /\ v % M \in Nat
<1>1. CASE v >= 0
  <2>1. PICK d \in Nat, r \in 0..(M - 1) : d = v \div M /\ r = v % M /\ v = d * M + r
    BY <1>1, Division
  <2>2. d = 0
    <3>1. CASE d >= 1
      <4>1. PICK k \in Nat : d = k + 1
        <5>1. d - 1 \in Nat /\ d = (d - 1) + 1
          BY <3>1
        <5>2. QED
          BY <5>1
      <4>2. d * M = k * M + M /\ k * M \in Nat
        BY <4>1
      <4>3. QED
        BY <2>1, <4>2
    <3>2. QED
      BY <3>1
  <2>3. QED
    BY <1>1, <2>1, <2>2
<1>2. CASE v < 0
  BY <1>2
<1>3. QED
  BY <1>1, <1>2

LEMMA AsUnsignedIs ==
  /\ \A v \in IntArgs : AsUnsigned(v, IntBits) = v % Mod(IntBits) /\ v % Mod(IntBits) \in Nat
  /\ \A v \in LongArgs : AsUnsigned(v, LongBits) = v % Mod(LongBits) /\ v % Mod(LongBits) \in Nat
<1>1. PICK M \in Nat \ {0}, m \in Nat \ {0} : M = Mod(LongBits) /\ m = Mod(IntBits)
  BY NumberTypes
<1>2. PICK g \in Int, G \in Int : g = Least0(IntBits) /\ G = Least0(LongBits)
  BY ArgTypes
<1>3. IntArgs \subseteq g .. -g - 1 /\ LongArgs \subseteq G .. -G - 1
  BY <1>2, FmtAssumption
<1>4. -g \in 1..(m - 1) /\ -G \in 1..(M - 1)
  BY <1>1, <1>2, NumberTypes
<1>5. ASSUME NEW v \in IntArgs PROVE AsUnsigned(v, IntBits) = v % m /\ v % m \in Nat
  <2>1. v \in Int /\ -m <= v /\ v < m
    BY <1>2, <1>3, <1>4
  <2>2. v % m = (IF v < 0 THEN v + m ELSE v) /\ v % m \in Nat
    BY <2>1, Wrapped
  <2>3. QED
    BY <1>1, <2>2 DEF AsUnsigned
<1>6. ASSUME NEW v \in LongArgs PROVE AsUnsigned(v, LongBits) = v % M /\ v % M \in Nat
  <2>1. v \in Int /\ -M <= v /\ v < M
    BY <1>2, <1>3, <1>4
  <2>2. v % M = (IF v < 0 THEN v + M ELSE v) /\ v % M \in Nat
    BY <2>1, Wrapped
  <2>3. QED
    BY <1>1, <2>2 DEF AsUnsigned
<1>7. QED
  BY <1>1, <1>5, <1>6

LEMMA NumberAsRead ==
  ASSUME TInv, BufTypeOK, NEW n \in Nat, NEW b \in {8, 10, 16}
  PROVE  /\ LeftPad(Numeral(n, b), width, padc) \in Seq(Char)
         /\ \A o : Fits(o) => LeftPad(Numeral(n, b), o.w, o.pad) = LeftPad(Numeral(n, b), width, padc)
<1>1. PICK w \in Int, pad \in Char : w = width /\ pad = padc
  BY EscapeTypes
<1>2. LeftPad(Numeral(n, b), w, pad) \in Seq(Char)
  <2>1. SameWidth(w, w)
    BY DEF SameWidth
  <2>2. QED
    BY <2>1, NumberFits
<1>3. ASSUME NEW o, Fits(o)
      PROVE  LeftPad(Numeral(n, b), o.w, o.pad) = LeftPad(Numeral(n, b), w, pad)
  <2>1. PICK x \in Int : x = o.w /\ SameWidth(w, x) /\ o.pad = pad
    BY <1>1, <1>3 DEF Fits
  <2>2. LeftPad(Numeral(n, b), w, pad) = LeftPad(Numeral(n, b), x, pad)
    BY <2>1, NumberFits, ZenonT(30)
  <2>3. QED
    BY <2>1, <2>2
<1>4. QED
  BY <1>1, <1>2, <1>3

\* The conversion ch prints the number n to the base b behind s.
Says(ch, v, s, n, b) ==
  \A o : Fits(o) => Converted(ch, o, v) = s \o LeftPad(Numeral(n, b), o.w, o.pad)

\* A number that is printed behind s, by a conversion that prints it so.
LEMMA NumberDone ==
  ASSUME TInv, BufTypeOK, NEW j, NEW i, NEW prev \in Seq(Args), NEW a \in Seq(Args),
         Reading(j, i, prev, a), NEW ch \in Conversions \ {"%"}, Converts(ch),
         UNCHANGED outVars, NEW v \in Args, args' = Append(args, v),
         NEW s \in Seq(Char), NEW n \in Nat, NEW b \in {8, 10, 16}, Prints(s, n, b, width, padc),
         Says(ch, v, s, n, b)
  PROVE  Between(fmt', p', args', Sent' \o Rest')
<1>1. fmt' = fmt /\ via' = via
  BY DEF Prints
<1>2. PICK t \in Seq(Char) : t = LeftPad(Numeral(n, b), width, padc)
  BY NumberAsRead
<1>3. Rest' = s \o t
  <2>1. Rest' = s \o (IF n >= 0 THEN LeftPad(Numeral(n, b), width, padc) ELSE <<>>)
    BY <1>2, PrintsRest
  <2>2. QED
    BY <1>2, <2>1
<1>4. Sent' = Sent
  BY <1>1, NoneSent
<1>5. PICK m : m = s \o t
  OBVIOUS
<1>6. Sent' \o Rest' = Sent \o m
  BY <1>3, <1>4, <1>5
<1>7. \A o : Fits(o) => Converted(ch, o, v) = m
  BY <1>2, <1>5, NumberAsRead DEF Says
<1>8. QED
  BY <1>1, <1>6, <1>7, ConversionDone

LEMMA UnsignedDone ==
  ASSUME TInv, BufTypeOK, NEW j, NEW i, NEW prev \in Seq(Args), NEW a \in Seq(Args),
         Reading(j, i, prev, a), Unsigned
  PROVE  Between(fmt', p', args', Sent' \o Rest')
<1>1. PICK c \in DOMAIN Base, v \in Ints(lflag) :
        /\ Converts(c) /\ Prints(<<>>, getuint(v), Base[c], width, padc)
        /\ args' = Append(args, v)
  BY DEF Unsigned
<1>2. UNCHANGED outVars
  BY DEF Unsigned
<1>3. v \in Int /\ v \in Args
  <2>1. v \in IntArgs \cup LongArgs
    BY DEF Ints
  <2>2. QED
    BY <2>1, NumberTypesOf
<1>4. PICK n \in Nat : n = getuint(v) /\ n = AsUnsigned(v, IF lflag > 0 THEN LongBits ELSE IntBits)
  <2>1. lflag \in Nat
    BY EscapeTypes
  <2>2. CASE lflag = 0
    <3>1. v \in IntArgs /\ ~(lflag > 0) /\ getuint(v) = v % Mod(IntBits)
      BY <2>2 DEF Ints, getuint, Bits
    <3>2. QED
      BY <3>1, AsUnsignedIs
  <2>3. CASE lflag # 0
    <3>1. v \in LongArgs /\ lflag > 0 /\ getuint(v) = v % Mod(LongBits)
      BY <2>1, <2>3 DEF Ints, getuint, Bits
    <3>2. QED
      BY <3>1, AsUnsignedIs
  <2>4. QED
    BY <2>2, <2>3
<1>5. PICK b \in {8, 10, 16} : b = Base[c]
  BY DEF Base
<1>6. PICK ch \in Conversions \ {"%"} : ch = c /\ ch \in DOMAIN Base
  <2>1. c \in {"u", "o", "x"}
    BY DEF Base
  <2>2. QED
    BY <2>1 DEF Conversions
<1>7. PICK e \in Seq(Char) : e = <<>>
  BY EmptySeq
<1>8. ASSUME NEW o, Fits(o)
      PROVE  Converted(ch, o, v) = e \o LeftPad(Numeral(n, b), o.w, o.pad)
  <2>1. Converted(ch, o, v)
          = LeftPad(Numeral(AsUnsigned(v, IF o.l THEN LongBits ELSE IntBits), Base[ch]), o.w, o.pad)
    BY <1>6, ConvertedIs
  <2>2. (IF o.l THEN LongBits ELSE IntBits) = IF lflag > 0 THEN LongBits ELSE IntBits
    BY <1>8 DEF Fits
  <2>3. PICK x \in Int, pad \in Char : x = o.w /\ pad = o.pad
    BY <1>8, EscapeTypes DEF Fits
  <2>4. PICK t \in Seq(Char) : t = LeftPad(Numeral(n, b), x, pad)
    <3>1. SameWidth(x, x)
      BY DEF SameWidth
    <3>2. LeftPad(Numeral(n, b), x, pad) \in Seq(Char)
      BY <3>1, NumberFits
    <3>3. QED
      BY <3>2
  <2>5. e \o t = t
    BY <1>7, ConcatEmptySeq
  <2>6. Converted(ch, o, v) = t
    BY <1>4, <1>5, <1>6, <2>1, <2>2, <2>3, <2>4
  <2>7. QED
    BY <2>3, <2>4, <2>5, <2>6
<1>9. Says(ch, v, e, n, b)
  BY <1>8 DEF Says
<1>10. Converts(ch) /\ Prints(e, n, b, width, padc)
  BY <1>1, <1>4, <1>5, <1>6, <1>7
<1>11. QED
  BY <1>1, <1>2, <1>3, <1>9, <1>10, NumberDone

LEMMA PointerDone ==
  ASSUME TInv, BufTypeOK, NEW j, NEW i, NEW prev \in Seq(Args), NEW a \in Seq(Args),
         Reading(j, i, prev, a), Pointer_p
  PROVE  Between(fmt', p', args', Sent' \o Rest')
<1>1. PICK v \in LongArgs : /\ Prints(<<"0", "x">>, v % Mod(LongBits), 16, width, padc)
                            /\ args' = Append(args, v)
  BY DEF Pointer_p
<1>2. UNCHANGED outVars /\ Converts("p")
  BY DEF Pointer_p
<1>3. v \in Args
  BY NumberTypesOf
<1>4. PICK n \in Nat : n = v % Mod(LongBits) /\ n = AsUnsigned(v, LongBits)
  BY AsUnsignedIs
<1>5. PICK s \in Seq(Char) : s = <<"0", "x">>
  <2>1. <<"0", "x">> \in Seq(Char)
    BY LiteralsAreChars
  <2>2. QED
    BY <2>1
<1>6. PICK ch \in Conversions \ {"%"} : ch = "p"
  BY DEF Conversions
<1>7. PICK b \in {8, 10, 16} : b = 16
  OBVIOUS
<1>8. Says(ch, v, s, n, b)
  <2>1. \A o : Converted(ch, o, v) = s \o LeftPad(Numeral(n, b), o.w, o.pad)
    BY <1>4, <1>5, <1>6, <1>7, ConvertedIs
  <2>2. QED
    BY <2>1 DEF Says
<1>9. Prints(s, n, b, width, padc) /\ Converts(ch)
  BY <1>1, <1>2, <1>4, <1>5, <1>6, <1>7
<1>10. QED
  BY <1>1, <1>2, <1>3, <1>8, <1>9, NumberDone

LEMMA ErrorDone ==
  ASSUME TInv, BufTypeOK, NEW j, NEW i, NEW prev \in Seq(Args), NEW a \in Seq(Args),
         Reading(j, i, prev, a), Error_e
  PROVE  Between(fmt', p', args', Sent' \o Rest')
<1> DEFINE Err(v) == IF v < 0 THEN -v ELSE v
<1>1. PICK v \in IntArgs :
        /\ IF Err(v) > MAXERROR \/ Err(v) = 0 THEN Prints(ErrorIs, Err(v), 10, -1, Space)
                                              ELSE Prints(ErrorString[Err(v)], -1, 10, -1, Space)
        /\ args' = Append(args, v)
  BY DEF Error_e
<1>2. Converts("e") /\ UNCHANGED outVars
  BY DEF Error_e
<1>3. v \in Int /\ v \in Args
  BY NumberTypesOf
<1>4. PICK n \in Nat : n = Err(v) /\ n = IF v < 0 THEN -v ELSE v
  BY <1>3
<1>5. PICK k \in Nat : k = Len(ErrorString) /\ k = MAXERROR /\ DOMAIN ErrorString = 1..k
  <2>1. ErrorString \in Seq(Seq(Char))
    BY FmtAssumption
  <2>2. QED
    BY <2>1 DEF MAXERROR
<1>6. PICK ch \in Conversions \ {"%"} : ch = "e"
  BY DEF Conversions
<1>7. ASSUME NEW m, Rest' = m, fmt' = fmt, via' = via, \A o : Converted(ch, o, v) = m
      PROVE  Between(fmt', p', args', Sent' \o Rest')
  <2>1. Sent' = Sent
    BY <1>2, <1>7, NoneSent
  <2>2. Sent' \o Rest' = Sent \o m
    BY <1>7, <2>1
  <2>3. QED
    BY <1>1, <1>2, <1>3, <1>6, <1>7, <2>2, ConversionDone
<1>8. CASE n > MAXERROR \/ n = 0
  <2>1. PICK s \in Seq(Char), w \in Int, pad \in Char : s = ErrorIs /\ w = -1 /\ pad = Space
    BY LiteralAssumption, LiteralsAreChars
  <2>2. Prints(s, n, 10, w, pad)
    BY <1>1, <1>4, <1>8, <2>1
  <2>3. PICK t \in Seq(Char) : t = Numeral(n, 10)
    BY NumeralIs
  <2>4. LeftPad(t, w, pad) = t
    <3>1. w <= Len(t)
      BY <2>1
    <3>2. QED
      BY <3>1, LeftPadIs
  <2>5. Rest' = s \o t
    <3>1. LeftPad(Numeral(n, 10), w, pad) \in Seq(Char)
      BY <2>3, <2>4
    <3>2. Rest' = s \o (IF n >= 0 THEN LeftPad(Numeral(n, 10), w, pad) ELSE <<>>)
      BY <2>2, <3>1, PrintsRest
    <3>3. n >= 0 /\ LeftPad(Numeral(n, 10), w, pad) = t
      BY <2>3, <2>4
    <3>4. QED
      BY <3>2, <3>3
  <2>6. n \notin DOMAIN ErrorString
    BY <1>5, <1>8
  <2>7. \A o : Converted(ch, o, v) = s \o t
    BY <1>4, <1>6, <2>1, <2>3, <2>6, ConvertedError
  <2>8. fmt' = fmt /\ via' = via
    BY <2>2 DEF Prints
  <2>9. QED
    BY <1>7, <2>5, <2>7, <2>8
<1>9. CASE ~(n > MAXERROR \/ n = 0)
  <2>1. n \in DOMAIN ErrorString /\ n \in 1..k
    BY <1>5, <1>9
  <2>2. PICK s \in Seq(Char) : s = ErrorString[n]
    <3>1. ErrorString \in Seq(Seq(Char))
      BY FmtAssumption
    <3>2. ErrorString[n] \in Seq(Char)
      BY <1>5, <2>1, <3>1, ElementOfSeq
    <3>3. QED
      BY <3>2
  <2>3. PICK z \in Int : z = -1
    OBVIOUS
  <2>4. Prints(s, z, 10, z, Space)
    BY <1>1, <1>4, <1>9, <2>2, <2>3
  <2>5. Rest' = s
    <3>1. ~(z >= 0)
      BY <2>3
    <3>2. Rest' = s \o (IF z >= 0 THEN LeftPad(Numeral(z, 10), z, Space) ELSE <<>>)
      BY <2>4, <3>1, PrintsRest
    <3>3. s \o <<>> = s
      BY ConcatEmptySeq
    <3>4. QED
      BY <3>1, <3>2, <3>3
  <2>6. \A o : Converted(ch, o, v) = s
    BY <1>4, <1>6, <2>1, <2>2, ConvertedError
  <2>7. fmt' = fmt /\ via' = via
    BY <2>4 DEF Prints
  <2>8. QED
    BY <1>7, <2>5, <2>6, <2>7
<1>10. QED
  BY <1>8, <1>9

\* What the three loops of %s print.
LEMMA StringDone ==
  ASSUME TInv, BufTypeOK, TInv', NEW j, NEW i, NEW prev \in Seq(Args), NEW a \in Seq(Args),
         Reading(j, i, prev, a), String
  PROVE  Between(fmt', p', args', Sent' \o Rest')
<1>1. PICK v \in StrArgs \cup {NullPtr} :
        q' = (IF v = NullPtr THEN Null ELSE v) /\ args' = Append(args, v)
  BY DEF String
<1>2. /\ Converts("s") /\ UNCHANGED outVars /\ fmt' = fmt /\ via' = via
      /\ padc' = padc /\ precision' = precision /\ altflag' = altflag
      /\ IF width > 0 /\ padc # "-"
         THEN width' = width - strnlen(q', precision) /\ pc' = "lead"
         ELSE pc' = "chars" /\ width' = width
  BY DEF String
<1>3. v \in Args /\ q' \in Seq(Char)
  <2>1. v \in Args
    BY DEF Args
  <2>2. q' \in Seq(Char)
    BY <1>1, FmtAssumption, LiteralAssumption
  <2>3. QED
    BY <2>1, <2>2
<1>4. PICK w \in Int, prc \in Int, alt \in BOOLEAN, pad \in Char :
        w = width /\ prc = precision /\ alt = altflag /\ pad = padc
  BY EscapeTypes
<1>5. PICK s \in Seq(Char) : s = q'
  BY <1>3
<1>6. PICK part \in Seq(Char), k \in Nat :
        part = Part(s, prc, alt) /\ k = Len(part) /\ k = strnlen(s, prc)
  BY PartIs
<1>7. Shows' = part
  BY <1>2, <1>4, <1>5, <1>6 DEF Shows
<1>8. PICK ch \in Conversions \ {"%"} : ch = "s"
  BY DEF Conversions
<1>9. ASSUME NEW o, Fits(o)
      PROVE  Converted(ch, o, v) = IF pad = "-" THEN part \o Rep(Space, w - k) ELSE Rep(pad, w - k) \o part
  <2>1. o.prc = prc /\ o.alt = alt /\ o.pad = pad
    BY <1>4, <1>9 DEF Fits
  <2>2. PICK x \in Int : x = o.w /\ SameWidth(w, x)
    BY <1>4, <1>9 DEF Fits
  <2>3. part = Part(IF v = NullPtr THEN Null ELSE v, o.prc, o.alt)
    BY <1>1, <1>5, <1>6, <2>1
  <2>4. Converted(ch, o, v) = IF o.pad = "-" THEN part \o Rep(Space, o.w - Len(part))
                                             ELSE LeftPad(part, o.w, o.pad)
    BY <1>8, <2>3, ConvertedString
  <2>5. ASSUME NEW c \in Char PROVE Rep(c, w - Len(part)) = Rep(c, x - Len(part))
    BY <2>2, NoWidth DEF SameWidth
  <2>6. CASE pad = "-"
    <3>1. Rep(Space, w - Len(part)) = Rep(Space, x - Len(part))
      BY <2>5, LiteralsAreChars
    <3>2. QED
      BY <1>6, <2>1, <2>2, <2>4, <2>6, <3>1
  <2>7. CASE pad # "-"
    <3>1. Rep(pad, w - Len(part)) = Rep(pad, x - Len(part))
      BY <2>5
    <3>2. Converted(ch, o, v) = LeftPad(part, x, pad)
      BY <2>1, <2>2, <2>4, <2>7
    <3>3. LeftPad(part, x, pad) = Rep(pad, x - Len(part)) \o part
      BY DEF LeftPad
    <3>4. QED
      BY <1>6, <2>7, <3>1, <3>2, <3>3
  <2>8. QED
    BY <2>6, <2>7
<1>10. Rest' = IF pad = "-" THEN part \o Rep(Space, w - k) ELSE Rep(pad, w - k) \o part
  <2>1. CASE width > 0 /\ padc # "-"
    <3>1. width' = w - k /\ pc' = "lead" /\ padc' = pad /\ pad # "-"
      BY <1>2, <1>4, <1>5, <1>6, <2>1
    <3>2. Rest' = Rep(padc', width') \o Shows'
      BY <3>1 DEF Rest
    <3>3. QED
      BY <1>7, <3>1, <3>2
  <2>2. CASE ~(width > 0 /\ padc # "-")
    <3>1. width' = w /\ pc' = "chars" /\ padc' = pad
      BY <1>2, <1>4, <2>2
    <3>2. Rest' = Shows' \o Rep(Space, width' - Len(Shows'))
      BY <3>1 DEF Rest
    <3>3. Rest' = part \o Rep(Space, w - k)
      BY <1>6, <1>7, <3>1, <3>2
    <3>4. CASE pad = "-"
      BY <3>3, <3>4
    <3>5. CASE pad # "-"
      <4>1. PICK d \in Int : d = w - k /\ d <= 0
        <5>1. w <= 0
          BY <1>4, <2>2, <3>5
        <5>2. w - k \in Int /\ w - k <= 0
          BY <5>1
        <5>3. QED
          BY <5>2
      <4>2. Rep(Space, d) = <<>> /\ Rep(pad, d) = <<>>
        BY <4>1, RepNone, LiteralsAreChars
      <4>3. part \o <<>> = part /\ <<>> \o part = part
        BY ConcatEmptySeq
      <4>4. QED
        BY <3>3, <3>5, <4>1, <4>2, <4>3
    <3>6. QED
      BY <3>4, <3>5
  <2>3. QED
    BY <2>1, <2>2
<1>11. Sent' \o Rest' = Sent \o Rest'
  BY <1>2, NoneSent
<1>12. PICK m : m = IF pad = "-" THEN part \o Rep(Space, w - k) ELSE Rep(pad, w - k) \o part
  OBVIOUS
<1>13. Sent' \o Rest' = Sent \o m /\ \A o : Fits(o) => Converted(ch, o, v) = m
  BY <1>9, <1>10, <1>11, <1>12
<1>14. QED
  BY <1>1, <1>2, <1>3, <1>8, <1>13, ConversionDone

\* An item that prints the one character ch, and has taken the arguments a.
LEMMA OneCharDone ==
  ASSUME FmtTypeOK, BufTypeOK, NEW j \in 0..Len(fmt), NEW i, i = Cursor(fmt)[j].at, i <= Len(fmt),
         NEW prev \in Seq(Args), NEW a \in Seq(Args), args = prev \o a,
         Len(prev) = Cursor(fmt)[j].taken, Sent = Texts(fmt, prev, j),
         Len(a) = Takes(fmt, i), NEW ch \in Char, Meaning(fmt, i, a) = <<ch>>,
         putch(ch), via' = via, fmt' = fmt, args' = args, pc' = "text", p' = Behind(fmt, i)
  PROVE  Between(fmt', p', args', Sent' \o Rest')
<1>1. fmt \in Seq(Char) /\ Sent \in Seq(Char)
  BY SentIs DEF FmtTypeOK
<1>2. PICK s \in Seq(Char) : s = Sent
  BY <1>1
<1>3. PICK m \in Seq(Char) : m = <<ch>>
  BY OneChar
<1>4. Sent' = Append(s, ch) /\ Sent' \in Seq(Char)
  BY <1>2, PutchSends
<1>5. Append(s, ch) = s \o m
  BY <1>3, AppendIsConcat
<1>6. Rest' = <<>>
  BY DEF Rest
<1>7. Sent' \o <<>> = Sent'
  BY <1>4, ConcatEmptySeq
<1>8. s = Texts(fmt, prev, j) /\ m = Meaning(fmt, i, a)
  BY <1>2, <1>3
<1>9. Between(fmt, Behind(fmt, i), prev \o a, s \o m)
  BY <1>1, <1>8, ItemDone
<1>10. QED
  BY <1>4, <1>5, <1>6, <1>7, <1>9

LEMMA LiteralDone ==
  ASSUME TInv, BufTypeOK, Between(fmt, p, args, Sent), Literal
  PROVE  Between(fmt', p', args', Sent' \o Rest')
<1>1. FmtTypeOK /\ args \in Seq(Args)
  BY DEF TInv
<1>2. fmt \in Seq(Char) /\ p \in Nat \ {0} /\ Len(fmt) \in Nat
  BY <1>1 DEF FmtTypeOK
<1>3. PICK j \in 0..Len(fmt) :
        Cursor(fmt)[j].at = p /\ Cursor(fmt)[j].taken = Len(args) /\ Sent = Texts(fmt, args, j)
  BY DEF Between
<1>4. /\ Ch(p) \notin {"%", NUL} /\ putch(Ch(p)) /\ p' = p + 1 /\ pc' = "text"
      /\ via' = via /\ fmt' = fmt /\ args' = args
  BY DEF Literal
<1>5. PICK ch \in Char : ch = Ch(p) /\ ch = CharAt(fmt, p) /\ ch # "%" /\ p <= Len(fmt)
  BY <1>1, <1>2, <1>4, ChIsChar DEF Ch
<1>6. Meaning(fmt, p, <<>>) = <<ch>> /\ Behind(fmt, p) = p + 1 /\ Takes(fmt, p) = 0
  BY <1>5 DEF Meaning, Behind, Takes
<1>7. PICK e \in Seq(Args) : e = <<>> /\ Len(e) = 0
  BY EmptySeq
<1>8. args = args \o e
  BY <1>1, <1>7, ConcatEmptySeq
<1>9. PICK i : i = p
  OBVIOUS
<1>10. putch(ch)
  BY <1>4, <1>5
<1>11. QED
  BY <1>1, <1>3, <1>4, <1>5, <1>6, <1>7, <1>8, <1>9, <1>10, OneCharDone

LEMMA PercentDone ==
  ASSUME TInv, BufTypeOK, NEW j, NEW i, NEW prev \in Seq(Args), NEW a \in Seq(Args),
         Reading(j, i, prev, a), Percent
  PROVE  Between(fmt', p', args', Sent' \o Rest')
<1>1. /\ Ch(p) = "%" /\ p' = p + 1 /\ putch("%") /\ pc' = "text"
      /\ via' = via /\ fmt' = fmt /\ args' = args
  BY DEF Percent, Converts
<1>2. Inside(j, i, prev, a) /\ FmtTypeOK
  BY DEF Reading, TInv
<1>3. /\ i <= Len(fmt) /\ j \in 0..Len(fmt) /\ i = Cursor(fmt)[j].at
      /\ args = prev \o a /\ Len(prev) = Cursor(fmt)[j].taken /\ Sent = Texts(fmt, prev, j)
  BY <1>2, InsideTypes DEF Inside
<1>4. PICK ch \in Char : ch = "%"
  BY LiteralsAreChars
<1>5. ch \notin Modifiers /\ ch \in Conversions
  BY <1>4, NulIsNone DEF Conversions
<1>6. /\ Converter(fmt, i) = ch /\ CharAt(fmt, i) = "%" /\ Behind(fmt, i) = p'
      /\ Takes(fmt, i) = Len(a) + 0
  BY <1>1, <1>4, <1>5, ConverterIs
<1>7. Takes(fmt, i) = Len(a)
  <2>1. Len(a) \in Nat
    OBVIOUS
  <2>2. QED
    BY <1>6, <2>1
<1>8. Meaning(fmt, i, a) = <<ch>>
  BY <1>4, <1>6 DEF Meaning
<1>9. putch(ch)
  BY <1>1, <1>4
<1>10. QED
  BY <1>1, <1>2, <1>3, <1>6, <1>7, <1>8, <1>9, OneCharDone

LEMMA DefaultDone ==
  ASSUME TInv, BufTypeOK, NEW j, NEW i, NEW prev \in Seq(Args), NEW a \in Seq(Args),
         Reading(j, i, prev, a), Default
  PROVE  Between(fmt', p', args', Sent' \o Rest')
<1>1. /\ Ch(p) \notin Recognised /\ putch("%") /\ pc' = "text"
      /\ via' = via /\ fmt' = fmt /\ args' = args
  BY DEF Default
<1>2. Inside(j, i, prev, a) /\ FmtTypeOK
  BY DEF Reading, TInv
<1>3. /\ i <= Len(fmt) /\ j \in 0..Len(fmt) /\ i = Cursor(fmt)[j].at
      /\ args = prev \o a /\ Len(prev) = Cursor(fmt)[j].taken /\ Sent = Texts(fmt, prev, j)
      /\ fmt \in Seq(Char) /\ p \in Nat /\ i \in Nat \ {0} /\ i < p /\ fmt[i] = "%"
      /\ p <= Len(fmt) + 1 /\ Len(fmt) \in Nat
  BY <1>2, InsideTypes DEF Inside
<1>4. PICK c : c = Ch(p) /\ c \notin Modifiers /\ c \notin Conversions
  BY <1>1 DEF Recognised
<1>5. /\ Converter(fmt, i) = c /\ CharAt(fmt, i) = "%" /\ Behind(fmt, i) = i + 1
      /\ Takes(fmt, i) = Len(a) + 0
  BY <1>4, ConverterIs
<1>6. Takes(fmt, i) = Len(a)
  <2>1. Len(a) \in Nat
    OBVIOUS
  <2>2. QED
    BY <1>5, <2>1
<1>7. PICK ch \in Char : ch = "%"
  BY LiteralsAreChars
<1>8. Meaning(fmt, i, a) = <<ch>>
  BY <1>4, <1>5, <1>7 DEF Meaning
<1>9. p' = i + 1
  <2>1. p' \in 2..p /\ fmt[p' - 1] = "%" /\ \A k \in p'..(p - 1) : fmt[k] # "%"
    BY DefaultBack
  <2>2. PICK x \in Nat : x = p' - 1 /\ p' = x + 1 /\ x >= 1 /\ x < p
    BY <1>3, <2>1
  <2>3. \A k \in (i + 1)..(p - 1) : fmt[k] # "%"
    <3>1. ASSUME NEW k \in (i + 1)..(p - 1) PROVE fmt[k] # "%"
      <4>1. CharAt(fmt, k) \in Modifiers
        BY <1>2 DEF Inside
      <4>2. k \in Nat \ {0} /\ k <= Len(fmt)
        BY <1>3, SMTT(30)
      <4>3. CharAt(fmt, k) = fmt[k]
        BY <4>2 DEF CharAt
      <4>4. QED
        BY <4>1, <4>3, NulIsNone
    <3>2. QED
      BY <3>1
  <2>4. ~(i < x)
    <3>1. i < x => x \in (i + 1)..(p - 1)
      <4>1. PICK y \in Nat, z \in Nat : y = i /\ z = p /\ x < z
        BY <1>3, <2>2
      <4>2. y < x => x \in (y + 1)..(z - 1)
        BY <4>1
      <4>3. QED
        BY <4>1, <4>2
    <3>2. QED
      BY <2>1, <2>2, <2>3, <3>1
  <2>5. ~(x < i)
    <3>1. x < i => i \in (x + 1)..(p - 1)
      <4>1. PICK y \in Nat, z \in Nat : y = i /\ z = p /\ y < z
        BY <1>3
      <4>2. x < y => y \in (x + 1)..(z - 1)
        BY <4>1
      <4>3. QED
        BY <4>1, <4>2
    <3>2. \A k \in (x + 1)..(p - 1) : fmt[k] # "%"
      BY <2>1, <2>2
    <3>3. QED
      BY <1>3, <3>1, <3>2
  <2>6. QED
    BY <1>3, <2>2, <2>4, <2>5, SMTT(30)
<1>10. putch(ch)
  BY <1>1, <1>7
<1>11. p' = Behind(fmt, i)
  BY <1>5, <1>9
<1>12. QED
  BY <1>1, <1>2, <1>3, <1>6, <1>8, <1>10, <1>11, OneCharDone

LEMMA ConvertCounts ==
  ASSUME TInv, BufTypeOK, Convert
  PROVE  /\ pc = "escape" /\ pc' \in Printing_pc /\ via' = via
         /\ Counted => Counted'
<1>1. FmtTypeOK
  BY DEF TInv
<1>2. ASSUME NEW ch \in Char, putch(ch), via' = via PROVE Counted => Counted'
  BY <1>1, <1>2, PutchSends DEF Counted
<1>3. ASSUME UNCHANGED outVars, via' = via PROVE Counted => Counted'
  BY <1>3, NoneSent
<1>4. CASE Char_c
  <2>1. PICK v \in CharArgs : putch(v)
    BY <1>4 DEF Char_c
  <2>2. v \in Char
    BY FmtAssumption
  <2>3. pc = "escape" /\ pc' = "text" /\ via' = via
    BY <1>4 DEF Char_c, Converts
  <2>4. QED
    BY <1>2, <2>1, <2>2, <2>3 DEF Printing_pc
<1>5. CASE Error_e
  <2>1. pc = "escape" /\ UNCHANGED outVars
    BY <1>5 DEF Error_e, Converts
  <2>2. PICK s, v, w : Prints(s, v, 10, w, Space)
    BY <1>5 DEF Error_e
  <2>3. pc' \in Printing_pc /\ via' = via
    BY <2>2 DEF Prints, After, Printing_pc
  <2>4. QED
    BY <1>3, <2>1, <2>3
<1>6. CASE Decimal
  <2>1. PICK v, s, n, b, w, pad :
          Prints(s, n, b, w, pad) /\ IF v < 0 THEN putch("-") ELSE UNCHANGED outVars
    BY <1>6 DEF Decimal
  <2>2. pc = "escape" /\ pc' \in Printing_pc /\ via' = via
    BY <1>6, <2>1 DEF Prints, After, Printing_pc, Decimal, Converts
  <2>3. "-" \in Char
    BY LiteralsAreChars
  <2>4. QED
    BY <1>2, <1>3, <2>1, <2>2, <2>3
<1>7. CASE Unsigned \/ Pointer_p
  <2>1. pc = "escape" /\ UNCHANGED outVars
    BY <1>7 DEF Unsigned, Pointer_p, Converts
  <2>2. PICK s, v, b, w, pad : Prints(s, v, b, w, pad)
    BY <1>7 DEF Unsigned, Pointer_p
  <2>3. pc' \in Printing_pc /\ via' = via
    BY <2>2 DEF Prints, After, Printing_pc
  <2>4. QED
    BY <1>3, <2>1, <2>3
<1>8. CASE Percent \/ Default
  <2>1. pc = "escape" /\ pc' = "text" /\ via' = via /\ putch("%")
    BY <1>8 DEF Percent, Default, Converts
  <2>2. "%" \in Char
    BY LiteralsAreChars
  <2>3. QED
    BY <1>2, <2>1, <2>2 DEF Printing_pc
<1>9. CASE String
  <2>1. pc = "escape" /\ pc' \in Printing_pc /\ via' = via /\ UNCHANGED outVars
    BY <1>9 DEF String, Converts, Printing_pc
  <2>2. QED
    BY <1>3, <2>1
<1>10. QED
  BY <1>4, <1>5, <1>6, <1>7, <1>8, <1>9 DEF Convert

LEMMA ConvertDone ==
  ASSUME TInv, BufTypeOK, TInv', Escapes, Convert
  PROVE  Between(fmt', p', args', Sent' \o Rest')
<1>1. pc = "escape"
  BY ConvertCounts
<1>2. PICK j, i : \E prev, a \in Seq(Args) : Reading(j, i, prev, a)
  BY <1>1 DEF Escapes
<1>3. PICK prev \in Seq(Args), a \in Seq(Args) : Reading(j, i, prev, a)
  BY <1>2
<1>4. QED
  BY <1>3, CharDone, ErrorDone, DecimalDone, UnsignedDone, PointerDone, PercentDone, StringDone,
     DefaultDone DEF Convert

------------------------------------------------------------------------------
(***************************************************************************)
(* The invariant: while an item is printed, what is printed and the rest   *)
(* of the item is the text of the items up to the pointer; while an escape *)
(* sequence is read, the variables hold what its modifiers mean so far.    *)
(***************************************************************************)
OutInv ==
  /\ pc = "call" => text = <<>> /\ screen = <<>> /\ p = 1 /\ args = <<>>
  /\ pc = "cputs" => screen = SubSeq(fmt, 1, p - 1)
  /\ via = "cputs" => pc \notin Printing_pc \cup {"escape", "number"}
  /\ pc \in Printing_pc => Between(fmt, p, args, Sent \o Rest)
  /\ Escapes
  /\ Counted
  /\ OutputIsExpansion

LEMMA StillPrinting ==
  ASSUME pc' \in Printing_pc, Between(fmt', p', args', Sent' \o Rest'), Counted', via' # "cputs"
  PROVE  OutInv'
BY DEF OutInv, Escapes, OutputIsExpansion, Printing_pc

LEMMA TextSent ==
  ASSUME TInv, BufTypeOK, OutInv, pc = "text"
  PROVE  Between(fmt, p, args, Sent) /\ via # "cputs"
<1>1. Sent \in Seq(Char)
  BY SentIs DEF TInv
<1>2. Rest = <<>>
  BY RestIs
<1>3. Sent \o Rest = Sent
  BY <1>1, <1>2, ConcatEmptySeq
<1>4. QED
  BY <1>3 DEF OutInv, Printing_pc

\* Nothing is printed yet, and no item read.
LEMMA BetweenNone ==
  ASSUME NEW f \in Seq(Char)
  PROVE  Between(f, 1, <<>>, <<>>)
<1>1. Cursor(f)[0].at = 1 /\ Cursor(f)[0].taken = 0
  BY CursorSteps
<1>2. Texts(f, <<>>, 0) = <<>>
  BY TextsSteps
<1>3. 0 \in 0..Len(f) /\ Len(<<>>) = 0
  OBVIOUS
<1>4. QED
  BY <1>1, <1>2, <1>3 DEF Between

LEMMA InitOut == Init => OutInv
<1> SUFFICES ASSUME Init PROVE OutInv
  OBVIOUS
<1>1. /\ pc = "call" /\ text = <<>> /\ screen = <<>> /\ shown = 0 /\ p = 1 /\ args = <<>>
  BY DEF Init, BufInit, ConsInit
<1>2. Len(screen) = 0
  BY <1>1
<1>3. QED
  BY <1>1, <1>2 DEF OutInv, Escapes, Counted, OutputIsExpansion, Printing_pc

LEMMA CallOut ==
  ASSUME TInv, OutInv, vsnprintf \/ vcprintf
  PROVE  OutInv'
<1>1. /\ pc = "call" /\ text = <<>> /\ screen = <<>> /\ p = 1 /\ args = <<>>
      /\ via' = via /\ fmt' = fmt /\ p' = p /\ args' = args /\ screen' = screen /\ shown' = shown
      /\ text' = text /\ via # "cputs"
  BY DEF OutInv, vsnprintf, vcprintf, Open, outVars, bufVars, consVars
<1>2. fmt \in Seq(Char)
  BY DEF TInv, FmtTypeOK
<1>3. Counted'
  BY <1>1 DEF OutInv, Counted
<1>4. CASE pc' = "text"
  <2>1. Sent' = <<>> /\ Rest' = <<>>
    BY <1>1, <1>4 DEF Sent, Rest
  <2>2. <<>> \o <<>> = <<>>
    OBVIOUS
  <2>3. Between(fmt', p', args', Sent' \o Rest')
    BY <1>1, <1>2, <2>1, <2>2, BetweenNone
  <2>4. QED
    BY <1>1, <1>3, <1>4, <2>3, StillPrinting DEF Printing_pc
<1>5. CASE pc' # "text"
  <2>1. pc' = "return" /\ via = "vsnprintf" /\ Refused
    BY <1>5 DEF vsnprintf, vcprintf
  <2>2. Refused'
    BY <1>1, <2>1 DEF Refused, ebuf, vsnprintf, vcprintf, Open
  <2>3. QED
    BY <1>1, <1>3, <2>1, <2>2 DEF OutInv, Escapes, OutputIsExpansion, Printing_pc
<1>6. QED
  BY <1>4, <1>5

LEMMA CputsOut ==
  ASSUME TInv, OutInv, cputs
  PROVE  OutInv'
<1>1. /\ via = "cputs" /\ via' = via /\ fmt' = fmt /\ pc \in {"call", "cputs"}
  BY DEF cputs
<1>2. FmtTypeOK /\ Counted
  BY DEF TInv, OutInv
<1>3. fmt \in Seq(Char) /\ p \in Nat \ {0} /\ p <= Len(fmt) + 1 /\ Len(fmt) \in Nat
      /\ screen \in Seq(Char) /\ shown = Len(screen)
  BY <1>1, <1>2 DEF FmtTypeOK, Counted
<1>4. screen = SubSeq(fmt, 1, p - 1)
  <2>1. CASE pc = "call"
    <3>1. screen = <<>> /\ p = 1
      BY <2>1 DEF OutInv
    <3>2. SubSeq(fmt, 1, 0) = <<>>
      BY <1>3
    <3>3. QED
      BY <3>1, <3>2
  <2>2. CASE pc = "cputs"
    BY <2>2 DEF OutInv
  <2>3. QED
    BY <1>1, <2>1, <2>2
<1>5. CASE Ch(p) # NUL
  <2>1. cputch(Ch(p)) /\ p' = p + 1 /\ pc' = "cputs"
    BY <1>5 DEF cputs
  <2>2. Ch(p) = fmt[p] /\ p <= Len(fmt) /\ Ch(p) \in Char
    BY <1>2, <1>3, <1>5, ChIsChar
  <2>3. screen' = Append(SubSeq(fmt, 1, p - 1), fmt[p]) /\ shown' = Len(screen')
    BY <1>3, <1>4, <2>1, <2>2 DEF cputch, cons_putc
  <2>4. PICK n \in Nat : n = p - 1 /\ p = n + 1 /\ n + 1 <= Len(fmt)
    BY <1>3, <2>2
  <2>5. Append(SubSeq(fmt, 1, n), fmt[n + 1]) = SubSeq(fmt, 1, n + 1)
    BY <1>3, <2>4
  <2>6. screen' = SubSeq(fmt', 1, p' - 1)
    BY <1>1, <2>1, <2>3, <2>4, <2>5
  <2>7. QED
    BY <1>1, <2>1, <2>3, <2>6 DEF OutInv, Escapes, OutputIsExpansion, Counted, Printing_pc
<1>6. CASE Ch(p) = NUL
  <2>1. cputch("\n") /\ pc' = "return"
    BY <1>6 DEF cputs
  <2>2. p = Len(fmt) + 1
    BY <1>2, <1>3, <1>6, ChIsChar
  <2>3. screen = fmt
    <3>1. p - 1 = Len(fmt)
      BY <1>3, <2>2
    <3>2. SubSeq(fmt, 1, Len(fmt)) = fmt
      BY <1>3
    <3>3. QED
      BY <1>4, <3>1, <3>2
  <2>4. screen' = Append(fmt, "\n") /\ shown' = Len(screen')
    BY <1>3, <2>1, <2>3, LiteralsAreChars DEF cputch, cons_putc
  <2>5. QED
    BY <1>1, <2>1, <2>4 DEF OutInv, Escapes, OutputIsExpansion, Counted, Printing_pc
<1>7. QED
  BY <1>5, <1>6

LEMMA EndOut ==
  ASSUME TInv, BufTypeOK, OutInv, EndOfFormat
  PROVE  OutInv'
<1>1. /\ pc = "text" /\ Ch(p) = NUL /\ pc' = "return" /\ via' = via /\ fmt' = fmt /\ args' = args
      /\ screen' = screen /\ shown' = shown /\ text' = text
  BY DEF EndOfFormat, consVars, bufVars, Close
<1>2. FmtTypeOK /\ Counted
  BY DEF TInv, OutInv
<1>3. fmt \in Seq(Char) /\ p \in Nat \ {0} /\ Sent \in Seq(Char)
  BY <1>2, SentIs DEF FmtTypeOK
<1>4. Between(fmt, p, args, Sent) /\ via # "cputs"
  BY <1>1, TextSent
<1>5. PICK j \in 0..Len(fmt) : Cursor(fmt)[j].at = p /\ Sent = Texts(fmt, args, j)
  BY <1>4 DEF Between
<1>6. Expansion(fmt, args) = Texts(fmt, args, j)
  <2>1. p > Len(fmt)
    BY <1>1, <1>2, <1>3, ChIsChar
  <2>2. Cursor(fmt)[j].at > Len(fmt) /\ Texts(fmt, args, j) \in Seq(Char)
    BY <1>3, <1>5, <2>1
  <2>3. QED
    BY <1>3, <2>2, TextsEnd
<1>7. Sent = Expansion(fmt, args)
  BY <1>5, <1>6
<1>8. Sent' = Sent
  BY <1>1 DEF Sent
<1>9. Counted'
  BY <1>1, <1>2 DEF Counted
<1>10. OutputIsExpansion'
  BY <1>1, <1>4, <1>7, <1>9 DEF OutputIsExpansion, Sent, Counted
<1>11. QED
  BY <1>1, <1>4, <1>9, <1>10 DEF OutInv, Escapes, Printing_pc

LEMMA StepOut ==
  ASSUME TInv, BufTypeOK, OutInv, [Next]_vars, TInv'
  PROVE  OutInv'
<1>1. FmtTypeOK /\ Escapes /\ Counted
  BY DEF TInv, OutInv
<1>2. CASE UNCHANGED vars
  <2>1. /\ UNCHANGED <<text, screen, shown, null, size, buf, via, fmt, p, pc, args>>
        /\ UNCHANGED <<padc, width, precision, lflag, altflag, q, pending, num, base>>
    BY <1>2 DEF vars, outVars, bufVars, consVars, fmtVars, flags, numVars
  <2>2. Sent' = Sent /\ Rest' = Rest
    BY <2>1 DEF Sent, Rest, NumberText, Shows
  <2>3. Escapes'
    <3>1. \A j, i, prev, a : Inside(j, i, prev, a)' <=> Inside(j, i, prev, a)
      BY <2>1, <2>2 DEF Inside
    <3>2. \A j, i, prev, a : Reading(j, i, prev, a)' <=> Reading(j, i, prev, a)
      BY <2>1, <3>1 DEF Reading
    <3>3. \A j, i, prev, a : ReadingNumber(j, i, prev, a)' <=> ReadingNumber(j, i, prev, a)
      BY <2>1, <3>1 DEF ReadingNumber
    <3>4. QED
      BY <1>1, <2>1, <3>2, <3>3 DEF Escapes
  <2>4. Counted' /\ OutputIsExpansion'
    BY <2>1 DEF OutInv, Counted, OutputIsExpansion, Refused, ebuf
  <2>5. QED
    BY <2>1, <2>2, <2>3, <2>4 DEF OutInv
<1>3. CASE vsnprintf \/ vcprintf
  BY <1>3, CallOut
<1>4. CASE cputs
  BY <1>4, CputsOut
<1>5. CASE Literal
  <2>1. Between(fmt, p, args, Sent) /\ via # "cputs"
    BY <1>5, TextSent DEF Literal
  <2>2. pc' = "text" /\ via' = via /\ Ch(p) \in Char /\ putch(Ch(p))
    BY <1>1, <1>5, ChIsChar DEF Literal, FmtTypeOK
  <2>3. Counted'
    BY <1>1, <2>2, PutchSends DEF Counted
  <2>4. Between(fmt', p', args', Sent' \o Rest')
    BY <1>5, <2>1, LiteralDone
  <2>5. QED
    BY <2>1, <2>2, <2>3, <2>4, StillPrinting DEF Printing_pc
<1>6. CASE EndOfFormat
  BY <1>6, EndOut
<1>7. CASE BeginEscape
  <2>1. Between(fmt, p, args, Sent) /\ via # "cputs"
    BY <1>7, TextSent DEF BeginEscape
  <2>2. pc' = "escape" /\ via' = via /\ UNCHANGED outVars
    BY <1>7 DEF BeginEscape
  <2>3. PICK j \in 0..Len(fmt) :
          Cursor(fmt)[j].at = p /\ Cursor(fmt)[j].taken = Len(args) /\ Sent = Texts(fmt, args, j)
    BY <2>1 DEF Between
  <2>4. PICK i, prev : i = p /\ prev = args /\ prev \in Seq(Args)
    BY DEF TInv
  <2>5. Reading(j, i, prev, <<>>)'
    BY <1>7, <2>3, <2>4, BeginEscapeReads
  <2>6. Escapes'
    <3>1. <<>> \in Seq(Args)
      BY EmptySeq
    <3>2. QED
      BY <2>2, <2>4, <2>5, <3>1 DEF Escapes
  <2>7. Counted'
    BY <1>1, <2>2, NoneSent
  <2>8. QED
    BY <2>1, <2>2, <2>6, <2>7 DEF OutInv, OutputIsExpansion, Printing_pc
<1>8. CASE Escape
  <2>1. Escapes' /\ pc' \in {"escape", "number"}
    BY <1>1, <1>8, EscapeKeeps
  <2>2. /\ pc \in {"escape", "number"} /\ via' = via /\ UNCHANGED outVars
    BY <1>8 DEF Escape, PadFlag, NumberBegins, NumberDigit, NumberEnds, Star, Dot, Hash, Ell, Reswitch
  <2>3. Counted'
    BY <1>1, <2>2, NoneSent
  <2>4. via # "cputs"
    BY <2>2 DEF OutInv
  <2>5. QED
    BY <2>1, <2>2, <2>3, <2>4 DEF OutInv, OutputIsExpansion, Printing_pc
<1>9. CASE Convert
  <2>1. pc = "escape" /\ pc' \in Printing_pc /\ via' = via /\ Counted'
    BY <1>1, <1>9, ConvertCounts
  <2>2. Between(fmt', p', args', Sent' \o Rest')
    BY <1>1, <1>9, ConvertDone
  <2>3. via # "cputs"
    BY <2>1 DEF OutInv
  <2>4. QED
    BY <2>1, <2>2, <2>3, StillPrinting
<1>10. CASE MoreDigits \/ PadNumber \/ FirstDigit \/ Emit \/ Lead \/ Chars \/ Trail
  <2>1. /\ Sent' \o Rest' = Sent \o Rest /\ via' = via /\ fmt' = fmt /\ p' = p /\ args' = args
        /\ pc' \in Printing_pc /\ pc \in Printing_pc /\ Counted'
    BY <1>1, <1>10, LoopSends
  <2>2. Between(fmt, p, args, Sent \o Rest) /\ via # "cputs"
    BY <2>1 DEF OutInv
  <2>3. QED
    BY <2>1, <2>2, StillPrinting
<1>11. QED
  BY <1>2, <1>3, <1>4, <1>5, <1>6, <1>7, <1>8, <1>9, <1>10 DEF Next, Done

------------------------------------------------------------------------------
\* What vsnprintf and cprintf print is what the format means for the arguments
\* they took, for every format, with flags, numbers and stars in any order,
\* and for every argument (printfmt.c:268); cputs prints its string and a newline;
\* and the number returned is that of the characters sent (stdio.c:34).
THEOREM OutputMeansFormat == Spec => []OutputIsExpansion
<1>1. Init => TInv /\ BufInv /\ OutInv
  BY InitTypes, InitBuf, InitOut DEF Init
<1>2. TInv /\ BufInv /\ OutInv /\ [Next]_vars => (TInv /\ BufInv /\ OutInv)'
  <2> SUFFICES ASSUME TInv, BufInv, OutInv, [Next]_vars PROVE (TInv /\ BufInv /\ OutInv)'
    OBVIOUS
  <2>1. TInv' /\ [BufNext]_bufVars
    BY StepTypes DEF Step
  <2>2. BufInv'
    BY <2>1, StepBuf
  <2>3. OutInv'
    BY <2>1, StepOut DEF BufInv
  <2>4. QED
    BY <2>1, <2>2, <2>3
<1>3. OutInv => OutputIsExpansion
  BY DEF OutInv
<1>4. QED
  BY <1>1, <1>2, <1>3, PTL DEF Spec

=============================================================================
