------------------------------- MODULE PrintFmt ------------------------------
(***************************************************************************)
(* Formatted printing (libs/printfmt.c, kern/libs/stdio.c): vprintfmt      *)
(* reads the format a character at a time and prints through putch, which  *)
(* is sprintputch or cputch; cputs prints its string as it stands.  An     *)
(* argument is chosen when va_arg takes it, of the type taken.  A step of  *)
(* printnum is a call for the digits before the last, which waits to be    *)
(* printed.  int and long are IntBits and LongBits wide; widths,           *)
(* precisions and the arguments stay within them.                          *)
(***************************************************************************)
EXTENDS SprintBuf, Console, Numerals

CONSTANTS
  Space,              \* ' '
  Formats,            \* format strings
  IntBits, LongBits,  \* widths of int, and of long and long long
  IntArgs, LongArgs,  \* arguments of these types
  CharArgs,           \* arguments of %c
  StrArgs,            \* strings given to %s
  Unprintable,        \* characters below ' ' or above '~'
  ErrorString,        \* error_string from E_UNSPECIFIED on
  NullPtr             \* a NULL given to %s

Least0(bits) == -Power(2)[bits - 1]     \* of a two's complement integer
Mod(bits)    == Power(2)[bits]
Digit    == <<"0", "1", "2", "3", "4", "5", "6", "7", "8", "9",
              "a", "b", "c", "d", "e", "f">>
Null     == <<"(", "n", "u", "l", "l", ")">>
ErrorIs  == <<"e", "r", "r", "o", "r", Space>>
Modifiers   == {"-", "*", ".", "#", "l"} \cup {Digit[i] : i \in 1..10}
Conversions == {"c", "e", "s", "d", "u", "o", "p", "x", "%"}
Recognised  == Modifiers \cup Conversions

ASSUME FmtAssumption ==
  /\ Formats \subseteq Seq(Char)
  /\ IntBits \in Nat \ {0} /\ LongBits \in Nat /\ IntBits <= LongBits
  /\ IntArgs \subseteq Least0(IntBits) .. -Least0(IntBits) - 1
  /\ LongArgs \subseteq Least0(LongBits) .. -Least0(LongBits) - 1
  /\ CharArgs \subseteq Char /\ StrArgs \subseteq Seq(Char)
  /\ ErrorString \in Seq(Seq(Char))
  /\ NullPtr \notin StrArgs

ASSUME LiteralAssumption ==
  /\ NUL \notin Char
  /\ Recognised \cup {Space, "?", "\n"} \subseteq Char /\ Space \notin Recognised
  /\ {Digit[i] : i \in 1..16} \subseteq Char
  /\ Null \in Seq(Char) /\ ErrorIs \in Seq(Char)

VARIABLES
  via,        \* the function called: "vsnprintf", "vcprintf" or "cputs"
  fmt,        \* the format; the string of cputs
  p,          \* the pointer fmt: position of the next character
  pc,         \* "call", "text", "escape", "number", the loops of %s, "num",
              \* "emit", "cputs", "return"
  padc, width, precision, lflag, altflag,   \* of the escape sequence
  q,          \* what is left of the string of %s; p in the code
  pending,    \* digits and literal characters that are still to be printed
  num, base,  \* of printnum; num is -1 if it is not to be called
  args        \* the arguments taken so far (history)

flags == <<padc, width, precision, lflag, altflag>>
numVars == <<pending, num, base>>
fmtVars == <<via, fmt, p, pc, flags, q, numVars, args>>
outVars == <<bufVars, consVars>>
vars == <<outVars, fmtVars>>

MAXERROR == Len(ErrorString)
CharAt(f, i) == IF i <= Len(f) THEN f[i] ELSE NUL
Ch(i)        == CharAt(fmt, i)
IsDigit(ch)  == ch \in {Digit[i] : i \in 1..10}
DigitVal(ch) == (CHOOSE i \in 1..10 : Digit[i] = ch) - 1
Rep(ch, k)   == [i \in 1..k |-> ch]

FmtTypeOK ==
  /\ screen \in Seq(Char) /\ shown \in Nat
  /\ via \in {"vsnprintf", "vcprintf", "cputs"} /\ fmt \in Seq(Char)
  /\ p \in 1..(Len(fmt) + 1)
  /\ pc \in {"call", "text", "escape", "number", "lead", "chars", "trail", "num", "emit",
             "cputs", "return"}
  /\ padc \in {Space, "0", "-"}
  /\ width \in Int /\ precision \in Int /\ lflag \in Nat /\ altflag \in BOOLEAN
  /\ q \in Seq(Char) /\ pending \in Seq(Char)
  /\ num \in -1 .. Mod(LongBits) - 1 /\ base \in {8, 10, 16}

TypeOK == BufTypeOK /\ FmtTypeOK

Init ==
  /\ BufInit /\ ConsInit
  /\ via \in {"vsnprintf", "vcprintf", "cputs"}
  /\ via # "vsnprintf" => null /\ size = 0     \* no buffer
  /\ fmt \in Formats
  /\ p = 1 /\ pc = "call"
  /\ padc = Space /\ width = -1 /\ precision = -1 /\ lflag = 0 /\ altflag = FALSE
  /\ q = <<>> /\ pending = <<>> /\ num = -1 /\ base = 10 /\ args = <<>>

------------------------------------------------------------------------------
\* putch(ch, putdat)
putch(ch) ==
  IF via = "vsnprintf" THEN sprintputch(ch) /\ UNCHANGED consVars
                       ELSE cputch(ch) /\ UNCHANGED bufVars

vsnprintf ==
  /\ pc = "call" /\ via = "vsnprintf"
  /\ Open
  /\ pc' = IF Refused THEN "return" ELSE "text"
  /\ UNCHANGED <<consVars, via, fmt, p, flags, q, numVars, args>>

\* cprintf and vcprintf
vcprintf ==
  /\ pc = "call" /\ via = "vcprintf"
  /\ pc' = "text"
  /\ UNCHANGED <<outVars, via, fmt, p, flags, q, numVars, args>>

\* while ((c = *str++) != '\0') cputch(c, &cnt);  cputch('\n', &cnt)
cputs ==
  /\ via = "cputs" /\ pc \in {"call", "cputs"}
  /\ IF Ch(p) # NUL THEN cputch(Ch(p)) /\ p' = p + 1 /\ pc' = "cputs"
                    ELSE cputch("\n") /\ pc' = "return" /\ UNCHANGED p
  /\ UNCHANGED <<bufVars, via, fmt, flags, q, numVars, args>>

Literal ==
  /\ pc = "text" /\ Ch(p) \notin {"%", NUL}
  /\ putch(Ch(p))
  /\ p' = p + 1
  /\ UNCHANGED <<via, fmt, pc, flags, q, numVars, args>>

EndOfFormat ==
  /\ pc = "text" /\ Ch(p) = NUL
  /\ IF via = "vsnprintf" THEN Close ELSE UNCHANGED bufVars
  /\ pc' = "return"
  /\ UNCHANGED <<consVars, via, fmt, p, flags, q, numVars, args>>

BeginEscape ==
  /\ pc = "text" /\ Ch(p) = "%"
  /\ p' = p + 1 /\ pc' = "escape"
  /\ padc' = Space /\ width' = -1 /\ precision' = -1 /\ lflag' = 0 /\ altflag' = FALSE
  /\ UNCHANGED <<outVars, via, fmt, q, numVars, args>>

------------------------------------------------------------------------------
(***************************************************************************)
(* Flags, width and precision: goto reswitch.                              *)
(***************************************************************************)
Reswitch(ch) ==
  /\ pc = "escape" /\ Ch(p) = ch
  /\ p' = p + 1
  /\ UNCHANGED <<outVars, via, fmt, pc, q, numVars>>

PadFlag ==
  /\ \E ch \in {"-", "0"} : Reswitch(ch) /\ padc' = ch
  /\ UNCHANGED <<width, precision, lflag, altflag, args>>

\* process_precision: the first number is the width, a later one the precision
process_precision(v) ==
  IF width < 0 THEN width' = v /\ precision' = -1
               ELSE precision' = v /\ UNCHANGED width

\* case '1' ... '9' : precision holds the number while it is read
NumberBegins ==
  /\ pc = "escape" /\ IsDigit(Ch(p)) /\ Ch(p) # "0"
  /\ p' = p + 1 /\ pc' = "number"
  /\ precision' = DigitVal(Ch(p))
  /\ UNCHANGED <<outVars, via, fmt, q, numVars, padc, width, lflag, altflag, args>>

NumberDigit ==
  /\ pc = "number" /\ IsDigit(Ch(p))
  /\ p' = p + 1
  /\ precision' = precision * 10 + DigitVal(Ch(p))
  /\ UNCHANGED <<outVars, via, fmt, pc, q, numVars, padc, width, lflag, altflag, args>>

NumberEnds ==
  /\ pc = "number" /\ ~IsDigit(Ch(p))
  /\ pc' = "escape"
  /\ process_precision(precision)
  /\ UNCHANGED <<outVars, via, fmt, p, q, numVars, padc, lflag, altflag, args>>

Star ==
  /\ Reswitch("*")
  /\ \E v \in IntArgs : process_precision(v) /\ args' = Append(args, v)
  /\ UNCHANGED <<padc, lflag, altflag>>

\* Mutant of Dot: the character is not stepped over.
Dot_Stuck ==
  /\ pc = "escape" /\ Ch(p) = "."
  /\ width' = IF width < 0 THEN 0 ELSE width
  /\ UNCHANGED <<outVars, via, fmt, p, pc, q, numVars, padc, precision, lflag, altflag, args>>

Dot ==
  /\ Reswitch(".")
  /\ width' = IF width < 0 THEN 0 ELSE width
  /\ UNCHANGED <<padc, precision, lflag, altflag, args>>

Hash ==
  /\ Reswitch("#")
  /\ altflag' = TRUE
  /\ UNCHANGED <<padc, width, precision, lflag, args>>

Ell ==
  /\ Reswitch("l")
  /\ lflag' = lflag + 1
  /\ UNCHANGED <<padc, width, precision, altflag, args>>

------------------------------------------------------------------------------
(***************************************************************************)
(* Conversions.  What is printed before a number waits in pending, and so  *)
(* do its digits behind the first; va_arg's type is that of the conversion *)
(* and lflag.                                                              *)
(***************************************************************************)
Converts(ch) ==
  /\ pc = "escape" /\ Ch(p) = ch
  /\ p' = p + 1

\* What follows when s, and then the number v if it is not -1, is to be printed.
After(s, v) == IF s # <<>> THEN "emit" ELSE IF v >= 0 THEN "num" ELSE "text"

\* printnum(putch, putdat, v, b, w, pad), behind the characters s
Prints(s, v, b, w, pad) ==
  /\ pending' = s /\ num' = v /\ base' = b /\ width' = w /\ padc' = pad
  /\ pc' = After(s, v)
  /\ UNCHANGED <<via, fmt, precision, lflag, altflag, q>>

Ints(l)    == IF l = 0 THEN IntArgs ELSE LongArgs
Bits(l)    == IF l = 0 THEN IntBits ELSE LongBits
getuint(v) == v % Mod(Bits(lflag))

Char_c ==
  /\ Converts("c")
  /\ \E ch \in CharArgs : putch(ch) /\ args' = Append(args, ch)
  /\ pc' = "text"
  /\ UNCHANGED <<via, fmt, flags, q, numVars>>

\* error_string[0] is NULL.  printfmt formats anew, so that no width holds; -err
\* of the least int overflows and is left out
Error_e ==
  /\ Converts("e")
  /\ \E v \in IntArgs \ {Least0(IntBits)} :
       LET err == IF v < 0 THEN -v ELSE v
       IN  /\ IF err > MAXERROR \/ err = 0 THEN Prints(ErrorIs, err, 10, -1, Space)
                                           ELSE Prints(ErrorString[err], -1, 10, -1, Space)
           /\ args' = Append(args, v)
  /\ UNCHANGED outVars

Decimal ==
  /\ Converts("d")
  /\ \E v \in Ints(lflag) :
       /\ Prints(<<>>, IF v < 0 THEN -v ELSE v, 10, width, padc)
       /\ IF v < 0 THEN putch("-") ELSE UNCHANGED outVars
       /\ args' = Append(args, v)

Base == [u |-> 10, o |-> 8, x |-> 16]

Unsigned ==
  /\ \E ch \in DOMAIN Base, v \in Ints(lflag) :
       /\ Converts(ch)
       /\ Prints(<<>>, getuint(v), Base[ch], width, padc)
       /\ args' = Append(args, v)
  /\ UNCHANGED outVars

Pointer_p ==
  /\ Converts("p")
  /\ \E v \in LongArgs :
       /\ Prints(<<"0", "x">>, v % Mod(LongBits), 16, width, padc)
       /\ args' = Append(args, v)
  /\ UNCHANGED outVars

Percent ==
  /\ Converts("%")
  /\ putch("%")
  /\ pc' = "text"
  /\ UNCHANGED <<via, fmt, flags, q, numVars, args>>

\* The division is of the type unsigned long.
do_div(n, b) == [n   |-> (n % Mod(LongBits)) \div b,
                 res |-> (n % Mod(LongBits)) % b]

\* printnum calls itself; the digit it holds is printed when the call returns
MoreDigits ==
  /\ pc = "num" /\ num >= base
  /\ pending' = <<Digit[do_div(num, base).res + 1]>> \o pending
  /\ num' = do_div(num, base).n
  /\ width' = width - 1
  /\ UNCHANGED <<outVars, via, fmt, p, pc, padc, precision, lflag, altflag, q, base, args>>

\* while (-- width > 0) putch(padc, putdat)
PadNumber ==
  /\ pc = "num" /\ num < base /\ width > 1
  /\ putch(padc)
  /\ width' = width - 1
  /\ UNCHANGED <<via, fmt, p, pc, padc, precision, lflag, altflag, q, numVars, args>>

FirstDigit ==
  /\ pc = "num" /\ num < base /\ width <= 1
  /\ pending' = <<Digit[do_div(num, base).res + 1]>> \o pending
  /\ num' = -1 /\ pc' = "emit"
  /\ UNCHANGED <<outVars, via, fmt, p, flags, q, base, args>>

Emit ==
  /\ pc = "emit"
  /\ putch(Head(pending))
  /\ pending' = Tail(pending)
  /\ pc' = After(Tail(pending), num)
  /\ UNCHANGED <<via, fmt, p, flags, q, num, base, args>>

------------------------------------------------------------------------------
(***************************************************************************)
(* %s and its three loops.                                                 *)
(***************************************************************************)
strnlen(s, k) == IF k < 0 THEN Len(s) ELSE Least(Len(s), k)

String ==
  /\ Converts("s")
  /\ \E s \in StrArgs \cup {NullPtr} :
       /\ q' = IF s = NullPtr THEN Null ELSE s
       /\ args' = Append(args, s)
  /\ IF width > 0 /\ padc # "-"
     THEN width' = width - strnlen(q', precision) /\ pc' = "lead"
     ELSE pc' = "chars" /\ UNCHANGED width
  /\ UNCHANGED <<outVars, via, fmt, padc, precision, lflag, altflag, numVars>>

Lead ==
  /\ pc = "lead"
  /\ IF width > 0 THEN putch(padc) /\ width' = width - 1 /\ UNCHANGED pc
                  ELSE pc' = "chars" /\ UNCHANGED <<outVars, width>>
  /\ UNCHANGED <<via, fmt, p, padc, precision, lflag, altflag, q, numVars, args>>

Shown(ch) == IF altflag /\ ch \in Unprintable THEN "?" ELSE ch

\* (ch = *p ++) != '\0' && (precision < 0 || -- precision >= 0)
Chars ==
  /\ pc = "chars"
  /\ IF q # <<>> /\ precision # 0
     THEN /\ putch(Shown(Head(q)))
          /\ q' = Tail(q) /\ width' = width - 1
          /\ precision' = IF precision < 0 THEN precision ELSE precision - 1
          /\ UNCHANGED pc
     ELSE /\ precision' = IF q # <<>> THEN precision - 1 ELSE precision
          /\ pc' = "trail"
          /\ UNCHANGED <<outVars, q, width>>
  /\ UNCHANGED <<via, fmt, p, padc, lflag, altflag, numVars, args>>

Trail ==
  /\ pc = "trail"
  /\ IF width > 0 THEN putch(Space) /\ width' = width - 1 /\ UNCHANGED <<pc, q>>
                  ELSE pc' = "text" /\ q' = <<>> /\ UNCHANGED <<outVars, width>>
  /\ UNCHANGED <<via, fmt, p, padc, precision, lflag, altflag, numVars, args>>

------------------------------------------------------------------------------
\* Mutant of Default: reading goes on behind the unrecognised character.
Default_Skip ==
  /\ pc = "escape" /\ Ch(p) \notin Recognised
  /\ putch("%")
  /\ pc' = "text"
  /\ UNCHANGED <<via, fmt, p, flags, q, numVars, args>>

\* '%', then back to the character after it: what follows is text
Default ==
  /\ pc = "escape" /\ Ch(p) \notin Recognised
  /\ putch("%")
  /\ p' = CHOOSE i \in 2..p : fmt[i - 1] = "%" /\ \A j \in i..(p - 1) : fmt[j] # "%"
  /\ pc' = "text"
  /\ UNCHANGED <<via, fmt, flags, q, numVars, args>>

Done == pc = "return" /\ UNCHANGED vars

Escape == PadFlag \/ NumberBegins \/ NumberDigit \/ NumberEnds \/ Star \/ Dot \/ Hash \/ Ell
Convert == Char_c \/ Error_e \/ Decimal \/ Unsigned \/ Pointer_p \/ Percent
             \/ String \/ Default

Next == vsnprintf \/ vcprintf \/ cputs \/ Literal \/ EndOfFormat \/ BeginEscape \/ Escape \/ Convert
          \/ MoreDigits \/ PadNumber \/ FirstDigit \/ Emit \/ Lead \/ Chars \/ Trail \/ Done

Spec == Init /\ [][Next]_vars /\ WF_vars(Next)

\* The formatter comes to the end of every format, also after it has moved its
\* pointer back over an unrecognised escape sequence.
Returns == <>(pc = "return")
=============================================================================
