---------------------------- MODULE FormatMeaning ----------------------------
(***************************************************************************)
(* What a format means, read as a whole and not a character at a time: it  *)
(* is a sequence of items, each a character or an escape sequence; an      *)
(* escape sequence is the modifiers up to its conversion character, and    *)
(* its width, precision and padding are functions of all of them.          *)
(***************************************************************************)
EXTENDS PrintFmt, FiniteSets

\* The digits of v, from powers of the base.
Numeral(v, b) ==
  LET k == Places(v, b)
  IN  [i \in 1..k |-> Digit[((v \div Power(b)[k - i]) % b) + 1]]

LeftPad(s, w, pad) == Rep(pad, w - Len(s)) \o s

------------------------------------------------------------------------------
(***************************************************************************)
(* The modifiers of the format f from lo to hi, with the values a of their *)
(* stars: a digit that is not part of a number is the flag 0, a '.' sets a *)
(* width of 0 if there is none.                                            *)
(***************************************************************************)
\* Where a number may begin that has the character at k among its digits.
Begins(f, lo, k) == {j \in lo..k : /\ CharAt(f, j) # "0"
                                   /\ \A m \in j..k : IsDigit(CharAt(f, m))}
InNumber(f, lo, k) == Begins(f, lo, k) # {}
First(S)           == CHOOSE i \in S : \A j \in S : i <= j
Last(S)            == CHOOSE i \in S : \A j \in S : j <= i

Stars(f, lo, hi) == Cardinality({k \in lo..hi : CharAt(f, k) = "*"})
ValueAt(f, j, k) ==
  Value([i \in Nat |-> IF i <= k - j THEN DigitVal(CharAt(f, k - i)) ELSE 0], 10)[k - j + 1]

\* The modifiers that set the width or the precision: a number does at its end.
IsSetter(f, lo, k) == \/ CharAt(f, k) \in {"*", "."}
                      \/ InNumber(f, lo, k) /\ ~IsDigit(CharAt(f, k + 1))
Setters(f, lo, hi) == {k \in lo..hi : IsSetter(f, lo, k)}
Setting(f, lo, k, a) ==
  IF CharAt(f, k) = "*" THEN a[Stars(f, lo, k)]
  ELSE IF CharAt(f, k) = "." THEN 0
  ELSE ValueAt(f, First(Begins(f, lo, k)), k)

\* The first that is not negative is the width, a later one the precision.
WidthAt(f, lo, hi, a) == {k \in Setters(f, lo, hi) :
                            /\ Setting(f, lo, k, a) >= 0
                            /\ \A j \in Setters(f, lo, hi) : j < k => Setting(f, lo, j, a) < 0}
PrecAt(f, lo, hi, a)  == {k \in Setters(f, lo, hi) :
                            CharAt(f, k) # "." /\ \E j \in WidthAt(f, lo, hi, a) : j < k}
IsPad(f, lo, k)  == CharAt(f, k) = "-" \/ (CharAt(f, k) = "0" /\ ~InNumber(f, lo, k))
PadAt(f, lo, hi) == {k \in lo..hi : IsPad(f, lo, k)}

Options(f, lo, hi, a) ==
  LET W == WidthAt(f, lo, hi, a)
      P == PrecAt(f, lo, hi, a)
      F == PadAt(f, lo, hi)
  IN  [w   |-> IF W = {} THEN -1 ELSE Setting(f, lo, Last(W), a),
       prc |-> IF P = {} THEN -1 ELSE Setting(f, lo, Last(P), a),
       pad |-> IF F = {} THEN Space ELSE CharAt(f, Last(F)),
       l   |-> \E k \in lo..hi : CharAt(f, k) = "l",
       alt |-> \E k \in lo..hi : CharAt(f, k) = "#"]

------------------------------------------------------------------------------
\* What %s shows of the string s.
Part(s, prc, alt) ==
  [i \in 1..(IF prc < 0 THEN Len(s) ELSE Least(Len(s), prc))
     |-> IF alt /\ s[i] \in Unprintable THEN "?" ELSE s[i]]

\* The argument v as an unsigned integer.
AsUnsigned(v, bits) == IF v < 0 THEN v + Mod(bits) ELSE v

\* The argument v, converted by ch under the options o.
Converted(ch, o, v) ==
  CASE ch = "c" -> <<v>>
    [] ch = "s" -> LET part == Part(IF v = NullPtr THEN Null ELSE v, o.prc, o.alt)
                   IN  IF o.pad = "-" THEN part \o Rep(Space, o.w - Len(part))
                                      ELSE LeftPad(part, o.w, o.pad)
    [] ch = "d" -> IF v < 0 THEN <<"-">> \o LeftPad(Numeral(-v, 10), o.w, o.pad)
                            ELSE LeftPad(Numeral(v, 10), o.w, o.pad)
    [] ch \in DOMAIN Base ->
         LeftPad(Numeral(AsUnsigned(v, IF o.l THEN LongBits ELSE IntBits), Base[ch]),
                 o.w, o.pad)
    [] ch = "p" -> <<"0", "x">> \o LeftPad(Numeral(AsUnsigned(v, LongBits), 16), o.w, o.pad)
    [] ch = "e" -> LET err == IF v < 0 THEN -v ELSE v
                   IN  IF err \in DOMAIN ErrorString THEN ErrorString[err]
                       ELSE ErrorIs \o Numeral(err, 10)

------------------------------------------------------------------------------
(***************************************************************************)
(* The item at i of the format f, and its items.                           *)
(***************************************************************************)
EscapeEnd(f, i) == CHOOSE k \in (i + 1)..(Len(f) + 1) :
                     /\ CharAt(f, k) \notin Modifiers
                     /\ \A j \in (i + 1)..(k - 1) : CharAt(f, j) \in Modifiers
Converter(f, i) == CharAt(f, EscapeEnd(f, i))

\* An escape sequence that is not recognised is its '%'; the rest of it is text.
Behind(f, i) == IF CharAt(f, i) = "%" /\ Converter(f, i) \in Conversions
                THEN EscapeEnd(f, i) + 1 ELSE i + 1
Takes(f, i)  == IF CharAt(f, i) # "%" THEN 0
                ELSE Stars(f, i + 1, EscapeEnd(f, i) - 1)
                       + (IF Converter(f, i) \in Conversions \ {"%"} THEN 1 ELSE 0)
Meaning(f, i, a) ==
  IF CharAt(f, i) # "%" \/ Converter(f, i) \notin Conversions \ {"%"} THEN <<CharAt(f, i)>>
  ELSE Converted(Converter(f, i), Options(f, i + 1, EscapeEnd(f, i) - 1, a), a[Len(a)])

\* Where the item after j others begins, and how many arguments they take.
Following(f, c) == IF c.at > Len(f) THEN c
                   ELSE [at |-> Behind(f, c.at), taken |-> c.taken + Takes(f, c.at)]
Cursor(f) ==
  LET C[j \in Nat] == IF j = 0 THEN [at |-> 1, taken |-> 0] ELSE Following(f, C[j - 1]) IN C

\* The text of the item after j others; there is none behind the end.
Item(f, j, a) ==
  LET c == Cursor(f)[j]
  IN  IF c.at > Len(f) THEN <<>>
      ELSE Meaning(f, c.at, SubSeq(a, c.taken + 1, c.taken + Takes(f, c.at)))

Concat(x) ==
  LET T[j \in Nat] == IF j = 0 THEN <<>> ELSE T[j - 1] \o x[j - 1] IN T

\* The text of the first j items, and of the format, with the arguments a.
Texts(f, a, j)  == Concat([i \in Nat |-> Item(f, i, a)])[j]
Expansion(f, a) == Texts(f, a, Len(f))

\* When vsnprintf or cprintf returns, every character printed is what the format
\* means for the arguments taken, whatever the order of its flags, numbers and
\* stars, and an escape sequence that is not recognised is printed as it stands
\* (printfmt.c:268); cputs prints no escape sequence at all, and a newline.  On
\* the console nothing is lost, and the number returned is that of the
\* characters sent (stdio.c:34).
OutputIsExpansion ==
  pc = "return" =>
    /\ via = "vsnprintf" /\ ~Refused => text = Expansion(fmt, args)
    /\ via = "vcprintf" => screen = Expansion(fmt, args)
    /\ via = "cputs" => screen = Append(fmt, "\n")
    /\ via # "vsnprintf" => shown = Len(screen)

\* '-' is the "flag to pad on the right" (printfmt.c:139): a number shorter than
\* its width comes before its padding.
MinusPadsOnTheRight ==
  pc = "return" /\ via = "vsnprintf" /\ ~(null \/ size = 0) /\ fmt = <<"%", "-", "2", "d">> =>
    LET v == args[1]
        n == IF v < 0 THEN <<"-">> \o Numeral(-v, 10) ELSE Numeral(v, 10)
    IN  SubSeq(text, 1, Len(n)) = n
=============================================================================
