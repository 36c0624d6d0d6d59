---------------------------- MODULE MCPrintFmt -------------------------------
(***************************************************************************)
(* All combinations of up to three modifiers before %s and %d, numbers of  *)
(* three digits left out; of two modifiers before the other conversions,   *)
(* and before the end of the format or a character that converts nothing;  *)
(* a second escape sequence and text around.                               *)
(***************************************************************************)
EXTENDS FormatMeaning

MCTuples(S, k) == UNION {[1..j -> S] : j \in 0..k}
MCModifiers ==
  {m \in MCTuples({"-", "0", "1", "2", "*", "."}, 3) :
     Len(m) = 3 => m[1] = "0" \/ \E i \in 1..3 : m[i] \notin {"0", "1", "2"}}

MCFormats ==
     {<<"%">> \o m \o c : m \in MCModifiers, c \in {<<"s">>, <<"d">>}}
  \cup {<<"%">> \o m \o c : m \in MCTuples({"*", "0", "1"}, 2),
                             c \in {<<>>, <<"q">>, <<"q", "%", "d">>}}
  \cup {<<"%">> \o m \o c : m \in MCTuples({"l", "0", "3"}, 2),
                             c \in {<<"u">>, <<"o">>, <<"x">>, <<"p">>, <<"d">>}}
  \cup {<<"%">> \o m \o c : m \in MCTuples({"#", "3", "1"}, 2),
                             c \in {<<"c">>, <<"e">>, <<"s">>, <<"%">>}}
  \cup {<<>>, <<"q">>, <<"q", "%", "1", "0", "d", "q">>, <<"%", "%", "%", "s">>}

MCChar == {Digit[i] : i \in 1..16} \cup
          {"q", "%", " ", "-", "*", ".", "#", "l", "x", "n", "r", "o", "(", ")",
           "u", "s", "p", "?", "~", "^G", "\n"}
MCIntArgs     == {-8, -1, 0, 2, 7}
MCLongArgs    == {-32, -1, 31}
MCCharArgs    == {"q"}
MCStrArgs     == {<<>>, <<"a", "^G">>, <<"a", "b", "c", "d">>}
MCUnprintable == {"^G"}
MCErrorString == <<<<"b">>, <<"n", "o">>, <<"u">>>>
MCNullPtr     == <<"NULL">>
MCSizes       == {0, 1, 6}
=============================================================================
