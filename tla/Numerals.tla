------------------------------ MODULE Numerals -------------------------------
(***************************************************************************)
(* Positional notation, against which the loops that read numbers and      *)
(* those that print them are checked.                                      *)
(***************************************************************************)
EXTENDS Integers

\* The powers of B.
Power(B) ==
  LET P[i \in Nat] == IF i = 0 THEN 1 ELSE P[i - 1] * B IN P

\* The sum of the i lowest digits of dig, each by its weight; dig[0] is the
\* digit of the units.
Value(dig, B) ==
  LET V[i \in Nat] == IF i = 0 THEN 0 ELSE V[i - 1] + dig[i - 1] * Power(B)[i - 1]
  IN  V

\* How many digits v has; 0 has one.
Places(v, B) == CHOOSE k \in 1..(v + 1) : /\ v < Power(B)[k]
                                          /\ k > 1 => Power(B)[k - 1] <= v
=============================================================================
