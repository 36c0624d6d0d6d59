---------------------------- MODULE NumeralProofs ----------------------------
(***************************************************************************)
(* Induction over sets, as the library's induction theorems take an        *)
(* operator, and what it shows of positional notation, for every base.     *)
(***************************************************************************)
EXTENDS Numerals, WellFoundedInduction, TLAPS

\* A set that holds 0 and every successor of its members holds Nat.
LEMMA SetInduction ==
  ASSUME NEW T, 0 \in T, \A i \in Nat : i \in T => i + 1 \in T
  PROVE  \A i \in Nat : i \in T
<1> DEFINE B == {i \in Nat : i \notin T}
<1>1. SUFFICES ASSUME B # {} PROVE FALSE
  OBVIOUS
<1>2. PICK m \in B : \A y \in B : ~ (<<y, m>> \in OpToRel(<, Nat))
  BY <1>1, NatLessThanWellFounded, WFMin
<1>3. m \in Nat /\ m # 0 /\ m - 1 \in Nat /\ m - 1 < m
  OBVIOUS
<1>4. m - 1 \in T
  BY <1>2, <1>3 DEF OpToRel
<1>5. (m - 1) + 1 \in T
  BY <1>3, <1>4
<1>6. QED
  BY <1>3, <1>5

\* A step h and a start x0 determine a function on Nat.
LEMMA Iteration ==
  ASSUME NEW S, NEW x0 \in S, NEW h \in [Nat \X S -> S]
  PROVE  \E f \in [Nat -> S] : f[0] = x0 /\ \A i \in Nat : f[i + 1] = h[<<i, f[i]>>]
<1> DEFINE Runs(k, g) == g[0] = x0 /\ \A i \in 0..(k - 1) : g[i + 1] = h[<<i, g[i]>>]
           Has == {k \in Nat : \E g \in [0..k -> S] : Runs(k, g)}
<1>1. 0 \in Has
  <2>1. [i \in 0..0 |-> x0] \in [0..0 -> S] /\ Runs(0, [i \in 0..0 |-> x0])
    OBVIOUS
  <2>2. QED
    BY <2>1
<1>2. \A k \in Nat : k \in Has => k + 1 \in Has
  <2> SUFFICES ASSUME NEW k \in Nat, k \in Has PROVE k + 1 \in Has
    OBVIOUS
  <2>1. PICK g \in [0..k -> S] : Runs(k, g)
    OBVIOUS
  <2>2. PICK x : x = h[<<k, g[k]>>]
    OBVIOUS
  <2>3. x \in S
    BY <2>2
  <2>4. PICK e : e = [i \in 0..(k + 1) |-> IF i <= k THEN g[i] ELSE x]
    OBVIOUS
  <2>5. e \in [0..(k + 1) -> S]
    BY <2>3, <2>4
  <2>6. (\A i \in 0..k : e[i] = g[i]) /\ e[k + 1] = x
    BY <2>4
  <2>7. Runs(k + 1, e)
    <3>1. e[0] = x0
      BY <2>1, <2>6
    <3>2. ASSUME NEW i \in 0..k PROVE e[i + 1] = h[<<i, e[i]>>]
      <4>1. CASE i = k
        BY <4>1, <2>2, <2>6
      <4>2. CASE i # k
        <5>1. i \in 0..(k - 1) /\ i + 1 \in 0..k
          BY <4>2
        <5>2. g[i + 1] = h[<<i, g[i]>>]
          BY <5>1, <2>1
        <5>3. QED
          BY <5>1, <5>2, <2>6
      <4>3. QED
        BY <4>1, <4>2
    <3>3. QED
      BY <3>1, <3>2
  <2>8. QED
    BY <2>5, <2>7
<1>3. \A k \in Nat : \E g \in [0..k -> S] : Runs(k, g)
  <2>1. \A k \in Nat : k \in Has
    BY <1>1, <1>2, SetInduction
  <2>2. QED
    BY <2>1
<1> DEFINE G(k) == CHOOSE g \in [0..k -> S] : Runs(k, g)
<1>4. \A k \in Nat : G(k) \in [0..k -> S] /\ Runs(k, G(k))
  BY <1>3
<1> HIDE DEF G
<1>5. \A k \in Nat : \A i \in 0..k : G(k)[i] = G(k + 1)[i]
  <2> SUFFICES ASSUME NEW k \in Nat PROVE \A i \in 0..k : G(k)[i] = G(k + 1)[i]
    OBVIOUS
  <2> DEFINE T == {i \in Nat : i <= k => G(k)[i] = G(k + 1)[i]}
  <2>1. 0 \in T
    BY <1>4
  <2>2. \A i \in Nat : i \in T => i + 1 \in T
    <3> SUFFICES ASSUME NEW i \in Nat, i \in T, i + 1 <= k PROVE i + 1 \in T
      OBVIOUS
    <3>1. G(k)[i + 1] = h[<<i, G(k)[i]>>]
      BY <1>4
    <3>2. Runs(k + 1, G(k + 1))
      BY <1>4
    <3>3. G(k + 1)[i + 1] = h[<<i, G(k + 1)[i]>>]
      BY <3>2
    <3>4. QED
      BY <3>1, <3>3
  <2>3. \A i \in Nat : i \in T
    BY <2>1, <2>2, SetInduction
  <2>4. QED
    BY <2>3
<1> DEFINE f == [k \in Nat |-> G(k)[k]]
<1>6. f \in [Nat -> S]
  BY <1>4
<1>7. f[0] = x0
  BY <1>4
<1>8. \A i \in Nat : f[i + 1] = h[<<i, f[i]>>]
  <2> SUFFICES ASSUME NEW i \in Nat PROVE f[i + 1] = h[<<i, f[i]>>]
    OBVIOUS
  <2>1. Runs(i + 1, G(i + 1))
    BY <1>4
  <2>2. G(i + 1)[i + 1] = h[<<i, G(i + 1)[i]>>]
    BY <2>1
  <2>3. QED
    BY <2>2, <1>5
<1>9. QED
  BY <1>6, <1>7, <1>8

\* The recursive functions of positional notation exist.
LEMMA PowerSteps ==
  ASSUME NEW B \in Nat
  PROVE  /\ Power(B) \in [Nat -> Nat]
         /\ Power(B)[0] = 1
         /\ \A i \in Nat : Power(B)[i + 1] = Power(B)[i] * B
<1> DEFINE h == [p \in Nat \X Nat |-> p[2] * B]
           Is(P) == P = [i \in Nat |-> IF i = 0 THEN 1 ELSE P[i - 1] * B]
<1>1. h \in [Nat \X Nat -> Nat]
  OBVIOUS
<1>2. PICK f \in [Nat -> Nat] : f[0] = 1 /\ \A i \in Nat : f[i + 1] = f[i] * B
  <2>1. PICK N, x0, H : N = Nat /\ x0 = 1 /\ H = h
    OBVIOUS
  <2>2. x0 \in N /\ H \in [Nat \X N -> N]
    BY <1>1, <2>1
  <2>3. PICK f \in [Nat -> N] : f[0] = x0 /\ \A i \in Nat : f[i + 1] = H[<<i, f[i]>>]
    BY <2>2, Iteration
  <2>4. f \in [Nat -> Nat] /\ f[0] = 1
    BY <2>1, <2>3
  <2>5. \A i \in Nat : f[i + 1] = f[i] * B
    BY <2>1, <2>3, <2>4
  <2>6. QED
    BY <2>4, <2>5
<1>3. \A i \in Nat \ {0} : f[i] = f[i - 1] * B
  <2> SUFFICES ASSUME NEW i \in Nat \ {0} PROVE f[i] = f[i - 1] * B
    OBVIOUS
  <2>1. i - 1 \in Nat /\ (i - 1) + 1 = i
    OBVIOUS
  <2>2. QED
    BY <1>2, <2>1
<1>4. Is(f)
  BY <1>2, <1>3
<1>5. Is(Power(B))
  BY <1>4 DEF Power
<1> DEFINE T == {i \in Nat : Power(B)[i] \in Nat}
<1>6. 0 \in T
  BY <1>5
<1>7. ASSUME NEW i \in Nat, i \in T PROVE i + 1 \in T
  <2>1. PICK x \in Nat : x = Power(B)[i]
    BY <1>7
  <2>2. Power(B)[i + 1] = x * B
    BY <1>5, <2>1
  <2>3. QED
    BY <2>2
<1>8. \A i \in Nat : i \in T
  BY <1>6, <1>7, SetInduction
<1>9. \A i \in Nat : Power(B)[i] \in Nat
  BY <1>8
<1>10. Power(B)[0] = 1 /\ \A i \in Nat : Power(B)[i + 1] = Power(B)[i] * B
  <2>1. ASSUME NEW i \in Nat PROVE Power(B)[i + 1] = Power(B)[i] * B
    <3>1. (i + 1) - 1 = i /\ i + 1 \in Nat /\ i + 1 # 0
      OBVIOUS
    <3>2. QED
      BY <1>5, <3>1
  <2>2. QED
    BY <1>5, <2>1
<1>11. Power(B) \in [Nat -> Nat]
  <2>1. PICK P : P = Power(B)
    OBVIOUS
  <2>2. \A i \in Nat : (IF i = 0 THEN 1 ELSE P[i - 1] * B) = P[i] /\ P[i] \in Nat
    BY <1>5, <1>9, <2>1
  <2>3. [i \in Nat |-> IF i = 0 THEN 1 ELSE P[i - 1] * B] \in [Nat -> Nat]
    BY <2>2
  <2>4. QED
    BY <1>5, <2>1, <2>3
<1>12. QED
  BY <1>10, <1>11

LEMMA ValueSteps ==
  ASSUME NEW dig, NEW B \in Nat
  PROVE  (\A i \in Nat : dig[i] \in Nat) =>
           /\ Value(dig, B) \in [Nat -> Nat]
           /\ Value(dig, B)[0] = 0
           /\ \A i \in Nat :
                Value(dig, B)[i + 1] = Value(dig, B)[i] + dig[i] * Power(B)[i]
<1>0. SUFFICES ASSUME \A i \in Nat : dig[i] \in Nat
               PROVE  /\ Value(dig, B) \in [Nat -> Nat]
                      /\ Value(dig, B)[0] = 0
                      /\ \A i \in Nat : Value(dig, B)[i + 1] =
                                          Value(dig, B)[i] + dig[i] * Power(B)[i]
  OBVIOUS
<1> DEFINE h == [p \in Nat \X Nat |-> p[2] + dig[p[1]] * Power(B)[p[1]]]
           Is(V) == V = [i \in Nat |-> IF i = 0 THEN 0
                                       ELSE V[i - 1] + dig[i - 1] * Power(B)[i - 1]]
           W == Value(dig, B)
<1>1. \A i \in Nat : dig[i] * Power(B)[i] \in Nat
  <2> SUFFICES ASSUME NEW i \in Nat PROVE dig[i] * Power(B)[i] \in Nat
    OBVIOUS
  <2>1. PICK x \in Nat, y \in Nat : x = dig[i] /\ y = Power(B)[i]
    BY <1>0, PowerSteps
  <2>2. QED
    BY <2>1
<1>2. PICK f \in [Nat -> Nat] :
        f[0] = 0 /\ \A i \in Nat : f[i + 1] = f[i] + dig[i] * Power(B)[i]
  <2>1. PICK N, x0, H : N = Nat /\ x0 = 0 /\ H = h
    OBVIOUS
  <2>2. x0 \in N /\ H \in [Nat \X N -> N]
    <3>1. h \in [Nat \X Nat -> Nat]
      BY <1>1
    <3>2. QED
      BY <2>1, <3>1
  <2>3. PICK f \in [Nat -> N] : f[0] = x0 /\ \A i \in Nat : f[i + 1] = H[<<i, f[i]>>]
    BY <2>2, Iteration
  <2>4. f \in [Nat -> Nat] /\ f[0] = 0
    BY <2>1, <2>3
  <2>5. \A i \in Nat : f[i + 1] = f[i] + dig[i] * Power(B)[i]
    BY <2>1, <2>3, <2>4
  <2>6. QED
    BY <2>4, <2>5
<1>3. \A i \in Nat \ {0} : f[i] = f[i - 1] + dig[i - 1] * Power(B)[i - 1]
  <2> SUFFICES ASSUME NEW i \in Nat \ {0}
               PROVE  f[i] = f[i - 1] + dig[i - 1] * Power(B)[i - 1]
    OBVIOUS
  <2>1. i - 1 \in Nat /\ (i - 1) + 1 = i
    OBVIOUS
  <2>2. QED
    BY <1>2, <2>1
<1>4. Is(f)
  BY <1>2, <1>3
<1>5. Is(W)
  BY <1>4 DEF Value
<1> HIDE DEF W
<1>6. W[0] = 0 /\ \A i \in Nat : W[i + 1] = W[i] + dig[i] * Power(B)[i]
  <2>1. ASSUME NEW i \in Nat PROVE W[i + 1] = W[i] + dig[i] * Power(B)[i]
    <3>1. (i + 1) - 1 = i /\ i + 1 \in Nat /\ i + 1 # 0
      OBVIOUS
    <3>2. QED
      BY <1>5, <3>1
  <2>2. QED
    BY <1>5, <2>1
<1> DEFINE T == {i \in Nat : W[i] \in Nat}
<1>7. 0 \in T
  BY <1>6
<1>8. ASSUME NEW i \in Nat, i \in T PROVE i + 1 \in T
  BY <1>1, <1>6, <1>8
<1>9. \A i \in Nat : i \in T
  BY <1>7, <1>8, SetInduction
<1>10. W \in [Nat -> Nat]
  <2>1. \A i \in Nat : /\ (IF i = 0 THEN 0 ELSE W[i - 1] + dig[i - 1] * Power(B)[i - 1]) = W[i]
                      /\ W[i] \in Nat
    BY <1>5, <1>9
  <2>2. [i \in Nat |-> IF i = 0 THEN 0 ELSE W[i - 1] + dig[i - 1] * Power(B)[i - 1]]
          \in [Nat -> Nat]
    BY <2>1
  <2>3. QED
    BY <1>5, <2>2
<1>11. QED
  BY <1>6, <1>10 DEF W

LEMMA Regroup ==
  ASSUME NEW w \in Nat, NEW B \in Nat, NEW p \in Nat, NEW g \in Nat, NEW h \in Nat
  PROVE  (w * B + g) + h * (p * B) = (w + h * p) * B + g
OBVIOUS

\* One more digit on the right: the digits before it weigh B times as much.
LEMMA OneMoreDigit ==
  ASSUME NEW dig, NEW longer, NEW B \in Nat, NEW i \in Nat
  PROVE  (\A k \in Nat : dig[k] \in Nat /\ longer[k] \in Nat /\ longer[k + 1] = dig[k]) =>
           Value(longer, B)[i + 1] = Value(dig, B)[i] * B + longer[0]
<1>0. SUFFICES ASSUME \A k \in Nat : dig[k] \in Nat /\ longer[k] \in Nat
                                    /\ longer[k + 1] = dig[k]
               PROVE  Value(longer, B)[i + 1] = Value(dig, B)[i] * B + longer[0]
  OBVIOUS
<1> DEFINE V == Value(longer, B)
           W == Value(dig, B)
           T == {k \in Nat : V[k + 1] = W[k] * B + longer[0]}
<1>1. /\ V[0] = 0
      /\ \A k \in Nat : V[k + 1] = V[k] + longer[k] * Power(B)[k]
  BY <1>0, ValueSteps
<1>2. /\ W[0] = 0 /\ W \in [Nat -> Nat]
      /\ \A k \in Nat : W[k + 1] = W[k] + dig[k] * Power(B)[k]
  BY <1>0, ValueSteps
<1> HIDE DEF V, W
<1>3. 0 \in T
  <2>1. PICK g \in Nat : g = longer[0]
    BY <1>0
  <2>2. Power(B)[0] = 1
    BY PowerSteps
  <2>3. V[0 + 1] = 0 + g * 1
    BY <1>1, <2>1, <2>2
  <2>4. V[0 + 1] = W[0] * B + g
    BY <1>2, <2>3
  <2>5. QED
    BY <2>1, <2>4
<1>4. ASSUME NEW k \in Nat, k \in T PROVE k + 1 \in T
  <2>0. longer[0] \in Nat /\ dig[k] \in Nat /\ W[k] \in Nat /\ Power(B)[k] \in Nat
    <3>1. longer[0] \in Nat /\ dig[k] \in Nat
      BY <1>0
    <3>2. QED
      BY <3>1, <1>2, PowerSteps
  <2>1. PICK g \in Nat, h \in Nat, p \in Nat, w \in Nat :
          g = longer[0] /\ h = dig[k] /\ p = Power(B)[k] /\ w = W[k]
    BY <2>0
  <2>2. V[(k + 1) + 1] = V[k + 1] + h * Power(B)[k + 1]
    BY <1>0, <1>1, <2>1
  <2>3. V[(k + 1) + 1] = (w * B + g) + h * (p * B)
    BY <1>4, <2>1, <2>2, PowerSteps
  <2>4. W[k + 1] = w + h * p
    BY <1>2, <2>1
  <2>5. V[(k + 1) + 1] = W[k + 1] * B + g
    BY <2>3, <2>4, Regroup
  <2>6. QED
    BY <2>1, <2>5
<1>5. \A k \in Nat : k \in T
  BY <1>3, <1>4, SetInduction
<1>6. QED
  BY <1>5 DEF V, W

------------------------------------------------------------------------------
(***************************************************************************)
(* Division by the base takes the last digit off a number.                 *)
(***************************************************************************)
LEMMA PowerGrows ==
  ASSUME NEW B \in Nat \ {0, 1}
  PROVE  /\ \A i \in Nat : Power(B)[i] > i
         /\ \A i, j \in Nat : i <= j => Power(B)[i] <= Power(B)[j]
<1>1. PICK P : P = Power(B)
  OBVIOUS
<1>2. P \in [Nat -> Nat] /\ P[0] = 1 /\ \A i \in Nat : P[i + 1] = P[i] * B
  BY <1>1, PowerSteps
<1>3. \A x \in Nat : x > 0 => x * B > x
  OBVIOUS
<1> DEFINE T == {i \in Nat : P[i] > i}
<1>4. 0 \in T
  BY <1>2
<1>5. ASSUME NEW i \in Nat, i \in T PROVE i + 1 \in T
  <2>1. PICK x \in Nat : x = P[i]
    BY <1>2
  <2>2. x > i /\ P[i + 1] = x * B
    BY <1>2, <1>5, <2>1
  <2>3. x * B > x
    BY <1>3, <2>2
  <2>4. QED
    BY <2>2, <2>3
<1>6. \A i \in Nat : i \in T
  BY <1>4, <1>5, SetInduction
<1>7. \A i \in Nat : P[i] <= P[i + 1]
  <2> SUFFICES ASSUME NEW i \in Nat PROVE P[i] <= P[i + 1]
    OBVIOUS
  <2>1. PICK x \in Nat : x = P[i]
    BY <1>2
  <2>2. x > 0 /\ P[i + 1] = x * B
    BY <1>2, <1>6, <2>1
  <2>3. QED
    BY <1>3, <2>1, <2>2
<1>8. ASSUME NEW i \in Nat PROVE \A j \in Nat : i <= j => P[i] <= P[j]
  <2> DEFINE U == {j \in Nat : i <= j => P[i] <= P[j]}
  <2>1. 0 \in U
    BY <1>2
  <2>2. ASSUME NEW j \in Nat, j \in U PROVE j + 1 \in U
    <3>1. P[j] \in Nat /\ P[j + 1] \in Nat /\ P[i] \in Nat /\ P[j] <= P[j + 1]
      BY <1>2, <1>7
    <3>2. CASE i <= j
      BY <3>1, <3>2, <2>2
    <3>3. CASE i > j
      BY <3>1, <3>3
    <3>4. QED
      BY <3>2, <3>3
  <2>3. \A j \in Nat : j \in U
    BY <2>1, <2>2, SetInduction
  <2>4. QED
    BY <2>3
<1>9. QED
  BY <1>1, <1>6, <1>8

LEMMA PlacesAre ==
  ASSUME NEW B \in Nat \ {0, 1}, NEW v \in Nat, NEW k \in Nat \ {0},
         v < Power(B)[k], k > 1 => Power(B)[k - 1] <= v
  PROVE  Places(v, B) = k
<1>1. PICK P : P = Power(B)
  OBVIOUS
<1>2. P \in [Nat -> Nat] /\ (\A i \in Nat : P[i] > i)
      /\ (\A i, j \in Nat : i <= j => P[i] <= P[j])
  BY <1>1, PowerSteps, PowerGrows
<1>3. k \in 1..(v + 1)
  <2>1. CASE k = 1
    BY <2>1
  <2>2. CASE k > 1
    <3>1. k - 1 \in Nat /\ P[k - 1] > k - 1 /\ P[k - 1] <= v /\ P[k - 1] \in Nat
      BY <1>1, <1>2, <2>2
    <3>2. QED
      BY <3>1
  <2>3. QED
    BY <2>1, <2>2
<1>4. ASSUME NEW m \in 1..(v + 1), v < P[m], m > 1 => P[m - 1] <= v PROVE m = k
  <2>1. CASE m < k
    <3>1. m <= k - 1 /\ m \in Nat /\ k - 1 \in Nat
      BY <2>1
    <3>2. P[m] <= P[k - 1] /\ P[m] \in Nat /\ P[k - 1] \in Nat
      BY <1>2, <3>1
    <3>3. P[k - 1] <= v
      BY <1>1, <2>1
    <3>4. QED
      BY <1>4, <3>2, <3>3
  <2>2. CASE m > k
    <3>1. k <= m - 1 /\ m - 1 \in Nat /\ m > 1
      BY <2>2
    <3>2. P[k] <= P[m - 1] /\ P[k] \in Nat /\ P[m - 1] \in Nat
      BY <1>2, <3>1
    <3>3. v < P[k]
      BY <1>1
    <3>4. QED
      BY <1>4, <3>1, <3>2, <3>3
  <2>3. QED
    BY <2>1, <2>2
<1>5. Places(v, B) = CHOOSE m \in 1..(v + 1) : v < P[m] /\ (m > 1 => P[m - 1] <= v)
  BY <1>1 DEF Places
<1>6. v < P[k] /\ (k > 1 => P[k - 1] <= v)
  BY <1>1
<1>7. QED
  BY <1>3, <1>4, <1>5, <1>6

LEMMA PlacesExist ==
  ASSUME NEW B \in Nat \ {0, 1}, NEW v \in Nat
  PROVE  /\ Places(v, B) \in Nat \ {0}
         /\ v < Power(B)[Places(v, B)]
         /\ Places(v, B) > 1 => Power(B)[Places(v, B) - 1] <= v
<1>1. PICK P : P = Power(B)
  OBVIOUS
<1>2. P \in [Nat -> Nat] /\ \A i \in Nat : P[i] > i
  BY <1>1, PowerSteps, PowerGrows
<1> DEFINE T == {i \in Nat \ {0} : v < P[i]}
<1>3. v + 1 \in T
  <2>1. v + 1 \in Nat /\ P[v + 1] > v + 1 /\ P[v + 1] \in Nat
    BY <1>2
  <2>2. QED
    BY <2>1
<1>4. PICK k \in T : \A y \in T : ~ (<<y, k>> \in OpToRel(<, Nat))
  BY <1>3, NatLessThanWellFounded, WFMin
<1>5. ASSUME k > 1 PROVE P[k - 1] <= v
  <2>1. k - 1 \in Nat \ {0} /\ k - 1 < k /\ P[k - 1] \in Nat
    BY <1>2, <1>5
  <2>2. k - 1 \notin T
    BY <1>4, <2>1 DEF OpToRel
  <2>3. QED
    BY <2>1, <2>2
<1>6. k \in Nat \ {0} /\ v < Power(B)[k] /\ (k > 1 => Power(B)[k - 1] <= v)
  BY <1>1, <1>5
<1>7. Places(v, B) = k
  BY <1>6, PlacesAre
<1>8. QED
  BY <1>6, <1>7

LEMMA Division ==
  ASSUME NEW v \in Nat, NEW B \in Nat \ {0}
  PROVE  \E q \in Nat, r \in 0..(B - 1) : q = v \div B /\ r = v % B /\ v = q * B + r
<1>1. v \div B \in Nat /\ v % B \in 0..(B - 1)
  OBVIOUS
<1>2. PICK q \in Nat, r \in 0..(B - 1) : q = v \div B /\ r = v % B
  BY <1>1
<1>3. v % B = v - B * (v \div B)
  OBVIOUS
<1>4. r = v - B * q
  BY <1>2, <1>3
<1>5. v = q * B + r
  BY <1>4
<1>6. QED
  BY <1>2, <1>5

LEMMA QuotientIs ==
  ASSUME NEW v \in Nat, NEW B \in Nat \ {0}, NEW q \in Nat, NEW r \in 0..(B - 1), v = q * B + r
  PROVE  q = v \div B
<1>1. v = B * q + r
  OBVIOUS
<1>2. QED
  BY <1>1

\* To divide by P * B is to divide by B and then by P.
LEMMA DivideTwice ==
  ASSUME NEW v \in Nat, NEW B \in Nat \ {0}, NEW P \in Nat \ {0}
  PROVE  v \div (P * B) = (v \div B) \div P
<1>1. PICK q \in Nat, r \in 0..(B - 1) : q = v \div B /\ v = q * B + r
  BY Division
<1>2. PICK c \in Nat, s \in 0..(P - 1) : c = q \div P /\ q = c * P + s
  BY Division
<1>3. v = c * (P * B) + (s * B + r)
  <2>1. q * B = c * (P * B) + s * B
    <3>1. (c * P + s) * B = c * (P * B) + s * B
      OBVIOUS
    <3>2. QED
      BY <1>2, <3>1
  <2>2. QED
    BY <1>1, <2>1
<1>4. s * B + r \in 0..(P * B - 1)
  <2>1. s + 1 <= P /\ r + 1 <= B
    OBVIOUS
  <2>2. (s + 1) * B <= P * B
    BY <2>1
  <2>3. (s + 1) * B = s * B + B
    OBVIOUS
  <2>4. s * B \in Nat /\ P * B \in Nat
    OBVIOUS
  <2>5. QED
    BY <2>1, <2>2, <2>3, <2>4
<1>5. P * B \in Nat \ {0}
  OBVIOUS
<1>6. PICK D : D = P * B
  OBVIOUS
<1>7. D \in Nat \ {0} /\ s * B + r \in 0..(D - 1)
  BY <1>4, <1>5, <1>6
<1>8. PICK t : t = s * B + r
  OBVIOUS
<1>9. c = v \div D
  <2>1. v = c * D + t /\ t \in 0..(D - 1)
    BY <1>3, <1>6, <1>7, <1>8
  <2>2. QED
    BY <1>7, <2>1, QuotientIs
<1>10. QED
  BY <1>1, <1>2, <1>6, <1>9

LEMMA OnePlace ==
  ASSUME NEW B \in Nat \ {0, 1}, NEW v \in Nat, v < B
  PROVE  Places(v, B) = 1
<1>1. Power(B)[0] = 1 /\ Power(B)[0 + 1] = Power(B)[0] * B
  BY PowerSteps
<1>2. Power(B)[1] = B
  BY <1>1
<1>3. QED
  BY <1>2, PlacesAre

LEMMA OnePlaceMore ==
  ASSUME NEW B \in Nat \ {0, 1}, NEW v \in Nat, v >= B
  PROVE  Places(v, B) = Places(v \div B, B) + 1
<1>1. PICK q \in Nat, r \in 0..(B - 1) : q = v \div B /\ v = q * B + r
  BY Division
<1>2. PICK k \in Nat \ {0} : k = Places(q, B)
  BY PlacesExist
<1>3. PICK P : P = Power(B)
  OBVIOUS
<1>4. P \in [Nat -> Nat] /\ P[0] = 1 /\ \A i \in Nat : P[i + 1] = P[i] * B
  BY <1>3, PowerSteps
<1>5. q < P[k] /\ (k > 1 => P[k - 1] <= q)
  BY <1>2, <1>3, PlacesExist
<1>6. v < P[k + 1]
  <2>1. PICK x \in Nat : x = P[k]
    BY <1>4
  <2>2. q + 1 <= x /\ P[k + 1] = x * B
    BY <1>4, <1>5, <2>1
  <2>3. (q + 1) * B <= x * B
    BY <2>2
  <2>4. v < (q + 1) * B
    BY <1>1
  <2>5. QED
    BY <2>2, <2>3, <2>4
<1>7. P[k] <= v
  <2>1. CASE k = 1
    <3>1. P[0 + 1] = P[0] * B
      BY <1>4
    <3>2. P[1] = B
      BY <1>4, <3>1
    <3>3. QED
      BY <2>1, <3>2
  <2>2. CASE k > 1
    <3>1. PICK j \in Nat : j = k - 1
      BY <2>2
    <3>2. PICK x \in Nat : x = P[j]
      BY <1>4
    <3>3. x <= q /\ P[j + 1] = x * B /\ j + 1 = k
      BY <1>4, <1>5, <2>2, <3>1, <3>2
    <3>4. x * B <= q * B
      BY <3>3
    <3>5. q * B <= v
      BY <1>1
    <3>6. P[k] = x * B
      BY <3>3
    <3>7. QED
      BY <3>4, <3>5, <3>6
  <2>3. QED
    BY <2>1, <2>2
<1>8. Places(v, B) = k + 1
  <2>1. PICK m \in Nat \ {0} : m = k + 1
    OBVIOUS
  <2>2. m - 1 = k
    BY <2>1
  <2>3. v < Power(B)[m] /\ (m > 1 => Power(B)[m - 1] <= v)
    BY <1>3, <1>6, <1>7, <2>1, <2>2
  <2>4. QED
    BY <2>1, <2>3, PlacesAre
<1>9. QED
  BY <1>1, <1>2, <1>8
=============================================================================
