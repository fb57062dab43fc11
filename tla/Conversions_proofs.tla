------------------------ MODULE Conversions_proofs ------------------------
(***************************************************************************)
(* Theorems about what is written down and read again: the frames of a     *)
(* stream of packets, and the IDs that a process generates with the texts  *)
(* they are written as, for every packet and every number.                 *)
(***************************************************************************)
EXTENDS WellFoundedInduction, SequenceTheorems, PacketFraming, Snowflake, TLAPS

(***************************************************************************)
(* Induction, powers and digits (Numbers).                                 *)
(***************************************************************************)

\* A set of natural numbers has a least member.
LEMMA LeastNatural ==
    ASSUME NEW T, T \subseteq Nat, T # {}
    PROVE  \E x \in T : \A y \in T : x <= y
<1> DEFINE Below == OpToRel(<, Nat)
<1>1. \E x \in T : \A y \in T : ~ (<<y, x>> \in Below)
  <2>1. IsWellFoundedOn(Below, Nat)
    BY NatLessThanWellFounded
  <2> HIDE DEF Below
  <2> QED
    BY <2>1, WFMin
<1>2. \A x, y \in Nat : <<y, x>> \in Below <=> y < x
  BY DEF OpToRel
<1> HIDE DEF Below
<1>3. PICK x \in T : \A y \in T : ~ (<<y, x>> \in Below)
  BY <1>1
<1>4. \A y \in T : ~ (y < x)
  BY <1>2, <1>3
<1> QED
  BY <1>4

\* Induction, with the set of the numbers that have the property.
LEMMA InductionSet ==
    ASSUME NEW T, 0 \in T, \A n \in Nat : n \in T => n + 1 \in T
    PROVE  Nat \subseteq T
<1> SUFFICES ASSUME Nat \ T # {} PROVE FALSE
  OBVIOUS
<1>1. PICK x \in Nat \ T : \A y \in Nat \ T : x <= y
  BY LeastNatural
<1> QED
  BY <1>1

\* The same from all smaller numbers.
LEMMA StrongInductionSet ==
    ASSUME NEW T, \A n \in Nat : (\A m \in 0..n-1 : m \in T) => n \in T
    PROVE  Nat \subseteq T
<1> SUFFICES ASSUME Nat \ T # {} PROVE FALSE
  OBVIOUS
<1>1. PICK x \in Nat \ T : \A y \in Nat \ T : x <= y
  BY LeastNatural
<1>2. \A m \in 0..x-1 : m \in T
  BY <1>1
<1> QED
  BY <1>2

\* f is first[n] where the recursion stops, and else comes from a smaller number.
Recursive(f, dom, V, Stop, first, prev, take) ==
    /\ f \in [dom -> V]
    /\ \A n \in dom : n \in Stop => f[n] = first[n]
    /\ \A n \in dom : n \notin Stop => f[n] = take[<<f[prev[n]], n>>]

Agree(g, h, k) == \A i \in 0..k : g[i] = h[i]

\* Two functions of the same recursion agree as far as both go,
LEMMA RecursiveUnique ==
    ASSUME NEW V, NEW Stop, NEW first, NEW prev \in [Nat -> Nat], NEW take,
           \A n \in Nat : n \notin Stop => prev[n] < n,
           NEW k \in Nat, NEW m \in Nat, NEW g, NEW h, k <= m,
           Recursive(g, 0..k, V, Stop, first, prev, take),
           Recursive(h, 0..m, V, Stop, first, prev, take)
    PROVE  Agree(g, h, k)
<1> DEFINE T == {n \in Nat : n <= k => g[n] = h[n]}
<1>1. ASSUME NEW n \in Nat, \A i \in 0..n-1 : i \in T
      PROVE  n \in T
  <2> SUFFICES ASSUME n <= k PROVE g[n] = h[n]
    OBVIOUS
  <2>1. n \in 0..k /\ n \in 0..m
    OBVIOUS
  <2>2. CASE n \in Stop
    BY <2>1, <2>2 DEF Recursive
  <2>3. CASE n \notin Stop
    <3>1. PICK j \in 0..n-1 : j = prev[n]
      BY <2>3
    <3>2. j \in T /\ j <= k
      BY <1>1
    <3>2a. g[prev[n]] = h[prev[n]]
      BY <3>1, <3>2
    <3>3. g[n] = take[<<g[prev[n]], n>>]
      BY <2>1, <2>3 DEF Recursive
    <3>4. h[n] = take[<<h[prev[n]], n>>]
      BY <2>1, <2>3 DEF Recursive
    <3> QED
      BY <3>2a, <3>3, <3>4
  <2> QED
    BY <2>2, <2>3
<1> HIDE DEF T
<1>2. Nat \subseteq T
  BY <1>1, StrongInductionSet
<1> QED
  BY <1>2 DEF T, Agree

\* and one that goes to k is followed by one that goes a step further.
LEMMA RecursiveStep ==
    ASSUME NEW V, NEW Stop, NEW first \in [Nat -> V], NEW prev \in [Nat -> Nat],
           NEW take \in [V \X Nat -> V],
           \A n \in Nat : n \notin Stop => prev[n] < n,
           NEW k \in Nat, NEW g, Recursive(g, 0..k, V, Stop, first, prev, take)
    PROVE  \E h : Recursive(h, 0..(k + 1), V, Stop, first, prev, take)
<1> DEFINE last == IF k + 1 \in Stop THEN first[k + 1] ELSE take[<<g[prev[k + 1]], k + 1>>]
           h == [i \in 0..(k + 1) |-> IF i = k + 1 THEN last ELSE g[i]]
<1>1. last \in V
  <2>1. CASE k + 1 \in Stop
    BY <2>1
  <2>2. CASE k + 1 \notin Stop
    <3>1. prev[k + 1] \in 0..k
      BY <2>2
    <3>2. g[prev[k + 1]] \in V /\ k + 1 \in Nat
      BY <3>1 DEF Recursive
    <3> QED
      BY <2>2, <3>2
  <2> QED
    BY <2>1, <2>2
<1> HIDE DEF last
<1>2. \A i \in 0..k : h[i] = g[i] /\ g[i] \in V /\ i \in 0..(k + 1)
  BY DEF Recursive
<1>3. h[k + 1] = last
  OBVIOUS
<1>4. h \in [0..(k + 1) -> V]
  <2>1. ASSUME NEW i \in 0..(k + 1) PROVE (IF i = k + 1 THEN last ELSE g[i]) \in V
    <3>1. i = k + 1 \/ i \in 0..k
      OBVIOUS
    <3> QED
      BY <1>1, <1>2, <3>1
  <2> QED
    BY <2>1
<1> HIDE DEF h
<1>5. ASSUME NEW n \in 0..(k + 1), n \in Stop PROVE h[n] = first[n]
  <2>1. CASE n = k + 1
    BY <1>3, <1>5, <2>1 DEF last
  <2>2. CASE n # k + 1
    <3>1. n \in 0..k
      BY <2>2
    <3> QED
      BY <1>2, <1>5, <3>1 DEF Recursive
  <2> QED
    BY <2>1, <2>2
<1>6. ASSUME NEW n \in 0..(k + 1), n \notin Stop PROVE h[n] = take[<<h[prev[n]], n>>]
  <2>1. prev[n] \in 0..k
    BY <1>6
  <2>2. h[prev[n]] = g[prev[n]]
    BY <1>2, <2>1
  <2>3. CASE n = k + 1
    BY <1>3, <1>6, <2>2, <2>3 DEF last
  <2>4. CASE n # k + 1
    <3>1. n \in 0..k
      BY <2>4
    <3>2. g[n] = take[<<g[prev[n]], n>>]
      BY <1>6, <3>1 DEF Recursive
    <3> QED
      BY <1>2, <2>2, <3>1, <3>2
  <2> QED
    BY <2>3, <2>4
<1>7. Recursive(h, 0..(k + 1), V, Stop, first, prev, take)
  BY <1>4, <1>5, <1>6 DEF Recursive
<1> QED
  BY <1>7

\* A function whose values come from smaller numbers exists.
LEMMA RecursiveExists ==
    ASSUME NEW V, NEW Stop, NEW first \in [Nat -> V], NEW prev \in [Nat -> Nat],
           NEW take \in [V \X Nat -> V],
           \A n \in Nat : n \notin Stop => prev[n] < n
    PROVE  \E f : Recursive(f, Nat, V, Stop, first, prev, take)
<1> DEFINE P(g, k) == Recursive(g, 0..k, V, Stop, first, prev, take)
           T == {k \in Nat : \E g : P(g, k)}
<1>1. 0 \in T
  <2> DEFINE g0 == [i \in 0..0 |-> first[0]]
  <2>1. 0 \in Stop
    OBVIOUS
  <2>2. P(g0, 0)
    BY <2>1 DEF Recursive
  <2> HIDE DEF g0, P
  <2> QED
    BY <2>2
<1>2. ASSUME NEW k \in Nat, k \in T PROVE k + 1 \in T
  <2>1. PICK g : Recursive(g, 0..k, V, Stop, first, prev, take)
    BY <1>2
  <2>2. \E h : Recursive(h, 0..(k + 1), V, Stop, first, prev, take)
    BY <2>1, RecursiveStep
  <2> QED
    BY <2>2
<1>3. Nat \subseteq T
  <2> HIDE DEF T
  <2> QED
    BY <1>1, <1>2, InductionSet
<1> DEFINE G(k) == CHOOSE g : P(g, k)
<1>4. \A k \in Nat : P(G(k), k)
  <2> TAKE k \in Nat
  <2>1. \E g : P(g, k)
    BY <1>3
  <2> HIDE DEF P
  <2> QED
    BY <2>1
<1> HIDE DEF G
<1>5. ASSUME NEW k \in Nat, NEW m \in Nat, k <= m PROVE G(k)[k] = G(m)[k]
  <2>1. ASSUME NEW g, NEW h, P(g, k), P(h, m) PROVE g[k] = h[k]
    <3>1. Agree(g, h, k)
      <4>1. Recursive(g, 0..k, V, Stop, first, prev, take) /\ Recursive(h, 0..m, V, Stop, first, prev, take)
        BY <2>1
      <4> HIDE DEF P, T
      <4> QED
        BY <1>5, <4>1, RecursiveUnique
    <3> QED
      BY <3>1 DEF Agree
  <2> HIDE DEF P
  <2> QED
    BY <1>4, <2>1
<1> DEFINE f == [n \in Nat |-> G(n)[n]]
<1>6. ASSUME NEW n \in Nat
      PROVE  /\ f[n] \in V /\ (n \in Stop => f[n] = first[n])
             /\ (n \notin Stop => f[n] = take[<<f[prev[n]], n>>])
  <2>1. P(G(n), n) /\ n \in 0..n
    BY <1>4
  <2>2. G(n)[n] \in V /\ (n \in Stop => G(n)[n] = first[n])
    BY <2>1 DEF Recursive
  <2>3. ASSUME n \notin Stop PROVE f[n] = take[<<f[prev[n]], n>>]
    <3>1. prev[n] \in Nat /\ prev[n] <= n
      BY <2>3
    <3>2. G(prev[n])[prev[n]] = G(n)[prev[n]]
      BY <1>5, <3>1
    <3>3. G(n)[n] = take[<<G(n)[prev[n]], n>>]
      BY <2>1, <2>3 DEF Recursive
    <3> QED
      BY <3>1, <3>2, <3>3
  <2> QED
    BY <2>2, <2>3
<1>7. f \in [Nat -> V]
  BY <1>6
<1> HIDE DEF f
<1>8. Recursive(f, Nat, V, Stop, first, prev, take)
  BY <1>6, <1>7 DEF Recursive
<1> QED
  BY <1>8

\* The powers of a base are what the recursion says, and positive.
LEMMA PowerFacts ==
    ASSUME NEW b \in Nat \ {0}
    PROVE  /\ Power(b)[0] = 1
           /\ \A k \in Nat : Power(b)[k] \in Nat \ {0} /\ Power(b)[k + 1] = b * Power(b)[k]
<1> DEFINE take == [p \in Nat \X Nat |-> b * p[1]]
           prev == [n \in Nat |-> IF n = 0 THEN 0 ELSE n - 1]
           first == [n \in Nat |-> 1]
           power == CHOOSE f : f = [k \in Nat |-> IF k = 0 THEN 1 ELSE b * f[k - 1]]
<1>1. take \in [Nat \X Nat -> Nat] /\ first \in [Nat -> Nat] /\ prev \in [Nat -> Nat]
  OBVIOUS
<1>2. \A n \in Nat : n \notin {0} => prev[n] < n /\ prev[n] = n - 1
  OBVIOUS
<1>3. \A v, n \in Nat : take[<<v, n>>] = b * v /\ first[n] = 1
  OBVIOUS
<1> HIDE DEF take, prev, first
<1>4. PICK f : Recursive(f, Nat, Nat, {0}, first, prev, take)
  BY <1>1, <1>2, RecursiveExists
<1>5. f \in [Nat -> Nat]
  BY <1>4 DEF Recursive
<1>6. ASSUME NEW k \in Nat PROVE f[k] = IF k = 0 THEN 1 ELSE b * f[k - 1]
  <2>1. CASE k = 0
    BY <1>3, <1>4, <2>1 DEF Recursive
  <2>2. CASE k # 0
    <3>1. k - 1 \in Nat /\ f[k - 1] \in Nat
      BY <1>5, <2>2
    <3>2. f[k] = take[<<f[k - 1], k>>]
      BY <1>2, <1>4, <2>2 DEF Recursive
    <3> QED
      BY <1>3, <2>2, <3>1, <3>2
  <2> QED
    BY <2>1, <2>2
<1>7. f = [k \in Nat |-> IF k = 0 THEN 1 ELSE b * f[k - 1]]
  BY <1>5, <1>6
<1>8. power = [k \in Nat |-> IF k = 0 THEN 1 ELSE b * power[k - 1]]
  BY <1>7
<1>9. Power(b) = power
  BY DEF Power
<1> HIDE DEF power
<1>10. power[0] = 1
  BY <1>8
<1>11. ASSUME NEW k \in Nat PROVE power[k + 1] = b * power[k]
  <2>1. k + 1 \in Nat /\ k + 1 # 0 /\ (k + 1) - 1 = k
    OBVIOUS
  <2>2. power[k + 1] = IF k + 1 = 0 THEN 1 ELSE b * power[(k + 1) - 1]
    BY <1>8, <2>1
  <2> QED
    BY <2>1, <2>2
<1> DEFINE T == {k \in Nat : power[k] \in Nat \ {0}}
<1>12. 0 \in T
  BY <1>10
<1>13. ASSUME NEW n \in Nat, n \in T PROVE n + 1 \in T
  <2>1. \A v \in Nat \ {0} : b * v \in Nat \ {0}
    OBVIOUS
  <2> QED
    BY <1>11, <1>13, <2>1
<1> HIDE DEF T
<1>14. Nat \subseteq T
  BY <1>12, <1>13, InductionSet
<1> QED
  BY <1>9, <1>10, <1>11, <1>14 DEF T

\* The same for one power.
LEMMA PowerNat ==
    ASSUME NEW b \in Nat \ {0}, NEW k \in Nat
    PROVE  Power(b)[k] \in Nat \ {0} /\ Power(b)[k + 1] = b * Power(b)[k]
BY PowerFacts

\* The number after every digit, where number[Len(digits)] is the result.
NumberSteps(number, digits, b) ==
    /\ number[0] = 0
    /\ \A i \in 0..Len(digits) : number[i] \in Nat
    /\ \A i \in 0..Len(digits) - 1 : number[i + 1] = number[i] * b + digits[i + 1]

\* The loop leaves Number: it exists,
LEMMA NumberExists ==
    ASSUME NEW digits \in Seq(Nat), NEW b \in Nat
    PROVE  \E number : NumberSteps(number, digits, b) /\ Number(digits, b) = number[Len(digits)]
<1> DEFINE L == Len(digits)
           Stop == {0} \cup {n \in Nat : n > L}
           take == [p \in Nat \X Nat |-> IF p[2] \in 1..L THEN p[1] * b + digits[p[2]] ELSE 0]
           prev == [n \in Nat |-> IF n = 0 THEN 0 ELSE n - 1]
           first == [n \in Nat |-> 0]
           value == CHOOSE f : f = [i \in 0..L |-> IF i = 0 THEN 0 ELSE f[i - 1] * b + digits[i]]
<1>0. L \in Nat /\ \A i \in 1..L : digits[i] \in Nat
  OBVIOUS
<1> HIDE DEF L
<1>1. take \in [Nat \X Nat -> Nat] /\ first \in [Nat -> Nat] /\ prev \in [Nat -> Nat]
  <2>1. \A v \in Nat, n \in 1..L : v * b + digits[n] \in Nat
    BY <1>0
  <2>2. ASSUME NEW p \in Nat \X Nat
        PROVE  (IF p[2] \in 1..L THEN p[1] * b + digits[p[2]] ELSE 0) \in Nat
    <3>1. p[1] \in Nat
      OBVIOUS
    <3> QED
      BY <2>1, <3>1
  <2> QED
    BY <2>2
<1>2. \A n \in Nat : n \notin Stop => prev[n] < n /\ prev[n] = n - 1
  OBVIOUS
<1>3. \A v, n \in Nat : (n \in 1..L => take[<<v, n>>] = v * b + digits[n]) /\ first[n] = 0
  OBVIOUS
<1>3a. 0 \in Stop /\ \A n \in 1..L : n \notin Stop
  BY <1>0
<1> HIDE DEF take, prev, first, Stop
<1>4. PICK f : Recursive(f, Nat, Nat, Stop, first, prev, take)
  BY <1>1, <1>2, RecursiveExists
<1>5. f \in [Nat -> Nat]
  BY <1>4 DEF Recursive
<1> DEFINE g == [i \in 0..L |-> f[i]]
<1>6. ASSUME NEW k \in 0..L PROVE g[k] = IF k = 0 THEN 0 ELSE g[k - 1] * b + digits[k]
  <2>1. CASE k = 0
    BY <1>0, <1>3, <1>3a, <1>4, <2>1 DEF Recursive
  <2>2. CASE k # 0
    <3>1. k - 1 \in Nat /\ f[k - 1] \in Nat /\ k \in 1..L /\ k - 1 \in 0..L
      BY <1>0, <1>5, <2>2
    <3>2. k \in Nat /\ k \notin Stop /\ prev[k] = k - 1
      BY <1>2, <1>3a, <3>1
    <3>3. f[k] = take[<<f[prev[k]], k>>]
      BY <1>4, <3>2 DEF Recursive
    <3> QED
      BY <1>3, <2>2, <3>1, <3>2, <3>3
  <2> QED
    BY <2>1, <2>2
<1>6a. \A i \in 0..L : g[i] \in Nat
  BY <1>0, <1>5
<1>7. g = [i \in 0..L |-> IF i = 0 THEN 0 ELSE g[i - 1] * b + digits[i]]
  BY <1>6
<1> HIDE DEF g
<1>8. value = [i \in 0..L |-> IF i = 0 THEN 0 ELSE value[i - 1] * b + digits[i]]
  BY <1>7
<1>9. Number(digits, b) = value[L]
  BY DEF Number, L
<1> HIDE DEF value
<1>10. value[0] = 0
  BY <1>0, <1>8
<1>11. ASSUME NEW i \in 0..L-1 PROVE value[i + 1] = value[i] * b + digits[i + 1]
  <2>1. i + 1 \in 0..L /\ i + 1 # 0 /\ (i + 1) - 1 = i
    BY <1>0
  <2>2. value[i + 1] = IF i + 1 = 0 THEN 0 ELSE value[(i + 1) - 1] * b + digits[i + 1]
    BY <1>8, <2>1
  <2> QED
    BY <2>1, <2>2
<1> DEFINE T == {i \in Nat : i <= L => value[i] \in Nat}
<1>12. 0 \in T
  BY <1>10
<1>13. ASSUME NEW i \in Nat, i \in T PROVE i + 1 \in T
  <2> SUFFICES ASSUME i + 1 <= L PROVE value[i + 1] \in Nat
    OBVIOUS
  <2>1. i \in 0..L-1 /\ value[i] \in Nat /\ digits[i + 1] \in Nat
    BY <1>0, <1>13
  <2>2. value[i + 1] = value[i] * b + digits[i + 1]
    BY <1>11, <2>1
  <2>3. \A v, d \in Nat : v * b + d \in Nat
    OBVIOUS
  <2> QED
    BY <2>1, <2>2, <2>3
<1> HIDE DEF T
<1>14. Nat \subseteq T
  BY <1>12, <1>13, InductionSet
<1>15. \A i \in 0..L : value[i] \in Nat
  BY <1>0, <1>14 DEF T
<1>16. NumberSteps(value, digits, b)
  BY <1>10, <1>11, <1>15 DEF NumberSteps, L
<1> QED
  BY <1>9, <1>16 DEF L

\* and is unique.
LEMMA NumberUnique ==
    ASSUME NEW digits \in Seq(Nat), NEW b \in Nat, NEW f, NumberSteps(f, digits, b)
    PROVE  Number(digits, b) = f[Len(digits)]
<1>1. PICK g : NumberSteps(g, digits, b) /\ Number(digits, b) = g[Len(digits)]
  BY NumberExists
<1> DEFINE L == Len(digits)
           T == {i \in Nat : i <= L => f[i] = g[i]}
<1>0. L \in Nat
  OBVIOUS
<1>2. 0 \in T
  BY <1>1 DEF NumberSteps
<1>3. ASSUME NEW i \in Nat, i \in T PROVE i + 1 \in T
  <2> SUFFICES ASSUME i + 1 <= L PROVE f[i + 1] = g[i + 1]
    OBVIOUS
  <2>1. i \in 0..Len(digits) - 1 /\ f[i] = g[i]
    BY <1>3
  <2>2. f[i + 1] = f[i] * b + digits[i + 1] /\ g[i + 1] = g[i] * b + digits[i + 1]
    BY <1>1, <2>1 DEF NumberSteps
  <2> QED
    BY <2>1, <2>2
<1> HIDE DEF T
<1>4. Nat \subseteq T
  BY <1>2, <1>3, InductionSet
<1>5. f[L] = g[L]
  BY <1>0, <1>4 DEF T
<1> QED
  BY <1>1, <1>5

\* What digits stand for is a natural number.
LEMMA NumberNat ==
    ASSUME NEW digits \in Seq(Nat), NEW b \in Nat
    PROVE  Number(digits, b) \in Nat
<1>1. PICK g : NumberSteps(g, digits, b) /\ Number(digits, b) = g[Len(digits)]
  BY NumberExists
<1>2. Len(digits) \in 0..Len(digits)
  OBVIOUS
<1> QED
  BY <1>1, <1>2 DEF NumberSteps

\* Division by a product, digit by digit.
LEMMA DigitStep ==
    ASSUME NEW n \in Nat, NEW b \in Nat \ {0}, NEW w \in Nat \ {0}
    PROVE  n \div w = (n \div (b * w)) * b + ((n \div w) % b)
<1> DEFINE q == n \div w
           r == n % w
<1>1. q \in Nat /\ r \in 0..w-1 /\ n = w * q + r
  OBVIOUS
<1> HIDE DEF q, r
<1> DEFINE p == q \div b
           d == q % b
<1>2. p \in Nat /\ d \in 0..b-1 /\ q = b * p + d
  BY <1>1
<1> HIDE DEF p, d
<1>3. n = (b * w) * p + (w * d + r)
  BY <1>1, <1>2
<1>4. w * d + r \in Nat /\ w * d + r < b * w
  <2>1. w * d + r < w * d + w
    BY <1>1, <1>2
  <2>2. w * (d + 1) <= w * b
    BY <1>2
  <2> QED
    BY <1>1, <1>2, <2>1, <2>2
<1>5. b * w \in Nat \ {0}
  OBVIOUS
<1>6. n \div (b * w) = p
  BY <1>2, <1>3, <1>4, <1>5
<1>7. d = (n \div w) % b /\ q = n \div w
  BY DEF d, q
<1>8. q = p * b + d
  BY <1>2
<1> QED
  BY <1>6, <1>7, <1>8

\* The fixed digits of a number that fits in the width are that number.
LEMMA FixedDigitsNumber ==
    ASSUME NEW b \in Nat \ {0}, NEW width \in Nat, NEW n \in Nat, n < Power(b)[width]
    PROVE  /\ FixedDigits(n, b, width) \in Seq(0..b-1)
           /\ Len(FixedDigits(n, b, width)) = width
           /\ Number(FixedDigits(n, b, width), b) = n
<1> DEFINE s == FixedDigits(n, b, width)
           f == [i \in 0..width |-> n \div Power(b)[width - i]]
<1>1. \A i \in 0..width : Power(b)[width - i] \in Nat \ {0}
  BY PowerFacts
<1>2. \A i \in 1..width : (n \div Power(b)[width - i]) % b \in 0..b-1
  BY <1>1
<1>3. s \in Seq(0..b-1) /\ Len(s) = width /\ \A i \in 1..width : s[i] = (n \div Power(b)[width - i]) % b
  BY <1>2 DEF FixedDigits
<1>4. NumberSteps(f, s, b)
  <2> HIDE DEF s
  <2>1. f[0] = 0
    <3>1. Power(b)[width] \in Nat \ {0}
      BY PowerFacts
    <3> QED
      BY <3>1
  <2>2. \A i \in 0..Len(s) : f[i] \in Nat
    <3>1. \A w \in Nat \ {0} : n \div w \in Nat
      OBVIOUS
    <3> QED
      BY <1>1, <1>3, <3>1
  <2>3. ASSUME NEW i \in 0..Len(s) - 1 PROVE f[i + 1] = f[i] * b + s[i + 1]
    <3> DEFINE k == width - (i + 1)
    <3>1. k \in Nat /\ k + 1 = width - i /\ i + 1 \in 1..width /\ i \in 0..width
      BY <1>3
    <3>2. Power(b)[k] \in Nat \ {0} /\ Power(b)[k + 1] = b * Power(b)[k]
      BY <3>1, PowerNat
    <3>3. f[i] = n \div (b * Power(b)[k]) /\ f[i + 1] = n \div Power(b)[k]
      BY <3>1, <3>2
    <3>4. s[i + 1] = (n \div Power(b)[k]) % b
      BY <1>3, <3>1
    <3> DEFINE w == Power(b)[k]
    <3>5. w \in Nat \ {0} /\ f[i] = n \div (b * w) /\ f[i + 1] = n \div w /\ s[i + 1] = (n \div w) % b
      BY <3>2, <3>3, <3>4
    <3> HIDE DEF w, f
    <3>6. n \div w = (n \div (b * w)) * b + ((n \div w) % b)
      BY <3>5, DigitStep
    <3> QED
      BY <3>5, <3>6
  <2> QED
    BY <2>1, <2>2, <2>3 DEF NumberSteps
<1>5. s \in Seq(Nat)
  <2> HIDE DEF s
  <2> QED
    BY <1>3
<1>6. Number(s, b) = f[Len(s)]
  BY <1>4, <1>5, NumberUnique
<1>7. f[width] = n
  <2>1. Power(b)[width - width] = 1
    BY PowerFacts
  <2> QED
    BY <2>1
<1> QED
  BY <1>3, <1>6, <1>7

(***************************************************************************)
(* Frames (PacketFraming).                                                 *)
(***************************************************************************)

Bytes == 0..Radix - 1
Frame(packet) == PutUint(Len(packet)) \o packet

\* The bytes of the first i packets, one frame after the other.
Stream(packets) ==
    LET stream[i \in Nat] == IF i = 0 \/ i > Len(packets) THEN <<>> ELSE stream[i - 1] \o Frame(packets[i])
    IN  stream

Begins(s, t) == Len(s) <= Len(t) /\ \A i \in 1..Len(s) : s[i] = t[i]


\* Putting sequences together.
LEMMA ConcatAssoc ==
    ASSUME NEW S, NEW s \in Seq(S), NEW t \in Seq(S), NEW u \in Seq(S)
    PROVE  (s \o t) \o u = s \o (t \o u)
<1> DEFINE l == (s \o t) \o u
           r == s \o (t \o u)
<1>1. s \o t \in Seq(S) /\ t \o u \in Seq(S) /\ l \in Seq(S) /\ r \in Seq(S)
  OBVIOUS
<1>2. Len(l) = Len(s) + Len(t) + Len(u) /\ Len(r) = Len(l)
  OBVIOUS
<1>3. ASSUME NEW i \in 1..Len(l) PROVE l[i] = r[i]
  <2>1. CASE i <= Len(s)
    BY <1>2, <2>1
  <2>2. CASE i > Len(s) /\ i <= Len(s) + Len(t)
    BY <1>2, <2>2
  <2>3. CASE i > Len(s) + Len(t)
    BY <1>2, <2>3
  <2> QED
    BY <2>1, <2>2, <2>3
<1> HIDE DEF l, r
<1>4. l = r
  BY <1>1, <1>2, <1>3
<1> QED
  BY <1>4 DEF l, r

\* Putting sequences of bytes together.
LEMMA BytesAssoc ==
    \A s, t, u \in Seq(Bytes) : (s \o t) \o u = s \o (t \o u)
BY ConcatAssoc

Grouped(s, t, u) == (s \o t) \o u = s \o (t \o u)

\* The same under one name.
LEMMA BytesGrouped ==
    \A s, t, u \in Seq(Bytes) : Grouped(s, t, u)
BY BytesAssoc DEF Grouped

\* Nothing before or behind a sequence.
LEMMA ConcatEmpty ==
    ASSUME NEW S, NEW s \in Seq(S)
    PROVE  s \o <<>> = s /\ <<>> \o s = s
<1>1. s \o <<>> \in Seq(S) /\ Len(s \o <<>>) = Len(s) /\ \A i \in 1..Len(s) : (s \o <<>>)[i] = s[i]
  OBVIOUS
<1>2. <<>> \o s \in Seq(S) /\ Len(<<>> \o s) = Len(s) /\ \A i \in 1..Len(s) : (<<>> \o s)[i] = s[i]
  OBVIOUS
<1> QED
  BY <1>1, <1>2

\* Two sequences joined: their length and their elements,
LEMMA ConcatTyped ==
    ASSUME NEW S, NEW s \in Seq(S), NEW t \in Seq(S)
    PROVE  /\ s \o t \in Seq(S) /\ Len(s \o t) = Len(s) + Len(t)
           /\ \A i \in 1..Len(s) : (s \o t)[i] = s[i]
           /\ \A i \in 1..Len(t) : (s \o t)[Len(s) + i] = t[i]
OBVIOUS

Joined(s, t, u) ==
    /\ Len(u) = Len(s) + Len(t)
    /\ \A i \in 1..Len(s) : u[i] = s[i]
    /\ \A i \in 1..Len(t) : u[Len(s) + i] = t[i]

\* under one name.
LEMMA ConcatJoined ==
    ASSUME NEW S, NEW s \in Seq(S), NEW t \in Seq(S)
    PROVE  s \o t \in Seq(S) /\ Joined(s, t, s \o t)
BY ConcatTyped DEF Joined

\* Cutting a sequence after n elements.
LEMMA CutTyped ==
    ASSUME NEW S, NEW s \in Seq(S), NEW n \in 0..Len(s)
    PROVE  /\ SubSeq(s, 1, n) \in Seq(S) /\ SubSeq(s, n + 1, Len(s)) \in Seq(S)
           /\ Len(SubSeq(s, 1, n)) = n /\ Len(SubSeq(s, n + 1, Len(s))) = Len(s) - n
           /\ \A i \in 1..n : SubSeq(s, 1, n)[i] = s[i]
           /\ \A i \in 1..Len(s) - n : SubSeq(s, n + 1, Len(s))[i] = s[n + i]
<1>1. \A i \in 1..n : s[i] \in S
  OBVIOUS
<1>2. \A i \in (n + 1)..Len(s) : s[i] \in S
  OBVIOUS
<1> QED
  BY <1>1, <1>2, SubSeqProperties

\* and the two halves make up the sequence again.
LEMMA CutConcat ==
    ASSUME NEW S, NEW s \in Seq(S), NEW n \in 0..Len(s)
    PROVE  SubSeq(s, 1, n) \o SubSeq(s, n + 1, Len(s)) = s
<1> DEFINE a == SubSeq(s, 1, n)
           z == SubSeq(s, n + 1, Len(s))
<1>1. /\ a \in Seq(S) /\ z \in Seq(S) /\ Len(a) = n /\ Len(z) = Len(s) - n
      /\ \A i \in 1..n : a[i] = s[i]
      /\ \A i \in 1..Len(s) - n : z[i] = s[n + i]
  BY CutTyped
<1> HIDE DEF a, z
<1> DEFINE c == a \o z
<1>2. /\ c \in Seq(S) /\ Len(c) = Len(a) + Len(z)
      /\ \A i \in 1..Len(a) : c[i] = a[i]
      /\ \A i \in 1..Len(z) : c[Len(a) + i] = z[i]
  BY <1>1, ConcatTyped
<1> HIDE DEF c
<1>3. ASSUME NEW i \in 1..Len(s) PROVE c[i] = s[i]
  <2>1. CASE i <= n
    BY <1>1, <1>2, <2>1
  <2>2. CASE i > n
    <3>1. i - n \in 1..Len(s) - n /\ n + (i - n) = i
      BY <2>2
    <3>2. c[n + (i - n)] = z[i - n]
      BY <1>1, <1>2, <3>1
    <3> QED
      BY <1>1, <3>1, <3>2
  <2> QED
    BY <2>1, <2>2
<1>4. c = s
  BY <1>1, <1>2, <1>3
<1> QED
  BY <1>4 DEF a, z, c

\* A sequence that another one begins with.
LEMMA BeginsEqual ==
    ASSUME NEW S, NEW s \in Seq(S), NEW t \in Seq(S), Begins(s, t), Len(s) = Len(t)
    PROVE  s = t
BY DEF Begins

\* A sequence begins what it is put before, and what is put behind it does not matter.
LEMMA BeginsConcat ==
    ASSUME NEW S, NEW s \in Seq(S), NEW t \in Seq(S), NEW u \in Seq(S)
    PROVE  Begins(s, s \o t) /\ (Begins(s \o t, u) => Begins(s, u)) /\ (Begins(s, u) => Begins(s, u \o t))
<1>1. Len(s \o t) = Len(s) + Len(t) /\ \A i \in 1..Len(s) : (s \o t)[i] = s[i] /\ i \in 1..Len(s \o t)
  OBVIOUS
<1>2. Len(u \o t) = Len(u) + Len(t) /\ \A i \in 1..Len(u) : (u \o t)[i] = u[i]
  OBVIOUS
<1>3. Begins(s, s \o t)
  BY <1>1 DEF Begins
<1>4. ASSUME Begins(s \o t, u) PROVE Begins(s, u)
  BY <1>1, <1>4 DEF Begins
<1>5. ASSUME Begins(s, u) PROVE Begins(s, u \o t)
  <2>1. \A i \in 1..Len(s) : i \in 1..Len(u) /\ s[i] = u[i]
    BY <1>5 DEF Begins
  <2> QED
    BY <1>2, <1>5, <2>1 DEF Begins
<1> QED
  BY <1>3, <1>4, <1>5

\* Two continuations of the same beginning.
LEMMA BeginsSame ==
    ASSUME NEW S, NEW s \in Seq(S), NEW t \in Seq(S), NEW v \in Seq(S), NEW u \in Seq(S),
           Begins(s \o t, u), Begins(s \o v, u), Len(t) = Len(v)
    PROVE  t = v
<1>1. Joined(s, t, s \o t) /\ Joined(s, v, s \o v)
  BY ConcatJoined
<1>2. ASSUME NEW i \in 1..Len(t) PROVE t[i] = v[i]
  <2>1. /\ Len(s) + i \in 1..Len(s \o t) /\ Len(s) + i \in 1..Len(s \o v)
        /\ (s \o t)[Len(s) + i] = t[i] /\ (s \o v)[Len(s) + i] = v[i]
    BY <1>1 DEF Joined
  <2>2. (s \o t)[Len(s) + i] = u[Len(s) + i] /\ (s \o v)[Len(s) + i] = u[Len(s) + i]
    BY <2>1 DEF Begins
  <2> QED
    BY <2>1, <2>2
<1> QED
  BY <1>2

\* The first elements of a sequence, and one more.
LEMMA NextPrefix ==
    ASSUME NEW S, NEW s \in Seq(S), NEW t \in Seq(S), Len(s) < Len(t), s = SubSeq(t, 1, Len(s))
    PROVE  Append(s, t[Len(s) + 1]) = SubSeq(t, 1, Len(s) + 1)
<1> DEFINE n == Len(s)
           l == Append(s, t[n + 1])
           r == SubSeq(t, 1, n + 1)
           q == SubSeq(t, 1, n)
<1>1. n \in Nat /\ n \in 0..Len(t) /\ n + 1 \in 0..Len(t) /\ t[n + 1] \in S
  OBVIOUS
<1>2. l \in Seq(S) /\ Len(l) = n + 1 /\ l[n + 1] = t[n + 1] /\ \A i \in 1..n : l[i] = s[i]
  BY <1>1
<1>3. r \in Seq(S) /\ Len(r) = n + 1 /\ \A i \in 1..n + 1 : r[i] = t[i]
  BY <1>1, CutTyped
<1>4. s = q /\ \A i \in 1..n : q[i] = t[i]
  BY <1>1, CutTyped
<1> HIDE DEF l, r, q
<1>5. ASSUME NEW i \in 1..n + 1 PROVE l[i] = r[i]
  <2>1. i = n + 1 \/ i \in 1..n
    BY <1>1
  <2> QED
    BY <1>2, <1>3, <1>4, <2>1
<1>6. l = r
  BY <1>1, <1>2, <1>3, <1>5
<1> QED
  BY <1>6 DEF l, r

\* A packet more at the end.
LEMMA PacketsAppend ==
    \A s, t \in Seq(Seq(Bytes)), e \in Seq(Bytes) : Append(s \o t, e) = s \o Append(t, e)
<1> DEFINE V == Seq(Bytes)
<1> HIDE DEF V
<1> SUFFICES ASSUME NEW s \in Seq(V), NEW t \in Seq(V), NEW e \in V
             PROVE  Append(s \o t, e) = s \o Append(t, e)
  BY DEF V
<1> DEFINE l == Append(s \o t, e)
           r == s \o Append(t, e)
<1>1. s \o t \in Seq(V) /\ Append(t, e) \in Seq(V) /\ l \in Seq(V) /\ r \in Seq(V)
  OBVIOUS
<1>2. Len(l) = Len(s) + Len(t) + 1 /\ Len(r) = Len(l)
  OBVIOUS
<1>3. ASSUME NEW i \in 1..Len(l) PROVE l[i] = r[i]
  <2>1. CASE i <= Len(s)
    BY <1>2, <2>1
  <2>2. CASE i > Len(s) /\ i <= Len(s) + Len(t)
    BY <1>2, <2>2
  <2>3. CASE i > Len(s) + Len(t)
    BY <1>2, <2>3
  <2> QED
    BY <2>1, <2>2, <2>3
<1> HIDE DEF l, r
<1>4. l = r
  BY <1>1, <1>2, <1>3
<1> QED
  BY <1>4 DEF l, r

\* The first element goes over from one sequence to the other.
LEMMA HeadMoves ==
    ASSUME NEW S, NEW s \in Seq(S), NEW t \in Seq(S), t # <<>>
    PROVE  Append(s, Head(t)) \o Tail(t) = s \o t
<1> DEFINE l == Append(s, Head(t)) \o Tail(t)
           r == s \o t
<1>1. Head(t) \in S /\ Tail(t) \in Seq(S) /\ l \in Seq(S) /\ r \in Seq(S) /\ Len(t) \in Nat \ {0}
  OBVIOUS
<1>2. Len(l) = Len(s) + Len(t) /\ Len(r) = Len(l)
  BY <1>1
<1>3. ASSUME NEW i \in 1..Len(l) PROVE l[i] = r[i]
  <2>1. CASE i <= Len(s)
    BY <1>1, <1>2, <2>1
  <2>2. CASE i = Len(s) + 1
    BY <1>1, <1>2, <2>2
  <2>3. CASE i > Len(s) + 1
    BY <1>1, <1>2, <2>3
  <2> QED
    BY <2>1, <2>2, <2>3
<1> HIDE DEF l, r
<1>4. l = r
  BY <1>1, <1>2, <1>3
<1> QED
  BY <1>4 DEF l, r

\* The length of a packet fits in the prefix, and comes back from it.
LEMMA PrefixOfLength ==
    ASSUME NEW n \in Nat, n < Power(Radix)[PrefixLength]
    PROVE  PutUint(n) \in Seq(Bytes) /\ Len(PutUint(n)) = PrefixLength /\ Uint(PutUint(n)) = n
<1>1. Radix \in Nat \ {0} /\ PrefixLength \in Nat
  BY FramingAssumption
<1> QED
  BY <1>1, FixedDigitsNumber DEF PutUint, Uint, Bytes

\* A packet that the framer lets through has a length that fits in the prefix (FramerLimit).
LEMMA LimitFits ==
    ASSUME maxPacketSize \in PacketLimits
    PROVE  FramerLimit \in Nat /\ FramerLimit < Power(Radix)[PrefixLength]
<1> DEFINE p == Power(Radix)[PrefixLength]
<1>1. p \in Nat \ {0}
  BY FramingAssumption, PowerFacts
<1>2. maxPacketSize \in Nat /\ DefaultSize \in 1..p-1
  BY FramingAssumption
<1>3. FramerLimit = LET n == maxPacketSize % p IN IF n = 0 THEN DefaultSize ELSE n
  BY DEF FramerLimit
<1> HIDE DEF p
<1>4. maxPacketSize % p \in 0..p-1
  BY <1>1, <1>2
<1>5. FramerLimit \in 0..p-1
  BY <1>1, <1>2, <1>3, <1>4
<1> QED
  BY <1>1, <1>5 DEF p

Framable(packets) ==
    /\ packets \in Seq(Seq(Bytes))
    /\ \A i \in 1..Len(packets) : Len(packets[i]) < Power(Radix)[PrefixLength]

\* A frame is the bytes of the length and those of the packet (WritePacketBytes).
LEMMA FrameTyped ==
    ASSUME NEW packet \in Seq(Bytes), Len(packet) < Power(Radix)[PrefixLength]
    PROVE  Frame(packet) \in Seq(Bytes) /\ Len(Frame(packet)) = PrefixLength + Len(packet)
<1>1. Len(packet) \in Nat
  OBVIOUS
<1>2. PutUint(Len(packet)) \in Seq(Bytes) /\ Len(PutUint(Len(packet))) = PrefixLength
  BY <1>1, PrefixOfLength
<1> QED
  BY <1>2 DEF Frame

\* What the recursion says.
LEMMA StreamFacts ==
    ASSUME NEW packets, Framable(packets)
    PROVE  /\ Stream(packets)[0] = <<>>
           /\ \A i \in Nat : Stream(packets)[i] \in Seq(Bytes)
           /\ \A i \in 1..Len(packets) : Stream(packets)[i] = Stream(packets)[i - 1] \o Frame(packets[i])
<1> DEFINE L == Len(packets)
           V == Seq(Bytes)
           Stop == {0} \cup {n \in Nat : n > L}
           take == [p \in V \X Nat |-> IF p[2] \in 1..L THEN p[1] \o Frame(packets[p[2]]) ELSE <<>>]
           prev == [n \in Nat |-> IF n = 0 THEN 0 ELSE n - 1]
           first == [n \in Nat |-> <<>>]
           stream == CHOOSE f : f = [i \in Nat |-> IF i = 0 \/ i > L THEN <<>> ELSE f[i - 1] \o Frame(packets[i])]
<1>0. L \in Nat /\ \A i \in 1..L : Frame(packets[i]) \in Seq(Bytes)
  <2>1. ASSUME NEW i \in 1..L PROVE Frame(packets[i]) \in Seq(Bytes)
    <3>1. packets[i] \in Seq(Bytes) /\ Len(packets[i]) < Power(Radix)[PrefixLength]
      BY DEF Framable
    <3> QED
      BY <3>1, FrameTyped
  <2> QED
    BY <2>1 DEF Framable
<1>0a. <<>> \in V
  OBVIOUS
<1>0b. ASSUME NEW v \in V, NEW i \in 1..L PROVE v \o Frame(packets[i]) \in V
  BY <1>0
<1> HIDE DEF L, V
<1>1. take \in [V \X Nat -> V] /\ first \in [Nat -> V] /\ prev \in [Nat -> Nat]
  <2>2. ASSUME NEW p \in V \X Nat
        PROVE  (IF p[2] \in 1..L THEN p[1] \o Frame(packets[p[2]]) ELSE <<>>) \in V
    <3>1. p[1] \in V
      OBVIOUS
    <3> QED
      BY <1>0a, <1>0b, <3>1
  <2> QED
    BY <1>0a, <2>2
<1>2. \A n \in Nat : n \notin Stop => prev[n] < n /\ prev[n] = n - 1
  OBVIOUS
<1>3. \A v \in V, n \in Nat : (n \in 1..L => take[<<v, n>>] = v \o Frame(packets[n])) /\ first[n] = <<>>
  OBVIOUS
<1>3a. \A n \in Nat : n \in Stop <=> n = 0 \/ n > L
  OBVIOUS
<1> HIDE DEF take, prev, first, Stop
<1>4. PICK f : Recursive(f, Nat, V, Stop, first, prev, take)
  BY <1>1, <1>2, RecursiveExists
<1>5. f \in [Nat -> V]
  BY <1>4 DEF Recursive
<1>6. ASSUME NEW k \in Nat PROVE f[k] = IF k = 0 \/ k > L THEN <<>> ELSE f[k - 1] \o Frame(packets[k])
  <2>1. CASE k = 0 \/ k > L
    <3>1. f[k] = first[k]
      BY <1>3a, <1>4, <2>1 DEF Recursive
    <3> QED
      BY <1>0a, <1>3, <2>1, <3>1
  <2>2. CASE ~ (k = 0 \/ k > L)
    <3>1. k - 1 \in Nat /\ f[k - 1] \in V /\ k \in 1..L
      BY <1>0, <1>5, <2>2
    <3>2. k \notin Stop /\ prev[k] = k - 1
      BY <1>2, <1>3a, <2>2
    <3>3. f[k] = take[<<f[prev[k]], k>>]
      BY <1>4, <3>2 DEF Recursive
    <3> QED
      BY <1>3, <2>2, <3>1, <3>2, <3>3
  <2> QED
    BY <2>1, <2>2
<1>7. f = [i \in Nat |-> IF i = 0 \/ i > L THEN <<>> ELSE f[i - 1] \o Frame(packets[i])]
  BY <1>5, <1>6
<1>8. stream = [i \in Nat |-> IF i = 0 \/ i > L THEN <<>> ELSE stream[i - 1] \o Frame(packets[i])]
  BY <1>7
<1>9. Stream(packets) = stream
  BY DEF Stream, L
<1> HIDE DEF stream
<1>10. stream[0] = <<>> /\ \A i \in Nat : i > L => stream[i] = <<>>
  BY <1>8
<1>11. ASSUME NEW i \in 1..L PROVE stream[i] = stream[i - 1] \o Frame(packets[i])
  <2>1. i \in Nat /\ ~ (i = 0 \/ i > L)
    BY <1>0
  <2>2. stream[i] = IF i = 0 \/ i > L THEN <<>> ELSE stream[i - 1] \o Frame(packets[i])
    BY <1>8, <2>1
  <2> QED
    BY <2>1, <2>2
<1> DEFINE T == {i \in Nat : stream[i] \in V}
<1>12. 0 \in T
  BY <1>0a, <1>10
<1>13. ASSUME NEW i \in Nat, i \in T PROVE i + 1 \in T
  <2>1. CASE i + 1 > L
    BY <1>0a, <1>10, <2>1
  <2>2. CASE i + 1 <= L
    <3>1. i + 1 \in 1..L /\ (i + 1) - 1 = i /\ stream[i] \in V
      BY <1>13, <2>2
    <3>2. stream[i + 1] = stream[i] \o Frame(packets[i + 1])
      BY <1>11, <3>1
    <3>3. stream[i + 1] \in V
      BY <1>0b, <3>1, <3>2
    <3> QED
      BY <3>3
  <2> QED
    BY <1>0, <2>1, <2>2
<1> HIDE DEF T
<1>14. Nat \subseteq T
  BY <1>12, <1>13, InductionSet
<1> QED
  BY <1>9, <1>10, <1>11, <1>14 DEF T, L, V

\* The stream is a sequence of bytes.
LEMMA StreamTyped ==
    ASSUME NEW packets, Framable(packets), NEW i \in Nat
    PROVE  Stream(packets)[i] \in Seq(Bytes)
BY StreamFacts

\* Another packet leaves the stream of those before it as it is, and adds its frame.
LEMMA StreamAppend ==
    ASSUME NEW packets, Framable(packets),
           NEW packet \in Seq(Bytes), Len(packet) < Power(Radix)[PrefixLength]
    PROVE  /\ Framable(Append(packets, packet))
           /\ \A i \in 0..Len(packets) : Stream(Append(packets, packet))[i] = Stream(packets)[i]
           /\ Stream(Append(packets, packet))[Len(packets) + 1]
                  = Stream(packets)[Len(packets)] \o Frame(packet)
<1> DEFINE L == Len(packets)
           more == Append(packets, packet)
<1>1. packets \in Seq(Seq(Bytes)) /\ L \in Nat
  BY DEF Framable
<1>2. more \in Seq(Seq(Bytes)) /\ Len(more) = L + 1 /\ more[L + 1] = packet /\ \A i \in 1..L : more[i] = packets[i]
  BY <1>1
<1>3. ASSUME NEW i \in 1..Len(more) PROVE Len(more[i]) < Power(Radix)[PrefixLength]
  <2>1. i = L + 1 \/ i \in 1..L
    BY <1>1, <1>2
  <2> QED
    BY <1>2, <2>1 DEF Framable
<1>4. Framable(more)
  BY <1>2, <1>3 DEF Framable
<1> HIDE DEF more
<1> DEFINE T == {i \in Nat : i <= L => Stream(more)[i] = Stream(packets)[i]}
<1>5. 0 \in T
  BY <1>4, StreamFacts
<1>6. ASSUME NEW i \in Nat, i \in T PROVE i + 1 \in T
  <2> SUFFICES ASSUME i + 1 <= L PROVE Stream(more)[i + 1] = Stream(packets)[i + 1]
    OBVIOUS
  <2>1. i + 1 \in 1..L /\ i + 1 \in 1..Len(more) /\ (i + 1) - 1 = i /\ Stream(more)[i] = Stream(packets)[i]
    BY <1>1, <1>2, <1>6
  <2>2. Stream(more)[i + 1] = Stream(more)[(i + 1) - 1] \o Frame(more[i + 1])
    BY <1>4, <2>1, StreamFacts
  <2>3. Stream(packets)[i + 1] = Stream(packets)[(i + 1) - 1] \o Frame(packets[i + 1])
    BY <2>1, StreamFacts
  <2> QED
    BY <1>2, <2>1, <2>2, <2>3
<1> HIDE DEF T
<1>7. Nat \subseteq T
  BY <1>5, <1>6, InductionSet
<1>8. \A i \in 0..L : Stream(more)[i] = Stream(packets)[i]
  BY <1>1, <1>7 DEF T
<1>9. Stream(more)[L + 1] = Stream(packets)[L] \o Frame(packet)
  <2>1. L + 1 \in 1..Len(more) /\ (L + 1) - 1 = L /\ L \in 0..L
    BY <1>1, <1>2
  <2>2. Stream(more)[L + 1] = Stream(more)[(L + 1) - 1] \o Frame(more[L + 1])
    BY <1>4, <2>1, StreamFacts
  <2> QED
    BY <1>2, <1>8, <2>1, <2>2
<1> QED
  BY <1>4, <1>8, <1>9 DEF more

\* The stream begins with the frames of the first packets.
LEMMA StreamBegins ==
    ASSUME NEW packets, Framable(packets), NEW n \in 0..Len(packets)
    PROVE  Begins(Stream(packets)[n], Stream(packets)[Len(packets)])
<1> DEFINE L == Len(packets)
           T == {i \in Nat : n + i <= L => Begins(Stream(packets)[n], Stream(packets)[n + i])}
<1>0. L \in Nat
  BY DEF Framable
<1>1. 0 \in T
  <2>1. Stream(packets)[n] \in Seq(Bytes) /\ n + 0 = n
    BY <1>0, StreamTyped
  <2> QED
    BY <2>1 DEF Begins
<1>2. ASSUME NEW i \in Nat, i \in T PROVE i + 1 \in T
  <2> SUFFICES ASSUME n + (i + 1) <= L PROVE Begins(Stream(packets)[n], Stream(packets)[n + (i + 1)])
    OBVIOUS
  <2> DEFINE k == n + (i + 1)
  <2>1. k \in 1..L /\ k - 1 = n + i /\ n + i \in Nat
    BY <1>0
  <2>2. Begins(Stream(packets)[n], Stream(packets)[n + i])
    BY <1>2, <2>1
  <2>3. packets[k] \in Seq(Bytes) /\ Len(packets[k]) < Power(Radix)[PrefixLength]
    BY <2>1 DEF Framable
  <2>4. Stream(packets)[k] = Stream(packets)[n + i] \o Frame(packets[k])
    BY <2>1, StreamFacts
  <2>5. Stream(packets)[n] \in Seq(Bytes) /\ Stream(packets)[n + i] \in Seq(Bytes)
    BY <1>0, <2>1, StreamTyped
  <2>6. Frame(packets[k]) \in Seq(Bytes)
    BY <2>3, FrameTyped
  <2> QED
    BY <2>2, <2>4, <2>5, <2>6, BeginsConcat
<1> HIDE DEF T
<1>3. Nat \subseteq T
  BY <1>1, <1>2, InductionSet
<1>4. L - n \in Nat /\ n + (L - n) = L
  BY <1>0
<1>5. L - n \in T
  BY <1>3, <1>4
<1> QED
  BY <1>4, <1>5 DEF T

ExpectedPrefix == IF frpc = "payload" THEN PutUint(Len(written[Len(read) + 1])) ELSE <<>>
Got == (Stream(written)[Len(read)] \o ExpectedPrefix) \o buffer
UnderWay == wire \o (data \o rest)

FramingTypeOK ==
    /\ maxPacketSize \in PacketLimits
    /\ written \in Seq(FramedPackets) /\ read \in Seq(Seq(Bytes)) /\ messages \in Seq(FramedPackets)
    /\ {data, rest, wire, buffer} \subseteq Seq(Bytes)
    /\ want \in Nat /\ frpc \in {"prefix", "payload", "failed"}

StreamOK ==
    /\ messages = <<>>
    /\ \A i \in 1..Len(written) : Len(written[i]) \in 1..FramerLimit
    /\ frpc # "failed" => Begins(Got \o UnderWay, Stream(written)[Len(written)])
    /\ frpc # "failed" /\ ~broken => Len(Got \o UnderWay) = Len(Stream(written)[Len(written)])
    /\ frpc = "prefix" => Len(buffer) + want = PrefixLength
    /\ frpc = "payload" => /\ Len(read) < Len(written)
                           /\ Len(buffer) + want = Len(written[Len(read) + 1])
    /\ broken => UnderWay = <<>>

MessagesOK ==
    /\ frpc # "payload" /\ want = PrefixLength /\ buffer = <<>> /\ UnderWay = <<>>
    /\ \A i \in 1..Len(messages) : Allowed(messages[i])
    /\ ~broken => written = read \o messages
    /\ broken => messages = <<>>

FramingInv ==
    /\ FramingTypeOK /\ FramesIntact
    /\ ~webSocketConn => StreamOK
    /\ webSocketConn => MessagesOK

\* Every packet that was written fits in a frame.
LEMMA WrittenFramable ==
    ASSUME FramingTypeOK, StreamOK
    PROVE  /\ Framable(written) /\ written \in Seq(Seq(Bytes))
           /\ \A i \in 1..Len(written) : /\ written[i] \in Seq(Bytes)
                                         /\ Len(written[i]) \in 1..FramerLimit
                                         /\ Len(written[i]) < Power(Radix)[PrefixLength]
<1>1. FramerLimit \in Nat /\ FramerLimit < Power(Radix)[PrefixLength]
  BY LimitFits DEF FramingTypeOK
<1>2. FramedPackets \subseteq Seq(Bytes)
  BY FramingAssumption DEF Bytes
<1>3. written \in Seq(FramedPackets)
  BY DEF FramingTypeOK
<1>4. ASSUME NEW i \in 1..Len(written)
      PROVE  written[i] \in Seq(Bytes) /\ Len(written[i]) \in 1..FramerLimit /\ Len(written[i]) < Power(Radix)[PrefixLength]
  <2>1. Power(Radix)[PrefixLength] \in Nat
    BY FramingAssumption, PowerFacts
  <2>2. Len(written[i]) \in 1..FramerLimit
    BY DEF StreamOK
  <2>3. written[i] \in Seq(Bytes)
    BY <1>2, <1>3
  <2> QED
    BY <1>1, <2>1, <2>2, <2>3
<1>5. written \in Seq(Seq(Bytes))
  BY <1>3, <1>4
<1> QED
  BY <1>4, <1>5 DEF Framable

\* The parts of the stream that StreamOK puts together are sequences of bytes.
LEMMA PartsTyped ==
    ASSUME FramingTypeOK, StreamOK, frpc # "failed"
    PROVE  /\ ExpectedPrefix \in Seq(Bytes) /\ Len(ExpectedPrefix) = (IF frpc = "payload" THEN PrefixLength ELSE 0)
           /\ Stream(written)[Len(read)] \in Seq(Bytes) /\ Stream(written)[Len(written)] \in Seq(Bytes)
           /\ Got \in Seq(Bytes) /\ UnderWay \in Seq(Bytes)
           /\ Stream(written)[Len(read)] \o ExpectedPrefix \in Seq(Bytes)
           /\ buffer \in Seq(Bytes)
<1>1. Framable(written)
  BY WrittenFramable
<1>2. read \in Seq(Seq(Bytes)) /\ written \in Seq(FramedPackets) /\ data \in Seq(Bytes) /\ rest \in Seq(Bytes)
      /\ wire \in Seq(Bytes) /\ buffer \in Seq(Bytes)
  BY DEF FramingTypeOK
<1>3. Len(read) \in Nat /\ Len(written) \in Nat
  BY <1>2
<1>4. Stream(written)[Len(read)] \in Seq(Bytes) /\ Stream(written)[Len(written)] \in Seq(Bytes)
  BY <1>1, <1>3, StreamFacts
<1>5. ExpectedPrefix \in Seq(Bytes) /\ Len(ExpectedPrefix) = (IF frpc = "payload" THEN PrefixLength ELSE 0)
  <2>1. CASE frpc = "payload"
    <3>1. Len(read) + 1 \in 1..Len(written)
      BY <1>3, <2>1 DEF StreamOK
    <3>2. Len(written[Len(read) + 1]) \in Nat /\ Len(written[Len(read) + 1]) < Power(Radix)[PrefixLength]
      BY <3>1, WrittenFramable
    <3> QED
      BY <2>1, <3>2, PrefixOfLength DEF ExpectedPrefix
  <2>2. CASE frpc # "payload"
    BY <2>2 DEF ExpectedPrefix
  <2> QED
    BY <2>1, <2>2
<1>6. Stream(written)[Len(read)] \o ExpectedPrefix \in Seq(Bytes)
  BY <1>4, <1>5
<1>7. Got \in Seq(Bytes)
  BY <1>2, <1>6 DEF Got
<1>8. UnderWay \in Seq(Bytes)
  BY <1>2 DEF UnderWay
<1> QED
  BY <1>2, <1>4, <1>5, <1>6, <1>7, <1>8

\* The length the reader has read is the one of the next packet.
LEMMA PrefixArrives ==
    ASSUME FramingTypeOK, StreamOK, FramesIntact, frpc = "prefix", want = 0
    PROVE  /\ Len(read) < Len(written)
           /\ buffer = PutUint(Len(written[Len(read) + 1]))
           /\ Uint(buffer) = Len(written[Len(read) + 1])
<1> DEFINE r == Len(read)
           w == Len(written)
           S == Stream(written)
<1>1. /\ ExpectedPrefix = <<>> /\ S[r] \in Seq(Bytes) /\ S[w] \in Seq(Bytes) /\ buffer \in Seq(Bytes)
      /\ Got \in Seq(Bytes) /\ UnderWay \in Seq(Bytes) /\ r \in Nat /\ w \in Nat /\ r <= w
  BY PartsTyped DEF ExpectedPrefix, FramingTypeOK, FramesIntact
<1>2. Got = S[r] \o buffer
  <2>1. S[r] \o <<>> = S[r]
    BY <1>1, ConcatEmpty
  <2> QED
    BY <1>1, <2>1 DEF Got
<1>3. Begins(Got, S[w])
  <2>1. Begins(Got \o UnderWay, S[w])
    BY DEF StreamOK
  <2> QED
    BY <1>1, <2>1, BeginsConcat
<1>4. Len(buffer) = PrefixLength /\ PrefixLength \in Nat \ {0}
  BY <1>1, FramingAssumption DEF StreamOK
<1>5. Len(Got) = Len(S[r]) + PrefixLength
  <2>1. Joined(S[r], buffer, S[r] \o buffer)
    BY <1>1, ConcatJoined
  <2> QED
    BY <1>2, <1>4, <2>1 DEF Joined
<1>6. r < w
  <2>1. Len(Got) <= Len(S[w])
    BY <1>3 DEF Begins
  <2>2. r # w
    BY <1>1, <1>4, <1>5, <2>1
  <2> QED
    BY <1>1, <2>2
<1> DEFINE p == written[r + 1]
<1>7. r + 1 \in 1..w /\ r + 1 \in 0..w /\ (r + 1) - 1 = r
  BY <1>1, <1>6
<1>8. p \in Seq(Bytes) /\ Len(p) \in Nat /\ Len(p) < Power(Radix)[PrefixLength] /\ Framable(written)
  BY <1>7, WrittenFramable
<1>9. S[r + 1] = S[r] \o Frame(p)
  BY <1>7, <1>8, StreamFacts
<1>10. PutUint(Len(p)) \in Seq(Bytes) /\ Len(PutUint(Len(p))) = PrefixLength /\ Uint(PutUint(Len(p))) = Len(p)
  BY <1>8, PrefixOfLength
<1>11. S[r + 1] = (S[r] \o PutUint(Len(p))) \o p
  <2> DEFINE a == S[r]
             u == PutUint(Len(p))
  <2>1. a \in Seq(Bytes) /\ u \in Seq(Bytes) /\ p \in Seq(Bytes)
    BY <1>1, <1>8, <1>10
  <2> HIDE DEF S, r, w, p, a, u
  <2>2. (a \o u) \o p = a \o (u \o p)
    BY <2>1, ConcatAssoc
  <2> QED
    BY <1>9, <2>2 DEF Frame, a, u
<1>12. Begins(S[r + 1], S[w])
  BY <1>7, <1>8, StreamBegins
<1> HIDE DEF S, r, w, p
<1>13. S[r] \o PutUint(Len(p)) \in Seq(Bytes)
  BY <1>1, <1>10
<1>14. Begins(S[r] \o PutUint(Len(p)), S[w])
  <2>1. Begins((S[r] \o PutUint(Len(p))) \o p, S[w])
    BY <1>11, <1>12
  <2> QED
    BY <1>1, <1>8, <1>13, <2>1, BeginsConcat
<1>15. Begins(S[r] \o buffer, S[w])
  BY <1>2, <1>3
<1>16. buffer = PutUint(Len(p))
  BY <1>1, <1>4, <1>10, <1>14, <1>15, BeginsSame
<1> QED
  BY <1>6, <1>10, <1>16 DEF r, w, p

\* The packet the reader has read is the next one.
LEMMA PayloadArrives ==
    ASSUME FramingTypeOK, StreamOK, FramesIntact, frpc = "payload", want = 0
    PROVE  /\ Len(read) < Len(written) /\ buffer = written[Len(read) + 1]
           /\ Got = Stream(written)[Len(read) + 1]
<1> DEFINE r == Len(read)
           w == Len(written)
           S == Stream(written)
           p == written[r + 1]
<1>1. /\ S[r] \in Seq(Bytes) /\ S[w] \in Seq(Bytes) /\ buffer \in Seq(Bytes)
      /\ Got \in Seq(Bytes) /\ UnderWay \in Seq(Bytes) /\ r \in Nat /\ w \in Nat /\ r < w
      /\ ExpectedPrefix = PutUint(Len(p)) /\ Len(buffer) = Len(p)
  <2>1. r \in Nat /\ w \in Nat /\ buffer \in Seq(Bytes)
    BY DEF FramingTypeOK
  <2>2. r < w /\ Len(buffer) + want = Len(p)
    BY DEF StreamOK
  <2> QED
    BY <2>1, <2>2, PartsTyped DEF ExpectedPrefix
<1>2. Got = (S[r] \o PutUint(Len(p))) \o buffer
  BY <1>1 DEF Got
<1>3. Begins(Got, S[w])
  <2>1. Begins(Got \o UnderWay, S[w])
    BY DEF StreamOK
  <2> QED
    BY <1>1, <2>1, BeginsConcat
<1>7. r + 1 \in 1..w /\ r + 1 \in 0..w /\ (r + 1) - 1 = r
  BY <1>1
<1>8. p \in Seq(Bytes) /\ Len(p) \in Nat /\ Len(p) < Power(Radix)[PrefixLength] /\ Framable(written)
  BY <1>7, WrittenFramable
<1>9. S[r + 1] = S[r] \o Frame(p)
  BY <1>7, <1>8, StreamFacts
<1>10. PutUint(Len(p)) \in Seq(Bytes) /\ Len(PutUint(Len(p))) = PrefixLength
  BY <1>8, PrefixOfLength
<1>11. S[r + 1] = (S[r] \o PutUint(Len(p))) \o p
  <2> DEFINE a == S[r]
             u == PutUint(Len(p))
  <2>1. a \in Seq(Bytes) /\ u \in Seq(Bytes) /\ p \in Seq(Bytes)
    BY <1>1, <1>8, <1>10
  <2> HIDE DEF S, r, w, p, a, u
  <2>2. (a \o u) \o p = a \o (u \o p)
    BY <2>1, ConcatAssoc
  <2> QED
    BY <1>9, <2>2 DEF Frame, a, u
<1>12. Begins(S[r + 1], S[w])
  BY <1>7, <1>8, StreamBegins
<1> DEFINE b == S[r] \o PutUint(Len(p))
<1>13. b \in Seq(Bytes)
  BY <1>1, <1>10
<1> HIDE DEF S, r, w, p, b
<1>14. Begins(b \o p, S[w]) /\ Begins(b \o buffer, S[w])
  BY <1>2, <1>3, <1>11, <1>12 DEF b
<1>15. buffer = p
  BY <1>1, <1>8, <1>13, <1>14, BeginsSame
<1>16. Got = S[r + 1]
  BY <1>2, <1>11, <1>15
<1> QED
  BY <1>1, <1>15, <1>16 DEF r, w, p, S

\* A sequence begins itself.
LEMMA BeginsSelf ==
    ASSUME NEW S, NEW s \in Seq(S)
    PROVE  Begins(s, s)
BY DEF Begins

\* What is read and under way, where the stream is whole, is all that was written.
LEMMA WholeStream ==
    ASSUME FramingTypeOK, StreamOK, frpc # "failed", ~broken
    PROVE  Got \o UnderWay = Stream(written)[Len(written)]
<1>1. Got \in Seq(Bytes) /\ UnderWay \in Seq(Bytes) /\ Stream(written)[Len(written)] \in Seq(Bytes)
  BY PartsTyped
<1>2. Begins(Got \o UnderWay, Stream(written)[Len(written)])
      /\ Len(Got \o UnderWay) = Len(Stream(written)[Len(written)])
  BY DEF StreamOK
<1>3. Got \o UnderWay \in Seq(Bytes)
  BY <1>1
<1> QED
  BY <1>1, <1>2, <1>3, BeginsEqual

\* The frame of another packet goes behind what is under way (WritePacketBytes).
LEMMA WritePacketBytesKeeps ==
    ASSUME FramingInv, NEW packet \in FramedPackets, WritePacketBytes(packet)
    PROVE  FramingInv'
<1> USE DEF FramingInv
<1>1. /\ ~webSocketConn /\ ~broken /\ data = <<>> /\ rest = <<>>
      /\ Len(packet) # 0 /\ Len(packet) <= FramerLimit
      /\ written' = Append(written, packet)
      /\ data' = PutUint(Len(packet)) /\ rest' = packet
      /\ UNCHANGED <<webSocketConn, messages, maxPacketSize, wire, broken, frpc, want, buffer, read>>
  BY DEF WritePacketBytes, transport
<1>2. StreamOK /\ FramingTypeOK /\ FramesIntact /\ frpc # "failed"
  BY <1>1 DEF FramesIntact
<1> DEFINE r == Len(read)
           w == Len(written)
           T == Stream(written)[w]
           F == Frame(packet)
<1>3. /\ packet \in Seq(Bytes) /\ Len(packet) \in Nat /\ Len(packet) \in 1..FramerLimit
      /\ Len(packet) < Power(Radix)[PrefixLength]
  <2>1. packet \in Seq(Bytes)
    BY FramingAssumption DEF Bytes
  <2>2. Power(Radix)[PrefixLength] \in Nat
    BY FramingAssumption, PowerFacts
  <2>3. FramerLimit \in Nat /\ FramerLimit < Power(Radix)[PrefixLength]
    BY <1>2, LimitFits DEF FramingTypeOK
  <2> QED
    BY <1>1, <2>1, <2>2, <2>3
<1>4. PutUint(Len(packet)) \in Seq(Bytes) /\ F \in Seq(Bytes) /\ F = PutUint(Len(packet)) \o packet
  BY <1>3, PrefixOfLength, FrameTyped DEF Frame
<1>5. /\ Framable(written) /\ r \in Nat /\ w \in Nat /\ r <= w /\ r \in 0..w
      /\ written \in Seq(FramedPackets) /\ wire \in Seq(Bytes)
  BY <1>2, WrittenFramable DEF FramingTypeOK, FramesIntact
<1>6. /\ Stream(written')[r] = Stream(written)[r]
      /\ Stream(written')[w + 1] = T \o F
  BY <1>1, <1>3, <1>5, StreamAppend
<1>7. Len(written') = w + 1 /\ (\A i \in 1..w : written'[i] = written[i]) /\ written'[w + 1] = packet
      /\ written' \in Seq(FramedPackets)
  BY <1>1, <1>5
<1>8. FramingTypeOK'
  BY <1>1, <1>2, <1>3, <1>4, <1>7 DEF FramingTypeOK
<1>9. FramesIntact'
  <2>1. read = SubSeq(written, 1, r)
    BY <1>2 DEF FramesIntact
  <2>2. SubSeq(written', 1, r) = SubSeq(written, 1, r)
    BY <1>5, <1>7
  <2> QED
    BY <1>1, <1>2, <1>5, <1>7, <2>1, <2>2 DEF FramesIntact
<1>10. Got' = Got
  <2>1. ExpectedPrefix' = ExpectedPrefix
    <3>1. CASE frpc = "payload"
      <4>1. r + 1 \in 1..w
        BY <1>2, <1>5, <3>1 DEF StreamOK
      <4> QED
        BY <1>1, <1>7, <3>1, <4>1 DEF ExpectedPrefix
    <3>2. CASE frpc # "payload"
      BY <1>1, <3>2 DEF ExpectedPrefix
    <3> QED
      BY <3>1, <3>2
  <2> QED
    BY <1>1, <1>6, <2>1 DEF Got
<1>11. /\ Got \in Seq(Bytes) /\ T \in Seq(Bytes)
  BY <1>2, PartsTyped
<1>12. Got \o wire = T
  <2>1. UnderWay = wire
    <3>1. UnderWay = wire \o (<<>> \o <<>>)
      BY <1>1 DEF UnderWay
    <3>2. <<>> \in Seq(Bytes)
      OBVIOUS
    <3>3. <<>> \o <<>> = <<>>
      BY <3>2, ConcatEmpty
    <3>4. wire \o <<>> = wire
      BY <1>5, ConcatEmpty
    <3> QED
      BY <3>1, <3>3, <3>4
  <2> QED
    BY <1>1, <1>2, <2>1, WholeStream
<1>13. UnderWay' = wire \o F
  BY <1>1, <1>4 DEF UnderWay
<1>14. Got' \o UnderWay' = Stream(written')[Len(written')] /\ Got' \o UnderWay' \in Seq(Bytes)
  <2> HIDE DEF T, F
  <2>1. Got \o (wire \o F) = (Got \o wire) \o F
    <3>1. Got \in Seq(Bytes) /\ wire \in Seq(Bytes) /\ F \in Seq(Bytes)
      BY <1>4, <1>5, <1>11
    <3> QED
      BY <3>1, BytesAssoc, Zenon
  <2>2. T \o F \in Seq(Bytes)
    BY <1>4, <1>11
  <2> QED
    BY <1>6, <1>7, <1>10, <1>12, <1>13, <2>1, <2>2
<1>15. StreamOK'
  <2>1. (Begins(Got \o UnderWay, Stream(written)[Len(written)]))'
    BY <1>14, BeginsSelf
  <2>2. ASSUME NEW i \in 1..Len(written') PROVE Len(written'[i]) \in 1..FramerLimit'
    <3>1. FramerLimit' = FramerLimit
      BY <1>1 DEF FramerLimit
    <3>2. i \in 1..w \/ i = w + 1
      BY <1>5, <1>7
    <3>3. \A j \in 1..w : Len(written[j]) \in 1..FramerLimit
      BY <1>2 DEF StreamOK
    <3> QED
      BY <1>3, <1>7, <3>1, <3>2, <3>3
  <2>3. ASSUME frpc = "payload"
        PROVE  r < w + 1 /\ Len(buffer) + want = Len(written'[r + 1])
    <3>1. r < w /\ Len(buffer) + want = Len(written[r + 1])
      BY <1>2, <2>3 DEF StreamOK
    <3>2. r + 1 \in 1..w
      BY <1>5, <3>1
    <3> QED
      BY <1>5, <1>7, <3>1, <3>2
  <2>4. frpc = "prefix" => Len(buffer) + want = PrefixLength
    BY <1>2 DEF StreamOK
  <2>5. messages = <<>>
    BY <1>2 DEF StreamOK
  <2> QED
    BY <1>1, <1>7, <1>14, <2>1, <2>2, <2>3, <2>4, <2>5 DEF StreamOK
<1> QED
  BY <1>1, <1>8, <1>9, <1>15

\* A step that only moves bytes between what is written and what the reader holds.
LEMMA FlowKeeps ==
    ASSUME FramingTypeOK, StreamOK, FramesIntact, FramingTypeOK',
           UNCHANGED <<messages, maxPacketSize, written, broken, frpc, read>>,
           frpc # "failed" => Got' \o UnderWay' = Got \o UnderWay,
           Len(buffer') + want' = Len(buffer) + want,
           broken => UnderWay' = <<>>
    PROVE  StreamOK' /\ FramesIntact'
<1>1. FramerLimit' = FramerLimit
  BY DEF FramerLimit
<1>2. StreamOK'
  BY <1>1 DEF StreamOK
<1>3. FramesIntact'
  BY DEF FramesIntact
<1> QED
  BY <1>2, <1>3

\* What transport.Write takes moves from the writer to the wire, and the payload follows
\* the prefix (writeFull).
LEMMA writeFullKeeps ==
    ASSUME FramingInv, writeFull
    PROVE  FramingInv'
<1> USE DEF FramingInv
<1>1. /\ ~broken /\ data # <<>>
      /\ UNCHANGED <<webSocketConn, messages, maxPacketSize, written, broken, frpc, want, buffer, read>>
  BY DEF writeFull, transport
<1>2. PICK n \in 1..Len(data) :
          /\ wire' = wire \o SubSeq(data, 1, n)
          /\ data' = IF n < Len(data) THEN SubSeq(data, n + 1, Len(data)) ELSE rest
          /\ rest' = IF n < Len(data) THEN rest ELSE <<>>
  BY DEF writeFull
<1>3. data \in Seq(Bytes) /\ rest \in Seq(Bytes) /\ wire \in Seq(Bytes) /\ FramingTypeOK
  BY DEF FramingTypeOK
<1>4. ~webSocketConn
  <2> SUFFICES ASSUME webSocketConn PROVE FALSE
    OBVIOUS
  <2>1. wire \o (data \o rest) = <<>>
    BY DEF MessagesOK, UnderWay
  <2>2. Len(wire \o (data \o rest)) = Len(wire) + (Len(data) + Len(rest))
    BY <1>3
  <2>3. Len(data) # 0
    BY <1>1, <1>3
  <2> QED
    BY <1>3, <2>1, <2>2, <2>3
<1> DEFINE a == SubSeq(data, 1, n)
           z == SubSeq(data, n + 1, Len(data))
<1>5. n \in 0..Len(data) /\ a \in Seq(Bytes) /\ z \in Seq(Bytes) /\ a \o z = data /\ Len(z) = Len(data) - n
  BY <1>3, CutTyped, CutConcat
<1>6. wire' \in Seq(Bytes) /\ data' \in Seq(Bytes) /\ rest' \in Seq(Bytes) /\ data' \o rest' = z \o rest
  <2> HIDE DEF a, z
  <2>1. wire' = wire \o a /\ data' = (IF n < Len(data) THEN z ELSE rest)
    BY <1>2 DEF a, z
  <2>2. CASE n < Len(data)
    <3>1. data' = z /\ rest' = rest
      BY <1>2, <2>1, <2>2
    <3>2. wire \o a \in Seq(Bytes)
      BY <1>3, <1>5
    <3> QED
      BY <1>3, <1>5, <2>1, <3>1, <3>2
  <2>3. CASE ~ (n < Len(data))
    <3>1. Len(z) = 0
      BY <1>3, <1>5, <2>3
    <3>2. z = <<>>
      BY <1>5, <3>1
    <3>3. rest \o <<>> = rest /\ <<>> \o rest = rest
      BY <1>3, ConcatEmpty
    <3> QED
      BY <1>2, <1>3, <1>5, <2>1, <2>3, <3>2, <3>3
  <2> QED
    BY <2>2, <2>3
<1>7. UnderWay' = UnderWay
  <2> HIDE DEF a, z
  <2>0. wire \in Seq(Bytes) /\ a \in Seq(Bytes) /\ z \in Seq(Bytes) /\ rest \in Seq(Bytes)
        /\ z \o rest \in Seq(Bytes)
    BY <1>3, <1>5
  <2>1. (wire \o a) \o (z \o rest) = wire \o (a \o (z \o rest))
    <3> DEFINE zr == z \o rest
    <3>1. zr \in Seq(Bytes)
      BY <2>0
    <3> HIDE DEF zr
    <3>2. Grouped(wire, a, zr)
      BY <2>0, <3>1, BytesGrouped
    <3> QED
      BY <3>2 DEF Grouped, zr
  <2>2. (a \o z) \o rest = a \o (z \o rest)
    <3>1. Grouped(a, z, rest)
      BY <2>0, BytesGrouped
    <3> QED
      BY <3>1 DEF Grouped
  <2>3. wire' = wire \o a
    BY <1>2 DEF a
  <2> QED
    BY <1>5, <1>6, <2>1, <2>2, <2>3 DEF UnderWay
<1>8. Got' = Got
  BY <1>1 DEF Got, ExpectedPrefix
<1>9. FramingTypeOK'
  BY <1>1, <1>3, <1>6 DEF FramingTypeOK
<1>10. StreamOK' /\ FramesIntact'
  BY <1>1, <1>3, <1>4, <1>7, <1>8, <1>9, FlowKeeps
<1> QED
  BY <1>1, <1>4, <1>9, <1>10

\* BreakStream loses what is under way: what the reader holds still begins the stream.
LEMMA BreakStreamKeeps ==
    ASSUME FramingInv, BreakStream
    PROVE  FramingInv'
<1>1. /\ ~broken /\ broken' /\ wire' = <<>> /\ data' = <<>> /\ rest' = <<>> /\ messages' = <<>>
      /\ UNCHANGED <<webSocketConn, maxPacketSize, written, frpc, want, buffer, read>>
  BY DEF BreakStream
<1>2. FramingTypeOK /\ FramesIntact
  BY DEF FramingInv
<1>3. FramingTypeOK'
  BY <1>1, <1>2 DEF FramingTypeOK
<1>4. FramesIntact'
  BY <1>1, <1>2 DEF FramesIntact
<1>5. UnderWay' = <<>>
  <2>1. <<>> \in Seq(Bytes)
    OBVIOUS
  <2>2. <<>> \o <<>> = <<>>
    BY <2>1, ConcatEmpty
  <2> QED
    BY <1>1, <2>2 DEF UnderWay
<1>6. ASSUME ~webSocketConn PROVE StreamOK'
  <2>1. StreamOK
    BY <1>6 DEF FramingInv
  <2>2. Got' = Got
    BY <1>1 DEF Got, ExpectedPrefix
  <2>3. FramerLimit' = FramerLimit
    BY <1>1 DEF FramerLimit
  <2>4. ASSUME frpc # "failed" PROVE (Begins(Got \o UnderWay, Stream(written)[Len(written)]))'
    <3>1. Got \in Seq(Bytes) /\ UnderWay \in Seq(Bytes) /\ Stream(written)[Len(written)] \in Seq(Bytes)
      BY <1>2, <2>1, <2>4, PartsTyped
    <3>2. Begins(Got \o UnderWay, Stream(written)[Len(written)])
      BY <2>1, <2>4 DEF StreamOK
    <3>3. Begins(Got, Stream(written)[Len(written)])
      BY <3>1, <3>2, BeginsConcat
    <3>4. Got' \o UnderWay' = Got
      BY <1>5, <2>2, <3>1, ConcatEmpty
    <3> QED
      BY <1>1, <3>3, <3>4
  <2> QED
    BY <1>1, <1>5, <2>1, <2>3, <2>4 DEF StreamOK
<1>7. ASSUME webSocketConn PROVE MessagesOK'
  <2>1. MessagesOK
    BY <1>7 DEF FramingInv
  <2> QED
    BY <1>1, <1>5, <2>1 DEF MessagesOK
<1> QED
  BY <1>1, <1>3, <1>4, <1>6, <1>7 DEF FramingInv

\* io.ReadFull moves bytes from the wire to the reader's buffer.
LEMMA ReadFullKeeps ==
    ASSUME FramingInv, ReadFull
    PROVE  FramingInv'
<1>1. /\ ~webSocketConn /\ frpc \in {"prefix", "payload"}
      /\ UNCHANGED <<webSocketConn, messages, maxPacketSize, written, data, rest, broken, frpc, read>>
  BY DEF ReadFull, transport
<1>2. PICK n \in 1..want :
          /\ n <= Len(wire)
          /\ buffer' = buffer \o SubSeq(wire, 1, n)
          /\ wire' = SubSeq(wire, n + 1, Len(wire)) /\ want' = want - n
  BY DEF ReadFull
<1>3. /\ data \in Seq(Bytes) /\ rest \in Seq(Bytes) /\ wire \in Seq(Bytes) /\ buffer \in Seq(Bytes)
      /\ want \in Nat /\ FramingTypeOK /\ FramesIntact /\ StreamOK
  BY <1>1 DEF FramingTypeOK, FramingInv
<1> DEFINE a == SubSeq(wire, 1, n)
           z == SubSeq(wire, n + 1, Len(wire))
           d == data \o rest
           g == Stream(written)[Len(read)] \o ExpectedPrefix
<1>4. n \in 0..Len(wire) /\ a \in Seq(Bytes) /\ z \in Seq(Bytes) /\ a \o z = wire /\ Len(a) = n /\ Len(z) = Len(wire) - n
  <2>1. n \in 0..Len(wire)
    BY <1>2, <1>3
  <2>2. /\ SubSeq(wire, 1, n) \in Seq(Bytes) /\ SubSeq(wire, n + 1, Len(wire)) \in Seq(Bytes)
        /\ Len(SubSeq(wire, 1, n)) = n /\ Len(SubSeq(wire, n + 1, Len(wire))) = Len(wire) - n
    BY <1>3, <2>1, CutTyped
  <2>3. SubSeq(wire, 1, n) \o SubSeq(wire, n + 1, Len(wire)) = wire
    BY <1>3, <2>1, CutConcat
  <2> QED
    BY <2>1, <2>2, <2>3
<1>5. buffer' = buffer \o a /\ wire' = z
  BY <1>2
<1>6. g \in Seq(Bytes) /\ d \in Seq(Bytes)
  BY <1>1, <1>3, PartsTyped
<1>7. g' = g /\ d' = d
  BY <1>1 DEF ExpectedPrefix
<1>8. Got = g \o buffer /\ UnderWay = wire \o d
  BY DEF Got, UnderWay
<1>8a. Got' = g' \o buffer' /\ UnderWay' = wire' \o d'
  BY DEF Got, UnderWay
<1> HIDE DEF a, z, d, g
<1>9. Got' \o UnderWay' = Got \o UnderWay
  <2>0. /\ a \in Seq(Bytes) /\ z \in Seq(Bytes) /\ d \in Seq(Bytes) /\ g \in Seq(Bytes) /\ buffer \in Seq(Bytes)
        /\ z \o d \in Seq(Bytes) /\ g \o buffer \in Seq(Bytes)
    BY <1>3, <1>4, <1>6
  <2>1. (g \o buffer) \o a = g \o (buffer \o a)
    <3>1. Grouped(g, buffer, a)
      BY <1>3, <2>0, BytesGrouped
    <3> QED
      BY <3>1 DEF Grouped
  <2>2. ((g \o buffer) \o a) \o (z \o d) = (g \o buffer) \o (a \o (z \o d))
    <3> DEFINE gb == g \o buffer
               zd == z \o d
    <3>1. gb \in Seq(Bytes) /\ zd \in Seq(Bytes)
      BY <2>0
    <3> HIDE DEF gb, zd
    <3>2. Grouped(gb, a, zd)
      BY <2>0, <3>1, BytesGrouped
    <3> QED
      BY <3>2 DEF Grouped, gb, zd
  <2>3. (a \o z) \o d = a \o (z \o d)
    <3>1. Grouped(a, z, d)
      BY <2>0, BytesGrouped
    <3> QED
      BY <3>1 DEF Grouped
  <2>4. Got' = g \o (buffer \o a) /\ UnderWay' = z \o d
    BY <1>5, <1>7, <1>8a
  <2> QED
    BY <1>4, <1>8, <2>1, <2>2, <2>3, <2>4
<1>10. buffer' \in Seq(Bytes) /\ Len(buffer') = Len(buffer) + n /\ want' \in Nat /\ want' = want - n
  BY <1>2, <1>3, <1>4, <1>5
<1>11. FramingTypeOK'
  BY <1>1, <1>3, <1>4, <1>5, <1>10 DEF FramingTypeOK
<1>12. broken => UnderWay' = <<>>
  <2> SUFFICES ASSUME broken PROVE FALSE
    OBVIOUS
  <2>1. wire \o d = <<>>
    BY <1>3, <1>8 DEF StreamOK
  <2>2. Len(wire \o d) = Len(wire) + Len(d)
    BY <1>3, <1>6
  <2>3. Len(wire) \in Nat /\ Len(d) \in Nat /\ Len(wire) > 0
    BY <1>2, <1>3, <1>6
  <2>4. Len(<<>>) = 0
    OBVIOUS
  <2> QED
    BY <2>1, <2>2, <2>3, <2>4
<1>13. Len(buffer') + want' = Len(buffer) + want
  BY <1>2, <1>3, <1>10
<1>14. StreamOK' /\ FramesIntact'
  BY <1>1, <1>3, <1>9, <1>11, <1>12, <1>13, FlowKeeps
<1> QED
  BY <1>1, <1>11, <1>14 DEF FramingInv

\* ReadPacketBytes has the length: it is the one of the next packet, and within the limit.
LEMMA ReadPrefixKeeps ==
    ASSUME FramingInv, ReadPrefix
    PROVE  FramingInv'
<1>1. /\ frpc = "prefix" /\ want = 0 /\ buffer' = <<>>
      /\ UNCHANGED <<webSocketConn, messages, maxPacketSize, written, data, rest, wire, broken, read>>
  BY DEF ReadPrefix, transport
<1>2. ~webSocketConn /\ FramingTypeOK /\ FramesIntact /\ StreamOK
  <2>1. PrefixLength # 0
    BY FramingAssumption
  <2> QED
    BY <1>1, <2>1 DEF FramingInv, MessagesOK
<1> DEFINE r == Len(read)
           p == written[r + 1]
           g == Stream(written)[r]
<1>3. r < Len(written) /\ buffer = PutUint(Len(p)) /\ Uint(buffer) = Len(p)
  BY <1>1, <1>2, PrefixArrives
<1>4. r + 1 \in 1..Len(written) /\ Len(p) \in 1..FramerLimit /\ FramerLimit \in Nat
  <2>1. r \in Nat /\ Len(written) \in Nat
    BY <1>2 DEF FramingTypeOK
  <2>2. FramerLimit \in Nat
    BY <1>2, LimitFits DEF FramingTypeOK
  <2> QED
    BY <1>2, <1>3, <2>1, <2>2 DEF StreamOK
<1>5. frpc' = "payload" /\ want' = Len(p)
  BY <1>3, <1>4 DEF ReadPrefix
<1>6. FramingTypeOK'
  <2>1. Len(p) \in Nat
    BY <1>4
  <2>2. <<>> \in Seq(Bytes)
    OBVIOUS
  <2> QED
    BY <1>1, <1>2, <1>5, <2>1, <2>2 DEF FramingTypeOK
<1>7. FramesIntact'
  BY <1>1, <1>2, <1>5 DEF FramesIntact
<1>8. Got' = Got
  <2>1. ExpectedPrefix = <<>> /\ g \in Seq(Bytes) /\ buffer \in Seq(Bytes) /\ Got = (g \o ExpectedPrefix) \o buffer
    BY <1>1, <1>2, PartsTyped DEF ExpectedPrefix, Got
  <2>2. ExpectedPrefix' = buffer /\ g' = g /\ Got' = (g' \o ExpectedPrefix') \o buffer'
    BY <1>1, <1>3, <1>5 DEF ExpectedPrefix, Got
  <2> HIDE DEF g
  <2>3. g \o buffer \in Seq(Bytes)
    BY <2>1
  <2>4. g \o <<>> = g /\ (g \o buffer) \o <<>> = g \o buffer
    BY <2>1, <2>3, ConcatEmpty
  <2> QED
    BY <1>1, <2>1, <2>2, <2>4
<1>9. UnderWay' = UnderWay
  BY <1>1 DEF UnderWay
<1>10. StreamOK'
  <2>1. FramerLimit' = FramerLimit
    BY <1>1 DEF FramerLimit
  <2>2. Len(buffer') + want' = Len(p)
    BY <1>1, <1>4, <1>5
  <2> QED
    BY <1>1, <1>2, <1>3, <1>5, <1>8, <1>9, <2>1, <2>2 DEF StreamOK
<1> QED
  BY <1>1, <1>2, <1>6, <1>7, <1>10 DEF FramingInv

\* ReadPacketBytes returns the packet: it is the next one of those written.
LEMMA ReadPayloadKeeps ==
    ASSUME FramingInv, ReadPayload
    PROVE  FramingInv'
<1>1. /\ frpc = "payload" /\ want = 0 /\ read' = Append(read, buffer)
      /\ frpc' = "prefix" /\ want' = PrefixLength /\ buffer' = <<>>
      /\ UNCHANGED <<webSocketConn, messages, maxPacketSize, written, data, rest, wire, broken>>
  BY DEF ReadPayload, transport
<1>2. ~webSocketConn /\ FramingTypeOK /\ FramesIntact /\ StreamOK
  BY <1>1 DEF FramingInv, MessagesOK
<1> DEFINE r == Len(read)
           w == Len(written)
<1>3. r < w /\ buffer = written[r + 1] /\ Got = Stream(written)[r + 1]
  BY <1>1, <1>2, PayloadArrives
<1>4. /\ read \in Seq(Seq(Bytes)) /\ written \in Seq(FramedPackets) /\ buffer \in Seq(Bytes)
      /\ r \in Nat /\ w \in Nat /\ PrefixLength \in Nat
  BY <1>2, FramingAssumption DEF FramingTypeOK
<1>5. read' \in Seq(Seq(Bytes)) /\ Len(read') = r + 1 /\ read'[r + 1] = buffer /\ \A i \in 1..r : read'[i] = read[i]
  BY <1>1, <1>4
<1>6. FramingTypeOK'
  <2>1. <<>> \in Seq(Bytes)
    OBVIOUS
  <2> QED
    BY <1>1, <1>2, <1>4, <1>5, <2>1 DEF FramingTypeOK
<1>7. FramesIntact'
  <2>1. FramedPackets \subseteq Seq(Bytes)
    BY FramingAssumption DEF Bytes
  <2>2. written \in Seq(Seq(Bytes))
    BY <1>4, <2>1
  <2>3. read = SubSeq(written, 1, r)
    BY <1>2 DEF FramesIntact
  <2>4. Append(read, written[r + 1]) = SubSeq(written, 1, r + 1)
    BY <1>3, <1>4, <2>2, <2>3, NextPrefix
  <2>5. Len(read') <= Len(written')
    BY <1>1, <1>3, <1>4, <1>5
  <2>6. read' = SubSeq(written', 1, Len(read'))
    BY <1>1, <1>3, <1>5, <2>4
  <2> QED
    BY <1>1, <2>5, <2>6 DEF FramesIntact
<1>8. Got' = Got
  <2>1. Got' = (Stream(written)[r + 1] \o <<>>) \o <<>>
    BY <1>1, <1>5 DEF Got, ExpectedPrefix
  <2>2. Stream(written)[r + 1] \in Seq(Bytes)
    BY <1>2, <1>4, WrittenFramable, StreamTyped
  <2> QED
    BY <1>3, <2>1, <2>2, ConcatEmpty
<1>9. UnderWay' = UnderWay
  BY <1>1 DEF UnderWay
<1>10. StreamOK'
  <2>1. FramerLimit' = FramerLimit
    BY <1>1 DEF FramerLimit
  <2>2. Len(buffer') + want' = PrefixLength
    BY <1>1, <1>4
  <2> QED
    BY <1>1, <1>2, <1>8, <1>9, <2>1, <2>2 DEF StreamOK
<1> QED
  BY <1>1, <1>2, <1>6, <1>7, <1>10 DEF FramingInv

\* The reader gives up on a broken stream.
LEMMA ReadFailsKeeps ==
    ASSUME FramingInv, ReadFails
    PROVE  FramingInv'
<1>1. /\ broken /\ frpc' = "failed"
      /\ UNCHANGED <<webSocketConn, messages, maxPacketSize, written, data, rest, wire, broken, want, buffer, read>>
  BY DEF ReadFails, transport
<1>2. FramingTypeOK' /\ FramesIntact'
  BY <1>1 DEF FramingInv, FramingTypeOK, FramesIntact
<1>3. FramerLimit' = FramerLimit /\ UnderWay' = UnderWay
  BY <1>1 DEF FramerLimit, UnderWay
<1>4. StreamOK => StreamOK'
  BY <1>1, <1>3 DEF StreamOK
<1>5. MessagesOK => MessagesOK'
  BY <1>1, <1>3 DEF MessagesOK, Allowed
<1> QED
  BY <1>1, <1>2, <1>4, <1>5 DEF FramingInv

\* A message written over a WebSocket is one more under way.
LEMMA WriteMessageKeeps ==
    ASSUME FramingInv, NEW packet \in FramedPackets, WriteMessage(packet)
    PROVE  FramingInv'
<1>1. /\ webSocketConn /\ ~broken /\ Allowed(packet)
      /\ written' = Append(written, packet) /\ messages' = Append(messages, packet)
      /\ UNCHANGED <<webSocketConn, maxPacketSize, data, rest, wire, broken, frpc, want, buffer, read>>
  BY DEF WriteMessage
<1>2. FramingTypeOK /\ FramesIntact /\ MessagesOK
  BY <1>1 DEF FramingInv
<1>3. written \in Seq(FramedPackets) /\ messages \in Seq(FramedPackets) /\ read \in Seq(Seq(Bytes))
      /\ Len(read) \in Nat /\ Len(written) \in Nat /\ Len(messages) \in Nat
  BY <1>2 DEF FramingTypeOK
<1>4. /\ written' \in Seq(FramedPackets) /\ Len(written') = Len(written) + 1
      /\ \A i \in 1..Len(written) : written'[i] = written[i]
  BY <1>1, <1>3
<1>5. /\ messages' \in Seq(FramedPackets) /\ Len(messages') = Len(messages) + 1
      /\ messages'[Len(messages) + 1] = packet
      /\ \A i \in 1..Len(messages) : messages'[i] = messages[i]
  BY <1>1, <1>3
<1>6. FramingTypeOK'
  BY <1>1, <1>2, <1>4, <1>5 DEF FramingTypeOK
<1>7. FramesIntact'
  <2>1. SubSeq(written', 1, Len(read)) = SubSeq(written, 1, Len(read))
    BY <1>2, <1>3, <1>4 DEF FramesIntact
  <2> QED
    BY <1>1, <1>2, <1>3, <1>4, <2>1 DEF FramesIntact
<1>8. MessagesOK'
  <2>1. UnderWay' = UnderWay
    BY <1>1 DEF UnderWay
  <2>2. ASSUME NEW i \in 1..Len(messages') PROVE Allowed(messages[i])'
    <3>1. i \in 1..Len(messages) \/ i = Len(messages) + 1
      BY <1>3, <1>5
    <3>2. \A j \in 1..Len(messages) : Allowed(messages[j])
      BY <1>2 DEF MessagesOK
    <3> QED
      BY <1>1, <1>5, <3>1, <3>2 DEF Allowed
  <2>3. written' = read' \o messages'
    <3>1. written = read \o messages
      BY <1>1, <1>2 DEF MessagesOK
    <3>2. FramedPackets \subseteq Seq(Bytes)
      BY FramingAssumption DEF Bytes
    <3>3. messages \in Seq(Seq(Bytes)) /\ packet \in Seq(Bytes)
      BY <1>3, <3>2
    <3>4. Append(read \o messages, packet) = read \o Append(messages, packet)
      <4>1. read \in Seq(Seq(Bytes)) /\ messages \in Seq(Seq(Bytes)) /\ packet \in Seq(Bytes)
        BY <1>3, <3>3
      <4> QED
        BY <4>1, PacketsAppend, Zenon
    <3> QED
      BY <1>1, <3>1, <3>4
  <2> QED
    BY <1>1, <1>2, <2>1, <2>2, <2>3 DEF MessagesOK
<1> QED
  BY <1>1, <1>6, <1>7, <1>8 DEF FramingInv

\* A message read over a WebSocket is the next of those written, within the limit.
LEMMA ReadMessageKeeps ==
    ASSUME FramingInv, ReadMessage
    PROVE  FramingInv'
<1>1. /\ webSocketConn /\ frpc = "prefix" /\ messages # <<>> /\ messages' = Tail(messages)
      /\ UNCHANGED <<webSocketConn, maxPacketSize, written, data, rest, wire, broken, want, buffer>>
  BY DEF ReadMessage
<1>2. FramingTypeOK /\ FramesIntact /\ MessagesOK
  BY <1>1 DEF FramingInv
<1>3. ~broken /\ written = read \o messages
  BY <1>1, <1>2 DEF MessagesOK
<1> DEFINE h == Head(messages)
           r == Len(read)
           m == Len(messages)
<1>4. written \in Seq(FramedPackets) /\ messages \in Seq(FramedPackets) /\ read \in Seq(Seq(Bytes))
      /\ r \in Nat /\ m \in Nat \ {0}
  BY <1>1, <1>2 DEF FramingTypeOK
<1>5. h = messages[1] /\ h \in Seq(Bytes) /\ Allowed(h)
  <2>1. FramedPackets \subseteq Seq(Bytes)
    BY FramingAssumption DEF Bytes
  <2> QED
    BY <1>2, <1>4, <2>1 DEF MessagesOK
<1>6. read' = Append(read, h) /\ frpc' = frpc
  BY <1>5 DEF ReadMessage
<1>7. messages' \in Seq(FramedPackets) /\ Len(messages') = m - 1 /\ \A i \in 1..m - 1 : messages'[i] = messages[i + 1]
  BY <1>1, <1>4
<1>8. read' \in Seq(Seq(Bytes)) /\ Len(read') = r + 1 /\ read'[r + 1] = h /\ \A i \in 1..r : read'[i] = read[i]
  BY <1>4, <1>5, <1>6
<1>9. FramingTypeOK'
  BY <1>1, <1>2, <1>6, <1>7, <1>8 DEF FramingTypeOK
<1>10. /\ written \in Seq(Seq(Bytes)) /\ messages \in Seq(Seq(Bytes)) /\ Len(written) = r + m
       /\ written[r + 1] = h
  <2>1. FramedPackets \subseteq Seq(Bytes)
    BY FramingAssumption DEF Bytes
  <2>2. written \in Seq(Seq(Bytes)) /\ messages \in Seq(Seq(Bytes))
    BY <1>4, <2>1
  <2> DEFINE c == read \o messages
  <2>3. Len(c) = r + m /\ \A i \in 1..m : c[r + i] = messages[i]
    BY <1>4, <2>2, ConcatTyped
  <2> HIDE DEF c
  <2>4. 1 \in 1..m
    BY <1>4
  <2>5. c[r + 1] = messages[1]
    BY <2>3, <2>4
  <2>6. written = c
    BY <1>3 DEF c
  <2> QED
    BY <1>5, <2>2, <2>3, <2>5, <2>6
<1>11. FramesIntact'
  <2>1. read = SubSeq(written, 1, r) /\ r < Len(written)
    <3>1. read = SubSeq(written, 1, Len(read))
      BY <1>2 DEF FramesIntact
    <3>2. r < Len(written)
      BY <1>4, <1>10
    <3> QED
      BY <3>1, <3>2
  <2>2. Append(read, written[r + 1]) = SubSeq(written, 1, r + 1)
    BY <1>4, <1>10, <2>1, NextPrefix
  <2>3. Len(read') <= Len(written')
    BY <1>1, <1>4, <1>8, <1>10
  <2>4. read' = SubSeq(written', 1, Len(read'))
    BY <1>1, <1>6, <1>8, <1>10, <2>2
  <2> QED
    BY <1>1, <1>6, <2>3, <2>4 DEF FramesIntact
<1>12. MessagesOK'
  <2>1. UnderWay' = UnderWay
    BY <1>1 DEF UnderWay
  <2>2. ASSUME NEW i \in 1..Len(messages') PROVE Allowed(messages[i])'
    <3>1. i \in 1..m - 1 /\ i + 1 \in 1..m
      BY <1>4, <1>7
    <3>2. \A j \in 1..m : Allowed(messages[j])
      BY <1>2 DEF MessagesOK
    <3> QED
      BY <1>1, <1>7, <3>1, <3>2 DEF Allowed
  <2>3. written' = read' \o messages'
    <3>1. Append(read, h) \o Tail(messages) = read \o messages
      BY <1>1, <1>4, <1>10, HeadMoves
    <3> QED
      BY <1>1, <1>3, <1>6, <3>1
  <2> QED
    BY <1>1, <1>2, <1>3, <1>6, <2>1, <2>2, <2>3 DEF MessagesOK
<1> QED
  BY <1>1, <1>9, <1>11, <1>12 DEF FramingInv

\* A step that leaves the packet transport alone.
LEMMA FramingStutters ==
    ASSUME FramingInv, UNCHANGED framingVars
    PROVE  FramingInv'
<1>1. UNCHANGED <<webSocketConn, messages, maxPacketSize, written, data, rest, wire, broken, frpc, want, buffer, read>>
  BY DEF framingVars, transport
<1>2. FramingTypeOK' /\ FramesIntact'
  BY <1>1 DEF FramingInv, FramingTypeOK, FramesIntact
<1>3. FramerLimit' = FramerLimit /\ UnderWay' = UnderWay /\ Got' = Got
  BY <1>1 DEF FramerLimit, UnderWay, Got, ExpectedPrefix
<1>4. StreamOK => StreamOK'
  BY <1>1, <1>3 DEF StreamOK
<1>5. MessagesOK => MessagesOK'
  BY <1>1, <1>3 DEF MessagesOK, Allowed
<1> QED
  BY <1>1, <1>2, <1>4, <1>5 DEF FramingInv

\* Nothing is written yet, and nothing is under way.
LEMMA FramingStarts ==
    ASSUME FramingInit
    PROVE  FramingInv
<1>1. /\ messages = <<>> /\ maxPacketSize \in PacketLimits
      /\ written = <<>> /\ data = <<>> /\ rest = <<>> /\ wire = <<>> /\ ~broken
      /\ frpc = "prefix" /\ want = PrefixLength /\ buffer = <<>> /\ read = <<>>
  BY DEF FramingInit
<1>2. FramingTypeOK
  <2>1. <<>> \in Seq(Bytes) /\ <<>> \in Seq(FramedPackets) /\ <<>> \in Seq(Seq(Bytes)) /\ PrefixLength \in Nat
    BY FramingAssumption
  <2> QED
    BY <1>1, <2>1 DEF FramingTypeOK
<1>3. FramesIntact
  <2>1. SubSeq(written, 1, Len(read)) = <<>>
    BY <1>1
  <2> QED
    BY <1>1, <2>1 DEF FramesIntact
<1>4. <<>> \o <<>> = <<>>
  <2>1. <<>> \in Seq(Bytes)
    OBVIOUS
  <2> QED
    BY <2>1, ConcatEmpty
<1>5. UnderWay = <<>>
  BY <1>1, <1>4 DEF UnderWay
<1>6. StreamOK
  <2>1. Framable(written)
    BY <1>1 DEF Framable
  <2>2. Stream(written)[0] = <<>>
    BY <2>1, StreamFacts
  <2>3. Len(read) = 0 /\ Len(written) = 0 /\ Len(buffer) = 0
    BY <1>1
  <2>4. Got = <<>>
    BY <1>1, <1>4, <2>2, <2>3 DEF Got, ExpectedPrefix
  <2>5. Begins(<<>>, <<>>)
    BY DEF Begins
  <2>6. PrefixLength \in Nat
    BY FramingAssumption
  <2> QED
    BY <1>1, <1>4, <1>5, <2>2, <2>3, <2>4, <2>5, <2>6 DEF StreamOK
<1>7. MessagesOK
  BY <1>1, <1>4, <1>5 DEF MessagesOK
<1> QED
  BY <1>2, <1>3, <1>6, <1>7 DEF FramingInv

\* For all radices, prefix lengths, limits and packets, and however the stream cuts them:
\* the reader returns the packets that were written, whole and in order, and gives up only on
\* a broken stream (ReadPacketBytes, WritePacketBytes, writeFull).
THEOREM FramesAreIntact == FramingSpec => []FramesIntact
<1>1. FramingInit => FramingInv
  BY FramingStarts
<1>2. FramingInv /\ [FramingNext]_framingVars => FramingInv'
  <2> SUFFICES ASSUME FramingInv, [FramingNext]_framingVars
               PROVE  FramingInv'
    OBVIOUS
  <2>1. ASSUME NEW packet \in FramedPackets, WritePacketBytes(packet) PROVE FramingInv'
    BY <2>1, WritePacketBytesKeeps
  <2>2. ASSUME NEW packet \in FramedPackets, WriteMessage(packet) PROVE FramingInv'
    BY <2>2, WriteMessageKeeps
  <2>3. CASE writeFull
    BY <2>3, writeFullKeeps
  <2>4. CASE BreakStream
    BY <2>4, BreakStreamKeeps
  <2>5. CASE ReadFull
    BY <2>5, ReadFullKeeps
  <2>6. CASE ReadPrefix
    BY <2>6, ReadPrefixKeeps
  <2>7. CASE ReadPayload
    BY <2>7, ReadPayloadKeeps
  <2>8. CASE ReadFails
    BY <2>8, ReadFailsKeeps
  <2>9. CASE ReadMessage
    BY <2>9, ReadMessageKeeps
  <2>10. CASE UNCHANGED framingVars
    BY <2>10, FramingStutters
  <2> QED
    BY <2>1, <2>2, <2>3, <2>4, <2>5, <2>6, <2>7, <2>8, <2>9, <2>10 DEF FramingNext
<1>3. FramingInv => FramesIntact
  BY DEF FramingInv
<1> QED
  BY <1>1, <1>2, <1>3, PTL DEF FramingSpec

(***************************************************************************)
(* Texts of numbers (Encodings).                                           *)
(***************************************************************************)

\* The power of a sum is the product of the powers.
LEMMA PowerAdd ==
    ASSUME NEW b \in Nat \ {0}, NEW i \in Nat, NEW j \in Nat
    PROVE  Power(b)[i + j] = Power(b)[i] * Power(b)[j]
<1> DEFINE T == {k \in Nat : Power(b)[i + k] = Power(b)[i] * Power(b)[k]}
<1>1. 0 \in T
  <2>1. Power(b)[i] \in Nat /\ Power(b)[0] = 1 /\ i + 0 = i
    BY PowerFacts
  <2> QED
    BY <2>1
<1>2. ASSUME NEW k \in Nat, k \in T PROVE k + 1 \in T
  <2>1. i + k \in Nat /\ i + (k + 1) = (i + k) + 1
    OBVIOUS
  <2>2. Power(b)[(i + k) + 1] = b * Power(b)[i + k] /\ Power(b)[k + 1] = b * Power(b)[k]
    BY <2>1, PowerNat
  <2>3. Power(b)[i] \in Nat /\ Power(b)[k] \in Nat
    BY PowerNat
  <2>4. \A x, y \in Nat : b * (x * y) = x * (b * y)
    OBVIOUS
  <2>5. Power(b)[i + k] = Power(b)[i] * Power(b)[k]
    BY <1>2
  <2>6. b * (Power(b)[i] * Power(b)[k]) = Power(b)[i] * (b * Power(b)[k])
    BY <2>3, <2>4
  <2> QED
    BY <2>1, <2>2, <2>5, <2>6
<1> HIDE DEF T
<1>3. Nat \subseteq T
  BY <1>1, <1>2, InductionSet
<1> QED
  BY <1>3 DEF T

\* Digits behind digits: the first number times the power of the length of the second.
LEMMA NumberConcat ==
    ASSUME NEW s \in Seq(Nat), NEW t \in Seq(Nat), NEW b \in Nat \ {0}
    PROVE  Number(s \o t, b) = Number(s, b) * Power(b)[Len(t)] + Number(t, b)
<1>1. PICK g : NumberSteps(g, s, b) /\ Number(s, b) = g[Len(s)]
  BY NumberExists
<1>2. PICK h : NumberSteps(h, t, b) /\ Number(t, b) = h[Len(t)]
  BY NumberExists
<1> DEFINE l == Len(s)
           m == Len(t)
           u == s \o t
           G == g[l]
           f == [i \in 0..l + m |-> IF i < l THEN g[i] ELSE G * Power(b)[i - l] + h[i - l]]
<1>3. l \in Nat /\ m \in Nat /\ Len(u) = l + m /\ u \in Seq(Nat)
  OBVIOUS
<1>4. \A i \in 1..l : u[i] = s[i] /\ s[i] \in Nat
  OBVIOUS
<1>5. \A i \in 1..m : u[l + i] = t[i] /\ t[i] \in Nat
  OBVIOUS
<1>6. G \in Nat /\ (\A i \in 0..l : g[i] \in Nat) /\ \A i \in 0..m : h[i] \in Nat
  <2>1. l \in 0..l
    BY <1>3
  <2> QED
    BY <1>1, <1>2, <2>1 DEF NumberSteps
<1>7. g[0] = 0 /\ h[0] = 0
  BY <1>1, <1>2 DEF NumberSteps
<1>8. \A i \in 0..l-1 : g[i + 1] = g[i] * b + s[i + 1]
  BY <1>1 DEF NumberSteps
<1>9. \A i \in 0..m-1 : h[i + 1] = h[i] * b + t[i + 1]
  BY <1>2 DEF NumberSteps
<1>10. Number(s, b) = G /\ Number(t, b) = h[m]
  BY <1>1, <1>2
<1>11. Power(b)[0] = 1 /\ \A k \in Nat : Power(b)[k] \in Nat /\ Power(b)[k + 1] = b * Power(b)[k]
  BY PowerFacts
<1> HIDE DEF l, m, u, G
<1>12. \A i \in 0..m : f[l + i] = G * Power(b)[i] + h[i]
  <2> SUFFICES ASSUME NEW i \in 0..m PROVE f[l + i] = G * Power(b)[i] + h[i]
    OBVIOUS
  <2>1. l + i \in 0..l + m /\ ~(l + i < l) /\ (l + i) - l = i
    BY <1>3
  <2> QED
    BY <2>1
<1>13. \A i \in 0..l : f[i] = g[i]
  <2> SUFFICES ASSUME NEW i \in 0..l PROVE f[i] = g[i]
    OBVIOUS
  <2>1. CASE i < l
    BY <1>3, <2>1
  <2>2. CASE i = l
    <3>1. 0 \in 0..m /\ l + 0 = l
      BY <1>3
    <3>2. f[l + 0] = G * Power(b)[0] + h[0]
      BY <1>12, <3>1
    <3>3. f[l] = G
      <4>1. f[l] = G * 1 + 0
        BY <1>7, <1>11, <3>1, <3>2 DEF f
      <4> QED
        BY <1>6, <4>1
    <3> QED
      BY <2>2, <3>3 DEF G
  <2> QED
    BY <1>3, <2>1, <2>2
<1> HIDE DEF f
<1>14. NumberSteps(f, u, b)
  <2>1. f[0] = 0
    BY <1>3, <1>7, <1>13
  <2>2. ASSUME NEW i \in 0..l + m PROVE f[i] \in Nat
    <3>1. CASE i <= l
      <4>1. i \in 0..l
        BY <1>3, <3>1
      <4> QED
        BY <1>6, <1>13, <4>1
    <3>2. CASE i > l
      <4>1. PICK k \in 0..m : l + k = i
        <5>1. i - l \in 0..m /\ l + (i - l) = i
          BY <1>3, <3>2
        <5> QED
          BY <5>1
      <4>2. f[i] = G * Power(b)[k] + h[k]
        BY <1>12, <4>1
      <4>3. Power(b)[k] \in Nat /\ h[k] \in Nat
        <5>1. k \in Nat
          BY <1>3
        <5> QED
          BY <1>6, <1>11, <5>1
      <4>4. \A w, x, y \in Nat : w * x + y \in Nat
        OBVIOUS
      <4>5. G * Power(b)[k] + h[k] \in Nat
        BY <1>6, <4>3, <4>4
      <4> QED
        BY <4>2, <4>5
    <3> QED
      BY <1>3, <3>1, <3>2
  <2>3. ASSUME NEW i \in 0..(l + m) - 1 PROVE f[i + 1] = f[i] * b + u[i + 1]
    <3>1. CASE i < l
      <4>1. i \in 0..l-1 /\ i \in 0..l /\ i + 1 \in 0..l /\ i + 1 \in 1..l
        BY <1>3, <3>1
      <4>2. f[i + 1] = g[i + 1] /\ f[i] = g[i]
        BY <1>13, <4>1
      <4> QED
        BY <1>4, <1>8, <4>1, <4>2
    <3>2. CASE ~(i < l)
      <4> DEFINE k == i - l
      <4>1. k \in Nat /\ k \in 0..m-1 /\ k \in 0..m /\ k + 1 \in 0..m /\ k + 1 \in 1..m /\ l + k = i /\ l + (k + 1) = i + 1
        BY <1>3, <3>2
      <4> HIDE DEF k
      <4>2. f[i] = G * Power(b)[k] + h[k] /\ f[i + 1] = G * Power(b)[k + 1] + h[k + 1]
        BY <1>12, <4>1
      <4>3. h[k + 1] = h[k] * b + t[k + 1] /\ u[i + 1] = t[k + 1] /\ t[k + 1] \in Nat /\ h[k] \in Nat
        BY <1>5, <1>6, <1>9, <4>1
      <4>4. Power(b)[k + 1] = b * Power(b)[k] /\ Power(b)[k] \in Nat
        BY <1>11, <4>1
      <4>5. \A p, x, y \in Nat : G * (b * p) + (x * b + y) = (G * p + x) * b + y
        BY <1>6
      <4>6. G * (b * Power(b)[k]) + (h[k] * b + t[k + 1]) = (G * Power(b)[k] + h[k]) * b + t[k + 1]
        BY <4>3, <4>4, <4>5
      <4> QED
        BY <4>2, <4>3, <4>4, <4>6
    <3> QED
      BY <3>1, <3>2
  <2> QED
    BY <1>3, <2>1, <2>2, <2>3 DEF NumberSteps
<1>15. Number(u, b) = f[Len(u)]
  BY <1>3, <1>14, NumberUnique
<1>16. Number(u, b) = G * Power(b)[m] + h[m]
  <2>1. m \in 0..m
    BY <1>3
  <2> QED
    BY <1>3, <1>12, <1>15, <2>1
<1> QED
  BY <1>10, <1>16 DEF u, m

\* No digits are zero, one digit is itself, and a digit at the end multiplies the rest.
LEMMA NumberAppend ==
    ASSUME NEW b \in Nat \ {0}
    PROVE  /\ Number(<<>>, b) = 0
           /\ \A d \in Nat : Number(<<d>>, b) = d
           /\ \A s \in Seq(Nat), d \in Nat : Number(Append(s, d), b) = Number(s, b) * b + d
<1>1. Number(<<>>, b) = 0
  <2>1. PICK g : NumberSteps(g, <<>>, b) /\ Number(<<>>, b) = g[Len(<<>>)]
    <3>1. <<>> \in Seq(Nat)
      OBVIOUS
    <3> QED
      BY <3>1, NumberExists
  <2> QED
    BY <2>1 DEF NumberSteps
<1>2. ASSUME NEW d \in Nat PROVE Number(<<d>>, b) = d
  <2>1. <<d>> \in Seq(Nat) /\ Len(<<d>>) = 1 /\ <<d>>[1] = d
    OBVIOUS
  <2>2. PICK g : NumberSteps(g, <<d>>, b) /\ Number(<<d>>, b) = g[Len(<<d>>)]
    BY <2>1, NumberExists
  <2>3. 0 \in 0..Len(<<d>>) - 1 /\ 0 + 1 = 1
    BY <2>1
  <2>4. g[0] = 0 /\ g[1] = g[0] * b + d
    BY <2>1, <2>2, <2>3 DEF NumberSteps
  <2> QED
    BY <2>1, <2>2, <2>4
<1>3. ASSUME NEW s \in Seq(Nat), NEW d \in Nat PROVE Number(Append(s, d), b) = Number(s, b) * b + d
  <2>1. Append(s, d) = s \o <<d>> /\ <<d>> \in Seq(Nat) /\ Len(<<d>>) = 1
    OBVIOUS
  <2>2. Number(s \o <<d>>, b) = Number(s, b) * Power(b)[Len(<<d>>)] + Number(<<d>>, b)
    BY <2>1, NumberConcat
  <2>3. Power(b)[0] = 1 /\ Power(b)[0 + 1] = b * Power(b)[0] /\ 0 + 1 = 1
    BY PowerFacts
  <2>4. Power(b)[1] = b
    BY <2>3
  <2> QED
    BY <1>2, <2>1, <2>2, <2>4
<1> QED
  BY <1>1, <1>2, <1>3

\* A quotient is smaller than the number, and the remainder is a digit.
LEMMA QuotientSmaller ==
    ASSUME NEW b \in Nat \ {0, 1}, NEW n \in Nat
    PROVE  /\ n \div b \in Nat /\ (n % b) \in 0..b-1 /\ n = (n \div b) * b + (n % b)
           /\ n # 0 => n \div b < n /\ n \div b \in 0..n-1
<1> DEFINE q == n \div b
           r == n % b
<1>1. q \in Nat /\ r \in 0..b-1 /\ n = b * q + r
  OBVIOUS
<1> HIDE DEF q, r
<1>2. n = q * b + r
  BY <1>1
<1>3. ASSUME n # 0 PROVE q < n /\ q \in 0..n-1
  <2>1. CASE q = 0
    BY <1>3, <2>1
  <2>2. CASE q # 0
    <3>1. b * q >= 2 * q /\ 2 * q > q
      BY <1>1, <2>2
    <3> QED
      BY <1>1, <3>1
  <2> QED
    BY <2>1, <2>2
<1> QED
  BY <1>1, <1>2, <1>3 DEF q, r

\* A text reversed is a text of the same length,
LEMMA ReversedTyped ==
    ASSUME NEW S, NEW s \in Seq(S)
    PROVE  /\ Reverse(s) \in Seq(S) /\ Len(Reverse(s)) = Len(s)
           /\ \A i \in 1..Len(s) : Reverse(s)[i] = s[(Len(s) - i) + 1]
<1> DEFINE l == Len(s)
<1>1. l \in Nat /\ \A i \in 1..l : s[i] \in S
  OBVIOUS
<1>2. Reverse(s) = [i \in 1..l |-> s[(l - i) + 1]]
  BY DEF Reverse
<1> HIDE DEF l
<1>3. \A i \in 1..l : (l - i) + 1 \in 1..l
  BY <1>1
<1>4. \A i \in 1..l : s[(l - i) + 1] \in S
  BY <1>1, <1>3
<1>5. Reverse(s) \in Seq(S) /\ Len(Reverse(s)) = l /\ \A i \in 1..l : Reverse(s)[i] = s[(l - i) + 1]
  BY <1>1, <1>2, <1>4
<1> QED
  BY <1>5 DEF l

\* and its first character comes last.
LEMMA Reversed ==
    ASSUME NEW S, NEW s \in Seq(S), NEW d \in S
    PROVE  Reverse(<<d>>) = <<d>> /\ Reverse(<<d>> \o s) = Append(Reverse(s), d)
<1> DEFINE l == Len(s)
<1>1. l \in Nat /\ \A i \in 1..l : s[i] \in S
  OBVIOUS
<1>2. Reverse(s) \in Seq(S) /\ Len(Reverse(s)) = l /\ \A i \in 1..l : Reverse(s)[i] = s[(l - i) + 1]
  BY ReversedTyped
<1>3. Reverse(<<d>>) = <<d>>
  <2>1. Len(<<d>>) = 1 /\ <<d>>[1] = d
    OBVIOUS
  <2>2. Reverse(<<d>>) = [i \in 1..1 |-> <<d>>[(1 - i) + 1]]
    BY <2>1 DEF Reverse
  <2>3. \A i \in 1..1 : <<d>>[(1 - i) + 1] = d
    BY <2>1
  <2>4. Reverse(<<d>>) = [i \in 1..1 |-> d]
    BY <2>2, <2>3
  <2>5. [i \in 1..1 |-> d] = <<d>>
    OBVIOUS
  <2> QED
    BY <2>4, <2>5
<1> DEFINE u == <<d>> \o s
<1>4. u \in Seq(S) /\ Len(u) = l + 1 /\ u[1] = d /\ \A i \in 1..l : u[i + 1] = s[i]
  OBVIOUS
<1> HIDE DEF l, u
<1>7. Reverse(u) \in Seq(S) /\ Len(Reverse(u)) = l + 1 /\ \A i \in 1..l + 1 : Reverse(u)[i] = u[((l + 1) - i) + 1]
  <2>1. Reverse(u) \in Seq(S) /\ Len(Reverse(u)) = Len(u) /\ \A i \in 1..Len(u) : Reverse(u)[i] = u[(Len(u) - i) + 1]
    BY <1>4, ReversedTyped
  <2> QED
    BY <1>4, <2>1
<1>8. \A i \in 1..l : Reverse(u)[i] = Reverse(s)[i]
  <2> SUFFICES ASSUME NEW i \in 1..l PROVE Reverse(u)[i] = Reverse(s)[i]
    OBVIOUS
  <2>1. (l - i) + 1 \in 1..l /\ ((l + 1) - i) + 1 = ((l - i) + 1) + 1 /\ i \in 1..l + 1
    BY <1>1
  <2> QED
    BY <1>2, <1>4, <1>7, <2>1
<1>9. Reverse(u)[l + 1] = d
  <2>1. l + 1 \in 1..l + 1 /\ ((l + 1) - (l + 1)) + 1 = 1
    BY <1>1
  <2> QED
    BY <1>4, <1>7, <2>1
<1>10. Reverse(u) = Append(Reverse(s), d)
  <2>1. \A v, w \in Seq(S) : /\ Len(v) = Len(w) + 1
                             /\ \A i \in 1..Len(w) : v[i] = w[i]
                             /\ v[Len(w) + 1] = d
                             => v = Append(w, d)
    OBVIOUS
  <2> QED
    BY <1>2, <1>7, <1>8, <1>9, <2>1
<1> QED
  BY <1>3, <1>10 DEF u

\* The loop over quotients: the last digit, before the digits of the quotient.
LEMMA LastFirstFacts ==
    ASSUME NEW b \in Nat \ {0, 1}
    PROVE  \A f \in Nat : /\ LastFirst(b)[f] \in Seq(0..b-1)
                          /\ f < b => LastFirst(b)[f] = <<f>>
                          /\ ~(f < b) => LastFirst(b)[f] = <<f % b>> \o LastFirst(b)[f \div b]
<1> DEFINE V == Seq(0..b-1)
           take == [p \in V \X Nat |-> <<p[2] % b>> \o p[1]]
           prev == [n \in Nat |-> n \div b]
           first == [n \in Nat |-> <<n % b>>]
           Stop == 0..b-1
           text == CHOOSE t : t = [f \in Nat |-> IF f < b THEN <<f>> ELSE <<f % b>> \o t[f \div b]]
<1>1. \A n \in Nat : (n % b) \in 0..b-1 /\ n \div b \in Nat /\ (n # 0 => n \div b < n /\ n \div b \in 0..n-1)
  BY QuotientSmaller
<1>2. \A d \in 0..b-1 : <<d>> \in V /\ \A v \in V : <<d>> \o v \in V
  OBVIOUS
<1>3. take \in [V \X Nat -> V] /\ first \in [Nat -> V] /\ prev \in [Nat -> Nat]
  BY <1>1, <1>2
<1>4. \A n \in Nat : prev[n] = n \div b /\ first[n] = <<n % b>> /\ (n \in Stop <=> n < b)
  OBVIOUS
<1>5. \A v \in V, n \in Nat : take[<<v, n>>] = <<n % b>> \o v
  OBVIOUS
<1>6. \A n \in Nat : n \notin Stop => prev[n] < n
  BY <1>1, <1>4
<1>7. \A n \in Nat : n < b => (n % b) = n
  OBVIOUS
<1> HIDE DEF take, prev, first, Stop, V
<1>8. PICK t : Recursive(t, Nat, V, Stop, first, prev, take)
  BY <1>3, <1>6, RecursiveExists
<1>9. t \in [Nat -> V]
  BY <1>8 DEF Recursive
<1>10. ASSUME NEW f \in Nat PROVE t[f] = IF f < b THEN <<f>> ELSE <<f % b>> \o t[f \div b]
  <2>1. CASE f < b
    <3>1. t[f] = first[f]
      BY <1>4, <1>8, <2>1 DEF Recursive
    <3>2. first[f] = <<f>>
      BY <1>4, <1>7, <2>1
    <3> QED
      BY <2>1, <3>1, <3>2
  <2>2. CASE ~(f < b)
    <3>1. t[f] = take[<<t[prev[f]], f>>]
      BY <1>4, <1>8, <2>2 DEF Recursive
    <3>2. prev[f] = f \div b /\ f \div b \in Nat
      BY <1>1, <1>4
    <3>3. t[f \div b] \in V
      BY <1>9, <3>2
    <3>4. t[f] = <<f % b>> \o t[f \div b]
      BY <1>5, <3>1, <3>2, <3>3
    <3> QED
      BY <2>2, <3>4
  <2> QED
    BY <2>1, <2>2
<1>11. t = [f \in Nat |-> IF f < b THEN <<f>> ELSE <<f % b>> \o t[f \div b]]
  BY <1>9, <1>10
<1>12. text = [f \in Nat |-> IF f < b THEN <<f>> ELSE <<f % b>> \o text[f \div b]]
  BY <1>11
<1>13. LastFirst(b) = text
  BY DEF LastFirst
<1> HIDE DEF text
<1>14. ASSUME NEW f \in Nat
       PROVE  (f < b => text[f] = <<f>>) /\ (~(f < b) => text[f] = <<f % b>> \o text[f \div b])
  <2>1. text[f] = IF f < b THEN <<f>> ELSE <<f % b>> \o text[f \div b]
    BY <1>12
  <2> QED
    BY <2>1
<1> DEFINE T == {f \in Nat : text[f] \in V}
<1>15. ASSUME NEW n \in Nat, \A m \in 0..n-1 : m \in T PROVE n \in T
  <2>1. CASE n < b
    <3>1. n \in 0..b-1
      BY <2>1
    <3> QED
      BY <1>2, <1>14, <2>1, <3>1
  <2>2. CASE ~(n < b)
    <3>1. n \div b \in 0..n-1 /\ (n % b) \in 0..b-1
      <4>1. n # 0
        BY <2>2
      <4> QED
        BY <1>1, <4>1
    <3>2. text[n \div b] \in V
      BY <1>15, <3>1
    <3> QED
      BY <1>2, <1>14, <2>2, <3>1, <3>2
  <2> QED
    BY <2>1, <2>2
<1> HIDE DEF T
<1>16. Nat \subseteq T
  BY <1>15, StrongInductionSet
<1> QED
  BY <1>13, <1>14, <1>16 DEF T, V

\* The reversed digits are a text of the base that is not empty and stands for the number.
LEMMA TextNumber ==
    ASSUME NEW b \in Nat \ {0, 1}
    PROVE  \A f \in Nat : /\ Reverse(LastFirst(b)[f]) \in Seq(0..b-1)
                          /\ Len(Reverse(LastFirst(b)[f])) \in Nat \ {0}
                          /\ Number(Reverse(LastFirst(b)[f]), b) = f
<1> DEFINE text == [f \in Nat |-> LastFirst(b)[f]]
           T == {f \in Nat : Len(text[f]) \in Nat \ {0} /\ Number(Reverse(text[f]), b) = f}
<1>0. \A f \in Nat : text[f] = LastFirst(b)[f]
  OBVIOUS
<1> HIDE DEF text
<1>1. \A f \in Nat : /\ text[f] \in Seq(0..b-1)
                     /\ f < b => text[f] = <<f>>
                     /\ ~(f < b) => text[f] = <<f % b>> \o text[f \div b]
  <2>1. \A f \in Nat : f \div b \in Nat
    BY QuotientSmaller
  <2> QED
    BY <1>0, <2>1, LastFirstFacts
<1>2. \A s \in Seq(0..b-1) : s \in Seq(Nat)
  OBVIOUS
<1>3. ASSUME NEW n \in Nat, \A m \in 0..n-1 : m \in T PROVE n \in T
  <2>1. CASE n < b
    <3>1. text[n] = <<n>> /\ Len(<<n>>) = 1
      BY <1>1, <2>1
    <3>1a. <<>> \in Seq(Nat)
      OBVIOUS
    <3>2. Reverse(<<n>>) = <<n>>
      BY <3>1a, Reversed
    <3>3. Number(<<n>>, b) = n
      BY NumberAppend
    <3>4. Len(text[n]) \in Nat \ {0} /\ Number(Reverse(text[n]), b) = n
      BY <3>1, <3>2, <3>3
    <3> QED
      BY <3>4
  <2>2. CASE ~(n < b)
    <3> DEFINE q == n \div b
               d == n % b
               s == text[q]
    <3>1. q \in 0..n-1 /\ q \in Nat /\ d \in 0..b-1 /\ n = q * b + d
      <4>1. n # 0
        BY <2>2
      <4> QED
        BY <4>1, QuotientSmaller
    <3>2. text[n] = <<d>> \o s
      BY <1>1, <2>2
    <3>3. s \in Seq(0..b-1) /\ q \in T
      BY <1>1, <1>3, <3>1
    <3> HIDE DEF q, d
    <3>4. Len(s) \in Nat \ {0} /\ Number(Reverse(s), b) = q
      BY <3>3
    <3> HIDE DEF s
    <3>5. Reverse(s) \in Seq(0..b-1) /\ Reverse(<<d>> \o s) = Append(Reverse(s), d)
      BY <3>1, <3>3, ReversedTyped, Reversed
    <3>6. Number(Append(Reverse(s), d), b) = Number(Reverse(s), b) * b + d
      BY <1>2, <3>1, <3>5, NumberAppend
    <3>7. Len(<<d>> \o s) = Len(s) + 1
      BY <3>3
    <3>8. Number(Reverse(<<d>> \o s), b) = n
      BY <3>1, <3>4, <3>5, <3>6
    <3>9. Len(text[n]) \in Nat \ {0} /\ Number(Reverse(text[n]), b) = n
      BY <3>2, <3>4, <3>7, <3>8
    <3> QED
      BY <3>9
  <2> QED
    BY <2>1, <2>2
<1> HIDE DEF T
<1>4. Nat \subseteq T
  BY <1>3, StrongInductionSet
<1>5. ASSUME NEW f \in Nat
      PROVE  /\ Reverse(text[f]) \in Seq(0..b-1) /\ Len(Reverse(text[f])) \in Nat \ {0}
             /\ Number(Reverse(text[f]), b) = f
  <2>1. text[f] \in Seq(0..b-1) /\ f \in T
    BY <1>1, <1>4
  <2>1b. ASSUME NEW s \in Seq(0..b-1) PROVE Reverse(s) \in Seq(0..b-1) /\ Len(Reverse(s)) = Len(s)
    BY ReversedTyped
  <2>2. Reverse(text[f]) \in Seq(0..b-1) /\ Len(Reverse(text[f])) = Len(text[f])
    BY <2>1, <2>1b
  <2> QED
    BY <2>1, <2>2 DEF T
<1> QED
  BY <1>0, <1>5

\* What stands between two quotes.
LEMMA Quoted ==
    ASSUME NEW t \in Seq(Nat), NEW q \in Nat
    PROVE  /\ Len(<<q>> \o t \o <<q>>) = Len(t) + 2
           /\ (<<q>> \o t \o <<q>>)[1] = q /\ (<<q>> \o t \o <<q>>)[Len(t) + 2] = q
           /\ SubSeq(<<q>> \o t \o <<q>>, 2, (Len(t) + 2) - 1) = t
<1> DEFINE l == Len(t)
           v == <<q>> \o t
           w == v \o <<q>>
<1>1. l \in Nat /\ v \in Seq(Nat) /\ Len(v) = l + 1 /\ v[1] = q /\ \A i \in 1..l : v[i + 1] = t[i]
  OBVIOUS
<1> HIDE DEF v
<1>2. w \in Seq(Nat) /\ Len(w) = l + 2 /\ w[l + 2] = q /\ \A i \in 1..l + 1 : w[i] = v[i]
  BY <1>1
<1> HIDE DEF w
<1>3. \A i \in 1..l : w[i + 1] = t[i]
  <2> SUFFICES ASSUME NEW i \in 1..l PROVE w[i + 1] = t[i]
    OBVIOUS
  <2>1. i + 1 \in 1..l + 1
    BY <1>1
  <2> QED
    BY <1>1, <1>2, <2>1
<1>4. w[1] = q
  BY <1>1, <1>2
<1>5. SubSeq(w, 2, (l + 2) - 1) = t
  <2>1. (l + 2) - 1 = l + 1 /\ 2 \in 1..Len(w) + 1 /\ l + 1 \in 1..Len(w)
    BY <1>1, <1>2
  <2>2. /\ SubSeq(w, 2, l + 1) \in Seq(Nat) /\ Len(SubSeq(w, 2, l + 1)) = l
        /\ \A i \in 1..l : SubSeq(w, 2, l + 1)[i] = w[i + 1]
    <3>1. \A i \in 2..l + 1 : w[i] \in Nat
      <4>1. w \in Seq(Nat) /\ \A i \in 2..l + 1 : i \in 1..Len(w)
        BY <1>1, <1>2
      <4> HIDE DEF l
      <4> QED
        BY <4>1
    <3>2. 2 \in Int /\ l + 1 \in Int /\ ((l + 1) - 2) + 1 = l /\ l \in Nat
      BY <1>1
    <3> DEFINE n == l + 1
               x == SubSeq(w, 2, n)
    <3>3. n \in Int
      BY <3>2
    <3>4. /\ x \in Seq(Nat) /\ Len(x) = (IF 2 <= n THEN (n - 2) + 1 ELSE 0)
          /\ \A i \in 1..(n - 2) + 1 : x[i] = w[(2 + i) - 1]
      BY <3>1, <3>3, SubSeqProperties
    <3>5. \A i \in 1..l : (2 + i) - 1 = i + 1
      BY <3>2
    <3> HIDE DEF x
    <3>6. x \in Seq(Nat) /\ Len(x) = l /\ \A i \in 1..l : x[i] = w[i + 1]
      BY <3>2, <3>4, <3>5
    <3> QED
      BY <3>6 DEF x
  <2> DEFINE u == SubSeq(w, 2, l + 1)
  <2>3. u \in Seq(Nat) /\ Len(u) = Len(t) /\ \A i \in 1..Len(u) : u[i] = t[i]
    BY <1>1, <1>3, <2>2 DEF l
  <2> HIDE DEF u
  <2>4. u = t
    BY <2>3, SeqEqual
  <2> QED
    BY <2>1, <2>4 DEF u
<1> QED
  BY <1>2, <1>4, <1>5 DEF w, v

\* String and Base2..Base36, UnmarshalJSON and IntBytes: a number comes back.
LEMMA TextsComeBack ==
    ASSUME NEW n \in Nat
    PROVE  /\ ParseBaseText(BaseText(n)) = n
           /\ n < Power(ByteValues)[IntWidth] => ParseIntBytes(IntBytes(n)) = n
           /\ \A r \in Radixes : /\ ParseInRadix(InRadix(n, r), r) = n
                                 /\ UnmarshalJSON(MarshalJSON(n, r), r) = {n}
<1>1. Alphabet \in Nat \ {0, 1} /\ ByteValues \in Nat \ {0} /\ IntWidth \in Nat /\ Radixes \subseteq Nat \ {0, 1}
  BY EncodingsAssumption
<1>2. ParseBaseText(BaseText(n)) = n
  BY <1>1, TextNumber DEF ParseBaseText, BaseText
<1>3. n < Power(ByteValues)[IntWidth] => ParseIntBytes(IntBytes(n)) = n
  BY <1>1, FixedDigitsNumber DEF ParseIntBytes, IntBytes
<1>4. ASSUME NEW r \in Radixes
      PROVE  ParseInRadix(InRadix(n, r), r) = n /\ UnmarshalJSON(MarshalJSON(n, r), r) = {n}
  <2> DEFINE t == InRadix(n, r)
             m == MarshalJSON(n, r)
  <2>1. t \in Seq(0..r-1) /\ Len(t) \in Nat \ {0} /\ ParseInRadix(t, r) = n
    BY <1>1, TextNumber DEF InRadix, ParseInRadix
  <2>2. t \in Seq(Nat)
    <3>1. \A s \in Seq(0..r-1) : s \in Seq(Nat)
      BY <1>1
    <3> HIDE DEF t
    <3> QED
      BY <2>1, <3>1
  <2>3. m = <<Quote>> \o t \o <<Quote>> /\ Quote \in Nat
    BY <1>1 DEF MarshalJSON, Quote
  <2> HIDE DEF t, m
  <2>4. /\ Len(m) = Len(t) + 2 /\ m[1] = Quote /\ m[Len(m)] = Quote
        /\ SubSeq(m, 2, Len(m) - 1) = t
    BY <2>2, <2>3, Quoted
  <2>5. ~(Len(m) < 3)
    BY <2>1, <2>4
  <2>6. UnmarshalJSON(m, r) = {ParseInRadix(t, r)}
    BY <2>4, <2>5 DEF UnmarshalJSON
  <2> QED
    BY <2>1, <2>6 DEF t, m
<1> QED
  BY <1>2, <1>3, <1>4

\* GenNodeId puts the four fields of a node ID back where ToNodeIdStr took them from.
LEMMA NodeIdComesBack ==
    ASSUME NEW n \in Nat, n < Shift(BigWorldBits + 3 * CommonBits)
    PROVE  GenNodeIdByStr(ToNodeIdStr(n)) = {n}
<1>1. BigWorldBits \in Nat /\ CommonBits \in Nat
  BY EncodingsAssumption
<1> DEFINE P0 == Shift(BigWorldBits)
           P1 == Shift(CommonBits)
           P2 == Shift(2 * CommonBits)
           P3 == Shift(3 * CommonBits)
<1>2. P2 = P1 * P1 /\ P3 = P1 * P2 /\ Shift(BigWorldBits + 3 * CommonBits) = P0 * P3
  <2>1. 2 * CommonBits = CommonBits + CommonBits /\ 3 * CommonBits = CommonBits + 2 * CommonBits
    BY <1>1
  <2>2. 2 * CommonBits \in Nat /\ 3 * CommonBits \in Nat /\ 2 \in Nat \ {0}
    BY <1>1
  <2>3. Power(2)[CommonBits + CommonBits] = Power(2)[CommonBits] * Power(2)[CommonBits]
    BY <1>1, <2>2, PowerAdd
  <2>4. Power(2)[CommonBits + 2 * CommonBits] = Power(2)[CommonBits] * Power(2)[2 * CommonBits]
    BY <1>1, <2>2, PowerAdd
  <2>5. Power(2)[BigWorldBits + 3 * CommonBits] = Power(2)[BigWorldBits] * Power(2)[3 * CommonBits]
    BY <1>1, <2>2, PowerAdd
  <2> QED
    BY <2>1, <2>3, <2>4, <2>5, Zenon DEF Shift
<1>3. P0 \in Nat \ {0} /\ P1 \in Nat \ {0} /\ P2 \in Nat \ {0} /\ P3 \in Nat \ {0}
  <2>1. 2 \in Nat \ {0} /\ 2 * CommonBits \in Nat /\ 3 * CommonBits \in Nat
    BY <1>1
  <2> QED
    BY <1>1, <2>1, PowerNat DEF Shift
<1>4. n < P0 * P3
  BY <1>2
<1> DEFINE f1 == (n \div P3) % P0
           f2 == (n \div P2) % P1
           f3 == (n \div P1) % P1
           f4 == n % P1
<1>5. ToNodeIdStr(n) = <<f1, f2, f3, f4>>
  BY DEF ToNodeIdStr
<1>6. \A a, b, c, d : GenNodeIdByStr(<<a, b, c, d>>) =
          {(a % P0) * P3 + (b % P1) * P2 + (c % P1) * P1 + (d % P1)}
  BY DEF GenNodeIdByStr, GenNodeId
<1> HIDE DEF P0, P1, P2, P3
<1>7. n = (n \div P1) * P1 + f4 /\ f4 \in 0..P1-1
  <2>1. P1 \in Nat \ {0}
    BY <1>3
  <2> QED
    BY <2>1
<1>8. n \div P1 = (n \div P2) * P1 + f3 /\ f3 \in 0..P1-1
  <2>1. n \div P1 = (n \div (P1 * P1)) * P1 + ((n \div P1) % P1)
    BY <1>3, DigitStep
  <2>2. \A x, y \in Nat : y # 0 => (x % y) \in 0..y-1 /\ x \div y \in Nat
    OBVIOUS
  <2> QED
    BY <1>2, <1>3, <2>1, <2>2
<1>9. n \div P2 = (n \div P3) * P1 + f2 /\ f2 \in 0..P1-1
  <2>1. n \div P2 = (n \div (P1 * P2)) * P1 + ((n \div P2) % P1)
    BY <1>3, DigitStep
  <2>2. \A x, y \in Nat : y # 0 => (x % y) \in 0..y-1 /\ x \div y \in Nat
    OBVIOUS
  <2> QED
    BY <1>2, <1>3, <2>1, <2>2
<1>10. f1 = n \div P3 /\ f1 \in 0..P0-1
  <2> DEFINE q == n \div P3
             r == n % P3
  <2>1. q \in Nat /\ r \in 0..P3-1 /\ n = P3 * q + r
    <3>1. P3 \in Nat \ {0}
      BY <1>3
    <3> QED
      BY <3>1
  <2> HIDE DEF q, r
  <2>2. q < P0
    <3> SUFFICES ASSUME q >= P0 PROVE FALSE
      BY <1>3, <2>1
    <3>1. P3 * q >= P3 * P0
      BY <1>3, <2>1
    <3>2. P3 * P0 = P0 * P3
      BY <1>3
    <3>3. P3 * q \in Nat /\ P3 * P0 \in Nat
      BY <1>3, <2>1
    <3> HIDE DEF f1
    <3> QED
      BY <1>3, <1>4, <2>1, <3>1, <3>2, <3>3
  <2>3. q % P0 = q
    BY <1>3, <2>1, <2>2
  <2> QED
    BY <2>1, <2>2, <2>3, <1>3 DEF q
<1> DEFINE p1 == n \div P1
           p2 == n \div P2
           p3 == n \div P3
<1>11. n = p1 * P1 + f4 /\ p1 = p2 * P1 + f3 /\ p2 = p3 * P1 + f2 /\ p3 = f1
  BY <1>7, <1>8, <1>9, <1>10
<1> HIDE DEF f1, f2, f3, f4, p1, p2, p3
<1>12. f1 % P0 = f1 /\ f2 % P1 = f2 /\ f3 % P1 = f3 /\ f4 % P1 = f4
  <2>1. \A x, y \in Nat : x \in 0..y-1 => x % y = x
    OBVIOUS
  <2>2. f1 \in Nat /\ f2 \in Nat /\ f3 \in Nat /\ f4 \in Nat
    BY <1>3, <1>7, <1>8, <1>9, <1>10
  <2> QED
    BY <1>3, <1>7, <1>8, <1>9, <1>10, <2>1, <2>2
<1>13. f1 * P3 + f2 * P2 + f3 * P1 + f4 = n
  <2>1. \A a, b, c, d, P \in Nat : ((a * P + b) * P + c) * P + d = a * (P * (P * P)) + b * (P * P) + c * P + d
    OBVIOUS
  <2>2. f1 \in Nat /\ f2 \in Nat /\ f3 \in Nat /\ f4 \in Nat
    BY <1>3, <1>7, <1>8, <1>9, <1>10
  <2>3. n = ((f1 * P1 + f2) * P1 + f3) * P1 + f4
    BY <1>11
  <2>4. ((f1 * P1 + f2) * P1 + f3) * P1 + f4 = f1 * (P1 * (P1 * P1)) + f2 * (P1 * P1) + f3 * P1 + f4
    BY <1>3, <2>1, <2>2
  <2> QED
    BY <1>2, <2>3, <2>4
<1> QED
  BY <1>5, <1>6, <1>12, <1>13

\* big.Int.Bytes: the bytes of a number, with no zero in front.
LEMMA BigBytesFacts ==
    \A n \in Nat : /\ BigBytes[n] \in Seq(0..ByteValues-1) /\ Number(BigBytes[n], ByteValues) = n
                   /\ n = 0 => BigBytes[n] = <<>>
                   /\ n # 0 => BigBytes[n] # <<>> /\ BigBytes[n][1] # 0
<1> DEFINE b == ByteValues
           V == Seq(0..b-1)
           take == [p \in V \X Nat |-> Append(p[1], p[2] % b)]
           prev == [n \in Nat |-> n \div b]
           first == [n \in Nat |-> <<>>]
<1>0. b \in Nat \ {0, 1}
  BY EncodingsAssumption
<1>1. \A n \in Nat : /\ (n % b) \in 0..b-1 /\ n \div b \in Nat /\ n = (n \div b) * b + (n % b)
                     /\ n # 0 => n \div b < n /\ n \div b \in 0..n-1
  BY <1>0, QuotientSmaller
<1>2. <<>> \in V /\ \A v \in V, d \in 0..b-1 : Append(v, d) \in V
  OBVIOUS
<1> HIDE DEF b
<1>3. take \in [V \X Nat -> V] /\ first \in [Nat -> V] /\ prev \in [Nat -> Nat]
  BY <1>1, <1>2
<1>4. \A n \in Nat : prev[n] = n \div b /\ first[n] = <<>>
  OBVIOUS
<1>5. \A v \in V, n \in Nat : take[<<v, n>>] = Append(v, n % b)
  OBVIOUS
<1>6. \A n \in Nat : n \notin {0} => prev[n] < n
  BY <1>1, <1>4
<1> HIDE DEF take, prev, first, V
<1>7. PICK t : Recursive(t, Nat, V, {0}, first, prev, take)
  BY <1>3, <1>6, RecursiveExists
<1>8. t \in [Nat -> V]
  BY <1>7 DEF Recursive
<1>9. ASSUME NEW n \in Nat PROVE t[n] = IF n = 0 THEN <<>> ELSE Append(t[n \div b], n % b)
  <2>1. CASE n = 0
    BY <1>4, <1>7, <2>1 DEF Recursive
  <2>2. CASE n # 0
    <3>1. t[n] = take[<<t[prev[n]], n>>]
      BY <1>7, <2>2 DEF Recursive
    <3>2. prev[n] = n \div b /\ n \div b \in Nat
      BY <1>1, <1>4
    <3>3. t[n \div b] \in V
      BY <1>8, <3>2
    <3>4. t[n] = Append(t[n \div b], n % b)
      BY <1>5, <3>1, <3>2, <3>3
    <3> QED
      BY <2>2, <3>4
  <2> QED
    BY <2>1, <2>2
<1>10. t = [n \in Nat |-> IF n = 0 THEN <<>> ELSE Append(t[n \div b], n % b)]
  BY <1>8, <1>9
<1> DEFINE bytes == BigBytes
<1>11. bytes = [n \in Nat |-> IF n = 0 THEN <<>> ELSE Append(bytes[n \div b], n % b)]
  BY <1>10 DEF BigBytes, b
<1> HIDE DEF bytes
<1>12. ASSUME NEW n \in Nat
       PROVE  (n = 0 => bytes[n] = <<>>) /\ (n # 0 => bytes[n] = Append(bytes[n \div b], n % b))
  <2>1. bytes[n] = IF n = 0 THEN <<>> ELSE Append(bytes[n \div b], n % b)
    BY <1>11
  <2> QED
    BY <2>1
<1> DEFINE Good(n) == /\ bytes[n] \in Seq(0..b-1) /\ Number(bytes[n], b) = n
                      /\ n = 0 => bytes[n] = <<>>
                      /\ n # 0 => bytes[n] # <<>> /\ bytes[n][1] # 0
           T == {n \in Nat : Good(n)}
<1>13. ASSUME NEW n \in Nat, \A m \in 0..n-1 : m \in T PROVE n \in T
  <2>1. CASE n = 0
    <3>1. bytes[n] = <<>> /\ <<>> \in Seq(0..b-1)
      BY <1>12, <2>1
    <3>2. Number(<<>>, b) = 0
      BY <1>0, NumberAppend
    <3>3. Good(n)
      BY <2>1, <3>1, <3>2
    <3> HIDE DEF Good
    <3> QED
      BY <3>3
  <2>2. CASE n # 0
    <3> DEFINE q == n \div b
               d == n % b
               s == bytes[q]
    <3>1. q \in 0..n-1 /\ q \in Nat /\ d \in 0..b-1 /\ n = q * b + d
      BY <1>1, <2>2
    <3>2. bytes[n] = Append(s, d)
      BY <1>12, <2>2
    <3>3. q \in T
      BY <1>13, <3>1
    <3> HIDE DEF q, d
    <3>4. s \in Seq(0..b-1) /\ Number(s, b) = q /\ (q = 0 => s = <<>>) /\ (q # 0 => s # <<>> /\ s[1] # 0)
      BY <3>3
    <3> HIDE DEF s
    <3>5. s \in Seq(Nat) /\ d \in Nat
      <4>1. \A x \in Seq(0..b-1) : x \in Seq(Nat)
        BY <1>0
      <4> QED
        BY <1>0, <3>1, <3>4, <4>1
    <3>6. Number(Append(s, d), b) = q * b + d
      BY <1>0, <3>4, <3>5, NumberAppend
    <3>7. Append(s, d) \in Seq(0..b-1) /\ Append(s, d) # <<>>
      <4>1. \A D, x, y : x \in Seq(D) /\ y \in D => Append(x, y) \in Seq(D) /\ Append(x, y) # <<>>
        BY AppendProperties
      <4> QED
        BY <3>1, <3>4, <4>1
    <3>8. Append(s, d)[1] # 0
      <4>1. CASE q = 0
        <5>1. Append(s, d) = <<d>> /\ <<d>>[1] = d
          BY <3>4, <4>1
        <5>2. d # 0
          BY <1>0, <2>2, <3>1, <4>1
        <5> QED
          BY <5>1, <5>2
      <4>2. CASE q # 0
        <5>1. \A x \in Seq(Nat) : x # <<>> => Append(x, d)[1] = x[1]
          BY <3>5
        <5> QED
          BY <3>4, <3>5, <4>2, <5>1
      <4> QED
        BY <4>1, <4>2
    <3>9. Good(n)
      BY <2>2, <3>1, <3>2, <3>6, <3>7, <3>8
    <3> HIDE DEF Good
    <3> QED
      BY <3>9
  <2> QED
    BY <2>1, <2>2
<1> HIDE DEF T
<1>14. Nat \subseteq T
  BY <1>13, StrongInductionSet
<1>15. \A n \in Nat : Good(n)
  BY <1>14 DEF T
<1> QED
  BY <1>15 DEF b, bytes

\* Zeros in front: they change no number, and Zeros takes just them off.
ZerosOnly(z) == z \in Seq(Nat) /\ \A i \in 1..Len(z) : z[i] = 0
NoZeroFirst(t) == t \in Seq(Nat) /\ (t # <<>> => t[1] # 0)

\* What both say of a slice with zeros in front (base58.Encode and Decode count them).
LEMMA ZerosInFront ==
    ASSUME NEW z, NEW t, ZerosOnly(z), NoZeroFirst(t)
    PROVE  /\ Zeros(z \o t) = z
           /\ \A b \in Nat \ {0} : Number(z \o t, b) = Number(t, b)
<1> DEFINE k == Len(z)
           s == z \o t
           S == {n \in 0..Len(s) : \A i \in 1..n : s[i] = 0}
<1>1. k \in Nat /\ z \in Seq(Nat) /\ (\A i \in 1..k : z[i] = 0) /\ t \in Seq(Nat)
  BY DEF ZerosOnly, NoZeroFirst
<1>2. s \in Seq(Nat) /\ Len(s) = k + Len(t) /\ \A i \in 1..k : s[i] = z[i]
  BY <1>1
<1>3. t # <<>> => s[k + 1] # 0
  <2>1. ASSUME t # <<>> PROVE s[k + 1] = t[1]
    BY <1>1, <2>1
  <2> QED
    BY <2>1 DEF NoZeroFirst
<1>4. t = <<>> => Len(s) = k
  BY <1>2
<1> HIDE DEF k, s
<1>5. Len(s) \in Nat /\ k <= Len(s)
  BY <1>1, <1>2
<1>6. k \in S /\ \A n \in S : k >= n
  <2>1. k \in S
    <3>1. \A i \in 1..k : s[i] = 0
      BY <1>1, <1>2
    <3> QED
      BY <1>1, <1>5, <3>1
  <2>2. ASSUME NEW n \in S, n > k PROVE FALSE
    <3>1. k + 1 \in 1..n /\ n \in 0..Len(s)
      BY <1>1, <1>5, <2>2
    <3>2. s[k + 1] = 0
      BY <2>2, <3>1
    <3>3. t # <<>>
      BY <1>1, <1>4, <1>5, <2>2, <3>1
    <3> QED
      BY <1>3, <3>2, <3>3
  <2>3. \A n \in S : n \in Nat
    BY <1>5
  <2> QED
    BY <1>1, <2>1, <2>2, <2>3
<1>7. S \subseteq Nat
  BY <1>5
<1> DEFINE m == CHOOSE x \in S : \A y \in S : x >= y
<1>8. Zeros(s) = SubSeq(s, 1, m)
  BY DEF Zeros, Max
<1> HIDE DEF S
<1>9. m \in S /\ \A y \in S : m >= y
  BY <1>6
<1> HIDE DEF m
<1>10. m = k
  <2>1. m \in Nat /\ m >= k /\ k >= m
    BY <1>6, <1>7, <1>9
  <2> QED
    BY <1>1, <2>1
<1>11. SubSeq(s, 1, k) = z
  <2> DEFINE u == SubSeq(s, 1, k)
  <2>1. u \in Seq(Nat) /\ Len(u) = k /\ \A i \in 1..k : u[i] = s[i]
    BY <1>1, <1>2, <1>5
  <2> HIDE DEF u
  <2>2. Len(u) = Len(z) /\ \A i \in 1..Len(u) : u[i] = z[i]
    BY <1>2, <2>1 DEF k
  <2>3. u = z
    BY <1>1, <2>1, <2>2, SeqEqual
  <2> QED
    BY <2>3 DEF u
<1>12. ASSUME NEW b \in Nat \ {0} PROVE Number(s, b) = Number(t, b)
  <2>1. NumberSteps([i \in 0..k |-> 0], z, b)
    BY <1>1 DEF NumberSteps, k
  <2>2. Number(z, b) = [i \in 0..k |-> 0][Len(z)]
    BY <1>1, <2>1, NumberUnique
  <2>3. Number(z, b) = 0
    BY <1>1, <2>2 DEF k
  <2>4. Number(z \o t, b) = Number(z, b) * Power(b)[Len(t)] + Number(t, b)
    BY <1>1, NumberConcat
  <2>5. Power(b)[Len(t)] \in Nat /\ Number(t, b) \in Nat
    <3>1. Len(t) \in Nat
      BY <1>1
    <3>2. Number(t, b) \in Nat
      BY <1>1, NumberNat
    <3> QED
      BY <3>1, <3>2, PowerNat
  <2>6. 0 * Power(b)[Len(t)] + Number(t, b) = Number(t, b)
    BY <2>5
  <2> QED
    BY <2>3, <2>4, <2>6 DEF s
<1> QED
  BY <1>8, <1>10, <1>11, <1>12 DEF s

\* One block of Encode: as many turns as the part has digits, all of them when more follow.
BlockIs(block, p, more, t) ==
    /\ t \in 0..BlockDigits /\ (more => t = BlockDigits)
    /\ block \in Seq(0..Alphabet-1) /\ Len(block) = t
    /\ Reverse(block) \in Seq(0..Alphabet-1)
    /\ Number(Reverse(block), Alphabet) = p
    /\ ~more /\ p # 0 => t # 0 /\ block[t] # 0

\* The inner loop of Encode leaves such a block.
LEMMA EncodeBlockIs ==
    ASSUME NEW p \in Nat, p < Power(Alphabet)[BlockDigits], NEW more
    PROVE  \E t : BlockIs(EncodeBlock(p, more), p, more, t)
<1> DEFINE A == Alphabet
           D == BlockDigits
           left(i) == p \div Power(A)[i]
           Ends(n) == /\ \A i \in 0..n - 1 : more \/ left(i) > 0
                      /\ n < D => ~more /\ left(n) = 0
           turns == CHOOSE n \in 0..D : Ends(n)
           block == [i \in 1..turns |-> left(i - 1) % A]
<1>0. A \in Nat \ {0, 1} /\ D \in Nat \ {0}
  BY EncodingsAssumption
<1>1. EncodeBlock(p, more) = block
  BY DEF EncodeBlock
<1>2. \A k \in Nat : Power(A)[k] \in Nat \ {0} /\ Power(A)[k + 1] = A * Power(A)[k]
  BY <1>0, PowerFacts
<1>3. Power(A)[0] = 1 /\ p < Power(A)[D]
  BY <1>0, PowerFacts
<1> HIDE DEF A, D
<1>4. \A k \in Nat : left(k) \in Nat
  <2>1. \A w \in Nat \ {0} : p \div w \in Nat
    OBVIOUS
  <2> QED
    BY <1>2, <2>1
<1>5. left(0) = p
  BY <1>3
<1>6. left(D) = 0
  <2>1. Power(A)[D] \in Nat \ {0}
    BY <1>0, <1>2
  <2>2. \A w \in Nat \ {0} : p < w => p \div w = 0
    OBVIOUS
  <2> QED
    BY <1>3, <2>1, <2>2
<1>7. \A k \in Nat : left(k) = left(k + 1) * A + (left(k) % A)
  <2> SUFFICES ASSUME NEW k \in Nat PROVE left(k) = left(k + 1) * A + (left(k) % A)
    OBVIOUS
  <2> DEFINE w == Power(A)[k]
  <2>1. w \in Nat \ {0} /\ left(k) = p \div w /\ left(k + 1) = p \div (A * w)
    BY <1>2
  <2> HIDE DEF w
  <2>2. p \div w = (p \div (A * w)) * A + ((p \div w) % A)
    BY <1>0, <2>1, DigitStep
  <2> HIDE DEF left
  <2> QED
    BY <2>1, <2>2
<1>8. \A k \in Nat : left(k) = 0 => p < Power(A)[k]
  <2>1. \A w \in Nat \ {0} : p \div w = 0 => p < w
    OBVIOUS
  <2> QED
    BY <1>2, <2>1
<1>9. \A k \in Nat : (left(k) % A) \in 0..A-1
  <2>1. \A x \in Nat : (x % A) \in 0..A-1
    BY <1>0
  <2> HIDE DEF left
  <2> QED
    BY <1>4, <2>1
<1>10. \E n \in 0..D : Ends(n)
  <2> DEFINE T == {n \in 0..D : n = D \/ (~more /\ left(n) = 0)}
  <2> HIDE DEF left
  <2>1. D \in T /\ T \subseteq Nat
    BY <1>0
  <2>2. PICK n \in T : \A m \in T : n <= m
    <3> HIDE DEF T
    <3> QED
      BY <2>1, LeastNatural
  <2>3. n \in 0..D /\ (n < D => ~more /\ left(n) = 0)
    BY <1>0, <2>2
  <2>4. ASSUME NEW i \in 0..n - 1, ~more PROVE left(i) > 0
    <3>1. i \notin T /\ i \in 0..D /\ i # D /\ i \in Nat
      BY <1>0, <2>2, <2>3
    <3>2. left(i) # 0 /\ left(i) \in Nat
      BY <1>4, <2>4, <3>1
    <3> QED
      BY <3>2
  <2> QED
    BY <2>3, <2>4
<1> HIDE DEF left
<1>11. turns \in 0..D /\ Ends(turns)
  <2> HIDE DEF Ends
  <2> QED
    BY <1>10
<1> DEFINE t == turns
<1>12. t \in 0..D /\ t \in Nat /\ (more => t = D) /\ (t < D => left(t) = 0)
       /\ (~more => \A i \in 0..t - 1 : left(i) > 0)
  BY <1>0, <1>11
<1> HIDE DEF Ends, turns
<1>13. block \in Seq(0..A-1) /\ Len(block) = t /\ \A i \in 1..t : block[i] = left(i - 1) % A
  <2>1. \A i \in 1..t : (left(i - 1) % A) \in 0..A-1
    BY <1>9, <1>12
  <2> QED
    BY <1>12, <2>1
<1> HIDE DEF block
<1>14. p < Power(A)[t]
  <2>1. CASE t = D
    BY <1>3, <2>1
  <2>2. CASE t # D
    <3>1. left(t) = 0
      BY <1>0, <1>12, <2>2
    <3> QED
      BY <1>8, <1>12, <3>1
  <2> QED
    BY <2>1, <2>2
<1>15. Reverse(block) = FixedDigits(p, A, t)
  <2>1. Reverse(block) = [i \in 1..t |-> block[(t - i) + 1]]
    BY <1>13 DEF Reverse
  <2>2. ASSUME NEW i \in 1..t PROVE block[(t - i) + 1] = (p \div Power(A)[t - i]) % A
    <3>1. (t - i) + 1 \in 1..t /\ ((t - i) + 1) - 1 = t - i
      BY <1>12
    <3> QED
      BY <1>13, <3>1 DEF left
  <2>3. FixedDigits(p, A, t) = [i \in 1..t |-> (p \div Power(A)[t - i]) % A]
    BY DEF FixedDigits
  <2> QED
    BY <2>1, <2>2, <2>3
<1>16. Reverse(block) \in Seq(0..A-1) /\ Number(Reverse(block), A) = p
  <2>1. A \in Nat \ {0}
    BY <1>0
  <2> QED
    BY <1>12, <1>14, <1>15, <2>1, FixedDigitsNumber
<1>17. ASSUME ~more, p # 0 PROVE t # 0 /\ block[t] # 0
  <2>1. t # 0
    <3>1. CASE t < D
      BY <1>5, <1>12, <1>17, <3>1
    <3>2. CASE ~(t < D)
      BY <1>0, <1>12, <3>2
    <3> QED
      BY <3>1, <3>2
  <2>2. left(t) = 0
    <3>1. t < D \/ t = D
      BY <1>0, <1>12
    <3> QED
      BY <1>6, <1>12, <3>1
  <2>3. t - 1 \in Nat /\ t - 1 \in 0..t - 1 /\ (t - 1) + 1 = t /\ t \in 1..t
    BY <1>12, <2>1
  <2>4. left(t - 1) = left((t - 1) + 1) * A + (left(t - 1) % A)
    BY <1>7, <2>3
  <2>5. left(t - 1) > 0
    BY <1>12, <1>17, <2>3
  <2>6. block[t] = left(t - 1) % A
    BY <1>13, <2>3
  <2> DEFINE x == left(t - 1)
             r == left(t - 1) % A
  <2>7. x = 0 * A + r /\ x > 0 /\ r \in 0..A-1 /\ block[t] = r
    BY <1>9, <2>2, <2>3, <2>4, <2>5, <2>6
  <2> HIDE DEF x, r
  <2>8. r # 0
    BY <1>0, <2>7
  <2> QED
    BY <2>1, <2>7, <2>8
<1>18. BlockIs(block, p, more, t)
  BY <1>12, <1>13, <1>16, <1>17 DEF BlockIs, A, D
<1> QED
  BY <1>1, <1>18

\* Two texts reversed: the second comes first.
LEMMA ReversedConcat ==
    ASSUME NEW S, NEW s \in Seq(S), NEW t \in Seq(S)
    PROVE  Reverse(s \o t) = Reverse(t) \o Reverse(s)
<1> DEFINE l == Len(s)
           m == Len(t)
           u == s \o t
           a == Reverse(s)
           c == Reverse(t)
           d == Reverse(u)
           v == c \o a
<1>1. l \in Nat /\ m \in Nat /\ u \in Seq(S) /\ Len(u) = l + m
  OBVIOUS
<1>2. (\A i \in 1..l : u[i] = s[i]) /\ \A i \in 1..m : u[l + i] = t[i]
  OBVIOUS
<1>3. /\ a \in Seq(S) /\ Len(a) = l /\ \A i \in 1..l : a[i] = s[(l - i) + 1]
      /\ c \in Seq(S) /\ Len(c) = m /\ \A i \in 1..m : c[i] = t[(m - i) + 1]
  BY ReversedTyped
<1>4. d \in Seq(S) /\ Len(d) = l + m /\ \A i \in 1..l + m : d[i] = u[((l + m) - i) + 1]
  <2>1. d \in Seq(S) /\ Len(d) = Len(u) /\ \A i \in 1..Len(u) : d[i] = u[(Len(u) - i) + 1]
    BY <1>1, ReversedTyped
  <2> QED
    BY <1>1, <2>1
<1> HIDE DEF a, c, d, u, l, m
<1>5. v \in Seq(S) /\ Len(v) = m + l
  <2>1. a \in Seq(S) /\ Len(a) = l /\ c \in Seq(S) /\ Len(c) = m
    BY <1>3
  <2>2. v \in Seq(S) /\ Len(v) = Len(c) + Len(a)
    BY <2>1, ConcatProperties
  <2> QED
    BY <2>1, <2>2
<1>6. (\A i \in 1..m : v[i] = c[i]) /\ \A i \in 1..l : v[m + i] = a[i]
  <2>1. a \in Seq(S) /\ Len(a) = l /\ c \in Seq(S) /\ Len(c) = m
    BY <1>3
  <2>2. \A i \in 1..Len(c) + Len(a) : v[i] = IF i <= Len(c) THEN c[i] ELSE a[i - Len(c)]
    BY <2>1, ConcatProperties
  <2>3. \A i \in 1..m + l : v[i] = IF i <= m THEN c[i] ELSE a[i - m]
    BY <2>1, <2>2
  <2> HIDE DEF v
  <2>4. \A i \in 1..m : i \in 1..m + l /\ i <= m
    BY <1>1
  <2>5. \A i \in 1..l : m + i \in 1..m + l /\ ~(m + i <= m) /\ (m + i) - m = i
    BY <1>1
  <2> QED
    BY <2>3, <2>4, <2>5
<1> HIDE DEF v
<1>7. ASSUME NEW i \in 1..Len(d) PROVE d[i] = v[i]
  <2>1. CASE i \in 1..m
    <3>1. (m - i) + 1 \in 1..m /\ ((l + m) - i) + 1 = l + ((m - i) + 1) /\ i \in 1..l + m
      BY <1>1, <2>1
    <3>2. u[l + ((m - i) + 1)] = t[(m - i) + 1]
      BY <1>2, <3>1
    <3> QED
      BY <1>3, <1>4, <1>6, <2>1, <3>1, <3>2
  <2>2. CASE i \notin 1..m
    <3> DEFINE j == i - m
    <3>1. j \in 1..l /\ m + j = i /\ ((l + m) - i) + 1 = (l - j) + 1 /\ (l - j) + 1 \in 1..l /\ i \in 1..l + m
      BY <1>1, <1>4, <2>2
    <3> HIDE DEF j
    <3>2. v[i] = a[j] /\ a[j] = s[(l - j) + 1]
      BY <1>3, <1>6, <3>1
    <3>3. d[i] = u[(l - j) + 1] /\ u[(l - j) + 1] = s[(l - j) + 1]
      BY <1>2, <1>4, <3>1
    <3> QED
      BY <3>2, <3>3
  <2> QED
    BY <2>1, <2>2
<1>8. Len(d) = Len(v)
  BY <1>1, <1>4, <1>5
<1>9. d = v
  BY <1>4, <1>5, <1>7, <1>8, SeqEqual
<1> QED
  BY <1>9 DEF a, c, d, u, v

\* A block holds more than one number.
LEMMA IntermediateRadix ==
    /\ Alphabet \in Nat \ {0, 1} /\ BlockDigits \in Nat \ {0}
    /\ intermediateRadix = Power(Alphabet)[BlockDigits] /\ intermediateRadix \in Nat \ {0, 1}
<1>1. Alphabet \in Nat \ {0, 1} /\ BlockDigits \in Nat \ {0}
  BY EncodingsAssumption
<1>2. BlockDigits - 1 \in Nat /\ (BlockDigits - 1) + 1 = BlockDigits
  BY <1>1
<1> DEFINE w == Power(Alphabet)[BlockDigits - 1]
<1>3. w \in Nat \ {0} /\ Power(Alphabet)[(BlockDigits - 1) + 1] = Alphabet * w
  BY <1>1, <1>2, PowerNat
<1> HIDE DEF w
<1>4. Alphabet * w \in Nat \ {0, 1}
  <2>1. Alphabet * w >= 2 * w
    BY <1>1, <1>3
  <2> QED
    BY <1>1, <1>3, <2>1
<1> QED
  BY <1>1, <1>2, <1>3, <1>4 DEF intermediateRadix

\* The digits of base 58, the last first: no zero comes last.
EncodedIs(e, n) ==
    /\ e \in Seq(0..Alphabet-1) /\ Number(Reverse(e), Alphabet) = n
    /\ n = 0 => e = <<>>
    /\ n # 0 => Len(e) # 0 /\ e[Len(e)] # 0

\* A block before the digits of the rest.
LEMMA BlockBefore ==
    ASSUME NEW n \in Nat, n # 0, NEW p \in Nat, NEW higher \in Nat, NEW e, NEW block, NEW t,
           p < intermediateRadix, n = higher * intermediateRadix + p,
           EncodedIs(e, higher), BlockIs(block, p, higher > 0, t)
    PROVE  EncodedIs(block \o e, n)
<1> DEFINE A == Alphabet
           R == intermediateRadix
<1>0. A \in Nat \ {0} /\ BlockDigits \in Nat /\ R = Power(A)[BlockDigits] /\ R \in Nat
  BY IntermediateRadix
<1>1. /\ t \in Nat /\ (higher > 0 => t = BlockDigits)
      /\ block \in Seq(0..A-1) /\ Len(block) = t /\ Reverse(block) \in Seq(0..A-1)
      /\ Number(Reverse(block), A) = p
  BY <1>0 DEF BlockIs
<1>2. ~(higher > 0) /\ p # 0 => t # 0 /\ block[t] # 0
  BY DEF BlockIs
<1>3. e \in Seq(0..A-1) /\ Number(Reverse(e), A) = higher
  BY DEF EncodedIs
<1>4. (higher = 0 => e = <<>>) /\ (higher # 0 => Len(e) # 0 /\ e[Len(e)] # 0)
  BY DEF EncodedIs
<1>5. n = higher * R + p
  OBVIOUS
<1> HIDE DEF A, R
<1>6. block \o e \in Seq(0..A-1)
  BY <1>1, <1>3
<1>7. Reverse(block \o e) = Reverse(e) \o Reverse(block) /\ Reverse(e) \in Seq(0..A-1) /\ Len(Reverse(block)) = t
  <2>1. Len(Reverse(block)) = Len(block)
    BY <1>1, ReversedTyped
  <2>2. Reverse(e) \in Seq(0..A-1)
    BY <1>3, ReversedTyped
  <2> QED
    BY <1>1, <1>3, <2>1, <2>2, ReversedConcat
<1>8. Reverse(e) \in Seq(Nat) /\ Reverse(block) \in Seq(Nat)
  <2>1. \A x \in Seq(0..A-1) : x \in Seq(Nat)
    BY <1>0
  <2> QED
    BY <1>1, <1>7, <2>1
<1>9. Number(Reverse(e) \o Reverse(block), A) = higher * Power(A)[t] + p
  <2>1. Number(Reverse(e) \o Reverse(block), A) = Number(Reverse(e), A) * Power(A)[Len(Reverse(block))] + Number(Reverse(block), A)
    BY <1>0, <1>8, NumberConcat
  <2> QED
    BY <1>1, <1>3, <1>7, <2>1
<1>10. higher * Power(A)[t] + p = n
  <2>1. Power(A)[t] \in Nat
    BY <1>0, <1>1, PowerNat
  <2>2. CASE higher > 0
    BY <1>0, <1>1, <1>5, <2>2
  <2>3. CASE higher = 0
    BY <1>0, <1>5, <2>1, <2>3
  <2> QED
    BY <2>2, <2>3
<1>11. Len(block \o e) # 0 /\ (block \o e)[Len(block \o e)] # 0
  <2>1. Len(block \o e) = t + Len(e) /\ Len(e) \in Nat
    BY <1>1, <1>3
  <2>2. CASE higher = 0
    <3>1. e = <<>> /\ p # 0
      BY <1>0, <1>4, <1>5, <2>2
    <3>2. t # 0 /\ block[t] # 0
      BY <1>2, <2>2, <3>1
    <3>3. block \o e = block
      BY <1>1, <3>1
    <3> QED
      BY <1>1, <3>2, <3>3
  <2>3. CASE higher # 0
    <3>1. Len(e) # 0 /\ e[Len(e)] # 0
      BY <1>4, <2>3
    <3>2. (block \o e)[t + Len(e)] = e[Len(e)]
      BY <1>1, <1>3, <2>1, <3>1
    <3> QED
      BY <1>1, <2>1, <3>1, <3>2
  <2> QED
    BY <2>2, <2>3
<1>12. Number(Reverse(block \o e), A) = n
  BY <1>7, <1>9, <1>10
<1> QED
  BY <1>6, <1>11, <1>12 DEF EncodedIs, A

\* The outer loop of Encode.
LEMMA EncodeNumberIs == \A n \in Nat : EncodedIs(EncodeNumber[n], n)
<1> DEFINE R == intermediateRadix
           V == Seq(0..Alphabet-1)
           Block(n) == EncodeBlock(n % R, n \div R > 0)
           take == [q \in V \X Nat |-> Block(q[2]) \o q[1]]
           prev == [n \in Nat |-> n \div R]
           first == [n \in Nat |-> <<>>]
<1>0. R \in Nat \ {0, 1} /\ R = Power(Alphabet)[BlockDigits] /\ Alphabet \in Nat \ {0}
  BY IntermediateRadix
<1>1. \A n \in Nat : /\ (n % R) \in 0..R-1 /\ n \div R \in Nat /\ n = (n \div R) * R + (n % R)
                     /\ n # 0 => n \div R < n /\ n \div R \in 0..n-1
  BY <1>0, QuotientSmaller
<1>2. \A n \in Nat : \E t : BlockIs(Block(n), n % R, n \div R > 0, t)
  <2>1. \A p \in Nat : p < Power(Alphabet)[BlockDigits] =>
            \A more : \E t : BlockIs(EncodeBlock(p, more), p, more, t)
    BY EncodeBlockIs
  <2>1a. \A x \in 0..R-1 : x \in Nat /\ x < R
    BY <1>0
  <2>2. \A n \in Nat : (n % R) \in Nat /\ (n % R) < R
    <3> HIDE DEF R
    <3> QED
      BY <1>1, <2>1a
  <2> HIDE DEF R
  <2> QED
    BY <1>0, <2>1, <2>2
<1>3. \A n \in Nat : Block(n) \in V
  BY <1>2 DEF BlockIs
<1>4. <<>> \in V /\ \A v, w \in V : v \o w \in V
  OBVIOUS
<1> HIDE DEF R, V, Block
<1>5. take \in [V \X Nat -> V] /\ first \in [Nat -> V] /\ prev \in [Nat -> Nat]
  BY <1>1, <1>3, <1>4
<1>6. \A n \in Nat : prev[n] = n \div R /\ first[n] = <<>>
  OBVIOUS
<1>7. \A v \in V, n \in Nat : take[<<v, n>>] = Block(n) \o v
  OBVIOUS
<1>8. \A n \in Nat : n \notin {0} => prev[n] < n
  BY <1>1, <1>6
<1> HIDE DEF take, prev, first
<1>9. PICK t : Recursive(t, Nat, V, {0}, first, prev, take)
  BY <1>5, <1>8, RecursiveExists
<1>10. t \in [Nat -> V]
  BY <1>9 DEF Recursive
<1>11. ASSUME NEW n \in Nat PROVE t[n] = IF n = 0 THEN <<>> ELSE Block(n) \o t[n \div R]
  <2>1. CASE n = 0
    BY <1>6, <1>9, <2>1 DEF Recursive
  <2>2. CASE n # 0
    <3>1. t[n] = take[<<t[prev[n]], n>>]
      BY <1>9, <2>2 DEF Recursive
    <3>2. prev[n] = n \div R /\ n \div R \in Nat
      BY <1>1, <1>6
    <3>3. t[n \div R] \in V
      BY <1>10, <3>2
    <3>4. t[n] = Block(n) \o t[n \div R]
      BY <1>7, <3>1, <3>2, <3>3
    <3> QED
      BY <2>2, <3>4
  <2> QED
    BY <2>1, <2>2
<1>12. t = [n \in Nat |-> IF n = 0 THEN <<>> ELSE Block(n) \o t[n \div R]]
  BY <1>10, <1>11
<1> DEFINE e == EncodeNumber
<1>13. e = [n \in Nat |-> IF n = 0 THEN <<>> ELSE Block(n) \o e[n \div R]]
  <2>1. e = CHOOSE f : f = [n \in Nat |-> IF n = 0 THEN <<>> ELSE Block(n) \o f[n \div R]]
    BY DEF EncodeNumber, Block, R
  <2> HIDE DEF e
  <2> QED
    BY <1>12, <2>1
<1> HIDE DEF e
<1>14. ASSUME NEW n \in Nat
       PROVE  (n = 0 => e[n] = <<>>) /\ (n # 0 => e[n] = Block(n) \o e[n \div R])
  <2>1. e[n] = IF n = 0 THEN <<>> ELSE Block(n) \o e[n \div R]
    BY <1>13
  <2> QED
    BY <2>1
<1> DEFINE T == {n \in Nat : EncodedIs(e[n], n)}
<1>15. ASSUME NEW n \in Nat, \A m \in 0..n-1 : m \in T PROVE n \in T
  <2>1. CASE n = 0
    <3>1. e[n] = <<>> /\ <<>> \in Seq(0..Alphabet-1) /\ Reverse(<<>>) = <<>>
      <4>1. Len(<<>>) = 0 /\ <<>> \in Seq(0..Alphabet-1)
        OBVIOUS
      <4>2. Reverse(<<>>) \in Seq(0..Alphabet-1) /\ Len(Reverse(<<>>)) = 0
        BY <4>1, ReversedTyped
      <4> QED
        BY <1>14, <2>1, <4>1, <4>2
    <3>2. Number(<<>>, Alphabet) = 0
      BY <1>0, NumberAppend
    <3>3. EncodedIs(e[n], n)
      BY <2>1, <3>1, <3>2 DEF EncodedIs
    <3> QED
      BY <3>3
  <2>2. CASE n # 0
    <3> DEFINE higher == n \div R
               p == n % R
    <3>1. higher \in 0..n-1 /\ higher \in Nat /\ p \in 0..R-1 /\ n = higher * R + p
      BY <1>1, <2>2
    <3>2. PICK u : BlockIs(Block(n), p, higher > 0, u)
      BY <1>2
    <3>3. e[n] = Block(n) \o e[higher]
      BY <1>14, <2>2
    <3>4. EncodedIs(e[higher], higher)
      BY <1>15, <3>1
    <3> HIDE DEF higher, p
    <3>5. p \in Nat /\ p < intermediateRadix /\ n = higher * intermediateRadix + p
      BY <1>0, <3>1 DEF R
    <3>6. EncodedIs(Block(n) \o e[higher], n)
      BY <2>2, <3>1, <3>2, <3>4, <3>5, BlockBefore
    <3> QED
      BY <3>3, <3>6
  <2> QED
    BY <2>1, <2>2
<1> HIDE DEF T
<1>16. Nat \subseteq T
  BY <1>15, StrongInductionSet
<1> QED
  BY <1>16 DEF T, e

\* A text up to a place, and from there on.
LEMMA NumberCut ==
    ASSUME NEW s \in Seq(Nat), NEW b \in Nat \ {0}, NEW i \in 0..Len(s), NEW k \in 0..i
    PROVE  Number(SubSeq(s, 1, i), b) =
               Number(SubSeq(s, 1, k), b) * Power(b)[i - k] + Number(SubSeq(s, k + 1, i), b)
<1> DEFINE u == SubSeq(s, 1, i)
           v == SubSeq(s, 1, k)
           w == SubSeq(s, k + 1, i)
<1>1. i \in Nat /\ k \in Nat /\ k <= i /\ i <= Len(s)
  OBVIOUS
<1>2. u \in Seq(Nat) /\ Len(u) = i /\ \A j \in 1..i : u[j] = s[j]
  BY <1>1
<1>3. v \in Seq(Nat) /\ Len(v) = k /\ \A j \in 1..k : v[j] = s[j]
  BY <1>1
<1>4. w \in Seq(Nat) /\ Len(w) = i - k /\ \A j \in 1..i - k : w[j] = s[k + j]
  <2>1. w \in Seq(Nat)
    BY <1>1
  <2>2. Len(w) = i - k
    BY <1>1
  <2>3. ASSUME NEW j \in 1..i - k PROVE w[j] = s[k + j]
    <3>1. j \in 1..Len(w) /\ (k + 1) + j - 1 = k + j
      BY <1>1, <2>2
    <3> QED
      BY <1>1, <2>2, <3>1
  <2> QED
    BY <2>1, <2>2, <2>3
<1> HIDE DEF u, v, w
<1> DEFINE c == v \o w
<1> DEFINE m == Len(w)
<1>4a. m \in Nat /\ i = k + m /\ m = i - k
  BY <1>1, <1>4
<1>4b. c \in Seq(Nat) /\ Len(c) = k + m /\ (\A j \in 1..k : c[j] = v[j]) /\ \A j \in 1..m : c[k + j] = w[j]
  <2>1. v \in Seq(Nat) /\ Len(v) = k /\ w \in Seq(Nat)
    BY <1>3, <1>4
  <2>2. /\ c \in Seq(Nat) /\ Len(c) = Len(v) + Len(w)
        /\ \A j \in 1..Len(v) + Len(w) : c[j] = IF j <= Len(v) THEN v[j] ELSE w[j - Len(v)]
    BY <2>1, ConcatProperties
  <2> HIDE DEF c
  <2>3. Len(v) = k /\ Len(w) = m
    BY <2>1
  <2> HIDE DEF m
  <2>4. ASSUME NEW j \in 1..k PROVE c[j] = v[j]
    <3>1. j \in 1..k + m /\ j <= k
      BY <1>1, <1>4a
    <3> QED
      BY <2>2, <2>3, <3>1
  <2>5. ASSUME NEW j \in 1..m PROVE c[k + j] = w[j]
    <3>1. k + j \in 1..k + m /\ ~(k + j <= k) /\ (k + j) - k = j
      BY <1>1, <1>4a
    <3> QED
      BY <2>2, <2>3, <3>1
  <2> QED
    BY <2>2, <2>3, <2>4, <2>5
<1> HIDE DEF c, m
<1>5. c \in Seq(Nat) /\ Len(c) = i /\ (\A j \in 1..k : c[j] = v[j]) /\ \A j \in 1..i - k : c[k + j] = w[j]
  BY <1>4a, <1>4b
<1>6. ASSUME NEW j \in 1..Len(c) PROVE c[j] = u[j]
  <2>1. CASE j \in 1..k
    BY <1>1, <1>2, <1>3, <1>5, <2>1
  <2>2. CASE j \notin 1..k
    <3>1. j - k \in 1..i - k /\ k + (j - k) = j /\ j \in 1..i
      BY <1>1, <1>5, <2>2
    <3>2. c[k + (j - k)] = w[j - k] /\ w[j - k] = s[k + (j - k)]
      BY <1>4, <1>5, <3>1
    <3> QED
      BY <1>2, <3>1, <3>2
  <2> QED
    BY <2>1, <2>2
<1>7. c = u
  BY <1>2, <1>5, <1>6, SeqEqual
<1>8. Number(v \o w, b) = Number(v, b) * Power(b)[Len(w)] + Number(w, b)
  BY <1>3, <1>4, NumberConcat
<1> QED
  BY <1>4, <1>7, <1>8 DEF c, u, v, w

\* Decode, block by block, reads the number that the digits stand for.
LEMMA DecodeNumberIs == \A text \in Seq(Nat) : DecodeNumber(text) = Number(text, Alphabet)
<1> SUFFICES ASSUME NEW text \in Seq(Nat) PROVE DecodeNumber(text) = Number(text, Alphabet)
  OBVIOUS
<1> DEFINE A == Alphabet
           D == BlockDigits
           L == Len(text)
           start(i) == D * ((i - 1) \div D)
           upTo(i) == Number(SubSeq(text, 1, i), A)
           part(k, i) == Number(SubSeq(text, k + 1, i), A)
           Step(f, i) == IF i = 0 THEN 0 ELSE f[start(i)] * Power(A)[i - start(i)] + part(start(i), i)
           result == CHOOSE f : f = [i \in 0..L |-> Step(f, i)]
           r == [i \in 0..L |-> upTo(i)]
<1>0. A \in Nat \ {0} /\ D \in Nat \ {0} /\ L \in Nat
  BY IntermediateRadix
<1>1. DecodeNumber(text) = result[L]
  BY DEF DecodeNumber
<1>2. \A i \in 1..L : start(i) \in 0..i - 1
  <2> SUFFICES ASSUME NEW i \in 1..L PROVE start(i) \in 0..i - 1
    OBVIOUS
  <2> DEFINE x == i - 1
             q == x \div D
  <2>1. x \in Nat /\ D \in Nat \ {0}
    BY <1>0
  <2> HIDE DEF x, D
  <2>2. q \in Nat /\ x = D * q + (x % D) /\ (x % D) \in 0..D-1
    BY <2>1
  <2> HIDE DEF q
  <2>3. D * q \in 0..x
    BY <2>1, <2>2
  <2> QED
    BY <2>3 DEF x, q
<1>3. \A i \in 0..L : \A k \in 0..i : upTo(i) = upTo(k) * Power(A)[i - k] + part(k, i)
  BY <1>0, NumberCut
<1>4. upTo(0) = 0
  <2>1. SubSeq(text, 1, 0) = <<>>
    OBVIOUS
  <2> QED
    BY <1>0, <2>1, NumberAppend
<1>5. upTo(L) = Number(text, A)
  <2>1. SubSeq(text, 1, Len(text)) = text
    BY SubSeqFull
  <2> QED
    BY <2>1
<1> HIDE DEF A, D, L, start, upTo, part
<1>6. ASSUME NEW i \in 0..L PROVE r[i] = Step(r, i)
  <2>1. CASE i = 0
    BY <1>4, <2>1
  <2>2. CASE i # 0
    <3>1. i \in 1..L
      BY <1>0, <2>2
    <3> DEFINE k == start(i)
    <3>2. k \in 0..i - 1
      BY <1>2, <3>1
    <3> HIDE DEF k
    <3>3. k \in 0..i /\ k \in 0..L
      BY <1>0, <3>1, <3>2
    <3>4. upTo(i) = upTo(k) * Power(A)[i - k] + part(k, i)
      BY <1>3, <3>3
    <3>5. r[k] = upTo(k) /\ r[i] = upTo(i)
      BY <3>3
    <3> HIDE DEF r
    <3> QED
      BY <2>2, <3>4, <3>5 DEF k
  <2> QED
    BY <2>1, <2>2
<1>7. r = [i \in 0..L |-> Step(r, i)]
  <2>1. r = [i \in 0..L |-> r[i]]
    OBVIOUS
  <2> HIDE DEF r, Step
  <2> QED
    BY <1>6, <2>1
<1>8. result = [i \in 0..L |-> Step(result, i)]
  <2> HIDE DEF r, Step
  <2> QED
    BY <1>7
<1> HIDE DEF result, r
<1> DEFINE T == {i \in Nat : i <= L => result[i] = upTo(i)}
<1>9. ASSUME NEW n \in Nat, \A m \in 0..n-1 : m \in T PROVE n \in T
  <2> SUFFICES ASSUME n <= L PROVE result[n] = upTo(n)
    OBVIOUS
  <2>1. n \in 0..L
    BY <1>0
  <2>2. result[n] = Step(result, n)
    <3> HIDE DEF Step, T
    <3> QED
      BY <1>8, <2>1
  <2>3. CASE n = 0
    BY <1>4, <2>2, <2>3
  <2>4. CASE n # 0
    <3>1. n \in 1..L
      BY <1>0, <2>4
    <3> DEFINE k == start(n)
    <3>2. k \in 0..n - 1
      BY <1>2, <3>1
    <3> HIDE DEF k
    <3>3. k \in 0..n /\ k \in T /\ k <= L
      BY <1>0, <1>9, <3>1, <3>2
    <3>4. result[k] = upTo(k)
      BY <3>3
    <3>5. upTo(n) = upTo(k) * Power(A)[n - k] + part(k, n)
      BY <1>3, <2>1, <3>3
    <3>6. result[n] = result[k] * Power(A)[n - k] + part(k, n)
      BY <2>2, <2>4 DEF k
    <3> QED
      BY <3>4, <3>5, <3>6
  <2> QED
    BY <2>3, <2>4
<1> HIDE DEF T
<1>10. Nat \subseteq T
  BY <1>9, StrongInductionSet
<1>11. result[L] = upTo(L)
  BY <1>0, <1>10 DEF T
<1> QED
  BY <1>1, <1>5, <1>11 DEF A

\* base58.Encode and Decode: a slice comes back, with the zeros in front.
LEMMA SliceComesBack ==
    ASSUME NEW n \in Nat, NEW z, ZerosOnly(z)
    PROVE  Decode(Encode(z \o BigBytes[n])) = z \o BigBytes[n]
<1> DEFINE t == BigBytes[n]
           e == EncodeNumber[n]
           c == Reverse(e)
<1>0. Alphabet \in Nat \ {0} /\ ByteValues \in Nat \ {0}
  BY EncodingsAssumption
<1>1. t \in Seq(0..ByteValues-1) /\ Number(t, ByteValues) = n /\ (t # <<>> => t[1] # 0)
  BY BigBytesFacts
<1>2. EncodedIs(e, n)
  BY EncodeNumberIs
<1>2a. BigBytes[n] = t /\ EncodeNumber[n] = e
  OBVIOUS
<1> HIDE DEF t, e
<1>3. e \in Seq(0..Alphabet-1) /\ Number(c, Alphabet) = n /\ (Len(e) # 0 => e[Len(e)] # 0)
  <2>1. n = 0 => Len(e) = 0
    <3>1. n = 0 => e = <<>>
      BY <1>2 DEF EncodedIs
    <3> QED
      BY <3>1
  <2> QED
    BY <1>2, <2>1 DEF EncodedIs
<1>4. c \in Seq(0..Alphabet-1) /\ Len(c) = Len(e) /\ \A i \in 1..Len(e) : c[i] = e[(Len(e) - i) + 1]
  BY <1>3, ReversedTyped
<1> HIDE DEF c
<1>5. c # <<>> => c[1] # 0
  <2> SUFFICES ASSUME c # <<>> PROVE c[1] # 0
    OBVIOUS
  <2>1. Len(e) \in Nat /\ Len(e) # 0
    BY <1>3, <1>4
  <2>2. 1 \in 1..Len(e) /\ (Len(e) - 1) + 1 = Len(e)
    BY <2>1
  <2>3. c[1] = e[Len(e)]
    BY <1>4, <2>2
  <2> QED
    BY <1>3, <2>1, <2>3
<1>6. t \in Seq(Nat) /\ c \in Seq(Nat) /\ e \in Seq(Nat) /\ z \in Seq(Nat)
  <2>1. \A x \in Seq(0..ByteValues-1) : x \in Seq(Nat)
    BY <1>0
  <2>2. \A x \in Seq(0..Alphabet-1) : x \in Seq(Nat)
    BY <1>0
  <2> QED
    BY <1>1, <1>3, <1>4, <2>1, <2>2 DEF ZerosOnly
<1>7. NoZeroFirst(t) /\ NoZeroFirst(c)
  BY <1>1, <1>5, <1>6 DEF NoZeroFirst
<1>8. Zeros(z \o t) = z /\ Number(z \o t, ByteValues) = n
  BY <1>0, <1>1, <1>7, ZerosInFront
<1>9. Zeros(z \o c) = z /\ Number(z \o c, Alphabet) = n
  BY <1>0, <1>3, <1>7, ZerosInFront
<1>10. Reverse(z) = z
  <2>1. Reverse(z) \in Seq(Nat) /\ Len(Reverse(z)) = Len(z) /\ \A i \in 1..Len(z) : Reverse(z)[i] = z[(Len(z) - i) + 1]
    BY <1>6, ReversedTyped
  <2>2. \A i \in 1..Len(z) : z[i] = 0 /\ (Len(z) - i) + 1 \in 1..Len(z)
    BY <1>6 DEF ZerosOnly
  <2>3. \A i \in 1..Len(Reverse(z)) : Reverse(z)[i] = z[i]
    BY <2>1, <2>2
  <2> QED
    BY <1>6, <2>1, <2>3, SeqEqual
<1>11. Encode(z \o t) = z \o c
  <2>1. Encode(z \o t) = Reverse(e \o z)
    BY <1>2a, <1>8 DEF Encode
  <2>2. Reverse(e \o z) = Reverse(z) \o Reverse(e)
    BY <1>6, ReversedConcat
  <2> QED
    BY <1>10, <2>1, <2>2 DEF c
<1>12. DecodeNumber(z \o c) = n
  <2>1. z \o c \in Seq(Nat)
    BY <1>6
  <2> QED
    BY <1>9, <2>1, DecodeNumberIs
<1>13. Decode(z \o c) = z \o t
  BY <1>2a, <1>9, <1>12 DEF Decode
<1> QED
  BY <1>2a, <1>11, <1>13

\* Every number comes back from each of its texts.
LEMMA EveryNumberComesBack == \A n \in Nat : ComesBack(n)
<1> SUFFICES ASSUME NEW n \in Nat PROVE ComesBack(n)
  OBVIOUS
<1>1. /\ ParseBaseText(BaseText(n)) = n
      /\ n < Power(ByteValues)[IntWidth] => ParseIntBytes(IntBytes(n)) = n
      /\ \A r \in Radixes : /\ ParseInRadix(InRadix(n, r), r) = n
                            /\ UnmarshalJSON(MarshalJSON(n, r), r) = {n}
  BY TextsComeBack
<1>2. n < Shift(BigWorldBits + 3 * CommonBits) => GenNodeIdByStr(ToNodeIdStr(n)) = {n}
  BY NodeIdComesBack
<1>3. ASSUME NEW zeros \in 0..2
      PROVE  LET input == [i \in 1..zeros |-> 0] \o BigBytes[n] IN Decode(Encode(input)) = input
  <2> DEFINE z == [i \in 1..zeros |-> 0]
  <2>1. ZerosOnly(z)
    BY DEF ZerosOnly
  <2> HIDE DEF z
  <2>2. Decode(Encode(z \o BigBytes[n])) = z \o BigBytes[n]
    BY <2>1, SliceComesBack
  <2> QED
    BY <2>2 DEF z
<1> QED
  BY <1>1, <1>2, <1>3 DEF ComesBack

(***************************************************************************)
(* Identifiers (Snowflake).                                                *)
(***************************************************************************)

\* Products grow with their factor: what the fields of an ID are put together with.
LEMMA ProductGrows ==
    ASSUME NEW a \in Int, NEW b \in Int, NEW m \in Nat, a < b
    PROVE  a * m + m <= b * m
<1>1. ASSUME NEW x \in Int, NEW y \in Int, x <= y PROVE x * m <= y * m
    BY <1>1, SMT
<1>2. (a + 1) * m <= b * m
    BY <1>1
<1>3. (a + 1) * m = a * m + m
    BY SMT
<1> QED
    BY <1>2, <1>3
\* Division by any divisor gives back the fields of an ID (Time, Node, Step).
LEMMA DivisionUnique ==
    ASSUME NEW a \in Nat, NEW m \in Nat \ {0}, NEW q \in Nat, NEW r \in Nat, r < m, a = q * m + r
    PROVE  a \div m = q /\ a % m = r
<1>1. a % m \in Nat /\ a % m < m /\ a \div m \in Nat /\ a = (a \div m) * m + (a % m)
    BY SMT
<1> DEFINE d == a \div m
           z == a % m
<1>2. d \in Nat /\ z \in Nat /\ z < m /\ a = d * m + z
    BY <1>1
<1> HIDE DEF d, z
<1>3. d * m \in Nat /\ q * m \in Nat
    BY <1>2, SMT
<1>4. ~(d < q)
    <2>1. d < q => d * m + m <= q * m
        BY <1>2, ProductGrows
    <2> QED
        BY <1>2, <1>3, <2>1
<1>5. ~(q < d)
    <2>1. q < d => q * m + m <= d * m
        BY <1>2, ProductGrows
    <2> QED
        BY <1>2, <1>3, <2>1
<1>6. d = q
    BY <1>2, <1>4, <1>5
<1> QED
    BY <1>2, <1>3, <1>6 DEF d, z

\* An ID of the node number n.
IdOf(n, now, s) == now * TimeUnit + n * StepValues + s
Steps == 0..StepValues - 1
NodeNumbers == 0..NodeValues - 1

\* An ID is a number that falls apart into its fields.
LEMMA FieldsComeBack ==
    ASSUME NEW n \in NodeNumbers, NEW now \in Nat, NEW s \in Steps
    PROVE  /\ IdOf(n, now, s) \in Nat /\ TimeField(IdOf(n, now, s)) = now
           /\ NodeField(IdOf(n, now, s)) = n /\ StepField(IdOf(n, now, s)) = s
<1> DEFINE S == StepValues
           N == NodeValues
           M == TimeUnit
           r == n * S + s
           id == IdOf(n, now, s)
<1>1. S \in Nat \ {0} /\ N \in Nat \ {0} /\ M = N * S /\ n \in Nat /\ n < N /\ s \in Nat /\ s < S
    BY SnowflakeAssumption DEF Steps, NodeNumbers, TimeUnit
<1>2. id = now * M + n * S + s
    BY DEF IdOf
<1> HIDE DEF S, N, M, id
<1>3. n * S \in Nat /\ N * S \in Nat /\ n * S + S <= N * S
    BY <1>1, ProductGrows, SMT
<1>4. r \in Nat /\ r < M /\ M \in Nat \ {0}
    BY <1>1, <1>3
<1>5. now * M \in Nat /\ id = now * M + r /\ id \in Nat
    <2>1. now * M \in Nat
        BY <1>4, SMT
    <2> QED
        BY <1>1, <1>2, <1>3, <2>1
<1>6. id = (now * N + n) * S + s /\ now * N + n \in Nat
    <2>1. now * N \in Nat
        BY <1>1, SMT
    <2>2. (now * N + n) * S = now * (N * S) + n * S
        BY <1>1, <2>1, SMT
    <2> QED
        BY <1>1, <1>2, <2>1, <2>2
<1>7. id \div M = now /\ id % M = r
    <2> HIDE DEF r
    <2> QED
        BY <1>4, <1>5, DivisionUnique
<1>8. r \div S = n
    BY <1>1, <1>4, DivisionUnique
<1>9. id % S = s
    <2> DEFINE q == now * N + n
    <2>1. q \in Nat /\ id = q * S + s
        BY <1>6
    <2> HIDE DEF q
    <2> QED
        BY <1>1, <1>5, <2>1, DivisionUnique
<1> QED
    BY <1>5, <1>7, <1>8, <1>9 DEF TimeField, NodeField, StepField, S, M, id, IdOf

\* A later time, or a later step of the same time, gives a larger ID.
LEMMA LaterIsLarger ==
    ASSUME NEW n \in NodeNumbers, NEW t \in Nat, NEW s \in Steps, NEW u \in Nat, NEW v \in Steps,
           t < u \/ (t = u /\ s < v)
    PROVE  IdOf(n, t, s) < IdOf(n, u, v)
<1>1. n * StepValues \in Nat /\ TimeUnit \in Nat /\ n * StepValues + StepValues <= TimeUnit
    <2>1. StepValues \in Nat /\ NodeValues \in Nat /\ n \in Nat /\ n < NodeValues
        BY SnowflakeAssumption DEF NodeNumbers
    <2> QED
        BY <2>1, ProductGrows, SMT DEF TimeUnit
<1>2. t * TimeUnit \in Nat /\ u * TimeUnit \in Nat /\ (t < u => t * TimeUnit + TimeUnit <= u * TimeUnit)
    <2>1. t * TimeUnit \in Nat /\ u * TimeUnit \in Nat
        BY <1>1, SMT
    <2> QED
        BY <1>1, <2>1, ProductGrows
<1>3. s \in Nat /\ s < StepValues /\ v \in Nat
    BY SnowflakeAssumption DEF Steps
<1>4. StepValues \in Nat
    BY SnowflakeAssumption
<1> HIDE DEF TimeUnit
<1> QED
    BY <1>1, <1>2, <1>3, <1>4 DEF IdOf

SnowflakeTypeOK ==
    /\ clock \in Nat /\ nodeOf \in [Processes -> 0..NodeValues] /\ time \in [Processes -> Nat]
    /\ step \in [Processes -> Steps] /\ ids \in [Processes -> Seq(Nat)]
\* A process that has given an ID knows its node number, and its clock does not go back.
GeneratingOK ==
    \A p \in Processes : /\ time[p] <= clock /\ (nodeOf[p] = NoNode => ids[p] = <<>>)
                         /\ spinning[p] = TRUE => nodeOf[p] # NoNode
\* Every ID was given at a time up to the last one, the last one at that time, with the
\* step that is kept unless the steps have run out.
GivenTo(n, given, last, s, spins) ==
    \A i \in 1..Len(given) :
        /\ i > 1 => given[i - 1] < given[i]
        /\ \E t \in Nat, v \in Steps :
              /\ given[i] = IdOf(n, t, v) /\ t <= last
              /\ i = Len(given) => t = last /\ (v = s \/ spins = TRUE)
GivenOK == \A p \in Processes : GivenTo(nodeOf[p], ids[p], time[p], step[p], spinning[p])
SnowflakeInv == SnowflakeTypeOK /\ spinning \in [Processes -> BOOLEAN] /\ GeneratingOK /\ GivenOK

\* The next ID of a process, of a later time or of the next step of the last one.
LEMMA IssueStep ==
    ASSUME SnowflakeInv, NEW p \in Processes, nodeOf[p] # NoNode, NEW s \in Steps, Issue(p, clock, s),
           UNCHANGED <<clock, nodeOf>>, spinning' \in [Processes -> BOOLEAN],
           \A q \in Processes : q # p => spinning'[q] = spinning[q],
           time[p] < clock \/ (time[p] = clock /\ step[p] < s /\ spinning[p] = FALSE)
    PROVE  SnowflakeInv'
<1> DEFINE x == IdOf(nodeOf[p], clock, s)
           old == ids[p]
           new == Append(old, x)
<1>1. nodeOf[p] \in NodeNumbers /\ clock \in Nat /\ old \in Seq(Nat) /\ time[p] \in Nat /\ step[p] \in Steps
    BY SnowflakeAssumption DEF SnowflakeInv, SnowflakeTypeOK, NodeNumbers, NoNode
<1>2. x \in Nat
    BY <1>1, FieldsComeBack
<1>3. time' = [time EXCEPT ![p] = clock] /\ step' = [step EXCEPT ![p] = s] /\ ids' = [ids EXCEPT ![p] = new]
    BY DEF Issue, ID, IdOf
<1> HIDE DEF x
<1>4. /\ new \in Seq(Nat) /\ Len(new) = Len(old) + 1 /\ Len(old) \in Nat /\ new[Len(old) + 1] = x
      /\ \A i \in 1..Len(old) : new[i] = old[i]
    BY <1>1, <1>2
<1> HIDE DEF new, old
<1>5. SnowflakeTypeOK'
    BY <1>1, <1>3, <1>4 DEF SnowflakeInv, SnowflakeTypeOK
<1>6. /\ time'[p] = clock /\ step'[p] = s /\ ids'[p] = new
      /\ \A q \in Processes : q # p => time'[q] = time[q] /\ step'[q] = step[q] /\ ids'[q] = ids[q]
    BY <1>3 DEF SnowflakeInv, SnowflakeTypeOK
<1>7. GeneratingOK'
    BY <1>1, <1>6 DEF SnowflakeInv, GeneratingOK
<1>8. GivenTo(nodeOf[p], new, clock, s, spinning'[p])
    <2>1. GivenTo(nodeOf[p], old, time[p], step[p], spinning[p])
        BY DEF SnowflakeInv, GivenOK, old
    <2> SUFFICES ASSUME NEW i \in 1..Len(new)
                 PROVE  /\ i > 1 => new[i - 1] < new[i]
                        /\ \E t \in Nat, v \in Steps :
                              /\ new[i] = IdOf(nodeOf[p], t, v) /\ t <= clock
                              /\ i = Len(new) => t = clock /\ (v = s \/ spinning'[p] = TRUE)
        BY DEF GivenTo
    <2>2. CASE i \in 1..Len(old)
        <3>1. i # Len(new) /\ (i > 1 => i - 1 \in 1..Len(old))
            BY <1>4, <2>2
        <3>2. new[i] = old[i] /\ (i > 1 => new[i - 1] = old[i - 1])
            BY <1>4, <2>2, <3>1
        <3>3. PICK t \in Nat, v \in Steps : old[i] = IdOf(nodeOf[p], t, v) /\ t <= time[p]
            BY <2>1, <2>2 DEF GivenTo
        <3>4. i > 1 => old[i - 1] < old[i]
            BY <2>1, <2>2 DEF GivenTo
        <3>5. t <= clock
            BY <1>1, <3>3
        <3> QED
            BY <3>1, <3>2, <3>3, <3>4, <3>5
    <2>3. CASE i = Len(old) + 1
        <3>1. new[i] = x /\ i = Len(new)
            BY <1>4, <2>3
        <3>2. ASSUME i > 1 PROVE new[i - 1] < x
            <4>1. i - 1 = Len(old) /\ i - 1 \in 1..Len(old)
                BY <1>4, <2>3, <3>2
            <4>2. new[i - 1] = old[i - 1]
                BY <1>4, <4>1
            <4>3. PICK t \in Nat, v \in Steps : /\ old[i - 1] = IdOf(nodeOf[p], t, v)
                                                /\ t = time[p] /\ (v = step[p] \/ spinning[p] = TRUE)
                BY <2>1, <4>1 DEF GivenTo
            <4>4. t < clock \/ (t = clock /\ v < s)
                BY <4>3
            <4>5. IdOf(nodeOf[p], t, v) < IdOf(nodeOf[p], clock, s)
                BY <1>1, <4>4, LaterIsLarger
            <4> QED
                BY <4>2, <4>3, <4>5 DEF x
        <3>3. x = IdOf(nodeOf[p], clock, s) /\ clock <= clock
            BY <1>1 DEF x
        <3> QED
            BY <1>1, <3>1, <3>2, <3>3
    <2>4. i \in 1..Len(old) \/ i = Len(old) + 1
        <3>1. Len(new) = Len(old) + 1 /\ Len(old) \in Nat
            BY <1>4
        <3> QED
            BY <3>1
    <2> QED
        BY <2>2, <2>3, <2>4
<1>9. GivenOK'
    <2>1. nodeOf' = nodeOf
        OBVIOUS
    <2>2. ASSUME NEW q \in Processes, q # p
          PROVE  GivenTo(nodeOf'[q], ids'[q], time'[q], step'[q], spinning'[q])
        BY <1>6, <2>1, <2>2 DEF SnowflakeInv, GivenOK
    <2>3. GivenTo(nodeOf'[p], ids'[p], time'[p], step'[p], spinning'[p])
        BY <1>6, <1>8, <2>1
    <2> QED
        BY <2>2, <2>3 DEF GivenOK
<1> QED
    BY <1>5, <1>7, <1>9 DEF SnowflakeInv

\* What a step of a process or of the clock keeps (Generate, InitDefaultNode).
LEMMA NextSnowflakeInv ==
    ASSUME SnowflakeInv, [SnowflakeNext]_snowflakeVars
    PROVE  SnowflakeInv'
<1> USE SnowflakeAssumption
<1>1. CASE MillisecondPasses
    <2>1. clock' = clock + 1 /\ UNCHANGED <<nodeOf, time, step, spinning, ids>>
        BY <1>1 DEF MillisecondPasses
    <2>2. SnowflakeTypeOK' /\ GeneratingOK'
        BY <2>1 DEF SnowflakeInv, SnowflakeTypeOK, GeneratingOK
    <2>3. GivenOK'
        BY <2>1 DEF SnowflakeInv, GivenOK
    <2> QED
        BY <2>1, <2>2, <2>3 DEF SnowflakeInv
<1>2. ASSUME NEW p \in Processes, InitDefaultNode(p)
      PROVE  SnowflakeInv'
    <2>1. PICK checksum \in 0..(2 * nodeMax) : nodeOf' = [nodeOf EXCEPT ![p] = checksum % nodeMax]
        BY <1>2 DEF InitDefaultNode
    <2>2. nodeOf[p] = NoNode /\ UNCHANGED <<clock, time, step, spinning, ids>>
        BY <1>2 DEF InitDefaultNode
    <2>3. checksum % nodeMax \in 0..NodeValues /\ checksum % nodeMax # NoNode
        <3>1. nodeMax \in Nat \ {0} /\ checksum \in Nat /\ NoNode = nodeMax + 1 /\ NodeValues = nodeMax + 1
            BY DEF nodeMax, NoNode
        <3> HIDE DEF nodeMax
        <3>2. checksum % nodeMax \in Nat /\ checksum % nodeMax < nodeMax
            BY <3>1, SMT
        <3> QED
            BY <3>1, <3>2
    <2>4. SnowflakeTypeOK'
        BY <2>1, <2>2, <2>3 DEF SnowflakeInv, SnowflakeTypeOK
    <2>5. \A q \in Processes : q # p => nodeOf'[q] = nodeOf[q]
        BY <2>1 DEF SnowflakeInv, SnowflakeTypeOK
    <2>6. nodeOf'[p] # NoNode /\ ids[p] = <<>> /\ Len(ids[p]) = 0
        BY <2>1, <2>2, <2>3 DEF SnowflakeInv, SnowflakeTypeOK, GeneratingOK
    <2>7. GeneratingOK'
        BY <2>2, <2>5, <2>6 DEF SnowflakeInv, GeneratingOK, NoNode
    <2>8. GivenOK'
        <3>1. GivenTo(nodeOf'[p], ids[p], time[p], step[p], spinning[p])
            BY <2>6 DEF GivenTo
        <3>2. ids' = ids /\ time' = time /\ step' = step /\ spinning' = spinning
            BY <2>2
        <3> QED
            BY <2>5, <3>1, <3>2 DEF SnowflakeInv, GivenOK
    <2> QED
        BY <2>2, <2>4, <2>7, <2>8 DEF SnowflakeInv
<1>3. ASSUME NEW p \in Processes, GenerateFirst(p)
      PROVE  SnowflakeInv'
    <2>1. Issue(p, clock, 0) /\ nodeOf[p] # NoNode /\ UNCHANGED <<clock, nodeOf, spinning>> /\ clock # time[p]
        BY <1>3 DEF GenerateFirst, Generates
    <2>2. time[p] < clock /\ 0 \in Steps
        BY <2>1 DEF SnowflakeInv, SnowflakeTypeOK, GeneratingOK, Steps
    <2> QED
        BY <2>1, <2>2, IssueStep DEF SnowflakeInv
<1>4. ASSUME NEW p \in Processes, GenerateNext(p)
      PROVE  SnowflakeInv'
    <2> DEFINE s == (step[p] + 1) % StepValues
    <2>1. nodeOf[p] # NoNode /\ UNCHANGED <<clock, nodeOf>> /\ clock = time[p] /\ ~spinning[p]
          /\ IF s = 0 THEN /\ spinning' = [spinning EXCEPT ![p] = TRUE]
                           /\ step' = [step EXCEPT ![p] = 0] /\ UNCHANGED <<time, ids>>
                      ELSE Issue(p, clock, s) /\ UNCHANGED spinning
        BY <1>4 DEF GenerateNext, Generates
    <2>2. step[p] \in Nat /\ step[p] < StepValues /\ step[p] + 1 \in Nat
        BY DEF SnowflakeInv, SnowflakeTypeOK, Steps
    <2>3. s \in Steps /\ (s # 0 => step[p] < s)
        <3>1. CASE step[p] + 1 < StepValues
            <4>1. step[p] + 1 = 0 * StepValues + (step[p] + 1)
                BY <2>2, SMT
            <4>2. s = step[p] + 1
                BY <2>2, <3>1, <4>1, DivisionUnique
            <4> QED
                BY <2>2, <3>1, <4>2 DEF Steps
        <3>2. CASE step[p] + 1 = StepValues
            <4>1. step[p] + 1 = 1 * StepValues + 0
                BY <2>2, <3>2, SMT
            <4>2. s = 0
                BY <2>2, <3>2, <4>1, DivisionUnique
            <4> QED
                BY <4>2 DEF Steps
        <3> QED
            BY <2>2, <3>1, <3>2
    <2> HIDE DEF s
    <2>4. CASE s # 0
        <3>1. spinning[p] = FALSE /\ spinning' = spinning
            BY <2>1, <2>4 DEF SnowflakeInv
        <3>2. Issue(p, clock, s) /\ step[p] < s
            BY <2>1, <2>3, <2>4
        <3> QED
            BY <2>1, <2>3, <3>1, <3>2, IssueStep DEF SnowflakeInv
    <2>5. CASE s = 0
        <3>1. spinning' = [spinning EXCEPT ![p] = TRUE] /\ step' = [step EXCEPT ![p] = 0] /\ UNCHANGED <<clock, nodeOf, time, ids>>
            BY <2>1, <2>5
        <3>2. SnowflakeTypeOK' /\ spinning' \in [Processes -> BOOLEAN]
            BY <3>1 DEF SnowflakeInv, SnowflakeTypeOK, Steps
        <3>3. spinning'[p] = TRUE /\ \A q \in Processes : q # p => spinning'[q] = spinning[q] /\ step'[q] = step[q]
            BY <3>1 DEF SnowflakeInv, SnowflakeTypeOK
        <3>4. GeneratingOK'
            BY <2>1, <3>1, <3>3 DEF SnowflakeInv, GeneratingOK, NoNode
        <3>5. GivenOK'
            <4>1. GivenTo(nodeOf[p], ids[p], time[p], step[p], spinning[p])
                BY DEF SnowflakeInv, GivenOK
            <4>2. GivenTo(nodeOf[p], ids[p], time[p], step'[p], spinning'[p])
                BY <3>3, <4>1 DEF GivenTo
            <4>3. ids' = ids /\ time' = time /\ nodeOf' = nodeOf
                BY <3>1
            <4> QED
                BY <3>3, <4>2, <4>3 DEF SnowflakeInv, GivenOK
        <3> QED
            BY <3>2, <3>4, <3>5 DEF SnowflakeInv
    <2> QED
        BY <2>4, <2>5
<1>5. ASSUME NEW p \in Processes, GenerateAfterWait(p)
      PROVE  SnowflakeInv'
    <2>1. Issue(p, clock, 0) /\ UNCHANGED <<clock, nodeOf>> /\ spinning' = [spinning EXCEPT ![p] = FALSE] /\ clock > time[p] /\ spinning[p]
        BY <1>5 DEF GenerateAfterWait
    <2>2. nodeOf[p] # NoNode
        BY <2>1 DEF SnowflakeInv, GeneratingOK
    <2>3. spinning' \in [Processes -> BOOLEAN] /\ \A q \in Processes : q # p => spinning'[q] = spinning[q]
        BY <2>1 DEF SnowflakeInv
    <2>4. time[p] < clock /\ 0 \in Steps
        BY <2>1 DEF SnowflakeInv, SnowflakeTypeOK, Steps
    <2> QED
        BY <2>1, <2>2, <2>3, <2>4, IssueStep
<1>6. CASE UNCHANGED snowflakeVars
    BY <1>6 DEF snowflakeVars, SnowflakeInv, SnowflakeTypeOK, GeneratingOK, GivenOK
<1> QED
    BY <1>1, <1>2, <1>3, <1>4, <1>5, <1>6 DEF SnowflakeNext, Generate

\* The invariant of generation holds in every reachable state.
LEMMA SnowflakeInvHolds == SnowflakeSpec => []SnowflakeInv
<1>1. SnowflakeInit => SnowflakeInv
    <2> SUFFICES ASSUME SnowflakeInit PROVE SnowflakeInv
        OBVIOUS
    <2>1. \A p \in Processes : ids[p] = <<>> /\ Len(ids[p]) = 0
        BY DEF SnowflakeInit
    <2>2. SnowflakeTypeOK /\ spinning \in [Processes -> BOOLEAN]
        BY SnowflakeAssumption DEF SnowflakeInit, SnowflakeTypeOK, NoNode, Steps
    <2>3. GeneratingOK /\ GivenOK
        BY <2>1 DEF SnowflakeInit, GeneratingOK, GivenOK, GivenTo
    <2> QED
        BY <2>2, <2>3 DEF SnowflakeInv
<1> QED
    BY <1>1, NextSnowflakeInv, PTL DEF SnowflakeSpec

\* The IDs of a process grow, also when the steps of a millisecond run out; processes with
\* different node numbers never share one; and an ID falls apart into its node, its time
\* and its step, for fields of any size (Generate, Time, Node, Step).
THEOREM IdsAreOrdered == SnowflakeSpec => []IdsOrdered
<1>1. SnowflakeInv => IdsOrdered
    <2> SUFFICES ASSUME SnowflakeInv PROVE IdsOrdered
        OBVIOUS
    <2>1. ASSUME NEW p \in Processes, NEW i \in 1..Len(ids[p])
          PROVE  /\ i > 1 => ids[p][i - 1] < ids[p][i]
                 /\ NodeField(ids[p][i]) = nodeOf[p] /\ TimeField(ids[p][i]) <= time[p]
                 /\ i = Len(ids[p]) => StepField(ids[p][i]) = step[p] \/ spinning[p]
        <3>1. PICK t \in Nat, s \in Steps : /\ ids[p][i] = IdOf(nodeOf[p], t, s) /\ t <= time[p]
                                            /\ i = Len(ids[p]) => t = time[p] /\ (s = step[p] \/ spinning[p] = TRUE)
            BY DEF SnowflakeInv, GivenOK, GivenTo
        <3>2. nodeOf[p] \in NodeNumbers
            <4>1. ids[p] # <<>>
                BY DEF SnowflakeInv, SnowflakeTypeOK
            <4> QED
                BY <4>1, SnowflakeAssumption DEF SnowflakeInv, SnowflakeTypeOK, GeneratingOK, NodeNumbers, NoNode
        <3>3. /\ TimeField(ids[p][i]) = t /\ NodeField(ids[p][i]) = nodeOf[p] /\ StepField(ids[p][i]) = s
            BY <3>1, <3>2, FieldsComeBack
        <3>4. i > 1 => ids[p][i - 1] < ids[p][i]
            BY DEF SnowflakeInv, GivenOK, GivenTo
        <3> QED
            BY <3>1, <3>3, <3>4
    <2>2. \A p \in Processes : ids[p] # <<>> => Len(ids[p]) \in 1..Len(ids[p])
        BY DEF SnowflakeInv, SnowflakeTypeOK
    <2>3. ASSUME NEW p \in Processes, NEW q \in Processes, nodeOf[p] # nodeOf[q], NEW i \in 1..Len(ids[p]), NEW j \in 1..Len(ids[q])
          PROVE  ids[p][i] # ids[q][j]
        BY <2>1, <2>3
    <2> QED
        BY <2>1, <2>2, <2>3 DEF IdsOrdered
<1> QED
    BY <1>1, SnowflakeInvHolds, PTL

\* What Generate promises, with the texts: the IDs of a process are ordered and distinct
\* from those of other nodes, and each is read back unchanged from the texts it is written
\* as, in any alphabet, any radix and any number of bytes it fits in (Base2, Base32, Base36,
\* Base58, IntBytes, MarshalJSON and their parsers, base58.Encode and Decode, GenNodeId).
THEOREM IdsAreUnique == SnowflakeSpec => []IdsUnique
<1>1. SnowflakeInv => \A p \in Processes : \A i \in 1..Len(ids[p]) : ids[p][i] \in Nat
    BY DEF SnowflakeInv, SnowflakeTypeOK
<1>2. SnowflakeInv /\ IdsOrdered => IdsUnique
    BY <1>1, EveryNumberComesBack DEF IdsUnique
<1> QED
    BY <1>2, SnowflakeInvHolds, IdsAreOrdered, PTL
=============================================================================
