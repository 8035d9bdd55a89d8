--------------------------- MODULE FramingProofs ---------------------------
(***************************************************************************)
(* WireInv of FramingInv holds of Framing for every base, every length of  *)
(* a length and all packets, and what the runs check follows from it.      *)
(***************************************************************************)
EXTENDS FramingInv, TLAPS, WellFoundedInduction, SequenceTheorems

-----------------------------------------------------------------------------
(* Induction and recursion.  What is proved by induction is stated as a set *)
(* of numbers, since no operator can be passed to a theorem here.          *)

\* A set of numbers that is not empty has a least element.
LEMMA LeastNumber ==
    ASSUME NEW S, S \subseteq Nat, S # {}
    PROVE  \E n \in S : \A m \in S : ~(m < n)
<1>1. IsWellFoundedOn(OpToRel(<, Nat), Nat)
  BY NatLessThanWellFounded
<1>2. PICK n \in S : \A m \in S : ~(<<m, n>> \in OpToRel(<, Nat))
  BY <1>1, WFMin
<1> QED BY <1>2 DEF OpToRel

LEMMA Induction ==
    ASSUME NEW S, 0 \in S, \A n \in Nat : n \in S => n + 1 \in S
    PROVE  \A n \in Nat : n \in S
<1> SUFFICES ASSUME Nat \ S # {} PROVE FALSE
  OBVIOUS
<1>1. PICK n \in Nat \ S : \A m \in Nat \ S : ~(m < n)
  BY LeastNumber
<1>2. n - 1 \in Nat /\ n - 1 < n /\ n - 1 + 1 = n
  BY <1>1
<1> QED BY <1>1, <1>2

\* f is a at 0, and its value at n follows from the one before by G[n].
Follows(f, N, a, G) == f[0] = a /\ \A n \in 1 .. N : f[n] = G[n][f[n - 1]]

\* A function on 0 .. N can be defined that way.
LEMMA Recursion ==
    ASSUME NEW N \in Nat, NEW S, NEW a \in S, NEW G \in [1 .. N -> [S -> S]]
    PROVE  \E f \in [0 .. N -> S] : Follows(f, N, a, G)
<1> DEFINE D(f, n) == f[0] = a /\ \A i \in 1 .. n : f[i] = G[i][f[i - 1]]
           Good == {n \in Nat : n <= N => \E f \in [0 .. N -> S] : D(f, n)}
<1>1. 0 \in Good
  <2>1. [i \in 0 .. N |-> a] \in [0 .. N -> S] /\ D([i \in 0 .. N |-> a], 0)
    OBVIOUS
  <2> QED BY <2>1
<1>2. ASSUME NEW n \in Nat, n \in Good, n + 1 <= N
      PROVE  \E f \in [0 .. N -> S] : D(f, n + 1)
  <2>1. PICK f \in [0 .. N -> S] : D(f, n)
    BY <1>2
  <2> DEFINE g == [f EXCEPT ![n + 1] = G[n + 1][f[n]]]
  <2>2. n + 1 \in 1 .. N /\ n \in 0 .. N
    BY <1>2
  <2>3. G[n + 1] \in [S -> S] /\ f[n] \in S
    BY <2>2
  <2>4. g \in [0 .. N -> S]
    BY <2>2, <2>3
  <2>5. D(g, n + 1)
    <3>1. g[0] = a
      BY <2>1, <2>2
    <3>2. ASSUME NEW i \in 1 .. (n + 1)
          PROVE  g[i] = G[i][g[i - 1]]
      <4>1. i \in 0 .. N /\ i - 1 \in 0 .. N /\ i - 1 # n + 1
        BY <2>2
      <4>2. CASE i = n + 1
        BY <2>2, <4>1, <4>2
      <4>3. CASE i # n + 1
        BY <2>1, <4>1, <4>3
      <4> QED BY <4>2, <4>3
    <3> QED BY <3>1, <3>2
  <2> QED BY <2>4, <2>5
<1> HIDE DEF D
<1>3. ASSUME NEW n \in Nat, n \in Good
      PROVE  n + 1 \in Good
  <2>1. CASE n + 1 <= N
    BY <1>2, <1>3, <2>1
  <2>2. CASE ~(n + 1 <= N)
    BY <2>2
  <2> QED BY <2>1, <2>2
<1> HIDE DEF Good
<1>4. N \in Good
  BY <1>1, <1>3, Induction
<1> QED BY <1>4 DEF Good, D, Follows

-----------------------------------------------------------------------------
(* Lengths as bytes. *)

LEMMA Weights ==
    /\ Weight[0] = 1
    /\ \A i \in 1 .. LenBytes : Weight[i] = Base * Weight[i - 1]
    /\ \A i \in 0 .. LenBytes : Weight[i] \in Nat \ {0}
<1> DEFINE R(f) == f = [i \in 0 .. LenBytes |-> IF i = 0 THEN 1 ELSE Base * f[i - 1]]
<1> USE FramingAssumption
<1>1. \E f : R(f)
  <2> DEFINE G == [i \in 1 .. LenBytes |-> [x \in Nat |-> Base * x]]
  <2>1. G \in [1 .. LenBytes -> [Nat -> Nat]]
    OBVIOUS
  <2>2. \A n \in 1 .. LenBytes, x \in Nat : G[n][x] = Base * x
    OBVIOUS
  <2> HIDE DEF G
  <2>3. PICK f \in [0 .. LenBytes -> Nat] : Follows(f, LenBytes, 1, G)
    BY <2>1, Recursion
  <2>4. f[0] = 1 /\ \A n \in 1 .. LenBytes : f[n] = Base * f[n - 1]
    <3>1. \A n \in 1 .. LenBytes : f[n - 1] \in Nat
      OBVIOUS
    <3> QED BY <2>2, <2>3, <3>1 DEF Follows
  <2>5. R(f)
    BY <2>3, <2>4
  <2> QED BY <2>5
<1>2. R(Weight)
  BY <1>1 DEF Weight
<1>3. Weight[0] = 1 /\ \A i \in 1 .. LenBytes : Weight[i] = Base * Weight[i - 1]
  <2>1. \A i \in 0 .. LenBytes : Weight[i] = IF i = 0 THEN 1 ELSE Base * Weight[i - 1]
    BY <1>2
  <2> QED BY <2>1
<1> DEFINE Good == {n \in Nat : n <= LenBytes => Weight[n] \in Nat \ {0}}
<1>4. 0 \in Good
  BY <1>3
<1>5. ASSUME NEW n \in Nat, n \in Good
      PROVE  n + 1 \in Good
  <2>1. CASE n + 1 <= LenBytes
    <3>1. Weight[n + 1] = Base * Weight[n]
      BY <1>3, <2>1
    <3>2. \A x, y \in Nat \ {0} : x * y \in Nat \ {0}
      OBVIOUS
    <3> QED BY <1>5, <2>1, <3>1, <3>2
  <2> QED BY <2>1
<1> HIDE DEF Good
<1>6. \A n \in Nat : n \in Good
  BY <1>4, <1>5, Induction
<1> QED BY <1>3, <1>6 DEF Good

\* What Value adds up, and what Encode divides.
LEMMA ValueSums ==
    ASSUME NEW b \in [1 .. LenBytes -> Nat]
    PROVE  \E v \in [0 .. LenBytes -> Nat] :
             /\ v[0] = 0 /\ v[LenBytes] = Value(b)
             /\ \A n \in 1 .. LenBytes : v[n] = v[n - 1] + b[n] * Weight[n - 1]
<1> DEFINE R(f) == f = [n \in 0 .. LenBytes |-> IF n = 0 THEN 0
                                               ELSE f[n - 1] + b[n] * Weight[n - 1]]
           v == CHOOSE f : R(f)
           G == [n \in 1 .. LenBytes |-> [x \in Nat |-> x + b[n] * Weight[n - 1]]]
<1> USE FramingAssumption
<1>1. \A n \in 1 .. LenBytes : b[n] * Weight[n - 1] \in Nat
  <2>1. ASSUME NEW n \in 1 .. LenBytes
        PROVE  b[n] * Weight[n - 1] \in Nat
    <3>1. Weight[n - 1] \in Nat /\ b[n] \in Nat
      BY Weights
    <3>2. \A x, y \in Nat : x * y \in Nat
      OBVIOUS
    <3> QED BY <3>1, <3>2
  <2> QED BY <2>1
<1>2. G \in [1 .. LenBytes -> [Nat -> Nat]]
  BY <1>1
<1>3. \A n \in 1 .. LenBytes, x \in Nat : G[n][x] = x + b[n] * Weight[n - 1]
  OBVIOUS
<1> HIDE DEF G
<1>4. PICK f \in [0 .. LenBytes -> Nat] : Follows(f, LenBytes, 0, G)
  BY <1>2, Recursion
<1>5. f[0] = 0 /\ \A n \in 1 .. LenBytes : f[n] = f[n - 1] + b[n] * Weight[n - 1]
  <2>1. \A n \in 1 .. LenBytes : f[n - 1] \in Nat
    OBVIOUS
  <2> QED BY <1>3, <1>4, <2>1 DEF Follows
<1>6. R(f)
  BY <1>5
<1>7. R(v)
  BY <1>6
<1>8. Value(b) = v[LenBytes]
  BY DEF Value
<1> HIDE DEF v
<1>9. v[0] = 0 /\ \A n \in 1 .. LenBytes : v[n] = v[n - 1] + b[n] * Weight[n - 1]
  <2>1. \A n \in 0 .. LenBytes : v[n] = IF n = 0 THEN 0 ELSE v[n - 1] + b[n] * Weight[n - 1]
    BY <1>7
  <2> QED BY <2>1
<1> DEFINE Good == {n \in Nat : n <= LenBytes => v[n] \in Nat}
<1>10. 0 \in Good
  BY <1>9
<1>11. ASSUME NEW n \in Nat, n \in Good
       PROVE  n + 1 \in Good
  <2>1. CASE n + 1 <= LenBytes
    <3>1. v[n + 1] = v[n] + b[n + 1] * Weight[n] /\ b[n + 1] * Weight[n] \in Nat
      BY <1>1, <1>9, <2>1
    <3> QED BY <1>11, <2>1, <3>1
  <2> QED BY <2>1
<1> HIDE DEF Good
<1>12. \A n \in Nat : n \in Good
  BY <1>10, <1>11, Induction
<1>13. v = [n \in 0 .. LenBytes |-> v[n]] /\ \A n \in 0 .. LenBytes : v[n] \in Nat
  <2>1. \A n \in 0 .. LenBytes : v[n] \in Nat
    BY <1>12 DEF Good
  <2>2. v = [n \in 0 .. LenBytes |-> v[n]]
    BY <1>7
  <2> QED BY <2>1, <2>2
<1>14. v \in [0 .. LenBytes -> Nat]
  BY <1>13
<1> QED BY <1>8, <1>9, <1>14

LEMMA Division ==
    ASSUME NEW x \in Nat, NEW b \in Nat \ {0}
    PROVE  /\ x \div b \in Nat /\ x % b \in 0 .. (b - 1)
           /\ x = (x \div b) * b + (x % b)
<1>1. b > 0 /\ b \in Nat
  OBVIOUS
<1>2. x \div b \in Int
  OBVIOUS
<1>3. x \div b >= 0
  BY <1>1
<1>4. x % b \in 0 .. (b - 1)
  OBVIOUS
<1>5. x = (x \div b) * b + (x % b)
  OBVIOUS
<1> QED BY <1>2, <1>3, <1>4, <1>5

LEMMA OneDigit ==
    ASSUME NEW o \in Nat, NEW p \in Nat, NEW c \in Nat, NEW w \in Nat, NEW B \in Nat
    PROVE  o + (p * B + c) * w = (o + c * w) + p * (B * w)
<1>1. (p * B + c) * w = p * (B * w) + c * w
  OBVIOUS
<1>2. (p * B + c) * w \in Nat /\ c * w \in Nat /\ p * (B * w) \in Nat
  OBVIOUS
<1> QED BY <1>1, <1>2

LEMMA EncodeDivides ==
    ASSUME NEW x \in Nat
    PROVE  \E q \in [0 .. LenBytes -> Nat] :
             /\ q[0] = x /\ \A n \in 1 .. LenBytes : q[n] = q[n - 1] \div Base
             /\ Encode(x) = [i \in 1 .. LenBytes |-> q[i - 1] % Base]
<1> DEFINE R(f) == f = [n \in 0 .. LenBytes |-> IF n = 0 THEN x ELSE f[n - 1] \div Base]
           q == CHOOSE f : R(f)
           G == [n \in 1 .. LenBytes |-> [y \in Nat |-> y \div Base]]
<1> USE FramingAssumption
<1>1. \A y \in Nat : y \div Base \in Nat
  BY Division
<1>2. G \in [1 .. LenBytes -> [Nat -> Nat]]
  BY <1>1
<1>3. \A n \in 1 .. LenBytes, y \in Nat : G[n][y] = y \div Base
  OBVIOUS
<1> HIDE DEF G
<1>4. PICK f \in [0 .. LenBytes -> Nat] : Follows(f, LenBytes, x, G)
  BY <1>2, Recursion
<1>5. f[0] = x /\ \A n \in 1 .. LenBytes : f[n] = f[n - 1] \div Base
  <2>1. \A n \in 1 .. LenBytes : f[n - 1] \in Nat
    OBVIOUS
  <2> QED BY <1>3, <1>4, <2>1 DEF Follows
<1>6. R(f)
  BY <1>5
<1>7. R(q)
  BY <1>6
<1>8. Encode(x) = [i \in 1 .. LenBytes |-> q[i - 1] % Base]
  BY DEF Encode
<1> HIDE DEF q
<1>9. q[0] = x /\ \A n \in 1 .. LenBytes : q[n] = q[n - 1] \div Base
  <2>1. \A n \in 0 .. LenBytes : q[n] = IF n = 0 THEN x ELSE q[n - 1] \div Base
    BY <1>7
  <2> QED BY <2>1
<1> DEFINE Good == {n \in Nat : n <= LenBytes => q[n] \in Nat}
<1>10. 0 \in Good
  BY <1>9
<1>11. ASSUME NEW n \in Nat, n \in Good
       PROVE  n + 1 \in Good
  <2>1. CASE n + 1 <= LenBytes
    <3>1. q[n + 1] = q[n] \div Base /\ q[n] \in Nat
      BY <1>9, <1>11, <2>1
    <3>2. q[n + 1] \in Nat
      BY <1>1, <3>1
    <3> QED BY <3>2
  <2> QED BY <2>1
<1> HIDE DEF Good
<1>12. \A n \in Nat : n \in Good
  BY <1>10, <1>11, Induction
<1>13. \A n \in 0 .. LenBytes : q[n] \in Nat
  BY <1>12 DEF Good
<1>14. q \in [0 .. LenBytes -> Nat]
  <2>1. q = [n \in 0 .. LenBytes |-> IF n = 0 THEN x ELSE q[n - 1] \div Base]
    BY <1>7
  <2>2. q = [n \in 0 .. LenBytes |-> q[n]]
    BY <2>1
  <2> QED BY <1>13, <2>2
<1> QED BY <1>8, <1>9, <1>14

\* A length that is sent is the length that is received: Encode gives the
\* digits of a number, and Value the number that has them.
LEMMA LengthArrives ==
    ASSUME NEW x \in 0 .. (Span - 1)
    PROVE  Encode(x) \in [1 .. LenBytes -> Bytes] /\ Value(Encode(x)) = x
<1> USE FramingAssumption
<1>1. x \in Nat /\ Span \in Nat \ {0} /\ x < Span
  BY Weights DEF Span
<1>2. PICK q \in [0 .. LenBytes -> Nat] :
         /\ q[0] = x /\ \A n \in 1 .. LenBytes : q[n] = q[n - 1] \div Base
         /\ Encode(x) = [i \in 1 .. LenBytes |-> q[i - 1] % Base]
  BY <1>1, EncodeDivides
<1> DEFINE b == Encode(x)
<1>3. \A i \in 1 .. LenBytes : b[i] = q[i - 1] % Base /\ b[i] \in Bytes /\ q[i - 1] \in Nat
                              /\ q[i - 1] = q[i] * Base + b[i]
  <2>1. ASSUME NEW i \in 1 .. LenBytes
        PROVE  b[i] = q[i - 1] % Base /\ b[i] \in Bytes /\ q[i - 1] \in Nat
               /\ q[i - 1] = q[i] * Base + b[i]
    <3>1. b[i] = q[i - 1] % Base /\ q[i - 1] \in Nat /\ q[i] = q[i - 1] \div Base
      BY <1>2
    <3> QED BY <3>1, Division DEF Bytes
  <2> QED BY <2>1
<1>4. b \in [1 .. LenBytes -> Bytes] /\ b \in [1 .. LenBytes -> Nat]
  <2>1. b = [i \in 1 .. LenBytes |-> b[i]]
    BY <1>2
  <2>2. Bytes \subseteq Nat
    BY DEF Bytes
  <2> QED BY <1>3, <2>1, <2>2
<1> HIDE DEF b
<1>5. PICK v \in [0 .. LenBytes -> Nat] :
         /\ v[0] = 0 /\ v[LenBytes] = Value(b)
         /\ \A n \in 1 .. LenBytes : v[n] = v[n - 1] + b[n] * Weight[n - 1]
  BY <1>4, ValueSums
<1> DEFINE Good == {n \in Nat : n <= LenBytes => v[n] + q[n] * Weight[n] = x}
<1>6. 0 \in Good
  BY <1>2, <1>5, Weights
<1>7. ASSUME NEW n \in Nat, n \in Good
      PROVE  n + 1 \in Good
  <2>1. CASE n + 1 <= LenBytes
    <3>1. /\ n \in 0 .. LenBytes /\ n + 1 \in 1 .. LenBytes /\ (n + 1) - 1 = n
          /\ n + 1 \in 0 .. LenBytes
      BY <2>1
    <3>2. v[n + 1] = v[n] + b[n + 1] * Weight[n]
      BY <1>5, <3>1
    <3>3. q[n] = q[n + 1] * Base + b[n + 1]
      BY <1>3, <3>1
    <3>4. Weight[n + 1] = Base * Weight[n] /\ Weight[n] \in Nat /\ Weight[n + 1] \in Nat
      BY <3>1, Weights
    <3>5. v[n] \in Nat /\ q[n + 1] \in Nat /\ b[n + 1] \in Nat /\ Base \in Nat
      BY <1>4, <3>1
    <3>6. v[n] + q[n] * Weight[n] = x
      BY <1>7, <2>1
    <3>7. PICK o, p, c, w \in Nat : o = v[n] /\ p = q[n + 1] /\ c = b[n + 1] /\ w = Weight[n]
      BY <3>4, <3>5
    <3>8. o + (p * Base + c) * w = (o + c * w) + p * (Base * w)
      BY <3>5, OneDigit
    <3>9. x = (o + c * w) + p * (Base * w)
      BY <3>3, <3>6, <3>7, <3>8
    <3>10. v[n + 1] + q[n + 1] * Weight[n + 1] = x
      BY <3>2, <3>4, <3>7, <3>9
    <3> QED BY <3>10
  <2> QED BY <2>1
<1> HIDE DEF Good
<1>8. v[LenBytes] + q[LenBytes] * Span = x
  <2>1. LenBytes \in Good
    BY <1>6, <1>7, Induction
  <2> QED BY <2>1 DEF Good, Span
<1>9. q[LenBytes] = 0
  <2>1. v[LenBytes] \in Nat /\ q[LenBytes] \in Nat
    OBVIOUS
  <2>2. \A p, w \in Nat : p # 0 => p * w >= w
    OBVIOUS
  <2>3. q[LenBytes] # 0 => q[LenBytes] * Span >= Span
    BY <1>1, <2>1, <2>2
  <2>4. q[LenBytes] * Span \in Nat
    <3>1. \A p, w \in Nat : p * w \in Nat
      OBVIOUS
    <3> QED BY <1>1, <2>1, <3>1
  <2> QED BY <1>1, <1>8, <2>1, <2>3, <2>4
<1>10. Value(b) = x
  BY <1>1, <1>5, <1>8, <1>9
<1> QED BY <1>4, <1>10 DEF b

-----------------------------------------------------------------------------
(* Packets, and streams of them. *)

LEMMA Remainder ==
    ASSUME NEW s \in Nat \ {0}, NEW n \in 0 .. (s - 1)
    PROVE  (n + s) % s = n
<1>1. PICK q \in Nat, r \in 0 .. (s - 1) : q = (n + s) \div s /\ r = (n + s) % s /\ n + s = q * s + r
  BY Division
<1>2. q # 0
  BY <1>1
<1>3. ~(q > 1)
  <2>1. \A p, w \in Nat : p > 1 => p * w >= 2 * w
    OBVIOUS
  <2>2. q > 1 => q * s >= 2 * s
    BY <2>1
  <2>3. q * s = n + s - r
    <3>1. q * s \in Nat
      <4>1. \A p, w \in Nat : p * w \in Nat
        OBVIOUS
      <4> QED BY <4>1
    <3> QED BY <1>1, <3>1
  <2> QED BY <2>2, <2>3
<1>4. q = 1
  BY <1>2, <1>3
<1> QED BY <1>1, <1>4

Packets == Commands \cup Replies

\* A packet is a length that says how much follows it, and that much.
LEMMA FrameParts ==
    ASSUME NEW b \in Packets
    PROVE  LET l == Encode(LenBytes + Len(b)) IN
           /\ b \in Seq(Bytes) /\ Len(b) \in Nat \ {0}
           /\ l \in Seq(Bytes) /\ Len(l) = LenBytes /\ BodyLen(Value(l)) = Len(b)
           /\ Frame(b) = l \o b /\ Frame(b) \in Seq(Bytes)
           /\ Len(Frame(b)) = LenBytes + Len(b)
<1> DEFINE l == Encode(LenBytes + Len(b))
<1>1. b \in Seq(Bytes) /\ b # <<>> /\ LenBytes + Len(b) < Span
  BY FramingAssumption DEF Packets, Bytes
<1>2. Len(b) \in Nat \ {0}
  BY <1>1, LenProperties, EmptySeq
<1>3. LenBytes \in Nat \ {0} /\ Span \in Nat \ {0}
  BY FramingAssumption, Weights DEF Span
<1>4. LenBytes + Len(b) \in 0 .. (Span - 1)
  BY <1>1, <1>2, <1>3
<1>5. l \in [1 .. LenBytes -> Bytes] /\ Value(l) = LenBytes + Len(b)
  BY <1>4, LengthArrives
<1> HIDE DEF l
<1>6. l \in Seq(Bytes) /\ Len(l) = LenBytes
  BY <1>3, <1>5
<1>7. BodyLen(Value(l)) = Len(b)
  <2>1. BodyLen(Value(l)) = (LenBytes + Len(b) + Span - LenBytes) % Span
    BY <1>5 DEF BodyLen
  <2>2. LenBytes + Len(b) + Span - LenBytes = Len(b) + Span /\ Len(b) \in 0 .. (Span - 1)
    BY <1>2, <1>3, <1>4
  <2> QED BY <1>3, <2>1, <2>2, Remainder
<1>8. Frame(b) = l \o b
  BY DEF Frame, l
<1> QED BY <1>1, <1>2, <1>6, <1>7, <1>8, ConcatProperties DEF l

LEMMA Streams ==
    ASSUME NEW q \in Seq(Packets)
    PROVE  \E f \in [0 .. Len(q) -> Seq(Bytes)] :
             /\ f[0] = <<>> /\ f[Len(q)] = Stream(q)
             /\ \A n \in 1 .. Len(q) : f[n] = f[n - 1] \o Frame(q[n])
<1> DEFINE R(f) == f = [n \in 0 .. Len(q) |-> IF n = 0 THEN <<>> ELSE f[n - 1] \o Frame(q[n])]
           g == CHOOSE f : R(f)
           G == [n \in 1 .. Len(q) |-> [s \in Seq(Bytes) |-> s \o Frame(q[n])]]
<1>1. Len(q) \in Nat /\ \A n \in 1 .. Len(q) : Frame(q[n]) \in Seq(Bytes)
  <2>1. \A n \in 1 .. Len(q) : q[n] \in Packets
    BY ElementOfSeq
  <2> QED BY <2>1, FrameParts, LenProperties
<1>2. G \in [1 .. Len(q) -> [Seq(Bytes) -> Seq(Bytes)]]
  BY <1>1, ConcatProperties
<1>3. \A n \in 1 .. Len(q), s \in Seq(Bytes) : G[n][s] = s \o Frame(q[n])
  OBVIOUS
<1>4. <<>> \in Seq(Bytes)
  BY EmptySeq
<1> HIDE DEF G
<1>5. PICK f \in [0 .. Len(q) -> Seq(Bytes)] : Follows(f, Len(q), <<>>, G)
  BY <1>1, <1>2, <1>4, Recursion
<1>6. f[0] = <<>> /\ \A n \in 1 .. Len(q) : f[n] = f[n - 1] \o Frame(q[n])
  <2>1. \A n \in 1 .. Len(q) : f[n - 1] \in Seq(Bytes)
    BY <1>1
  <2> QED BY <1>3, <1>5, <2>1 DEF Follows
<1>7. R(f)
  <2>1. ASSUME NEW n \in 0 .. Len(q)
        PROVE  f[n] = IF n = 0 THEN <<>> ELSE f[n - 1] \o Frame(q[n])
    <3>1. CASE n = 0
      BY <1>6, <3>1
    <3>2. CASE n # 0
      <4>1. n \in 1 .. Len(q)
        BY <1>1, <3>2
      <4>2. f[n] = f[n - 1] \o Frame(q[n])
        BY <1>6, <4>1
      <4> QED BY <3>2, <4>2
    <3> QED BY <3>1, <3>2
  <2>2. f = [n \in 0 .. Len(q) |-> f[n]]
    BY <1>5
  <2> QED BY <2>1, <2>2, Zenon
<1>8. R(g)
  BY <1>7
<1>9. Stream(q) = g[Len(q)]
  BY DEF Stream
<1> HIDE DEF g
<1>10. g[0] = <<>> /\ \A n \in 1 .. Len(q) : g[n] = g[n - 1] \o Frame(q[n])
  <2>1. \A n \in 0 .. Len(q) : g[n] = IF n = 0 THEN <<>> ELSE g[n - 1] \o Frame(q[n])
    BY <1>8, Zenon
  <2>2. 0 \in 0 .. Len(q) /\ \A n \in 1 .. Len(q) : n \in 0 .. Len(q) /\ n # 0
    BY <1>1
  <2> QED BY <2>1, <2>2, Zenon
<1> DEFINE Good == {n \in Nat : n <= Len(q) => g[n] \in Seq(Bytes)}
<1>11. 0 \in Good
  BY <1>4, <1>10
<1>12. ASSUME NEW n \in Nat, n \in Good
       PROVE  n + 1 \in Good
  <2>1. CASE n + 1 <= Len(q)
    <3>1. n + 1 \in 1 .. Len(q) /\ (n + 1) - 1 = n
      BY <1>1, <2>1
    <3>2. g[n] \in Seq(Bytes)
      BY <1>1, <1>12, <2>1
    <3>3. g[n + 1] = g[(n + 1) - 1] \o Frame(q[n + 1]) /\ Frame(q[n + 1]) \in Seq(Bytes)
      BY <1>1, <1>10, <3>1, Zenon
    <3>4. g[n + 1] = g[n] \o Frame(q[n + 1])
      BY <3>1, <3>3
    <3>5. g[n + 1] \in Seq(Bytes)
      BY <3>2, <3>3, <3>4, ConcatProperties
    <3> QED BY <3>5
  <2> QED BY <2>1
<1> HIDE DEF Good
<1>13. \A n \in Nat : n \in Good
  BY <1>11, <1>12, Induction
<1>14. g \in [0 .. Len(q) -> Seq(Bytes)]
  <2>1. \A n \in 0 .. Len(q) : g[n] \in Seq(Bytes)
    BY <1>1, <1>13 DEF Good
  <2>2. g = [n \in 0 .. Len(q) |-> g[n]]
    BY <1>8
  <2> QED BY <2>1, <2>2
<1> QED BY <1>9, <1>10, <1>14

LEMMA Associative ==
    ASSUME NEW s \in Seq(Bytes), NEW t \in Seq(Bytes), NEW u \in Seq(Bytes)
    PROVE  (s \o t) \o u = s \o (t \o u)
BY ConcatAssociative

LEMMA StreamInSeq ==
    ASSUME NEW q \in Seq(Packets)
    PROVE  Stream(q) \in Seq(Bytes) /\ (q = <<>> => Stream(q) = <<>>)
<1>1. PICK f \in [0 .. Len(q) -> Seq(Bytes)] : f[0] = <<>> /\ f[Len(q)] = Stream(q)
  BY Streams
<1>2. Len(q) \in Nat /\ Len(q) \in 0 .. Len(q)
  BY LenProperties
<1>3. f[Len(q)] \in Seq(Bytes)
  BY <1>2
<1>4. q = <<>> => Len(q) = 0
  BY EmptySeq
<1> QED BY <1>1, <1>3, <1>4

LEMMA StreamAppend ==
    ASSUME NEW q \in Seq(Packets), NEW r \in Packets
    PROVE  Stream(Append(q, r)) = Stream(q) \o Frame(r)
<1> DEFINE p == Append(q, r)
<1>1. /\ p \in Seq(Packets) /\ Len(p) = Len(q) + 1 /\ p[Len(q) + 1] = r
      /\ \A n \in 1 .. Len(q) : p[n] = q[n]
  BY AppendProperties
<1> HIDE DEF p
<1>2. PICK N \in Nat : N = Len(q)
  BY LenProperties
<1>3. PICK f \in [0 .. N -> Seq(Bytes)] :
         /\ f[0] = <<>> /\ f[N] = Stream(q)
         /\ \A n \in 1 .. N : f[n] = f[n - 1] \o Frame(q[n])
  BY <1>2, Streams
<1>4. PICK g \in [0 .. (N + 1) -> Seq(Bytes)] :
         /\ g[0] = <<>> /\ g[N + 1] = Stream(p)
         /\ \A n \in 1 .. (N + 1) : g[n] = g[n - 1] \o Frame(p[n])
  <2>1. Len(p) = N + 1
    BY <1>1, <1>2
  <2> QED BY <1>1, <2>1, Streams
<1> DEFINE Good == {n \in Nat : n <= N => g[n] = f[n]}
<1>5. 0 \in Good
  BY <1>3, <1>4
<1>6. ASSUME NEW n \in Nat, n \in Good
      PROVE  n + 1 \in Good
  <2>1. CASE n + 1 <= N
    <3>1. n + 1 \in 1 .. N /\ n + 1 \in 1 .. (N + 1) /\ (n + 1) - 1 = n /\ g[n] = f[n]
      BY <1>6, <2>1
    <3>2. f[n + 1] = f[(n + 1) - 1] \o Frame(q[n + 1])
      BY <1>3, <3>1, Zenon
    <3>3. g[n + 1] = g[(n + 1) - 1] \o Frame(p[n + 1])
      BY <1>4, <3>1, Zenon
    <3>4. p[n + 1] = q[n + 1]
      BY <1>1, <1>2, <3>1
    <3>5. g[n + 1] = f[n + 1]
      BY <3>1, <3>2, <3>3, <3>4
    <3> QED BY <3>5
  <2> QED BY <2>1
<1> HIDE DEF Good
<1>7. g[N] = f[N]
  <2>1. N \in Good
    BY <1>5, <1>6, Induction
  <2> QED BY <2>1 DEF Good
<1>8. g[N + 1] = g[N] \o Frame(r)
  <2>1. N + 1 \in 1 .. (N + 1) /\ (N + 1) - 1 = N /\ p[N + 1] = r
    BY <1>1, <1>2
  <2>2. g[N + 1] = g[(N + 1) - 1] \o Frame(p[N + 1])
    BY <1>4, <2>1, Zenon
  <2> QED BY <2>1, <2>2
<1> QED BY <1>3, <1>4, <1>7, <1>8 DEF p

LEMMA StreamTail ==
    ASSUME NEW q \in Seq(Packets), q # <<>>
    PROVE  Stream(q) = Frame(q[1]) \o Stream(Tail(q))
<1> DEFINE p == Tail(q)
           b == Frame(q[1])
<1>1. p \in Seq(Packets) /\ Len(p) = Len(q) - 1 /\ \A n \in 1 .. Len(p) : p[n] = q[n + 1]
  BY HeadTailProperties
<1>2. PICK N \in Nat : Len(p) = N /\ Len(q) = N + 1
  <2>1. Len(p) \in Nat /\ Len(q) \in Nat
    BY <1>1, LenProperties
  <2> HIDE DEF p
  <2>2. Len(q) = Len(p) + 1
    BY <1>1, <2>1
  <2> QED BY <2>1, <2>2
<1>3. b \in Seq(Bytes)
  <2>1. q[1] \in Packets
    BY <1>2, ElementOfSeq
  <2> QED BY <2>1, FrameParts
<1> HIDE DEF p, b
<1>4. PICK f \in [0 .. (N + 1) -> Seq(Bytes)] :
         /\ f[0] = <<>> /\ f[N + 1] = Stream(q)
         /\ \A n \in 1 .. (N + 1) : f[n] = f[n - 1] \o Frame(q[n])
  BY <1>2, Streams
<1>5. PICK g \in [0 .. N -> Seq(Bytes)] :
         /\ g[0] = <<>> /\ g[N] = Stream(p)
         /\ \A n \in 1 .. N : g[n] = g[n - 1] \o Frame(p[n])
  BY <1>1, <1>2, Streams
<1> DEFINE Good == {n \in Nat : n <= N => f[n + 1] = b \o g[n]}
<1>6. 0 \in Good
  <2>1. 1 \in 1 .. (N + 1)
    OBVIOUS
  <2>2. f[1] = f[1 - 1] \o Frame(q[1])
    BY <1>4, <2>1, Zenon
  <2>3. f[1] = <<>> \o b
    <3>1. 1 - 1 = 0
      OBVIOUS
    <3> QED BY <1>4, <2>2, <3>1, Zenon DEF b
  <2>4. f[0 + 1] = b \o g[0]
    BY <1>3, <1>5, <2>3, ConcatEmptySeq
  <2> QED BY <2>4
<1>7. ASSUME NEW n \in Nat, n \in Good
      PROVE  n + 1 \in Good
  <2>1. CASE n + 1 <= N
    <3>1. /\ n + 1 \in 1 .. N /\ (n + 1) + 1 \in 1 .. (N + 1) /\ (n + 1) - 1 = n
          /\ ((n + 1) + 1) - 1 = n + 1 /\ n \in 0 .. N
      BY <2>1
    <3>2. f[n + 1] = b \o g[n]
      <4>1. n <= N
        BY <2>1
      <4> QED BY <1>7, <4>1, Zenon
    <3>3. g[n + 1] = g[(n + 1) - 1] \o Frame(p[n + 1])
      BY <1>5, <3>1, Zenon
    <3>4. f[(n + 1) + 1] = f[((n + 1) + 1) - 1] \o Frame(q[(n + 1) + 1])
      BY <1>4, <3>1, Zenon
    <3>5. p[n + 1] = q[(n + 1) + 1] /\ p[n + 1] \in Packets
      BY <1>1, <1>2, <3>1, ElementOfSeq
    <3>6. Frame(p[n + 1]) \in Seq(Bytes) /\ g[n] \in Seq(Bytes)
      BY <3>1, <3>5, FrameParts
    <3>7. f[(n + 1) + 1] = b \o g[n + 1]
      <4>1. f[(n + 1) + 1] = (b \o g[n]) \o Frame(p[n + 1])
        BY <3>1, <3>2, <3>4, <3>5
      <4>2. (b \o g[n]) \o Frame(p[n + 1]) = b \o (g[n] \o Frame(p[n + 1]))
        BY <1>3, <3>6, Associative, Zenon
      <4> QED BY <3>1, <3>3, <4>1, <4>2
    <3> QED BY <3>7
  <2> QED BY <2>1
<1> HIDE DEF Good
<1>8. f[N + 1] = b \o g[N]
  <2>1. N \in Good
    BY <1>6, <1>7, Induction
  <2> QED BY <2>1 DEF Good
<1> QED BY <1>4, <1>5, <1>8 DEF b, p

-----------------------------------------------------------------------------
(* Parts of sequences. *)

LEMMA FirstAndRest ==
    ASSUME NEW S, NEW s \in Seq(S), NEW n \in 0 .. Len(s)
    PROVE  /\ First(s, n) \in Seq(S) /\ Len(First(s, n)) = n
           /\ Rest(s, n) \in Seq(S) /\ Len(Rest(s, n)) = Len(s) - n
           /\ First(s, n) \o Rest(s, n) = s
           /\ \A i \in 1 .. n : First(s, n)[i] = s[i]
           /\ \A i \in 1 .. (Len(s) - n) : Rest(s, n)[i] = s[n + i]
<1>1. Len(s) \in Nat /\ \A i \in 1 .. Len(s) : s[i] \in S
  BY LenProperties, ElementOfSeq
<1>2. /\ First(s, n) \in Seq(S) /\ Len(First(s, n)) = n
      /\ \A i \in 1 .. n : First(s, n)[i] = s[i]
  BY <1>1 DEF First
<1>3. /\ Rest(s, n) \in Seq(S) /\ Len(Rest(s, n)) = Len(s) - n
      /\ \A i \in 1 .. (Len(s) - n) : Rest(s, n)[i] = s[n + i]
  BY <1>1 DEF Rest
<1>4. First(s, n) \o Rest(s, n) = s
  <2>1. SubSeq(s, 1, n) \o SubSeq(s, n + 1, Len(s)) = SubSeq(s, 1, Len(s))
    <3>1. 1 \in 1 .. (Len(s) + 1) /\ n \in (1 - 1) .. Len(s) /\ Len(s) \in n .. Len(s)
      BY <1>1
    <3> QED BY <3>1, ConcatAdjacentSubSeq
  <2>2. SubSeq(s, 1, Len(s)) = s
    BY SubSeqFull
  <2> QED BY <2>1, <2>2 DEF First, Rest
<1> QED BY <1>2, <1>3, <1>4

LEMMA RestOfAppend ==
    ASSUME NEW S, NEW q \in Seq(S), NEW r \in S, NEW n \in 0 .. Len(q)
    PROVE  Rest(Append(q, r), n) = Append(Rest(q, n), r)
<1> DEFINE p == Append(q, r)
<1>1. Len(q) \in Nat
  BY LenProperties
<1>2. /\ p \in Seq(S) /\ Len(p) = Len(q) + 1 /\ p[Len(q) + 1] = r
      /\ \A i \in 1 .. Len(q) : p[i] = q[i]
  BY AppendProperties
<1> HIDE DEF p
<1> DEFINE a == Rest(p, n)
           b == Rest(q, n)
           c == Append(b, r)
<1>3. /\ a \in Seq(S) /\ Len(a) = Len(q) + 1 - n
      /\ \A i \in 1 .. (Len(q) + 1 - n) : a[i] = p[n + i]
  <2>1. n \in 0 .. Len(p)
    BY <1>1, <1>2
  <2>2. /\ a \in Seq(S) /\ Len(a) = Len(p) - n
        /\ \A i \in 1 .. (Len(p) - n) : a[i] = p[n + i]
    BY <1>2, <2>1, FirstAndRest
  <2>3. Len(p) - n = Len(q) + 1 - n
    BY <1>2
  <2> QED BY <2>2, <2>3, Zenon
<1>4. /\ b \in Seq(S) /\ Len(b) = Len(q) - n
      /\ \A i \in 1 .. (Len(q) - n) : b[i] = q[n + i]
  BY FirstAndRest
<1> HIDE DEF a, b
<1>5. /\ c \in Seq(S) /\ Len(c) = Len(b) + 1 /\ c[Len(b) + 1] = r
      /\ \A i \in 1 .. Len(b) : c[i] = b[i]
  BY <1>4, AppendProperties
<1> HIDE DEF c
<1>6. Len(a) = Len(c) /\ Len(a) \in Nat
  BY <1>1, <1>3, <1>4, <1>5
<1>7. ASSUME NEW i \in 1 .. Len(a)
      PROVE  a[i] = c[i]
  <2>1. CASE i = Len(b) + 1
    BY <1>1, <1>2, <1>3, <1>4, <1>5, <2>1
  <2>2. CASE i # Len(b) + 1
    <3>1. i \in 1 .. Len(b) /\ i \in 1 .. (Len(q) - n) /\ i \in 1 .. (Len(q) + 1 - n) /\ n + i \in 1 .. Len(q)
      <4>1. Len(a) = Len(q) + 1 - n /\ Len(b) = Len(q) - n
        BY <1>3, <1>4
      <4> QED BY <1>1, <2>2, <4>1
    <3> QED BY <1>2, <1>3, <1>4, <1>5, <3>1, Zenon
  <2> QED BY <2>1, <2>2
<1>8. a = c
  BY <1>3, <1>5, <1>6, <1>7, SeqEqual
<1> QED BY <1>8 DEF a, b, c, p

LEMMA RestOfRest ==
    ASSUME NEW S, NEW q \in Seq(S), NEW n \in Nat, n < Len(q)
    PROVE  /\ Rest(q, n) \in Seq(S) /\ Rest(q, n) # <<>> /\ Rest(q, n)[1] = q[n + 1]
           /\ Rest(q, n + 1) = Tail(Rest(q, n))
<1> DEFINE a == Rest(q, n)
           b == Rest(q, n + 1)
<1>1. Len(q) \in Nat /\ n \in 0 .. Len(q) /\ n + 1 \in 0 .. Len(q)
  BY LenProperties
<1>2. /\ a \in Seq(S) /\ Len(a) = Len(q) - n
      /\ \A i \in 1 .. (Len(q) - n) : a[i] = q[n + i]
  BY <1>1, FirstAndRest
<1>3. /\ b \in Seq(S) /\ Len(b) = Len(q) - (n + 1)
      /\ \A i \in 1 .. (Len(q) - (n + 1)) : b[i] = q[(n + 1) + i]
  BY <1>1, FirstAndRest
<1> HIDE DEF a, b
<1>4. a # <<>> /\ a[1] = q[n + 1]
  BY <1>1, <1>2, EmptySeq
<1>5. /\ Tail(a) \in Seq(S) /\ Len(Tail(a)) = Len(a) - 1
      /\ \A i \in 1 .. Len(Tail(a)) : Tail(a)[i] = a[i + 1]
  BY <1>2, <1>4, HeadTailProperties
<1>6. Len(b) = Len(Tail(a)) /\ Len(b) \in Nat
  BY <1>1, <1>2, <1>3, <1>5
<1>7. ASSUME NEW i \in 1 .. Len(b)
      PROVE  b[i] = Tail(a)[i]
  <2>1. /\ i \in 1 .. (Len(q) - (n + 1)) /\ i \in 1 .. Len(Tail(a)) /\ i + 1 \in 1 .. (Len(q) - n)
        /\ (n + 1) + i = n + (i + 1)
    BY <1>1, <1>3, <1>6
  <2>2. b[i] = q[(n + 1) + i] /\ Tail(a)[i] = a[i + 1] /\ a[i + 1] = q[n + (i + 1)]
    BY <1>2, <1>3, <1>5, <2>1, Zenon
  <2> QED BY <2>1, <2>2
<1>8. b = Tail(a)
  BY <1>3, <1>5, <1>6, <1>7, SeqEqual
<1> QED BY <1>2, <1>4, <1>8 DEF a, b

LEMMA BeginsAppend ==
    ASSUME NEW S, NEW s \in Seq(S), NEW T, NEW t \in Seq(T), NEW r \in T, Begins(s, t)
    PROVE  Begins(s, Append(t, r))
<1>1. Len(s) \in Nat /\ Len(t) \in Nat
  BY LenProperties
<1>2. Len(Append(t, r)) = Len(t) + 1 /\ \A i \in 1 .. Len(t) : Append(t, r)[i] = t[i]
  BY AppendProperties
<1> QED BY <1>1, <1>2 DEF Begins

LEMMA AppendBegins ==
    ASSUME NEW S, NEW s \in Seq(S), NEW T, NEW t \in Seq(T), NEW r \in S,
           Begins(s, t), Len(s) < Len(t), r = t[Len(s) + 1]
    PROVE  Begins(Append(s, r), t)
<1>1. Len(s) \in Nat /\ Len(t) \in Nat
  BY LenProperties
<1>2. /\ Len(Append(s, r)) = Len(s) + 1 /\ Append(s, r)[Len(s) + 1] = r
      /\ \A i \in 1 .. Len(s) : Append(s, r)[i] = s[i]
  BY AppendProperties
<1>3. ASSUME NEW i \in 1 .. (Len(s) + 1)
      PROVE  Append(s, r)[i] = t[i]
  <2>1. CASE i = Len(s) + 1
    BY <1>2, <2>1
  <2>2. CASE i # Len(s) + 1
    <3>1. i \in 1 .. Len(s)
      BY <1>1, <2>2
    <3> QED BY <1>2, <3>1 DEF Begins
  <2> QED BY <2>1, <2>2
<1> QED BY <1>1, <1>2, <1>3 DEF Begins

\* What a sequence begins with, byte by byte.
LEMMA SameHead ==
    ASSUME NEW s \in Seq(Bytes), NEW t \in Seq(Bytes), NEW u \in Seq(Bytes), NEW v \in Seq(Bytes),
           Len(s) = Len(u), Begins(s \o t, u \o v)
    PROVE  s = u /\ Begins(t, v)
<1>1. Len(s) \in Nat /\ Len(t) \in Nat /\ Len(v) \in Nat
  BY LenProperties
<1>2. /\ s \o t \in Seq(Bytes) /\ Len(s \o t) = Len(s) + Len(t)
      /\ \A i \in 1 .. (Len(s) + Len(t)) : (s \o t)[i] = IF i <= Len(s) THEN s[i] ELSE t[i - Len(s)]
  BY ConcatProperties
<1>3. /\ u \o v \in Seq(Bytes) /\ Len(u \o v) = Len(u) + Len(v)
      /\ \A i \in 1 .. (Len(u) + Len(v)) : (u \o v)[i] = IF i <= Len(u) THEN u[i] ELSE v[i - Len(u)]
  BY ConcatProperties
<1>4. Len(t) <= Len(v)
  BY <1>1, <1>2, <1>3 DEF Begins
<1>5. \A i \in 1 .. (Len(s) + Len(t)) : (s \o t)[i] = (u \o v)[i]
  BY <1>2 DEF Begins
<1>6. ASSUME NEW i \in 1 .. Len(s)
      PROVE  s[i] = u[i]
  <2>1. i \in 1 .. (Len(s) + Len(t)) /\ i \in 1 .. (Len(u) + Len(v)) /\ i <= Len(s) /\ i <= Len(u)
    BY <1>1
  <2> QED BY <1>2, <1>3, <1>5, <2>1, Zenon
<1>7. ASSUME NEW i \in 1 .. Len(t)
      PROVE  t[i] = v[i]
  <2>1. /\ i + Len(s) \in 1 .. (Len(s) + Len(t)) /\ i + Len(s) \in 1 .. (Len(u) + Len(v))
        /\ ~(i + Len(s) <= Len(s)) /\ ~(i + Len(s) <= Len(u))
        /\ (i + Len(s)) - Len(s) = i /\ (i + Len(s)) - Len(u) = i
    BY <1>1, <1>4
  <2>2. (s \o t)[i + Len(s)] = t[(i + Len(s)) - Len(s)] /\ (u \o v)[i + Len(s)] = v[(i + Len(s)) - Len(u)]
    BY <1>2, <1>3, <2>1, Zenon
  <2> QED BY <1>5, <2>1, <2>2
<1>8. s = u
  BY <1>1, <1>6, SeqEqual
<1> QED BY <1>1, <1>4, <1>7, <1>8 DEF Begins

LEMMA BeginsConcat ==
    ASSUME NEW s \in Seq(Bytes), NEW t \in Seq(Bytes), NEW u \in Seq(Bytes), Begins(s \o t, u)
    PROVE  Begins(s, u)
<1>1. Len(s) \in Nat /\ Len(t) \in Nat /\ Len(u) \in Nat
  BY LenProperties
<1>2. /\ s \o t \in Seq(Bytes) /\ Len(s \o t) = Len(s) + Len(t)
      /\ \A i \in 1 .. (Len(s) + Len(t)) : (s \o t)[i] = IF i <= Len(s) THEN s[i] ELSE t[i - Len(s)]
  BY ConcatProperties
<1>3. Len(s) <= Len(u) /\ \A i \in 1 .. Len(s) : i \in 1 .. (Len(s) + Len(t)) /\ i <= Len(s)
  BY <1>1, <1>2 DEF Begins
<1>4. \A i \in 1 .. Len(s) : s[i] = (s \o t)[i]
  BY <1>2, <1>3, Zenon
<1>5. \A i \in 1 .. (Len(s) + Len(t)) : (s \o t)[i] = u[i]
  BY <1>2 DEF Begins
<1> QED BY <1>3, <1>4, <1>5 DEF Begins

LEMMA EqualsBegin ==
    ASSUME NEW s \in Seq(Bytes), NEW t \in Seq(Bytes)
    PROVE  /\ s = t => Begins(s, t)
           /\ Begins(s, t) /\ Len(s) = Len(t) => s = t
<1>1. Len(s) \in Nat /\ Len(t) \in Nat
  BY LenProperties
<1>2. Begins(s, t) /\ Len(s) = Len(t) => s = t
  BY <1>1, SeqEqual DEF Begins
<1> QED BY <1>1, <1>2 DEF Begins

-----------------------------------------------------------------------------
(* Types. *)

LEMMA BodyLenTypes ==
    ASSUME NEW l \in [1 .. LenBytes -> Bytes]
    PROVE  BodyLen(Value(l)) \in Nat
<1> USE FramingAssumption
<1>1. \A i \in Bytes : i \in Nat
  BY DEF Bytes
<1>2. l \in [1 .. LenBytes -> Nat]
  BY <1>1
<1>3. Value(l) \in Nat
  BY <1>2, ValueSums
<1>4. Span \in Nat \ {0}
  BY Weights DEF Span
<1>5. \A a \in Int, s \in Nat \ {0} : a % s \in Nat
  OBVIOUS
<1>6. Value(l) + Span - LenBytes \in Int
  BY <1>3, <1>4
<1> QED BY <1>4, <1>5, <1>6 DEF BodyLen

LEMMA PeerFacts ==
    ASSUME NEW e \in Ends
    PROVE  Peer(e) \in Ends /\ Peer(e) # e /\ Peer(Peer(e)) = e /\ \A d \in Ends : d = e \/ d = Peer(e)
BY DEF Peer, Ends

\* The types of what one end has, and of what it is sent.
LEMMA EndTypes ==
    ASSUME TypeOK, NEW e \in Ends
    PROVE  /\ net[e] \in Seq(Bytes) /\ out[e] \in Seq(Bytes) /\ body[e] \in Seq(Bytes)
           /\ len[e] \in [1 .. LenBytes -> Bytes] /\ len[e] \in Seq(Bytes) /\ Len(len[e]) = LenBytes
           /\ got[e] \in 0 .. LenBytes /\ LenBytes \in Nat \ {0}
           /\ Sent(e) \in Seq(Packets) /\ Received(e) \in Seq(Seq(Bytes))
<1>1. LenBytes \in Nat \ {0}
  BY FramingAssumption
<1>2. /\ net[e] \in Seq(Bytes) /\ out[e] \in Seq(Bytes) /\ body[e] \in Seq(Bytes)
      /\ len[e] \in [1 .. LenBytes -> Bytes] /\ got[e] \in 0 .. LenBytes
  BY DEF TypeOK
<1>3. len[e] \in Seq(Bytes) /\ Len(len[e]) = LenBytes
  <2>1. \A l \in [1 .. LenBytes -> Bytes] : l \in Seq(Bytes) /\ Len(l) = LenBytes
    BY <1>1
  <2> QED BY <1>2, <2>1, Zenon
<1>4. asked \in Seq(Packets) /\ answers \in Seq(Packets)
  <2>1. Commands \subseteq Packets /\ Replies \subseteq Packets
    BY DEF Packets
  <2> QED BY <2>1, SeqMonotonic DEF TypeOK
<1>5. Sent(e) \in Seq(Packets) /\ Received(e) \in Seq(Seq(Bytes))
  BY <1>4 DEF TypeOK, Sent, Received
<1> QED BY <1>1, <1>2, <1>3, <1>5

LEMMA ZeroTypes == Zero \in [1 .. LenBytes -> Bytes]
BY FramingAssumption DEF Zero, Bytes

LEMMA InitTypes == Init => TypeOK
<1> SUFFICES ASSUME Init PROVE TypeOK
  OBVIOUS
<1>1. <<>> \in Seq(Bytes) /\ <<>> \in Seq(Commands) /\ <<>> \in Seq(Replies) /\ <<>> \in Seq(Seq(Bytes))
  BY EmptySeq
<1>2. 0 \in 0 .. LenBytes
  BY FramingAssumption
<1> QED BY <1>1, <1>2, ZeroTypes DEF Init, TypeOK, Ends

\* What a call sends is its command, or the command's beginning.
LEMMA CallSends ==
    ASSUME MakeCall
    PROVE  \E c \in Commands, w \in Seq(Bytes) :
             /\ asked' = Append(asked, c) /\ out' = [out EXCEPT !["client"] = w]
             /\ w # <<>> /\ Begins(w, Frame(c))
             /\ \/ w = Frame(c) /\ faults' = faults
                \/ /\ Len(w) < Len(Frame(c)) /\ "short" \in Faults
                   /\ faults' = faults \cup {"short"}
<1>1. PICK c \in Commands :
        /\ asked' = Append(asked, c)
        /\ \/ out' = [out EXCEPT !["client"] = Frame(c)] /\ UNCHANGED faults
           \/ /\ "short" \in Faults /\ faults' = faults \cup {"short"}
              /\ \E n \in (LenBytes + 1) .. (LenBytes + Len(c) - 1) :
                   out' = [out EXCEPT !["client"] = First(Frame(c), n)]
  BY DEF MakeCall
<1>2. /\ c \in Packets /\ LenBytes \in Nat \ {0} /\ Len(c) \in Nat
      /\ Frame(c) \in Seq(Bytes) /\ Len(Frame(c)) = LenBytes + Len(c)
  BY FrameParts, FramingAssumption DEF Packets
<1>3. Frame(c) # <<>> /\ Begins(Frame(c), Frame(c))
  <2>1. Len(Frame(c)) # 0 /\ Len(Frame(c)) \in Nat
    BY <1>2
  <2> QED BY <2>1, EmptySeq DEF Begins
<1>4. CASE out' = [out EXCEPT !["client"] = Frame(c)] /\ UNCHANGED faults
  BY <1>1, <1>2, <1>3, <1>4
<1>5. CASE /\ "short" \in Faults /\ faults' = faults \cup {"short"}
           /\ \E n \in (LenBytes + 1) .. (LenBytes + Len(c) - 1) :
                out' = [out EXCEPT !["client"] = First(Frame(c), n)]
  <2>1. PICK n \in (LenBytes + 1) .. (LenBytes + Len(c) - 1) :
          out' = [out EXCEPT !["client"] = First(Frame(c), n)]
    BY <1>5
  <2>2. n \in 0 .. Len(Frame(c)) /\ n # 0 /\ n < Len(Frame(c))
    BY <1>2
  <2>3. /\ First(Frame(c), n) \in Seq(Bytes) /\ Len(First(Frame(c), n)) = n
        /\ \A i \in 1 .. n : First(Frame(c), n)[i] = Frame(c)[i]
    BY <1>2, <2>2, FirstAndRest
  <2> DEFINE w == First(Frame(c), n)
  <2>4. w \in Seq(Bytes) /\ Len(w) = n /\ \A i \in 1 .. n : w[i] = Frame(c)[i]
    BY <2>3
  <2>5. out' = [out EXCEPT !["client"] = w]
    BY <2>1
  <2> HIDE DEF w
  <2>6. Begins(w, Frame(c)) /\ Len(w) < Len(Frame(c)) /\ w # <<>>
    BY <2>2, <2>4, EmptySeq DEF Begins
  <2> QED BY <1>1, <1>5, <2>4, <2>5, <2>6
<1> QED BY <1>1, <1>4, <1>5

\* A packet to send has the type of what there is to send.
LEMMA CallTypes == TypeOK /\ MakeCall => TypeOK'
<1> SUFFICES ASSUME TypeOK, MakeCall PROVE TypeOK'
  OBVIOUS
<1>1. PICK c \in Commands, w \in Seq(Bytes) :
        /\ asked' = Append(asked, c) /\ out' = [out EXCEPT !["client"] = w]
        /\ \/ faults' = faults
           \/ "short" \in Faults /\ faults' = faults \cup {"short"}
  <2>1. PICK c \in Commands, w \in Seq(Bytes) :
             /\ asked' = Append(asked, c) /\ out' = [out EXCEPT !["client"] = w]
             /\ w # <<>> /\ Begins(w, Frame(c))
             /\ \/ w = Frame(c) /\ faults' = faults
                \/ /\ Len(w) < Len(Frame(c)) /\ "short" \in Faults
                   /\ faults' = faults \cup {"short"}
    BY CallSends
  <2> QED BY <2>1, Zenon
<1>2. faults' \subseteq Faults
  BY <1>1 DEF TypeOK
<1>3. asked' \in Seq(Commands)
  BY <1>1, AppendProperties DEF TypeOK
<1>4. out' \in [Ends -> Seq(Bytes)]
  BY <1>1 DEF TypeOK
<1>5. phase' = [phase EXCEPT !["client"] = "send"]
  BY DEF MakeCall
<1>6. phase' \in [Ends -> {"idle", "send", "len", "body", "closed"}]
  BY <1>5 DEF TypeOK
<1>7. \A e \in Ends : phase'[e] = "body" => phase[e] = "body" /\ Missing(e)' = Missing(e)
  BY <1>5 DEF MakeCall, recvVars, Missing, TypeOK
<1> QED BY <1>2, <1>3, <1>4, <1>6, <1>7 DEF TypeOK, MakeCall, recvVars

LEMMA SendTypes == ASSUME NEW e \in Ends PROVE TypeOK /\ SendData(e) => TypeOK'
<1> SUFFICES ASSUME TypeOK, SendData(e) PROVE TypeOK'
  OBVIOUS
<1>1. PICK n \in 1 .. Len(out[e]) :
         /\ net' = [net EXCEPT ![Peer(e)] =
                      IF phase[Peer(e)] = "closed" THEN @ ELSE @ \o First(out[e], n)]
         /\ out' = [out EXCEPT ![e] = Rest(@, n)]
         /\ phase' = [phase EXCEPT ![e] = IF n = Len(out[e]) THEN "len" ELSE @]
  BY DEF SendData
<1>2. First(out[e], n) \in Seq(Bytes) /\ Rest(out[e], n) \in Seq(Bytes)
  <2>1. out[e] \in Seq(Bytes) /\ n \in 0 .. Len(out[e])
    BY LenProperties DEF TypeOK
  <2> QED BY <2>1, FirstAndRest
<1>3. net' \in [Ends -> Seq(Bytes)]
  <2>1. net[Peer(e)] \o First(out[e], n) \in Seq(Bytes)
    BY <1>2, PeerFacts, ConcatProperties DEF TypeOK
  <2> QED BY <1>1, <2>1 DEF TypeOK
<1>4. out' \in [Ends -> Seq(Bytes)]
  BY <1>1, <1>2 DEF TypeOK
<1>5. phase' \in [Ends -> {"idle", "send", "len", "body", "closed"}]
  BY <1>1 DEF TypeOK
<1>6. /\ len' \in [Ends -> [1 .. LenBytes -> Bytes]] /\ got' \in [Ends -> 0 .. LenBytes]
      /\ body' \in [Ends -> Seq(Bytes)]
  <2>1. 0 \in 0 .. LenBytes /\ <<>> \in Seq(Bytes)
    BY FramingAssumption, EmptySeq
  <2> QED BY <2>1, ZeroTypes DEF TypeOK, SendData
<1>7. \A d \in Ends : phase'[d] = "body" => phase[d] = "body" /\ Missing(d)' = Missing(d)
  <2>1. ASSUME NEW d \in Ends, phase'[d] = "body"
        PROVE  phase[d] = "body" /\ Missing(d)' = Missing(d)
    <3>1. d # e /\ phase[d] = "body"
      BY <1>1, <2>1 DEF TypeOK, SendData
    <3> QED BY <3>1 DEF Missing, TypeOK, SendData
  <2> QED BY <2>1
<1> QED BY <1>3, <1>4, <1>5, <1>6, <1>7 DEF TypeOK, SendData, history

LEMMA PlacedTypes ==
    ASSUME TypeOK, NEW e \in Ends, NEW n \in 1 .. (LenBytes - got[e]), n <= Len(net[e])
    PROVE  Placed(e, n) \in [1 .. LenBytes -> Bytes]
<1> DEFINE i0 == IF e = "client" THEN got[e] ELSE 0
<1>1. /\ net[e] \in Seq(Bytes) /\ len[e] \in [1 .. LenBytes -> Bytes] /\ got[e] \in 0 .. LenBytes
      /\ LenBytes \in Nat \ {0}
  BY EndTypes
<1>2. i0 \in Nat
  BY <1>1
<1> HIDE DEF i0
<1>3. Placed(e, n) = [i \in 1 .. LenBytes |-> IF i \in (i0 + 1) .. (i0 + n) THEN net[e][i - i0]
                                                                          ELSE len[e][i]]
  BY DEF Placed, i0
<1>4. ASSUME NEW i \in 1 .. LenBytes, i \in (i0 + 1) .. (i0 + n)
      PROVE  net[e][i - i0] \in Bytes
  <2>1. i - i0 \in 1 .. Len(net[e])
    BY <1>1, <1>2, <1>4, LenProperties
  <2> QED BY <1>1, <2>1, ElementOfSeq
<1> QED BY <1>1, <1>3, <1>4

LEMMA RecvLenTypes == ASSUME NEW e \in Ends PROVE TypeOK /\ Phases /\ RecvLen(e) => TypeOK'
<1> SUFFICES ASSUME TypeOK, Phases, RecvLen(e) PROVE TypeOK'
  OBVIOUS
<1>1. PICK n \in 1 .. (LenBytes - got[e]) :
         /\ n <= Len(net[e])
         /\ len' = [len EXCEPT ![e] = Placed(e, n)]
         /\ net' = [net EXCEPT ![e] = Rest(@, n)]
         /\ got' = [got EXCEPT ![e] = @ + n]
  BY DEF RecvLen
<1>2. got[e] \in 0 .. LenBytes /\ LenBytes \in Nat \ {0} /\ net[e] \in Seq(Bytes) /\ body[e] \in Seq(Bytes)
  BY EndTypes
<1>3. got' \in [Ends -> 0 .. LenBytes]
  <2>1. got[e] + n \in 0 .. LenBytes
    BY <1>2
  <2> QED BY <1>1, <2>1 DEF TypeOK
<1>4. net' \in [Ends -> Seq(Bytes)]
  <2>1. Rest(net[e], n) \in Seq(Bytes)
    <3>1. n \in 0 .. Len(net[e])
      BY <1>1, <1>2, LenProperties
    <3> QED BY <1>2, <3>1, FirstAndRest
  <2> QED BY <1>1, <2>1 DEF TypeOK
<1>5. len' \in [Ends -> [1 .. LenBytes -> Bytes]]
  BY <1>1, PlacedTypes DEF TypeOK
<1>6. phase' \in [Ends -> {"idle", "send", "len", "body", "closed"}]
  BY DEF TypeOK, RecvLen
<1>7. faults' \subseteq Faults
  BY DEF TypeOK, RecvLen
<1>8. ASSUME NEW d \in Ends, phase'[d] = "body"
      PROVE  Missing(d)' >= 0
  <2>1. CASE d = e
    <3>1. body'[e] = <<>>
      BY DEF RecvLen, Phases
    <3>2. Missing(e)' = BodyLen(Value(len'[e])) - 0
      BY <3>1, EmptySeq DEF Missing
    <3>3. BodyLen(Value(len'[e])) \in Nat
      BY <1>5, BodyLenTypes
    <3> QED BY <2>1, <3>2, <3>3
  <2>2. CASE d # e
    BY <1>1, <1>8, <2>2 DEF Missing, TypeOK, RecvLen
  <2> QED BY <2>1, <2>2
<1> QED BY <1>3, <1>4, <1>5, <1>6, <1>7, <1>8 DEF TypeOK, RecvLen, history

LEMMA AllocTypes == ASSUME NEW e \in Ends PROVE TypeOK /\ AllocFails(e) => TypeOK'
<1> SUFFICES ASSUME TypeOK, AllocFails(e) PROVE TypeOK'
  OBVIOUS
<1>1. phase' \in [Ends -> {"idle", "send", "len", "body", "closed"}]
  BY DEF TypeOK, AllocFails
<1>2. returned' \in Seq(Seq(Bytes))
  <2>1. <<>> \in Seq(Bytes)
    BY EmptySeq
  <2> QED BY <2>1, AppendProperties DEF TypeOK, AllocFails
<1>3. len' \in [Ends -> [1 .. LenBytes -> Bytes]] /\ got' \in [Ends -> 0 .. LenBytes]
  <2>1. 0 \in 0 .. LenBytes
    BY FramingAssumption
  <2> QED BY <2>1, ZeroTypes DEF TypeOK, AllocFails
<1>4. faults' \subseteq Faults
  BY DEF TypeOK, AllocFails
<1>5. \A d \in Ends : phase'[d] = "body" => phase[d] = "body" /\ Missing(d)' = Missing(d)
  BY DEF TypeOK, AllocFails, Missing
<1> QED BY <1>1, <1>2, <1>3, <1>4, <1>5 DEF TypeOK, AllocFails

LEMMA RecvBodyTypes == ASSUME NEW e \in Ends PROVE TypeOK /\ RecvBody(e) => TypeOK'
<1> SUFFICES ASSUME TypeOK, RecvBody(e) PROVE TypeOK'
  OBVIOUS
<1>1. PICK n \in 1 .. Missing(e) :
         /\ n <= Len(net[e])
         /\ body' = [body EXCEPT ![e] = @ \o First(net[e], n)]
         /\ net' = [net EXCEPT ![e] = Rest(@, n)]
  BY DEF RecvBody
<1>2. net[e] \in Seq(Bytes) /\ body[e] \in Seq(Bytes) /\ Missing(e) \in Int /\ n \in 0 .. Len(net[e])
  <2>1. net[e] \in Seq(Bytes) /\ body[e] \in Seq(Bytes) /\ len[e] \in [1 .. LenBytes -> Bytes]
    BY EndTypes
  <2>2. BodyLen(Value(len[e])) \in Nat /\ Len(body[e]) \in Nat /\ Len(net[e]) \in Nat
    BY <2>1, BodyLenTypes, LenProperties
  <2> QED BY <1>1, <2>1, <2>2 DEF Missing
<1>3. /\ First(net[e], n) \in Seq(Bytes) /\ Len(First(net[e], n)) = n
      /\ Rest(net[e], n) \in Seq(Bytes)
  BY <1>2, FirstAndRest
<1>4. /\ body[e] \o First(net[e], n) \in Seq(Bytes)
      /\ Len(body[e] \o First(net[e], n)) = Len(body[e]) + n
  <2>1. \A s, t \in Seq(Bytes) : s \o t \in Seq(Bytes) /\ Len(s \o t) = Len(s) + Len(t)
    BY ConcatProperties
  <2> QED BY <1>2, <1>3, <2>1, Zenon
<1>5. net' \in [Ends -> Seq(Bytes)] /\ body' \in [Ends -> Seq(Bytes)]
  BY <1>1, <1>3, <1>4 DEF TypeOK
<1>6. ASSUME NEW d \in Ends, phase'[d] = "body"
      PROVE  Missing(d)' >= 0
  <2>1. CASE d = e
    <3>1. Missing(e)' = BodyLen(Value(len[e])) - (Len(body[e]) + n)
      BY <1>1, <1>4 DEF Missing, RecvBody, TypeOK
    <3>2. len[e] \in [1 .. LenBytes -> Bytes] /\ BodyLen(Value(len[e])) \in Nat /\ Len(body[e]) \in Nat
      BY <1>2, EndTypes, BodyLenTypes, LenProperties
    <3> QED BY <1>1, <1>2, <2>1, <3>1, <3>2 DEF Missing
  <2>2. CASE d # e
    BY <1>1, <1>6, <2>2 DEF Missing, TypeOK, RecvBody
  <2> QED BY <2>1, <2>2
<1> QED BY <1>5, <1>6 DEF TypeOK, RecvBody, history

LEMMA ReturnTypes == TypeOK /\ ReturnReply => TypeOK'
<1> SUFFICES ASSUME TypeOK, ReturnReply PROVE TypeOK'
  OBVIOUS
<1>1. returned' \in Seq(Seq(Bytes))
  <2>1. body["client"] \in Seq(Bytes)
    BY DEF TypeOK, Ends
  <2> QED BY <2>1, AppendProperties DEF TypeOK, ReturnReply
<1>2. phase' \in [Ends -> {"idle", "send", "len", "body", "closed"}]
  BY DEF TypeOK, ReturnReply
<1>3. \A d \in Ends : phase'[d] = "body" => phase[d] = "body" /\ Missing(d)' = Missing(d)
  BY DEF TypeOK, ReturnReply, recvVars, Missing
<1> QED BY <1>1, <1>2, <1>3 DEF TypeOK, ReturnReply, recvVars

LEMMA ProcessTypes == TypeOK /\ ProcessCommand => TypeOK'
<1> SUFFICES ASSUME TypeOK, ProcessCommand PROVE TypeOK'
  OBVIOUS
<1>1. PICK r \in Replies : answers' = Append(answers, r) /\ out' = [out EXCEPT !["server"] = Frame(r)]
  BY DEF ProcessCommand
<1>2. Frame(r) \in Seq(Bytes)
  BY FrameParts DEF Packets
<1>3. answers' \in Seq(Replies)
  BY <1>1, AppendProperties DEF TypeOK
<1>4. out' \in [Ends -> Seq(Bytes)]
  BY <1>1, <1>2 DEF TypeOK
<1>5. executed' \in Seq(Seq(Bytes))
  <2>1. body["server"] \in Seq(Bytes)
    BY DEF TypeOK, Ends
  <2> QED BY <2>1, AppendProperties DEF TypeOK, ProcessCommand
<1>6. phase' \in [Ends -> {"idle", "send", "len", "body", "closed"}]
  BY DEF TypeOK, ProcessCommand
<1>7. \A d \in Ends : phase'[d] = "body" => phase[d] = "body" /\ Missing(d)' = Missing(d)
  BY DEF TypeOK, ProcessCommand, recvVars, Missing
<1> QED BY <1>3, <1>4, <1>5, <1>6, <1>7 DEF TypeOK, ProcessCommand, recvVars

LEMMA ProcessNullTypes == TypeOK /\ ProcessCommandNull => TypeOK'
<1> SUFFICES ASSUME TypeOK, ProcessCommandNull PROVE TypeOK'
  OBVIOUS
<1>1. executed' \in Seq(Seq(Bytes))
  <2>1. body["server"] \in Seq(Bytes)
    BY DEF TypeOK, Ends
  <2> QED BY <2>1, AppendProperties DEF TypeOK, ProcessCommandNull
<1>2. phase' \in [Ends -> {"idle", "send", "len", "body", "closed"}]
  BY DEF TypeOK, ProcessCommandNull
<1>3. /\ len' \in [Ends -> [1 .. LenBytes -> Bytes]] /\ got' \in [Ends -> 0 .. LenBytes]
      /\ body' \in [Ends -> Seq(Bytes)]
  <2>1. 0 \in 0 .. LenBytes /\ <<>> \in Seq(Bytes)
    BY FramingAssumption, EmptySeq
  <2> QED BY <2>1, ZeroTypes DEF TypeOK, ProcessCommandNull
<1>4. faults' \subseteq Faults
  BY DEF TypeOK, ProcessCommandNull
<1>5. ASSUME NEW d \in Ends, phase'[d] = "body"
      PROVE  Missing(d)' >= 0
  <2>1. d # "server" /\ phase[d] = "body" /\ len'[d] = len[d] /\ body'[d] = body[d]
    BY <1>5 DEF TypeOK, ProcessCommandNull
  <2> QED BY <2>1 DEF TypeOK, Missing
<1> QED BY <1>1, <1>2, <1>3, <1>4, <1>5 DEF TypeOK, ProcessCommandNull

LEMMA CloseTypes ==
    ASSUME TypeOK, NEW e \in Ends, Close(e), UNCHANGED recvVars
    PROVE  /\ phase' \in [Ends -> {"idle", "send", "len", "body", "closed"}]
           /\ net' \in [Ends -> Seq(Bytes)] /\ out' \in [Ends -> Seq(Bytes)]
           /\ \A d \in Ends : phase'[d] = "body" => Missing(d)' >= 0
<1>1. phase' \in [Ends -> {"idle", "send", "len", "body", "closed"}]
  BY DEF TypeOK, Close
<1>2. net' \in [Ends -> Seq(Bytes)] /\ out' \in [Ends -> Seq(Bytes)]
  BY EmptySeq DEF TypeOK, Close
<1>3. \A d \in Ends : phase'[d] = "body" => phase[d] = "body" /\ Missing(d)' = Missing(d)
  BY DEF TypeOK, Close, recvVars, Missing
<1> QED BY <1>1, <1>2, <1>3 DEF TypeOK

LEMMA DisconnectTypes == ASSUME NEW e \in Ends PROVE TypeOK /\ Disconnect(e) => TypeOK'
<1> SUFFICES ASSUME TypeOK, Disconnect(e) PROVE TypeOK'
  OBVIOUS
<1>1. Close(e) /\ UNCHANGED recvVars
  BY DEF Disconnect
<1> QED BY <1>1, CloseTypes DEF TypeOK, Disconnect, recvVars, history

\* A torn packet is as long as the body that was expected.
LEMMA TornPacket ==
    ASSUME TypeOK, phase["client"] = "body"
    PROVE  LET torn == body["client"] \o [i \in 1 .. Missing("client") |-> Unset] IN
           /\ torn \in Seq(Bytes \cup {Unset})
           /\ Len(torn) = BodyLen(Value(len["client"]))
           /\ \A i \in 1 .. Len(body["client"]) : torn[i] = body["client"][i]
           /\ \A i \in (Len(body["client"]) + 1) .. Len(torn) : torn[i] = Unset
<1> DEFINE b == body["client"]
           m == Missing("client")
           u == [i \in 1 .. m |-> Unset]
           T == Bytes \cup {Unset}
           torn == b \o u
<1>1. b \in Seq(Bytes) /\ len["client"] \in [1 .. LenBytes -> Bytes]
  BY EndTypes DEF Ends
<1>2. BodyLen(Value(len["client"])) \in Nat /\ Len(b) \in Nat
  BY <1>1, BodyLenTypes, LenProperties
<1>3. m \in Nat /\ Len(b) + m = BodyLen(Value(len["client"]))
  BY <1>2 DEF Missing, TypeOK, Ends
<1>4. b \in Seq(T)
  <2>1. Bytes \subseteq T
    OBVIOUS
  <2> HIDE DEF T
  <2> QED BY <1>1, <2>1, SeqMonotonic
<1> HIDE DEF m, T
<1>5. u \in Seq(T) /\ Len(u) = m /\ \A i \in 1 .. m : u[i] = Unset
  BY <1>3 DEF T
<1> HIDE DEF u, b
<1>6. /\ torn \in Seq(T) /\ Len(torn) = Len(b) + Len(u)
      /\ \A i \in 1 .. (Len(b) + Len(u)) : torn[i] = IF i <= Len(b) THEN b[i] ELSE u[i - Len(b)]
  BY <1>4, <1>5, ConcatProperties
<1> HIDE DEF torn
<1>7. Len(torn) = BodyLen(Value(len["client"]))
  BY <1>3, <1>5, <1>6
<1>8. ASSUME NEW i \in 1 .. Len(b)
      PROVE  torn[i] = b[i]
  <2>1. i \in 1 .. (Len(b) + Len(u)) /\ i <= Len(b)
    BY <1>2, <1>3, <1>5
  <2> QED BY <1>6, <2>1, Zenon
<1>9. ASSUME NEW i \in (Len(b) + 1) .. Len(torn)
      PROVE  torn[i] = Unset
  <2>1. i \in 1 .. (Len(b) + Len(u)) /\ ~(i <= Len(b)) /\ i - Len(b) \in 1 .. m
    BY <1>2, <1>3, <1>5, <1>6
  <2>2. torn[i] = u[i - Len(b)]
    BY <1>6, <2>1, Zenon
  <2> QED BY <1>5, <2>1, <2>2
<1> QED BY <1>6, <1>7, <1>8, <1>9 DEF torn, u, b, m, T

LEMMA GetReplyFailsTypes == TypeOK /\ GetReplyFails => TypeOK'
<1> SUFFICES ASSUME TypeOK, GetReplyFails PROVE TypeOK'
  OBVIOUS
<1>1. "client" \in Ends /\ Close("client") /\ UNCHANGED recvVars
  BY DEF GetReplyFails, Ends
<1> DEFINE torn == body["client"] \o [i \in 1 .. Missing("client") |-> Unset]
<1>2. \/ broken' = {<<>>}
      \/ phase["client"] = "body" /\ broken' = {torn}
  BY Zenon DEF GetReplyFails
<1>3. <<>> \in Seq(Bytes \cup {Unset})
  BY EmptySeq
<1>4. phase["client"] = "body" => torn \in Seq(Bytes \cup {Unset})
  BY TornPacket
<1> HIDE DEF torn
<1>5. broken' \subseteq Seq(Bytes \cup {Unset})
  BY <1>2, <1>3, <1>4
<1> QED BY <1>1, <1>5, CloseTypes DEF TypeOK, GetReplyFails, recvVars

-----------------------------------------------------------------------------
(* Phases and counts. *)

LEMMA FrameNotEmpty == \A b \in Packets : Frame(b) # <<>>
<1> SUFFICES ASSUME NEW b \in Packets PROVE Frame(b) # <<>>
  OBVIOUS
<1>1. LenBytes \in Nat \ {0} /\ Len(b) \in Nat /\ Len(Frame(b)) = LenBytes + Len(b)
  BY FramingAssumption, FrameParts
<1>2. Len(Frame(b)) # 0
  BY <1>1
<1> QED BY <1>2, EmptySeq

LEMMA PhasesKept == TypeOK /\ Phases /\ Next => Phases'
<1> SUFFICES ASSUME TypeOK, Phases, Next PROVE Phases'
  OBVIOUS
<1> USE DEF Ends
<1>0. LenBytes \in Nat \ {0}
  BY FramingAssumption
<1>1. CASE MakeCall
  <2>1. PICK w \in Seq(Bytes) : out' = [out EXCEPT !["client"] = w] /\ w # <<>> /\ faults \subseteq faults'
    BY <1>1, CallSends
  <2> QED BY <1>1, <2>1 DEF MakeCall, Phases, TypeOK, recvVars
<1>2. CASE ReturnReply
  BY <1>2 DEF ReturnReply, Phases, TypeOK, recvVars
<1>3. CASE ProcessCommand
  <2>1. PICK r \in Replies : out' = [out EXCEPT !["server"] = Frame(r)]
    BY <1>3 DEF ProcessCommand
  <2>2. Frame(r) # <<>>
    BY FrameNotEmpty DEF Packets
  <2> QED BY <1>3, <2>1, <2>2 DEF ProcessCommand, Phases, TypeOK, recvVars
<1>4. ASSUME NEW e \in Ends, SendData(e) PROVE Phases'
  <2>1. PICK n \in 1 .. Len(out[e]) :
           /\ out' = [out EXCEPT ![e] = Rest(@, n)]
           /\ phase' = [phase EXCEPT ![e] = IF n = Len(out[e]) THEN "len" ELSE @]
    BY <1>4 DEF SendData
  <2>2. Rest(out[e], n) # <<>> <=> n # Len(out[e])
    <3>1. out[e] \in Seq(Bytes) /\ n \in 0 .. Len(out[e]) /\ Len(out[e]) \in Nat
      BY LenProperties DEF TypeOK
    <3>2. Rest(out[e], n) \in Seq(Bytes) /\ Len(Rest(out[e], n)) = Len(out[e]) - n
      BY <3>1, FirstAndRest
    <3> HIDE DEF Rest
    <3>3. Rest(out[e], n) = <<>> <=> Len(Rest(out[e], n)) = 0
      BY <3>2, EmptySeq
    <3> QED BY <3>1, <3>2, <3>3
  <2>3. phase[e] = "send" /\ (n = Len(out[e]) => phase'[e] = "len") /\ (n # Len(out[e]) => phase'[e] = "send")
    BY <1>4, <2>1 DEF SendData, TypeOK
  <2>4. phase'[e] = "send" <=> out'[e] # <<>>
    BY <2>1, <2>2, <2>3 DEF TypeOK
  <2>5. got'[e] = 0 /\ body'[e] = <<>> /\ phase'[e] # "body" /\ phase'[e] # "idle"
    BY <1>4, <2>3 DEF SendData, TypeOK
  <2>6. \A d \in Ends : d # e => /\ phase'[d] = phase[d] /\ out'[d] = out[d]
                                 /\ got'[d] = got[d] /\ body'[d] = body[d]
    BY <1>4, <2>1 DEF SendData, TypeOK
  <2>7. faults' = faults /\ broken' = broken
    BY <1>4 DEF SendData, history
  <2>8. phase["client"] = "closed" => phase'["client"] = "closed"
    BY <2>3, <2>6
  <2> QED BY <1>0, <2>4, <2>5, <2>6, <2>7, <2>8 DEF Phases
<1>5. ASSUME NEW e \in Ends, RecvLen(e) PROVE Phases'
  <2>1. PICK n \in 1 .. (LenBytes - got[e]) : got' = [got EXCEPT ![e] = @ + n]
    BY <1>5 DEF RecvLen
  <2>2. got'[e] = got[e] + n /\ got[e] \in 0 .. LenBytes /\ n \in Nat \ {0} /\ got[e] + n <= LenBytes
    BY <1>0, <2>1 DEF TypeOK
  <2>3. /\ phase[e] = "len" /\ body'[e] = <<>> /\ out'[e] = <<>>
        /\ phase'[e] = IF got'[e] = LenBytes THEN "body" ELSE "len"
    BY <1>5 DEF RecvLen, TypeOK, Phases
  <2>4. \A d \in Ends : d # e => /\ phase'[d] = phase[d] /\ out'[d] = out[d]
                                 /\ got'[d] = got[d] /\ body'[d] = body[d]
    BY <1>5, <2>1 DEF RecvLen, TypeOK
  <2>5. faults \subseteq faults' /\ (e = "server" /\ phase'[e] = "len" => "split" \in faults')
    <3>1. IF e = "server" /\ got'[e] < LenBytes THEN faults' = faults \cup {"split"} ELSE faults' = faults
      BY <1>5 DEF RecvLen
    <3>2. faults \subseteq faults'
      BY <3>1
    <3>3. phase'[e] = "len" => got'[e] < LenBytes
      BY <1>0, <2>2, <2>3
    <3> QED BY <3>1, <3>2, <3>3
  <2>6. broken' = broken /\ (phase["client"] = "closed" => phase'["client"] = "closed")
    BY <1>5, <2>3, <2>4 DEF RecvLen, history
  <2> QED BY <1>0, <2>2, <2>3, <2>4, <2>5, <2>6 DEF Phases
<1>6. ASSUME NEW e \in Ends, AllocFails(e) PROVE Phases'
  <2>1. /\ phase[e] = "body" /\ out'[e] = <<>> /\ body'[e] = <<>> /\ got'[e] = 0
        /\ phase'[e] = IF e = "client" THEN "idle" ELSE "len"
    BY <1>6 DEF AllocFails, Phases, TypeOK
  <2>2. \A d \in Ends : d # e => /\ phase'[d] = phase[d] /\ out'[d] = out[d]
                                 /\ got'[d] = got[d] /\ body'[d] = body[d]
    BY <1>6 DEF AllocFails, TypeOK
  <2>3. faults \subseteq faults'
    <3>1. faults' = faults \cup {IF e = "client" THEN "replyNull" ELSE "cmdNull"}
      BY <1>6, Zenon DEF AllocFails
    <3> QED BY <3>1, Zenon
  <2>4. broken' = broken /\ (phase["client"] = "closed" => phase'["client"] = "closed")
    BY <1>6, <2>1, <2>2 DEF AllocFails
  <2> QED BY <1>0, <2>1, <2>2, <2>3, <2>4 DEF Phases
<1>7. ASSUME NEW e \in Ends, RecvBody(e) PROVE Phases'
  <2>1. /\ phase' = phase /\ out' = out /\ got' = got /\ faults' = faults /\ phase[e] = "body"
        /\ broken' = broken
        /\ \A d \in Ends : d # e => body'[d] = body[d]
    BY <1>7 DEF RecvBody, TypeOK, history
  <2> QED BY <2>1 DEF Phases
<1>8. ASSUME NEW e \in Ends, Disconnect(e) PROVE Phases'
  BY <1>8 DEF Disconnect, Close, Phases, TypeOK, recvVars, history
<1>9. CASE GetReplyFails
  BY <1>9 DEF GetReplyFails, Close, Phases, TypeOK, recvVars
<1>10. CASE ProcessCommandNull
  BY <1>0, <1>10 DEF ProcessCommandNull, Phases, TypeOK
<1> QED BY <1>1, <1>2, <1>3, <1>4, <1>5, <1>6, <1>7, <1>8, <1>9, <1>10 DEF Next

LEMMA CountsKept == TypeOK /\ Phases /\ Counts /\ Next => Counts'
<1> SUFFICES ASSUME TypeOK, Phases, Counts, Next PROVE Counts'
  OBVIOUS
<1> USE DEF Ends
<1>0. Len(asked) \in Nat /\ Len(returned) \in Nat /\ Len(executed) \in Nat /\ Len(answers) \in Nat
  BY LenProperties DEF TypeOK
<1>1. CASE MakeCall
  <2>1. Len(asked') = Len(asked) + 1
    BY <1>1, AppendProperties DEF MakeCall, TypeOK
  <2>2. faults \subseteq faults'
    BY <1>1, CallSends
  <2> QED BY <1>0, <1>1, <2>1, <2>2 DEF MakeCall, Counts, TypeOK
<1>2. CASE ReturnReply
  <2>1. Len(returned') = Len(returned) + 1
    BY <1>2, AppendProperties DEF ReturnReply, TypeOK
  <2> QED BY <1>0, <1>2, <2>1 DEF ReturnReply, Counts, TypeOK
<1>3. CASE ProcessCommand
  <2>1. Len(executed') = Len(executed) + 1
    BY <1>3, AppendProperties DEF ProcessCommand, TypeOK
  <2>2. Len(answers') = Len(answers) + 1
    BY <1>3, AppendProperties DEF ProcessCommand, TypeOK
  <2> QED BY <1>0, <1>3, <2>1, <2>2 DEF ProcessCommand, Counts, TypeOK
<1>4. ASSUME NEW e \in Ends, SendData(e) PROVE Counts'
  BY <1>4 DEF SendData, Counts, TypeOK, history
<1>5. ASSUME NEW e \in Ends, RecvLen(e) PROVE Counts'
  <2>1. faults \subseteq faults'
    BY <1>5 DEF RecvLen
  <2> QED BY <1>5, <2>1 DEF RecvLen, Counts, TypeOK, history
<1>6. ASSUME NEW e \in Ends, AllocFails(e) PROVE Counts'
  <2>0. faults \subseteq faults'
    <3>1. faults' = faults \cup {IF e = "client" THEN "replyNull" ELSE "cmdNull"}
      BY <1>6, Zenon DEF AllocFails
    <3> QED BY <3>1, Zenon
  <2>1. CASE e = "client"
    <3>1. Len(returned') = Len(returned) + 1
      <4>1. <<>> \in Seq(Bytes)
        BY EmptySeq
      <4> QED BY <1>6, <2>1, <4>1, AppendProperties DEF AllocFails, TypeOK
    <3> QED BY <1>0, <1>6, <2>0, <2>1, <3>1 DEF AllocFails, Counts, TypeOK
  <2>2. CASE e = "server"
    BY <1>6, <2>0, <2>2 DEF AllocFails, Counts, TypeOK
  <2> QED BY <2>1, <2>2
<1>7. ASSUME NEW e \in Ends, RecvBody(e) PROVE Counts'
  BY <1>7 DEF RecvBody, Counts, TypeOK, history
<1>8. ASSUME NEW e \in Ends, Disconnect(e) PROVE Counts'
  BY <1>8 DEF Disconnect, Close, Counts, TypeOK, history
<1>9. CASE GetReplyFails
  BY <1>9 DEF GetReplyFails, Close, Counts, TypeOK
<1>10. CASE ProcessCommandNull
  <2>1. Len(executed') = Len(executed) + 1
    BY <1>10, AppendProperties DEF ProcessCommandNull, TypeOK
  <2> QED BY <1>0, <1>10, <2>1 DEF ProcessCommandNull, Counts, TypeOK
<1> QED BY <1>1, <1>2, <1>3, <1>4, <1>5, <1>6, <1>7, <1>8, <1>9, <1>10 DEF Next

-----------------------------------------------------------------------------
(* What is on its way to an end. *)

LEMMA WayTypes ==
    ASSUME TypeOK, NEW e \in Ends
    PROVE  Part(e) \in Seq(Bytes) /\ OnItsWay(e) \in Seq(Bytes)
<1>1. /\ net[e] \in Seq(Bytes) /\ body[e] \in Seq(Bytes) /\ got[e] \in 0 .. LenBytes
      /\ len[e] \in Seq(Bytes) /\ Len(len[e]) = LenBytes
  BY EndTypes
<1>2. out[Peer(e)] \in Seq(Bytes)
  BY PeerFacts, EndTypes
<1>3. First(len[e], got[e]) \in Seq(Bytes)
  BY <1>1, FirstAndRest
<1>4. \A s, t \in Seq(Bytes) : s \o t \in Seq(Bytes)
  BY ConcatProperties
<1>5. <<>> \in Seq(Bytes)
  BY EmptySeq
<1>6. Part(e) \in Seq(Bytes)
  <2>1. len[e] \o body[e] \in Seq(Bytes)
    BY <1>1, <1>4, Zenon
  <2>2. CASE phase[e] = "len"
    BY <1>3, <2>2 DEF Part
  <2>3. CASE phase[e] = "body"
    BY <2>1, <2>3 DEF Part
  <2>4. CASE phase[e] # "len" /\ phase[e] # "body"
    BY <1>5, <2>4 DEF Part
  <2> QED BY <2>2, <2>3, <2>4
<1>7. OnItsWay(e) \in Seq(Bytes)
  BY <1>1, <1>2, <1>4, <1>6, Zenon DEF OnItsWay
<1> QED BY <1>6, <1>7

LEMMA PendingTypes ==
    ASSUME TypeOK, NEW e \in Ends, Begins(Received(e), Sent(e))
    PROVE  /\ Len(Received(e)) \in 0 .. Len(Sent(e)) /\ Len(Sent(e)) \in Nat
           /\ Pending(e) \in Seq(Packets) /\ Stream(Pending(e)) \in Seq(Bytes)
<1>1. Sent(e) \in Seq(Packets) /\ Received(e) \in Seq(Seq(Bytes))
  BY EndTypes
<1>2. Len(Sent(e)) \in Nat /\ Len(Received(e)) \in Nat
  BY <1>1, LenProperties
<1>3. Len(Received(e)) \in 0 .. Len(Sent(e))
  BY <1>2 DEF Begins
<1>4. Pending(e) \in Seq(Packets)
  BY <1>1, <1>3, FirstAndRest DEF Pending
<1> QED BY <1>2, <1>3, <1>4, StreamInSeq

\* An end with the whole of a length has that of the next packet, and what
\* it has of the body is what that packet begins with.
LEMMA Arrival ==
    ASSUME TypeOK, NEW e \in Ends, phase[e] = "body",
           Begins(Received(e), Sent(e)), Begins(OnItsWay(e), Stream(Pending(e)))
    PROVE  LET h    == Sent(e)[Len(Received(e)) + 1]
               rest == Stream(Rest(Sent(e), Len(Received(e)) + 1))
           IN  /\ Len(Received(e)) < Len(Sent(e))
               /\ h \in Packets /\ h \in Seq(Bytes) /\ rest \in Seq(Bytes)
               /\ BodyLen(Value(len[e])) = Len(h)
               /\ Begins(body[e] \o (net[e] \o out[Peer(e)]), h \o rest)
               /\ OnItsWay(e) = Stream(Pending(e)) =>
                    body[e] \o (net[e] \o out[Peer(e)]) = h \o rest
<1> DEFINE N == Len(Received(e))
           h == Sent(e)[N + 1]
           rest == Stream(Rest(Sent(e), N + 1))
           w == net[e] \o out[Peer(e)]
           k == Encode(LenBytes + Len(h))
<1>1. /\ net[e] \in Seq(Bytes) /\ body[e] \in Seq(Bytes) /\ out[Peer(e)] \in Seq(Bytes)
      /\ len[e] \in Seq(Bytes) /\ Len(len[e]) = LenBytes /\ LenBytes \in Nat \ {0}
      /\ Sent(e) \in Seq(Packets)
  BY PeerFacts, EndTypes
<1>2. N \in 0 .. Len(Sent(e)) /\ Len(Sent(e)) \in Nat /\ Pending(e) \in Seq(Packets)
  BY PendingTypes
<1>3. \A s, t \in Seq(Bytes) : s \o t \in Seq(Bytes) /\ Len(s \o t) = Len(s) + Len(t)
  BY ConcatProperties
<1>4. w \in Seq(Bytes) /\ body[e] \o w \in Seq(Bytes)
  BY <1>1, <1>3, Zenon
<1>5. OnItsWay(e) = len[e] \o (body[e] \o w)
  <2>1. OnItsWay(e) = ((len[e] \o body[e]) \o net[e]) \o out[Peer(e)]
    BY DEF OnItsWay, Part
  <2>2. len[e] \o body[e] \in Seq(Bytes)
    BY <1>1, <1>3, Zenon
  <2>3. ((len[e] \o body[e]) \o net[e]) \o out[Peer(e)] = (len[e] \o body[e]) \o w
    BY <1>1, <2>2, Associative, Zenon
  <2>4. (len[e] \o body[e]) \o w = len[e] \o (body[e] \o w)
    BY <1>1, <1>4, Associative, Zenon
  <2> QED BY <2>1, <2>3, <2>4, Zenon
<1>6. Pending(e) # <<>>
  <2> SUFFICES ASSUME Pending(e) = <<>> PROVE FALSE
    OBVIOUS
  <2>1. Stream(Pending(e)) = <<>>
    BY <1>2, StreamInSeq
  <2>2. Len(OnItsWay(e)) = LenBytes + Len(body[e] \o w) /\ Len(body[e] \o w) \in Nat
    BY <1>1, <1>3, <1>4, <1>5, LenProperties
  <2>3. Len(OnItsWay(e)) <= 0
    BY <2>1, EmptySeq DEF Begins
  <2> HIDE DEF w
  <2> QED BY <1>1, <2>2, <2>3
<1>7. N < Len(Sent(e))
  <2>1. Len(Pending(e)) = Len(Sent(e)) - N
    BY <1>1, <1>2, FirstAndRest DEF Pending
  <2>2. Len(Pending(e)) # 0
    BY <1>2, <1>6, EmptySeq
  <2> QED BY <1>2, <2>1, <2>2
<1>8. Pending(e)[1] = h /\ Tail(Pending(e)) = Rest(Sent(e), N + 1)
  BY <1>1, <1>2, <1>7, RestOfRest DEF Pending
<1>9. h \in Packets
  <2>1. N + 1 \in 1 .. Len(Sent(e))
    BY <1>2, <1>7
  <2> QED BY <1>1, <2>1, ElementOfSeq
<1>10. rest \in Seq(Bytes)
  BY <1>2, <1>6, <1>8, HeadTailProperties, StreamInSeq
<1>11. /\ h \in Seq(Bytes) /\ k \in Seq(Bytes) /\ Len(k) = LenBytes
       /\ BodyLen(Value(k)) = Len(h) /\ Frame(h) = k \o h
  BY <1>9, FrameParts
<1>12. Stream(Pending(e)) = k \o (h \o rest) /\ h \o rest \in Seq(Bytes)
  <2>1. Stream(Pending(e)) = Frame(h) \o rest
    BY <1>2, <1>6, <1>8, StreamTail
  <2>2. (k \o h) \o rest = k \o (h \o rest)
    BY <1>10, <1>11, Associative, Zenon
  <2> QED BY <1>3, <1>10, <1>11, <2>1, <2>2, Zenon
<1> HIDE DEF N, h, rest, w, k
<1>13. len[e] = k /\ Begins(body[e] \o w, h \o rest)
  <2>1. Begins(len[e] \o (body[e] \o w), k \o (h \o rest))
    BY <1>5, <1>12
  <2>2. Len(len[e]) = Len(k)
    BY <1>1, <1>11
  <2> QED BY <1>1, <1>4, <1>11, <1>12, <2>1, <2>2, SameHead
<1>14. ASSUME OnItsWay(e) = Stream(Pending(e))
       PROVE  body[e] \o w = h \o rest
  <2>1. /\ Len(OnItsWay(e)) = Len(len[e]) + Len(body[e] \o w)
        /\ Len(Stream(Pending(e))) = Len(k) + Len(h \o rest)
    BY <1>1, <1>3, <1>4, <1>5, <1>11, <1>12, Zenon
  <2>2. Len(body[e] \o w) \in Nat /\ Len(h \o rest) \in Nat
    BY <1>4, <1>12, LenProperties
  <2>3. \A x, y, m \in Nat : m + x = m + y => x = y
    OBVIOUS
  <2>4. LenBytes + Len(body[e] \o w) = LenBytes + Len(h \o rest) /\ LenBytes \in Nat
    BY <1>1, <1>11, <1>14, <2>1
  <2>5. Len(body[e] \o w) = Len(h \o rest)
    BY <2>2, <2>3, <2>4, Zenon
  <2> QED BY <1>4, <1>12, <1>13, <2>5, EqualsBegin
<1> QED BY <1>7, <1>9, <1>10, <1>11, <1>13, <1>14 DEF N, h, rest, w

\* Once it has the whole of the body, it has the packet, and the next ones
\* follow.
LEMMA WholeArrival ==
    ASSUME TypeOK, NEW e \in Ends, phase[e] = "body", Missing(e) = 0,
           Begins(Received(e), Sent(e)), Begins(OnItsWay(e), Stream(Pending(e)))
    PROVE  LET rest == Stream(Rest(Sent(e), Len(Received(e)) + 1))
           IN  /\ Begins(Append(Received(e), body[e]), Sent(e))
               /\ Begins(net[e] \o out[Peer(e)], rest)
               /\ OnItsWay(e) = Stream(Pending(e)) => net[e] \o out[Peer(e)] = rest
<1> DEFINE N == Len(Received(e))
           h == Sent(e)[N + 1]
           rest == Stream(Rest(Sent(e), N + 1))
           w == net[e] \o out[Peer(e)]
<1>1. /\ net[e] \in Seq(Bytes) /\ body[e] \in Seq(Bytes) /\ out[Peer(e)] \in Seq(Bytes)
      /\ Sent(e) \in Seq(Packets) /\ Received(e) \in Seq(Seq(Bytes))
      /\ len[e] \in [1 .. LenBytes -> Bytes]
  BY PeerFacts, EndTypes
<1>2. /\ N < Len(Sent(e)) /\ h \in Seq(Bytes) /\ rest \in Seq(Bytes)
      /\ BodyLen(Value(len[e])) = Len(h)
      /\ Begins(body[e] \o w, h \o rest)
      /\ OnItsWay(e) = Stream(Pending(e)) => body[e] \o w = h \o rest
  BY Arrival
<1>3. \A s, t \in Seq(Bytes) : s \o t \in Seq(Bytes) /\ Len(s \o t) = Len(s) + Len(t)
  BY ConcatProperties
<1>4. w \in Seq(Bytes)
  BY <1>1, <1>3, Zenon
<1>5. Len(body[e]) = Len(h)
  <2>1. BodyLen(Value(len[e])) \in Nat /\ Len(body[e]) \in Nat
    BY <1>1, BodyLenTypes, LenProperties
  <2> QED BY <1>2, <2>1 DEF Missing
<1> HIDE DEF N, h, rest, w
<1>6. body[e] = h /\ Begins(w, rest)
  BY <1>1, <1>2, <1>4, <1>5, SameHead
<1>7. ASSUME OnItsWay(e) = Stream(Pending(e))
      PROVE  w = rest
  <2>1. Len(body[e]) + Len(w) = Len(h) + Len(rest)
    BY <1>1, <1>2, <1>3, <1>4, <1>7
  <2>2. Len(w) = Len(rest)
    BY <1>1, <1>2, <1>4, <1>5, <2>1, LenProperties
  <2> QED BY <1>2, <1>4, <1>6, <2>2, EqualsBegin
<1>8. Begins(Append(Received(e), body[e]), Sent(e))
  BY <1>1, <1>2, <1>6, AppendBegins DEF N, h
<1> QED BY <1>6, <1>7, <1>8 DEF N, rest, w

-----------------------------------------------------------------------------
(* How Wire is kept, whatever the action. *)

\* What comes of the faults of another step.
LEMMA SpoiltStays ==
    ASSUME NEW e \in Ends, faults \subseteq faults'
    PROVE  (Spoilt(e) => Spoilt(e)') /\ (Short(e) => Short(e)')
<1>1. Spoilt(e) => Spoilt(e)'
  <2>1. CASE e = "server"
    BY <2>1 DEF Spoilt
  <2>2. CASE e # "server"
    BY <2>2 DEF Spoilt
  <2> QED BY <2>1, <2>2
<1>2. Short(e) => Short(e)'
  BY DEF Short
<1> QED BY <1>1, <1>2

\* Nothing that Wire says of e has changed.
LEMMA WireUnchanged ==
    ASSUME NEW e \in Ends, Wire(e), faults \subseteq faults',
           ~ Spoilt(e)' /\ Short(e)' => Short(e) /\ phase'[Peer(e)] # "idle",
           Sent(e)' = Sent(e), Received(e)' = Received(e),
           phase'[e] # "closed" => phase[e] # "closed" /\ OnItsWay(e)' = OnItsWay(e),
           phase'[Peer(e)] # "closed" => phase[Peer(e)] # "closed"
    PROVE  Wire(e)'
<1>1. (Spoilt(e) => Spoilt(e)') /\ (Short(e) => Short(e)')
  BY SpoiltStays
<1>2. Pending(e)' = Pending(e)
  BY DEF Pending
<1>3. Stream(Pending(e))' = Stream(Pending(e))
  BY <1>2 DEF Stream
<1> QED BY <1>1, <1>3 DEF Wire

LEMMA PartUnchanged ==
    ASSUME NEW e \in Ends, phase'[e] = phase[e], len'[e] = len[e], got'[e] = got[e], body'[e] = body[e]
    PROVE  Part(e)' = Part(e)
BY DEF Part

\* What is sent begins with what was sent before.
LEMMA ConcatBegins ==
    ASSUME NEW s \in Seq(Bytes), NEW t \in Seq(Bytes), NEW u \in Seq(Bytes), Begins(t, u)
    PROVE  Begins(s \o t, s \o u)
<1>1. Len(s) \in Nat /\ Len(t) \in Nat /\ Len(u) \in Nat /\ Len(t) <= Len(u)
  BY LenProperties DEF Begins
<1>2. /\ s \o t \in Seq(Bytes) /\ Len(s \o t) = Len(s) + Len(t)
      /\ \A i \in 1 .. (Len(s) + Len(t)) : (s \o t)[i] = IF i <= Len(s) THEN s[i] ELSE t[i - Len(s)]
  BY ConcatProperties
<1>3. /\ s \o u \in Seq(Bytes) /\ Len(s \o u) = Len(s) + Len(u)
      /\ \A i \in 1 .. (Len(s) + Len(u)) : (s \o u)[i] = IF i <= Len(s) THEN s[i] ELSE u[i - Len(s)]
  BY ConcatProperties
<1>4. ASSUME NEW i \in 1 .. (Len(s) + Len(t))
      PROVE  (s \o t)[i] = (s \o u)[i]
  <2>1. i \in 1 .. (Len(s) + Len(u))
    BY <1>1
  <2>2. CASE i <= Len(s)
    BY <1>2, <1>3, <2>1, <2>2, Zenon
  <2>3. CASE ~(i <= Len(s))
    <3>1. i - Len(s) \in 1 .. Len(t)
      BY <1>1, <2>3
    <3>2. t[i - Len(s)] = u[i - Len(s)]
      BY <3>1 DEF Begins
    <3> QED BY <1>2, <1>3, <2>1, <2>3, <3>2, Zenon
  <2> QED BY <2>2, <2>3
<1>5. Len(s \o t) <= Len(s \o u)
  BY <1>1, <1>2, <1>3
<1> QED BY <1>2, <1>4, <1>5 DEF Begins

\* The other end has a packet to send, and had none: the last of them may be
\* short.
LEMMA PeerSends ==
    ASSUME TypeOK, NEW e \in Ends, NEW r \in Packets, NEW w \in Seq(Bytes), Wire(e),
           faults \subseteq faults', ~ Spoilt(e) => ~ Short(e),
           Sent(e)' = Append(Sent(e), r), Received(e)' = Received(e),
           Part(e)' = Part(e), net'[e] = net[e],
           out[Peer(e)] = <<>>, out'[Peer(e)] = w, Begins(w, Frame(r)),
           w = Frame(r) \/ Short(e)',
           ~ Spoilt(e)' /\ Short(e)' => /\ phase'[Peer(e)] # "idle"
                                       /\ Len(Received(e)) = Len(Sent(e))
                                       /\ Len(w) < Len(Frame(r)),
           phase[Peer(e)] # "closed", phase'[e] # "closed" => phase[e] # "closed"
    PROVE  Wire(e)'
<1> SUFFICES ASSUME ~ Spoilt(e)'
             PROVE  /\ Begins(Received(e)', Sent(e)')
                    /\ phase'[e] # "closed" =>
                         /\ Begins(OnItsWay(e)', Stream(Pending(e)'))
                         /\ ~ Short(e)' => OnItsWay(e)' = Stream(Pending(e)')
                    /\ Short(e)' =>
                         /\ phase'[Peer(e)] # "idle" /\ Len(Sent(e)') = Len(Received(e)') + 1
                         /\ phase'[e] # "closed" => Len(OnItsWay(e)') < Len(Stream(Pending(e)'))
  BY DEF Wire, Stream
<1>0. ~ Spoilt(e) /\ ~ Short(e)
  BY SpoiltStays
<1>1. Begins(Received(e), Sent(e)) /\ (phase[e] # "closed" => OnItsWay(e) = Stream(Pending(e)))
  BY <1>0 DEF Wire
<1>2. Sent(e) \in Seq(Packets) /\ Received(e) \in Seq(Seq(Bytes))
  BY EndTypes
<1>3. Begins(Received(e)', Sent(e)')
  BY <1>1, <1>2, BeginsAppend
<1>4. Len(Received(e)) \in 0 .. Len(Sent(e)) /\ Pending(e) \in Seq(Packets) /\ Stream(Pending(e)) \in Seq(Bytes)
  BY <1>1, PendingTypes
<1>5. Pending(e)' = Append(Pending(e), r)
  BY <1>2, <1>4, RestOfAppend DEF Pending
<1>6. Stream(Pending(e)') = Stream(Pending(e)) \o Frame(r)
  BY <1>4, <1>5, StreamAppend
<1>7. Frame(r) \in Seq(Bytes)
  BY FrameParts
<1>8. OnItsWay(e)' = OnItsWay(e) \o w
  <2>1. Part(e) \in Seq(Bytes) /\ net[e] \in Seq(Bytes)
    BY WayTypes, EndTypes
  <2>2. Part(e) \o net[e] \in Seq(Bytes)
    BY <2>1, ConcatProperties
  <2>3. OnItsWay(e) = Part(e) \o net[e]
    <3>1. (Part(e) \o net[e]) \o <<>> = Part(e) \o net[e]
      BY <2>2, ConcatEmptySeq
    <3> QED BY <3>1 DEF OnItsWay
  <2> QED BY <2>3 DEF OnItsWay
<1>9. ASSUME phase'[e] # "closed"
      PROVE  /\ Begins(OnItsWay(e)', Stream(Pending(e)'))
             /\ ~ Short(e)' => OnItsWay(e)' = Stream(Pending(e)')
             /\ Short(e)' => Len(OnItsWay(e)') < Len(Stream(Pending(e)'))
  <2> DEFINE s == Stream(Pending(e))
  <2>1. OnItsWay(e)' = s \o w /\ Stream(Pending(e)') = s \o Frame(r) /\ s \in Seq(Bytes)
    BY <1>1, <1>4, <1>6, <1>8, <1>9
  <2> HIDE DEF s
  <2>2. Begins(s \o w, s \o Frame(r))
    BY <1>7, <2>1, ConcatBegins
  <2>3. Len(s \o w) = Len(s) + Len(w) /\ Len(s \o Frame(r)) = Len(s) + Len(Frame(r))
    BY <1>7, <2>1, ConcatProperties
  <2>4. Len(s) \in Nat /\ Len(w) \in Nat /\ Len(Frame(r)) \in Nat
    BY <1>7, <2>1, LenProperties
  <2>5. Short(e)' => Len(s \o w) < Len(s \o Frame(r))
    BY <2>3, <2>4
  <2>6. ~ Short(e)' => s \o w = s \o Frame(r)
    OBVIOUS
  <2> QED BY <2>1, <2>2, <2>5, <2>6, Zenon
<1>10. Short(e)' => Len(Sent(e)') = Len(Received(e)') + 1
  BY <1>2, AppendProperties
<1> QED BY <1>3, <1>9, <1>10

\* A packet that is there as a whole is not short.
LEMMA WholeNotShort ==
    ASSUME TypeOK, NEW e \in Ends, Wire(e), ~ Spoilt(e), phase[e] = "body", Missing(e) = 0
    PROVE  ~ Short(e)
<1> SUFFICES ASSUME Short(e) PROVE FALSE
  OBVIOUS
<1> DEFINE N == Len(Received(e))
           h == Sent(e)[N + 1]
           rest == Stream(Rest(Sent(e), N + 1))
           w == net[e] \o out[Peer(e)]
<1>1. /\ Begins(Received(e), Sent(e)) /\ Begins(OnItsWay(e), Stream(Pending(e)))
      /\ Len(Sent(e)) = N + 1 /\ Len(OnItsWay(e)) < Len(Stream(Pending(e)))
  BY DEF Wire
<1>2. /\ N < Len(Sent(e)) /\ h \in Packets /\ h \in Seq(Bytes) /\ rest \in Seq(Bytes)
      /\ BodyLen(Value(len[e])) = Len(h)
  BY <1>1, Arrival
<1>3. /\ net[e] \in Seq(Bytes) /\ body[e] \in Seq(Bytes) /\ out[Peer(e)] \in Seq(Bytes)
      /\ len[e] \in Seq(Bytes) /\ Len(len[e]) = LenBytes /\ LenBytes \in Nat \ {0}
      /\ Sent(e) \in Seq(Packets) /\ Received(e) \in Seq(Seq(Bytes))
  BY PeerFacts, EndTypes
<1>4. N \in Nat /\ Pending(e) \in Seq(Packets)
  BY <1>1, <1>3, PendingTypes, LenProperties
<1>5. Stream(Pending(e)) = Frame(h)
  <2>1. /\ Pending(e) # <<>> /\ Pending(e)[1] = h /\ Tail(Pending(e)) = Rest(Sent(e), N + 1)
    BY <1>2, <1>3, <1>4, RestOfRest DEF Pending
  <2>2. Stream(Pending(e)) = Frame(h) \o rest
    BY <1>4, <2>1, StreamTail
  <2>3. rest = <<>>
    <3>1. Rest(Sent(e), N + 1) = <<>>
      <4>1. N + 1 \in 0 .. Len(Sent(e)) /\ Len(Sent(e)) - (N + 1) = 0
        BY <1>1, <1>4
      <4>2. /\ Rest(Sent(e), N + 1) \in Seq(Packets)
            /\ Len(Rest(Sent(e), N + 1)) = Len(Sent(e)) - (N + 1)
        BY <1>3, <4>1, FirstAndRest
      <4> QED BY <4>1, <4>2, EmptySeq
    <3>2. <<>> \in Seq(Packets)
      BY EmptySeq
    <3> QED BY <3>1, <3>2, StreamInSeq
  <2>4. Frame(h) \in Seq(Bytes)
    BY <1>2, FrameParts
  <2> HIDE DEF rest, h
  <2>5. Frame(h) \o <<>> = Frame(h)
    BY <2>4, ConcatEmptySeq
  <2> QED BY <2>2, <2>3, <2>5
<1>6. Len(Frame(h)) = LenBytes + Len(h) /\ Len(h) \in Nat
  BY <1>2, FrameParts
<1>7. Len(OnItsWay(e)) >= LenBytes + Len(body[e])
  <2>1. \A s, t \in Seq(Bytes) : s \o t \in Seq(Bytes) /\ Len(s \o t) = Len(s) + Len(t)
    BY ConcatProperties
  <2> DEFINE a == len[e] \o body[e]
             b == a \o net[e]
  <2>2. a \in Seq(Bytes) /\ Len(a) = LenBytes + Len(body[e])
    BY <1>3, <2>1, Zenon
  <2>3. OnItsWay(e) = b \o out[Peer(e)]
    BY DEF OnItsWay, Part
  <2> HIDE DEF a
  <2>4. b \in Seq(Bytes) /\ Len(b) = Len(a) + Len(net[e])
    BY <1>3, <2>1, <2>2, Zenon
  <2> HIDE DEF b
  <2>5. Len(OnItsWay(e)) = Len(b) + Len(out[Peer(e)])
    BY <1>3, <2>1, <2>3, <2>4, Zenon
  <2>6. Len(net[e]) \in Nat /\ Len(out[Peer(e)]) \in Nat /\ Len(body[e]) \in Nat
    BY <1>3, LenProperties
  <2>7. Len(OnItsWay(e)) = ((LenBytes + Len(body[e])) + Len(net[e])) + Len(out[Peer(e)])
    BY <2>2, <2>4, <2>5, Zenon
  <2>8. \A i, j, k, l \in Nat : ((i + j) + k) + l >= i + j
    OBVIOUS
  <2>9. LenBytes \in Nat
    BY <1>3
  <2> QED BY <2>6, <2>7, <2>8, <2>9, Zenon
<1>8. Len(body[e]) = Len(h)
  <2>1. Len(body[e]) \in Nat
    BY <1>3, LenProperties
  <2> QED BY <1>2, <1>6, <2>1 DEF Missing
<1> HIDE DEF h
<1>9. Len(OnItsWay(e)) \in Nat
  BY WayTypes, LenProperties
<1> QED BY <1>1, <1>3, <1>5, <1>6, <1>7, <1>8, <1>9

\* An end is done with the packet that it has received.
LEMMA EndReceives ==
    ASSUME TypeOK, NEW e \in Ends, Wire(e), faults \subseteq faults', Short(e)' => Short(e),
           phase[e] = "body", Missing(e) = 0,
           Sent(e)' = Sent(e), Received(e)' = Append(Received(e), body[e]),
           Part(e)' = <<>>, net'[e] = net[e], out'[Peer(e)] = out[Peer(e)],
           phase'[Peer(e)] = phase[Peer(e)]
    PROVE  Wire(e)'
<1> SUFFICES ASSUME ~ Spoilt(e)'
             PROVE  /\ Begins(Received(e)', Sent(e)')
                    /\ Begins(OnItsWay(e)', Stream(Pending(e)'))
                    /\ phase[Peer(e)] # "closed" => OnItsWay(e)' = Stream(Pending(e)')
                    /\ ~ Short(e)'
  BY DEF Wire, Stream
<1>0. ~ Spoilt(e) /\ ~ Short(e)
  BY SpoiltStays, WholeNotShort
<1>1. /\ Begins(Received(e), Sent(e)) /\ Begins(OnItsWay(e), Stream(Pending(e)))
      /\ phase[Peer(e)] # "closed" => OnItsWay(e) = Stream(Pending(e))
  BY <1>0 DEF Wire
<1> DEFINE rest == Stream(Rest(Sent(e), Len(Received(e)) + 1))
<1>2. /\ Begins(Append(Received(e), body[e]), Sent(e))
      /\ Begins(net[e] \o out[Peer(e)], rest)
      /\ OnItsWay(e) = Stream(Pending(e)) => net[e] \o out[Peer(e)] = rest
  BY <1>1, WholeArrival
<1>3. Pending(e)' = Rest(Sent(e), Len(Received(e)) + 1)
  <2>1. Len(Append(Received(e), body[e])) = Len(Received(e)) + 1
    BY EndTypes, AppendProperties
  <2> QED BY <2>1 DEF Pending
<1>4. OnItsWay(e)' = net[e] \o out[Peer(e)]
  <2>1. <<>> \o net[e] = net[e]
    BY EndTypes, ConcatEmptySeq
  <2> QED BY <2>1 DEF OnItsWay
<1> QED BY <1>0, <1>1, <1>2, <1>3, <1>4

\* An end takes what it receives from the network.
LEMMA EndTakes ==
    ASSUME TypeOK, NEW e \in Ends, NEW n \in 0 .. Len(net[e]),
           Part(e)' = Part(e) \o First(net[e], n), net'[e] = Rest(net[e], n),
           out'[Peer(e)] = out[Peer(e)]
    PROVE  OnItsWay(e)' = OnItsWay(e)
<1>1. Part(e) \in Seq(Bytes) /\ net[e] \in Seq(Bytes)
  BY WayTypes, EndTypes
<1>2. /\ First(net[e], n) \in Seq(Bytes) /\ Rest(net[e], n) \in Seq(Bytes)
      /\ First(net[e], n) \o Rest(net[e], n) = net[e]
  BY <1>1, FirstAndRest
<1>3. (Part(e) \o First(net[e], n)) \o Rest(net[e], n) = Part(e) \o (First(net[e], n) \o Rest(net[e], n))
  BY <1>1, <1>2, Associative, Zenon
<1>4. (Part(e) \o First(net[e], n)) \o Rest(net[e], n) = Part(e) \o net[e]
  BY <1>2, <1>3
<1> QED BY <1>4 DEF OnItsWay

LEMMA FirstBytes ==
    \A s \in Seq(Bytes) : \A n \in 0 .. Len(s) :
        /\ First(s, n) \in Seq(Bytes) /\ Len(First(s, n)) = n
        /\ \A i \in 1 .. n : First(s, n)[i] = s[i]
BY FirstAndRest

LEMMA ConcatBytes ==
    \A s, t \in Seq(Bytes) :
        /\ s \o t \in Seq(Bytes) /\ Len(s \o t) = Len(s) + Len(t)
        /\ \A i \in 1 .. (Len(s) + Len(t)) :
              (s \o t)[i] = IF i <= Len(s) THEN s[i] ELSE t[i - Len(s)]
BY ConcatProperties

\* Where the bytes of a length go.
LEMMA PlacedFirst ==
    ASSUME TypeOK, NEW e \in Ends, NEW n \in 1 .. (LenBytes - got[e]), n <= Len(net[e]),
           e = "client" \/ got[e] = 0
    PROVE  First(Placed(e, n), got[e] + n) = First(len[e], got[e]) \o First(net[e], n)
<1> DEFINE p == Placed(e, n)
           g == got[e]
           a == First(p, g + n)
           b == First(len[e], g)
           c == First(net[e], n)
<1>1. /\ net[e] \in Seq(Bytes) /\ len[e] \in Seq(Bytes) /\ Len(len[e]) = LenBytes
      /\ g \in 0 .. LenBytes /\ LenBytes \in Nat \ {0}
  BY EndTypes
<1>2. p \in [1 .. LenBytes -> Bytes] /\ p \in Seq(Bytes) /\ Len(p) = LenBytes
  <2>1. p \in [1 .. LenBytes -> Bytes]
    BY PlacedTypes
  <2>2. \A l \in [1 .. LenBytes -> Bytes] : l \in Seq(Bytes) /\ Len(l) = LenBytes
    BY <1>1
  <2> QED BY <2>1, <2>2, Zenon
<1>3. \A i \in 1 .. LenBytes : p[i] = IF i \in (g + 1) .. (g + n) THEN net[e][i - g] ELSE len[e][i]
  BY DEF Placed
<1> HIDE DEF p
<1>4. g + n \in 0 .. LenBytes /\ n \in 0 .. Len(net[e]) /\ n \in Nat /\ g \in Nat
  BY <1>1, LenProperties
<1>5. a \in Seq(Bytes) /\ Len(a) = g + n /\ \A i \in 1 .. (g + n) : a[i] = p[i]
  BY <1>2, <1>4, FirstAndRest
<1>6. b \in Seq(Bytes) /\ Len(b) = g /\ \A i \in 1 .. g : b[i] = len[e][i]
  <2>1. g \in 0 .. Len(len[e])
    BY <1>1
  <2> QED BY <1>1, <2>1, FirstBytes, Zenon
<1>7. c \in Seq(Bytes) /\ Len(c) = n /\ \A i \in 1 .. n : c[i] = net[e][i]
  BY <1>1, <1>4, FirstBytes, Zenon
<1> HIDE DEF a, b, c, g
<1>8. /\ b \o c \in Seq(Bytes) /\ Len(b \o c) = g + n
      /\ \A i \in 1 .. (g + n) : (b \o c)[i] = IF i <= g THEN b[i] ELSE c[i - g]
  <2>1. /\ b \o c \in Seq(Bytes) /\ Len(b \o c) = Len(b) + Len(c)
        /\ \A i \in 1 .. (Len(b) + Len(c)) : (b \o c)[i] = IF i <= Len(b) THEN b[i] ELSE c[i - Len(b)]
    BY <1>6, <1>7, ConcatBytes, Zenon
  <2>2. Len(b) = g /\ Len(c) = n
    BY <1>6, <1>7
  <2> QED BY <2>1, <2>2
<1>9. ASSUME NEW i \in 1 .. (g + n)
      PROVE  a[i] = (b \o c)[i]
  <2>1. a[i] = p[i] /\ i \in 1 .. LenBytes
    BY <1>1, <1>4, <1>5
  <2>2. CASE i <= g
    <3>1. i \in 1 .. g /\ i \notin (g + 1) .. (g + n)
      BY <1>4, <2>2
    <3>2. p[i] = len[e][i] /\ (b \o c)[i] = b[i]
      BY <1>3, <1>8, <2>1, <2>2, <3>1, Zenon
    <3> QED BY <1>6, <2>1, <3>1, <3>2
  <2>3. CASE ~(i <= g)
    <3>1. i - g \in 1 .. n /\ i \in (g + 1) .. (g + n)
      BY <1>4, <2>3
    <3>2. p[i] = net[e][i - g] /\ (b \o c)[i] = c[i - g]
      BY <1>3, <1>8, <2>1, <2>3, <3>1, Zenon
    <3> QED BY <1>7, <2>1, <3>1, <3>2
  <2> QED BY <2>2, <2>3
<1>10. a = b \o c
  BY <1>4, <1>5, <1>8, <1>9, SeqEqual
<1> QED BY <1>10 DEF a, b, c, p, g

-----------------------------------------------------------------------------
(* Wire is kept, action by action. *)

LEMMA CallWire == WireInv /\ MakeCall => \A e \in Ends : Wire(e)'
<1> SUFFICES ASSUME WireInv, MakeCall PROVE Wire("client")' /\ Wire("server")'
  BY DEF Ends
<1>1. "client" \in Ends /\ "server" \in Ends /\ Peer("server") = "client" /\ Peer("client") = "server"
  BY DEF Ends, Peer
<1>2. PICK c \in Commands, w \in Seq(Bytes) :
        /\ asked' = Append(asked, c) /\ out' = [out EXCEPT !["client"] = w]
        /\ w # <<>> /\ Begins(w, Frame(c))
        /\ \/ w = Frame(c) /\ faults' = faults
           \/ /\ Len(w) < Len(Frame(c)) /\ "short" \in Faults
              /\ faults' = faults \cup {"short"}
  BY CallSends
<1>3. /\ TypeOK /\ Counts /\ phase["client"] = "idle" /\ out["client"] = <<>>
      /\ Wire("client") /\ Wire("server") /\ c \in Packets
  BY <1>1 DEF WireInv, MakeCall, Phases, Packets
<1>4. /\ phase' = [phase EXCEPT !["client"] = "send"]
      /\ net' = net /\ len' = len /\ got' = got /\ body' = body
      /\ executed' = executed /\ answers' = answers /\ returned' = returned
  BY DEF MakeCall, recvVars
<1>5. /\ phase'["client"] = "send" /\ phase'["server"] = phase["server"]
      /\ out'["client"] = w /\ out'["server"] = out["server"] /\ faults \subseteq faults'
  BY <1>1, <1>2, <1>3, <1>4 DEF TypeOK
<1>6. ~ Spoilt("server") => ~ Short("server")
  BY <1>1, <1>3 DEF Wire
<1>7. ~ Spoilt("server")' /\ Short("server")' =>
        Len(Received("server")) = Len(Sent("server")) /\ Len(w) < Len(Frame(c))
  <2> SUFFICES ASSUME ~ Spoilt("server")', Short("server")'
               PROVE  Len(executed) = Len(asked) /\ Len(w) < Len(Frame(c))
    BY DEF Sent, Received
  <2>1. ~ Spoilt("server") /\ ~ Short("server")
    BY <1>1, <1>5, <1>6, SpoiltStays
  <2>2. "short" \notin faults /\ "short" \in faults'
    BY <2>1 DEF Short
  <2>3. Len(w) < Len(Frame(c))
    BY <1>2, <2>2
  <2>4. ~ Spoilt("client")
    BY <1>5, <2>2 DEF Spoilt
  <2>5. Len(returned) <= Len(answers) /\ Len(executed) <= Len(asked)
    BY <1>3, <2>1, <2>4 DEF Wire, Begins, Sent, Received
  <2>6. Len(answers) <= Len(executed) /\ Len(asked) = Len(returned)
    <3>1. Len(returned) \in Nat
      BY <1>3, LenProperties DEF TypeOK
    <3> QED BY <1>3, <3>1 DEF Counts
  <2>7. Len(answers) \in Nat /\ Len(executed) \in Nat /\ Len(asked) \in Nat /\ Len(returned) \in Nat
    BY <1>3, LenProperties DEF TypeOK
  <2> QED BY <2>3, <2>5, <2>6, <2>7
<1>8. Wire("server")'
  <2>1. Part("server")' = Part("server")
    BY <1>1, <1>4, <1>5, PartUnchanged
  <2>2. Sent("server")' = Append(Sent("server"), c) /\ Received("server")' = Received("server")
    BY <1>2, <1>4 DEF Sent, Received
  <2>3. w = Frame(c) \/ Short("server")'
    BY <1>2 DEF Short
  <2>4. phase'["client"] # "idle" /\ phase["client"] # "closed" /\ net'["server"] = net["server"]
    BY <1>3, <1>4, <1>5
  <2> QED BY <1>1, <1>2, <1>3, <1>5, <1>6, <1>7, <2>1, <2>2, <2>3, <2>4, PeerSends
<1>9. Wire("client")'
  <2>1. Part("client")' = Part("client")
    BY <1>3, <1>5 DEF Part
  <2>2. OnItsWay("client")' = OnItsWay("client")
    BY <1>1, <1>4, <1>5, <2>1 DEF OnItsWay
  <2>3. Sent("client")' = Sent("client") /\ Received("client")' = Received("client")
    BY <1>4 DEF Sent, Received
  <2>4. ~ Short("client")'
    BY DEF Short
  <2> QED BY <1>1, <1>3, <1>5, <2>2, <2>3, <2>4, WireUnchanged
<1> QED BY <1>8, <1>9

LEMMA ReturnWire == WireInv /\ ReturnReply => \A e \in Ends : Wire(e)'
<1> SUFFICES ASSUME WireInv, ReturnReply PROVE Wire("client")' /\ Wire("server")'
  BY DEF Ends
<1>1. "client" \in Ends /\ "server" \in Ends /\ Peer("server") = "client" /\ Peer("client") = "server"
  BY DEF Ends, Peer
<1>2. /\ TypeOK /\ Counts /\ phase["client"] = "body" /\ Missing("client") = 0
      /\ Wire("client") /\ Wire("server")
  BY <1>1 DEF WireInv, ReturnReply
<1>3. /\ phase' = [phase EXCEPT !["client"] = "idle"] /\ returned' = Append(returned, body["client"])
      /\ net' = net /\ out' = out /\ len' = len /\ got' = got /\ body' = body /\ faults' = faults
      /\ asked' = asked /\ executed' = executed /\ answers' = answers
  BY DEF ReturnReply, recvVars
<1>4. phase'["client"] = "idle" /\ phase'["server"] = phase["server"]
  BY <1>1, <1>2, <1>3 DEF TypeOK
<1>5. Wire("client")'
  <2>1. Part("client")' = <<>>
    BY <1>4 DEF Part
  <2>2. /\ Sent("client")' = Sent("client")
        /\ Received("client")' = Append(Received("client"), body["client"])
    BY <1>3 DEF Sent, Received
  <2>3. Short("client")' => Short("client")
    BY DEF Short
  <2> QED BY <1>1, <1>2, <1>3, <1>4, <2>1, <2>2, <2>3, EndReceives
<1>6. Wire("server")'
  <2>1. Part("server")' = Part("server")
    BY <1>1, <1>3, <1>4, PartUnchanged
  <2>2. OnItsWay("server")' = OnItsWay("server")
    BY <1>3, <2>1 DEF OnItsWay
  <2>3. Sent("server")' = Sent("server") /\ Received("server")' = Received("server")
    BY <1>3 DEF Sent, Received
  <2>4. Spoilt("server")' \/ ~ Short("server")'
    <3> SUFFICES ASSUME ~ Spoilt("server"), Short("server") PROVE FALSE
      BY <1>3 DEF Spoilt, Short
    <3>1. ~ Spoilt("client")
      BY DEF Spoilt, Short
    <3>2. Len(asked) = Len(executed) + 1
      BY <1>2 DEF Wire, Sent, Received
    <3>3. Len(returned) < Len(answers)
      <4>1. Begins(Received("client"), Sent("client")) /\ Begins(OnItsWay("client"), Stream(Pending("client")))
        BY <1>2, <3>1 DEF Wire
      <4>2. Len(Received("client")) < Len(Sent("client"))
        BY <1>1, <1>2, <4>1, Arrival
      <4> QED BY <4>2 DEF Sent, Received
    <3>4. Len(answers) <= Len(executed) /\ Len(asked) = Len(returned) + 1
      BY <1>2 DEF Counts
    <3>5. Len(answers) \in Nat /\ Len(executed) \in Nat /\ Len(asked) \in Nat /\ Len(returned) \in Nat
      BY <1>2, LenProperties DEF TypeOK
    <3> QED BY <3>2, <3>3, <3>4, <3>5
  <2> QED BY <1>1, <1>2, <1>3, <1>4, <2>2, <2>3, <2>4, WireUnchanged
<1> QED BY <1>5, <1>6

LEMMA ProcessWire == WireInv /\ ProcessCommand => \A e \in Ends : Wire(e)'
<1> SUFFICES ASSUME WireInv, ProcessCommand PROVE Wire("client")' /\ Wire("server")'
  BY DEF Ends
<1>1. "client" \in Ends /\ "server" \in Ends /\ Peer("server") = "client" /\ Peer("client") = "server"
  BY DEF Ends, Peer
<1>2. PICK r \in Replies : answers' = Append(answers, r) /\ out' = [out EXCEPT !["server"] = Frame(r)]
  BY DEF ProcessCommand
<1>3. /\ TypeOK /\ phase["server"] = "body" /\ Missing("server") = 0 /\ out["server"] = <<>>
      /\ Wire("client") /\ Wire("server") /\ r \in Packets
  BY <1>1 DEF WireInv, ProcessCommand, Phases, Packets
<1>4. /\ phase' = [phase EXCEPT !["server"] = "send"] /\ executed' = Append(executed, body["server"])
      /\ net' = net /\ len' = len /\ got' = got /\ body' = body /\ faults' = faults
      /\ asked' = asked /\ returned' = returned
  BY DEF ProcessCommand, recvVars
<1>5. /\ phase'["server"] = "send" /\ phase'["client"] = phase["client"]
      /\ out'["server"] = Frame(r) /\ out'["client"] = out["client"]
  BY <1>1, <1>2, <1>3, <1>4 DEF TypeOK
<1>6. Wire("server")'
  <2>1. Part("server")' = <<>>
    BY <1>5 DEF Part
  <2>2. /\ Sent("server")' = Sent("server")
        /\ Received("server")' = Append(Received("server"), body["server"])
    BY <1>4 DEF Sent, Received
  <2>3. Short("server")' => Short("server")
    BY <1>4 DEF Short
  <2> QED BY <1>1, <1>3, <1>4, <1>5, <2>1, <2>2, <2>3, EndReceives
<1>7. Wire("client")'
  <2>1. Part("client")' = Part("client")
    BY <1>1, <1>4, <1>5, PartUnchanged
  <2>2. Sent("client")' = Append(Sent("client"), r) /\ Received("client")' = Received("client")
    BY <1>2, <1>4 DEF Sent, Received
  <2>3. ~ Short("client") /\ ~ Short("client")'
    BY DEF Short
  <2>4. Frame(r) \in Seq(Bytes) /\ Begins(Frame(r), Frame(r))
    BY <1>3, FrameParts, EqualsBegin
  <2> QED BY <1>1, <1>3, <1>4, <1>5, <2>1, <2>2, <2>3, <2>4, PeerSends
<1> QED BY <1>6, <1>7

LEMMA ProcessNullWire == WireInv /\ ProcessCommandNull => \A e \in Ends : Wire(e)'
<1> SUFFICES ASSUME WireInv, ProcessCommandNull PROVE Wire("client")' /\ Wire("server")'
  BY DEF Ends
<1>1. "client" \in Ends /\ "server" \in Ends /\ Peer("server") = "client" /\ Peer("client") = "server"
  BY DEF Ends, Peer
<1>2. /\ TypeOK /\ phase["server"] = "body" /\ Missing("server") = 0
      /\ Wire("client") /\ Wire("server")
  BY <1>1 DEF WireInv, ProcessCommandNull
<1>3. /\ phase' = [phase EXCEPT !["server"] = "len"] /\ executed' = Append(executed, body["server"])
      /\ len' = [len EXCEPT !["server"] = Zero] /\ got' = [got EXCEPT !["server"] = 0]
      /\ body' = [body EXCEPT !["server"] = <<>>]
      /\ net' = net /\ out' = out /\ faults' = faults \cup {"noReply"}
      /\ asked' = asked /\ answers' = answers /\ returned' = returned
  BY DEF ProcessCommandNull
<1>4. /\ phase'["server"] = "len" /\ phase'["client"] = phase["client"] /\ got'["server"] = 0
      /\ len'["client"] = len["client"] /\ got'["client"] = got["client"]
      /\ body'["client"] = body["client"]
  BY <1>1, <1>2, <1>3 DEF TypeOK
<1>5. faults \subseteq faults' /\ \A e \in Ends : Short(e)' => Short(e)
  BY <1>3 DEF Short
<1>6. Wire("server")'
  <2>1. Part("server")' = <<>>
    <3>1. First(len'["server"], got'["server"]) = <<>>
      BY <1>4, SubSeqEmpty DEF First
    <3> QED BY <1>4, <3>1 DEF Part
  <2>2. /\ Sent("server")' = Sent("server")
        /\ Received("server")' = Append(Received("server"), body["server"])
    BY <1>3 DEF Sent, Received
  <2> QED BY <1>1, <1>2, <1>3, <1>4, <1>5, <2>1, <2>2, EndReceives
<1>7. Wire("client")'
  <2>1. Part("client")' = Part("client")
    BY <1>1, <1>4, PartUnchanged
  <2>2. OnItsWay("client")' = OnItsWay("client")
    BY <1>3, <2>1 DEF OnItsWay
  <2>3. Sent("client")' = Sent("client") /\ Received("client")' = Received("client")
    BY <1>3 DEF Sent, Received
  <2>4. ~ Short("client")'
    BY DEF Short
  <2> QED BY <1>1, <1>2, <1>4, <1>5, <2>2, <2>3, <2>4, WireUnchanged
<1> QED BY <1>6, <1>7

LEMMA SendWire == ASSUME NEW e \in Ends PROVE WireInv /\ SendData(e) => \A d \in Ends : Wire(d)'
<1> SUFFICES ASSUME WireInv, SendData(e) PROVE Wire(e)' /\ Wire(Peer(e))'
  BY PeerFacts, Zenon
<1> DEFINE d == Peer(e)
<1>1. d \in Ends /\ d # e /\ Peer(d) = e
  BY PeerFacts
<1>2. PICK n \in 1 .. Len(out[e]) :
         /\ net' = [net EXCEPT ![d] = IF phase[d] = "closed" THEN @ ELSE @ \o First(out[e], n)]
         /\ out' = [out EXCEPT ![e] = Rest(@, n)]
         /\ phase' = [phase EXCEPT ![e] = IF n = Len(out[e]) THEN "len" ELSE @]
  BY DEF SendData
<1>3. TypeOK /\ phase[e] = "send" /\ Wire(e) /\ Wire(d)
  BY <1>1 DEF WireInv, SendData
<1>4. /\ len' = [len EXCEPT ![e] = Zero] /\ got' = [got EXCEPT ![e] = 0]
      /\ body' = [body EXCEPT ![e] = <<>>] /\ faults' = faults
      /\ asked' = asked /\ executed' = executed /\ answers' = answers /\ returned' = returned
  BY DEF SendData, history
<1>5. \A c \in Ends : Sent(c)' = Sent(c) /\ Received(c)' = Received(c)
  BY <1>4 DEF Sent, Received
<1> HIDE DEF d
<1>6. /\ phase'[e] \in {"send", "len"} /\ phase'[d] = phase[d] /\ got'[e] = 0
      /\ net'[e] = net[e] /\ out'[d] = out[d] /\ out'[e] = Rest(out[e], n)
      /\ len'[d] = len[d] /\ got'[d] = got[d] /\ body'[d] = body[d]
      /\ net'[d] = IF phase[d] = "closed" THEN net[d] ELSE net[d] \o First(out[e], n)
  BY <1>1, <1>2, <1>3, <1>4 DEF TypeOK
<1>7. Wire(e)'
  <2>1. Part(e) = <<>>
    BY <1>3 DEF Part
  <2>2. Part(e)' = <<>>
    <3>1. First(len'[e], got'[e]) = <<>>
      BY <1>6, SubSeqEmpty DEF First
    <3> QED BY <1>6, <3>1 DEF Part
  <2>3. OnItsWay(e)' = OnItsWay(e)
    BY <1>6, <2>1, <2>2 DEF OnItsWay, d
  <2>4. phase[e] # "closed" /\ phase'[Peer(e)] = phase[Peer(e)]
    BY <1>3, <1>6 DEF d
  <2>5. ~ Spoilt(e)' /\ Short(e)' => Short(e) /\ phase'[Peer(e)] # "idle"
    BY <1>3, <1>4, <2>4 DEF Wire, Spoilt, Short
  <2> QED BY <1>3, <1>4, <1>5, <2>3, <2>4, <2>5, WireUnchanged
<1>8. Wire(d)'
  <2>1. Part(d)' = Part(d)
    BY <1>1, <1>6, PartUnchanged
  <2>2. ASSUME phase'[d] # "closed"
        PROVE  OnItsWay(d)' = OnItsWay(d)
    <3> DEFINE a == First(out[e], n)
               b == Rest(out[e], n)
               s == Part(d) \o net[d]
    <3>1. Part(d) \in Seq(Bytes) /\ net[d] \in Seq(Bytes) /\ out[e] \in Seq(Bytes)
      BY <1>1, <1>3, WayTypes, EndTypes
    <3>2. a \in Seq(Bytes) /\ b \in Seq(Bytes) /\ a \o b = out[e]
      <4>1. n \in 0 .. Len(out[e])
        BY <3>1, LenProperties
      <4> QED BY <3>1, <4>1, FirstAndRest
    <3>3. s \in Seq(Bytes)
      BY <3>1, ConcatBytes, Zenon
    <3>4. OnItsWay(d)' = (Part(d) \o (net[d] \o a)) \o b
      BY <1>1, <1>6, <2>1, <2>2 DEF OnItsWay
    <3>5. OnItsWay(d) = s \o out[e]
      BY <1>1 DEF OnItsWay
    <3> HIDE DEF a, b
    <3>6. Part(d) \o (net[d] \o a) = s \o a
      BY <3>1, <3>2, Associative, Zenon
    <3> HIDE DEF s
    <3>7. (s \o a) \o b = s \o (a \o b)
      BY <3>2, <3>3, Associative, Zenon
    <3> QED BY <3>2, <3>4, <3>5, <3>6, <3>7, Zenon
  <2>3. phase[Peer(d)] # "closed" /\ phase'[Peer(d)] # "idle"
    BY <1>1, <1>3, <1>6
  <2>4. Short(d)' => Short(d)
    BY <1>4 DEF Short
  <2> QED BY <1>1, <1>3, <1>4, <1>5, <1>6, <2>2, <2>3, <2>4, WireUnchanged
<1> QED BY <1>7, <1>8 DEF d

LEMMA RecvLenWire == ASSUME NEW e \in Ends PROVE WireInv /\ RecvLen(e) => \A d \in Ends : Wire(d)'
<1> SUFFICES ASSUME WireInv, RecvLen(e) PROVE Wire(e)' /\ Wire(Peer(e))'
  BY PeerFacts, Zenon
<1> DEFINE d == Peer(e)
<1>1. d \in Ends /\ d # e /\ Peer(d) = e
  BY PeerFacts
<1>2. PICK n \in 1 .. (LenBytes - got[e]) :
         /\ n <= Len(net[e])
         /\ len' = [len EXCEPT ![e] = Placed(e, n)]
         /\ net' = [net EXCEPT ![e] = Rest(@, n)]
         /\ got' = [got EXCEPT ![e] = @ + n]
  BY DEF RecvLen
<1>3. TypeOK /\ Phases /\ phase[e] = "len" /\ Wire(e) /\ Wire(d)
  BY <1>1 DEF WireInv, RecvLen
<1>4. /\ phase' = [phase EXCEPT ![e] = IF got'[e] = LenBytes THEN "body" ELSE @]
      /\ out' = out /\ body' = body
      /\ asked' = asked /\ executed' = executed /\ answers' = answers /\ returned' = returned
  BY DEF RecvLen, history
<1>5. \A c \in Ends : Sent(c)' = Sent(c) /\ Received(c)' = Received(c)
  BY <1>4 DEF Sent, Received
<1>6. IF e = "server" /\ got'[e] < LenBytes THEN faults' = faults \cup {"split"} ELSE faults' = faults
  BY DEF RecvLen
<1>7. faults \subseteq faults' /\ \A c \in Ends : Short(c)' => Short(c)
  BY <1>6 DEF Short
<1> HIDE DEF d
<1>8. /\ len'[e] = Placed(e, n) /\ net'[e] = Rest(net[e], n) /\ got'[e] = got[e] + n
      /\ phase'[e] = IF got'[e] = LenBytes THEN "body" ELSE "len"
      /\ phase'[d] = phase[d] /\ len'[d] = len[d] /\ got'[d] = got[d] /\ net'[d] = net[d]
  BY <1>1, <1>2, <1>3, <1>4 DEF TypeOK
<1>9. Wire(e)'
  <2>1. CASE e = "client" \/ got[e] = 0
    <3>1. First(len'[e], got'[e]) = First(len[e], got[e]) \o First(net[e], n)
      BY <1>2, <1>3, <1>8, <2>1, PlacedFirst
    <3>2. Part(e) = First(len[e], got[e])
      BY <1>3 DEF Part
    <3>3. Part(e)' = First(len'[e], got'[e])
      <4>1. CASE got'[e] = LenBytes
        <5>1. len'[e] \in Seq(Bytes) /\ Len(len'[e]) = LenBytes
          <6>1. len'[e] \in [1 .. LenBytes -> Bytes]
            BY <1>2, <1>3, <1>8, PlacedTypes
          <6>2. \A l \in [1 .. LenBytes -> Bytes] : l \in Seq(Bytes) /\ Len(l) = LenBytes
            BY FramingAssumption
          <6> QED BY <6>1, <6>2, Zenon
        <5>2. First(len'[e], got'[e]) = len'[e]
          BY <4>1, <5>1, SubSeqFull DEF First
        <5>3. body'[e] = <<>>
          BY <1>3, <1>4 DEF Phases
        <5>4. len'[e] \o <<>> = len'[e]
          BY <5>1, ConcatEmptySeq
        <5> QED BY <1>8, <4>1, <5>2, <5>3, <5>4 DEF Part
      <4>2. CASE got'[e] # LenBytes
        BY <1>8, <4>2 DEF Part
      <4> QED BY <4>1, <4>2
    <3>4. n \in 0 .. Len(net[e])
      BY <1>2, <1>3, EndTypes, LenProperties
    <3>5. OnItsWay(e)' = OnItsWay(e)
      BY <1>3, <1>4, <1>8, <3>1, <3>2, <3>3, <3>4, EndTakes
    <3>6. phase[e] # "closed" /\ phase'[Peer(e)] = phase[Peer(e)]
      BY <1>3, <1>8 DEF d
    <3>7. ~ Spoilt(e)' /\ Short(e)' => Short(e) /\ phase'[Peer(e)] # "idle"
      BY <1>3, <1>7, <3>6, SpoiltStays DEF Wire
    <3> QED BY <1>3, <1>5, <1>7, <3>5, <3>6, <3>7, WireUnchanged
  <2>2. CASE e = "server" /\ got[e] # 0
    <3>1. got["server"] > 0
      BY <1>3, <2>2, EndTypes
    <3>2. "split" \in faults'
      BY <1>3, <1>7, <2>2, <3>1 DEF Phases
    <3> QED BY <2>2, <3>2 DEF Wire, Spoilt
  <2> QED BY <2>1, <2>2 DEF Ends
<1>10. Wire(d)'
  <2>1. Part(d)' = Part(d)
    BY <1>1, <1>4, <1>8, PartUnchanged
  <2>2. OnItsWay(d)' = OnItsWay(d)
    BY <1>4, <1>8, <2>1 DEF OnItsWay
  <2>3. phase[Peer(d)] # "closed" /\ phase'[Peer(d)] # "idle"
    BY <1>1, <1>3, <1>8
  <2> QED BY <1>1, <1>3, <1>5, <1>7, <1>8, <2>2, <2>3, WireUnchanged
<1> QED BY <1>9, <1>10 DEF d

LEMMA AllocWire == ASSUME NEW e \in Ends PROVE WireInv /\ AllocFails(e) => \A d \in Ends : Wire(d)'
<1> SUFFICES ASSUME WireInv, AllocFails(e) PROVE Wire(e)' /\ Wire(Peer(e))'
  BY PeerFacts, Zenon
<1> DEFINE d == Peer(e)
<1>1. d \in Ends /\ d # e /\ Peer(d) = e
  BY PeerFacts
<1>2. TypeOK /\ phase[e] = "body" /\ Wire(d)
  BY <1>1 DEF WireInv, AllocFails
<1>3. /\ phase' = [phase EXCEPT ![e] = IF e = "client" THEN "idle" ELSE "len"]
      /\ returned' = IF e = "client" THEN Append(returned, <<>>) ELSE returned
      /\ len' = [len EXCEPT ![e] = Zero] /\ got' = [got EXCEPT ![e] = 0]
      /\ net' = net /\ out' = out /\ body' = body
      /\ asked' = asked /\ executed' = executed /\ answers' = answers
  BY DEF AllocFails
<1>4. faults' = faults \cup {IF e = "client" THEN "replyNull" ELSE "cmdNull"}
  BY Zenon DEF AllocFails
<1>5. faults \subseteq faults' /\ Spoilt(e)' /\ \A c \in Ends : Short(c)' => Short(c)
  BY <1>4 DEF Spoilt, Short, Ends
<1>6. Wire(e)'
  BY <1>5 DEF Wire
<1> HIDE DEF d
<1>7. Wire(d)'
  <2>1. Sent(d)' = Sent(d) /\ Received(d)' = Received(d)
    BY <1>1, <1>3 DEF Sent, Received, Ends
  <2>2. phase'[d] = phase[d] /\ len'[d] = len[d] /\ got'[d] = got[d] /\ body'[d] = body[d]
    BY <1>1, <1>2, <1>3 DEF TypeOK
  <2>3. Part(d)' = Part(d)
    BY <1>1, <2>2, PartUnchanged
  <2>4. OnItsWay(d)' = OnItsWay(d)
    BY <1>3, <2>3 DEF OnItsWay
  <2>5. phase[Peer(d)] # "closed"
    BY <1>1, <1>2
  <2>6. ~ Spoilt(d)' /\ Short(d)' => phase'[Peer(d)] # "idle"
    <3> SUFFICES ASSUME ~ Spoilt(d)', Short(d)' PROVE phase'[e] # "idle"
      BY <1>1
    <3>1. e # "client"
      BY <1>4 DEF Spoilt, Short
    <3> QED BY <1>2, <1>3, <3>1 DEF TypeOK
  <2> QED BY <1>1, <1>2, <1>5, <2>1, <2>2, <2>4, <2>5, <2>6, WireUnchanged
<1> QED BY <1>6, <1>7 DEF d

LEMMA RecvBodyWire == ASSUME NEW e \in Ends PROVE WireInv /\ RecvBody(e) => \A d \in Ends : Wire(d)'
<1> SUFFICES ASSUME WireInv, RecvBody(e) PROVE Wire(e)' /\ Wire(Peer(e))'
  BY PeerFacts, Zenon
<1> DEFINE d == Peer(e)
<1>1. d \in Ends /\ d # e /\ Peer(d) = e
  BY PeerFacts
<1>2. PICK n \in 1 .. Missing(e) :
         /\ n <= Len(net[e])
         /\ body' = [body EXCEPT ![e] = @ \o First(net[e], n)]
         /\ net' = [net EXCEPT ![e] = Rest(@, n)]
  BY DEF RecvBody
<1>3. TypeOK /\ phase[e] = "body" /\ Wire(e) /\ Wire(d)
  BY <1>1 DEF WireInv, RecvBody
<1>4. /\ phase' = phase /\ out' = out /\ len' = len /\ got' = got /\ faults' = faults
      /\ asked' = asked /\ executed' = executed /\ answers' = answers /\ returned' = returned
  BY DEF RecvBody, history
<1>5. \A c \in Ends : Sent(c)' = Sent(c) /\ Received(c)' = Received(c)
  BY <1>4 DEF Sent, Received
<1> HIDE DEF d
<1>6. /\ body'[e] = body[e] \o First(net[e], n) /\ net'[e] = Rest(net[e], n)
      /\ body'[d] = body[d] /\ net'[d] = net[d]
  BY <1>1, <1>2, <1>3 DEF TypeOK
<1>7. Wire(e)'
  <2>1. /\ net[e] \in Seq(Bytes) /\ body[e] \in Seq(Bytes) /\ len[e] \in [1 .. LenBytes -> Bytes]
        /\ len[e] \in Seq(Bytes)
    BY <1>3, EndTypes
  <2>2. n \in 0 .. Len(net[e])
    <3>1. BodyLen(Value(len[e])) \in Nat /\ Len(body[e]) \in Nat /\ Len(net[e]) \in Nat
      BY <2>1, BodyLenTypes, LenProperties
    <3> QED BY <1>2, <3>1 DEF Missing
  <2>3. First(net[e], n) \in Seq(Bytes)
    BY <2>1, <2>2, FirstBytes, Zenon
  <2>4. (len[e] \o body[e]) \o First(net[e], n) = len[e] \o (body[e] \o First(net[e], n))
    BY <2>1, <2>3, Associative, Zenon
  <2>5. Part(e) = len[e] \o body[e]
    BY <1>3 DEF Part
  <2>6. Part(e)' = len[e] \o (body[e] \o First(net[e], n))
    BY <1>3, <1>4, <1>6 DEF Part
  <2>7. Part(e)' = Part(e) \o First(net[e], n)
    BY <2>4, <2>5, <2>6, Zenon
  <2>8. OnItsWay(e)' = OnItsWay(e)
    BY <1>3, <1>4, <1>6, <2>2, <2>7, EndTakes
  <2>9. ~ Spoilt(e)' /\ Short(e)' => Short(e) /\ phase'[Peer(e)] # "idle"
    BY <1>3, <1>4 DEF Wire, Spoilt, Short
  <2> QED BY <1>3, <1>4, <1>5, <2>8, <2>9, WireUnchanged
<1>8. Wire(d)'
  <2>1. Part(d)' = Part(d)
    BY <1>1, <1>4, <1>6, PartUnchanged
  <2>2. OnItsWay(d)' = OnItsWay(d)
    BY <1>4, <1>6, <2>1 DEF OnItsWay
  <2>3. Short(d)' => Short(d) /\ phase'[Peer(d)] # "idle"
    BY <1>1, <1>3, <1>4 DEF Short
  <2> QED BY <1>1, <1>3, <1>4, <1>5, <2>2, <2>3, WireUnchanged
<1> QED BY <1>7, <1>8 DEF d

LEMMA CloseWire ==
    ASSUME NEW e \in Ends, WireInv, Close(e),
           UNCHANGED <<len, got, body, asked, executed, answers, returned, faults>>
    PROVE  \A d \in Ends : Wire(d)'
<1> SUFFICES Wire(e)' /\ Wire(Peer(e))'
  BY PeerFacts, Zenon
<1> DEFINE d == Peer(e)
<1>1. d \in Ends /\ d # e /\ Peer(d) = e
  BY PeerFacts
<1>2. TypeOK /\ Wire(e) /\ Wire(d)
  BY <1>1 DEF WireInv
<1>3. /\ phase' = [phase EXCEPT ![e] = "closed"] /\ out' = [out EXCEPT ![e] = <<>>]
      /\ net' = [net EXCEPT ![e] = <<>>]
      /\ len' = len /\ got' = got /\ body' = body /\ faults' = faults
      /\ asked' = asked /\ executed' = executed /\ answers' = answers /\ returned' = returned
  BY DEF Close
<1>4. \A c \in Ends : /\ Sent(c)' = Sent(c) /\ Received(c)' = Received(c)
                     /\ (Spoilt(c)' <=> Spoilt(c)) /\ (Short(c)' <=> Short(c))
  BY <1>3 DEF Sent, Received, Spoilt, Short
<1> HIDE DEF d
<1>5. /\ phase'[e] = "closed" /\ phase'[d] = phase[d]
      /\ out'[e] = <<>> /\ net'[d] = net[d]
  BY <1>1, <1>2, <1>3 DEF TypeOK
<1>6. Wire(e)'
  <2>1. phase'[Peer(e)] = phase[Peer(e)]
    BY <1>5 DEF d
  <2> QED BY <1>2, <1>4, <1>5, <2>1 DEF Wire
<1>7. Wire(d)'
  <2> SUFFICES ASSUME ~ Spoilt(d), phase[d] # "closed"
               PROVE  /\ Begins(OnItsWay(d)', Stream(Pending(d))')
                      /\ Short(d) => Len(OnItsWay(d)') < Len(Stream(Pending(d))')
    BY <1>1, <1>2, <1>4, <1>5 DEF Wire
  <2>1. /\ Begins(Received(d), Sent(d)) /\ Begins(OnItsWay(d), Stream(Pending(d)))
        /\ Short(d) => Len(OnItsWay(d)) < Len(Stream(Pending(d)))
    BY <1>2 DEF Wire
  <2>2. Stream(Pending(d))' = Stream(Pending(d))
    <3>1. Pending(d)' = Pending(d)
      BY <1>1, <1>4 DEF Pending
    <3> QED BY <3>1 DEF Stream
  <2>3. Part(d)' = Part(d)
    BY <1>1, <1>3, <1>5, PartUnchanged
  <2> DEFINE s == Part(d) \o net[d]
  <2>4. s \in Seq(Bytes) /\ out[e] \in Seq(Bytes)
    <3>1. Part(d) \in Seq(Bytes) /\ net[d] \in Seq(Bytes) /\ out[e] \in Seq(Bytes)
      BY <1>1, <1>2, WayTypes, EndTypes
    <3> QED BY <3>1, ConcatBytes, Zenon
  <2>5. OnItsWay(d) = s \o out[e] /\ OnItsWay(d)' = s \o <<>>
    BY <1>1, <1>5, <2>3 DEF OnItsWay
  <2> HIDE DEF s
  <2>6. OnItsWay(d)' = s
    BY <2>4, <2>5, ConcatEmptySeq
  <2>7. Stream(Pending(d)) \in Seq(Bytes)
    BY <1>1, <1>2, <2>1, PendingTypes
  <2>8. Begins(s, Stream(Pending(d)))
    BY <2>1, <2>4, <2>5, <2>7, BeginsConcat
  <2>9. Len(s) <= Len(OnItsWay(d)) /\ Len(s) \in Nat /\ Len(OnItsWay(d)) \in Nat
    <3>1. Len(OnItsWay(d)) = Len(s) + Len(out[e])
      BY <2>4, <2>5, ConcatBytes, Zenon
    <3>2. Len(s) \in Nat /\ Len(out[e]) \in Nat
      BY <2>4, LenProperties
    <3> QED BY <3>1, <3>2
  <2>10. Len(Stream(Pending(d))) \in Nat
    BY <2>7, LenProperties
  <2> QED BY <2>1, <2>2, <2>6, <2>8, <2>9, <2>10
<1> QED BY <1>6, <1>7 DEF d

LEMMA DisconnectWire == ASSUME NEW e \in Ends PROVE WireInv /\ Disconnect(e) => \A d \in Ends : Wire(d)'
BY CloseWire DEF Disconnect, recvVars, history

LEMMA FailsWire == WireInv /\ GetReplyFails => \A d \in Ends : Wire(d)'
<1>1. "client" \in Ends
  BY DEF Ends
<1> QED BY <1>1, CloseWire DEF GetReplyFails, recvVars

-----------------------------------------------------------------------------
(* Torn replies. *)

\* What was torn from an answer stays torn from it.
LEMMA TornStays ==
    ASSUME TypeOK, TornIntact, faults \subseteq faults', broken' = broken, returned' = returned,
           \/ answers' = answers
           \/ \E r \in Replies : answers' = Append(answers, r)
    PROVE  TornIntact'
<1> SUFFICES ASSUME ~ Spoilt("client")', NEW p \in broken, p # <<>> PROVE TornFrom(p)'
  BY DEF TornIntact, TornFrom
<1>1. TornFrom(p)
  BY DEF TornIntact, Spoilt
<1>2. CASE answers' = answers
  BY <1>1, <1>2 DEF TornFrom
<1>3. CASE \E r \in Replies : answers' = Append(answers, r)
  <2>1. PICK r \in Replies : answers' = Append(answers, r)
    BY <1>3
  <2>2. answers \in Seq(Replies) /\ Len(answers) \in Nat /\ Len(returned) \in Nat
    BY LenProperties DEF TypeOK
  <2>3. Len(answers') = Len(answers) + 1 /\ \A i \in 1 .. Len(answers) : answers'[i] = answers[i]
    BY <2>1, <2>2, AppendProperties
  <2>4. Len(returned) + 1 \in 1 .. Len(answers) /\ Len(returned) < Len(answers')
    BY <1>1, <2>2, <2>3 DEF TornFrom
  <2>5. answers'[Len(returned) + 1] = answers[Len(returned) + 1]
    BY <2>3, <2>4
  <2> QED BY <1>1, <2>4, <2>5 DEF TornFrom
<1> QED BY <1>2, <1>3

\* What getReply has received when its receive fails is from the next answer.
LEMMA FailsTorn == WireInv /\ GetReplyFails => TornIntact'
<1> SUFFICES ASSUME WireInv, GetReplyFails, ~ Spoilt("client")', NEW p \in broken', p # <<>>
             PROVE  TornFrom(p)'
  BY DEF TornIntact, TornFrom
<1>1. /\ answers' = answers /\ returned' = returned /\ faults' = faults
  BY DEF GetReplyFails
<1> DEFINE b == body["client"]
           torn == b \o [i \in 1 .. Missing("client") |-> Unset]
           h == answers[Len(returned) + 1]
           rest == Stream(Rest(answers, Len(returned) + 1))
           w == net["client"] \o out["server"]
<1>2. phase["client"] = "body" /\ Missing("client") > 0 /\ p = torn
  BY DEF GetReplyFails
<1>3. /\ "client" \in Ends /\ Peer("client") = "server" /\ TypeOK /\ Wire("client")
      /\ ~ Spoilt("client")
  BY <1>1 DEF WireInv, Ends, Peer, Spoilt
<1>4. Sent("client") = answers /\ Received("client") = returned
  BY DEF Sent, Received
<1>5. Begins(returned, answers) /\ Begins(OnItsWay("client"), Stream(Pending("client")))
  BY <1>2, <1>3, <1>4 DEF Wire
<1>6. /\ Len(returned) < Len(answers) /\ h \in Seq(Bytes) /\ rest \in Seq(Bytes)
      /\ BodyLen(Value(len["client"])) = Len(h) /\ Begins(b \o w, h \o rest)
  BY <1>2, <1>3, <1>4, <1>5, Arrival
<1>7. /\ Len(torn) = Len(h) /\ \A i \in 1 .. Len(b) : torn[i] = b[i]
      /\ \A i \in (Len(b) + 1) .. Len(torn) : torn[i] = Unset
  BY <1>2, <1>3, <1>6, TornPacket
<1>8. b \in Seq(Bytes) /\ w \in Seq(Bytes) /\ Len(b) \in Nat /\ Len(h) \in Nat /\ Len(b) <= Len(h)
  <2>1. b \in Seq(Bytes) /\ net["client"] \in Seq(Bytes) /\ out["server"] \in Seq(Bytes)
    BY <1>3, EndTypes, PeerFacts
  <2>2. w \in Seq(Bytes)
    BY <2>1, ConcatBytes, Zenon
  <2>3. Len(b) \in Nat /\ Len(h) \in Nat
    BY <1>6, <2>1, LenProperties
  <2>4. Len(b) <= Len(h)
    <3>1. Missing("client") > 0 /\ Missing("client") = Len(h) - Len(b)
      BY <1>2, <1>6 DEF Missing
    <3> HIDE DEF b, h
    <3> QED BY <2>3, <3>1
  <2> QED BY <2>1, <2>2, <2>3, <2>4
<1> HIDE DEF b, torn, h, rest, w
<1>9. ASSUME NEW i \in 1 .. Len(b)
      PROVE  b[i] = h[i]
  <2>1. /\ b \o w \in Seq(Bytes) /\ Len(b \o w) = Len(b) + Len(w)
        /\ \A j \in 1 .. (Len(b) + Len(w)) : (b \o w)[j] = IF j <= Len(b) THEN b[j] ELSE w[j - Len(b)]
    BY <1>8, ConcatProperties
  <2>2. /\ \A j \in 1 .. (Len(h) + Len(rest)) : (h \o rest)[j] = IF j <= Len(h) THEN h[j] ELSE rest[j - Len(h)]
    BY <1>6, ConcatProperties
  <2>3. Len(w) \in Nat /\ Len(rest) \in Nat
    BY <1>6, <1>8, LenProperties
  <2>4. /\ i \in 1 .. (Len(b) + Len(w)) /\ i \in 1 .. (Len(h) + Len(rest))
        /\ i <= Len(b) /\ i <= Len(h)
    BY <1>8, <2>3
  <2>5. (b \o w)[i] = (h \o rest)[i]
    BY <1>6, <2>1, <2>4 DEF Begins
  <2>6. (b \o w)[i] = b[i] /\ (h \o rest)[i] = h[i]
    BY <2>1, <2>2, <2>4, Zenon
  <2> QED BY <2>5, <2>6
<1>10. ASSUME NEW i \in 1 .. Len(h)
       PROVE  torn[i] \in {h[i], Unset}
  <2>1. CASE i \in 1 .. Len(b)
    BY <1>7, <1>9, <2>1
  <2>2. CASE i \notin 1 .. Len(b)
    <3>1. i \in (Len(b) + 1) .. Len(torn)
      BY <1>7, <1>8, <2>2
    <3> QED BY <1>7, <3>1
  <2> QED BY <2>1, <2>2
<1> QED BY <1>1, <1>2, <1>6, <1>7, <1>10 DEF TornFrom, h

LEMMA TornKept == WireInv /\ Next => TornIntact'
<1> SUFFICES ASSUME WireInv, Next PROVE TornIntact'
  OBVIOUS
<1>0. TypeOK /\ Phases /\ TornIntact
  BY DEF WireInv
<1>1. CASE GetReplyFails
  BY <1>1, FailsTorn
<1>2. CASE phase["client"] # "closed" /\ ~ GetReplyFails
  <2>1. broken = {}
    BY <1>0, <1>2 DEF Phases
  <2>2. broken' = broken
    BY <1>2 DEF Next, MakeCall, ReturnReply, ProcessCommand, ProcessCommandNull, SendData,
       RecvLen, AllocFails, RecvBody, Disconnect, history
  <2> QED BY <2>1, <2>2 DEF TornIntact
<1>3. CASE phase["client"] = "closed"
  <2>1. CASE ProcessCommand
    <3>1. \E r \in Replies : answers' = Append(answers, r)
      BY <2>1 DEF ProcessCommand
    <3>2. faults' = faults /\ broken' = broken /\ returned' = returned
      BY <2>1 DEF ProcessCommand
    <3> QED BY <1>0, <3>1, <3>2, TornStays
  <2>2. CASE ProcessCommandNull
    BY <1>0, <2>2, TornStays DEF ProcessCommandNull
  <2>3. ASSUME NEW e \in Ends, SendData(e) \/ RecvBody(e) \/ Disconnect(e) PROVE TornIntact'
    BY <1>0, <2>3, TornStays DEF SendData, RecvBody, Disconnect, history
  <2>4. ASSUME NEW e \in Ends, RecvLen(e) PROVE TornIntact'
    <3>1. faults \subseteq faults'
      BY <2>4 DEF RecvLen
    <3> QED BY <1>0, <2>4, <3>1, TornStays DEF RecvLen, history
  <2>5. ASSUME NEW e \in Ends, AllocFails(e) PROVE TornIntact'
    <3>1. e # "client" /\ broken' = broken /\ answers' = answers
      BY <1>3, <2>5 DEF AllocFails
    <3>2. faults \subseteq faults' /\ returned' = returned
      <4>1. faults' = faults \cup {IF e = "client" THEN "replyNull" ELSE "cmdNull"}
        BY <2>5, Zenon DEF AllocFails
      <4>2. returned' = returned
        BY <2>5, <3>1 DEF AllocFails
      <4> QED BY <4>1, <4>2
    <3> QED BY <1>0, <3>1, <3>2, TornStays
  <2>6. ~ MakeCall /\ ~ ReturnReply /\ ~ GetReplyFails
    BY <1>3 DEF MakeCall, ReturnReply, GetReplyFails
  <2> QED BY <2>1, <2>2, <2>3, <2>4, <2>5, <2>6 DEF Next
<1> QED BY <1>1, <1>2, <1>3

-----------------------------------------------------------------------------
(* The theorems. *)

LEMMA InitWire == Init => WireInv
<1> SUFFICES ASSUME Init PROVE WireInv
  OBVIOUS
<1>1. TypeOK
  BY InitTypes
<1>2. \A e \in Ends : /\ out[e] = <<>> /\ net[e] = <<>> /\ got[e] = 0 /\ body[e] = <<>>
                      /\ phase[e] = IF e = "client" THEN "idle" ELSE "len"
  BY DEF Init
<1>3. asked = <<>> /\ executed = <<>> /\ answers = <<>> /\ returned = <<>>
  BY DEF Init
<1>4. Phases
  <2>1. broken = {} /\ LenBytes \in Nat \ {0}
    BY FramingAssumption DEF Init
  <2> QED BY <1>2, <2>1 DEF Phases, Ends
<1>5. Counts
  BY <1>2, <1>3, EmptySeq DEF Counts, Ends
<1>6. ASSUME NEW e \in Ends
      PROVE  Wire(e)
  <2>1. Sent(e) = <<>> /\ Received(e) = <<>>
    BY <1>3 DEF Sent, Received
  <2>2. Begins(Received(e), Sent(e))
    BY <2>1, EmptySeq DEF Begins
  <2>3. Stream(Pending(e)) = <<>>
    <3>1. Len(<<>>) = 0 /\ <<>> \in Seq(Packets)
      BY EmptySeq
    <3>2. Pending(e) = <<>>
      BY <2>1, <3>1, SubSeqEmpty DEF Pending, Rest
    <3> QED BY <3>1, <3>2, StreamInSeq
  <2>4. Part(e) = <<>>
    <3>1. First(len[e], got[e]) = <<>>
      BY <1>2, SubSeqEmpty DEF First
    <3> QED BY <1>2, <3>1 DEF Part, Ends
  <2>5. OnItsWay(e) = <<>>
    <3>1. net[e] = <<>> /\ out[Peer(e)] = <<>>
      BY <1>2, PeerFacts
    <3>2. <<>> \o <<>> = <<>>
      BY ConcatEmptySeq, EmptySeq
    <3> QED BY <2>4, <3>1, <3>2 DEF OnItsWay
  <2>6. Begins(<<>>, <<>>)
    BY EmptySeq DEF Begins
  <2>7. ~ Short(e)
    BY DEF Init, Short
  <2> QED BY <2>2, <2>3, <2>5, <2>6, <2>7 DEF Wire
<1>7. TornIntact
  BY DEF Init, TornIntact
<1> QED BY <1>1, <1>4, <1>5, <1>6, <1>7 DEF WireInv

LEMMA NextWire == WireInv /\ [Next]_vars => WireInv'
<1> SUFFICES ASSUME WireInv, [Next]_vars PROVE WireInv'
  OBVIOUS
<1>1. CASE Next
  <2>1. TypeOK /\ Phases /\ Counts
    BY DEF WireInv
  <2>2. TypeOK'
    BY <1>1, <2>1, CallTypes, ReturnTypes, ProcessTypes, SendTypes, RecvLenTypes, AllocTypes,
       RecvBodyTypes, DisconnectTypes, GetReplyFailsTypes, ProcessNullTypes DEF Next
  <2>3. Phases' /\ Counts'
    BY <1>1, <2>1, PhasesKept, CountsKept
  <2>4. \A e \in Ends : Wire(e)'
    BY <1>1, CallWire, ReturnWire, ProcessWire, SendWire, RecvLenWire, AllocWire,
       RecvBodyWire, DisconnectWire, FailsWire, ProcessNullWire DEF Next
  <2>5. TornIntact'
    BY <1>1, TornKept
  <2> QED BY <2>2, <2>3, <2>4, <2>5 DEF WireInv
<1>2. CASE UNCHANGED vars
  <2>1. /\ net' = net /\ phase' = phase /\ out' = out /\ len' = len /\ got' = got /\ body' = body
        /\ asked' = asked /\ executed' = executed /\ answers' = answers /\ returned' = returned
        /\ faults' = faults /\ broken' = broken
    BY <1>2 DEF vars, recvVars, history
  <2>2. TypeOK'
    BY <2>1 DEF WireInv, TypeOK, Missing
  <2>3. Phases' /\ Counts'
    BY <2>1 DEF WireInv, Phases, Counts
  <2>4. ASSUME NEW e \in Ends
        PROVE  Wire(e)'
    <3>1. Sent(e)' = Sent(e) /\ Received(e)' = Received(e) /\ OnItsWay(e)' = OnItsWay(e)
      BY <2>1 DEF Sent, Received, OnItsWay, Part
    <3>2. Wire(e) /\ (~ Spoilt(e)' /\ Short(e)' => Short(e) /\ phase'[Peer(e)] # "idle")
      BY <2>1 DEF WireInv, Wire, Spoilt, Short
    <3> QED BY <2>1, <3>1, <3>2, WireUnchanged
  <2>5. TornIntact'
    BY <2>1, TornStays DEF WireInv
  <2> QED BY <2>2, <2>3, <2>4, <2>5 DEF WireInv
<1> QED BY <1>1, <1>2

\* What is on its way to an end is what it has been sent and has not received,
\* packet by packet, whatever the sends and the recvs take (sendData and
\* getReply of the client, on_client_connect of the server).
THEOREM WireKept == Spec => []WireInv
<1> QED BY InitWire, NextWire, PTL DEF Spec

\* Every variable of the two ends has its type, and no recv of a body asks for
\* less than nothing.
THEOREM FramingTypes == Spec => []TypeOK
<1>1. WireInv => TypeOK
  BY DEF WireInv
<1> QED BY <1>1, WireKept, PTL

\* The server executes what the client has asked, command by command, whatever
\* the lengths and the contents of the packets, as long as no length was split,
\* no command left unread and no short one followed by others.
THEOREM CommandsArriveIntact == Spec => []CommandsIntact
<1>1. WireInv => CommandsIntact
  <2> SUFFICES ASSUME WireInv, faults \cap {"split", "cmdNull"} = {},
                      ~ {"short", "replyNull"} \subseteq faults
               PROVE  Begins(executed, asked)
    BY DEF CommandsIntact
  <2>1. Wire("server") /\ ~ Spoilt("server")
    BY DEF WireInv, Spoilt, Ends
  <2> QED BY <2>1 DEF Wire, Sent, Received
<1> QED BY <1>1, WireKept, PTL

\* getReply returns what the library has answered, reply by reply, and a part
\* of the next answer when the stream is cut in it (the return of pReply after
\* a failed recv), as long as it had the memory for every reply.
THEOREM RepliesArriveIntact == Spec => []RepliesIntact
<1>1. WireInv => RepliesIntact
  <2> SUFFICES ASSUME WireInv, "replyNull" \notin faults
               PROVE  Begins(returned, answers) /\ \A p \in broken : TornFrom(p)
    BY DEF RepliesIntact
  <2>1. Wire("client") /\ TornIntact /\ ~ Spoilt("client")
    BY DEF WireInv, Spoilt, Ends
  <2> QED BY <2>1 DEF Wire, Sent, Received, TornIntact
<1> QED BY <1>1, WireKept, PTL

\* An end that waits with nothing on its way has received all it was sent.
LEMMA WaitingHasAll ==
    ASSUME WireInv, NEW e \in Ends, ~ Spoilt(e), ~ Short(e), phase[Peer(e)] # "closed",
           phase[e] \in {"len", "body"}, phase[e] = "body" => Missing(e) # 0,
           net[e] = <<>>, out[Peer(e)] = <<>>
    PROVE  Len(Received(e)) = Len(Sent(e))
<1>1. TypeOK /\ Phases
  BY DEF WireInv
<1>2. Begins(Received(e), Sent(e)) /\ OnItsWay(e) = Stream(Pending(e)) /\ Begins(OnItsWay(e), Stream(Pending(e)))
  BY DEF WireInv, Wire
<1>3. /\ len[e] \in Seq(Bytes) /\ Len(len[e]) = LenBytes /\ body[e] \in Seq(Bytes)
      /\ len[e] \in [1 .. LenBytes -> Bytes]
      /\ got[e] \in 0 .. LenBytes /\ LenBytes \in Nat \ {0} /\ Sent(e) \in Seq(Packets)
  BY <1>1, EndTypes
<1>4. Part(e) \in Seq(Bytes)
  BY <1>1, WayTypes
<1>5. OnItsWay(e) = Part(e)
  <2>1. Part(e) \o <<>> = Part(e)
    BY <1>4, ConcatEmptySeq
  <2> QED BY <2>1 DEF OnItsWay
<1>6. /\ Len(Received(e)) \in 0 .. Len(Sent(e)) /\ Len(Sent(e)) \in Nat /\ Pending(e) \in Seq(Packets)
  BY <1>1, <1>2, PendingTypes
<1>7. CASE phase[e] = "body"
  <2> DEFINE h == Sent(e)[Len(Received(e)) + 1]
             rest == Stream(Rest(Sent(e), Len(Received(e)) + 1))
  <2>1. /\ h \in Seq(Bytes) /\ rest \in Seq(Bytes) /\ BodyLen(Value(len[e])) = Len(h)
        /\ body[e] \o (net[e] \o out[Peer(e)]) = h \o rest
    BY <1>1, <1>2, <1>7, Arrival
  <2> HIDE DEF h, rest
  <2>2. body[e] \o (net[e] \o out[Peer(e)]) = body[e]
    <3>1. <<>> \o <<>> = <<>>
      BY ConcatEmptySeq, EmptySeq
    <3>2. body[e] \o <<>> = body[e]
      BY <1>3, ConcatEmptySeq
    <3> QED BY <3>1, <3>2
  <2>3. Len(body[e]) = Len(h) + Len(rest)
    <3>1. Len(h \o rest) = Len(h) + Len(rest)
      BY <2>1, ConcatBytes, Zenon
    <3> QED BY <2>1, <2>2, <3>1
  <2>4. Len(h) \in Nat /\ Len(rest) \in Nat
    BY <2>1, LenProperties
  <2>5. Missing(e) = Len(h) - Len(body[e]) /\ Missing(e) >= 0 /\ Missing(e) # 0
    BY <1>1, <1>7, <2>1 DEF Missing, TypeOK
  <2> QED BY <2>3, <2>4, <2>5
<1>8. CASE phase[e] = "len"
  <2>1. Part(e) = First(len[e], got[e]) /\ got[e] < LenBytes
    BY <1>1, <1>8 DEF Part, Phases
  <2>2. Len(Part(e)) = got[e]
    <3>1. got[e] \in 0 .. Len(len[e])
      BY <1>3
    <3>2. Len(First(len[e], got[e])) = got[e]
      BY <1>3, <3>1, FirstAndRest
    <3> QED BY <2>1, <3>2
  <2>3. Pending(e) = <<>>
    <3> SUFFICES ASSUME Pending(e) # <<>> PROVE FALSE
      OBVIOUS
    <3> DEFINE b == Pending(e)[1]
               rest == Stream(Tail(Pending(e)))
    <3>1. Stream(Pending(e)) = Frame(b) \o rest
      BY <1>6, StreamTail
    <3>2. b \in Packets
      <4>1. Len(Pending(e)) \in Nat \ {0}
        BY <1>6, EmptySeq, LenProperties
      <4>2. 1 \in 1 .. Len(Pending(e))
        BY <4>1
      <4> QED BY <1>6, <4>2, ElementOfSeq
    <3>3. Frame(b) \in Seq(Bytes) /\ Len(Frame(b)) = LenBytes + Len(b) /\ Len(b) \in Nat
      BY <3>2, FrameParts
    <3>4. rest \in Seq(Bytes)
      BY <1>6, HeadTailProperties, StreamInSeq
    <3> HIDE DEF b, rest
    <3>5. Len(Part(e)) = Len(Frame(b)) + Len(rest)
      <4>1. Len(Frame(b) \o rest) = Len(Frame(b)) + Len(rest)
        BY <3>3, <3>4, ConcatBytes, Zenon
      <4> QED BY <1>2, <1>5, <3>1, <4>1
    <3>6. Len(rest) \in Nat
      BY <3>4, LenProperties
    <3> QED BY <1>3, <2>1, <2>2, <3>3, <3>5, <3>6
  <2>4. Len(Pending(e)) = Len(Sent(e)) - Len(Received(e))
    BY <1>3, <1>6, FirstAndRest DEF Pending
  <2>5. Len(Pending(e)) = 0
    BY <2>3, EmptySeq
  <2> QED BY <1>6, <2>4, <2>5
<1> QED BY <1>7, <1>8

\* The client waits in getReply and the server in its loops, each for the
\* other, never, as long as none of the five faults has happened.
THEOREM NeverStalls == Spec => []NoStall
<1>1. WireInv => NoStall
  <2> SUFFICES ASSUME WireInv, faults = {},
                      \A e \in Ends : /\ phase[e] \in {"len", "body"} /\ net[e] = <<>>
                                      /\ phase[e] = "body" => Missing(e) # 0
               PROVE  FALSE
    BY DEF NoStall
  <2>1. "client" \in Ends /\ "server" \in Ends
    BY DEF Ends
  <2>2. \A e \in Ends : ~ Spoilt(e) /\ ~ Short(e)
    BY DEF Spoilt, Short
  <2>3. \A e \in Ends : out[e] = <<>>
    BY DEF WireInv, Phases
  <2>4. \A e \in Ends : Len(Received(e)) = Len(Sent(e))
    <3>1. ASSUME NEW e \in Ends
          PROVE  Len(Received(e)) = Len(Sent(e))
      <4>1. Peer(e) \in Ends
        BY PeerFacts
      <4>2. phase[Peer(e)] # "closed" /\ out[Peer(e)] = <<>>
        BY <2>3, <4>1
      <4> QED BY <2>2, <4>2, WaitingHasAll
    <3> QED BY <3>1
  <2>5. Len(executed) = Len(asked) /\ Len(returned) = Len(answers)
    <3>1. /\ Sent("client") = answers /\ Received("client") = returned
          /\ Sent("server") = asked /\ Received("server") = executed
      BY DEF Sent, Received
    <3> QED BY <2>1, <2>4, <3>1
  <2>6. Len(answers) = Len(executed) /\ Len(asked) = Len(returned) + 1
    BY <2>1 DEF WireInv, Counts
  <2>7. Len(asked) \in Nat
    BY LenProperties DEF WireInv, TypeOK
  <2> QED BY <2>5, <2>6, <2>7
<1> QED BY <1>1, WireKept, PTL

=============================================================================
