------------------------------ MODULE DataFacts ------------------------------
(***************************************************************************)
(* Facts about the data the models are built from: induction and recursion *)
(* over the natural numbers, the binary form of a number, bit strings and  *)
(* the mark behind them, sequences used as stacks, and sums over finite     *)
(* sets.                                                                   *)
(***************************************************************************)
EXTENDS Bits, FiniteSets, Functions, SequenceTheorems, FiniteSetTheorems, WellFoundedInduction, TLAPS

(* A set of natural numbers that is not empty has a least one. *)
LEMMA NatMin ==
    ASSUME NEW S \in SUBSET Nat, S # {}
    PROVE  \E n \in S : \A m \in S : n <= m
<1> DEFINE R == OpToRel(<, Nat)
<1>1. IsWellFoundedOn(R, Nat)
  BY NatLessThanWellFounded
<1>2. \A x, y \in Nat : x < y => <<x, y>> \in R
  BY DEF OpToRel
<1> HIDE DEF R
<1>3. PICK x \in S : \A y \in S : ~ (<<y, x>> \in R)
  BY <1>1, WFMin
<1>4. \A y \in S : ~ (y < x)
  BY <1>2, <1>3
<1>5. \A a, b \in Nat : ~ (b < a) => a <= b
  OBVIOUS
<1> QED BY <1>4, <1>5

(* A set with 0 and the successor of every number in it has all numbers. *)
LEMMA NatInduct ==
    ASSUME NEW S, 0 \in S, \A n \in Nat : n \in S => n + 1 \in S
    PROVE  Nat \subseteq S
<1> DEFINE T == {n \in Nat : n \notin S}
<1> SUFFICES ASSUME T # {} PROVE FALSE
  OBVIOUS
<1>1. PICK n \in T : \A m \in T : n <= m
  BY NatMin
<1>2. n # 0 /\ n - 1 \in Nat /\ (n - 1) + 1 = n
  BY <1>1
<1>3. n - 1 \notin T
  BY <1>1, <1>2
<1> QED BY <1>1, <1>2, <1>3

(* Functions that are defined by recursion exist: step by step for the numbers up
   to n, always the same values, and so for all. *)
Recursion(T, a, D) ==
    {g \in [Nat -> T] : g[0] = a /\ \A n \in Nat : g[n + 1] = D[<<g[n], n>>]}

LEMMA NatRecursion ==
    ASSUME NEW T, NEW a \in T, NEW D \in [T \X Nat -> T]
    PROVE  Recursion(T, a, D) # {}
<1> DEFINE UpTo(n) == {h \in [0..n -> T] :
                         h[0] = a /\ \A k \in 0..n - 1 : h[k + 1] = D[<<h[k], k>>]}
           g == [n \in Nat |-> (CHOOSE h \in UpTo(n) : TRUE)[n]]
<1>1. ASSUME NEW n \in Nat PROVE UpTo(n) # {}
  <2> DEFINE S == {m \in Nat : UpTo(m) # {}}
  <2>1. 0 \in S
    <3> DEFINE h == [k \in 0..0 |-> a]
    <3>1. h \in [0..0 -> T] /\ h[0] = a /\ 0..0 - 1 = {}
      OBVIOUS
    <3> QED BY <3>1
  <2>2. ASSUME NEW m \in Nat, m \in S PROVE m + 1 \in S
    <3>1. PICK h \in UpTo(m) : TRUE
      BY <2>2
    <3> DEFINE hh == [k \in 0..m + 1 |-> IF k = m + 1 THEN D[<<h[m], m>>] ELSE h[k]]
    <3>2. h \in [0..m -> T] /\ h[0] = a /\ \A k \in 0..m - 1 : h[k + 1] = D[<<h[k], k>>]
      BY <3>1
    <3>3. h[m] \in T /\ D[<<h[m], m>>] \in T
      BY <3>2
    <3>4. hh \in [0..m + 1 -> T]
      BY <3>2, <3>3
    <3>5. hh[0] = a
      BY <3>2
    <3>6. ASSUME NEW k \in 0..(m + 1) - 1 PROVE hh[k + 1] = D[<<hh[k], k>>]
      <4>1. k \in 0..m /\ k \in 0..m + 1 /\ k + 1 \in 0..m + 1 /\ k # m + 1
        OBVIOUS
      <4>2. hh[k] = h[k]
        BY <4>1
      <4>3. CASE k = m
        BY <4>1, <4>2, <4>3
      <4>4. CASE k # m
        <5>1. k \in 0..m - 1 /\ k + 1 # m + 1
          BY <4>1, <4>4
        <5>2. hh[k + 1] = h[k + 1]
          BY <4>1, <5>1
        <5> QED BY <3>2, <4>2, <5>1, <5>2
      <4> QED BY <4>3, <4>4
    <3>7. hh \in UpTo(m + 1)
      BY <3>4, <3>5, <3>6
    <3> HIDE DEF UpTo
    <3> QED BY <3>7
  <2> HIDE DEF UpTo
  <2>3. Nat \subseteq S
    BY <2>1, <2>2, NatInduct
  <2> QED BY <2>3
<1>2. ASSUME NEW n \in Nat, NEW h \in UpTo(n), NEW f \in UpTo(n + 1)
      PROVE  h[n] = f[n]
  <2> DEFINE S == {m \in Nat : m <= n => h[m] = f[m]}
  <2>1. /\ h[0] = a /\ \A k \in 0..n - 1 : h[k + 1] = D[<<h[k], k>>]
        /\ f[0] = a /\ \A k \in 0..(n + 1) - 1 : f[k + 1] = D[<<f[k], k>>]
    OBVIOUS
  <2> HIDE DEF UpTo
  <2>2. 0 \in S
    BY <2>1
  <2>3. ASSUME NEW m \in Nat, m \in S PROVE m + 1 \in S
    <3> SUFFICES ASSUME m + 1 <= n PROVE h[m + 1] = f[m + 1]
      OBVIOUS
    <3>1. m \in 0..n - 1 /\ m \in 0..(n + 1) - 1 /\ h[m] = f[m]
      BY <2>3
    <3> QED BY <2>1, <3>1
  <2>4. Nat \subseteq S
    BY <2>2, <2>3, NatInduct
  <2> QED BY <2>4
<1>3. ASSUME NEW n \in Nat
      PROVE  /\ (CHOOSE h \in UpTo(n) : TRUE) \in UpTo(n)
             /\ g[n] = (CHOOSE h \in UpTo(n) : TRUE)[n]
  <2> HIDE DEF UpTo
  <2> QED BY <1>1, <1>3
<1>4. g \in [Nat -> T]
  <2>1. ASSUME NEW n \in Nat, NEW h \in UpTo(n) PROVE h[n] \in T
    OBVIOUS
  <2> HIDE DEF UpTo
  <2> QED BY <1>3, <2>1
<1>5. g[0] = a
  <2>1. \A h \in UpTo(0) : h[0] = a
    OBVIOUS
  <2> HIDE DEF UpTo, g
  <2> QED BY <1>3, <2>1
<1>6. ASSUME NEW n \in Nat PROVE g[n + 1] = D[<<g[n], n>>]
  <2>1. PICK h \in UpTo(n) : g[n] = h[n]
    <3> HIDE DEF UpTo, g
    <3> QED BY <1>3
  <2>2. PICK f \in UpTo(n + 1) : g[n + 1] = f[n + 1]
    <3> HIDE DEF UpTo, g
    <3> QED BY <1>3
  <2>3. f[n + 1] = D[<<f[n], n>>]
    <3>1. n \in 0..(n + 1) - 1
      OBVIOUS
    <3> HIDE DEF g
    <3> QED BY <2>2, <3>1
  <2> HIDE DEF UpTo, g
  <2>4. h[n] = f[n]
    BY <1>2, <2>1, <2>2
  <2> QED BY <2>1, <2>2, <2>3, <2>4
<1> HIDE DEF g
<1>7. g \in Recursion(T, a, D)
  BY <1>4, <1>5, <1>6 DEF Recursion
<1> QED BY <1>7
-----------------------------------------------------------------------------
(* Numbers in binary. *)
LEMMA Pow2Facts ==
    /\ Pow2[0] = 1
    /\ \A n \in Nat : Pow2[n] \in Nat \ {0} /\ Pow2[n + 1] = 2 * Pow2[n]
<1> DEFINE step(p) == [n \in Nat |-> IF n = 0 THEN 1 ELSE 2 * p[n - 1]]
           D == [p \in Nat \X Nat |-> 2 * p[1]]
<1>1. PICK g \in [Nat -> Nat] : g[0] = 1 /\ \A n \in Nat : g[n + 1] = D[<<g[n], n>>]
  <2>1. D \in [Nat \X Nat -> Nat]
    OBVIOUS
  <2> HIDE DEF D
  <2>2. Recursion(Nat, 1, D) # {}
    BY <2>1, NatRecursion
  <2> QED BY <2>2 DEF Recursion
<1>2. \A n \in Nat : g[n + 1] = 2 * g[n]
  BY <1>1
<1>3. g = step(g)
  <2>1. ASSUME NEW n \in Nat PROVE g[n] = step(g)[n]
    <3>1. CASE n = 0
      BY <1>1, <3>1
    <3>2. CASE n # 0
      <4>1. n - 1 \in Nat /\ (n - 1) + 1 = n
        BY <3>2
      <4>2. g[n] = 2 * g[n - 1]
        BY <1>2, <4>1
      <4> QED BY <3>2, <4>2
    <3> QED BY <3>1, <3>2
  <2> QED BY <1>1, <2>1
<1>4. Pow2 = CHOOSE p : p = step(p)
  BY DEF Pow2
<1>5. Pow2 = step(Pow2)
  <2> HIDE DEF step
  <2> QED BY <1>3, <1>4
<1>6. Pow2[0] = 1
  BY <1>5
<1>7. ASSUME NEW n \in Nat PROVE Pow2[n + 1] = 2 * Pow2[n]
  <2>1. n + 1 \in Nat /\ n + 1 # 0 /\ (n + 1) - 1 = n
    OBVIOUS
  <2> QED BY <1>5, <2>1
<1>8. \A n \in Nat : Pow2[n] \in Nat \ {0}
  <2> DEFINE S == {n \in Nat : Pow2[n] \in Nat \ {0}}
  <2>1. 0 \in S
    BY <1>6
  <2>2. ASSUME NEW n \in Nat, n \in S PROVE n + 1 \in S
    BY <1>7, <2>2
  <2>3. Nat \subseteq S
    BY <2>1, <2>2, NatInduct
  <2> QED BY <2>3
<1> QED BY <1>6, <1>7, <1>8

(* There is one quotient only. *)
LEMMA QuotientUnique ==
    ASSUME NEW d \in Nat \ {0}, NEW q \in Int, NEW r \in 0..d - 1
    PROVE  (d * q + r) \div d = q
<1> DEFINE x == d * q + r
           p == x \div d
           s == x % d
<1>1. x \in Int /\ p \in Int /\ s \in 0..d - 1 /\ x = d * p + s
  OBVIOUS
<1>2. x = d * q + r
  OBVIOUS
<1> HIDE DEF x, p, s
<1>3. d * p + s = d * q + r
  BY <1>1, <1>2
<1>4. p <= q
  <2> SUFFICES ASSUME p >= q + 1 PROVE FALSE
    BY <1>1
  <2>1. d * p >= d * (q + 1) /\ d * (q + 1) = d * q + d
    BY <1>1
  <2>2. \A u, v \in Int : u + s = v + r /\ u >= v + d => FALSE
    BY <1>1
  <2> QED BY <1>1, <1>3, <2>1, <2>2
<1>5. q <= p
  <2> SUFFICES ASSUME q >= p + 1 PROVE FALSE
    BY <1>1
  <2>1. d * q >= d * (p + 1) /\ d * (p + 1) = d * p + d
    BY <1>1
  <2>2. \A u, v \in Int : u + s = v + r /\ v >= u + d => FALSE
    BY <1>1
  <2> QED BY <1>1, <1>3, <2>1, <2>2
<1>6. p = q
  BY <1>1, <1>4, <1>5
<1> QED BY <1>6 DEF p, x

(* Dividing by 2 first takes the last bit off. *)
LEMMA HalfFirst ==
    ASSUME NEW v \in Nat, NEW p \in Nat \ {0}
    PROVE  v \div (2 * p) = (v \div 2) \div p
<1> DEFINE h == v \div 2
           b == v % 2
           q == h \div p
           r == h % p
<1>1. h \in Nat /\ b \in 0..1 /\ v = 2 * h + b
  OBVIOUS
<1>2. q \in Int /\ r \in 0..p - 1 /\ h = p * q + r
  BY <1>1
<1> HIDE DEF h, b, q, r
<1>3. 2 * p \in Nat \ {0} /\ 2 * r + b \in 0..2 * p - 1
  BY <1>1, <1>2
<1>4. v = (2 * p) * q + (2 * r + b)
  BY <1>1, <1>2
<1>5. v \div (2 * p) = q
  BY <1>2, <1>3, <1>4, QuotientUnique
<1> QED BY <1>5 DEF q, h

(* A number below 2^w is known from its w bits. *)
LEMMA BitsTellApart ==
    \A w \in Nat : \A u, v \in 0..Pow2[w] - 1 :
        (\A k \in 1..w : (u \div Pow2[w - k]) % 2 = (v \div Pow2[w - k]) % 2) => u = v
<1> DEFINE Same(w, u, v) ==
             \A k \in 1..w : (u \div Pow2[w - k]) % 2 = (v \div Pow2[w - k]) % 2
           S == {w \in Nat : \A u, v \in 0..Pow2[w] - 1 : Same(w, u, v) => u = v}
<1>1. 0 \in S
  <2>1. 0..Pow2[0] - 1 = {0}
    BY Pow2Facts
  <2> HIDE DEF Same
  <2> QED BY <2>1
<1>2. ASSUME NEW w \in Nat, w \in S PROVE w + 1 \in S
  <2> SUFFICES ASSUME NEW u \in 0..Pow2[w + 1] - 1, NEW v \in 0..Pow2[w + 1] - 1,
                      Same(w + 1, u, v)
               PROVE  u = v
    <3> HIDE DEF Same
    <3> QED OBVIOUS
  <2>1. PICK p \in Nat \ {0} : p = Pow2[w] /\ Pow2[w + 1] = 2 * p
    BY Pow2Facts
  <2>2. /\ u \in Nat /\ v \in Nat /\ u < 2 * p /\ v < 2 * p
        /\ u \div 2 \in 0..p - 1 /\ v \div 2 \in 0..p - 1
    BY <2>1
  <2>3. u % 2 = v % 2
    <3>1. w + 1 \in 1..w + 1 /\ (w + 1) - (w + 1) = 0 /\ u \div 1 = u /\ v \div 1 = v
      BY <2>2
    <3> QED BY <3>1, Pow2Facts
  <2>4. ASSUME NEW k \in 1..w
        PROVE  ((u \div 2) \div Pow2[w - k]) % 2 = ((v \div 2) \div Pow2[w - k]) % 2
    <3>1. k \in 1..w + 1 /\ w - k \in Nat /\ (w + 1) - k = (w - k) + 1
      OBVIOUS
    <3>2. PICK e \in Nat \ {0} : e = Pow2[w - k] /\ Pow2[(w + 1) - k] = 2 * e
      BY <3>1, Pow2Facts
    <3>3. (u \div (2 * e)) % 2 = (v \div (2 * e)) % 2
      BY <3>1, <3>2
    <3>4. u \div (2 * e) = (u \div 2) \div e /\ v \div (2 * e) = (v \div 2) \div e
      BY <2>2, HalfFirst
    <3> QED BY <3>2, <3>3, <3>4
  <2>5. u \div 2 = v \div 2
    <3>1. Same(w, u \div 2, v \div 2)
      BY <2>4
    <3> HIDE DEF Same
    <3> QED BY <1>2, <2>1, <2>2, <3>1
  <2>6. \A x \in Nat : x = 2 * (x \div 2) + (x % 2)
    OBVIOUS
  <2>7. u = 2 * (u \div 2) + (u % 2) /\ v = 2 * (v \div 2) + (v % 2)
    BY <2>2, <2>6
  <2> QED BY <2>3, <2>5, <2>7
<1> HIDE DEF Same
<1>3. Nat \subseteq S
  BY <1>1, <1>2, NatInduct
<1>4. \A w \in Nat : \A u, v \in 0..Pow2[w] - 1 : Same(w, u, v) => u = v
  BY <1>3
<1> QED BY <1>4 DEF Same

(* store_uint and get_uint: a number that fits comes back. *)
LEMMA UintBack ==
    ASSUME NEW w \in Nat, NEW v \in 0..Pow2[w] - 1
    PROVE  /\ UintBits(v, w) \in Seq(Bit) /\ Len(UintBits(v, w)) = w
           /\ UintOf(UintBits(v, w)) = v
<1>1. ASSUME NEW u \in 0..Pow2[w] - 1
      PROVE  /\ UintBits(u, w) \in Seq(Bit) /\ Len(UintBits(u, w)) = w
             /\ \A k \in 1..w : UintBits(u, w)[k] = (u \div Pow2[w - k]) % 2
  <2>1. ASSUME NEW k \in 1..w PROVE (u \div Pow2[w - k]) % 2 \in Bit
    <3>1. PICK e \in Nat \ {0} : e = Pow2[w - k]
      BY Pow2Facts
    <3>2. u \in Int /\ u \div e \in Int
      BY Pow2Facts
    <3>3. \A x \in Int : x % 2 \in {0, 1}
      OBVIOUS
    <3> QED BY <3>1, <3>2, <3>3 DEF Bit
  <2>2. UintBits(u, w) \in [1..w -> Bit]
    BY <2>1 DEF UintBits
  <2> QED BY <2>2 DEF UintBits
<1>2. ASSUME NEW u \in 0..Pow2[w] - 1, UintBits(u, w) = UintBits(v, w) PROVE u = v
  <2>1. \A k \in 1..w : (u \div Pow2[w - k]) % 2 = (v \div Pow2[w - k]) % 2
    BY <1>1, <1>2
  <2> QED BY <2>1, BitsTellApart
<1>3. UintOf(UintBits(v, w)) =
        CHOOSE u \in 0..Pow2[w] - 1 : UintBits(u, w) = UintBits(v, w)
  BY <1>1 DEF UintOf
<1> QED BY <1>1, <1>2, <1>3

(* A number that 64 bits hold is counted out with bits it fits into. *)
LEMMA LenInBitsFits ==
    ASSUME NEW num \in Nat, NEW most \in 1..64, num < Pow2[most]
    PROVE  LenInBits(num) \in 1..64 /\ num < Pow2[LenInBits(num)]
<1> DEFINE S == {w \in 1..64 : num < Pow2[w]}
<1>1. PICK w \in S : \A m \in S : w <= m
  <2>1. S \in SUBSET Nat /\ S # {}
    OBVIOUS
  <2> HIDE DEF S
  <2> QED BY <2>1, NatMin
<1>2. w = 1 \/ Pow2[w - 1] <= num
  <2> SUFFICES ASSUME w # 1, ~ (Pow2[w - 1] <= num) PROVE FALSE
    OBVIOUS
  <2>1. w - 1 \in 1..64 /\ w - 1 < w /\ Pow2[w - 1] \in Nat
    BY Pow2Facts
  <2>2. num < Pow2[w - 1]
    BY <2>1
  <2> QED BY <1>1, <2>1, <2>2
<1>3. \E x \in 1..64 : num < Pow2[x] /\ (x = 1 \/ Pow2[x - 1] <= num)
  BY <1>1, <1>2
<1> QED BY <1>3 DEF LenInBits
-----------------------------------------------------------------------------
(* There is room for the mark, and less than a byte behind it. *)
LEMMA WholeBytesBounds ==
    ASSUME NEW n \in Nat
    PROVE  /\ WholeBytes(n) \in Nat /\ WholeBytes(n) % 8 = 0
           /\ n + 1 <= WholeBytes(n) /\ WholeBytes(n) <= n + 8
  BY DEF WholeBytes

LEMMA MarkedFacts ==
    ASSUME NEW s \in Seq(Bit)
    PROVE  /\ Marked(s) \in Seq(Bit) /\ Len(Marked(s)) \in Nat
           /\ Len(s) + 1 <= Len(Marked(s)) /\ Len(Marked(s)) <= Len(s) + 8
           /\ \A k \in 1..Len(Marked(s)) :
                Marked(s)[k] = IF k <= Len(s) THEN s[k] ELSE IF k = Len(s) + 1 THEN 1 ELSE 0
<1> DEFINE n == WholeBytes(Len(s))
           bit(k) == IF k <= Len(s) THEN s[k] ELSE IF k = Len(s) + 1 THEN 1 ELSE 0
<1>1. Len(s) \in Nat
  OBVIOUS
<1>2. n \in Nat /\ Len(s) + 1 <= n /\ n <= Len(s) + 8
  BY <1>1, WholeBytesBounds
<1> HIDE DEF n
<1>3. \A k \in 1..Len(s) : s[k] \in Bit
  OBVIOUS
<1>4. \A k \in 1..n : bit(k) \in Bit
  BY <1>1, <1>2, <1>3 DEF Bit
<1>5. Marked(s) = [k \in 1..n |-> bit(k)]
  BY DEF Marked, n
<1> HIDE DEF bit
<1>6. Marked(s) \in Seq(Bit) /\ Len(Marked(s)) = n
  BY <1>2, <1>4, <1>5
<1>7. \A k \in 1..n : Marked(s)[k] = bit(k)
  BY <1>5
<1> QED
  BY <1>2, <1>6, <1>7 DEF bit

(* The mark stands behind the last bit and nowhere else. *)
LEMMA MarkFound ==
    ASSUME NEW s \in Seq(Bit)
    PROVE  HasMark(Marked(s)) /\ MarkAt(Marked(s)) = Len(s) + 1
<1> DEFINE m == Marked(s)
           places == Len(m) - 7..Len(m)
<1>0. Len(s) \in Nat
  OBVIOUS
<1>1. Len(m) \in Nat /\ Len(s) + 1 <= Len(m) /\ Len(m) <= Len(s) + 8
  BY MarkedFacts
<1>2. \A k \in 1..Len(m) :
        /\ k = Len(s) + 1 => m[k] = 1
        /\ k > Len(s) + 1 => m[k] = 0
  BY <1>0, <1>1, MarkedFacts
<1> HIDE DEF m
<1>3. Len(s) + 1 \in places
  BY <1>0, <1>1
<1>4. IsMark(m, Len(s) + 1)
  BY <1>0, <1>1, <1>2 DEF IsMark
<1>5. ASSUME NEW k \in places, IsMark(m, k)
      PROVE  k = Len(s) + 1
  <2>1. CASE k > Len(s) + 1
    BY <1>0, <1>1, <1>2, <1>5, <2>1 DEF IsMark
  <2>2. CASE k < Len(s) + 1
    BY <1>0, <1>1, <1>2, <1>5, <2>2 DEF IsMark
  <2> QED
    BY <1>0, <1>1, <2>1, <2>2
<1>6. HasMark(m)
  BY <1>3, <1>4 DEF HasMark
<1>7. MarkAt(m) = Len(s) + 1
  BY <1>3, <1>4, <1>5 DEF MarkAt
<1> QED
  BY <1>6, <1>7 DEF m

(* What bytes_str_to_bit_str, decode_8 and deserialise find before the mark is
   what was written before it, and the CHECK that the last byte is not 0 holds,
   whatever the bits are, none at all included. *)
THEOREM MarkRoundTrip ==
    \A s \in Seq(Bit) : HasMark(Marked(s)) /\ Unmarked(Marked(s)) = s
<1> TAKE s \in Seq(Bit)
<1> DEFINE m == Marked(s)
           front == SubSeq(m, 1, Len(s))
<1>0. Len(s) \in Nat
  OBVIOUS
<1>1. m \in Seq(Bit) /\ Len(m) \in Nat /\ Len(s) + 1 <= Len(m)
  BY MarkedFacts
<1>2. \A k \in 1..Len(s) : m[k] = s[k]
  BY <1>0, <1>1, MarkedFacts
<1>3. Unmarked(m) = front
  BY <1>0, MarkFound DEF Unmarked
<1> HIDE DEF m
<1>4. front \in Seq(Bit) /\ Len(front) = Len(s) /\ \A k \in 1..Len(s) : front[k] = m[k]
  BY <1>0, <1>1
<1>5. front = s
  BY <1>2, <1>4, SeqEqual
<1> QED
  BY <1>3, <1>5, MarkFound DEF m
-----------------------------------------------------------------------------
(* A piece of a sequence. *)
LEMMA CutAt ==
    ASSUME NEW S, NEW s \in Seq(S), NEW a \in Nat, NEW b \in Nat, a <= b, b <= Len(s)
    PROVE  /\ SubSeq(s, a + 1, b) \in Seq(S)
           /\ Len(SubSeq(s, a + 1, b)) = b - a
           /\ \A k \in 1..b - a : SubSeq(s, a + 1, b)[k] = s[a + k]
<1> DEFINE u == SubSeq(s, a + 1, b)
<1>1. Len(s) \in Nat /\ \A k \in 1..Len(s) : s[k] \in S
  BY LenProperties, ElementOfSeq
<1>2. \A k \in a + 1..b : s[k] \in S
  BY <1>1
<1>3. /\ u \in Seq(S)
      /\ Len(u) = IF a + 1 <= b THEN b - (a + 1) + 1 ELSE 0
      /\ \A k \in 1..b - (a + 1) + 1 : u[k] = s[a + 1 + k - 1]
  BY <1>2, SubSeqProperties
<1> HIDE DEF u
<1>4. Len(u) = b - a
  BY <1>3
<1>5. ASSUME NEW k \in 1..b - a PROVE u[k] = s[a + k]
  <2>1. k \in 1..b - (a + 1) + 1 /\ a + 1 + k - 1 = a + k
    OBVIOUS
  <2> QED BY <1>3, <2>1
<1> QED BY <1>3, <1>4, <1>5 DEF u

(* Pieces p[1] .. p[n] put one behind the other give s: where each of them ends. *)
PieceEnds(p, n, s) ==
    {e \in [0..n -> 0..Len(s)] :
        /\ e[0] = 0 /\ e[n] = Len(s)
        /\ \A k \in 1..n :
            /\ e[k] = e[k - 1] + Len(p[k])
            /\ \A l \in 1..Len(p[k]) : s[e[k - 1] + l] = p[k][l]}

LEMMA PiecesGoOn ==
    ASSUME NEW S, NEW n \in Nat, NEW s \in Seq(S), NEW c \in Seq(S), NEW p, NEW q,
           \A k \in 1..n : p[k] \in Seq(S) /\ q[k] = p[k], q[n + 1] = c,
           PieceEnds(p, n, s) # {}
    PROVE  PieceEnds(q, n + 1, s \o c) # {}
<1> DEFINE m == Len(s)
           t == s \o c
<1>1. PICK e \in PieceEnds(p, n, s) : TRUE
  OBVIOUS
<1> DEFINE f == [k \in 0..n + 1 |-> IF k = n + 1 THEN m + Len(c) ELSE e[k]]
<1>2. /\ e \in [0..n -> 0..m] /\ e[0] = 0 /\ e[n] = m
      /\ \A k \in 1..n :
          /\ e[k] = e[k - 1] + Len(p[k])
          /\ \A l \in 1..Len(p[k]) : s[e[k - 1] + l] = p[k][l]
  BY DEF PieceEnds
<1>3. m \in Nat /\ Len(c) \in Nat
  BY LenProperties
<1>4. /\ t \in Seq(S) /\ Len(t) = m + Len(c)
      /\ \A k \in 1..m : t[k] = s[k]
      /\ \A l \in 1..Len(c) : t[m + l] = c[l]
  <2>1. /\ t \in Seq(S) /\ Len(t) = m + Len(c)
        /\ \A k \in 1..m + Len(c) : t[k] = IF k <= m THEN s[k] ELSE c[k - m]
    BY <1>3, ConcatProperties
  <2>2. \A l \in 1..Len(c) : m + l \in 1..m + Len(c) /\ ~ (m + l <= m) /\ (m + l) - m = l
    BY <1>3
  <2>3. \A k \in 1..m : k \in 1..m + Len(c) /\ k <= m
    BY <1>3
  <2> HIDE DEF t, m
  <2>4. \A l \in 1..Len(c) : t[m + l] = c[l]
    BY ONLY <2>1, <2>2
  <2>5. \A k \in 1..m : t[k] = s[k]
    BY ONLY <2>1, <2>3
  <2> QED BY ONLY <2>1, <2>4, <2>5
<1> HIDE DEF m, t
<1>5. f \in [0..n + 1 -> 0..m + Len(c)]
  <2>1. \A k \in 0..n + 1 : k = n + 1 \/ k \in 0..n
    OBVIOUS
  <2>2. \A k \in 0..n : e[k] \in 0..m + Len(c)
    BY <1>2, <1>3
  <2>3. m + Len(c) \in 0..m + Len(c)
    BY <1>3
  <2> QED BY <2>1, <2>2, <2>3
<1>6. f[0] = 0 /\ f[n + 1] = m + Len(c) /\ \A k \in 0..n : f[k] = e[k] /\ e[k] \in 0..m
  <2>1. 0 \in 0..n + 1 /\ n + 1 \in 0..n + 1 /\ 0 # n + 1
    OBVIOUS
  <2>2. \A k \in 0..n : k \in 0..n + 1 /\ k # n + 1
    OBVIOUS
  <2> QED BY <1>2, <2>1, <2>2
<1> HIDE DEF f
<1>7. ASSUME NEW k \in 1..n + 1
      PROVE  /\ f[k] = f[k - 1] + Len(q[k])
             /\ \A l \in 1..Len(q[k]) : t[f[k - 1] + l] = q[k][l]
  <2>1. CASE k = n + 1
    <3>1. k - 1 = n /\ n \in 0..n /\ q[k] = c
      <4>1. k - 1 = n /\ n \in 0..n
        BY <2>1
      <4>2. q[k] = c
        BY <2>1, Zenon
      <4> QED BY ONLY <4>1, <4>2
    <3>2. f[k - 1] = m /\ f[k] = m + Len(c)
      BY <1>2, <1>6, <2>1, <3>1
    <3> QED BY <1>4, <3>1, <3>2
  <2>2. CASE k # n + 1
    <3>1. k \in 1..n /\ k \in 0..n /\ k - 1 \in 0..n
      BY <2>2
    <3>2. f[k] = e[k] /\ f[k - 1] = e[k - 1] /\ e[k] \in 0..m /\ e[k - 1] \in 0..m
      BY <1>6, <3>1
    <3>3. q[k] = p[k] /\ Len(p[k]) \in Nat
      BY <3>1, LenProperties
    <3>4. \A x, y \in Nat : x + y \in 0..m => \A l \in 1..y : x + l \in 1..m
      BY <1>3
    <3>5. e[k] = e[k - 1] + Len(p[k]) /\ \A l \in 1..Len(p[k]) : s[e[k - 1] + l] = p[k][l]
      BY <1>2, <3>1
    <3>6. PICK x \in Nat, y \in Nat : x = e[k - 1] /\ y = Len(p[k])
      BY <1>3, <3>2, <3>3
    <3>7. \A l \in 1..y : x + l \in 1..m
      BY ONLY <1>3, <3>2, <3>4, <3>5, <3>6
    <3>8. \A l \in 1..y : t[x + l] = p[k][l]
      BY ONLY <1>4, <3>5, <3>6, <3>7
    <3> QED BY ONLY <3>2, <3>3, <3>5, <3>6, <3>8
  <2> QED BY <2>1, <2>2
<1>8. f \in PieceEnds(q, n + 1, t)
  BY <1>4, <1>5, <1>6, <1>7 DEF PieceEnds
<1> QED BY <1>8 DEF t

(* Bit strings compared bit by bit. *)
LEMMA PrefixPointwise ==
    ASSUME NEW s \in Seq(Bit), NEW p \in Seq(Bit)
    PROVE  StartsWith(s, p) <=> Len(p) <= Len(s) /\ \A k \in 1..Len(p) : s[k] = p[k]
<1>1. Len(p) \in Nat /\ Len(s) \in Nat
  OBVIOUS
<1>2. ASSUME Len(p) <= Len(s)
      PROVE  /\ SubSeq(s, 1, Len(p)) \in Seq(Bit) /\ Len(SubSeq(s, 1, Len(p))) = Len(p)
             /\ \A k \in 1..Len(p) : SubSeq(s, 1, Len(p))[k] = s[k]
  BY <1>1, <1>2
<1>3. ASSUME Len(p) <= Len(s), \A k \in 1..Len(p) : s[k] = p[k]
      PROVE  SubSeq(s, 1, Len(p)) = p
  BY <1>1, <1>2, <1>3, SeqEqual
<1> QED
  BY <1>1, <1>2, <1>3 DEF StartsWith

(* What the bits from offset o on start with. *)
LEMMA PrefixAt ==
    ASSUME NEW s \in Seq(Bit), NEW p \in Seq(Bit), NEW o \in 0..Len(s)
    PROVE  StartsWith(SubSeq(s, o + 1, Len(s)), p)
             <=> o + Len(p) <= Len(s) /\ \A k \in 1..Len(p) : s[o + k] = p[k]
<1> DEFINE rest == SubSeq(s, o + 1, Len(s))
<1>1. Len(p) \in Nat /\ Len(s) \in Nat /\ o \in Nat /\ o <= Len(s)
  OBVIOUS
<1>2. /\ rest \in Seq(Bit) /\ Len(rest) = Len(s) - o
      /\ \A k \in 1..Len(s) - o : rest[k] = s[o + k]
  <2>1. \A k \in o + 1..Len(s) : s[k] \in Bit
    BY <1>1
  <2>2. /\ rest \in Seq(Bit)
        /\ Len(rest) = IF o + 1 <= Len(s) THEN Len(s) - (o + 1) + 1 ELSE 0
        /\ \A k \in 1..Len(s) - (o + 1) + 1 : rest[k] = s[o + 1 + k - 1]
    BY <1>1, <2>1, SubSeqProperties
  <2> HIDE DEF rest
  <2>3. Len(rest) = Len(s) - o
    BY <1>1, <2>2
  <2>4. ASSUME NEW k \in 1..Len(s) - o PROVE rest[k] = s[o + k]
    <3>1. k \in 1..Len(s) - (o + 1) + 1 /\ o + 1 + k - 1 = o + k
      BY <1>1
    <3> QED BY <2>2, <3>1
  <2> QED BY <2>2, <2>3, <2>4
<1> HIDE DEF rest
<1>3. StartsWith(rest, p) <=> Len(p) <= Len(rest) /\ \A k \in 1..Len(p) : rest[k] = p[k]
  BY <1>2, PrefixPointwise
<1>4. Len(p) <= Len(rest) <=> o + Len(p) <= Len(s)
  BY <1>1, <1>2
<1>5. ASSUME Len(p) <= Len(rest), NEW k \in 1..Len(p) PROVE rest[k] = s[o + k]
  BY <1>1, <1>2, <1>5
<1> QED BY <1>3, <1>4, <1>5 DEF rest

(* A prefix code is decoded in one way only. *)
LEMMA OneSymbol ==
    ASSUME NEW code, IsPrefixCode(code), NEW a \in DOMAIN code, NEW b \in DOMAIN code,
           NEW s \in Seq(Bit), StartsWith(s, code[a]), StartsWith(s, code[b])
    PROVE  a = b
<1>1. ASSUME NEW x \in DOMAIN code, NEW y \in DOMAIN code, Len(code[x]) <= Len(code[y]),
             StartsWith(s, code[x]), StartsWith(s, code[y])
      PROVE  x = y
  <2>1. code[x] \in Seq(Bit) /\ code[y] \in Seq(Bit)
    BY DEF IsPrefixCode
  <2>2. /\ \A k \in 1..Len(code[x]) : s[k] = code[x][k]
        /\ \A k \in 1..Len(code[y]) : s[k] = code[y][k]
    BY <1>1, <2>1, PrefixPointwise
  <2>3. \A k \in 1..Len(code[x]) : k \in 1..Len(code[y])
    BY <1>1, <2>1
  <2>4. \A k \in 1..Len(code[x]) : code[y][k] = code[x][k]
    BY <2>2, <2>3
  <2>5. StartsWith(code[y], code[x])
    BY <1>1, <2>1, <2>4, PrefixPointwise
  <2> QED BY <2>5 DEF IsPrefixCode
<1>2. Len(code[a]) \in Nat /\ Len(code[b]) \in Nat
  BY DEF IsPrefixCode
<1>3. Len(code[a]) <= Len(code[b]) \/ Len(code[b]) <= Len(code[a])
  BY <1>2
<1> QED BY <1>1, <1>3
-----------------------------------------------------------------------------
(* A stack that is not empty has a top. *)
LEMMA TopFacts ==
    ASSUME NEW S, NEW s \in Seq(S), s # << >>
    PROVE  Len(s) \in Nat /\ Len(s) \in 1..Len(s) /\ s[Len(s)] \in S
<1>1. Len(s) \in Nat \ {0}
  BY EmptySeq
<1> QED BY <1>1, ElementOfSeq

LEMMA PopFacts ==
    ASSUME NEW S, NEW s \in Seq(S), s # << >>
    PROVE  LET t == SubSeq(s, 1, Len(s) - 1)
           IN  /\ t \in Seq(S)
               /\ Len(t) = Len(s) - 1
               /\ \A k \in 1..Len(s) - 1 : t[k] = s[k]
<1>1. Len(s) \in Nat \ {0} /\ \A k \in 1..Len(s) : s[k] \in S
  BY EmptySeq, ElementOfSeq
<1>2. 1 \in Int /\ Len(s) - 1 \in Int /\ \A k \in 1..Len(s) - 1 : s[k] \in S
  BY <1>1
<1> DEFINE t == SubSeq(s, 1, Len(s) - 1)
<1>3. /\ t \in Seq(S)
      /\ Len(t) = IF 1 <= Len(s) - 1 THEN (Len(s) - 1) - 1 + 1 ELSE 0
      /\ \A k \in 1..(Len(s) - 1) - 1 + 1 : t[k] = s[1 + k - 1]
  BY <1>2, SubSeqProperties
<1> HIDE DEF t
<1>4. Len(t) = Len(s) - 1
  <2>1. \A m \in Nat \ {0} : m - 1 = IF 1 <= m - 1 THEN (m - 1) - 1 + 1 ELSE 0
    OBVIOUS
  <2> QED BY <1>1, <1>3, <2>1
<1>5. ASSUME NEW k \in 1..Len(s) - 1 PROVE t[k] = s[k]
  <2>1. k \in 1..(Len(s) - 1) - 1 + 1 /\ 1 + k - 1 = k
    BY <1>1
  <2> QED BY <1>3, <2>1
<1> QED BY <1>3, <1>4, <1>5 DEF t

LEMMA PushFacts ==
    ASSUME NEW S, NEW s \in Seq(S), NEW e \in S
    PROVE  /\ Append(s, e) \in Seq(S)
           /\ Len(s) \in Nat /\ Len(Append(s, e)) = Len(s) + 1
           /\ \A k \in 1..Len(s) : Append(s, e)[k] = s[k]
           /\ Append(s, e)[Len(s) + 1] = e
BY AppendProperties, LenProperties

(* What is listed once is counted by the length of the list. *)
LEMMA ListedOnce ==
    ASSUME NEW S, IsFiniteSet(S), NEW s \in Seq(S),
           \A k, l \in 1..Len(s) : s[k] = s[l] => k = l,
           {s[k] : k \in 1..Len(s)} = S
    PROVE  Len(s) = Cardinality(S)
<1>1. Len(s) \in Nat /\ s \in [1..Len(s) -> S]
  BY LenProperties
<1>2. s \in Bijection(1..Len(s), S)
  BY <1>1 DEF Bijection, Injection, IsInjective, Surjection
<1>3. ExistsBijection(1..Len(s), S)
  BY <1>2 DEF ExistsBijection
<1> QED BY <1>1, <1>3, FS_CountingElements

(* The powers of two. *)
LEMMA Pow2Product ==
    ASSUME NEW m \in Nat, NEW n \in Nat
    PROVE  Pow2[n + m] = Pow2[n] * Pow2[m]
<1> DEFINE S == {i \in Nat : Pow2[i + m] = Pow2[i] * Pow2[m]}
<1>1. 0 \in S
  <2>1. Pow2[m] \in Nat /\ Pow2[0] = 1 /\ 0 + m = m
    BY Pow2Facts
  <2> QED BY <2>1
<1>2. ASSUME NEW i \in Nat, i \in S PROVE i + 1 \in S
  <2>1. Pow2[i + m] = Pow2[i] * Pow2[m]
    BY <1>2
  <2>2. /\ Pow2[i + 1] = 2 * Pow2[i] /\ Pow2[(i + m) + 1] = 2 * Pow2[i + m]
        /\ Pow2[i] \in Nat /\ Pow2[m] \in Nat
    BY Pow2Facts
  <2>3. (i + 1) + m = (i + m) + 1
    OBVIOUS
  <2>4. 2 * (Pow2[i] * Pow2[m]) = (2 * Pow2[i]) * Pow2[m]
    BY ONLY <2>2
  <2>5. Pow2[(i + 1) + m] = Pow2[i + 1] * Pow2[m]
    BY <2>1, <2>2, <2>3, <2>4
  <2> QED BY <2>5
<1>3. Nat \subseteq S
  <2> HIDE DEF S
  <2> QED BY <1>1, <1>2, NatInduct
<1> QED BY <1>3
-----------------------------------------------------------------------------
(* Induction over the finite subsets of S, by a set of them. *)
LEMMA SetInduct ==
    ASSUME NEW S, IsFiniteSet(S), NEW X, {} \in X,
           \A A \in SUBSET S : A \in X => \A x \in S \ A : A \cup {x} \in X
    PROVE  SUBSET S \subseteq X
<1> DEFINE N == {n \in Nat : \A A \in SUBSET S : Cardinality(A) = n => A \in X}
<1>1. \A A \in SUBSET S : IsFiniteSet(A) /\ Cardinality(A) \in Nat
  BY FS_Subset, FS_CardinalityType
<1>2. 0 \in N
  BY <1>1, FS_EmptySet
<1>3. ASSUME NEW n \in Nat, n \in N PROVE n + 1 \in N
  <2> SUFFICES ASSUME NEW A \in SUBSET S, Cardinality(A) = n + 1 PROVE A \in X
    OBVIOUS
  <2>1. A # {}
    BY <1>3, FS_EmptySet
  <2>2. PICK x \in A : TRUE
    BY <2>1
  <2>3. Cardinality(A \ {x}) = n
    <3>1. IsFiniteSet(A)
      BY <1>1
    <3>2. Cardinality(A \ {x}) = Cardinality(A) - 1
      BY ONLY <2>2, <3>1, FS_RemoveElement
    <3> QED BY <3>2
  <2>4. A \ {x} \in X
    BY <1>3, <2>3
  <2>5. x \in S \ (A \ {x}) /\ (A \ {x}) \cup {x} = A
    BY <2>2
  <2> QED BY <2>4, <2>5
<1>4. Nat \subseteq N
  <2> HIDE DEF N
  <2> QED BY <1>2, <1>3, NatInduct
<1> QED BY <1>1, <1>4

SumTurn(f, S, g) ==
    [A \in SUBSET S |->
        IF A = {} THEN 0 ELSE LET x == CHOOSE x \in A : TRUE IN f[x] + g[A \ {x}]]

LEMMA SumUnfolds ==
    ASSUME NEW f, NEW S, S = DOMAIN f
    PROVE  \E g : g = (CHOOSE h : h = SumTurn(f, S, h)) /\ SumFunction(f) = g[S]
BY DEF SumFunction, SumFunctionOnSet, FoldFunctionOnSet, MapThenFoldSet, SumTurn

(* The recursion of the sum ends, as the set is finite. *)
LEMMA SumTurnEnds ==
    ASSUME NEW S, IsFiniteSet(S), NEW f \in [S -> Nat]
    PROVE  \E g \in [SUBSET S -> Nat] : g = SumTurn(f, S, g)
<1> DEFINE T == [SUBSET S -> Nat]
           a == [A \in SUBSET S |-> 0]
           D == [p \in T \X Nat |-> SumTurn(f, S, p[1])]
<1>1. a \in T
  OBVIOUS
<1>2. ASSUME NEW g \in T PROVE SumTurn(f, S, g) \in T
  <2>1. ASSUME NEW A \in SUBSET S, A # {}
        PROVE  LET x == CHOOSE x \in A : TRUE IN f[x] + g[A \ {x}] \in Nat
    <3> DEFINE x == CHOOSE x \in A : TRUE
    <3>1. x \in A
      BY <2>1
    <3> HIDE DEF x
    <3>2. f[x] \in Nat /\ g[A \ {x}] \in Nat
      BY <3>1
    <3> QED BY <3>2 DEF x
  <2> QED BY <2>1 DEF SumTurn
<1>3. D \in [T \X Nat -> T]
  BY <1>2
<1>4. Recursion(T, a, D) # {}
  <2> HIDE DEF T, a, D
  <2> QED BY <1>1, <1>3, NatRecursion
<1>5. PICK h \in [Nat -> T] : \A n \in Nat : h[n + 1] = SumTurn(f, S, h[n])
  <2>1. PICK h \in Recursion(T, a, D) : TRUE
    BY <1>4
  <2>2. h \in [Nat -> T] /\ \A n \in Nat : h[n + 1] = D[<<h[n], n>>]
    BY <2>1 DEF Recursion
  <2>3. \A n \in Nat : <<h[n], n>> \in T \X Nat /\ <<h[n], n>>[1] = h[n]
    BY <2>2
  <2> QED BY <2>2, <2>3
<1> DEFINE g == [A \in SUBSET S |-> h[Cardinality(A) + 1][A]]
<1>6. \A A \in SUBSET S : IsFiniteSet(A) /\ Cardinality(A) \in Nat
  BY FS_Subset, FS_CardinalityType
<1>7. \A A \in SUBSET S : Cardinality(A) + 1 \in Nat
  BY <1>6
<1>8. g \in T
  BY <1>5, <1>7
<1>9. ASSUME NEW A \in SUBSET S PROVE g[A] = SumTurn(f, S, g)[A]
  <2>1. g[A] = SumTurn(f, S, h[Cardinality(A)])[A]
    BY <1>5, <1>6
  <2>2. CASE A = {}
    BY <2>1, <2>2 DEF SumTurn
  <2>3. CASE A # {}
    <3> DEFINE x == CHOOSE x \in A : TRUE
    <3>1. x \in A
      BY <2>3
    <3>2. g[A] = f[x] + h[Cardinality(A)][A \ {x}]
      BY <2>1, <2>3 DEF SumTurn
    <3>3. SumTurn(f, S, g)[A] = f[x] + g[A \ {x}]
      BY <2>3 DEF SumTurn
    <3> HIDE DEF x
    <3>4. Cardinality(A \ {x}) = Cardinality(A) - 1 /\ A \ {x} \in SUBSET S
      BY <1>6, <3>1, FS_RemoveElement
    <3>5. Cardinality(A \ {x}) + 1 = Cardinality(A)
      BY <1>6, <3>4
    <3>6. g[A \ {x}] = h[Cardinality(A)][A \ {x}]
      BY <3>4, <3>5
    <3> QED BY <3>2, <3>3, <3>6
  <2> QED BY <2>2, <2>3
<1>10. g = SumTurn(f, S, g)
  <2> HIDE DEF g
  <2> QED BY <1>8, <1>9 DEF SumTurn
<1> QED BY <1>8, <1>10

IsTurned(g, f, S) == IsFiniteSet(S) /\ f \in [S -> Nat] /\ g = SumTurn(f, S, g)

(* The sum over a finite set: of its parts g gives the sums. *)
IsSum(g, f, S) ==
    /\ g \in [SUBSET S -> Nat] /\ g[{}] = 0
    /\ \A A \in SUBSET S : \A x \in A : g[A] = f[x] + g[A \ {x}]

(* Any element may be taken first. *)
LEMMA AnyFirst ==
    ASSUME NEW S, NEW f, NEW g, IsTurned(g, f, S)
    PROVE  IsSum(g, f, S)
<1>0. IsFiniteSet(S) /\ f \in [S -> Nat] /\ g = SumTurn(f, S, g)
  BY DEF IsTurned
<1> DEFINE N == {n \in Nat : \A A \in SUBSET S : Cardinality(A) <= n =>
                                g[A] \in Nat /\ \A x \in A : g[A] = f[x] + g[A \ {x}]}
<1>1. \A A \in SUBSET S : IsFiniteSet(A) /\ Cardinality(A) \in Nat
  BY <1>0, FS_Subset, FS_CardinalityType
<1>2. 0 \in N
  <2>1. g[{}] = 0
    BY <1>0 DEF SumTurn
  <2>2. \A A \in SUBSET S : Cardinality(A) <= 0 => A = {}
    BY <1>1, FS_EmptySet
  <2> QED BY <2>1, <2>2
<1>3. ASSUME NEW n \in Nat, n \in N PROVE n + 1 \in N
  <2> SUFFICES ASSUME NEW A \in SUBSET S, Cardinality(A) <= n + 1, A # {}
               PROVE  g[A] \in Nat /\ \A x \in A : g[A] = f[x] + g[A \ {x}]
    <3>1. {} \in SUBSET S /\ Cardinality({}) <= n
      BY FS_EmptySet
    <3>2. g[{}] \in Nat
      BY <1>3, <3>1
    <3>3. ASSUME NEW A \in SUBSET S, Cardinality(A) <= n + 1
          PROVE  g[A] \in Nat /\ \A x \in A : g[A] = f[x] + g[A \ {x}]
      <4>1. CASE A = {}
        BY <3>2, <4>1
      <4>2. CASE A # {}
        BY <3>3, <4>2
      <4> QED BY <4>1, <4>2
    <3> QED BY <3>3
  <2> DEFINE c == CHOOSE c \in A : TRUE
  <2>1. A # {} /\ IsFiniteSet(A)
    BY <1>1
  <2>2. c \in A
    BY <2>1
  <2>3. g[A] = f[c] + g[A \ {c}]
    <3>1. g[A] = SumTurn(f, S, g)[A]
      BY <1>0
    <3> QED BY ONLY <2>1, <3>1, A \in SUBSET S DEF SumTurn
  <2> HIDE DEF c
  <2>4. ASSUME NEW x \in A PROVE Cardinality(A \ {x}) <= n /\ A \ {x} \in SUBSET S
    <3>1. Cardinality(A \ {x}) = Cardinality(A) - 1
      BY ONLY <2>1, <2>4, FS_RemoveElement
    <3>2. Cardinality(A) \in Nat
      BY <1>1
    <3> QED BY <3>1, <3>2
  <2>5. g[A] \in Nat
    <3>1. g[A \ {c}] \in Nat /\ f[c] \in Nat
      BY <1>0, <1>3, <2>2, <2>4
    <3> QED BY <2>3, <3>1
  <2>6. ASSUME NEW x \in A PROVE g[A] = f[x] + g[A \ {x}]
    <3>1. CASE c = x
      BY <2>3, <3>1
    <3>2. CASE c # x
      <4>1. x \in A \ {c} /\ c \in A \ {x}
        BY <2>2, <3>2
      <4>2. /\ g[A \ {c}] = f[x] + g[(A \ {c}) \ {x}]
            /\ g[A \ {x}] = f[c] + g[(A \ {x}) \ {c}] /\ g[A \ {x}] \in Nat
        BY <1>3, <2>2, <2>4, <4>1
      <4>3. (A \ {c}) \ {x} = (A \ {x}) \ {c} /\ g[A \ {c}] \in Nat
        BY <1>3, <2>2, <2>4
      <4>4. f[x] \in Nat /\ f[c] \in Nat
        BY <1>0, <2>2
      <4>5. g[(A \ {x}) \ {c}] \in Int
        <5>1. Cardinality((A \ {x}) \ {c}) = Cardinality(A \ {x}) - 1 /\ IsFiniteSet(A \ {x})
          BY <1>1, <2>4, <4>1, FS_RemoveElement
        <5>2. Cardinality(A \ {x}) <= n /\ Cardinality(A \ {x}) \in Nat
          BY <1>1, <2>4
        <5>3. Cardinality((A \ {x}) \ {c}) <= n /\ (A \ {x}) \ {c} \in SUBSET S
          BY <5>1, <5>2
        <5> QED BY <1>3, <5>3
      <4>6. g[(A \ {c}) \ {x}] = g[(A \ {x}) \ {c}]
        BY ONLY <4>3
      <4>7. PICK rest \in Int : rest = g[(A \ {x}) \ {c}]
        BY ONLY <4>5
      <4>8. /\ g[A \ {x}] = f[c] + rest /\ g[A \ {c}] = f[x] + rest
            /\ g[A] = f[c] + g[A \ {c}]
        BY ONLY <2>3, <4>2, <4>6, <4>7
      <4> QED BY ONLY <4>4, <4>7, <4>8
    <3> QED BY <3>1, <3>2
  <2> QED BY <2>5, <2>6
<1>4. Nat \subseteq N
  <2> HIDE DEF N
  <2> QED BY <1>2, <1>3, NatInduct
<1>5. ASSUME NEW A \in SUBSET S
      PROVE  g[A] \in Nat /\ \A x \in A : g[A] = f[x] + g[A \ {x}]
  <2>1. PICK n \in Nat : Cardinality(A) = n
    BY <1>1
  <2>2. n \in N /\ Cardinality(A) <= n
    <3> HIDE DEF N
    <3> QED BY <1>4, <2>1
  <2> QED BY <2>2
<1>6. DOMAIN g = SUBSET S /\ g = [A \in SUBSET S |-> g[A]] /\ g[{}] = 0
  BY <1>0 DEF SumTurn
<1>7. g \in [SUBSET S -> Nat]
  BY <1>5, <1>6
<1> QED BY <1>5, <1>6, <1>7 DEF IsSum

LEMMA SumFound ==
    ASSUME NEW S, IsFiniteSet(S), NEW f \in [S -> Nat]
    PROVE  \E g : IsSum(g, f, S) /\ SumFunction(f) = g[S]
<1>1. PICK g : g = (CHOOSE h : h = SumTurn(f, S, h)) /\ SumFunction(f) = g[S]
  BY SumUnfolds
<1>2. IsTurned(g, f, S)
  BY <1>1, SumTurnEnds DEF IsTurned
<1> QED BY ONLY <1>1, <1>2, AnyFirst

(* Sums of the same numbers are the same. *)
LEMMA SumsAgree ==
    ASSUME NEW S, IsFiniteSet(S), NEW f, NEW g, IsSum(g, f, S),
           NEW U, U \subseteq S, NEW e, NEW h, IsSum(h, e, U), \A x \in U : e[x] = f[x]
    PROVE  g[U] = h[U]
<1> DEFINE X == {A \in SUBSET U : g[A] = h[A]}
<1>1. {} \in X
  BY DEF IsSum
<1>2. ASSUME NEW A \in SUBSET U, A \in X, NEW x \in U \ A PROVE A \cup {x} \in X
  <2>1. A \cup {x} \in SUBSET U /\ A \cup {x} \in SUBSET S /\ x \in A \cup {x} /\ (A \cup {x}) \ {x} = A
    BY <1>2
  <2>2. g[A \cup {x}] = f[x] + g[A] /\ h[A \cup {x}] = e[x] + h[A]
    BY <2>1 DEF IsSum
  <2> QED BY <1>2, <2>1, <2>2
<1>3. SUBSET U \subseteq X
  <2>1. IsFiniteSet(U)
    BY FS_Subset
  <2> HIDE DEF X
  <2> QED BY <1>1, <1>2, <2>1, SetInduct
<1> QED BY <1>3

(* How a sum is taken: any element first, then the others. *)
LEMMA SumSplit ==
    ASSUME NEW S, IsFiniteSet(S), NEW f \in [S -> Nat], NEW x \in S
    PROVE  /\ SumFunction(Restrict(f, S \ {x})) \in Nat
           /\ SumFunction(f) = f[x] + SumFunction(Restrict(f, S \ {x}))
<1> DEFINE U == S \ {x}
           e == Restrict(f, U)
<1>1. PICK g : IsSum(g, f, S) /\ SumFunction(f) = g[S]
  BY SumFound
<1>2. IsFiniteSet(U) /\ e \in [U -> Nat]
  BY FS_Subset DEF Restrict
<1>3. PICK h : IsSum(h, e, U) /\ SumFunction(e) = h[U]
  <2> HIDE DEF e, U
  <2> QED BY <1>2, SumFound
<1>4. \A y \in U : e[y] = f[y]
  BY DEF Restrict
<1>5. g[U] = h[U]
  <2>1. U \subseteq S
    OBVIOUS
  <2> HIDE DEF e, U
  <2> QED BY <1>1, <1>3, <1>4, <2>1, SumsAgree
<1>6. g[S] = f[x] + g[U] /\ h[U] \in Nat
  BY <1>1, <1>3 DEF IsSum
<1> QED BY <1>1, <1>3, <1>5, <1>6

LEMMA SumNat ==
    ASSUME NEW S, IsFiniteSet(S), NEW f \in [S -> Nat]
    PROVE  SumFunction(f) \in Nat /\ (S = {} => SumFunction(f) = 0)
<1>1. PICK g : IsSum(g, f, S) /\ SumFunction(f) = g[S]
  BY SumFound
<1> QED BY <1>1 DEF IsSum

LEMMA SumGrows ==
    ASSUME NEW S, IsFiniteSet(S), NEW f \in [S -> Nat]
    PROVE  /\ \A A \in SUBSET S : SumFunction(Restrict(f, A)) \in Nat
           /\ SumFunction(Restrict(f, {})) = 0 /\ Restrict(f, S) = f
           /\ \A A \in SUBSET S : \A x \in S \ A :
                SumFunction(Restrict(f, A \cup {x})) = f[x] + SumFunction(Restrict(f, A))
<1>1. ASSUME NEW A \in SUBSET S PROVE IsFiniteSet(A) /\ Restrict(f, A) \in [A -> Nat]
  BY FS_Subset DEF Restrict
<1>2. ASSUME NEW A \in SUBSET S PROVE SumFunction(Restrict(f, A)) \in Nat
  BY <1>1, SumNat
<1>3. SumFunction(Restrict(f, {})) = 0
  BY <1>1, SumNat
<1>4. ASSUME NEW A \in SUBSET S, NEW x \in S \ A
      PROVE  SumFunction(Restrict(f, A \cup {x})) = f[x] + SumFunction(Restrict(f, A))
  <2> DEFINE B == A \cup {x}
             e == Restrict(f, B)
  <2>1. B \in SUBSET S /\ x \in B /\ B \ {x} = A
    BY <1>4
  <2>2. Restrict(e, B \ {x}) = Restrict(f, A) /\ e[x] = f[x]
    BY <2>1 DEF Restrict
  <2>3. IsFiniteSet(B) /\ e \in [B -> Nat]
    BY <1>1, <2>1
  <2> HIDE DEF e, B
  <2>4. SumFunction(e) = e[x] + SumFunction(Restrict(e, B \ {x}))
    BY <2>1, <2>3, SumSplit
  <2> QED BY <2>2, <2>4 DEF e, B
<1>5. Restrict(f, S) = f
  BY DEF Restrict
<1> QED BY <1>2, <1>3, <1>4, <1>5

(* Two elements before the others. *)
LEMMA SumOfTwo ==
    ASSUME NEW S, IsFiniteSet(S), NEW f \in [S -> Nat], NEW x \in S, NEW y \in S \ {x}
    PROVE  /\ SumFunction(Restrict(f, S \ {x, y})) \in Nat
           /\ SumFunction(f) = f[x] + f[y] + SumFunction(Restrict(f, S \ {x, y}))
<1> DEFINE Sum(A) == SumFunction(Restrict(f, A))
<1>1. /\ \A A \in SUBSET S : Sum(A) \in Nat
      /\ Sum(S) = SumFunction(f)
      /\ \A A \in SUBSET S : \A z \in S \ A : Sum(A \cup {z}) = f[z] + Sum(A)
  BY SumGrows
<1> HIDE DEF Sum
<1>2. PICK A \in SUBSET S : A = S \ {x, y}
  OBVIOUS
<1>3. A \cup {y} \in SUBSET S /\ y \in S \ A /\ x \in S \ (A \cup {y}) /\ (A \cup {y}) \cup {x} = S
  BY <1>2
<1>4. Sum(A) \in Nat /\ Sum(A \cup {y}) = f[y] + Sum(A)
  BY <1>1, <1>3
<1>5. Sum(S) = f[x] + Sum(A \cup {y})
  <2>1. Sum((A \cup {y}) \cup {x}) = f[x] + Sum(A \cup {y})
    BY <1>1, <1>3
  <2> QED BY <1>3, <2>1
<1>6. f[x] \in Nat /\ f[y] \in Nat
  OBVIOUS
<1>7. Sum(S) = f[x] + f[y] + Sum(A)
  BY <1>4, <1>5, <1>6
<1> QED BY <1>1, <1>2, <1>4, <1>7 DEF Sum

(* What is added to some of the summands is added to the sum. *)
LEMMA SumAdded ==
    ASSUME NEW S, IsFiniteSet(S), NEW A \in SUBSET S,
           NEW f \in [S -> Nat], NEW w \in [S -> Nat], NEW e \in [S -> Nat],
           \A s \in S : e[s] = IF s \in A THEN f[s] + w[s] ELSE f[s]
    PROVE  SumFunction(e) = SumFunction(f) + SumFunction(Restrict(w, A))
<1> DEFINE Sum(h, B) == SumFunction(Restrict(h, B))
           X == {B \in SUBSET S : Sum(e, B) = Sum(f, B) + Sum(w, A \cap B)}
<1>1. ASSUME NEW h \in [S -> Nat]
      PROVE  /\ \A B \in SUBSET S : Sum(h, B) \in Nat
             /\ Sum(h, {}) = 0 /\ Sum(h, S) = SumFunction(h)
             /\ \A B \in SUBSET S : \A x \in S \ B : Sum(h, B \cup {x}) = h[x] + Sum(h, B)
  BY SumGrows
<1> HIDE DEF Sum
<1>2. {} \in X
  <2>1. A \cap {} = {}
    OBVIOUS
  <2> QED BY <1>1, <2>1
<1>3. ASSUME NEW B \in SUBSET S, B \in X, NEW x \in S \ B PROVE B \cup {x} \in X
  <2>1. /\ Sum(e, B \cup {x}) = e[x] + Sum(e, B) /\ Sum(f, B \cup {x}) = f[x] + Sum(f, B)
        /\ Sum(e, B) = Sum(f, B) + Sum(w, A \cap B)
    BY <1>1, <1>3
  <2>2. Sum(f, B) \in Nat /\ Sum(w, A \cap B) \in Nat /\ f[x] \in Nat /\ w[x] \in Nat
    BY <1>1, <1>3
  <2>3. CASE x \in A
    <3>1. A \cap (B \cup {x}) = (A \cap B) \cup {x} /\ x \in S \ (A \cap B) /\ A \cap B \in SUBSET S
      BY <1>3, <2>3
    <3>2. Sum(w, A \cap (B \cup {x})) = w[x] + Sum(w, A \cap B)
      BY ZenonT(40), <1>1, <3>1
    <3> QED BY <1>3, <2>1, <2>2, <2>3, <3>2
  <2>4. CASE x \notin A
    <3>1. A \cap (B \cup {x}) = A \cap B
      BY <2>4
    <3>2. Sum(w, A \cap (B \cup {x})) = Sum(w, A \cap B)
      BY <3>1
    <3> QED BY <1>3, <2>1, <2>2, <2>4, <3>2
  <2> QED BY <2>3, <2>4
<1>4. SUBSET S \subseteq X
  <2> HIDE DEF X
  <2> QED BY <1>2, <1>3, SetInduct
<1>5. Sum(e, S) = Sum(f, S) + Sum(w, A \cap S) /\ A \cap S = A
  BY <1>4
<1>6. Sum(e, S) = SumFunction(e) /\ Sum(f, S) = SumFunction(f)
  BY <1>1
<1> QED BY <1>5, <1>6 DEF Sum

LEMMA SumUnion ==
    ASSUME NEW S, IsFiniteSet(S), NEW w \in [S -> Nat],
           NEW A \in SUBSET S, NEW B \in SUBSET S, A \cap B = {}
    PROVE  /\ SumFunction(Restrict(w, A)) \in Nat /\ SumFunction(Restrict(w, B)) \in Nat
           /\ SumFunction(Restrict(w, A \cup B)) =
                SumFunction(Restrict(w, A)) + SumFunction(Restrict(w, B))
<1> DEFINE Sum(D) == SumFunction(Restrict(w, D))
           X == {D \in SUBSET B : Sum(A \cup D) = Sum(A) + Sum(D)}
<1>1. /\ \A D \in SUBSET S : Sum(D) \in Nat
      /\ Sum({}) = 0
      /\ \A D \in SUBSET S : \A x \in S \ D : Sum(D \cup {x}) = w[x] + Sum(D)
  BY SumGrows
<1> HIDE DEF Sum
<1>2. {} \in X
  <2>1. A \cup {} = A
    OBVIOUS
  <2> QED BY <1>1, <2>1
<1>3. ASSUME NEW D \in SUBSET B, D \in X, NEW x \in B \ D PROVE D \cup {x} \in X
  <2>1. /\ A \cup D \in SUBSET S /\ x \in S \ (A \cup D) /\ D \in SUBSET S /\ x \in S \ D
        /\ A \cup (D \cup {x}) = (A \cup D) \cup {x}
    BY <1>3
  <2>2. Sum(A \cup (D \cup {x})) = w[x] + Sum(A \cup D) /\ Sum(D \cup {x}) = w[x] + Sum(D)
    BY <1>1, <2>1
  <2>3. Sum(A) \in Nat /\ Sum(D) \in Nat /\ w[x] \in Nat
    BY <1>1, <2>1
  <2> QED BY <1>3, <2>2, <2>3
<1>4. SUBSET B \subseteq X
  <2>1. IsFiniteSet(B)
    BY FS_Subset
  <2> HIDE DEF X
  <2> QED BY <1>2, <1>3, <2>1, SetInduct
<1> QED BY <1>1, <1>4 DEF Sum

(* F gives each element of R a name of S. *)
Renames(F, S, R) ==
    /\ F \in [S -> R] /\ \A r \in R : \E s \in S : F[s] = r
    /\ \A s, t \in S : F[s] = F[t] => s = t

(* A sum does not depend on the names of the summands. *)
LEMMA SumRenamed ==
    ASSUME NEW S, IsFiniteSet(S), NEW R, IsFiniteSet(R), NEW h \in [R -> Nat],
           NEW F, Renames(F, S, R)
    PROVE  SumFunction(h) = SumFunction([s \in S |-> h[F[s]]])
<1> USE DEF Renames
<1> DEFINE e == [s \in S |-> h[F[s]]]
           Image(A) == {F[s] : s \in A}
           Sum(A) == SumFunction(Restrict(e, A))
           SumR(A) == SumFunction(Restrict(h, A))
           X == {A \in SUBSET S : SumR(Image(A)) = Sum(A)}
<1>1. e \in [S -> Nat] /\ \A s \in S : e[s] = h[F[s]]
  OBVIOUS
<1> HIDE DEF e
<1>2. /\ Sum({}) = 0 /\ Sum(S) = SumFunction(e)
      /\ \A A \in SUBSET S : \A x \in S \ A : Sum(A \cup {x}) = e[x] + Sum(A)
  BY <1>1, SumGrows
<1>3. /\ SumR({}) = 0 /\ SumR(R) = SumFunction(h)
      /\ \A A \in SUBSET R : \A x \in R \ A : SumR(A \cup {x}) = h[x] + SumR(A)
  BY SumGrows
<1> HIDE DEF Sum, SumR
<1>4. {} \in X
  <2>1. Image({}) = {}
    OBVIOUS
  <2> QED BY <1>2, <1>3, <2>1
<1>5. ASSUME NEW A \in SUBSET S, A \in X, NEW x \in S \ A PROVE A \cup {x} \in X
  <2>1. Image(A \cup {x}) = Image(A) \cup {F[x]} /\ Image(A) \in SUBSET R
    BY <1>5
  <2>2. F[x] \in R \ Image(A)
    BY <1>5
  <2> HIDE DEF Image
  <2>3. SumR(Image(A \cup {x})) = h[F[x]] + SumR(Image(A))
    BY <1>3, <2>1, <2>2
  <2>4. SumR(Image(A)) = Sum(A) /\ Sum(A \cup {x}) = e[x] + Sum(A) /\ e[x] = h[F[x]]
    BY <1>1, <1>2, <1>5
  <2> QED BY <2>3, <2>4
<1>6. SUBSET S \subseteq X
  <2> HIDE DEF X
  <2> QED BY <1>4, <1>5, SetInduct
<1>7. Image(S) = R
  OBVIOUS
<1>8. SumR(Image(S)) = Sum(S)
  <2> HIDE DEF Image
  <2> QED BY <1>6
<1> QED BY <1>2, <1>3, <1>7, <1>8 DEF e

(* A sum of multiples of d is one. *)
IsMultiple(v, d) == \E q \in Nat : v = q * d

LEMMA SumOfMultiples ==
    ASSUME NEW S, IsFiniteSet(S), NEW f \in [S -> Nat], NEW d \in Nat,
           \A s \in S : IsMultiple(f[s], d)
    PROVE  IsMultiple(SumFunction(f), d)
<1> DEFINE Sum(A) == SumFunction(Restrict(f, A))
           X == {A \in SUBSET S : \E q \in Nat : Sum(A) = q * d}
<1>1. /\ Sum({}) = 0 /\ Sum(S) = SumFunction(f)
      /\ \A A \in SUBSET S : \A x \in S \ A : Sum(A \cup {x}) = f[x] + Sum(A)
  BY SumGrows
<1> HIDE DEF Sum
<1>2. {} \in X
  <2>1. 0 \in Nat /\ 0 * d = 0
    OBVIOUS
  <2> QED BY <1>1, <2>1
<1>3. ASSUME NEW A \in SUBSET S, A \in X, NEW x \in S \ A PROVE A \cup {x} \in X
  <2>1. PICK p \in Nat : f[x] = p * d
    BY <1>3 DEF IsMultiple
  <2>2. PICK q \in Nat : Sum(A) = q * d
    BY <1>3
  <2>3. Sum(A \cup {x}) = p * d + q * d
    BY <1>1, <1>3, <2>1, <2>2
  <2>4. p + q \in Nat /\ p * d + q * d = (p + q) * d
    BY ONLY d \in Nat, p \in Nat, q \in Nat
  <2> QED BY <1>3, <2>3, <2>4
<1>4. SUBSET S \subseteq X
  <2> HIDE DEF X
  <2> QED BY <1>2, <1>3, SetInduct
<1> QED BY <1>1, <1>4 DEF IsMultiple
=============================================================================
