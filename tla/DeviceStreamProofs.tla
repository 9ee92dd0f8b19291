------------------------- MODULE DeviceStreamProofs -------------------------
(***************************************************************************)
(* The framing of a device's stream, for any number of connections and of  *)
(* frames, any malformed frame and any way to cut the stream into chunks.  *)
(*                                                                         *)
(* The argument.  What the device sent in a connection is known cell by    *)
(* cell as far as its frames are good, and the first malformed frame is    *)
(* known not to pass for a good one, whatever follows it (InvSent).  The   *)
(* validator's buffer is the end of what was read, and begins where a      *)
(* frame begins (InvTaken).  As a chunk is shorter than a frame, a call of *)
(* Feed cuts out one frame at most, and that is one of those.              *)
(*                                                                         *)
(* For the words in a frame the argument is arithmetic: the number of the  *)
(* first k bytes is the word without the weight of the others (WordRead),  *)
(* and what is smaller than its field does not reach into the next         *)
(* (FieldsApart).                                                          *)
(***************************************************************************)
EXTENDS DeviceStream, SequenceTheorems, WellFoundedInduction, TLAPS

-----------------------------------------------------------------------------
(* Division.                                                               *)

\* Quotient and remainder.
LEMMA DivMod ==
  ASSUME NEW m \in Nat, NEW E \in Nat \ {0}
  PROVE  m \div E \in Nat /\ m % E \in 0 .. E - 1 /\ m = E * (m \div E) + (m % E)
OBVIOUS

\* Different quotients are a divisor apart.
LEMMA Apart ==
  ASSUME NEW E \in Nat \ {0}, NEW a \in Int, NEW b \in Int, a < b
  PROVE  E * a + E <= E * b
<1>1. E * (b - a) >= E
  <2> DEFINE d == b - a
  <2>1. d \in Nat /\ d >= 1 OBVIOUS
  <2> HIDE DEF d
  <2>2. E * d >= E BY <2>1
  <2> QED BY <2>2 DEF d
<1>2. E * (b - a) = E * b - E * a OBVIOUS
<1>3. QED BY <1>1, <1>2

\* Quotient and remainder are unique.
LEMMA OneQuotient ==
  ASSUME NEW E \in Nat \ {0}, NEW a \in Int, NEW b \in Int,
         NEW q \in 0 .. E - 1, NEW r \in 0 .. E - 1, E * a + q = E * b + r
  PROVE  a = b /\ q = r
<1>0. E * a \in Int /\ E * b \in Int OBVIOUS
<1>1. ~(a < b)
  <2>1. SUFFICES ASSUME a < b PROVE FALSE OBVIOUS
  <2>2. E * a + E <= E * b BY <2>1, Apart
  <2>3. QED BY <1>0, <2>2
<1>2. ~(b < a)
  <2>1. SUFFICES ASSUME b < a PROVE FALSE OBVIOUS
  <2>2. E * b + E <= E * a BY <2>1, Apart
  <2>3. QED BY <1>0, <2>2
<1>3. QED BY <1>1, <1>2

\* What is put together of a quotient and a remainder comes apart again.
LEMMA TakenApart ==
  ASSUME NEW E \in Nat \ {0}, NEW a \in Nat, NEW q \in 0 .. E - 1
  PROVE  (a * E + q) \div E = a /\ (a * E + q) % E = q
<1>1. a * E = E * a /\ E * a \in Nat /\ a * E + q \in Nat
  OBVIOUS
<1> DEFINE m == a * E + q  b == m \div E  r == m % E
<1>2. b \in Nat /\ r \in 0 .. E - 1 /\ m = E * b + r
  BY <1>1, DivMod
<1>3. E * a + q = E * b + r
  BY <1>1, <1>2
<1>4. a = b /\ q = r
  <2> HIDE DEF b, r
  <2>1. QED BY <1>2, <1>3, OneQuotient
<1>5. QED BY <1>4

\* To divide by a product is to divide by one factor and by the other.
LEMMA DivDiv ==
  ASSUME NEW m \in Nat, NEW E \in Nat \ {0}, NEW D \in Nat \ {0}
  PROVE  m \div (E * D) = (m \div E) \div D
<1> DEFINE a == m \div E  q == m % E  b == a \div D  r == a % D
<1>1. a \in Nat /\ q \in 0 .. E - 1 /\ m = E * a + q
  BY DivMod
<1>2. b \in Nat /\ r \in 0 .. D - 1 /\ a = D * b + r
  <2> HIDE DEF a
  <2>1. QED BY <1>1, DivMod
<1> HIDE DEF a, q, b, r
<1>3. m = (E * D) * b + (E * r + q)
  <2>1. E * (D * b + r) = (E * D) * b + E * r
    BY <1>2
  <2>2. E * a = E * (D * b + r)
    BY <1>2
  <2>3. E * a \in Nat /\ (E * D) * b \in Nat /\ E * r \in Nat
    BY <1>1, <1>2
  <2> QED BY <1>1, <2>1, <2>2, <2>3
<1>4. E * r + q \in 0 .. E * D - 1
  <2>1. E * r + E <= E * D
    <3>1. r \in Int /\ D \in Int /\ r < D
      BY <1>2
    <3>2. QED BY <3>1, Apart
  <2>2. E * r \in Nat /\ E * D \in Nat
    BY <1>2
  <2>3. QED BY <1>1, <2>1, <2>2
<1>5. E * D \in Nat \ {0}
  OBVIOUS
<1>6. (b * (E * D) + (E * r + q)) \div (E * D) = b
  <2> DEFINE e == E * D  t == E * r + q
  <2>1. e \in Nat \ {0} /\ t \in 0 .. e - 1
    BY <1>4, <1>5
  <2> HIDE DEF e, t
  <2>2. (b * e + t) \div e = b
    BY <2>1, <1>2, TakenApart
  <2>3. QED BY <2>2 DEF e, t
<1>7. (E * D) * b = b * (E * D)
  BY <1>2, <1>5
<1>8. m \div (E * D) = b
  BY <1>3, <1>6, <1>7
<1>9. QED BY <1>8 DEF b, a

-----------------------------------------------------------------------------
(* Induction, and the library's fold, without operators as parameters.       *)

\* Induction up to n: a set that has 0, and k + 1 with every k, has them all.
LEMMA Climb ==
  ASSUME NEW n \in Nat, NEW S, 0 \in S, \A k \in 0 .. n - 1 : k \in S => k + 1 \in S
  PROVE  0 .. n \subseteq S
<1> DEFINE Misses == (0 .. n) \ S
<1>1. SUFFICES ASSUME Misses # {} PROVE FALSE
  OBVIOUS
<1>2. Misses \subseteq Nat
  OBVIOUS
<1> DEFINE R == {p \in Nat \X Nat : p[1] < p[2]}
<1>3. PICK k \in Misses : \A j \in Misses : ~ (<<j, k>> \in R)
  <2>1. R = OpToRel(<, Nat)
    BY Zenon DEF OpToRel
  <2>2. IsWellFoundedOn(R, Nat)
    BY <2>1, NatLessThanWellFounded, Zenon
  <2> HIDE DEF R, Misses
  <2>3. QED BY <2>2, <1>1, <1>2, WFMin
<1>4. k \in 1 .. n /\ k \notin S
  BY <1>3
<1>5. k - 1 \in 0 .. n - 1 /\ (k - 1) + 1 = k
  BY <1>4
<1>6. k - 1 \in Misses
  BY <1>4, <1>5
<1>7. <<k - 1, k>> \in R
  BY <1>4
<1>8. QED BY <1>3, <1>6, <1>7

\* A set of numbers up to n has a greatest.
LEMMA Greatest ==
  ASSUME NEW n \in Nat, NEW s \in SUBSET (1 .. n), s # {}
  PROVE  Max(s) \in s /\ \A y \in s : Max(s) >= y
<1> DEFINE S == {k \in 0 .. n : \A t \in SUBSET (1 .. k) : t # {} => \E x \in t : \A y \in t : x >= y}
<1>1. 0 \in S
  <2>1. \A t \in SUBSET (1 .. 0) : t = {}
    OBVIOUS
  <2>2. \A t \in SUBSET (1 .. 0) : t # {} => \E x \in t : \A y \in t : x >= y
    BY <2>1
  <2>3. QED BY <2>2
<1>2. ASSUME NEW k \in 0 .. n - 1, k \in S PROVE k + 1 \in S
  <2>1. SUFFICES ASSUME NEW t \in SUBSET (1 .. k + 1), t # {} PROVE \E x \in t : \A y \in t : x >= y
    OBVIOUS
  <2>2. CASE k + 1 \in t
    BY <2>2
  <2>3. CASE k + 1 \notin t
    <3>1. t \in SUBSET (1 .. k)
      BY <2>3
    <3>2. QED BY <3>1, <2>1, <1>2
  <2>4. QED BY <2>2, <2>3
<1> HIDE DEF S
<1>3. n \in S
  BY <1>1, <1>2, Climb
<1>4. \E x \in s : \A y \in s : x >= y
  BY <1>3 DEF S
<1>5. QED BY <1>4 DEF Max

\* Without it, the numbers are up to less.
LEMMA WithoutGreatest ==
  ASSUME NEW k \in Nat, NEW s \in SUBSET (1 .. k + 1), s # {}
  PROVE  Max(s) \in 1 .. k + 1 /\ s \ {Max(s)} \in SUBSET (1 .. k)
<1>1. PICK m : m = Max(s)
  OBVIOUS
<1>2. m \in s /\ \A y \in s : m >= y
  <2>1. PICK n \in Nat : n = k + 1
    OBVIOUS
  <2>2. s \in SUBSET (1 .. n)
    BY <2>1
  <2>3. Max(s) \in s /\ \A y \in s : Max(s) >= y
    BY <2>2, Greatest
  <2>4. QED BY <2>3, <1>1
<1>3. ASSUME NEW y \in s, y # m PROVE y \in 1 .. k
  BY <1>2, <1>3
<1>4. QED BY <1>1, <1>2, <1>3

\* What the library's fold computes for each set of places, from the values for
\* smaller ones; G[<<i, a>>] is what place i makes of a.
Iter(n, base, G, f) ==
  [s \in SUBSET (1 .. n) |-> IF s = {} THEN base ELSE G[<<Max(s), f[s \ {Max(s)}]>>]]

\* There is such a function: one that is right for all sets up to k gives one that is
\* right for those up to k + 1.
LEMMA IterExists ==
  ASSUME NEW n \in Nat, NEW base, NEW G
  PROVE  \E f : f = Iter(n, base, G, f)
<1> DEFINE Right(f, k) == \A s \in SUBSET (1 .. k) : f[s] = Iter(n, base, G, f)[s]
           S == {k \in 0 .. n : \E f : Right(f, k)}
<1>1. 0 \in S
  <2> DEFINE f == Iter(n, base, G, {})
  <2>1. Right(f, 0)
    BY DEF Iter
  <2>2. QED BY <2>1
<1>2. ASSUME NEW k \in 0 .. n - 1, k \in S PROVE k + 1 \in S
  <2>1. PICK f : Right(f, k)
    BY <1>2
  <2> DEFINE g == Iter(n, base, G, f)
  <2>2. ASSUME NEW s \in SUBSET (1 .. k + 1) PROVE g[s] = Iter(n, base, G, g)[s]
    <3>1. s \in SUBSET (1 .. n)
      OBVIOUS
    <3>2. CASE s = {}
      BY <3>1, <3>2 DEF Iter
    <3>3. CASE s # {}
      <4>1. s \ {Max(s)} \in SUBSET (1 .. k)
        <5>1. k \in Nat
          OBVIOUS
        <5> HIDE DEF g
        <5>2. QED BY <5>1, <3>3, WithoutGreatest
      <4>2. f[s \ {Max(s)}] = g[s \ {Max(s)}]
        BY <4>1, <2>1
      <4>3. QED BY <3>1, <3>3, <4>2 DEF Iter
    <3>4. QED BY <3>2, <3>3
  <2>3. Right(g, k + 1)
    BY <2>2
  <2> HIDE DEF g, Right
  <2>4. QED BY <2>3
<1> HIDE DEF S
<1>3. n \in S
  BY <1>1, <1>2, Climb
<1>4. PICK f : Right(f, n)
  BY <1>3 DEF S
<1> DEFINE g == Iter(n, base, G, f)
<1>5. \A s \in SUBSET (1 .. n) : g[s] = f[s]
  BY <1>4
<1>6. ASSUME NEW s \in SUBSET (1 .. n) PROVE s # {} => s \ {Max(s)} \in SUBSET (1 .. n)
  OBVIOUS
<1>7. Iter(n, base, G, g) = g
  <2> HIDE DEF g
  <2>1. Iter(n, base, G, g) = Iter(n, base, G, f)
    BY <1>5, <1>6 DEF Iter
  <2>2. QED BY <2>1 DEF g
<1>8. QED BY <1>7

\* Its values are of the type that base has and G keeps.
LEMMA IterType ==
  ASSUME NEW n \in Nat, NEW A, NEW base \in A, NEW G, NEW f, f = Iter(n, base, G, f),
         \A i \in 1 .. n, a \in A : G[<<i, a>>] \in A
  PROVE  \A s \in SUBSET (1 .. n) : f[s] \in A
<1> DEFINE S == {k \in 0 .. n : \A s \in SUBSET (1 .. k) : f[s] \in A}
<1>1. 0 \in S
  <2>1. f[{}] = base
    BY DEF Iter
  <2>2. \A s \in SUBSET (1 .. 0) : s = {}
    OBVIOUS
  <2>3. \A s \in SUBSET (1 .. 0) : f[s] \in A
    BY <2>1, <2>2
  <2>4. QED BY <2>3
<1>2. ASSUME NEW k \in 0 .. n - 1, k \in S PROVE k + 1 \in S
  <2>1. ASSUME NEW s \in SUBSET (1 .. k + 1) PROVE f[s] \in A
    <3>1. s \in SUBSET (1 .. n)
      OBVIOUS
    <3>2. CASE s = {}
      BY <3>1, <3>2 DEF Iter
    <3>3. CASE s # {}
      <4>1. s \ {Max(s)} \in SUBSET (1 .. k) /\ Max(s) \in 1 .. n
        BY <3>3, WithoutGreatest
      <4>2. f[s \ {Max(s)}] \in A
        BY <4>1, <1>2
      <4>3. f[s] = G[<<Max(s), f[s \ {Max(s)}]>>]
        BY <3>1, <3>3 DEF Iter
      <4>4. QED BY <4>1, <4>2, <4>3
    <3>4. QED BY <3>2, <3>3
  <2>2. QED BY <2>1
<1> HIDE DEF S
<1>3. n \in S
  BY <1>1, <1>2, Climb
<1>4. QED BY <1>3 DEF S

\* The greatest of the first k places is k.
LEMMA LastPlace ==
  ASSUME NEW k \in Nat \ {0}
  PROVE  1 .. k # {} /\ Max(1 .. k) = k /\ (1 .. k) \ {k} = 1 .. k - 1
<1>1. 1 .. k # {} /\ 1 .. k \in SUBSET (1 .. k) /\ k \in Nat /\ k \in 1 .. k
  OBVIOUS
<1>2. PICK m : m = Max(1 .. k)
  OBVIOUS
<1>3. m \in 1 .. k /\ \A y \in 1 .. k : m >= y
  BY <1>1, <1>2, Greatest
<1>4. m = k
  <2>1. m \in Int /\ m <= k /\ m >= k
    BY <1>1, <1>3
  <2>2. QED BY <2>1
<1>5. (1 .. k) \ {k} = 1 .. k - 1
  OBVIOUS
<1>6. QED BY <1>1, <1>2, <1>4, <1>5

\* From place to place.
LEMMA PlaceByPlace ==
  ASSUME NEW n \in Nat, NEW f, NEW h, f[{}] = h[0],
         \A k \in 1 .. n : f[1 .. k - 1] = h[k - 1] => f[1 .. k] = h[k]
  PROVE  f[1 .. n] = h[n]
<1> DEFINE S == {k \in 0 .. n : f[1 .. k] = h[k]}
<1>1. 0 \in S
  <2>1. 1 .. 0 = {}
    OBVIOUS
  <2>2. QED BY <2>1
<1>2. ASSUME NEW k \in 0 .. n - 1, k \in S PROVE k + 1 \in S
  <2>1. k + 1 \in 1 .. n /\ (k + 1) - 1 = k
    OBVIOUS
  <2>2. f[1 .. k + 1] = h[k + 1]
    BY <2>1, <1>2
  <2>3. QED BY <2>1, <2>2
<1> HIDE DEF S
<1>3. 0 .. n \subseteq S
  BY ONLY n \in Nat, <1>1, <1>2, Climb
<1>4. QED BY <1>3, n \in 0 .. n DEF S

-----------------------------------------------------------------------------
(* The words.                                                               *)

\* The sizes of the fields and of a byte.
LEMMA Sizes == Boards \in Nat \ {0} /\ Channels \in Nat \ {0} /\ WordBytes \in Nat \ {0} /\ ByteValues \in Nat \ {0}
BY WordAssumption DEF ByteValues

\* How the weight of a byte follows from that of the next; a function that follows
\* so up to k gives one that follows so up to k + 1.
Heavier(f) == [k \in 0 .. WordBytes |-> IF k = 0 THEN 1 ELSE ByteValues * f[k - 1]]

\* Each byte counts for as much as all the values of the one behind it.
LEMMA Weights ==
  /\ Weight[0] = 1 /\ \A k \in 1 .. WordBytes : Weight[k] = ByteValues * Weight[k - 1]
  /\ \A k \in 0 .. WordBytes : Weight[k] \in Nat \ {0}
<1> DEFINE n == WordBytes
           S == {k \in 0 .. n : \E f : \A j \in 0 .. k : f[j] = Heavier(f)[j]}
<1>0. n \in Nat
  BY Sizes
<1>1. 0 \in S
  <2> DEFINE f == Heavier([k \in 0 .. n |-> 1])
  <2>1. \A j \in 0 .. 0 : f[j] = Heavier(f)[j]
    BY <1>0 DEF Heavier
  <2>2. QED BY <1>0, <2>1
<1>2. ASSUME NEW k \in 0 .. n - 1, k \in S PROVE k + 1 \in S
  <2>1. PICK f : \A j \in 0 .. k : f[j] = Heavier(f)[j]
    BY <1>2
  <2> DEFINE g == Heavier(f)
  <2>2. ASSUME NEW j \in 0 .. k + 1 PROVE g[j] = Heavier(g)[j]
    <3>1. j \in 0 .. n
      BY <1>0
    <3>2. CASE j = 0
      BY <3>1, <3>2 DEF Heavier
    <3>3. CASE j # 0
      <4>1. j - 1 \in 0 .. k
        BY <3>3, <1>0
      <4>2. f[j - 1] = g[j - 1]
        BY <4>1, <2>1
      <4>3. g[j] = ByteValues * f[j - 1]
        BY <3>1, <3>3 DEF Heavier
      <4> HIDE DEF g
      <4>4. Heavier(g)[j] = ByteValues * g[j - 1]
        BY <3>1, <3>3 DEF Heavier
      <4>5. QED BY <4>2, <4>3, <4>4
    <3>4. QED BY <3>2, <3>3
  <2>3. k + 1 \in 0 .. n
    BY <1>0
  <2>4. QED BY <2>2, <2>3
<1> HIDE DEF S
<1>3. n \in S
  BY <1>0, <1>1, <1>2, Climb
<1>4. PICK f : \A j \in 0 .. n : f[j] = Heavier(f)[j]
  BY <1>3 DEF S
<1> DEFINE g == Heavier(f)
<1>5. g = Heavier(g)
  <2>1. \A j \in 0 .. n : g[j] = f[j]
    BY <1>4
  <2>2. \A j \in 0 .. n : j # 0 => j - 1 \in 0 .. n
    BY <1>0
  <2> HIDE DEF g
  <2>3. Heavier(g) = Heavier(f)
    BY <2>1, <2>2 DEF Heavier
  <2>4. QED BY <2>3 DEF g
<1>6. Weight = Heavier(Weight)
  <2>1. Weight = CHOOSE h : h = Heavier(h)
    BY DEF Weight, Heavier
  <2> HIDE DEF g
  <2>2. QED BY <1>5, <2>1
<1>7. Weight[0] = 1 /\ \A k \in 1 .. n : Weight[k] = ByteValues * Weight[k - 1]
  BY <1>0, <1>6 DEF Heavier
<1> DEFINE P == {k \in 0 .. n : Weight[k] \in Nat \ {0}}
<1>8. 0 \in P
  BY <1>0, <1>7
<1>9. ASSUME NEW k \in 0 .. n - 1, k \in P PROVE k + 1 \in P
  <2>1. k + 1 \in 1 .. n /\ (k + 1) - 1 = k
    BY <1>0
  <2>2. Weight[k + 1] = ByteValues * Weight[k] /\ Weight[k] \in Nat \ {0}
    BY <2>1, <1>7, <1>9
  <2>3. ByteValues * Weight[k] \in Nat \ {0}
    BY <2>2, Sizes
  <2>4. QED BY <2>1, <2>2, <2>3
<1>10. 0 .. n \subseteq P
  <2> HIDE DEF P
  <2>1. QED BY <1>0, <1>8, <1>9, Climb
<1>11. QED BY <1>7, <1>10

\* read_be_u64 goes from byte to byte: h[k] is the number of the first k bytes.
LEMMA BytesRead ==
  ASSUME NEW n \in Nat, NEW bytes \in [1 .. n -> Nat], NEW h \in [0 .. n -> Nat],
         h[0] = 0, \A k \in 1 .. n : h[k] = h[k - 1] * ByteValues + bytes[k]
  PROVE  ReadBigEndian(bytes) = h[n]
<1>0. ByteValues \in Nat
  BY Sizes
<1> DEFINE G == [p \in (1 .. n) \X Nat |-> p[2] * ByteValues + bytes[p[1]]]
           Fold(f) == [s \in SUBSET (1 .. n) |->
                         IF s = {} THEN 0 ELSE f[s \ {Max(s)}] * ByteValues + bytes[Max(s)]]
           sum == CHOOSE f : f = Fold(f)
<1>1. ASSUME NEW i \in 1 .. n, NEW a \in Nat
      PROVE  G[<<i, a>>] = a * ByteValues + bytes[i] /\ G[<<i, a>>] \in Nat
  <2>1. G[<<i, a>>] = a * ByteValues + bytes[i]
    OBVIOUS
  <2>2. bytes[i] \in Nat /\ a * ByteValues \in Nat
    BY <1>0
  <2> HIDE DEF G
  <2>3. QED BY <2>1, <2>2
<1>2. DOMAIN bytes = 1 .. n
  OBVIOUS
<1>3. ReadBigEndian(bytes) = sum[1 .. n]
  BY <1>2 DEF ReadBigEndian, FoldLeft, MapThenFoldSet
<1> HIDE DEF G
<1>4. \E f : f = Fold(f)
  <2>1. PICK f : f = Iter(n, 0, G, f)
    BY IterExists
  <2>2. \A s \in SUBSET (1 .. n) : f[s] \in Nat
    BY <1>1, <2>1, IterType
  <2>3. ASSUME NEW s \in SUBSET (1 .. n), s # {}
        PROVE  G[<<Max(s), f[s \ {Max(s)}]>>] = f[s \ {Max(s)}] * ByteValues + bytes[Max(s)]
    <3>1. Max(s) \in 1 .. n
      BY <2>3, Greatest
    <3>2. f[s \ {Max(s)}] \in Nat
      BY <2>2
    <3>3. QED BY <1>1, <3>1, <3>2
  <2>4. Iter(n, 0, G, f) = Fold(f)
    BY <2>3 DEF Iter
  <2>5. QED BY <2>1, <2>4
<1>5. sum = Fold(sum)
  BY <1>4
<1> HIDE DEF sum
<1>6. sum[{}] = h[0]
  BY <1>5
<1>7. ASSUME NEW k \in 1 .. n, sum[1 .. k - 1] = h[k - 1] PROVE sum[1 .. k] = h[k]
  <2>1. k \in Nat \ {0} /\ 1 .. k \in SUBSET (1 .. n)
    OBVIOUS
  <2>2. 1 .. k # {} /\ Max(1 .. k) = k /\ (1 .. k) \ {k} = 1 .. k - 1
    BY <2>1, LastPlace
  <2>3. sum[1 .. k] = sum[1 .. k - 1] * ByteValues + bytes[k]
    BY <1>5, <2>1, <2>2
  <2>4. QED BY <1>7, <2>3
<1>8. sum[1 .. n] = h[n]
  BY ONLY n \in Nat, <1>6, <1>7, PlaceByPlace
<1>9. QED BY <1>3, <1>8

\* A word of so many bytes is read as it was sent.
LEMMA WordRead ==
  ASSUME NEW word \in Nat, word < Weight[WordBytes]
  PROVE  Len(OnWire(word)) = WordBytes /\ ReadBigEndian(OnWire(word)) = word
<1> DEFINE n == WordBytes
           bytes == OnWire(word)
           h == [k \in 0 .. n |-> word \div Weight[n - k]]
<1>0. n \in Nat /\ ByteValues \in Nat \ {0}
  BY Sizes
<1>1. \A k \in 0 .. n : n - k \in 0 .. n /\ Weight[n - k] \in Nat \ {0} /\ word \div Weight[n - k] \in Nat
  <2>1. SUFFICES ASSUME NEW k \in 0 .. n PROVE n - k \in 0 .. n /\ Weight[n - k] \in Nat \ {0} /\ word \div Weight[n - k] \in Nat
    OBVIOUS
  <2>2. n - k \in 0 .. n
    BY <1>0
  <2>3. Weight[n - k] \in Nat \ {0}
    BY <2>2, Weights
  <2>4. QED BY <2>2, <2>3, DivMod
<1>2. h \in [0 .. n -> Nat] /\ \A k \in 0 .. n : h[k] = word \div Weight[n - k]
  BY <1>1
<1>3. bytes \in [1 .. n -> Nat] /\ \A k \in 1 .. n : bytes[k] = h[k] % ByteValues
  <2>1. bytes = [k \in 1 .. n |-> (word \div Weight[n - k]) % ByteValues]
    BY DEF OnWire
  <2> HIDE DEF bytes, h
  <2>2. ASSUME NEW k \in 1 .. n PROVE bytes[k] = h[k] % ByteValues /\ h[k] % ByteValues \in Nat
    <3>1. k \in 0 .. n
      BY <1>0
    <3>2. bytes[k] = h[k] % ByteValues /\ h[k] \in Nat
      BY <2>1, <3>1, <1>2
    <3>3. PICK v \in Nat : v = h[k]
      BY <3>2
    <3>4. v % ByteValues \in 0 .. ByteValues - 1
      BY <1>0, DivMod
    <3>5. 0 .. ByteValues - 1 \subseteq Nat
      BY <1>0
    <3>6. QED BY <3>2, <3>3, <3>4, <3>5
  <2>3. bytes = [k \in 1 .. n |-> h[k] % ByteValues]
    BY <2>1, <2>2
  <2>4. QED BY <2>2, <2>3
<1> HIDE DEF h, bytes
<1>4. h[0] = 0
  <2>1. n - 0 = n /\ 0 \in 0 .. n
    BY <1>0
  <2>2. h[0] = word \div Weight[n] /\ Weight[n] \in Nat \ {0}
    <3>1. n \in 0 .. n
      BY <1>0
    <3>2. Weight[n] \in Nat \ {0}
      BY <3>1, Weights
    <3>3. h[0] = word \div Weight[n - 0]
      BY <1>2, <2>1
    <3>4. QED BY <2>1, <3>2, <3>3
  <2>3. (0 * Weight[n] + word) \div Weight[n] = 0
    BY <2>2, TakenApart
  <2>4. QED BY <2>2, <2>3
<1>5. ASSUME NEW k \in 1 .. n PROVE h[k] = h[k - 1] * ByteValues + bytes[k]
  <2> DEFINE w == Weight[n - k]  v == word \div w
  <2>1. k \in 0 .. n /\ k - 1 \in 0 .. n /\ n - (k - 1) \in 1 .. n /\ (n - (k - 1)) - 1 = n - k
    BY <1>0
  <2>2. w \in Nat \ {0} /\ v \in Nat /\ h[k] = v
    BY <1>1, <1>2, <2>1
  <2>3. Weight[n - (k - 1)] = w * ByteValues
    BY <2>1, <2>2, Weights, Sizes
  <2>4. h[k - 1] = word \div (w * ByteValues)
    BY <1>2, <2>1, <2>3
  <2> HIDE DEF w
  <2>5. h[k - 1] = v \div ByteValues
    BY <1>0, <2>2, <2>4, DivDiv
  <2> HIDE DEF v
  <2>6. v = ByteValues * (v \div ByteValues) + (v % ByteValues)
    BY <1>0, <2>2, DivMod
  <2>7. v \div ByteValues \in Nat
    BY <1>0, <2>2, DivMod
  <2>8. ByteValues * (v \div ByteValues) = (v \div ByteValues) * ByteValues
    BY <1>0, <2>7
  <2>9. QED BY <1>3, <2>2, <2>5, <2>6, <2>8
<1>6. ReadBigEndian(bytes) = h[n]
  BY <1>0, <1>2, <1>3, <1>4, <1>5, BytesRead
<1>7. h[n] = word
  <2>1. n - n = 0 /\ n \in 0 .. n
    BY <1>0
  <2>2. h[n] = word \div 1
    BY <1>2, <2>1, Weights
  <2>3. QED BY <2>2
<1>8. Len(bytes) = n
  BY <1>0 DEF bytes, OnWire
<1>9. QED BY <1>6, <1>7, <1>8 DEF bytes

\* The fields of a word lie side by side: nothing spills from one into another.
LEMMA FieldsApart ==
  ASSUME NEW board_id \in 0 .. Boards - 1, NEW channel_id \in 0 .. Channels - 1, NEW value56 \in Nat
  PROVE  LET word == BuildWord(board_id, channel_id, value56)
         IN  /\ word \in Nat /\ word < Weight[WordBytes]
             /\ BoardOf(word) = board_id
             /\ (word \div TimeValues) % Channels = channel_id
             /\ word % TimeValues = value56 % TimeValues
<1> DEFINE b == board_id  c == channel_id  T == TimeValues  t == value56 % T
           first == b * Channels + c
           word  == BuildWord(b, c, value56)
<1>1. /\ Boards \in Nat \ {0} /\ Channels \in Nat \ {0} /\ WordBytes \in Nat \ {0} /\ ByteValues \in Nat \ {0}
      /\ b \in Nat /\ b < Boards /\ c \in Nat /\ c < Channels
  BY Sizes
<1>2. T \in Nat \ {0} /\ Weight[WordBytes] = ByteValues * T
  <2>1. WordBytes \in 1 .. WordBytes /\ WordBytes - 1 \in 0 .. WordBytes
    BY <1>1
  <2>2. QED BY <2>1, Weights DEF TimeValues
<1>3. t \in 0 .. T - 1
  <2> HIDE DEF T
  <2>1. QED BY <1>2, DivMod
<1>4. b % Boards = b /\ c % Channels = c
  BY <1>1
<1> HIDE DEF T, t
<1>5. word = b * Channels * T + c * T + t
  BY <1>4 DEF BuildWord, T, t
<1>6. first \in Nat /\ first < ByteValues
  <2>1. Channels * b + Channels <= Channels * Boards
    <3>1. b \in Int /\ Boards \in Int
      BY <1>1
    <3>2. QED BY <3>1, <1>1, Apart
  <2>2. Channels * b = b * Channels /\ Channels * Boards = Boards * Channels /\ b * Channels \in Nat
    BY <1>1
  <2>3. QED BY <1>1, <2>1, <2>2 DEF ByteValues
<1> HIDE DEF word
<1>7. word = first * T + t
  <2>1. (b * Channels + c) * T = b * Channels * T + c * T
    <3>1. b * Channels \in Nat
      BY <1>1
    <3>2. QED BY <3>1, <1>1, <1>2
  <2>2. QED BY <1>5, <2>1
<1>8. word \in Nat /\ word < ByteValues * T
  <2>1. T * first + T <= T * ByteValues
    <3>1. first \in Int /\ ByteValues \in Int
      BY <1>1, <1>6
    <3> HIDE DEF first
    <3>2. QED BY <3>1, <1>2, <1>6, Apart
  <2> HIDE DEF first
  <2>2. T * first = first * T /\ T * ByteValues = ByteValues * T /\ first * T \in Nat /\ t \in Nat /\ t < T
    BY <1>1, <1>2, <1>3, <1>6
  <2>3. first * T + t \in Nat /\ first * T + t < first * T + T
    BY <2>2, <1>2
  <2>4. first * T + T <= ByteValues * T
    BY <2>1, <2>2
  <2>5. ByteValues * T \in Nat
    BY <1>1, <1>2
  <2> HIDE DEF T
  <2>6. QED BY <1>2, <1>7, <2>2, <2>3, <2>4, <2>5
<1>9. word \div T = first /\ word % T = t
  <2> HIDE DEF first
  <2>1. QED BY <1>2, <1>3, <1>6, <1>7, TakenApart
<1>10. first \div Channels = b /\ first % Channels = c
  <2>1. c \in 0 .. Channels - 1
    BY <1>1
  <2>2. QED BY <2>1, <1>1, TakenApart
<1>11. word \div (Channels * T) = b
  <2>1. Channels * T = T * Channels
    BY <1>1, <1>2
  <2>2. word \div (T * Channels) = (word \div T) \div Channels
    <3>1. word \in Nat /\ T \in Nat \ {0} /\ Channels \in Nat \ {0}
      BY <1>1, <1>2, <1>8
    <3>2. QED BY ONLY <3>1, DivDiv, Zenon
  <2>3. QED BY <2>1, <2>2, <1>9, <1>10
<1>12. BoardOf(word) = b
  BY <1>4, <1>11 DEF BoardOf, T
<1>13. QED BY <1>2, <1>8, <1>9, <1>10, <1>12 DEF word, T, t

\* A word comes back as it was built, from any board and channel and at any time.
LEMMA WordSurvives ==
  ASSUME NEW board_id \in 0 .. Boards - 1, NEW channel_id \in 0 .. Channels - 1, NEW value56 \in Nat
  PROVE  LET bytes == OnWire(BuildWord(board_id, channel_id, value56))
         IN  /\ FrameToEvent(bytes) =
                  {[board_id |-> board_id, channel_id |-> channel_id, time |-> value56 % TimeValues]}
             /\ \A expected_board_id \in 0 .. Boards - 1 :
                  Accepts(expected_board_id, bytes) = (expected_board_id = board_id)
<1> DEFINE word == BuildWord(board_id, channel_id, value56)
<1>1. /\ word \in Nat /\ word < Weight[WordBytes]
      /\ BoardOf(word) = board_id
      /\ (word \div TimeValues) % Channels = channel_id
      /\ word % TimeValues = value56 % TimeValues
  BY FieldsApart
<1> HIDE DEF word
<1>2. Len(OnWire(word)) = WordBytes /\ ReadBigEndian(OnWire(word)) = word
  BY <1>1, WordRead
<1>3. FrameToEvent(OnWire(word)) =
        {[board_id |-> board_id, channel_id |-> channel_id, time |-> value56 % TimeValues]}
  BY <1>1, <1>2 DEF FrameToEvent
<1>4. ASSUME NEW expected_board_id \in 0 .. Boards - 1
      PROVE  Accepts(expected_board_id, OnWire(word)) = (expected_board_id = board_id)
  BY <1>1, <1>2 DEF Accepts
<1>5. QED BY <1>3, <1>4 DEF word

\* So do all that a device can send (kc705_tof_dummy_device.cpp:242, kc705_tof_decoder.cpp:38).
LEMMA AllWordsSurvive == WordsSurvive
<1>1. TimeValues \in Nat
  <2>1. WordBytes - 1 \in 0 .. WordBytes
    BY Sizes
  <2>2. QED BY <2>1, Weights DEF TimeValues
<1>2. 0 .. 2 * TimeValues \subseteq Nat
  BY <1>1
<1>3. QED BY <1>2, WordSurvives DEF WordsSurvive

-----------------------------------------------------------------------------
(* The stream.                                                              *)

Marks == {"header", "board", "time", "footer", "noise"}
Cells == [conn : Nat, frame : Nat, mark : Marks]

\* What the device sent in this connection and the socket received.
Stream == got \o wire

\* The frames before the first malformed one.
Good == IF spoiled = 0 THEN frames ELSE spoiled - 1

\* s begins with g good frames of connection c.
Begins(s, c, g) ==
  Len(s) >= 4 * g /\ \A n \in 1 .. g, j \in 1 .. 4 : s[4 * (n - 1) + j] = Wire(c, n)[j]

\* What begins behind b is not a frame, and nothing that follows makes it one.
NoFrameAt(s, b) ==
  /\ Len(s) >= b + 3
  /\ \/ s[b + 1].mark # "header"
     \/ s[b + 2].mark # "board"
     \/ Len(s) > b + 3 => s[b + 4].mark # "footer"

\* b stands behind the first k cells of g, and is all that does.
Within(b, g, k) == \A j \in 1 .. Len(b) : b[j] = g[k + j]
EndOf(b, g, k)  == Len(g) = k + Len(b) /\ Within(b, g, k)

InvType ==
  /\ TypeOK
  /\ got \in Seq(Cells) /\ wire \in Seq(Cells) /\ buffer \in Seq(Cells)
  /\ forwarded \in Seq(Seq(Cells))

InvSent ==
  pc = "read" =>
    /\ Begins(Stream, conn, Good)
    /\ spoiled = 0 => Len(Stream) < 4 * frames + 4 /\ (~cut => Len(Stream) <= 4 * frames)
    /\ spoiled # 0 => NoFrameAt(Stream, 4 * Good)

InvTaken ==
  /\ Len(forwarded) <= Good
  /\ \A i \in 1 .. Len(forwarded) : forwarded[i] = Payload(conn, i)
  /\ pc = "connect" => buffer = <<>>
  /\ pc = "failed" => spoiled # 0 /\ Len(forwarded) = Good
  /\ pc = "read" =>
       /\ EndOf(buffer, got, 4 * Len(forwarded)) /\ Len(buffer) < 4

IInv == InvType /\ InvSent /\ InvTaken

-----------------------------------------------------------------------------
(* Frames and what may go wrong with them.                                 *)

\* Functions on an interval from 1 are sequences.
LEMMA IsSequence ==
  ASSUME NEW S, NEW n \in Nat, NEW w \in [1 .. n -> S]
  PROVE  w \in Seq(S) /\ Len(w) = n
OBVIOUS

\* The cells of a frame.
LEMMA WireShape ==
  ASSUME NEW c \in Nat, NEW n \in Nat
  PROVE  /\ Wire(c, n) \in Seq(Cells) /\ Len(Wire(c, n)) >= 4 /\ Len(Wire(c, n)) <= 4
         /\ Wire(c, n)[1].mark = "header" /\ Wire(c, n)[2].mark = "board"
         /\ Wire(c, n)[3].mark = "time" /\ Wire(c, n)[4].mark = "footer"
<1>1. F = 4 /\ \A i \in 1 .. 4 : Layout[i] \in Marks
  BY DEF F, Layout, Marks
<1>2. Wire(c, n) = [i \in 1 .. 4 |-> [conn |-> c, frame |-> n, mark |-> Layout[i]]]
  BY <1>1 DEF Wire
<1>3. \A i \in 1 .. 4 : [conn |-> c, frame |-> n, mark |-> Layout[i]] \in Cells
  BY <1>1 DEF Cells
<1>4. Wire(c, n) \in [1 .. 4 -> Cells]
  BY <1>2, <1>3
<1>5. Wire(c, n) \in Seq(Cells) /\ Len(Wire(c, n)) >= 4 /\ Len(Wire(c, n)) <= 4
  <2>1. 4 \in Nat
    OBVIOUS
  <2>2. Wire(c, n) \in Seq(Cells) /\ Len(Wire(c, n)) = 4
    BY <1>4, <2>1, IsSequence, Zenon
  <2>3. QED BY <2>2
<1>6. QED BY <1>2, <1>5 DEF Layout

\* Seven things may go wrong with a frame; none leaves it a frame, and none lets it
\* begin with what completes the one before.
LEMMA MalformedShape ==
  ASSUME NEW c \in Nat, NEW n \in Nat, NEW m \in Malformed(c, n)
  PROVE  /\ m \in Seq(Cells) /\ Len(m) >= 3 /\ Len(m) <= 4
         /\ m[1].mark # "footer"
         /\ m[1].mark # "header" \/ m[2].mark # "board" \/ (Len(m) > 3 => m[4].mark # "footer")
<1> DEFINE w == Wire(c, n)
<1>1. /\ w \in Seq(Cells) /\ Len(w) >= 4 /\ Len(w) <= 4
      /\ w[1].mark = "header" /\ w[2].mark = "board" /\ w[3].mark = "time" /\ w[4].mark = "footer"
  BY WireShape
<1>2. \/ \E i \in {1, 2, 4} : m = [w EXCEPT ![i].mark = "noise"]
      \/ \E i \in 1 .. 4 : m = SubSeq(w, 1, i - 1) \o SubSeq(w, i + 1, 4)
  BY DEF Malformed, F, Layout
<1> HIDE DEF w
<1>3. CASE \E i \in {1, 2, 4} : m = [w EXCEPT ![i].mark = "noise"]
  <2>1. PICK i \in {1, 2, 4} : m = [w EXCEPT ![i].mark = "noise"]
    BY <1>3
  <2>2. i \in 1 .. Len(w) /\ w[i] \in Cells
    BY <1>1
  <2>3. [w[i] EXCEPT !.mark = "noise"] \in Cells
    BY <2>2 DEF Cells, Marks
  <2>4. /\ m \in Seq(Cells) /\ Len(m) = Len(w) /\ m[i].mark = "noise"
        /\ \A j \in 1 .. Len(w) : j # i => m[j] = w[j]
    BY <1>1, <2>1, <2>2, <2>3
  <2>5. QED BY <1>1, <2>4
<1>4. CASE \E i \in 1 .. 4 : m = SubSeq(w, 1, i - 1) \o SubSeq(w, i + 1, 4)
  <2>1. PICK i \in 1 .. 4 : m = SubSeq(w, 1, i - 1) \o SubSeq(w, i + 1, 4)
    BY <1>4
  <2> DEFINE a == SubSeq(w, 1, i - 1)  b == SubSeq(w, i + 1, 4)
  <2>2. a \in Seq(Cells) /\ Len(a) = i - 1 /\ \A j \in 1 .. i - 1 : a[j] = w[j]
    BY <1>1
  <2>3. b \in Seq(Cells) /\ Len(b) = 4 - i /\ \A j \in 1 .. 4 - i : b[j] = w[i + j]
    BY <1>1
  <2> HIDE DEF a, b
  <2>4. m \in Seq(Cells) /\ Len(m) >= 3 /\ Len(m) <= 3
    BY <2>1, <2>2, <2>3 DEF a, b
  <2>5. m = a \o b
    BY <2>1 DEF a, b
  <2>6. m[1].mark = IF i = 1 THEN "board" ELSE "header"
    <3>1. CASE i = 1
      <4>1. Len(a) <= 0 /\ 1 \in 1 .. Len(b) /\ b[1] = w[2]
        BY <2>2, <2>3, <3>1
      <4>2. m[1] = b[1]
        BY <2>2, <2>3, <2>5, <4>1
      <4>3. QED BY <1>1, <3>1, <4>1, <4>2
    <3>2. CASE i # 1
      <4>1. 1 \in 1 .. Len(a) /\ a[1] = w[1]
        BY <2>2, <3>2
      <4>2. m[1] = a[1]
        BY <2>2, <2>3, <2>5, <4>1
      <4>3. QED BY <1>1, <3>2, <4>1, <4>2
    <3>3. QED BY <3>1, <3>2
  <2>7. QED BY <2>4, <2>6
<1>5. QED BY <1>2, <1>3, <1>4

-----------------------------------------------------------------------------
(* The device.                                                             *)

\* What stands behind a sequence leaves it alone.
LEMMA Behind ==
  ASSUME NEW s \in Seq(Cells), NEW x \in Seq(Cells)
  PROVE  /\ s \o x \in Seq(Cells) /\ Len(s \o x) = Len(s) + Len(x)
         /\ \A i \in 1 .. Len(s) : (s \o x)[i] = s[i]
         /\ \A i \in 1 .. Len(x) : (s \o x)[Len(s) + i] = x[i]
OBVIOUS

LEMMA Regrouped ==
  ASSUME NEW s \in Seq(Cells), NEW t \in Seq(Cells), NEW u \in Seq(Cells)
  PROVE  s \o (t \o u) = (s \o t) \o u
BY ConcatAssociative

LEMMA BeginsStays ==
  ASSUME NEW s \in Seq(Cells), NEW x \in Seq(Cells), NEW c, NEW g \in Nat, Begins(s, c, g)
  PROVE  Begins(s \o x, c, g)
<1>1. SUFFICES ASSUME NEW n \in 1 .. g, NEW j \in 1 .. 4
               PROVE  (s \o x)[4 * (n - 1) + j] = Wire(c, n)[j]
  BY Behind DEF Begins
<1>2. s[4 * (n - 1) + j] = Wire(c, n)[j] /\ Len(s) >= 4 * g
  BY DEF Begins
<1>3. 4 * (n - 1) + j \in 1 .. Len(s)
  BY <1>2
<1>4. QED BY <1>2, <1>3, Behind

LEMMA NoFrameStays ==
  ASSUME NEW s \in Seq(Cells), NEW x \in Seq(Cells), NEW b \in Nat, NoFrameAt(s, b),
         Len(x) >= 1, x[1].mark # "footer"
  PROVE  NoFrameAt(s \o x, b)
<1>1. Len(s) >= b + 3 /\ Len(s) \in Nat /\ Len(x) \in Nat
  BY DEF NoFrameAt
<1>2. Len(s \o x) = Len(s) + Len(x)
  BY Behind
<1>3. (s \o x)[b + 1] = s[b + 1] /\ (s \o x)[b + 2] = s[b + 2]
  <2>1. b + 1 \in 1 .. Len(s) /\ b + 2 \in 1 .. Len(s)
    BY <1>1
  <2>2. QED BY <2>1, Behind
<1>4. CASE Len(s) > b + 3
  <2>1. b + 4 \in 1 .. Len(s)
    BY <1>1, <1>4
  <2>2. (s \o x)[b + 4] = s[b + 4]
    BY <2>1, Behind
  <2>3. QED BY <1>1, <1>2, <1>3, <1>4, <2>2 DEF NoFrameAt
<1>5. CASE Len(s) = b + 3
  <2>1. 1 \in 1 .. Len(x) /\ Len(s) + 1 = b + 4
    BY <1>1, <1>5
  <2>2. (s \o x)[b + 4] = x[1]
    BY <2>1, Behind
  <2>3. QED BY <1>1, <1>2, <1>3, <2>2 DEF NoFrameAt
<1>6. QED BY <1>1, <1>4, <1>5

\* Whatever piece arrives: the rest of the state keeps to what was known, if the
\* stream does so that has been good up to now.
LEMMA PieceKeeps ==
  ASSUME IInv, NEW x \in Seq(Cells), Len(x) >= 1, x[1].mark # "footer",
         Driver!DeviceSends(x), UNCHANGED <<honest, conn, worker>>,
         frames' \in 0 .. MaxFrames, spoiled' \in 0 .. frames', cut' \in BOOLEAN,
         Good <= Good', spoiled # 0 => spoiled' = spoiled,
         spoiled = 0 => InvSent'
  PROVE  IInv'
<1> USE DEF IInv
<1>1. /\ UNCHANGED <<sock, peer, hup, got, honest, conn, buffer, pc, forwarded>>
      /\ wire' = wire \o x
  BY DEF Driver!DeviceSends, worker
<1>2. Good \in Nat /\ Good' \in Nat
  <2>1. frames \in 0 .. MaxFrames /\ spoiled \in 0 .. frames /\ MaxFrames \in Nat
    BY StreamAssumption DEF InvType, TypeOK
  <2>2. frames \in Nat /\ spoiled \in Nat
    BY <2>1
  <2>3. frames' \in Nat /\ spoiled' \in Nat
    BY <2>1
  <2>4. \A a \in Nat, b \in Nat : (IF b = 0 THEN a ELSE b - 1) \in Nat
    OBVIOUS
  <2>5. Good \in Nat
    BY <2>2, <2>4, Zenon DEF Good
  <2>6. Good' \in Nat
    BY <2>3, <2>4, Zenon DEF Good
  <2>7. QED BY <2>5, <2>6
<1>3. InvType'
  <2>1. wire' \in Seq(Cells)
    BY <1>1 DEF InvType
  <2>2. TypeOK'
    BY <1>1 DEF InvType, TypeOK
  <2>3. QED BY <1>1, <2>1, <2>2 DEF InvType
<1>4. Stream \in Seq(Cells) /\ Stream' = Stream \o x
  <2>1. got \in Seq(Cells) /\ wire \in Seq(Cells)
    BY DEF InvType
  <2>2. got \o (wire \o x) = (got \o wire) \o x
    BY <2>1, Regrouped
  <2>3. QED BY <1>1, <2>1, <2>2 DEF Stream
<1>5. InvSent'
  <2>1. SUFFICES ASSUME spoiled # 0, pc = "read"
                 PROVE  Begins(Stream', conn, Good') /\ NoFrameAt(Stream', 4 * Good') /\ spoiled' # 0
    BY <1>1 DEF InvSent
  <2>2. Good' = Good /\ spoiled' = spoiled
    BY <2>1 DEF Good
  <2>3. Begins(Stream, conn, Good) /\ NoFrameAt(Stream, 4 * Good)
    BY <2>1 DEF InvSent
  <2>4. 4 * Good \in Nat
    BY <1>2
  <2>5. QED BY <1>2, <1>4, <2>1, <2>2, <2>3, <2>4, BeginsStays, NoFrameStays
<1>6. InvTaken'
  <2>1. Len(forwarded') <= Good'
    <3>1. Len(forwarded) \in Nat /\ Len(forwarded) <= Good
      BY DEF InvType, InvTaken
    <3>2. QED BY <1>1, <1>2, <3>1
  <2>2. ASSUME pc = "failed" PROVE spoiled' # 0 /\ Len(forwarded') = Good'
    BY <1>1, <2>2 DEF InvTaken, Good
  <2>3. \A i \in 1 .. Len(forwarded) : forwarded[i] = Payload(conn, i)
    BY DEF InvTaken
  <2>4. \A i \in 1 .. Len(forwarded) : Payload(conn, i)' = Payload(conn, i)
    BY <1>1 DEF Payload, Wire
  <2>5. QED BY <1>1, <2>1, <2>2, <2>3, <2>4 DEF InvTaken
<1>7. QED BY <1>3, <1>5, <1>6

LEMMA SendFrameKeeps == ASSUME IInv, SendFrame PROVE IInv'
<1> USE DEF IInv
<1> DEFINE x == Wire(conn, frames + 1)
<1>1. /\ ~cut /\ frames < MaxFrames /\ Driver!DeviceSends(x) /\ frames' = frames + 1
      /\ honest' = honest /\ conn' = conn /\ spoiled' = spoiled /\ cut' = cut /\ worker' = worker
      /\ got' = got /\ wire' = wire \o x /\ pc' = pc
  BY DEF SendFrame, Ready, Driver!DeviceSends, worker
<1>2. /\ frames \in Nat /\ spoiled \in 0 .. frames /\ conn \in Nat /\ cut \in BOOLEAN
      /\ MaxFrames \in Nat
  BY StreamAssumption DEF InvType, TypeOK
<1>3. /\ x \in Seq(Cells) /\ Len(x) >= 4 /\ Len(x) <= 4 /\ x[1].mark # "footer"
  <2>1. frames + 1 \in Nat
    BY <1>2
  <2>2. QED BY <1>2, <2>1, WireShape
<1>4. ASSUME spoiled = 0, pc = "read"
      PROVE  Begins(Stream', conn, frames + 1) /\ Len(Stream') <= 4 * (frames + 1)
  <2>1. Begins(Stream, conn, frames) /\ Len(Stream) <= 4 * frames
    BY <1>1, <1>4 DEF InvSent, Good
  <2>2. got \in Seq(Cells) /\ wire \in Seq(Cells) /\ Stream \in Seq(Cells)
    BY DEF InvType, Stream
  <2> HIDE DEF x
  <2>3. Stream' = Stream \o x
    BY <1>1, <1>3, <2>2, Regrouped DEF Stream
  <2>4. Len(Stream) >= 4 * frames /\ Len(Stream) = 4 * frames
    BY <1>2, <2>1, <2>2 DEF Begins
  <2>5. Len(Stream \o x) = Len(Stream) + Len(x)
    BY <1>3, <2>2, Behind
  <2>6. Begins(Stream \o x, conn, frames)
    BY <1>2, <1>3, <2>1, <2>2, BeginsStays
  <2>7. ASSUME NEW n \in 1 .. frames + 1, NEW j \in 1 .. 4
        PROVE  (Stream \o x)[4 * (n - 1) + j] = Wire(conn, n)[j]
    <3>1. CASE n \in 1 .. frames
      BY <2>6, <3>1 DEF Begins
    <3>2. CASE n = frames + 1
      <4>1. j \in 1 .. Len(x) /\ 4 * (n - 1) + j = Len(Stream) + j
        BY <1>2, <1>3, <2>4, <3>2
      <4>2. (Stream \o x)[Len(Stream) + j] = x[j]
        BY <1>3, <2>2, <4>1, Behind
      <4>3. QED BY <3>2, <4>1, <4>2 DEF x
    <3>3. n \in 1 .. frames \/ n = frames + 1
      BY <1>2
    <3>4. QED BY <3>1, <3>2, <3>3
  <2>8. Len(Stream \o x) >= 4 * (frames + 1) /\ Len(Stream \o x) <= 4 * (frames + 1)
    BY <1>2, <1>3, <2>4, <2>5
  <2>9. QED BY <2>3, <2>7, <2>8 DEF Begins
<1>5. ASSUME spoiled = 0 PROVE InvSent'
  <2>1. SUFFICES ASSUME pc = "read"
                 PROVE  /\ Begins(Stream', conn, frames + 1)
                        /\ Len(Stream') < 4 * (frames + 1) + 4 /\ Len(Stream') <= 4 * (frames + 1)
    BY <1>1, <1>5 DEF InvSent, Good
  <2>2. Begins(Stream', conn, frames + 1) /\ Len(Stream') <= 4 * (frames + 1)
    BY <1>4, <1>5, <2>1
  <2>3. Len(Stream') \in Nat
    <3>1. Stream' \in Seq(Cells)
      BY <1>1, <1>3 DEF Stream, InvType
    <3>2. QED BY <3>1
  <2>4. QED BY <1>2, <2>2, <2>3
<1>6. Good <= Good'
  BY <1>1, <1>2 DEF Good
<1>7. frames' \in 0 .. MaxFrames /\ spoiled' \in 0 .. frames' /\ cut' \in BOOLEAN
  BY <1>1, <1>2
<1>8. UNCHANGED <<honest, conn, worker>> /\ (spoiled # 0 => spoiled' = spoiled) /\ Len(x) >= 1
  BY <1>1, <1>3
<1> HIDE DEF x
<1>9. QED BY <1>1, <1>3, <1>5, <1>6, <1>7, <1>8, PieceKeeps

LEMMA SendMalformedKeeps == ASSUME IInv, SendMalformed PROVE IInv'
<1> USE DEF IInv
<1>1. PICK m \in Malformed(conn, frames + 1) : Driver!DeviceSends(m)
  BY DEF SendMalformed
<1>2. /\ ~cut /\ frames < MaxFrames /\ frames' = frames + 1
      /\ spoiled' = IF spoiled = 0 THEN frames + 1 ELSE spoiled
      /\ honest' = honest /\ conn' = conn /\ cut' = cut /\ worker' = worker
      /\ got' = got /\ wire' = wire \o m /\ pc' = pc
  BY <1>1 DEF SendMalformed, Ready, Driver!DeviceSends, worker
<1>3. /\ frames \in Nat /\ spoiled \in 0 .. frames /\ conn \in Nat /\ cut \in BOOLEAN
      /\ MaxFrames \in Nat
  BY StreamAssumption DEF InvType, TypeOK
<1>4. /\ m \in Seq(Cells) /\ Len(m) >= 3 /\ m[1].mark # "footer"
      /\ m[1].mark # "header" \/ m[2].mark # "board" \/ (Len(m) > 3 => m[4].mark # "footer")
  BY <1>3, MalformedShape
<1>5. ASSUME spoiled = 0, pc = "read"
      PROVE  Begins(Stream', conn, frames) /\ NoFrameAt(Stream', 4 * frames)
  <2>1. Begins(Stream, conn, frames) /\ Len(Stream) <= 4 * frames
    BY <1>2, <1>5 DEF InvSent, Good
  <2>2. got \in Seq(Cells) /\ wire \in Seq(Cells) /\ Stream \in Seq(Cells)
    BY DEF InvType, Stream
  <2>3. Stream' = Stream \o m
    BY <1>2, <1>4, <2>2, Regrouped DEF Stream
  <2>4. Len(Stream) = 4 * frames
    BY <1>3, <2>1, <2>2 DEF Begins
  <2>5. Len(Stream \o m) = Len(Stream) + Len(m) /\ Len(m) \in Nat
    BY <1>4, <2>2, Behind
  <2>6. Begins(Stream \o m, conn, frames)
    BY <1>3, <1>4, <2>1, <2>2, BeginsStays
  <2>7. (Stream \o m)[4 * frames + 1] = m[1] /\ (Stream \o m)[4 * frames + 2] = m[2]
    <3>1. 1 \in 1 .. Len(m) /\ 2 \in 1 .. Len(m)
      BY <1>4, <2>5
    <3>2. QED BY <1>4, <2>2, <2>4, <3>1, Behind
  <2>8. Len(m) > 3 => (Stream \o m)[4 * frames + 4] = m[4]
    <3>1. Len(m) > 3 => 4 \in 1 .. Len(m)
      BY <2>5
    <3>2. QED BY <1>4, <2>2, <2>4, <3>1, Behind
  <2>9. Len(Stream \o m) >= 4 * frames + 3 /\ (Len(Stream \o m) > 4 * frames + 3 => Len(m) > 3)
    BY <1>3, <1>4, <2>4, <2>5
  <2>10. NoFrameAt(Stream \o m, 4 * frames)
    BY <1>4, <2>7, <2>8, <2>9 DEF NoFrameAt
  <2>11. QED BY <2>3, <2>6, <2>10
<1>6. ASSUME spoiled = 0 PROVE InvSent'
  <2>1. spoiled' = frames + 1 /\ spoiled' # 0 /\ Good' = frames
    BY <1>2, <1>3, <1>6 DEF Good
  <2>2. QED BY <1>2, <1>5, <1>6, <2>1 DEF InvSent
<1>7. Good <= Good'
  BY <1>2, <1>3 DEF Good
<1>8. frames' \in 0 .. MaxFrames /\ spoiled' \in 0 .. frames' /\ cut' \in BOOLEAN
  BY <1>2, <1>3
<1>9. UNCHANGED <<honest, conn, worker>> /\ (spoiled # 0 => spoiled' = spoiled) /\ Len(m) >= 1
  BY <1>2, <1>4
<1>10. QED BY <1>1, <1>4, <1>6, <1>7, <1>8, <1>9, PieceKeeps

LEMMA SendPartKeeps == ASSUME IInv, SendPart PROVE IInv'
<1> USE DEF IInv
<1>0. F = 4
  BY DEF F, Layout
<1>1. PICK n \in 1 .. 3 : Driver!DeviceSends(SubSeq(Wire(conn, frames + 1), 1, n))
  BY <1>0 DEF SendPart
<1> DEFINE w == Wire(conn, frames + 1)  x == SubSeq(w, 1, n)
<1>2. /\ ~cut /\ cut' = TRUE /\ frames' = frames /\ spoiled' = spoiled
      /\ honest' = honest /\ conn' = conn /\ worker' = worker
      /\ got' = got /\ wire' = wire \o x /\ pc' = pc
  BY <1>1 DEF SendPart, Driver!DeviceSends, worker
<1>3. /\ frames \in Nat /\ frames <= MaxFrames /\ spoiled \in 0 .. frames /\ conn \in Nat
      /\ MaxFrames \in Nat
  BY StreamAssumption DEF InvType, TypeOK
<1>4. /\ x \in Seq(Cells) /\ Len(x) = n /\ x[1].mark # "footer"
  <2>1. w \in Seq(Cells) /\ Len(w) >= 4 /\ w[1].mark = "header"
    <3>1. frames + 1 \in Nat
      BY <1>3
    <3>2. QED BY <1>3, <3>1, WireShape
  <2> HIDE DEF w
  <2>2. x \in Seq(Cells) /\ Len(x) = n /\ x[1] = w[1]
    BY <2>1
  <2>3. QED BY <2>1, <2>2
<1> HIDE DEF x
<1>5. ASSUME spoiled = 0 PROVE InvSent'
  <2>1. SUFFICES ASSUME pc = "read"
                 PROVE  Begins(Stream', conn, frames) /\ Len(Stream') < 4 * frames + 4
    BY <1>2, <1>5 DEF InvSent, Good
  <2>2. Begins(Stream, conn, frames) /\ Len(Stream) <= 4 * frames
    BY <1>2, <1>5, <2>1 DEF InvSent, Good
  <2>3. got \in Seq(Cells) /\ wire \in Seq(Cells) /\ Stream \in Seq(Cells)
    BY DEF InvType, Stream
  <2>4. Stream' = Stream \o x
    BY <1>2, <1>4, <2>3, Regrouped DEF Stream
  <2>5. Len(Stream \o x) = Len(Stream) + n
    BY <1>4, <2>3, Behind
  <2>6. Begins(Stream \o x, conn, frames)
    BY <1>3, <1>4, <2>2, <2>3, BeginsStays
  <2>7. QED BY <1>3, <2>2, <2>3, <2>4, <2>5, <2>6
<1>6. Good <= Good'
  BY <1>2, <1>3 DEF Good
<1>7. frames' \in 0 .. MaxFrames /\ spoiled' \in 0 .. frames' /\ cut' \in BOOLEAN
  BY <1>2, <1>3
<1>8. /\ UNCHANGED <<honest, conn, worker>> /\ (spoiled # 0 => spoiled' = spoiled) /\ Len(x) >= 1
      /\ Driver!DeviceSends(x)
  BY <1>1, <1>2, <1>4 DEF x
<1>9. QED BY <1>4, <1>5, <1>6, <1>7, <1>8, PieceKeeps

LEMMA EndConnectionKeeps == ASSUME IInv, EndConnection PROVE IInv'
<1>1. /\ UNCHANGED <<sock, hup, wire, got, conn, honest, frames, spoiled, cut, buffer, pc, forwarded>>
      /\ peer' \in {"closed", "reset"}
  BY DEF EndConnection, Driver!DeviceEnds, device, worker
<1>2. InvType'
  BY <1>1 DEF IInv, InvType, TypeOK
<1>3. InvSent'
  <2>1. Stream' = Stream /\ Good' = Good
    BY <1>1 DEF Stream, Good
  <2>2. QED BY <1>1, <2>1 DEF IInv, InvSent
<1>4. InvTaken'
  BY <1>1 DEF IInv, InvTaken, Good, Payload, Wire
<1>5. QED BY <1>2, <1>3, <1>4 DEF IInv

-----------------------------------------------------------------------------
(* The validator.                                                          *)

\* At most one frame ends in what one call of Feed sees.
LEMMA WholeFrames ==
  ASSUME NEW buf \in Seq(Cells), Len(buf) <= 6
  PROVE  /\ F = 4
         /\ Len(buf) < 4 => Whole(buf) = 0
         /\ Len(buf) >= 4 => Whole(buf) = 1
<1>1. F = 4
  BY DEF F, Layout
<1>2. Len(buf) \in Nat
  OBVIOUS
<1> DEFINE l == Len(buf)  q == l \div 4  r == l % 4
<1>3. q \in Nat /\ r \in 0 .. 3 /\ l = 4 * q + r
  <2>1. 4 \in Nat \ {0}
    OBVIOUS
  <2>2. l \div 4 \in Nat /\ l % 4 \in 0 .. 4 - 1 /\ l = 4 * (l \div 4) + (l % 4)
    BY <1>2, <2>1, DivMod, Zenon
  <2>3. QED BY <2>2
<1> HIDE DEF q, r
<1>4. (l < 4 => q = 0) /\ (l >= 4 => q = 1)
  BY <1>2, <1>3
<1>5. Whole(buf) = q
  BY <1>1 DEF Whole, q
<1>6. QED BY <1>1, <1>4, <1>5

LEMMA FeedShort ==
  ASSUME NEW buf \in Seq(Cells), Len(buf) < 4, forwarded \in Seq(Seq(Cells)), Feed(buf)
  PROVE  buffer' = buf /\ forwarded' = forwarded /\ pc' = pc
<1>1. F = 4 /\ Whole(buf) = 0
  BY WholeFrames
<1>2. Bad(buf) = {}
  BY <1>1 DEF Bad
<1>3. /\ buffer' = SubSeq(buf, Whole(buf) * F + 1, Len(buf))
      /\ forwarded' = forwarded \o [i \in 1 .. Whole(buf) |-> SubSeq(Place(buf, i), 2, 3)]
      /\ pc' = pc
  BY <1>2 DEF Feed
<1>4. [i \in 1 .. Whole(buf) |-> SubSeq(Place(buf, i), 2, 3)] = <<>>
  BY <1>1
<1>5. Whole(buf) * F + 1 = 1
  BY <1>1
<1>6. SubSeq(buf, 1, Len(buf)) = buf
  OBVIOUS
<1>7. forwarded \o <<>> = forwarded
  OBVIOUS
<1>8. QED BY <1>3, <1>4, <1>5, <1>6, <1>7

\* The first frame's place in the buffer.
LEMMA FirstPlace ==
  ASSUME NEW buf \in Seq(Cells), Len(buf) >= 4, Len(buf) <= 6
  PROVE  /\ F = 4 /\ Whole(buf) = 1 /\ Place(buf, 1) = SubSeq(buf, 1, 4)
         /\ Place(buf, 1) \in Seq(Cells)
         /\ \A j \in 1 .. 4 : Place(buf, 1)[j] = buf[j]
<1>1. F = 4 /\ Whole(buf) = 1
  BY WholeFrames
<1>2. Place(buf, 1) = SubSeq(buf, 1, 4)
  BY <1>1 DEF Place
<1>3. SubSeq(buf, 1, 4) \in Seq(Cells) /\ \A j \in 1 .. 4 : SubSeq(buf, 1, 4)[j] = buf[j]
  OBVIOUS
<1>4. QED BY <1>1, <1>2, <1>3

LEMMA FeedGood ==
  ASSUME NEW buf \in Seq(Cells), Len(buf) >= 4, Len(buf) <= 6,
         buf[1].mark = "header", buf[2].mark = "board", buf[4].mark = "footer", Feed(buf)
  PROVE  /\ buffer' = SubSeq(buf, 5, Len(buf)) /\ pc' = pc
         /\ forwarded' = forwarded \o <<SubSeq(SubSeq(buf, 1, 4), 2, 3)>>
<1>1. /\ F = 4 /\ Whole(buf) = 1 /\ Place(buf, 1) = SubSeq(buf, 1, 4)
      /\ \A j \in 1 .. 4 : Place(buf, 1)[j] = buf[j]
  BY FirstPlace
<1>2. WellFormed(Place(buf, 1))
  BY <1>1 DEF WellFormed, Layout
<1>3. Bad(buf) = {}
  BY <1>1, <1>2 DEF Bad
<1>4. /\ buffer' = SubSeq(buf, Whole(buf) * F + 1, Len(buf))
      /\ forwarded' = forwarded \o [i \in 1 .. Whole(buf) |-> SubSeq(Place(buf, i), 2, 3)]
      /\ pc' = pc
  BY <1>3 DEF Feed
<1>5. [i \in 1 .. Whole(buf) |-> SubSeq(Place(buf, i), 2, 3)] = <<SubSeq(SubSeq(buf, 1, 4), 2, 3)>>
  <2>1. [i \in 1 .. Whole(buf) |-> SubSeq(Place(buf, i), 2, 3)]
          = [i \in 1 .. 1 |-> SubSeq(SubSeq(buf, 1, 4), 2, 3)]
    BY <1>1
  <2> DEFINE e == SubSeq(SubSeq(buf, 1, 4), 2, 3)
  <2> HIDE DEF e
  <2>2. [i \in 1 .. 1 |-> e] = <<e>>
    OBVIOUS
  <2>3. QED BY <2>1, <2>2 DEF e
<1>6. Whole(buf) * F + 1 = 5
  BY <1>1
<1>7. QED BY <1>4, <1>5, <1>6

LEMMA FeedBad ==
  ASSUME NEW buf \in Seq(Cells), Len(buf) >= 4, Len(buf) <= 6,
         buf[1].mark # "header" \/ buf[2].mark # "board" \/ buf[4].mark # "footer", Feed(buf)
  PROVE  buffer' \in Seq(Cells) /\ pc' = "failed" /\ forwarded' = forwarded
<1>1. F = 4 /\ Whole(buf) = 1 /\ \A j \in 1 .. 4 : Place(buf, 1)[j] = buf[j]
  BY FirstPlace
<1>2. ~WellFormed(Place(buf, 1))
  BY <1>1 DEF WellFormed, Layout
<1>3. Bad(buf) = {1}
  BY <1>1, <1>2 DEF Bad
<1>4. /\ \E i \in Bad(buf) : buffer' = SubSeq(buf, (i - 1) * F + 1, Len(buf))
      /\ pc' = "failed" /\ forwarded' = forwarded
  BY <1>3 DEF Feed
<1>5. buffer' = SubSeq(buf, 1, Len(buf))
  BY <1>1, <1>3, <1>4
<1>6. SubSeq(buf, 1, Len(buf)) \in Seq(Cells)
  OBVIOUS
<1>7. QED BY <1>4, <1>5, <1>6

-----------------------------------------------------------------------------
(* The worker.                                                             *)

LEMMA ConnectKeeps == ASSUME IInv, Connect PROVE IInv'
<1>1. /\ pc = "connect" /\ conn < MaxConnections /\ sock' = TRUE /\ peer' = "up"
      /\ wire' = <<>> /\ got' = <<>> /\ hup' = hup /\ pc' = "read" /\ conn' = conn + 1
      /\ frames' = 0 /\ spoiled' = 0 /\ cut' = FALSE /\ forwarded' = <<>>
      /\ honest' = honest /\ buffer' = buffer
  BY DEF Connect, Driver!ConnectDevice
<1>2. buffer = <<>>
  BY <1>1 DEF IInv, InvTaken
<1>3. InvType'
  <2>1. /\ sock \in BOOLEAN /\ hup \in BOOLEAN /\ honest \in BOOLEAN /\ conn \in 0 .. MaxConnections
        /\ frames \in 0 .. MaxFrames /\ spoiled \in 0 .. frames /\ cut \in BOOLEAN
    BY DEF IInv, InvType, TypeOK
  <2>2. F = 4 /\ MaxConnections \in Nat /\ MaxFrames \in Nat
    BY StreamAssumption DEF F, Layout
  <2>3. conn' \in 0 .. MaxConnections /\ frames' \in 0 .. MaxFrames /\ spoiled' \in 0 .. frames'
    BY <1>1, <2>1, <2>2
  <2>4. pc' \in {"read", "failed"} <=> sock'
    BY <1>1
  <2>5. Len(buffer') < F
    BY <1>1, <1>2, <2>2
  <2>6. TypeOK'
    BY <1>1, <2>1, <2>3, <2>4, <2>5 DEF TypeOK
  <2>7. QED BY <1>1, <1>2, <2>6 DEF InvType
<1>4. Stream' = <<>> /\ Good' = 0
  BY <1>1 DEF Stream, Good
<1>5. InvSent'
  BY <1>1, <1>4 DEF InvSent, Begins
<1>6. InvTaken'
  BY <1>1, <1>2, <1>4 DEF InvTaken, EndOf, Within
<1>7. QED BY <1>3, <1>5, <1>6 DEF IInv

LEMMA LoseLinkKeeps == ASSUME IInv, LoseLink PROVE IInv'
<1>1. /\ pc = "read" /\ pc' = "connect" /\ sock' = FALSE /\ peer' = "none" /\ wire' = <<>>
      /\ UNCHANGED <<hup, got, conn, honest, frames, spoiled, cut, forwarded>> /\ buffer' = <<>>
  BY DEF LoseLink, Driver!DisconnectDevice, Reset, device
<1>2. InvType'
  <2>1. F = 4
    BY DEF F, Layout
  <2>2. Len(buffer') < 4 /\ buffer' \in Seq(Cells) /\ wire' \in Seq(Cells)
    BY <1>1
  <2>3. /\ sock \in BOOLEAN /\ hup \in BOOLEAN /\ honest \in BOOLEAN /\ conn \in 0 .. MaxConnections
        /\ frames \in 0 .. MaxFrames /\ spoiled \in 0 .. frames /\ cut \in BOOLEAN
    BY DEF IInv, InvType, TypeOK
  <2>4. pc' \in {"read", "failed"} <=> sock'
    BY <1>1
  <2>5. TypeOK'
    BY <1>1, <2>1, <2>2, <2>3, <2>4 DEF TypeOK
  <2>6. QED BY <1>1, <2>2, <2>5 DEF IInv, InvType
<1>3. InvSent'
  BY <1>1 DEF InvSent
<1>4. InvTaken'
  BY <1>1 DEF IInv, InvTaken, Good, Payload, Wire
<1>5. QED BY <1>2, <1>3, <1>4 DEF IInv

LEMMA ReturnKeeps == ASSUME IInv, Return PROVE IInv'
<1>1. /\ pc = "failed" /\ pc' = "gone" /\ sock' = FALSE /\ peer' = "none" /\ wire' = <<>>
      /\ UNCHANGED <<hup, got, conn, honest, frames, spoiled, cut, forwarded, buffer>>
  BY DEF Return, Driver!DisconnectDevice, device
<1>2. InvType'
  <2>1. /\ sock \in BOOLEAN /\ hup \in BOOLEAN /\ honest \in BOOLEAN /\ conn \in 0 .. MaxConnections
        /\ frames \in 0 .. MaxFrames /\ spoiled \in 0 .. frames /\ cut \in BOOLEAN
    BY DEF IInv, InvType, TypeOK
  <2>2. pc' \in {"read", "failed"} <=> sock'
    BY <1>1
  <2>3. TypeOK'
    BY <1>1, <2>1, <2>2 DEF TypeOK
  <2>4. wire' \in Seq(Cells)
    BY <1>1
  <2>5. QED BY <1>1, <2>3, <2>4 DEF IInv, InvType
<1>3. InvSent'
  BY <1>1 DEF InvSent
<1>4. InvTaken'
  BY <1>1 DEF IInv, InvTaken, Good, Payload, Wire
<1>5. QED BY <1>2, <1>3, <1>4 DEF IInv

\* A sequence is what is taken off its front and the rest.
LEMMA CutAt ==
  ASSUME NEW s \in Seq(Cells), NEW n \in Nat, n <= Len(s)
  PROVE  /\ SubSeq(s, 1, n) \in Seq(Cells) /\ Len(SubSeq(s, 1, n)) = n
         /\ SubSeq(s, n + 1, Len(s)) \in Seq(Cells)
         /\ SubSeq(s, 1, n) \o SubSeq(s, n + 1, Len(s)) = s
<1>1. /\ SubSeq(s, 1, n) \in Seq(Cells) /\ Len(SubSeq(s, 1, n)) = n
      /\ SubSeq(s, n + 1, Len(s)) \in Seq(Cells)
  OBVIOUS
<1>2. SubSeq(s, 1, n) \o SubSeq(s, n + 1, Len(s)) = SubSeq(s, 1, Len(s))
  <2>1. 1 \in 1 .. Len(s) + 1 /\ n \in 1 - 1 .. Len(s) /\ Len(s) \in n .. Len(s)
    OBVIOUS
  <2>2. QED BY <2>1, ConcatAdjacentSubSeq, Zenon
<1>3. SubSeq(s, 1, Len(s)) = s
  BY SubSeqFull, Zenon
<1>4. QED BY <1>1, <1>2, <1>3

\* The rest of a sequence.
LEMMA RestAfter ==
  ASSUME NEW s \in Seq(Cells), NEW n \in Nat, n <= Len(s)
  PROVE  /\ SubSeq(s, n + 1, Len(s)) \in Seq(Cells)
         /\ Len(SubSeq(s, n + 1, Len(s))) = Len(s) - n
         /\ \A j \in 1 .. Len(s) - n : SubSeq(s, n + 1, Len(s))[j] = s[n + j]
<1>1. Len(s) \in Nat
  OBVIOUS
<1>2. \A i \in n + 1 .. Len(s) : s[i] \in Cells
  OBVIOUS
<1>3. /\ SubSeq(s, n + 1, Len(s)) \in Seq(Cells)
      /\ Len(SubSeq(s, n + 1, Len(s))) = IF n + 1 <= Len(s) THEN Len(s) - (n + 1) + 1 ELSE 0
  OBVIOUS
<1>4. \A j \in 1 .. Len(s) - n : SubSeq(s, n + 1, Len(s))[j] = s[n + j]
  OBVIOUS
<1>5. QED BY <1>1, <1>3, <1>4

\* A piece x moves from the front of the wire to the end of what was read (g) and of
\* the buffer (b): the buffer stays the end of what was read.
LEMMA BothGrow ==
  ASSUME NEW g \in Seq(Cells), NEW b \in Seq(Cells), NEW x \in Seq(Cells), NEW r \in Seq(Cells),
         NEW k \in Nat, EndOf(b, g, k)
  PROVE  /\ g \o x \in Seq(Cells) /\ b \o x \in Seq(Cells) /\ g \o (x \o r) \in Seq(Cells)
         /\ Len(b \o x) = Len(b) + Len(x) /\ EndOf(b \o x, g \o x, k)
         /\ Len(g \o x) <= Len(g \o (x \o r))
         /\ Within(b \o x, g \o (x \o r), k)
<1>1. /\ Len(g) \in Nat /\ Len(b) \in Nat /\ Len(x) \in Nat /\ Len(r) \in Nat
      /\ Len(g) = k + Len(b) /\ \A j \in 1 .. Len(b) : b[j] = g[k + j]
  BY DEF EndOf, Within
<1>2. g \o x \in Seq(Cells) /\ b \o x \in Seq(Cells) /\ g \o (x \o r) \in Seq(Cells)
  OBVIOUS
<1>3. Len(g \o x) = Len(g) + Len(x) /\ Len(b \o x) = Len(b) + Len(x)
  BY Behind, Zenon
<1>4. g \o (x \o r) = (g \o x) \o r
  BY Regrouped, Zenon
<1>5. /\ Len((g \o x) \o r) = Len(g \o x) + Len(r)
      /\ \A i \in 1 .. Len(g \o x) : ((g \o x) \o r)[i] = (g \o x)[i]
  BY <1>2, Behind, Zenon
<1>6. ASSUME NEW j \in 1 .. Len(b \o x) PROVE (b \o x)[j] = (g \o x)[k + j]
  <2>1. CASE j \in 1 .. Len(b)
    <3>1. k + j \in 1 .. Len(g)
      BY <1>1, <2>1
    <3>2. (b \o x)[j] = b[j] /\ (g \o x)[k + j] = g[k + j]
      BY <2>1, <3>1, Behind, Zenon
    <3>3. QED BY <1>1, <2>1, <3>2
  <2>2. CASE j \notin 1 .. Len(b)
    <3> DEFINE i == j - Len(b)
    <3>1. i \in 1 .. Len(x) /\ j = Len(b) + i /\ k + j = Len(g) + i
      BY <1>1, <1>3, <2>2
    <3> HIDE DEF i
    <3>2. (b \o x)[Len(b) + i] = x[i] /\ (g \o x)[Len(g) + i] = x[i]
      BY <3>1, Behind, Zenon
    <3>3. QED BY <3>1, <3>2, Zenon
  <2>3. QED BY <2>1, <2>2
<1>7. Len(g \o x) = k + Len(b \o x)
  BY <1>1, <1>3
<1>8. ASSUME NEW j \in 1 .. Len(b \o x)
      PROVE  (b \o x)[j] = (g \o (x \o r))[k + j]
  <2>1. k + j \in 1 .. Len(g \o x)
    <3>1. Len(b \o x) \in Nat
      BY <1>1, <1>3
    <3>2. QED BY <1>7, <3>1
  <2>2. QED BY <1>4, <1>5, <1>6, <2>1, Zenon
<1>9. Len(g \o x) <= Len(g \o (x \o r))
  <2>1. Len(g \o x) \in Nat
    BY <1>1, <1>3
  <2>2. QED BY <1>1, <1>4, <1>5, <2>1
<1>10. QED BY <1>2, <1>3, <1>6, <1>7, <1>8, <1>9 DEF EndOf, Within

\* A good frame is handed on, and what is behind it begins where a frame begins.
LEMMA ReadGood ==
  ASSUME IInv, pc = "read", NEW buf \in Seq(Cells), Len(buf) >= 4, Len(buf) <= 6, Feed(buf),
         UNCHANGED <<conn, Good>>, Len(forwarded) < Good, got' \in Seq(Cells),
         EndOf(buf, got', 4 * Len(forwarded)),
         Within(buf, Stream, 4 * Len(forwarded))
  PROVE  /\ InvTaken' /\ pc' = "read" /\ buffer' \in Seq(Cells) /\ Len(buffer') < 4
         /\ forwarded' \in Seq(Seq(Cells))
<1> DEFINE f == Len(forwarded)  w == Wire(conn, f + 1)  e == SubSeq(SubSeq(buf, 1, 4), 2, 3)
<1>1. /\ f \in Nat /\ forwarded \in Seq(Seq(Cells)) /\ conn \in Nat /\ Good \in Int
      /\ \A i \in 1 .. f : forwarded[i] = Payload(conn, i)
  <2>1. conn \in 0 .. MaxConnections /\ MaxConnections \in Nat
    BY StreamAssumption DEF IInv, InvType, TypeOK
  <2>2. frames \in 0 .. MaxFrames /\ spoiled \in 0 .. frames /\ MaxFrames \in Nat
    BY StreamAssumption DEF IInv, InvType, TypeOK
  <2>3. Good \in Int
    <3>1. frames \in Nat /\ spoiled \in Nat
      BY <2>2
    <3>2. \A a \in Nat, b \in Nat : (IF b = 0 THEN a ELSE b - 1) \in Int
      OBVIOUS
    <3>3. QED BY <3>1, <3>2, Zenon DEF Good
  <2>4. forwarded \in Seq(Seq(Cells)) /\ \A i \in 1 .. f : forwarded[i] = Payload(conn, i)
    BY DEF IInv, InvType, InvTaken
  <2>5. QED BY <2>1, <2>3, <2>4
<1>2. \A j \in 1 .. 4 : buf[j] = w[j]
  <2>1. Begins(Stream, conn, Good) /\ f + 1 \in 1 .. Good
    BY <1>1 DEF IInv, InvSent
  <2>2. ASSUME NEW j \in 1 .. 4 PROVE buf[j] = w[j]
    <3>1. Stream[4 * ((f + 1) - 1) + j] = Wire(conn, f + 1)[j]
      BY <2>1 DEF Begins
    <3>2. 4 * ((f + 1) - 1) + j = 4 * f + j /\ j \in 1 .. Len(buf)
      BY <1>1
    <3>3. QED BY <3>1, <3>2 DEF Within
  <2>3. QED BY <2>2
<1>3. /\ w \in Seq(Cells) /\ Len(w) >= 4 /\ Len(w) <= 4
      /\ w[1].mark = "header" /\ w[2].mark = "board" /\ w[4].mark = "footer"
  <2>1. f + 1 \in Nat
    BY <1>1
  <2>2. QED BY <1>1, <2>1, WireShape
<1> HIDE DEF w
<1>4. /\ buffer' = SubSeq(buf, 5, Len(buf)) /\ pc' = pc /\ forwarded' = forwarded \o <<e>>
  <2>1. buf[1].mark = "header" /\ buf[2].mark = "board" /\ buf[4].mark = "footer"
    BY <1>2, <1>3
  <2>2. QED BY <2>1, FeedGood
<1>5. e = Payload(conn, f + 1) /\ e \in Seq(Cells)
  <2>1. SubSeq(buf, 1, 4) = w
    <3> DEFINE b == SubSeq(buf, 1, 4)
    <3>1. b \in Seq(Cells) /\ Len(b) >= 4 /\ Len(b) <= 4 /\ \A j \in 1 .. 4 : b[j] = buf[j]
      OBVIOUS
    <3> HIDE DEF b
    <3>2. Len(b) = Len(w)
      BY <1>3, <3>1
    <3>3. ASSUME NEW j \in 1 .. Len(b) PROVE b[j] = w[j]
      <4>1. j \in 1 .. 4
        BY <3>1
      <4>2. QED BY <1>2, <3>1, <4>1, Zenon
    <3>4. b = w
      BY <1>3, <3>1, <3>2, <3>3, SeqEqual, Zenon
    <3>5. QED BY <3>4 DEF b
  <2>2. SubSeq(w, 2, 3) \in Seq(Cells)
    BY <1>3
  <2>3. QED BY <2>1, <2>2 DEF Payload, w
<1> HIDE DEF e
<1>6. /\ forwarded' \in Seq(Seq(Cells)) /\ Len(forwarded') = f + 1
      /\ \A i \in 1 .. f : forwarded'[i] = forwarded[i]
      /\ forwarded'[f + 1] = e
  BY <1>1, <1>4, <1>5
<1>7. /\ buffer' \in Seq(Cells) /\ Len(buffer') = Len(buf) - 4
      /\ \A j \in 1 .. Len(buf) - 4 : buffer'[j] = buf[4 + j]
  <2>1. 4 \in Nat /\ 4 <= Len(buf) /\ 4 + 1 = 5
    OBVIOUS
  <2>2. buffer' = SubSeq(buf, 4 + 1, Len(buf))
    BY <1>4, <2>1, Zenon
  <2>3. QED BY <2>1, <2>2, RestAfter, Zenon
<1>8. ASSUME NEW i \in 1 .. f + 1 PROVE forwarded'[i] = Payload(conn, i)
  <2>1. i \in 1 .. f \/ i = f + 1
    BY <1>1
  <2>2. QED BY <1>1, <1>5, <1>6, <2>1
<1>9. Len(got') = 4 * (f + 1) + Len(buffer') /\ Len(buffer') < 4
  BY <1>1, <1>7 DEF EndOf, Within
<1>10. ASSUME NEW j \in 1 .. Len(buffer') PROVE buffer'[j] = got'[4 * (f + 1) + j]
  <2>1. j \in 1 .. Len(buf) - 4 /\ 4 + j \in 1 .. Len(buf) /\ 4 * f + (4 + j) = 4 * (f + 1) + j
    BY <1>1, <1>7
  <2>2. QED BY <1>7, <2>1 DEF EndOf, Within
<1>11. Len(forwarded') <= Good'
  BY <1>1, <1>6
<1>12. \A i \in 1 .. Len(forwarded') : Payload(conn, i)' = Payload(conn, i)
  BY DEF Payload, Wire
<1>13. InvTaken'
  <2>1. EndOf(buffer', got', 4 * Len(forwarded'))
    BY <1>6, <1>9, <1>10 DEF EndOf, Within
  <2>2. QED BY <1>4, <1>6, <1>8, <1>9, <1>11, <1>12, <2>1 DEF InvTaken
<1>14. QED BY <1>4, <1>6, <1>7, <1>9, <1>13

LEMMA ReadKeeps == ASSUME IInv, Read PROVE IInv'
<1>1. PICK n \in 1 .. Chunk : Driver!ReadOk(n) /\ Feed(buffer \o SubSeq(wire, 1, n))
  BY DEF Read
<1> DEFINE x == SubSeq(wire, 1, n)  buf == buffer \o x  f == Len(forwarded)
<1>2. /\ pc = "read" /\ got' = got \o x /\ wire' = SubSeq(wire, n + 1, Len(wire)) /\ Feed(buf)
      /\ n <= Len(wire)
      /\ UNCHANGED <<sock, peer, hup, conn, honest, frames, spoiled, cut>>
  BY <1>1 DEF Read, Driver!ReadOk, device
<1>3. n \in Nat /\ n <= 3
  <2>1. Chunk \in 1 .. F - 1 /\ F = 4
    BY StreamAssumption DEF F, Layout
  <2>2. QED BY <2>1
<1>4. /\ got \in Seq(Cells) /\ wire \in Seq(Cells) /\ buffer \in Seq(Cells)
      /\ forwarded \in Seq(Seq(Cells)) /\ f \in Nat /\ f <= Good
      /\ EndOf(buffer, got, 4 * f) /\ Len(buffer) < 4
  BY <1>2 DEF IInv, InvType, InvTaken
<1>5. x \in Seq(Cells) /\ Len(x) <= 3 /\ wire' \in Seq(Cells) /\ x \o wire' = wire
  <2>1. x \in Seq(Cells) /\ Len(x) = n /\ wire' \in Seq(Cells) /\ x \o wire' = wire
    BY <1>2, <1>3, <1>4, CutAt, Zenon
  <2>2. QED BY <1>3, <2>1
<1> HIDE DEF x
<1>6. /\ got' \in Seq(Cells) /\ buf \in Seq(Cells) /\ Stream \in Seq(Cells)
      /\ Len(buf) <= 6 /\ EndOf(buf, got', 4 * f) /\ Len(got') <= Len(Stream)
      /\ Within(buf, Stream, 4 * f)
  <2>1. Stream = got \o (x \o wire') /\ got' = got \o x
    BY <1>2, <1>5, Zenon DEF Stream
  <2>2. 4 * f \in Nat
    BY <1>4
  <2>3. /\ got \o x \in Seq(Cells) /\ buf \in Seq(Cells)
        /\ got \o (x \o wire') \in Seq(Cells)
        /\ Len(buf) = Len(buffer) + Len(x) /\ EndOf(buf, got \o x, 4 * f)
        /\ Len(got \o x) <= Len(got \o (x \o wire'))
        /\ Within(buf, got \o (x \o wire'), 4 * f)
    <3> DEFINE r == wire'  k == 4 * f
    <3>1. /\ got \in Seq(Cells) /\ buffer \in Seq(Cells) /\ x \in Seq(Cells) /\ r \in Seq(Cells)
          /\ k \in Nat /\ EndOf(buffer, got, k)
      BY <1>4, <1>5, <2>2
    <3> HIDE DEF r, k
    <3>2. /\ got \o x \in Seq(Cells) /\ buf \in Seq(Cells) /\ got \o (x \o r) \in Seq(Cells)
          /\ Len(buf) = Len(buffer) + Len(x) /\ EndOf(buf, got \o x, k)
          /\ Len(got \o x) <= Len(got \o (x \o r)) /\ Within(buf, got \o (x \o r), k)
      BY <3>1, BothGrow
    <3>3. QED BY <3>2, Zenon DEF r, k
  <2>4. Len(buf) <= 6
    <3>1. Len(buffer) \in Nat /\ Len(x) \in Nat
      BY <1>4, <1>5
    <3>2. QED BY <1>4, <1>5, <2>3, <3>1
  <2>5. QED BY <2>1, <2>3, <2>4, Zenon
<1>7. Stream' = Stream /\ Good' = Good
  <2>1. got \o (x \o wire') = (got \o x) \o wire'
    BY <1>4, <1>5, Regrouped, Zenon
  <2>2. Stream' = Stream
    BY <1>2, <1>5, <2>1, Zenon DEF Stream
  <2>3. QED BY <1>2, <2>2 DEF Good
<1> HIDE DEF buf
<1>8. InvSent'
  BY <1>2, <1>7 DEF IInv, InvSent
<1>9. ASSUME pc' \in {"read", "failed"}, buffer' \in Seq(Cells), pc' = "read" => Len(buffer') < 4,
             forwarded' \in Seq(Seq(Cells))
      PROVE  InvType'
  <2>1. F = 4
    BY DEF F, Layout
  <2>2. TypeOK'
    BY <1>2, <1>9, <2>1 DEF IInv, InvType, TypeOK
  <2>3. QED BY <1>5, <1>6, <1>9, <2>2 DEF InvType
<1>10. Len(buf) \in Nat /\ Len(got') \in Nat /\ Len(Stream) \in Nat
  BY <1>6
<1>11. CASE Len(buf) < 4
  <2>1. buffer' = buf /\ forwarded' = forwarded /\ pc' = pc
    BY <1>2, <1>4, <1>6, <1>11, FeedShort
  <2>2. Len(forwarded') <= Good' /\ EndOf(buffer', got', 4 * Len(forwarded'))
    BY <1>4, <1>6, <1>7, <2>1
  <2>3. \A i \in 1 .. Len(forwarded') : forwarded'[i] = Payload(conn, i)'
    BY <1>2, <2>1 DEF IInv, InvTaken, Payload, Wire
  <2>4. InvTaken'
    BY <1>2, <1>11, <2>1, <2>2, <2>3 DEF InvTaken
  <2>5. QED BY <1>2, <1>4, <1>6, <1>8, <1>9, <1>11, <2>1, <2>4 DEF IInv
<1>12. CASE Len(buf) >= 4 /\ f < Good
  <2>1. /\ InvTaken' /\ pc' = "read" /\ buffer' \in Seq(Cells) /\ Len(buffer') < 4
        /\ forwarded' \in Seq(Seq(Cells))
    BY <1>2, <1>6, <1>7, <1>12, ReadGood
  <2>2. QED BY <1>8, <1>9, <2>1 DEF IInv
<1>13. CASE Len(buf) >= 4 /\ f = Good
  <2>1. Len(Stream) >= 4 * Good + 4
    BY <1>4, <1>6, <1>10, <1>13 DEF EndOf, Within
  <2>2. spoiled # 0 /\ NoFrameAt(Stream, 4 * Good)
    <3>1. spoiled = 0 => Len(Stream) < 4 * Good + 4
      BY <1>2 DEF IInv, InvSent, Good
    <3>2. QED BY <1>2, <1>4, <1>10, <1>13, <2>1, <3>1 DEF IInv, InvSent
  <2>3. \A j \in 1 .. 4 : buf[j] = Stream[4 * Good + j]
    BY <1>6, <1>10, <1>13 DEF Within
  <2>4. buf[1].mark # "header" \/ buf[2].mark # "board" \/ buf[4].mark # "footer"
    <3>1. Len(Stream) > 4 * Good + 3
      BY <1>4, <1>10, <1>13, <2>1
    <3>2. QED BY <2>2, <2>3, <3>1 DEF NoFrameAt
  <2>5. buffer' \in Seq(Cells) /\ pc' = "failed" /\ forwarded' = forwarded
    BY <1>2, <1>6, <1>13, <2>4, FeedBad
  <2>6. \A i \in 1 .. Len(forwarded') : forwarded'[i] = Payload(conn, i)'
    BY <1>2, <2>5 DEF IInv, InvTaken, Payload, Wire
  <2>7. Len(forwarded') <= Good' /\ Len(forwarded') = Good' /\ spoiled' # 0
    BY <1>2, <1>4, <1>7, <1>13, <2>2, <2>5
  <2>8. InvTaken'
    BY <2>5, <2>6, <2>7 DEF InvTaken
  <2>9. QED BY <1>4, <1>8, <1>9, <2>5, <2>8 DEF IInv
<1>14. QED
  <2>1. Good \in Int
    <3>1. frames \in Int /\ spoiled \in Int
      BY DEF IInv, InvType, TypeOK
    <3>2. \A a \in Int, b \in Int : (IF b = 0 THEN a ELSE b - 1) \in Int
      OBVIOUS
    <3>3. QED BY <3>1, <3>2, Zenon DEF Good
  <2>2. Len(buf) < 4 \/ (Len(buf) >= 4 /\ f < Good) \/ (Len(buf) >= 4 /\ f = Good)
    BY <1>4, <1>10, <2>1
  <2>3. QED BY <1>11, <1>12, <1>13, <2>2

-----------------------------------------------------------------------------
(* The theorems.                                                           *)

LEMMA Begin == Init => IInv
<1>1. SUFFICES ASSUME Init PROVE IInv
  OBVIOUS
<1>2. /\ sock = FALSE /\ peer = "none" /\ hup \in BOOLEAN /\ wire = <<>> /\ got = <<>>
      /\ honest \in BOOLEAN /\ conn = 0 /\ frames = 0 /\ spoiled = 0 /\ cut = FALSE
      /\ buffer = <<>> /\ pc = "connect" /\ forwarded = <<>>
  BY <1>1 DEF Init, Driver!Init
<1>3. InvType
  <2>1. MaxFrames \in Nat /\ MaxConnections \in Nat /\ F = 4
    BY StreamAssumption DEF F, Layout
  <2>2. conn \in 0 .. MaxConnections /\ frames \in 0 .. MaxFrames /\ spoiled \in 0 .. frames
    BY <1>2, <2>1
  <2>3. Len(buffer) < F
    BY <1>2, <2>1
  <2>4. TypeOK
    BY <1>2, <2>2, <2>3 DEF TypeOK
  <2>5. QED BY <1>2, <2>4 DEF InvType
<1>4. InvSent /\ InvTaken
  BY <1>2 DEF InvSent, InvTaken, Good
<1>5. QED BY <1>3, <1>4 DEF IInv

LEMMA Step == IInv /\ [Next]_vars => IInv'
<1>1. SUFFICES ASSUME IInv, [Next]_vars PROVE IInv'
  OBVIOUS
<1>2. CASE SendFrame
  BY <1>1, <1>2, SendFrameKeeps
<1>3. CASE SendMalformed
  BY <1>1, <1>3, SendMalformedKeeps
<1>4. CASE SendPart
  BY <1>1, <1>4, SendPartKeeps
<1>5. CASE EndConnection
  BY <1>1, <1>5, EndConnectionKeeps
<1>6. CASE Connect
  BY <1>1, <1>6, ConnectKeeps
<1>7. CASE Read
  BY <1>1, <1>7, ReadKeeps
<1>8. CASE LoseLink
  BY <1>1, <1>8, LoseLinkKeeps
<1>9. CASE Return
  BY <1>1, <1>9, ReturnKeeps
<1>10. CASE UNCHANGED vars
  <2>1. UNCHANGED <<sock, peer, hup, wire, got, conn, honest, frames, spoiled, cut, buffer, pc, forwarded>>
    BY <1>10 DEF vars, driver, device, worker
  <2>2. InvType'
    BY <1>1, <2>1 DEF IInv, InvType, TypeOK
  <2>3. Stream' = Stream /\ Good' = Good
    BY <2>1 DEF Stream, Good
  <2>4. InvSent'
    BY <1>1, <2>1, <2>3 DEF IInv, InvSent
  <2>5. InvTaken'
    BY <1>1, <2>1, <2>3 DEF IInv, InvTaken, Payload, Wire
  <2>6. QED BY <2>2, <2>4, <2>5 DEF IInv
<1>11. QED
  BY <1>1, <1>2, <1>3, <1>4, <1>5, <1>6, <1>7, <1>8, <1>9, <1>10 DEF Next

\* The strengthened invariant holds in every state.
THEOREM StreamInductive == Spec => []IInv
BY Begin, Step, PTL DEF Spec

\* For any number of connections and frames, any malformed frame and any chunks:
\* frames handed on are the good ones, in order, at once, and up to the malformed
\* one, and only a malformed one fails the run (kc705_tof_validator.cpp:47,
\* daq_runtime.cpp:211 and 233).
THEOREM FramingCorrect == Spec => []FramingIsRight
<1>1. IInv => FramingIsRight
  <2>1. SUFFICES ASSUME IInv PROVE FramingIsRight
    OBVIOUS
  <2>2. /\ TypeOK /\ forwarded \in Seq(Seq(Cells)) /\ buffer \in Seq(Cells)
        /\ Len(forwarded) <= Good /\ \A i \in 1 .. Len(forwarded) : forwarded[i] = Payload(conn, i)
        /\ pc = "failed" => spoiled # 0 /\ Len(forwarded) = Good
    BY <2>1 DEF IInv, InvType, InvTaken
  <2>3. frames \in Nat /\ spoiled \in 0 .. frames /\ Len(forwarded) \in Nat /\ Len(buffer) \in Nat
    BY <2>2, StreamAssumption DEF TypeOK
  <2>4. ForwardsGoodFramesInOrder
    <3>1. Len(forwarded) <= frames /\ (spoiled # 0 => Len(forwarded) < spoiled)
      BY <2>2, <2>3 DEF Good
    <3>2. QED BY <2>2, <3>1 DEF ForwardsGoodFramesInOrder
  <2>5. HonestDeviceIsAccepted /\ FatalLosesNothing
    BY <2>2 DEF HonestDeviceIsAccepted, FatalLosesNothing, Good
  <2>6. NothingHeldBack
    <3> DEFINE f == Len(forwarded)  b == Len(buffer)  g == Len(got)
    <3>1. SUFFICES ASSUME pc = "read" PROVE f = g \div F /\ b = g % F
      BY DEF NothingHeldBack
    <3>2. g = 4 * f + b /\ b < 4 /\ f \in Nat /\ b \in Nat
      BY <2>1, <2>3, <3>1 DEF IInv, InvTaken, EndOf, Within
    <3>3. F = 4
      BY DEF F, Layout
    <3> HIDE DEF f, b, g
    <3>4. g \in Nat /\ 4 \in Nat \ {0} /\ b \in 0 .. 4 - 1
      BY <3>2
    <3>5. g \div 4 \in Nat /\ g % 4 \in 0 .. 4 - 1 /\ g = 4 * (g \div 4) + (g % 4)
      BY <3>4, DivMod, Zenon
    <3> DEFINE q == g \div 4  r == g % 4
    <3>6. q \in Nat /\ r \in 0 .. 3 /\ 4 * f + b = 4 * q + r
      BY <3>2, <3>5
    <3> HIDE DEF q, r
    <3>7. f = q /\ b = r
      BY <3>2, <3>6
    <3>8. QED BY <3>3, <3>7 DEF q, r
  <2>7. QED BY <2>2, <2>4, <2>5, <2>6 DEF FramingIsRight
<1>2. QED BY <1>1, StreamInductive, PTL

\* When the worker gives up a connection the device closed in order, every whole
\* frame has been handed on, unless poll reports the close as a hangup
\* (tcp_device_driver.cpp:89, 96).
THEOREM CloseCorrect == Spec => CloseLosesNothing
<1> DEFINE Closed == ~hup /\ pc = "read" /\ pc' = "connect" /\ peer = "closed" /\ spoiled = 0
                       => Len(forwarded) = frames
<1>1. ASSUME IInv, Next PROVE Closed
  <2>1. SUFFICES ASSUME ~hup, pc = "read", pc' = "connect", peer = "closed", spoiled = 0
                 PROVE  Len(forwarded) = frames
    OBVIOUS
  <2>2. LoseLink
    <3>1. ~SendFrame /\ ~SendMalformed /\ ~SendPart /\ ~EndConnection
      BY <2>1 DEF SendFrame, SendMalformed, SendPart, EndConnection, worker
    <3>2. ~Connect /\ ~Return
      BY <2>1 DEF Connect, Return
    <3>3. ~Read
      BY <2>1 DEF Read, Feed
    <3>4. QED BY <1>1, <3>1, <3>2, <3>3 DEF Next
  <2>3. wire = <<>>
    BY <2>1, <2>2 DEF LoseLink, Driver!ReadLost, Driver!HangsUp
  <2>4. /\ got \in Seq(Cells) /\ frames \in Nat /\ Len(forwarded) \in Nat /\ Len(buffer) \in Nat
        /\ Len(got) = 4 * Len(forwarded) + Len(buffer) /\ Len(buffer) < 4
        /\ Len(forwarded) <= frames
    BY <1>1, <2>1, StreamAssumption DEF IInv, InvType, TypeOK, InvTaken, EndOf, Within, Good
  <2>5. Stream = got
    BY <2>3, <2>4 DEF Stream
  <2>6. Len(got) >= 4 * frames
    BY <1>1, <2>1, <2>5 DEF IInv, InvSent, Begins, Good
  <2>7. QED BY <2>4, <2>6
<1>2. IInv /\ [Next]_vars => [Closed]_vars
  BY <1>1
<1>3. QED BY <1>2, StreamInductive, PTL DEF Spec, CloseLosesNothing

\* Whatever is handed on can be decoded into what the device put in, for fields and
\* words of any size (kc705_tof_decoder.cpp:38).
THEOREM PayloadsCorrect == Spec => []PayloadsAreReadable
<1>1. PayloadsAreReadable
  BY AllWordsSurvive DEF PayloadsAreReadable
<1>2. QED BY <1>1, PTL
=============================================================================
